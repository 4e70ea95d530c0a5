---------------------------- MODULE MCEncoding ----------------------------
(* Registers of every encoding class, displacements and immediates on both *)
(* sides of every bound the encoders test.                                 *)
EXTENDS Encoding

(* rax and its short forms, rsp and r12 (SIB), rbp and r13 (no mod 0),     *)
(* sil, and r9.                                                            *)
MCRegisters == {0, 1, 4, 5, 6, 9, 12, 13, 15}

MCDisplacements == {0, 127, -128, 128, -129}

MCCounts == {0, 1, 63, 255}

MCOffsets == {0, 5, 127, -128, 128, -2147483643, 2147483647}

Bytes4(b1, b2, b3, b4, rest) == <<b1, b2, b3, b4, rest, rest, rest, rest>>

MCImmediates ==
    {Bytes4(b, 0, 0, 0, 0) : b \in {0, 1, 126, 127, 128, 255}}      \* 0 .. 255
    \cup {Bytes4(b, 255, 255, 255, 255) : b \in {255, 128, 127}}    \* -1, -128, -129
    \cup {Bytes4(255, 127, 0, 0, 0), Bytes4(0, 128, 0, 0, 0),        \* INT16_MAX and above
          Bytes4(255, 255, 0, 0, 0), Bytes4(0, 0, 1, 0, 0),          \* UINT16_MAX and above
          Bytes4(0, 128, 255, 255, 255), Bytes4(255, 127, 255, 255, 255),
          Bytes4(255, 255, 255, 127, 0), Bytes4(0, 0, 0, 128, 0),    \* INT32_MAX and above
          Bytes4(255, 255, 255, 255, 0), <<0, 0, 0, 0, 1, 0, 0, 0>>, \* UINT32_MAX and above
          Bytes4(0, 0, 0, 128, 255), Bytes4(255, 255, 255, 127, 255),
          <<1, 2, 3, 4, 5, 6, 7, 8>>}

MCIndexedMemories ==
    {MemIndexed(b, i, s, d) :
        b \in {0, 4, 5, 13, NoRegister}, i \in {0, 5, 12}, s \in {1, 4, 8}, d \in {0, -8, 4096}}
===========================================================================
