-------------------------------- MODULE Words --------------------------------
(***************************************************************************)
(* Machine words: sequences of bytes, the lowest first; and buffers.       *)
(***************************************************************************)
EXTENDS Integers, Sequences

Sum(a, b, carry) ==
    LET c[i \in 0 .. Len(a)] == IF i = 0 THEN carry ELSE (a[i] + b[i] + c[i - 1]) \div 256
    IN  [i \in DOMAIN a |-> (a[i] + b[i] + c[i - 1]) % 256]

Plus(a, b) == Sum(a, b, 0)
Minus(a, b) == Sum(a, [i \in DOMAIN b |-> 255 - b[i]], 1)

Below(a, b) == \E i \in DOMAIN a : a[i] < b[i] /\ \A j \in i + 1 .. Len(a) : a[j] = b[j]
Flipped(a) == [a EXCEPT ![Len(a)] = (@ + 128) % 256]
Less(a, b) == Below(Flipped(a), Flipped(b))

(* What a write of so many bytes makes of a register. *)
Written(old, bytes) ==
    CASE Len(bytes) = 8 -> bytes
      [] Len(bytes) = 4 -> bytes \o <<0, 0, 0, 0>>
      [] OTHER -> bytes \o SubSeq(old, Len(bytes) + 1, 8)

FirstBytes(word, width) == SubSeq(word, 1, width \div 8)

(* Addresses are small numbers. *)
IsAddress(word) == \A i \in 4 .. 8 : word[i] = 0
AddressIn(word) == word[1] + 256 * word[2] + 65536 * word[3]
WordOf(n) == <<n % 256, (n \div 256) % 256, n \div 65536, 0, 0, 0, 0, 0>>

(* Every byte the same. *)
Filled(byte, n) == [i \in 1 .. n |-> byte]

-----------------------------------------------------------------------------
(* A buffer of bytes whose contents matter by the item: a function from    *)
(* offsets to the item that begins there and the bytes it takes.  Writing  *)
(* over part of an item destroys it.                                       *)

EmptyCells == [a \in {} |-> [size |-> 0, item |-> ""]]

Overlap(a, m, b, n) == a < b + n /\ b < a + m

WriteCell(cells, at, size, item) ==
    LET kept == {a \in DOMAIN cells : ~Overlap(a, cells[a].size, at, size)}
    IN  [a \in kept \cup {at} |-> IF a = at THEN [size |-> size, item |-> item] ELSE cells[a]]

With(function, key, value) ==
    [k \in DOMAIN function \cup {key} |-> IF k = key THEN value ELSE function[k]]

(* Reading finds an item only where one begins, whole and of that size.    *)
HasCell(cells, at, size) == at \in DOMAIN cells /\ cells[at].size = size

CellAt(cells, at) == cells[at].item
=============================================================================
