--------------------- MODULE MCPhysicalRegisterAllocator ---------------------
(* A pool of three registers, three virtual registers and two guards: enough *)
(* for exhaustion with every register owned by a different kind of client.   *)
EXTENDS PhysicalRegisterAllocator

CONSTANTS rax, rcx, rdx

MCPool == <<rax, rcx, rdx>>
=============================================================================
