---------------------------- MODULE ComputeLiveness ----------------------------
(***************************************************************************)
(* X8664VirtualInstructionEncoder::ComputeLiveness: sweeps over the blocks *)
(* from the last to the first until one changes nothing.  use and def have *)
(* been collected; blocks are 1..N where the code counts from 0.           *)
(***************************************************************************)
EXTENDS LivePaths

CONSTANTS
    N,          \* number of blocks
    Variables   \* virtual registers

ASSUME CountAssumption == N \in Nat

Blocks == 1..N

VARIABLES
    use, def, successors,   \* of each block, fixed
    liveIn, liveOut,
    changed,
    next        \* the block the sweep visits next, 0 at its end

vars == <<use, def, successors, liveIn, liveOut, changed, next>>
graph == <<use, def, successors>>

Sets == [Blocks -> SUBSET Variables]

TypeOK ==
    /\ use \in Sets /\ def \in Sets
    /\ successors \in [Blocks -> SUBSET Blocks]
    /\ liveIn \in Sets /\ liveOut \in Sets
    /\ changed \in BOOLEAN
    /\ next \in 0..N

Init ==
    /\ use \in Sets /\ def \in Sets
    /\ successors \in [Blocks -> SUBSET Blocks]
    /\ liveIn = [b \in Blocks |-> {}]
    /\ liveOut = [b \in Blocks |-> {}]
    /\ changed = TRUE
    /\ next = 0

\* Mutant: the sweep starts one block past the last.
SweepFromCount ==
    /\ next = 0 /\ changed
    /\ changed' = FALSE /\ next' = N + 1
    /\ UNCHANGED <<use, def, successors, liveIn, liveOut>>

\* Mutant: the flag is not cleared before a sweep.
SweepKeepingFlag ==
    /\ next = 0 /\ changed
    /\ changed' = changed /\ next' = N
    /\ UNCHANGED <<use, def, successors, liveIn, liveOut>>

\* for (bool changed = true; changed;)
Sweep ==
    /\ next = 0
    /\ changed
    /\ changed' = FALSE
    /\ next' = N
    /\ UNCHANGED <<use, def, successors, liveIn, liveOut>>

OfSuccessors(b) == UNION {liveIn[c] : c \in successors[b]}
\* Mutant: what the block writes is still live before it.
EnteringUnwritten(b, out) == use[b] \cup out

Entering(b, out) == use[b] \cup (out \ def[b])

\* Mutant: each block overwrites the flag, so only the last visited one counts.
VisitOverwritingFlag ==
    LET out == liveOut[next] \cup OfSuccessors(next)
        in == liveIn[next] \cup Entering(next, out)
    IN  /\ next > 0
        /\ liveOut' = [liveOut EXCEPT ![next] = out]
        /\ liveIn' = [liveIn EXCEPT ![next] = in]
        /\ changed' = (out # liveOut[next] \/ in # liveIn[next])
        /\ next' = next - 1
        /\ UNCHANGED <<use, def, successors>>

Visit ==
    LET out == liveOut[next] \cup OfSuccessors(next)
        in == liveIn[next] \cup Entering(next, out)
    IN  /\ next > 0
        /\ liveOut' = [liveOut EXCEPT ![next] = out]
        /\ liveIn' = [liveIn EXCEPT ![next] = in]
        /\ changed' = (changed \/ out # liveOut[next] \/ in # liveIn[next])
        /\ next' = next - 1
        /\ UNCHANGED <<use, def, successors>>

Next == Sweep \/ Visit

Spec == Init /\ [][Next]_vars
FairSpec == Spec /\ WF_vars(Next)   \* the loop is sequential code: it goes on

-----------------------------------------------------------------------------
(* Properties *)

Done == next = 0 /\ ~changed

\* When the loop ends its sets solve the equations of liveness, although the
\* last sweep that changed something may have used sets that grew after it.
Solved ==
    Done => \A b \in Blocks : /\ liveOut[b] = OfSuccessors(b)
                              /\ liveIn[b] = Entering(b, liveOut[b])

\* The registers found are those some path reads before it writes them.  None is
\* ever reported that is not (BeginBlock would look for it in a slot nobody
\* filled), and when the loop ends none is missed (nobody would store it).
FindsLivePaths ==
    LET onPaths == LiveOnEntry(N, use, def, successors)
    IN  \A b \in Blocks : /\ liveIn[b] \subseteq onPaths[b]
                          /\ Done => onPaths[b] \subseteq liveIn[b]

\* The loop ends.
Terminates == <>Done
=============================================================================
