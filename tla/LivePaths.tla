------------------------------- MODULE LivePaths -------------------------------
(* What it means for a register to be live, by paths: the promise that       *)
(* ComputeLiveness keeps and the encoder relies on.  Blocks are 1..n; use,   *)
(* def and successors are functions on them.                                 *)
EXTENDS Naturals

\* A register is live on entry to a block if a path from the block reads it
\* before any block of the path writes it.  Within[k] looks k blocks ahead.
LiveOnEntry(n, use, def, successors) ==
    LET Within[k \in 0..n] ==
            [b \in 1..n |->
                use[b] \cup IF k = 0 THEN {}
                            ELSE (UNION {Within[k - 1][c] : c \in successors[b]}) \ def[b]]
    IN  Within[n]

LiveOnExit(n, liveOnEntry, successors) ==
    [b \in 1..n |-> UNION {liveOnEntry[c] : c \in successors[b]}]
=============================================================================
