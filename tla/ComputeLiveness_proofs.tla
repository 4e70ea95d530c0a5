------------------------- MODULE ComputeLiveness_proofs -------------------------
(***************************************************************************)
(* For every function: the sweeps of ComputeLiveness keep their types, the *)
(* sets they end with solve the equations of liveness, no solution is      *)
(* smaller, and they are what LivePaths says by paths.                     *)
(***************************************************************************)
EXTENDS ComputeLiveness, Induction, TLAPS

\* Every action changes only sets of registers, the flag and the counter.
THEOREM TypeCorrect == Spec => []TypeOK
<1>1. Init => TypeOK
  BY CountAssumption DEF Init, TypeOK, Sets, Blocks
<1>2. TypeOK /\ [Next]_vars => TypeOK'
  <2> SUFFICES ASSUME TypeOK, [Next]_vars PROVE TypeOK'
    OBVIOUS
  <2>1. CASE Sweep
    <3>1. changed' = FALSE /\ next' = N /\ UNCHANGED <<use, def, successors, liveIn, liveOut>>
      BY <2>1 DEF Sweep
    <3>2. next' \in 0..N
      BY <3>1, CountAssumption
    <3> QED
      BY <3>1, <3>2 DEF TypeOK
  <2>2. CASE Visit
    <3> DEFINE out == liveOut[next] \cup OfSuccessors(next)
               in == liveIn[next] \cup Entering(next, out)
    <3>1. next \in Blocks /\ next - 1 \in 0..N
      BY <2>2, CountAssumption DEF TypeOK, Visit, Blocks
    <3>2. out \in SUBSET Variables
      BY <3>1 DEF TypeOK, Sets, OfSuccessors
    <3>3. in \in SUBSET Variables
      BY <3>1, <3>2 DEF TypeOK, Sets, Entering
    <3>4. /\ liveOut' = [liveOut EXCEPT ![next] = out]
          /\ liveIn' = [liveIn EXCEPT ![next] = in]
          /\ changed' \in BOOLEAN
          /\ next' = next - 1
          /\ UNCHANGED <<use, def, successors>>
      BY <2>2 DEF Visit
    <3> QED
      BY <3>1, <3>2, <3>3, <3>4 DEF TypeOK, Sets
  <2>3. CASE UNCHANGED vars
    BY <2>3 DEF TypeOK, vars
  <2> QED
    BY <2>1, <2>2, <2>3 DEF Next
<1> QED
  BY <1>1, <1>2, PTL DEF Spec

-----------------------------------------------------------------------------

\* No set runs ahead of the sets it is computed from.
NotAhead ==
    \A b \in Blocks : /\ liveOut[b] \subseteq OfSuccessors(b)
                      /\ liveIn[b] \subseteq Entering(b, liveOut[b])

\* While a sweep has changed nothing, the blocks it has visited are not behind.
VisitedUpToDate ==
    ~changed => \A b \in Blocks :
                    b > next => /\ OfSuccessors(b) \subseteq liveOut[b]
                                /\ Entering(b, liveOut[b]) \subseteq liveIn[b]

IInv == TypeOK /\ NotAhead /\ VisitedUpToDate

\* What a visit does, without its local definitions.
LEMMA VisitStep ==
  ASSUME TypeOK, Visit
  PROVE  /\ next \in Blocks
         /\ next' = next - 1
         /\ liveOut' = [liveOut EXCEPT ![next] = @ \cup OfSuccessors(next)]
         /\ liveIn' = [liveIn EXCEPT ![next] = @ \cup Entering(next, liveOut'[next])]
         /\ changed' = (changed \/ liveOut' # liveOut \/ liveIn' # liveIn)
         /\ UNCHANGED <<use, def, successors>>
<1> DEFINE out == liveOut[next] \cup OfSuccessors(next)
           in == liveIn[next] \cup Entering(next, out)
<1>1. next \in Blocks
  BY CountAssumption DEF TypeOK, Visit, Blocks
<1>2. /\ liveOut' = [liveOut EXCEPT ![next] = out]
      /\ liveIn' = [liveIn EXCEPT ![next] = in]
      /\ changed' = (changed \/ out # liveOut[next] \/ in # liveIn[next])
      /\ next' = next - 1
      /\ UNCHANGED <<use, def, successors>>
  BY DEF Visit
<1>3. liveOut \in Sets /\ liveIn \in Sets
  BY DEF TypeOK
<1>4. liveOut'[next] = out /\ liveIn'[next] = in
  BY <1>1, <1>2, <1>3 DEF Sets
<1>5. (liveOut' # liveOut) <=> (out # liveOut[next])
  BY <1>1, <1>2, <1>3, <1>4 DEF Sets
<1>6. (liveIn' # liveIn) <=> (in # liveIn[next])
  BY <1>1, <1>2, <1>3, <1>4 DEF Sets
<1> QED
  BY <1>1, <1>2, <1>4, <1>5, <1>6

\* The sets only grow.
LEMMA VisitGrows ==
  ASSUME TypeOK, Visit, NEW b \in Blocks
  PROVE  /\ liveOut[b] \subseteq liveOut'[b]
         /\ liveIn[b] \subseteq liveIn'[b]
         /\ OfSuccessors(b) \subseteq OfSuccessors(b)'
<1>1. /\ \A c \in Blocks : liveIn[c] \subseteq liveIn'[c]
      /\ liveOut[b] \subseteq liveOut'[b]
  BY VisitStep DEF TypeOK, Sets
<1>2. successors' = successors /\ successors[b] \subseteq Blocks
  BY VisitStep DEF TypeOK
<1>3. OfSuccessors(b) \subseteq OfSuccessors(b)'
  BY <1>1, <1>2 DEF OfSuccessors
<1> QED
  BY <1>1, <1>3

LEMMA InductiveInvariant == Spec => []IInv
<1>1. Init => IInv
  <2> SUFFICES ASSUME Init PROVE NotAhead /\ VisitedUpToDate
    BY CountAssumption DEF Init, IInv, TypeOK, Sets, Blocks
  <2>1. NotAhead
    BY DEF Init, NotAhead
  <2>2. VisitedUpToDate
    BY DEF Init, VisitedUpToDate
  <2> QED
    BY <2>1, <2>2
<1>2. TypeOK /\ TypeOK' /\ IInv /\ [Next]_vars => IInv'
  <2> SUFFICES ASSUME TypeOK, TypeOK', NotAhead, VisitedUpToDate, [Next]_vars
               PROVE  NotAhead' /\ VisitedUpToDate'
    BY DEF IInv
  <2>1. CASE Sweep
    <3>1. UNCHANGED <<use, def, successors, liveIn, liveOut>> /\ next' = N
      BY <2>1 DEF Sweep
    <3>2. NotAhead'
      BY <3>1 DEF NotAhead, OfSuccessors, Entering
    <3>3. VisitedUpToDate'
      BY <3>1, CountAssumption DEF VisitedUpToDate, Blocks
    <3> QED
      BY <3>2, <3>3
  <2>2. CASE Visit
    <3>1. NotAhead'
      <4> SUFFICES ASSUME NEW b \in Blocks
                   PROVE  /\ liveOut'[b] \subseteq OfSuccessors(b)'
                          /\ liveIn'[b] \subseteq Entering(b, liveOut[b])'
        BY DEF NotAhead
      <4>1. OfSuccessors(b) \subseteq OfSuccessors(b)' /\ liveOut[b] \subseteq liveOut'[b]
        BY <2>2, VisitGrows
      <4>2. liveOut'[b] \subseteq liveOut[b] \cup OfSuccessors(b)
        BY <2>2, VisitStep DEF TypeOK, Sets
      <4>3. liveOut'[b] \subseteq OfSuccessors(b)'
        BY <4>1, <4>2 DEF NotAhead
      <4>4. use' = use /\ def' = def
        BY <2>2, VisitStep
      <4>5. liveIn'[b] \subseteq liveIn[b] \cup Entering(b, liveOut'[b])
        BY <2>2, VisitStep DEF TypeOK, Sets
      <4>6. liveIn[b] \subseteq Entering(b, liveOut'[b])
        BY <4>1 DEF NotAhead, Entering
      <4>7. Entering(b, liveOut[b])' = Entering(b, liveOut'[b])
        BY <4>4 DEF Entering
      <4> QED
        BY <4>3, <4>5, <4>6, <4>7
    <3>2. VisitedUpToDate'
      <4> SUFFICES ASSUME ~changed', NEW b \in Blocks, b > next'
                   PROVE  /\ OfSuccessors(b)' \subseteq liveOut'[b]
                          /\ Entering(b, liveOut[b])' \subseteq liveIn'[b]
        BY DEF VisitedUpToDate
      <4>1. /\ ~changed /\ liveOut' = liveOut /\ liveIn' = liveIn
            /\ UNCHANGED <<use, def, successors>>
            /\ next' = next - 1 /\ next \in Blocks
        BY <2>2, VisitStep
      <4>2. OfSuccessors(b)' = OfSuccessors(b) /\ Entering(b, liveOut[b])' = Entering(b, liveOut[b])
        BY <4>1 DEF OfSuccessors, Entering
      <4>3. CASE b = next
        BY <4>1, <4>2, <4>3, <2>2, VisitStep DEF TypeOK, Sets
      <4>4. CASE b # next
        <5>1. b > next
          BY <4>1, <4>4, CountAssumption DEF Blocks
        <5> QED
          BY <5>1, <4>1, <4>2 DEF VisitedUpToDate
      <4> QED
        BY <4>3, <4>4
    <3> QED
      BY <3>1, <3>2
  <2>3. CASE UNCHANGED vars
    BY <2>3 DEF NotAhead, VisitedUpToDate, OfSuccessors, Entering, vars
  <2> QED
    BY <2>1, <2>2, <2>3 DEF Next
<1> QED
  BY <1>1, <1>2, TypeCorrect, PTL DEF Spec

\* When ComputeLiveness returns, its sets solve the equations of liveness.
THEOREM SolvesEquations == Spec => []Solved
<1>1. IInv => Solved
  <2> SUFFICES ASSUME IInv, Done, NEW b \in Blocks
               PROVE  /\ liveOut[b] = OfSuccessors(b)
                      /\ liveIn[b] = Entering(b, liveOut[b])
    BY DEF Solved
  <2>1. b > next /\ ~changed
    BY CountAssumption DEF Done, Blocks
  <2> QED
    BY <2>1 DEF IInv, NotAhead, VisitedUpToDate
<1> QED
  BY <1>1, InductiveInvariant, PTL

-----------------------------------------------------------------------------

\* live is closed: it holds what a block reads and what its successors need.
Closed(live) ==
    \A b \in Blocks : Entering(b, UNION {live[c] : c \in successors[b]}) \subseteq live[b]

\* Every closed assignment contains what has been found so far.
BelowEverySolution ==
    \A live \in Sets : Closed(live) => \A b \in Blocks : liveIn[b] \subseteq live[b]

\* ComputeLiveness never reports a register that some solution of the equations
\* does without: its result is the least one.
THEOREM LeastSolution == Spec => []BelowEverySolution
<1>1. Init => BelowEverySolution
  BY DEF Init, BelowEverySolution
<1>2. TypeOK /\ NotAhead /\ BelowEverySolution /\ [Next]_vars => BelowEverySolution'
  <2> SUFFICES ASSUME TypeOK, NotAhead, BelowEverySolution, [Next]_vars,
                      NEW live \in Sets, Closed(live)', NEW b \in Blocks
               PROVE  liveIn'[b] \subseteq live[b]
    BY DEF BelowEverySolution
  <2>1. UNCHANGED graph
    BY DEF Next, Sweep, Visit, vars, graph
  <2>2. Closed(live)
    BY <2>1 DEF Closed, Entering, graph
  <2>3. \A c \in Blocks : liveIn[c] \subseteq live[c]
    BY <2>2 DEF BelowEverySolution
  <2>4. CASE Visit
    <3>1. OfSuccessors(b) \subseteq UNION {live[c] : c \in successors[b]}
      BY <2>3 DEF OfSuccessors, TypeOK
    <3>2. liveOut'[b] \subseteq OfSuccessors(b)
      BY <2>4, VisitStep DEF TypeOK, Sets, NotAhead
    <3>3. Entering(b, liveOut'[b]) \subseteq live[b]
      BY <3>1, <3>2, <2>2 DEF Closed, Entering
    <3>4. liveIn'[b] \subseteq liveIn[b] \cup Entering(b, liveOut'[b])
      BY <2>4, VisitStep DEF TypeOK, Sets
    <3> QED
      BY <2>3, <3>3, <3>4
  <2>5. CASE Sweep \/ UNCHANGED vars
    <3>1. liveIn' = liveIn
      BY <2>5 DEF Sweep, vars
    <3> QED
      BY <3>1, <2>3
  <2> QED
    BY <2>4, <2>5 DEF Next
<1>3. IInv => TypeOK /\ NotAhead
  BY DEF IInv
<1> QED
  BY <1>1, <1>2, <1>3, InductiveInvariant, PTL DEF Spec

-----------------------------------------------------------------------------
(* The paths.  LiveOnEntry looks N blocks ahead.  That its recursive        *)
(* function exists, that the sets it makes grow with the blocks they look   *)
(* ahead, and that after N blocks there is nothing more to find, are proved *)
(* by induction, for which a set of numbers stands in for the formula.      *)

\* What is live before a block if live is after it.
Before(live) == [b \in Blocks |-> use[b] \cup ((UNION {live[c] : c \in successors[b]}) \ def[b])]

\* The sets found by looking up to m blocks ahead.
LooksAhead(within, m) ==
    /\ DOMAIN within = 0..m
    /\ within[0] = [b \in Blocks |-> use[b]]
    /\ \A k \in 1..m : within[k] = Before(within[k - 1])

Recursion(within, m) ==
    within = [k \in 0..m |-> [b \in Blocks |->
                use[b] \cup IF k = 0 THEN {} ELSE (UNION {within[k - 1][c] : c \in successors[b]}) \ def[b]]]

LEMMA RecursionLooksAhead ==
  ASSUME NEW m \in Nat, NEW within, Recursion(within, m)
  PROVE  LooksAhead(within, m)
<1>1. DOMAIN within = 0..m
  BY DEF Recursion
<1>2. within[0] = [b \in Blocks |-> use[b]]
  BY DEF Recursion
<1>3. ASSUME NEW k \in 1..m PROVE within[k] = Before(within[k - 1])
  <2>1. k \in 0..m /\ k # 0
    OBVIOUS
  <2>2. within[k] = [b \in Blocks |->
                       use[b] \cup IF k = 0 THEN {} ELSE (UNION {within[k - 1][c] : c \in successors[b]}) \ def[b]]
    BY <2>1 DEF Recursion
  <2> QED BY <2>1, <2>2 DEF Before
<1> QED BY <1>1, <1>2, <1>3 DEF LooksAhead

\* There is such a function.
LEMMA RecursionExists == \A m \in Nat : \E within : Recursion(within, m)
<1> DEFINE A == {m \in Nat : \E within : Recursion(within, m)}
           Start == [b \in Blocks |-> use[b]]
<1>1. 0 \in A
  <2> DEFINE w == [k \in 0..0 |-> Start]
  <2>1. Recursion(w, 0)
    <3>1. \A k \in 0..0 : k = 0
      OBVIOUS
    <3>2. \A k \in 0..0 :
            Start = [b \in Blocks |-> use[b] \cup IF k = 0 THEN {} ELSE (UNION {w[k - 1][c] : c \in successors[b]}) \ def[b]]
      BY <3>1
    <3> QED BY <3>2 DEF Recursion
  <2> QED BY <2>1
<1>2. ASSUME NEW m \in Nat, m \in A PROVE m + 1 \in A
  <2>1. PICK w : Recursion(w, m)
    BY <1>2
  <2> DEFINE x == [k \in 0..m + 1 |-> IF k <= m THEN w[k] ELSE Before(w[m])]
  <2>2. ASSUME NEW k \in 0..m + 1
        PROVE  x[k] = [b \in Blocks |->
                        use[b] \cup IF k = 0 THEN {} ELSE (UNION {x[k - 1][c] : c \in successors[b]}) \ def[b]]
    <3>1. CASE k <= m
      <4>1. k \in 0..m /\ x[k] = w[k] /\ (k # 0 => x[k - 1] = w[k - 1])
        BY <3>1
      <4>2. w[k] = [b \in Blocks |->
                      use[b] \cup IF k = 0 THEN {} ELSE (UNION {w[k - 1][c] : c \in successors[b]}) \ def[b]]
        BY <2>1, <4>1 DEF Recursion
      <4> HIDE DEF x
      <4> QED BY <4>1, <4>2
    <3>2. CASE k = m + 1
      <4>1. x[k] = Before(w[m]) /\ x[k - 1] = w[m] /\ k # 0
        BY <3>2
      <4> HIDE DEF x
      <4> QED BY <4>1 DEF Before
    <3> QED BY <3>1, <3>2
  <2>3. Recursion(x, m + 1)
    <3>1. x = [k \in 0..m + 1 |-> x[k]]
      OBVIOUS
    <3> HIDE DEF x
    <3> QED BY <2>2, <3>1 DEF Recursion
  <2> QED BY <2>3
<1> HIDE DEF A
<1>3. \A m \in Nat : m \in A
  BY <1>1, <1>2, InductionOverNat
<1> QED BY <1>3 DEF A

LEMMA EntryLooksAhead ==
  ASSUME TypeOK
  PROVE  \E within : LooksAhead(within, N) /\ LiveOnEntry(N, use, def, successors) = within[N]
<1> DEFINE within == CHOOSE w : Recursion(w, N)
<1>1. Recursion(within, N)
  BY CountAssumption, RecursionExists
<1>2. LiveOnEntry(N, use, def, successors) = within[N]
  BY DEF LiveOnEntry, Recursion, Blocks
<1> HIDE DEF within
<1> QED BY <1>1, <1>2, CountAssumption, RecursionLooksAhead

LEMMA BeforeMember ==
  ASSUME NEW live, NEW b \in Blocks, NEW v
  PROVE  v \in Before(live)[b] <=> v \in use[b] \/ (v \notin def[b] /\ \E c \in successors[b] : v \in live[c])
<1>1. Before(live)[b] = use[b] \cup ((UNION {live[c] : c \in successors[b]}) \ def[b])
  BY DEF Before
<1>2. v \in UNION {live[c] : c \in successors[b]} <=> \E c \in successors[b] : v \in live[c]
  OBVIOUS
<1> QED BY <1>1, <1>2

LEMMA BeforeMonotone ==
  ASSUME TypeOK, NEW small, NEW large, \A c \in Blocks : small[c] \subseteq large[c], NEW b \in Blocks
  PROVE  Before(small)[b] \subseteq Before(large)[b]
<1>1. successors[b] \subseteq Blocks
  BY DEF TypeOK
<1> SUFFICES ASSUME NEW v \in Before(small)[b] PROVE v \in Before(large)[b]
  OBVIOUS
<1>2. v \in use[b] \/ (v \notin def[b] /\ \E c \in successors[b] : v \in small[c])
  BY BeforeMember
<1>3. v \in use[b] \/ (v \notin def[b] /\ \E c \in successors[b] : v \in large[c])
  BY <1>1, <1>2
<1> QED BY <1>3, BeforeMember

\* Looking further finds no less.
LEMMA AheadGrows ==
  ASSUME TypeOK, NEW w, LooksAhead(w, N)
  PROVE  \A i \in Nat : \A j \in Nat : j + i <= N => \A b \in Blocks : w[j][b] \subseteq w[j + i][b]
<1>1. \A k \in Nat : k + 1 <= N => \A b \in Blocks : w[k][b] \subseteq w[k + 1][b]
  <2> DEFINE A == {k \in Nat : k + 1 <= N => \A b \in Blocks : w[k][b] \subseteq w[k + 1][b]}
  <2>1. 0 \in A
    <3> SUFFICES ASSUME 0 + 1 <= N, NEW b \in Blocks PROVE w[0][b] \subseteq w[0 + 1][b]
      OBVIOUS
    <3>1. 1 \in 1..N /\ 1 - 1 = 0 /\ 0 + 1 = 1
      BY CountAssumption
    <3>2. w[0][b] = use[b] /\ w[1] = Before(w[0])
      BY <3>1 DEF LooksAhead
    <3> QED BY <3>1, <3>2 DEF Before
  <2>2. ASSUME NEW k \in Nat, k \in A PROVE k + 1 \in A
    <3> SUFFICES ASSUME k + 1 + 1 <= N, NEW b \in Blocks PROVE w[k + 1][b] \subseteq w[k + 1 + 1][b]
      OBVIOUS
    <3>1. k + 1 \in 1..N /\ k + 1 + 1 \in 1..N /\ k + 1 - 1 = k /\ k + 1 + 1 - 1 = k + 1 /\ k + 1 <= N
      BY CountAssumption
    <3>2. w[k + 1] = Before(w[k]) /\ w[k + 1 + 1] = Before(w[k + 1])
      BY <3>1 DEF LooksAhead
    <3>3. \A c \in Blocks : w[k][c] \subseteq w[k + 1][c]
      BY <2>2, <3>1
    <3> QED BY <3>2, <3>3, BeforeMonotone
  <2> HIDE DEF A
  <2>3. \A k \in Nat : k \in A
    BY <2>1, <2>2, InductionOverNat
  <2> QED BY <2>3 DEF A
<1> DEFINE A == {i \in Nat : \A j \in Nat : j + i <= N => \A b \in Blocks : w[j][b] \subseteq w[j + i][b]}
<1>2. 0 \in A
  <2>1. \A j \in Nat : j + 0 = j
    OBVIOUS
  <2> QED BY <2>1
<1>3. ASSUME NEW i \in Nat, i \in A PROVE i + 1 \in A
  <2> SUFFICES ASSUME NEW j \in Nat, j + (i + 1) <= N, NEW b \in Blocks
               PROVE  w[j][b] \subseteq w[j + (i + 1)][b]
    OBVIOUS
  <2>1. j + i \in Nat /\ j + i <= N /\ j + i + 1 <= N /\ j + i + 1 = j + (i + 1)
    BY CountAssumption
  <2>2. w[j][b] \subseteq w[j + i][b]
    BY <1>3, <2>1
  <2>3. w[j + i][b] \subseteq w[j + i + 1][b]
    BY <1>1, <2>1
  <2> QED BY <2>1, <2>2, <2>3
<1> HIDE DEF A
<1>4. \A i \in Nat : i \in A
  BY <1>2, <1>3, InductionOverNat
<1> QED BY <1>4 DEF A

\* The blocks a register is live before, looking k blocks ahead.
LiveAt(w, k, v) == {b \in Blocks : v \in w[k][b]}

\* It is decided by where it is live looking one block less far.
LEMMA LiveAtNext ==
  ASSUME TypeOK, NEW w, LooksAhead(w, N), NEW v, NEW k \in Nat, k + 1 <= N
  PROVE  LiveAt(w, k + 1, v)
         = {b \in Blocks : v \in use[b] \/ (v \notin def[b] /\ \E c \in successors[b] : c \in LiveAt(w, k, v))}
<1>1. k + 1 \in 1..N /\ k + 1 - 1 = k
  BY CountAssumption
<1>2. w[k + 1] = Before(w[k])
  BY <1>1 DEF LooksAhead
<1>3. \A b \in Blocks : successors[b] \subseteq Blocks
  BY DEF TypeOK
<1>4. \A b \in Blocks :
        v \in w[k + 1][b] <=> v \in use[b] \/ (v \notin def[b] /\ \E c \in successors[b] : v \in w[k][c])
  BY <1>2, BeforeMember
<1> QED BY <1>3, <1>4 DEF LiveAt

\* Looking one block further found nothing new: nor will looking on.
LEMMA StaysAsItIs ==
  ASSUME TypeOK, NEW w, LooksAhead(w, N), NEW v, NEW k \in Nat, LiveAt(w, k, v) = LiveAt(w, k + 1, v)
  PROVE  \A i \in Nat : k + i + 1 <= N => LiveAt(w, k + i, v) = LiveAt(w, k + i + 1, v)
<1> DEFINE A == {i \in Nat : k + i + 1 <= N => LiveAt(w, k + i, v) = LiveAt(w, k + i + 1, v)}
<1>1. 0 \in A
  <2>1. k + 0 = k
    OBVIOUS
  <2> QED BY <2>1
<1>2. ASSUME NEW i \in Nat, i \in A PROVE i + 1 \in A
  <2> SUFFICES ASSUME k + (i + 1) + 1 <= N PROVE LiveAt(w, k + (i + 1), v) = LiveAt(w, k + (i + 1) + 1, v)
    OBVIOUS
  <2>1. k + (i + 1) = k + i + 1 /\ k + i + 1 + 1 <= N /\ k + i + 1 <= N /\ k + i \in Nat /\ k + i + 1 \in Nat
    BY CountAssumption
  <2>2. LiveAt(w, k + i, v) = LiveAt(w, k + i + 1, v)
    BY <1>2, <2>1
  <2> DEFINE n == k + i
             m == k + i + 1
  <2>3. /\ LiveAt(w, n + 1, v)
           = {b \in Blocks : v \in use[b] \/ (v \notin def[b] /\ \E c \in successors[b] : c \in LiveAt(w, n, v))}
        /\ n + 1 = m
    BY <2>1, LiveAtNext
  <2>4. LiveAt(w, m + 1, v)
        = {b \in Blocks : v \in use[b] \/ (v \notin def[b] /\ \E c \in successors[b] : c \in LiveAt(w, m, v))}
    BY <2>1, LiveAtNext
  <2>5. LiveAt(w, m, v) = LiveAt(w, m + 1, v)
    BY <2>2, <2>3, <2>4
  <2> QED BY <2>1, <2>5
<1> HIDE DEF A
<1>3. \A i \in Nat : i \in A
  BY <1>1, <1>2, InductionOverNat
<1> QED BY <1>3 DEF A

\* Every block further than the first finds a new block or there is none left
\* to find, and there are N blocks.
LEMMA NothingFurther ==
  ASSUME TypeOK, NEW w, LooksAhead(w, N), NEW v, N # 0
  PROVE  LiveAt(w, N - 1, v) = LiveAt(w, N, v)
<1>0. N \in Nat /\ N - 1 \in Nat /\ N - 1 + 1 = N
  BY CountAssumption
<1> SUFFICES ASSUME LiveAt(w, N - 1, v) # LiveAt(w, N, v) PROVE FALSE
  OBVIOUS
<1>1. ASSUME NEW k \in Nat, k + 1 <= N PROVE LiveAt(w, k, v) # LiveAt(w, k + 1, v)
  <2> SUFFICES ASSUME LiveAt(w, k, v) = LiveAt(w, k + 1, v) PROVE FALSE
    OBVIOUS
  <2> DEFINE i == N - 1 - k
  <2>1. i \in Nat /\ k + i = N - 1 /\ k + i + 1 = N
    BY <1>0, <1>1
  <2>2. \A j \in Nat : k + j + 1 <= N => LiveAt(w, k + j, v) = LiveAt(w, k + j + 1, v)
    BY StaysAsItIs
  <2> HIDE DEF i
  <2> QED BY <1>0, <2>1, <2>2
<1>2. \A j, k \in 0..N : j <= k => LiveAt(w, j, v) \subseteq LiveAt(w, k, v)
  <2> SUFFICES ASSUME NEW j \in 0..N, NEW k \in 0..N, j <= k PROVE LiveAt(w, j, v) \subseteq LiveAt(w, k, v)
    OBVIOUS
  <2> DEFINE i == k - j
  <2>1. i \in Nat /\ j + i = k /\ j \in Nat /\ k <= N
    BY <1>0
  <2>2. \A b \in Blocks : w[j][b] \subseteq w[j + i][b]
    BY <2>1, AheadGrows
  <2> QED BY <2>1, <2>2 DEF LiveAt
\* The block that is new looking k blocks ahead.
<1> DEFINE New(k, b) == b \in LiveAt(w, k, v) /\ (k # 0 => b \notin LiveAt(w, k - 1, v))
           f == [k \in 0..N |-> CHOOSE b \in Blocks : New(k, b)]
<1>3. ASSUME NEW k \in 0..N PROVE \E b \in Blocks : New(k, b)
  <2>1. CASE k = 0
    <3>1. SUFFICES LiveAt(w, 0, v) # {}
      BY <2>1 DEF LiveAt
    <3> SUFFICES ASSUME LiveAt(w, 0, v) = {} PROVE FALSE
      OBVIOUS
    <3>2. \A b \in Blocks : v \notin use[b]
      BY DEF LiveAt, LooksAhead
    <3>3. 0 \in Nat /\ 0 + 1 <= N
      BY <1>0
    <3>4. LiveAt(w, 0 + 1, v)
          = {b \in Blocks : v \in use[b] \/ (v \notin def[b] /\ \E c \in successors[b] : c \in LiveAt(w, 0, v))}
      BY <3>3, LiveAtNext
    <3>5. LiveAt(w, 0 + 1, v) = {}
      BY <3>2, <3>4
    <3> QED BY <1>1, <3>3, <3>5
  <2>2. CASE k # 0
    <3>1. k - 1 \in Nat /\ k - 1 + 1 = k /\ k - 1 + 1 <= N /\ k - 1 \in 0..N /\ k - 1 <= k
      BY <1>0, <2>2
    <3>2. LiveAt(w, k - 1, v) # LiveAt(w, k, v)
      BY <1>1, <3>1
    <3>3. LiveAt(w, k - 1, v) \subseteq LiveAt(w, k, v)
      BY <1>2, <3>1
    <3>4. PICK b \in LiveAt(w, k, v) : b \notin LiveAt(w, k - 1, v)
      BY <3>2, <3>3
    <3> QED BY <2>2, <3>4 DEF LiveAt
  <2> QED BY <2>1, <2>2
<1>4. \A k \in 0..N : f[k] \in Blocks /\ New(k, f[k])
  BY <1>3
<1> HIDE DEF f
<1>5. ASSUME NEW j \in 0..N, NEW k \in 0..N, j < k PROVE f[j] # f[k]
  <2>1. k # 0 /\ k - 1 \in 0..N /\ j <= k - 1
    BY <1>0, <1>5
  <2>2. f[j] \in LiveAt(w, k - 1, v)
    BY <1>2, <1>4, <2>1
  <2> QED BY <1>4, <2>1, <2>2
<1>6. f \in [0..N -> 1..N]
  BY <1>4 DEF f, Blocks
<1>7. IsFiniteSet(0..N) /\ Cardinality(0..N) = N + 1 /\ IsFiniteSet(1..N) /\ Cardinality(1..N) = N
  BY <1>0, FS_Interval
<1>8. Cardinality(1..N) < Cardinality(0..N)
  BY <1>0, <1>7
<1>9. \E j, k \in 0..N : j # k /\ f[j] = f[k]
  BY <1>6, <1>7, <1>8, FS_PigeonHole
<1>10. \A j, k \in 0..N : j # k => j < k \/ k < j
  BY <1>0
<1> QED BY <1>5, <1>9, <1>10

\* So N blocks ahead is as far as it takes.
LEMMA EntryIsClosed ==
  ASSUME TypeOK, NEW w, LooksAhead(w, N)
  PROVE  w[N] \in Sets /\ Closed(w[N])
<1>0. N \in Nat
  BY CountAssumption
<1>1. CASE N = 0
  <2>1. Blocks = {}
    BY <1>1 DEF Blocks
  <2>2. w[N] = [b \in Blocks |-> use[b]]
    BY <1>1 DEF LooksAhead
  <2> QED BY <2>1, <2>2 DEF Sets, Closed
<1>2. CASE N # 0
  <2>1. N \in 1..N /\ N - 1 \in Nat /\ N - 1 + 1 = N
    BY <1>0, <1>2
  <2>2. w[N] = Before(w[N - 1])
    BY <2>1 DEF LooksAhead
  <2>3. ASSUME NEW b \in Blocks
        PROVE  Entering(b, UNION {w[N][c] : c \in successors[b]}) \subseteq w[N][b]
    <3> SUFFICES ASSUME NEW v \in Entering(b, UNION {w[N][c] : c \in successors[b]}) PROVE v \in w[N][b]
      OBVIOUS
    <3>1. CASE v \in use[b]
      BY <2>2, <3>1 DEF Before
    <3>2. CASE v \notin use[b]
      <4>1. v \notin def[b] /\ \E c \in successors[b] : v \in w[N][c]
        BY <3>2 DEF Entering
      <4>2. PICK c \in successors[b] : v \in w[N][c]
        BY <4>1
      <4>3. c \in Blocks
        BY DEF TypeOK
      <4>4. c \in LiveAt(w, N - 1, v)
        BY <1>2, <4>2, <4>3, NothingFurther DEF LiveAt
      <4>5. v \in w[N - 1][c]
        BY <4>4 DEF LiveAt
      <4> QED BY <2>2, <4>1, <4>5, BeforeMember
    <3> QED BY <3>1, <3>2
  <2>4. w[N] \in Sets
    <3> DEFINE A == {k \in Nat : k <= N => w[k] \in Sets}
    <3>1. 0 \in A
      BY DEF LooksAhead, TypeOK, Sets
    <3>2. ASSUME NEW k \in Nat, k \in A PROVE k + 1 \in A
      <4> SUFFICES ASSUME k + 1 <= N PROVE w[k + 1] \in Sets
        OBVIOUS
      <4>1. k + 1 \in 1..N /\ k + 1 - 1 = k /\ k <= N
        BY <1>0
      <4>2. w[k + 1] = Before(w[k])
        BY <4>1 DEF LooksAhead
      <4>3. w[k] \in Sets
        BY <3>2, <4>1
      <4> QED BY <4>2, <4>3 DEF Before, TypeOK, Sets
    <3> HIDE DEF A
    <3>3. \A k \in Nat : k \in A
      BY <3>1, <3>2, InductionOverNat
    <3> QED BY <1>0, <3>3 DEF A
  <2> QED BY <2>3, <2>4 DEF Closed
<1> QED BY <1>1, <1>2

\* Sets that solve the equations hold all that is found by looking ahead.
LEMMA SolutionLooksAhead ==
  ASSUME TypeOK, Solved, Done, NEW w, LooksAhead(w, N)
  PROVE  \A k \in Nat : k <= N => \A b \in Blocks : w[k][b] \subseteq liveIn[b]
<1>0. \A b \in Blocks : liveIn[b] = Before(liveIn)[b]
  <2> SUFFICES ASSUME NEW b \in Blocks PROVE liveIn[b] = Before(liveIn)[b]
    OBVIOUS
  <2>1. liveIn[b] = Entering(b, OfSuccessors(b))
    BY DEF Solved
  <2> QED BY <2>1 DEF Entering, OfSuccessors, Before
<1> DEFINE A == {k \in Nat : k <= N => \A b \in Blocks : w[k][b] \subseteq liveIn[b]}
<1>1. 0 \in A
  BY <1>0 DEF LooksAhead, Before
<1>2. ASSUME NEW k \in Nat, k \in A PROVE k + 1 \in A
  <2> SUFFICES ASSUME k + 1 <= N, NEW b \in Blocks PROVE w[k + 1][b] \subseteq liveIn[b]
    OBVIOUS
  <2>1. k + 1 \in 1..N /\ k + 1 - 1 = k /\ k <= N
    BY CountAssumption
  <2>2. w[k + 1] = Before(w[k])
    BY <2>1 DEF LooksAhead
  <2>3. \A c \in Blocks : w[k][c] \subseteq liveIn[c]
    BY <1>2, <2>1
  <2> QED BY <1>0, <2>2, <2>3, BeforeMonotone
<1> HIDE DEF A
<1>3. \A k \in Nat : k \in A
  BY <1>1, <1>2, InductionOverNat
<1> QED BY <1>3 DEF A

(* ComputeLiveness finds the registers that some path reads before it      *)
(* writes them: never another one, and when its loop ends every one, for   *)
(* every number of blocks, every way they follow each other and every use  *)
(* and def.                                                                *)
THEOREM FindsExactlyThePaths == Spec => []FindsLivePaths
<1>1. TypeOK /\ Solved /\ BelowEverySolution => FindsLivePaths
  <2> SUFFICES ASSUME TypeOK, Solved, BelowEverySolution PROVE FindsLivePaths
    OBVIOUS
  <2>1. PICK w : LooksAhead(w, N) /\ LiveOnEntry(N, use, def, successors) = w[N]
    BY EntryLooksAhead
  <2>2. \A b \in Blocks : liveIn[b] \subseteq w[N][b]
    BY <2>1, EntryIsClosed DEF BelowEverySolution
  <2>3. Done => \A b \in Blocks : w[N][b] \subseteq liveIn[b]
    BY <2>1, CountAssumption, SolutionLooksAhead
  <2> QED BY <2>1, <2>2, <2>3 DEF FindsLivePaths
<1> QED
  BY <1>1, TypeCorrect, SolvesEquations, LeastSolution, PTL
=================================================================================
