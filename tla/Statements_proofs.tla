---------------------------- MODULE Statements_proofs ----------------------------
(***************************************************************************)
(* For every function body, of any length: the virtual code handed on has  *)
(* each label once and a label for each jump, and a diagnostic is issued   *)
(* for exactly the bodies the language does not allow.                     *)
(*                                                                         *)
(* Code is followed from the nodes through CompileRoutine, which places a  *)
(* label once, and through the passes of FinaliseControlFlow, which take   *)
(* out a jump before the label it leads to.  What is diagnosed is followed *)
(* from the tokens: frames, jump stack and nodes say what is open, what    *)
(* was refused, and which labels are placed or still to be placed.         *)
(***************************************************************************)
EXTENDS Statements, Induction, TLAPS

-----------------------------------------------------------------------------
(* Conditions. *)

\* Invert is the negation of a condition, for signed and unsigned comparisons alike: a branch,
\* which jumps to its false label on Invert(pending.cc), jumps exactly when the source's
\* condition is false.
THEOREM InvertNegates ==
    ASSUME NEW c \in ConditionCodes, NEW o \in Orderings
    PROVE  /\ Invert(c) \in ConditionCodes
           /\ Holds(Invert(c), o) <=> ~Holds(c, o)
<1>1. /\ o.signed \in {"lt", "eq", "gt"}
      /\ o.unsigned \in {"lt", "eq", "gt"}
      /\ o.signed = "eq" <=> o.unsigned = "eq"
  BY DEF Orderings
<1>2. CASE c \in {"Equal", "NotEqual"}
  BY <1>1, <1>2 DEF ConditionCodes, Invert, Holds
<1>3. CASE c \in {"Less", "LessEqual", "Greater", "GreaterEqual"}
  BY <1>1, <1>3 DEF ConditionCodes, Invert, Holds
<1>4. CASE c \in {"Below", "BelowEqual", "Above", "AboveEqual"}
  BY <1>1, <1>4 DEF ConditionCodes, Invert, Holds
<1>5. QED BY <1>2, <1>3, <1>4 DEF ConditionCodes

-----------------------------------------------------------------------------
(* Sequences, whatever they are of. *)

Items(s) == {s[i] : i \in DOMAIN s}
IsSequence(s) == s \in Seq(Items(s))

LEMMA SequenceFacts ==
  ASSUME NEW s, IsSequence(s)
  PROVE  Len(s) \in Nat /\ DOMAIN s = 1..Len(s)
BY DEF IsSequence

LEMMA SequenceOf ==
  ASSUME NEW S, NEW s \in Seq(S)
  PROVE  IsSequence(s)
<1>1. Len(s) \in Nat /\ DOMAIN s = 1..Len(s) /\ s \in [1..Len(s) -> S]
  OBVIOUS
<1>2. s \in [1..Len(s) -> Items(s)]
  BY <1>1 DEF Items
<1> QED
  BY <1>1, <1>2 DEF IsSequence

LEMMA AppendIsSequence ==
  ASSUME NEW s, IsSequence(s), NEW e
  PROVE  /\ IsSequence(Append(s, e))
         /\ Len(Append(s, e)) = Len(s) + 1
         /\ DOMAIN Append(s, e) = 1..Len(s) + 1
         /\ \A i \in 1..Len(s) : Append(s, e)[i] = s[i]
         /\ Append(s, e)[Len(s) + 1] = e
         /\ Items(Append(s, e)) = Items(s) \cup {e}
<1> DEFINE S == Items(s) \cup {e}
<1>1. s \in Seq(S) /\ e \in S
  <2>1. s \in Seq(Items(s))
    BY DEF IsSequence
  <2> QED
    BY <2>1
<1> HIDE DEF S
<1>2. /\ Append(s, e) \in Seq(S)
      /\ Len(Append(s, e)) = Len(s) + 1
      /\ DOMAIN Append(s, e) = 1..Len(s) + 1
      /\ \A i \in 1..Len(s) : Append(s, e)[i] = s[i]
      /\ Append(s, e)[Len(s) + 1] = e
      /\ Len(s) \in Nat /\ DOMAIN s = 1..Len(s)
  BY <1>1
<1>3. IsSequence(Append(s, e))
  BY <1>2, SequenceOf
<1>4. Items(Append(s, e)) = Items(s) \cup {e}
  <2>1. \A i \in 1..Len(s) + 1 : i \in 1..Len(s) \/ i = Len(s) + 1
    BY <1>2
  <2>2. Len(s) + 1 \in 1..Len(s) + 1 /\ 1..Len(s) \subseteq 1..Len(s) + 1
    BY <1>2
  <2> QED
    BY <1>2, <2>1, <2>2 DEF Items
<1> QED
  BY <1>2, <1>3, <1>4

LEMMA ConcatIsSequence ==
  ASSUME NEW s, IsSequence(s), NEW t, IsSequence(t)
  PROVE  /\ IsSequence(s \o t)
         /\ Len(s \o t) = Len(s) + Len(t)
         /\ DOMAIN (s \o t) = 1..Len(s) + Len(t)
         /\ \A i \in 1..Len(s) : (s \o t)[i] = s[i]
         /\ \A i \in 1..Len(t) : (s \o t)[Len(s) + i] = t[i]
         /\ Items(s \o t) = Items(s) \cup Items(t)
<1> DEFINE S == Items(s) \cup Items(t)
<1>1. s \in Seq(S) /\ t \in Seq(S)
  <2>1. s \in Seq(Items(s)) /\ t \in Seq(Items(t))
    BY DEF IsSequence
  <2> QED
    BY <2>1
<1> HIDE DEF S
<1>2. /\ s \o t \in Seq(S)
      /\ Len(s \o t) = Len(s) + Len(t)
      /\ DOMAIN (s \o t) = 1..Len(s) + Len(t)
      /\ \A i \in 1..Len(s) : (s \o t)[i] = s[i]
      /\ Len(s) \in Nat /\ DOMAIN s = 1..Len(s) /\ Len(t) \in Nat /\ DOMAIN t = 1..Len(t)
  BY <1>1
<1>3. \A i \in 1..Len(t) : (s \o t)[Len(s) + i] = t[i]
  <2> SUFFICES ASSUME NEW i \in 1..Len(t) PROVE (s \o t)[Len(s) + i] = t[i]
    OBVIOUS
  <2>1. Len(s) + i \in 1..Len(s) + Len(t) /\ ~(Len(s) + i <= Len(s)) /\ Len(s) + i - Len(s) = i
    BY <1>2
  <2> QED
    BY <1>1, <1>2, <2>1
<1>4. IsSequence(s \o t)
  BY <1>2, SequenceOf
<1>5. Items(s \o t) = Items(s) \cup Items(t)
  <2>1. \A i \in 1..Len(s) + Len(t) : i \in 1..Len(s) \/ \E j \in 1..Len(t) : i = Len(s) + j
    <3> SUFFICES ASSUME NEW i \in 1..Len(s) + Len(t), i \notin 1..Len(s) PROVE \E j \in 1..Len(t) : i = Len(s) + j
      OBVIOUS
    <3>1. i - Len(s) \in 1..Len(t) /\ i = Len(s) + (i - Len(s))
      BY <1>2
    <3> QED
      BY <3>1
  <2>2. /\ \A i \in 1..Len(s) : i \in 1..Len(s) + Len(t)
        /\ \A i \in 1..Len(t) : Len(s) + i \in 1..Len(s) + Len(t)
    BY <1>2
  <2>3. ASSUME NEW x \in Items(s \o t) PROVE x \in Items(s) \cup Items(t)
    <3>1. PICK i \in 1..Len(s) + Len(t) : x = (s \o t)[i]
      BY <1>2, <2>3 DEF Items
    <3>2. CASE i \in 1..Len(s)
      BY <1>2, <3>1, <3>2 DEF Items
    <3>3. CASE \E j \in 1..Len(t) : i = Len(s) + j
      BY <1>2, <1>3, <3>1, <3>3 DEF Items
    <3> QED
      BY <2>1, <3>2, <3>3
  <2>4. ASSUME NEW x \in Items(s) PROVE x \in Items(s \o t)
    <3>1. PICK i \in 1..Len(s) : x = s[i]
      BY <1>2, <2>4 DEF Items
    <3> QED
      BY <1>2, <2>2, <3>1 DEF Items
  <2>5. ASSUME NEW x \in Items(t) PROVE x \in Items(s \o t)
    <3>1. PICK i \in 1..Len(t) : x = t[i]
      BY <1>2, <2>5 DEF Items
    <3> QED
      BY <1>2, <1>3, <2>2, <3>1 DEF Items
  <2> QED
    BY <2>3, <2>4, <2>5
<1> QED
  BY <1>2, <1>3, <1>4, <1>5

-----------------------------------------------------------------------------
(* Without keeps what is not dead. *)

IsLabel(i) == i.op = "Label"
OneLabelEach(c) == \A i, j \in DOMAIN c : IsLabel(c[i]) /\ c[i] = c[j] => i = j

KeptNext(c, dead, n, before) == IF n \in dead THEN before ELSE Append(before, c[n])
KeptTo(kept, c, dead, m) ==
    kept = [n \in 0..m |-> IF n = 0 THEN <<>> ELSE IF n \in dead THEN kept[n - 1] ELSE Append(kept[n - 1], c[n])]

\* The recursion of Without has a solution, up to every instruction.
LEMMA KeptExists ==
  ASSUME NEW c, NEW dead
  PROVE  \A m \in Nat : \E kept : KeptTo(kept, c, dead, m)
<1> DEFINE A == {m \in Nat : \E kept : KeptTo(kept, c, dead, m)}
<1>1. 0 \in A
  <2> DEFINE none == [n \in 0..0 |-> <<>>]
  <2>1. \A n \in 0..0 : n = 0
    OBVIOUS
  <2>2. KeptTo(none, c, dead, 0)
    BY <2>1 DEF KeptTo
  <2> QED
    BY <2>2
<1>2. ASSUME NEW m \in Nat, m \in A PROVE m + 1 \in A
  <2>1. PICK kept : KeptTo(kept, c, dead, m)
    BY <1>2
  <2> DEFINE more == [n \in 0..m + 1 |-> IF n <= m THEN kept[n] ELSE KeptNext(c, dead, n, kept[m])]
  <2>2. ASSUME NEW n \in 0..m + 1
        PROVE  more[n] = IF n = 0 THEN <<>> ELSE IF n \in dead THEN more[n - 1] ELSE Append(more[n - 1], c[n])
    <3>1. CASE n <= m
      <4>1. n \in 0..m /\ more[n] = kept[n] /\ (n # 0 => more[n - 1] = kept[n - 1])
        BY <3>1
      <4>2. kept[n] = IF n = 0 THEN <<>> ELSE IF n \in dead THEN kept[n - 1] ELSE Append(kept[n - 1], c[n])
        BY <2>1, <4>1 DEF KeptTo
      <4> HIDE DEF more
      <4> QED
        BY <4>1, <4>2
    <3>2. CASE n = m + 1
      <4>1. more[n] = KeptNext(c, dead, n, kept[m]) /\ more[n - 1] = kept[m] /\ n # 0
        BY <3>2
      <4> HIDE DEF more
      <4> QED
        BY <4>1 DEF KeptNext
    <3> QED
      BY <3>1, <3>2
  <2>3. KeptTo(more, c, dead, m + 1)
    <3>1. more = [n \in 0..m + 1 |-> more[n]]
      OBVIOUS
    <3> HIDE DEF more
    <3> QED
      BY <2>2, <3>1 DEF KeptTo
  <2> QED
    BY <2>3
<1> HIDE DEF A
<1>3. \A m \in Nat : m \in A
  BY <1>1, <1>2, InductionOverNat
<1> QED
  BY <1>3 DEF A

\* What is left is what is not dead, and a label that was there once is there once.
LEMMA WithoutKeeps ==
  ASSUME NEW c, IsSequence(c), OneLabelEach(c), NEW dead
  PROVE  /\ IsSequence(Without(c, dead))
         /\ Items(Without(c, dead)) = {c[i] : i \in DOMAIN c \ dead}
         /\ OneLabelEach(Without(c, dead))
<1> DEFINE kept == CHOOSE k : KeptTo(k, c, dead, Len(c))
           Good(n) == /\ IsSequence(kept[n])
                      /\ Items(kept[n]) = {c[i] : i \in (1..n) \ dead}
                      /\ OneLabelEach(kept[n])
           A == {n \in Nat : n <= Len(c) => Good(n)}
<1>1. Len(c) \in Nat /\ DOMAIN c = 1..Len(c)
  BY SequenceFacts
<1>2. KeptTo(kept, c, dead, Len(c))
  BY <1>1, KeptExists
<1>3. Without(c, dead) = kept[Len(c)]
  BY DEF Without, KeptTo
<1> HIDE DEF kept
<1>4. kept[0] = <<>> /\ \A n \in 1..Len(c) : kept[n] = KeptNext(c, dead, n, kept[n - 1])
  <2>1. 0 \in 0..Len(c)
    BY <1>1
  <2>2. kept[0] = <<>>
    BY <1>2, <2>1 DEF KeptTo
  <2>3. ASSUME NEW n \in 1..Len(c) PROVE kept[n] = KeptNext(c, dead, n, kept[n - 1])
    <3>1. n \in 0..Len(c) /\ n # 0
      BY <1>1
    <3> QED
      BY <1>2, <3>1 DEF KeptTo, KeptNext
  <2> QED
    BY <2>2, <2>3
<1>5. 0 \in A
  <2>1. IsSequence(<<>>) /\ Items(<<>>) = {}
    BY DEF IsSequence, Items
  <2>2. OneLabelEach(<<>>)
    BY DEF OneLabelEach
  <2> QED
    BY <1>4, <2>1, <2>2
<1>6. ASSUME NEW n \in Nat, n \in A PROVE n + 1 \in A
  <2> SUFFICES ASSUME n + 1 <= Len(c) PROVE Good(n + 1)
    OBVIOUS
  <2>1. /\ Good(n)
        /\ n + 1 \in 1..Len(c)
        /\ kept[n + 1] = KeptNext(c, dead, n + 1, kept[n])
    <3>1. n + 1 \in 1..Len(c) /\ (n + 1) - 1 = n /\ n <= Len(c)
      BY <1>1
    <3> QED
      BY <1>4, <1>6, <3>1
  <2>2. CASE n + 1 \in dead
    <3>1. (1..n + 1) \ dead = (1..n) \ dead /\ kept[n + 1] = kept[n]
      BY <2>1, <2>2 DEF KeptNext
    <3> QED
      BY <2>1, <3>1
  <2>3. CASE n + 1 \notin dead
    <3>1. kept[n + 1] = Append(kept[n], c[n + 1])
      BY <2>1, <2>3 DEF KeptNext
    <3>2. /\ IsSequence(kept[n + 1])
          /\ DOMAIN kept[n + 1] = 1..Len(kept[n]) + 1
          /\ \A i \in 1..Len(kept[n]) : kept[n + 1][i] = kept[n][i]
          /\ kept[n + 1][Len(kept[n]) + 1] = c[n + 1]
          /\ Items(kept[n + 1]) = Items(kept[n]) \cup {c[n + 1]}
          /\ Len(kept[n]) \in Nat /\ DOMAIN kept[n] = 1..Len(kept[n])
      <4>1. IsSequence(kept[n])
        BY <2>1
      <4>2. Len(kept[n]) \in Nat /\ DOMAIN kept[n] = 1..Len(kept[n])
        BY <4>1, SequenceFacts
      <4> QED
        BY <3>1, <4>1, <4>2, AppendIsSequence
    <3>3. (1..n + 1) \ dead = ((1..n) \ dead) \cup {n + 1}
      BY <2>3
    <3>4. Items(kept[n + 1]) = {c[i] : i \in (1..n + 1) \ dead}
      BY <2>1, <3>2, <3>3
    <3>5. \A i \in 1..Len(kept[n]) : IsLabel(kept[n][i]) => kept[n][i] # c[n + 1]
      <4> SUFFICES ASSUME NEW i \in 1..Len(kept[n]), IsLabel(kept[n][i]), kept[n][i] = c[n + 1] PROVE FALSE
        OBVIOUS
      <4>1. kept[n][i] \in Items(kept[n])
        BY <3>2 DEF Items
      <4>2. PICK k \in (1..n) \ dead : kept[n][i] = c[k]
        BY <2>1, <4>1
      <4>3. k \in DOMAIN c /\ n + 1 \in DOMAIN c /\ k # n + 1
        BY <1>1, <2>1
      <4> QED
        BY <4>2, <4>3 DEF OneLabelEach
    <3>6. OneLabelEach(kept[n + 1])
      <4> SUFFICES ASSUME NEW i \in 1..Len(kept[n]) + 1, NEW j \in 1..Len(kept[n]) + 1,
                          IsLabel(kept[n + 1][i]), kept[n + 1][i] = kept[n + 1][j]
                   PROVE  i = j
        BY <3>2 DEF OneLabelEach
      <4>1. CASE i \in 1..Len(kept[n]) /\ j \in 1..Len(kept[n])
        BY <2>1, <3>2, <4>1 DEF OneLabelEach
      <4>2. CASE i \in 1..Len(kept[n]) /\ j = Len(kept[n]) + 1
        BY <3>2, <3>5, <4>2
      <4>3. CASE i = Len(kept[n]) + 1 /\ j \in 1..Len(kept[n])
        BY <3>2, <3>5, <4>3
      <4> QED
        BY <3>2, <4>1, <4>2, <4>3
    <3> QED
      BY <3>2, <3>4, <3>6
  <2> QED
    BY <2>2, <2>3
<1> HIDE DEF A
<1>7. \A n \in Nat : n \in A
  BY <1>5, <1>6, InductionOverNat
<1>8. Good(Len(c))
  BY <1>1, <1>7 DEF A
<1> QED
  BY <1>1, <1>3, <1>8

-----------------------------------------------------------------------------
(* Threading changes where jumps go, and nothing else. *)

HasOp(c) == \A i \in DOMAIN c : "op" \in DOMAIN c[i]
IsCode(c) == IsSequence(c) /\ HasOp(c) /\ OneLabelEach(c)

SameButJumps(c, d) ==
    /\ IsSequence(d) /\ HasOp(d) /\ DOMAIN d = DOMAIN c
    /\ \A i \in DOMAIN c : d[i].op = c[i].op /\ (IsLabel(c[i]) => d[i] = c[i])

LEMMA FunctionIsSequence ==
  ASSUME NEW S, NEW n \in Nat, NEW d \in [1..n -> S]
  PROVE  d \in Seq(S)
OBVIOUS

LEMMA RedirectKeepsLabels ==
  ASSUME NEW c, IsSequence(c), HasOp(c), NEW position, NEW n \in DOMAIN c
  PROVE  SameButJumps(c, Redirect(c, position, n))
<1> DEFINE d == Redirect(c, position, n)
<1>1. Len(c) \in Nat /\ DOMAIN c = 1..Len(c)
  BY SequenceFacts
<1>2. CASE IsJump(c[n]) /\ c[n].label \in DOMAIN position
  <2> DEFINE target == Follow(c, position, c[n].label)
  <2>1. d = [c EXCEPT ![n] = [c[n] EXCEPT !.label = target]]
    BY <1>2 DEF Redirect
  <2> HIDE DEF d, target
  <2>2. DOMAIN d = DOMAIN c /\ \A i \in DOMAIN c : i # n => d[i] = c[i]
    BY <2>1
  <2>3. DOMAIN d[n] = DOMAIN c[n] /\ d[n].op = c[n].op
    BY <2>1 DEF HasOp
  <2>4. HasOp(d)
    BY <2>2, <2>3 DEF HasOp
  <2>5. d \in [1..Len(c) -> Items(d)]
    BY <1>1, <2>1, <2>2 DEF Items
  <2>6. IsSequence(d)
    BY <1>1, <2>5, FunctionIsSequence DEF IsSequence
  <2>7. ~IsLabel(c[n])
    BY <1>2 DEF IsJump, IsLabel
  <2> QED
    BY <2>2, <2>3, <2>4, <2>6, <2>7 DEF SameButJumps, d
<1>3. CASE ~(IsJump(c[n]) /\ c[n].label \in DOMAIN position)
  BY <1>3 DEF Redirect, SameButJumps
<1> QED
  BY <1>2, <1>3

LEMMA SameIsTransitive ==
  ASSUME NEW c, NEW d, NEW e, SameButJumps(c, d), SameButJumps(d, e)
  PROVE  SameButJumps(c, e)
BY DEF SameButJumps, IsLabel

DoneTo(done, c, position, m) ==
    done = [n \in 0..m |-> IF n = 0 THEN c ELSE Redirect(done[n - 1], position, n)]

\* The recursion of Threaded has a solution, up to every instruction.
LEMMA DoneExists ==
  ASSUME NEW c, NEW position
  PROVE  \A m \in Nat : \E done : DoneTo(done, c, position, m)
<1> DEFINE A == {m \in Nat : \E done : DoneTo(done, c, position, m)}
<1>1. 0 \in A
  <2> DEFINE none == [n \in 0..0 |-> c]
  <2>1. \A n \in 0..0 : n = 0
    OBVIOUS
  <2>2. DoneTo(none, c, position, 0)
    BY <2>1 DEF DoneTo
  <2> QED
    BY <2>2
<1>2. ASSUME NEW m \in Nat, m \in A PROVE m + 1 \in A
  <2>1. PICK done : DoneTo(done, c, position, m)
    BY <1>2
  <2> DEFINE more == [n \in 0..m + 1 |-> IF n <= m THEN done[n] ELSE Redirect(done[m], position, n)]
  <2>2. ASSUME NEW n \in 0..m + 1
        PROVE  more[n] = IF n = 0 THEN c ELSE Redirect(more[n - 1], position, n)
    <3>1. CASE n <= m
      <4>1. n \in 0..m /\ more[n] = done[n] /\ (n # 0 => more[n - 1] = done[n - 1])
        BY <3>1
      <4>2. done[n] = IF n = 0 THEN c ELSE Redirect(done[n - 1], position, n)
        BY <2>1, <4>1 DEF DoneTo
      <4> HIDE DEF more
      <4> QED
        BY <4>1, <4>2
    <3>2. CASE n = m + 1
      <4>1. more[n] = Redirect(done[m], position, n) /\ more[n - 1] = done[m] /\ n # 0
        BY <3>2
      <4> HIDE DEF more
      <4> QED
        BY <4>1
    <3> QED
      BY <3>1, <3>2
  <2>3. DoneTo(more, c, position, m + 1)
    <3>1. more = [n \in 0..m + 1 |-> more[n]]
      OBVIOUS
    <3> HIDE DEF more
    <3> QED
      BY <2>2, <3>1 DEF DoneTo
  <2> QED
    BY <2>3
<1> HIDE DEF A
<1>3. \A m \in Nat : m \in A
  BY <1>1, <1>2, InductionOverNat
<1> QED
  BY <1>3 DEF A

LEMMA ThreadedKeepsLabels ==
  ASSUME NEW c, IsSequence(c), HasOp(c)
  PROVE  SameButJumps(c, Threaded(c))
<1> DEFINE position == [l \in Placed(c) |-> Position(c, l)]
           done == CHOOSE d : DoneTo(d, c, position, Len(c))
           A == {n \in Nat : n <= Len(c) => SameButJumps(c, done[n])}
<1>1. Len(c) \in Nat /\ DOMAIN c = 1..Len(c)
  BY SequenceFacts
<1>2. Threaded(c) = done[Len(c)]
  BY DEF Threaded, DoneTo
<1> HIDE DEF position
<1>3. DoneTo(done, c, position, Len(c))
  BY <1>1, DoneExists
<1> HIDE DEF done
<1>4. done[0] = c /\ \A n \in 1..Len(c) : done[n] = Redirect(done[n - 1], position, n)
  <2>1. 0 \in 0..Len(c)
    BY <1>1
  <2>2. done[0] = c
    BY <1>3, <2>1 DEF DoneTo
  <2>3. ASSUME NEW n \in 1..Len(c) PROVE done[n] = Redirect(done[n - 1], position, n)
    <3>1. n \in 0..Len(c) /\ n # 0
      BY <1>1
    <3> QED
      BY <1>3, <3>1 DEF DoneTo
  <2> QED
    BY <2>2, <2>3
<1>5. 0 \in A
  BY <1>4 DEF SameButJumps
<1>6. ASSUME NEW n \in Nat, n \in A PROVE n + 1 \in A
  <2> SUFFICES ASSUME n + 1 <= Len(c) PROVE SameButJumps(c, done[n + 1])
    OBVIOUS
  <2>1. n + 1 \in 1..Len(c) /\ (n + 1) - 1 = n /\ n <= Len(c)
    BY <1>1
  <2>2. SameButJumps(c, done[n]) /\ done[n + 1] = Redirect(done[n], position, n + 1)
    BY <1>4, <1>6, <2>1
  <2>3. IsSequence(done[n]) /\ HasOp(done[n]) /\ n + 1 \in DOMAIN done[n]
    BY <1>1, <2>1, <2>2 DEF SameButJumps
  <2>4. SameButJumps(done[n], done[n + 1])
    BY <2>2, <2>3, RedirectKeepsLabels
  <2> QED
    BY <2>2, <2>4, SameIsTransitive
<1> HIDE DEF A
<1>7. \A n \in Nat : n \in A
  BY <1>5, <1>6, InductionOverNat
<1> QED
  BY <1>1, <1>2, <1>7 DEF A

-----------------------------------------------------------------------------
(* A pass leaves a label for each jump it leaves. *)

JumpsLead(c) == \A i \in DOMAIN c : TargetsOf(c[i]) \subseteq Placed(c)

\* Code whose jumps are not all taken out, nor the labels they lead to.
LEMMA LiveJumpsLead ==
  ASSUME NEW c, IsCode(c), NEW dead,
         \A i \in DOMAIN c \ dead : \A l \in TargetsOf(c[i]) :
             \E j \in DOMAIN c \ dead : IsLabel(c[j]) /\ c[j].label = l
  PROVE  IsCode(Without(c, dead)) /\ JumpsLead(Without(c, dead))
<1> DEFINE k == Without(c, dead)
<1>1. IsSequence(k) /\ Items(k) = {c[i] : i \in DOMAIN c \ dead} /\ OneLabelEach(k)
  BY WithoutKeeps DEF IsCode
<1> HIDE DEF k
<1>2. \A i \in DOMAIN k : \E m \in DOMAIN c \ dead : k[i] = c[m]
  BY <1>1 DEF Items
<1>3. \A m \in DOMAIN c \ dead : \E i \in DOMAIN k : k[i] = c[m]
  BY <1>1 DEF Items
<1>4. HasOp(k)
  BY <1>2 DEF IsCode, HasOp
<1>5. JumpsLead(k)
  <2> SUFFICES ASSUME NEW i \in DOMAIN k, NEW l \in TargetsOf(k[i]) PROVE l \in Placed(k)
    BY DEF JumpsLead
  <2>1. PICK m \in DOMAIN c \ dead : k[i] = c[m]
    BY <1>2
  <2>2. PICK j \in DOMAIN c \ dead : IsLabel(c[j]) /\ c[j].label = l
    BY <2>1
  <2>3. PICK q \in DOMAIN k : k[q] = c[j]
    BY <1>3
  <2> QED
    BY <2>2, <2>3 DEF Placed, IsLabel
<1> QED
  BY <1>1, <1>4, <1>5 DEF IsCode, k

LEMMA PassLeads ==
  ASSUME NEW c, IsCode(c)
  PROVE  IsCode(Pass(c)) /\ JumpsLead(Pass(c))
<1> DEFINE t == Threaded(c)
           dead == ToUndefined(t) \cup ToNext(t)
           unreferenced == Unreferenced(t, dead)
           gone == dead \cup unreferenced \cup Unreachable(t, dead, unreferenced)
<1>1. Pass(c) = Without(t, gone)
  BY DEF Pass
<1>2. SameButJumps(c, t)
  BY ThreadedKeepsLabels DEF IsCode
<1> HIDE DEF t
<1>3. IsCode(t)
  <2>1. OneLabelEach(t)
    <3> SUFFICES ASSUME NEW i \in DOMAIN t, NEW j \in DOMAIN t, IsLabel(t[i]), t[i] = t[j] PROVE i = j
      BY DEF OneLabelEach
    <3>1. i \in DOMAIN c /\ j \in DOMAIN c /\ c[i].op = t[i].op /\ c[j].op = t[j].op
      BY <1>2 DEF SameButJumps
    <3>2. IsLabel(c[i]) /\ IsLabel(c[j])
      BY <3>1 DEF IsLabel
    <3>3. c[i] = c[j]
      BY <1>2, <3>1, <3>2 DEF SameButJumps
    <3> QED
      BY <3>1, <3>2, <3>3 DEF IsCode, OneLabelEach
  <2> QED
    BY <1>2, <2>1 DEF IsCode, SameButJumps
<1>4. ASSUME NEW i \in DOMAIN t \ gone, NEW l \in TargetsOf(t[i])
      PROVE  \E j \in DOMAIN t \ gone : IsLabel(t[j]) /\ t[j].label = l
  <2>1. i \notin dead /\ l \in Placed(t)
    BY <1>4 DEF ToUndefined
  <2>2. PICK j \in DOMAIN t : IsLabel(t[j]) /\ t[j].label = l
    BY <2>1 DEF Placed, IsLabel
  <2>3. ~IsJump(t[j])
    BY <2>2 DEF IsLabel, IsJump
  <2>4. j \notin dead
    BY <2>3 DEF ToUndefined, ToNext, TargetsOf
  <2>5. l \in References(t, dead)
    BY <2>1 DEF References
  <2>6. j \notin unreferenced
    BY <2>2, <2>5 DEF Unreferenced
  <2>7. j \notin Unreachable(t, dead, unreferenced)
    BY <2>2 DEF Unreachable, IsLabel
  <2> QED
    BY <2>2, <2>4, <2>6, <2>7
<1> HIDE DEF gone, dead, unreferenced
<1> QED
  BY <1>1, <1>3, <1>4, LiveJumpsLead

\* The other mode, which takes out jumps only.
LEMMA EraseUndefinedLeads ==
  ASSUME NEW c, IsCode(c), NEW definedLabels, definedLabels \subseteq Placed(c)
  PROVE  IsCode(EraseUndefined(c, definedLabels)) /\ JumpsLead(EraseUndefined(c, definedLabels))
<1> DEFINE gone == {i \in DOMAIN c : ~(TargetsOf(c[i]) \subseteq definedLabels)}
<1>1. ASSUME NEW i \in DOMAIN c \ gone, NEW l \in TargetsOf(c[i])
      PROVE  \E j \in DOMAIN c \ gone : IsLabel(c[j]) /\ c[j].label = l
  <2>1. l \in Placed(c)
    OBVIOUS
  <2>2. PICK j \in DOMAIN c : IsLabel(c[j]) /\ c[j].label = l
    BY <2>1 DEF Placed, IsLabel
  <2>3. TargetsOf(c[j]) = {}
    BY <2>2 DEF TargetsOf, IsJump, IsLabel
  <2> QED
    BY <2>2, <2>3
<1>2. EraseUndefined(c, definedLabels) = Without(c, gone)
  BY DEF EraseUndefined
<1> HIDE DEF gone
<1> QED
  BY <1>1, <1>2, LiveJumpsLead

-----------------------------------------------------------------------------
(* The loop over the nodes. *)

NodeKinds == {"Operation", "Return", "Label", "Goto", "Compare", "Branch", "UseOfComparison"}
IsNodes(b) == IsSequence(b) /\ \A n \in Items(b) : n.node \in NodeKinds

IsRoutine(r) ==
    /\ r = [instructions |-> r.instructions, definedLabels |-> r.definedLabels,
            gotoReferences |-> r.gotoReferences, pendingCompare |-> r.pendingCompare, diagnosed |-> r.diagnosed]
    /\ IsCode(r.instructions)
    /\ Placed(r.instructions) = r.definedLabels

LabelsOf(i) == IF IsLabel(i) THEN {i.label} ELSE {}

LEMMA AppendCode ==
  ASSUME NEW c, IsCode(c), NEW e, "op" \in DOMAIN e, LabelsOf(e) \cap Placed(c) = {}
  PROVE  IsCode(Append(c, e)) /\ Placed(Append(c, e)) = Placed(c) \cup LabelsOf(e)
<1> DEFINE k == Append(c, e)
           m == Len(c) + 1
<1>1. Len(c) \in Nat /\ DOMAIN c = 1..Len(c)
  BY SequenceFacts DEF IsCode
<1>2. /\ IsSequence(k) /\ DOMAIN k = 1..m /\ k[m] = e
      /\ \A i \in 1..Len(c) : k[i] = c[i]
  BY AppendIsSequence DEF IsCode
<1> HIDE DEF k
<1>3. \A i \in DOMAIN k : i \in DOMAIN c \/ i = m
  BY <1>1, <1>2
<1>4. m \in DOMAIN k /\ \A i \in DOMAIN c : i \in DOMAIN k /\ k[i] = c[i] /\ i # m
  BY <1>1, <1>2
<1>5. HasOp(k)
  BY <1>2, <1>3, <1>4 DEF IsCode, HasOp
<1> HIDE DEF m
<1>6. Placed(k) = Placed(c) \cup LabelsOf(e)
  <2>1. ASSUME NEW l \in Placed(k) PROVE l \in Placed(c) \cup LabelsOf(e)
    BY <1>2, <1>3, <1>4 DEF Placed, LabelsOf, IsLabel
  <2>2. ASSUME NEW l \in Placed(c) PROVE l \in Placed(k)
    BY <1>2, <1>4 DEF Placed
  <2>3. ASSUME NEW l \in LabelsOf(e) PROVE l \in Placed(k)
    BY <1>2, <1>4 DEF Placed, LabelsOf, IsLabel
  <2> QED
    BY <2>1, <2>2, <2>3
<1>7. OneLabelEach(k)
  <2>1. \A i \in DOMAIN c : IsLabel(c[i]) => c[i] # e
    BY DEF LabelsOf, Placed, IsLabel
  <2> QED
    BY <1>2, <1>3, <1>4, <2>1 DEF IsCode, OneLabelEach
<1> QED
  BY <1>2, <1>5, <1>6, <1>7 DEF IsCode, k

\* The five kinds of instructions.
LEMMA Instructions ==
  ASSUME NEW l, NEW of, NEW test, NEW c
  PROVE  /\ "op" \in DOMAIN Operation(of) /\ LabelsOf(Operation(of)) = {}
         /\ "op" \in DOMAIN Return(of) /\ LabelsOf(Return(of)) = {}
         /\ "op" \in DOMAIN Label(l) /\ LabelsOf(Label(l)) = {l}
         /\ "op" \in DOMAIN UnconditionalJump(l) /\ LabelsOf(UnconditionalJump(l)) = {}
         /\ "op" \in DOMAIN CompareAndJump(test, c, l) /\ LabelsOf(CompareAndJump(test, c, l)) = {}
BY DEF Operation, Return, Label, UnconditionalJump, CompareAndJump, LabelsOf, IsLabel

\* What changes neither the code nor its labels.
LEMMA FieldsKeep ==
  ASSUME NEW r, IsRoutine(r), NEW v
  PROVE  /\ IsRoutine([r EXCEPT !.gotoReferences = v])
         /\ IsRoutine([r EXCEPT !.pendingCompare = v])
         /\ IsRoutine([r EXCEPT !.diagnosed = v])
<1>1. r = [instructions |-> r.instructions, definedLabels |-> r.definedLabels,
           gotoReferences |-> r.gotoReferences, pendingCompare |-> r.pendingCompare, diagnosed |-> r.diagnosed]
  BY DEF IsRoutine
<1>2. IsCode(r.instructions) /\ Placed(r.instructions) = r.definedLabels
  BY DEF IsRoutine
<1>3. [r EXCEPT !.gotoReferences = v] =
         [instructions |-> r.instructions, definedLabels |-> r.definedLabels,
          gotoReferences |-> v, pendingCompare |-> r.pendingCompare, diagnosed |-> r.diagnosed]
  BY <1>1
<1>4. [r EXCEPT !.pendingCompare = v] =
         [instructions |-> r.instructions, definedLabels |-> r.definedLabels,
          gotoReferences |-> r.gotoReferences, pendingCompare |-> v, diagnosed |-> r.diagnosed]
  BY <1>1
<1>5. [r EXCEPT !.diagnosed = v] =
         [instructions |-> r.instructions, definedLabels |-> r.definedLabels,
          gotoReferences |-> r.gotoReferences, pendingCompare |-> r.pendingCompare, diagnosed |-> v]
  BY <1>1
<1>6. IsRoutine([r EXCEPT !.gotoReferences = v])
  BY <1>2, <1>3 DEF IsRoutine
<1>7. IsRoutine([r EXCEPT !.pendingCompare = v])
  BY <1>2, <1>4 DEF IsRoutine
<1>8. IsRoutine([r EXCEPT !.diagnosed = v])
  BY <1>2, <1>5 DEF IsRoutine
<1> QED
  BY <1>6, <1>7, <1>8

LEMMA DiagnoseKeeps ==
  ASSUME NEW r, IsRoutine(r)
  PROVE  IsRoutine(Diagnose(r))
BY FieldsKeep DEF Diagnose

\* An instruction that places no label, and a label that was not placed.
LEMMA EmitKeeps ==
  ASSUME NEW r, IsRoutine(r), NEW e, "op" \in DOMAIN e, LabelsOf(e) \cap r.definedLabels = {}
  PROVE  /\ LabelsOf(e) = {} => IsRoutine(Emit(r, e))
         /\ IsRoutine([Emit(r, e) EXCEPT !.definedLabels = @ \cup LabelsOf(e)])
<1> DEFINE c == Append(r.instructions, e)
<1>1. r = [instructions |-> r.instructions, definedLabels |-> r.definedLabels,
           gotoReferences |-> r.gotoReferences, pendingCompare |-> r.pendingCompare, diagnosed |-> r.diagnosed]
  BY DEF IsRoutine
<1>2. IsCode(c) /\ Placed(c) = r.definedLabels \cup LabelsOf(e)
  <2>1. IsCode(r.instructions) /\ Placed(r.instructions) = r.definedLabels
    BY DEF IsRoutine
  <2> QED
    BY <2>1, AppendCode
<1>3. Emit(r, e) = [r EXCEPT !.instructions = c]
  BY DEF Emit
<1> HIDE DEF c
<1>4. Emit(r, e) = [instructions |-> c, definedLabels |-> r.definedLabels,
                    gotoReferences |-> r.gotoReferences, pendingCompare |-> r.pendingCompare,
                    diagnosed |-> r.diagnosed]
  BY <1>1, <1>3
<1>5. [Emit(r, e) EXCEPT !.definedLabels = @ \cup LabelsOf(e)] =
         [instructions |-> c, definedLabels |-> r.definedLabels \cup LabelsOf(e),
          gotoReferences |-> r.gotoReferences, pendingCompare |-> r.pendingCompare,
          diagnosed |-> r.diagnosed]
  BY <1>4
<1>6. LabelsOf(e) = {} => Placed(c) = r.definedLabels
  BY <1>2
<1> QED
  BY <1>2, <1>4, <1>5, <1>6 DEF IsRoutine

\* An instruction without a label.
LEMMA EmitPlain ==
  ASSUME NEW r, IsRoutine(r), NEW e, "op" \in DOMAIN e, LabelsOf(e) = {}
  PROVE  IsRoutine(Emit(r, e))
BY EmitKeeps

LEMMA ParseNodeKeeps ==
  ASSUME NEW before, IsRoutine(before), NEW n, n.node \in NodeKinds
  PROVE  IsRoutine(ParseNode(before, n))
<1> DEFINE r == Settle(before, n)
           q == ParseNode(before, n)
<1> SUFFICES IsRoutine(q)
  OBVIOUS
<1>1. IsRoutine(r)
  <2>1. IsRoutine([Diagnose(before) EXCEPT !.pendingCompare = NoCompare])
    BY DiagnoseKeeps, FieldsKeep
  <2> QED
    BY <2>1 DEF Settle
<1>2. /\ n.node = "Operation" => q = Emit(r, Operation(n.of))
      /\ n.node = "Return" => q = Emit(r, Return(n.of))
      /\ n.node = "Label" => q = Place(r, n.label)
      /\ n.node = "Goto" => q = [Emit(r, UnconditionalJump(n.label)) EXCEPT !.gotoReferences = @ \cup {n.label}]
      /\ n.node = "Compare" => q = [r EXCEPT !.pendingCompare = [test |-> n.test, code |-> n.code]]
      /\ n.node = "Branch" => q = BranchOn(r, n)
      /\ n.node = "UseOfComparison" => q = Diagnose(r)
  BY DEF ParseNode
<1> HIDE DEF r, q
<1>3. CASE n.node = "Operation"
  BY <1>1, <1>2, <1>3, EmitPlain, Instructions
<1>4. CASE n.node = "Return"
  <2>1. "op" \in DOMAIN Return(n.of) /\ LabelsOf(Return(n.of)) = {}
    BY Instructions
  <2> QED
    BY <1>1, <1>2, <1>4, <2>1, EmitPlain
<1>5. CASE n.node = "Label"
  <2>1. CASE n.label \in r.definedLabels
    <3>1. q = Diagnose(r)
      BY <1>2, <1>5, <2>1 DEF Place
    <3> QED
      BY <1>1, <3>1, DiagnoseKeeps
  <2>2. CASE n.label \notin r.definedLabels
    <3>1. "op" \in DOMAIN Label(n.label) /\ LabelsOf(Label(n.label)) = {n.label}
      BY Instructions
    <3>2. q = [Emit(r, Label(n.label)) EXCEPT !.definedLabels = @ \cup LabelsOf(Label(n.label))]
      BY <1>2, <1>5, <2>2, <3>1 DEF Place
    <3>3. LabelsOf(Label(n.label)) \cap r.definedLabels = {}
      BY <2>2, <3>1
    <3> QED
      BY <1>1, <3>1, <3>2, <3>3, EmitKeeps
  <2> QED
    BY <2>1, <2>2
<1>6. CASE n.node = "Goto"
  <2> DEFINE e == UnconditionalJump(n.label)
             k == Emit(r, e)
  <2>1. "op" \in DOMAIN e /\ LabelsOf(e) = {}
    BY Instructions
  <2>2. q = [k EXCEPT !.gotoReferences = @ \cup {n.label}]
    BY <1>2, <1>6
  <2> HIDE DEF e
  <2>3. IsRoutine(k)
    BY <1>1, <2>1, EmitPlain
  <2> HIDE DEF k
  <2> QED
    BY <2>2, <2>3, FieldsKeep
<1>7. CASE n.node = "Compare"
  <2> DEFINE v == [test |-> n.test, code |-> n.code]
  <2>1. q = [r EXCEPT !.pendingCompare = v]
    BY <1>2, <1>7
  <2> HIDE DEF v
  <2> QED
    BY <1>1, <2>1, FieldsKeep
<1>8. CASE n.node = "Branch"
  <2>1. CASE r.pendingCompare.test # n.test
    <3>1. IsRoutine(Diagnose(r))
      BY <1>1, DiagnoseKeeps
    <3>2. q = [Diagnose(r) EXCEPT !.pendingCompare = NoCompare]
      BY <1>2, <1>8, <2>1 DEF BranchOn
    <3> QED
      BY <3>1, <3>2, FieldsKeep
  <2>2. CASE r.pendingCompare.test = n.test
    <3> DEFINE away == CompareAndJump(n.test, Invert(r.pendingCompare.code), n.ifFalse)
               on == UnconditionalJump(n.ifTrue)
    <3>1. q = [Emit(Emit(r, away), on) EXCEPT !.pendingCompare = NoCompare]
      BY <1>2, <1>8, <2>2 DEF BranchOn
    <3>2. /\ "op" \in DOMAIN away /\ LabelsOf(away) = {}
          /\ "op" \in DOMAIN on /\ LabelsOf(on) = {}
      BY Instructions
    <3> HIDE DEF away, on
    <3>3. IsRoutine(Emit(r, away))
      BY <1>1, <3>2, EmitPlain
    <3>4. IsRoutine(Emit(Emit(r, away), on))
      BY <3>2, <3>3, EmitPlain
    <3> QED
      BY <3>1, <3>4, FieldsKeep
  <2> QED
    BY <2>1, <2>2
<1>9. CASE n.node = "UseOfComparison"
  BY <1>1, <1>2, <1>9, DiagnoseKeeps
<1> QED
  BY <1>3, <1>4, <1>5, <1>6, <1>7, <1>8, <1>9 DEF NodeKinds

CompiledTo(r, nodes, m) ==
    r = [n \in 0..m |-> IF n = 0 THEN EmptyRoutine ELSE ParseNode(r[n - 1], nodes[n])]

\* The recursion of Compiled has a solution, up to every node.
LEMMA CompiledExists ==
  ASSUME NEW nodes
  PROVE  \A m \in Nat : \E r : CompiledTo(r, nodes, m)
<1> DEFINE A == {m \in Nat : \E r : CompiledTo(r, nodes, m)}
<1>1. 0 \in A
  <2> DEFINE none == [n \in 0..0 |-> EmptyRoutine]
  <2>1. \A n \in 0..0 : n = 0
    OBVIOUS
  <2>2. CompiledTo(none, nodes, 0)
    BY <2>1 DEF CompiledTo
  <2> QED
    BY <2>2
<1>2. ASSUME NEW m \in Nat, m \in A PROVE m + 1 \in A
  <2>1. PICK r : CompiledTo(r, nodes, m)
    BY <1>2
  <2> DEFINE more == [n \in 0..m + 1 |-> IF n <= m THEN r[n] ELSE ParseNode(r[m], nodes[n])]
  <2>2. ASSUME NEW n \in 0..m + 1
        PROVE  more[n] = IF n = 0 THEN EmptyRoutine ELSE ParseNode(more[n - 1], nodes[n])
    <3>1. CASE n <= m
      <4>1. n \in 0..m /\ more[n] = r[n] /\ (n # 0 => more[n - 1] = r[n - 1])
        BY <3>1
      <4>2. r[n] = IF n = 0 THEN EmptyRoutine ELSE ParseNode(r[n - 1], nodes[n])
        BY <2>1, <4>1 DEF CompiledTo
      <4> HIDE DEF more
      <4> QED
        BY <4>1, <4>2
    <3>2. CASE n = m + 1
      <4>1. more[n] = ParseNode(r[m], nodes[n]) /\ more[n - 1] = r[m] /\ n # 0
        BY <3>2
      <4> HIDE DEF more
      <4> QED
        BY <4>1
    <3> QED
      BY <3>1, <3>2
  <2>3. CompiledTo(more, nodes, m + 1)
    <3>1. more = [n \in 0..m + 1 |-> more[n]]
      OBVIOUS
    <3> HIDE DEF more
    <3> QED
      BY <2>2, <3>1 DEF CompiledTo
  <2> QED
    BY <2>3
<1> HIDE DEF A
<1>3. \A m \in Nat : m \in A
  BY <1>1, <1>2, InductionOverNat
<1> QED
  BY <1>3 DEF A

\* A routine is compiled with each label placed once.
LEMMA CompiledIsRoutine ==
  ASSUME NEW nodes, IsNodes(nodes)
  PROVE  IsRoutine(Compiled(nodes))
<1> DEFINE r == CHOOSE f : CompiledTo(f, nodes, Len(nodes))
           A == {n \in Nat : n <= Len(nodes) => IsRoutine(r[n])}
<1>1. Len(nodes) \in Nat /\ DOMAIN nodes = 1..Len(nodes)
  BY SequenceFacts DEF IsNodes
<1>2. CompiledTo(r, nodes, Len(nodes))
  BY <1>1, CompiledExists
<1>3. Compiled(nodes) = r[Len(nodes)]
  BY DEF Compiled, CompiledTo
<1> HIDE DEF r
<1>4. r[0] = EmptyRoutine /\ \A n \in 1..Len(nodes) : r[n] = ParseNode(r[n - 1], nodes[n])
  <2>1. 0 \in 0..Len(nodes)
    BY <1>1
  <2>2. r[0] = EmptyRoutine
    BY <1>2, <2>1 DEF CompiledTo
  <2>3. ASSUME NEW n \in 1..Len(nodes) PROVE r[n] = ParseNode(r[n - 1], nodes[n])
    <3>1. n \in 0..Len(nodes) /\ n # 0
      BY <1>1
    <3> QED
      BY <1>2, <3>1 DEF CompiledTo
  <2> QED
    BY <2>2, <2>3
<1>5. 0 \in A
  <2>1. IsCode(<<>>) /\ Placed(<<>>) = {}
    BY DEF IsCode, IsSequence, Items, HasOp, OneLabelEach, Placed
  <2>2. IsRoutine(EmptyRoutine)
    BY <2>1 DEF IsRoutine, EmptyRoutine
  <2> QED
    BY <1>4, <2>2
<1>6. ASSUME NEW n \in Nat, n \in A PROVE n + 1 \in A
  <2> SUFFICES ASSUME n + 1 <= Len(nodes) PROVE IsRoutine(r[n + 1])
    OBVIOUS
  <2>1. n + 1 \in 1..Len(nodes) /\ (n + 1) - 1 = n /\ n <= Len(nodes)
    BY <1>1
  <2>2. IsRoutine(r[n]) /\ r[n + 1] = ParseNode(r[n], nodes[n + 1])
    BY <1>4, <1>6, <2>1
  <2>3. nodes[n + 1].node \in NodeKinds
    BY <1>1, <2>1 DEF IsNodes, Items
  <2> QED
    BY <2>2, <2>3, ParseNodeKeeps
<1> HIDE DEF A
<1>7. \A n \in Nat : n \in A
  BY <1>5, <1>6, InductionOverNat
<1>8. Len(nodes) \in A
  BY <1>1, <1>7
<1> QED
  BY <1>1, <1>3, <1>8 DEF A

-----------------------------------------------------------------------------
(* The nodes a statement writes. *)

LEMMA NoNodes == IsNodes(<<>>)
BY DEF IsNodes, IsSequence, Items

LEMMA OneNode ==
  ASSUME NEW n, n.node \in NodeKinds
  PROVE  IsNodes(<<n>>)
<1>1. Len(<<n>>) = 1 /\ DOMAIN <<n>> = 1..1 /\ <<n>>[1] = n
  OBVIOUS
<1>2. Items(<<n>>) = {n}
  BY <1>1 DEF Items
<1>3. <<n>> \in Seq({n})
  OBVIOUS
<1> QED
  BY <1>2, <1>3 DEF IsNodes, IsSequence

LEMMA MoreNodes ==
  ASSUME NEW s, IsNodes(s), NEW t, IsNodes(t)
  PROVE  IsNodes(s \o t)
BY ConcatIsSequence DEF IsNodes

LEMMA Constructors ==
  ASSUME NEW l, NEW test, NEW c, NEW ifTrue, NEW ifFalse, NEW of
  PROVE  /\ IsNodes(EmitLabel(l))
         /\ IsNodes(EmitJump(l))
         /\ IsNodes(EmitBranch(test, ifTrue, ifFalse))
         /\ IsNodes(EmitCompare(test, c))
         /\ IsNodes(Other("Operation", of))
         /\ IsNodes(Other("Return", of))
         /\ IsNodes(Other("UseOfComparison", of))
<1>1. IsNodes(EmitLabel(l))
  <2>1. [node |-> "Label", label |-> l].node \in NodeKinds
    BY DEF NodeKinds
  <2> QED
    BY <2>1, OneNode DEF EmitLabel
<1>2. IsNodes(EmitJump(l))
  <2>1. [node |-> "Goto", label |-> l].node \in NodeKinds
    BY DEF NodeKinds
  <2> QED
    BY <2>1, OneNode DEF EmitJump
<1>3. IsNodes(EmitBranch(test, ifTrue, ifFalse))
  <2>1. [node |-> "Branch", test |-> test, ifTrue |-> ifTrue, ifFalse |-> ifFalse].node \in NodeKinds
    BY DEF NodeKinds
  <2> QED
    BY <2>1, OneNode DEF EmitBranch
<1>4. IsNodes(EmitCompare(test, c))
  <2>1. [node |-> "Compare", test |-> test, code |-> c].node \in NodeKinds
    BY DEF NodeKinds
  <2> QED
    BY <2>1, OneNode DEF EmitCompare
<1>5. ASSUME NEW kind \in {"Operation", "Return", "UseOfComparison"} PROVE IsNodes(Other(kind, of))
  <2>1. [node |-> kind, of |-> of].node \in NodeKinds
    BY DEF NodeKinds
  <2> QED
    BY <2>1, OneNode DEF Other
<1>6. IsNodes(Other("Operation", of)) /\ IsNodes(Other("Return", of)) /\ IsNodes(Other("UseOfComparison", of))
  BY <1>5
<1> QED
  BY <1>1, <1>2, <1>3, <1>4, <1>6

LEMMA ConditionalBranch ==
  ASSUME NEW token, NEW test, NEW ifTrue, NEW ifFalse
  PROVE  IsNodes(EmitConditionalBranch(token, test, ifTrue, ifFalse))
<1>1. IsNodes(EmitJump(ifTrue))
  BY Constructors
<1>2. IsNodes(EmitCompare(test, token.code)) /\ IsNodes(EmitBranch(test, ifTrue, ifFalse))
  BY Constructors
<1>3. IsNodes(EmitCompare(test, token.code) \o EmitBranch(test, ifTrue, ifFalse))
  BY <1>2, MoreNodes
<1> QED
  BY <1>1, <1>3 DEF EmitConditionalBranch

FrameKinds == {"if", "else"} \cup Loops
IsFrame(f) == {"kind", "at", "body", "cont", "end"} \subseteq DOMAIN f /\ f.kind \in FrameKinds
IsFrames(s) == IsSequence(s) /\ \A i \in DOMAIN s : IsFrame(s[i])

\* Whatever is closed, its nodes are nodes.
LEMMA CloseWritesNodes ==
  ASSUME NEW frame, frame.kind \in FrameKinds
  PROVE  IsNodes(CloseNodes(frame))
<1> DEFINE step == IF frame.kind = "for" THEN Other("Operation", <<"step", frame.at>>) ELSE <<>>
           branch == EmitConditionalBranch(program[frame.at], frame.at, frame.body, frame.end)
           end == IF program[frame.at].cond = "ill" THEN <<>> ELSE branch \o EmitLabel(frame.end)
<1>1. IsNodes(step)
  BY NoNodes, Constructors
<1>2. IsNodes(EmitLabel(frame.end)) /\ IsNodes(EmitJump(frame.end)) /\ IsNodes(EmitLabel(frame.cont))
  BY Constructors
<1>3. IsNodes(end)
  <2>1. IsNodes(branch)
    BY ConditionalBranch
  <2> HIDE DEF branch
  <2>2. IsNodes(branch \o EmitLabel(frame.end))
    BY <1>2, <2>1, MoreNodes
  <2> QED
    BY <2>2, NoNodes
<1>4. /\ frame.kind = "if" => CloseNodes(frame) = EmitJump(frame.end) \o EmitLabel(frame.end)
      /\ frame.kind = "else" => CloseNodes(frame) = EmitLabel(frame.end)
      /\ frame.kind \in Loops => CloseNodes(frame) = step \o EmitLabel(frame.cont) \o end
  BY DEF CloseNodes, Loops
<1> HIDE DEF step, end
<1>5. IsNodes(EmitJump(frame.end) \o EmitLabel(frame.end))
  BY <1>2, MoreNodes
<1>6. IsNodes(step \o EmitLabel(frame.cont))
  BY <1>1, <1>2, MoreNodes
<1>7. IsNodes(step \o EmitLabel(frame.cont) \o end)
  BY <1>3, <1>6, MoreNodes
<1> QED
  BY <1>2, <1>4, <1>5, <1>7 DEF FrameKinds

-----------------------------------------------------------------------------
(* The invariant *)

FinalisedCode ==
    /\ phase \in {"statements", "finalising", "done"}
    /\ phase = "finalising" => IsCode(code)
    /\ phase = "done" => IsCode(code) /\ JumpsLead(code)

IInv ==
    /\ IsNodes(built)
    /\ IsFrames(frames)
    /\ FinalisedCode

\* A statement writes nodes and leaves the translation alone.
Writes == (\E nodes : IsNodes(nodes) /\ built' = built \o nodes) /\ UNCHANGED translation

LEMMA WritesKeeps ==
  ASSUME IInv, Writes
  PROVE  IsNodes(built') /\ FinalisedCode'
<1>1. IsNodes(built')
  BY MoreNodes DEF IInv, Writes
<1>2. phase' = phase /\ code' = code
  BY DEF Writes, translation
<1> QED
  BY <1>1, <1>2 DEF IInv, FinalisedCode

LEMMA FramesStay ==
  ASSUME IInv, UNCHANGED frames
  PROVE  IsFrames(frames')
BY DEF IInv

\* Statements that open and close nothing.
LEMMA SimpleStatements ==
  ASSUME IInv,
         \/ ExpressionStatement \/ ComparisonAsValue \/ ParseReturn
         \/ \E l \in UserLabels : ParseLabelNode(l) \/ ParseGotoNode(l)
         \/ ParseBreakNode \/ ParseContinueNode
         \/ \E kind \in {"if", "while", "for"} : IllCondition(kind)
  PROVE  IInv'
<1> SUFFICES Writes /\ UNCHANGED frames
  BY WritesKeeps, FramesStay DEF IInv
<1>1. CASE ExpressionStatement
  <2>1. IsNodes(Other("Operation", <<"at", Here>>))
    BY Constructors
  <2> QED
    BY <1>1, <2>1 DEF ExpressionStatement, Read, Write, Writes
<1>2. CASE ComparisonAsValue
  <2>1. IsNodes(EmitCompare(Here, Code)) /\ IsNodes(Other("UseOfComparison", <<"at", Here>>))
    BY Constructors
  <2>2. IsNodes(EmitCompare(Here, Code) \o Other("UseOfComparison", <<"at", Here>>))
    BY <2>1, MoreNodes
  <2> QED
    BY <1>2, <2>2 DEF ComparisonAsValue, Read, Write, Writes
<1>3. CASE ParseReturn
  <2>1. IsNodes(Other("Return", <<"at", Here>>))
    BY Constructors
  <2> QED
    BY <1>3, <2>1 DEF ParseReturn, Read, Write, Writes
<1>4. CASE \E l \in UserLabels : ParseLabelNode(l) \/ ParseGotoNode(l)
  <2>1. \A l : IsNodes(EmitLabel(Written(l))) /\ IsNodes(EmitJump(Written(l)))
    BY Constructors
  <2> QED
    BY <1>4, <2>1 DEF ParseLabelNode, ParseGotoNode, Read, Write, Writes
<1>5. CASE ParseBreakNode
  <2>1. IsNodes(EmitJump(Last(jumpStack).breakLabel))
    BY Constructors
  <2> QED
    BY <1>5, <2>1, NoNodes DEF ParseBreakNode, Read, Write, Writes
<1>6. CASE ParseContinueNode
  <2>1. IsNodes(EmitJump(Last(jumpStack).continueLabel))
    BY Constructors
  <2> QED
    BY <1>6, <2>1, NoNodes DEF ParseContinueNode, Read, Write, Writes
<1>7. CASE \E kind \in {"if", "while", "for"} : IllCondition(kind)
  <2>1. IsNodes(Other("Operation", <<"init", Here>>))
    BY Constructors
  <2>2. PICK kind \in {"if", "while", "for"} : IllCondition(kind)
    BY <1>7
  <2>3. IsNodes(IF kind = "for" THEN Other("Operation", <<"init", Here>>) ELSE <<>>)
    BY <2>1, NoNodes
  <2>4. /\ built' = built \o (IF kind = "for" THEN Other("Operation", <<"init", Here>>) ELSE <<>>)
        /\ UNCHANGED translation
        /\ UNCHANGED frames
    BY <2>2 DEF IllCondition, Read
  <2> QED
    BY <2>3, <2>4 DEF Writes
<1> QED
  BY <1>1, <1>2, <1>3, <1>4, <1>5, <1>6, <1>7

LEMMA EnterKeeps ==
  ASSUME IInv, NEW frame, IsFrame(frame), frames' = Append(frames, frame)
  PROVE  IsFrames(frames')
<1> DEFINE more == Append(frames, frame)
<1>1. IsSequence(frames)
  BY DEF IInv, IsFrames
<1>2. Len(frames) \in Nat /\ DOMAIN frames = 1..Len(frames)
  BY <1>1, SequenceFacts
<1>3. /\ IsSequence(more)
      /\ DOMAIN more = 1..Len(frames) + 1
      /\ \A i \in 1..Len(frames) : more[i] = frames[i]
      /\ more[Len(frames) + 1] = frame
  BY <1>1, AppendIsSequence
<1> HIDE DEF more
<1>4. \A i \in 1..Len(frames) + 1 : i \in 1..Len(frames) \/ i = Len(frames) + 1
  BY <1>2
<1>5. IsFrames(more)
  BY <1>2, <1>3, <1>4 DEF IInv, IsFrames
<1> QED
  BY <1>5 DEF more

LEMMA OpenKeeps ==
  ASSUME IInv,
         \/ \E hasElse \in BOOLEAN : OpenIf(hasElse)
         \/ \E kind \in Loops, cond \in {"test", "none", "ill"} : OpenLoop(kind, cond)
  PROVE  IInv'
<1>1. CASE \E hasElse \in BOOLEAN : OpenIf(hasElse)
  <2> PICK hasElse \in BOOLEAN : OpenIf(hasElse)
    BY <1>1
  <2> DEFINE then == MakeLabelName("if.then", nextLabelIndex)
             end == MakeLabelName("if.end", nextLabelIndex + 1)
             else == IF hasElse THEN MakeLabelName("if.else", nextLabelIndex + 2) ELSE end
             frame == Frame("if", then, else, end)
             branch == EmitConditionalBranch(Token("if", "test", ""), Here, then, else)
  <2>1. /\ frames' = Append(frames, frame)
        /\ built' = built \o (branch \o EmitLabel(then))
        /\ UNCHANGED translation
    BY DEF OpenIf, Enter, EmitEntry, Read
  <2>2. IsFrame(frame)
    BY DEF IsFrame, Frame, FrameKinds
  <2>3. IsNodes(branch) /\ IsNodes(EmitLabel(then))
    BY ConditionalBranch, Constructors
  <2> HIDE DEF then, end, else, frame, branch
  <2>4. IsNodes(branch \o EmitLabel(then))
    BY <2>3, MoreNodes
  <2>5. IsFrames(frames')
    BY <2>1, <2>2, EnterKeeps
  <2>6. Writes
    BY <2>1, <2>4 DEF Writes
  <2> QED
    BY <2>5, <2>6, WritesKeeps DEF IInv
<1>2. CASE \E kind \in Loops, cond \in {"test", "none", "ill"} : OpenLoop(kind, cond)
  <2> PICK kind \in Loops, cond \in {"test", "none", "ill"} : OpenLoop(kind, cond)
    BY <1>2
  <2> DEFINE frame == LoopFrame(kind)
             first == IF kind = "for" THEN Other("Operation", <<"init", Here>>) ELSE <<>>
             entry == EmitConditionalBranch(Token(kind, cond, ""), Here, frame.body, frame.end)
             branch == IF kind = "do" THEN <<>> ELSE entry
  <2>1. /\ frames' = Append(frames, frame)
        /\ built' = built \o (first \o branch \o EmitLabel(frame.body))
        /\ UNCHANGED translation
    BY DEF OpenLoop, Enter, EmitEntry, Read
  <2>2. IsFrame(frame)
    BY DEF IsFrame, LoopFrame, Frame, FrameKinds
  <2>3. IsNodes(entry) /\ IsNodes(EmitLabel(frame.body)) /\ IsNodes(Other("Operation", <<"init", Here>>))
    BY ConditionalBranch, Constructors
  <2> HIDE DEF entry, frame
  <2>4. IsNodes(first) /\ IsNodes(branch)
    BY <2>3, NoNodes
  <2> HIDE DEF first, branch
  <2>5. IsNodes(first \o branch)
    BY <2>4, MoreNodes
  <2>6. IsNodes(first \o branch \o EmitLabel(frame.body))
    BY <2>3, <2>5, MoreNodes
  <2>7. IsFrames(frames')
    BY <2>1, <2>2, EnterKeeps
  <2>8. Writes
    BY <2>1, <2>6 DEF Writes
  <2> QED
    BY <2>7, <2>8, WritesKeeps DEF IInv
<1> QED
  BY <1>1, <1>2

LEMMA ElseKeeps ==
  ASSUME IInv, Else
  PROVE  IInv'
<1> DEFINE frame == Last(frames)
           m == Len(frames)
<1>1. /\ frames # <<>>
      /\ frames' = [frames EXCEPT ![m].kind = "else"]
      /\ built' = built \o EmitJump(frame.end) \o EmitLabel(frame.cont)
      /\ UNCHANGED translation
  BY DEF Else, Read
<1>2. IsSequence(frames) /\ m \in Nat /\ DOMAIN frames = 1..m
  BY SequenceFacts DEF IInv, IsFrames
<1>3. IsNodes(built \o EmitJump(frame.end) \o EmitLabel(frame.cont))
  <2>1. IsNodes(EmitJump(frame.end)) /\ IsNodes(EmitLabel(frame.cont))
    BY Constructors
  <2>2. IsNodes(built \o EmitJump(frame.end))
    BY <2>1, MoreNodes DEF IInv
  <2> QED
    BY <2>1, <2>2, MoreNodes
<1>4. IsFrames(frames')
  <2>1. m \in DOMAIN frames
    <3>1. m # 0
      BY <1>1, <1>2 DEF IsSequence
    <3> QED
      BY <1>2, <3>1
  <2>2. /\ DOMAIN frames' = 1..m
        /\ \A i \in 1..m : i # m => frames'[i] = frames[i]
        /\ frames'[m] = [frames[m] EXCEPT !.kind = "else"]
        /\ frames' = [i \in 1..m |-> frames'[i]]
    BY <1>1, <1>2, <2>1
  <2>3. IsFrame(frames'[m])
    <3>1. IsFrame(frames[m])
      BY <1>2, <2>1 DEF IInv, IsFrames
    <3>2. DOMAIN frames'[m] = DOMAIN frames[m] /\ frames'[m].kind = "else"
      BY <2>2, <3>1 DEF IsFrame
    <3> QED
      BY <3>1, <3>2 DEF IsFrame, FrameKinds
  <2>4. frames' \in [1..m -> Items(frames')]
    BY <2>2 DEF Items
  <2>5. IsSequence(frames')
    BY <1>2, <2>4, FunctionIsSequence DEF IsSequence
  <2> QED
    BY <1>2, <2>2, <2>3, <2>5 DEF IInv, IsFrames
<1>5. FinalisedCode'
  BY <1>1 DEF IInv, FinalisedCode, translation
<1> QED
  BY <1>1, <1>3, <1>4, <1>5 DEF IInv

LEMMA CloseKeeps ==
  ASSUME IInv, Close
  PROVE  IInv'
<1> DEFINE frame == Last(frames)
           m == Len(frames)
<1>1. /\ frames # <<>>
      /\ frames' = Front(frames)
      /\ built' = built \o CloseNodes(frame)
      /\ UNCHANGED translation
  BY DEF Close
<1>2. frames \in Seq(Items(frames)) /\ m \in Nat /\ DOMAIN frames = 1..m
  BY SequenceFacts DEF IInv, IsFrames, IsSequence
<1>3. m \in 1..m
  BY <1>1, <1>2
<1>4. IsNodes(CloseNodes(frame))
  <2>1. frame = frames[m]
    BY DEF Last
  <2>2. frame.kind \in FrameKinds
    BY <1>2, <1>3, <2>1 DEF IInv, IsFrames, IsFrame
  <2> QED
    BY <2>2, CloseWritesNodes
<1>5. IsFrames(frames')
  <2>1. /\ frames' \in Seq(Items(frames))
        /\ DOMAIN frames' = 1..m - 1
        /\ \A i \in 1..m - 1 : frames'[i] = frames[i]
    BY <1>1, <1>2, <1>3 DEF Front
  <2>2. IsSequence(frames')
    BY <2>1, SequenceOf
  <2>3. \A i \in 1..m - 1 : i \in 1..m
    BY <1>2
  <2> QED
    BY <1>2, <2>1, <2>2, <2>3 DEF IInv, IsFrames
<1>6. Writes
  BY <1>1, <1>4 DEF Writes
<1> QED
  BY <1>5, <1>6, WritesKeeps DEF IInv

LEMMA CompileKeeps ==
  ASSUME IInv, NEW void \in BOOLEAN, NEW optimise, CompileRoutine(void, optimise)
  PROVE  IInv'
<1> DEFINE nodes == built \o ImplicitReturn(void)
           r == Compiled(nodes)
<1>1. /\ built' = nodes
      /\ code' = IF optimise THEN r.instructions ELSE EraseUndefined(r.instructions, r.definedLabels)
      /\ phase' = IF optimise THEN "finalising" ELSE "done"
      /\ UNCHANGED frames
  BY DEF CompileRoutine
<1>2. IsNodes(nodes)
  <2>1. IsNodes(ImplicitReturn(void))
    BY NoNodes, Constructors DEF ImplicitReturn
  <2> QED
    BY <2>1, MoreNodes DEF IInv
<1> HIDE DEF nodes
<1>3. IsRoutine(r)
  BY <1>2, CompiledIsRoutine
<1> HIDE DEF r
<1>4. IsCode(r.instructions) /\ r.definedLabels \subseteq Placed(r.instructions)
  BY <1>3 DEF IsRoutine
<1>5. /\ IsCode(EraseUndefined(r.instructions, r.definedLabels))
      /\ JumpsLead(EraseUndefined(r.instructions, r.definedLabels))
  BY <1>4, EraseUndefinedLeads
<1>6. FinalisedCode'
  <2>1. CASE optimise
    BY <1>1, <1>4, <2>1 DEF FinalisedCode
  <2>2. CASE ~optimise
    BY <1>1, <1>5, <2>2 DEF FinalisedCode
  <2> QED
    BY <2>1, <2>2
<1>7. IsFrames(frames')
  BY <1>1, FramesStay
<1> QED
  BY <1>1, <1>2, <1>6, <1>7 DEF IInv

LEMMA PassKeeps ==
  ASSUME IInv, FinalisePass
  PROVE  IInv'
<1>1. IsCode(code)
  BY DEF IInv, FinalisedCode, FinalisePass
<1>2. /\ code' = Pass(code)
      /\ phase' \in {"done", "finalising"}
      /\ built' = built
      /\ UNCHANGED frames
  BY DEF FinalisePass
<1>3. IsCode(code') /\ JumpsLead(code')
  BY <1>1, <1>2, PassLeads
<1>4. IsFrames(frames')
  BY <1>2, FramesStay
<1> QED
  BY <1>2, <1>3, <1>4 DEF IInv, FinalisedCode

-----------------------------------------------------------------------------
(* The theorem *)

LEMMA Initially == Init => IInv
<1> SUFFICES ASSUME Init PROVE IInv
  OBVIOUS
<1>1. built = <<>> /\ frames = <<>> /\ phase = "statements"
  BY DEF Init
<1>2. IsFrames(<<>>)
  BY DEF IsFrames, IsSequence, Items
<1> QED
  BY <1>1, <1>2, NoNodes DEF IInv, FinalisedCode

LEMMA Inductive == IInv /\ [Next]_vars => IInv'
<1> SUFFICES ASSUME IInv, [Next]_vars PROVE IInv'
  OBVIOUS
<1>1. CASE \/ ExpressionStatement \/ ComparisonAsValue \/ ParseReturn
           \/ \E l \in UserLabels : ParseLabelNode(l) \/ ParseGotoNode(l)
           \/ ParseBreakNode \/ ParseContinueNode
           \/ \E kind \in {"if", "while", "for"} : IllCondition(kind)
  BY <1>1, SimpleStatements
<1>2. CASE \/ \E hasElse \in BOOLEAN : OpenIf(hasElse)
           \/ \E kind \in Loops, cond \in {"test", "none", "ill"} : OpenLoop(kind, cond)
  BY <1>2, OpenKeeps
<1>3. CASE Else
  BY <1>3, ElseKeeps
<1>4. CASE Close
  BY <1>4, CloseKeeps
<1>5. CASE \E void \in BOOLEAN, optimise \in Optimise : CompileRoutine(void, optimise)
  BY <1>5, CompileKeeps
<1>6. CASE FinalisePass
  BY <1>6, PassKeeps
<1>7. CASE UNCHANGED vars
  BY <1>7 DEF vars, IInv, FinalisedCode
<1> QED
  BY <1>1, <1>2, <1>3, <1>4, <1>5, <1>6, <1>7 DEF Next

\* Whatever statements a function is made of and however deep they nest, whatever is diagnosed,
\* with and without the optimisation and after any number of passes: the code that is handed on
\* has every label once, and the label of every jump, so that the emitter's assertion that no
\* jump leads to a label that was never emitted cannot fail.
THEOREM JumpsLeadToLabels == Spec => []JumpsHaveLabels
<1>1. IInv => JumpsHaveLabels
  BY DEF IInv, FinalisedCode, IsCode, OneLabelEach, IsLabel, JumpsLead, JumpsHaveLabels
<1> QED
  BY <1>1, Initially, Inductive, PTL DEF Spec

-----------------------------------------------------------------------------
(* What is open. *)

\* Token j ends statement k, if nothing before j does.
Ends(p, k, j) == p[j].kind = "close" /\ Depth(p, j) = Depth(p, k) + 1
OpenAt(p, k, i) ==
    /\ k \in 1..(i - 1) /\ p[k].kind \in Openers
    /\ \A j \in (k + 1)..(i - 1) : ~Ends(p, k, j)
HasEnd(p, k) ==
    \E j \in (k + 1)..Len(p) : Ends(p, k, j) /\ \A i \in (k + 1)..(j - 1) : ~Ends(p, k, i)

\* The frames are the statements that are open, from the outermost to the innermost.
Nest(p, f) ==
    /\ Depth(p, Len(p) + 1) = Len(f)
    /\ \A n \in DOMAIN f :
          /\ OpenAt(p, f[n].at, Len(p) + 1)
          /\ Depth(p, f[n].at) = n - 1
          /\ p[f[n].at].kind \in Loops <=> f[n].kind \in Loops
    /\ \A k \in DOMAIN p : p[k].kind \in Openers => HasEnd(p, k) \/ \E n \in DOMAIN f : f[n].at = k

\* The entries of the jump stack are the loops among the frames, in their order.
StackOf(h, f, s) ==
    /\ h \in [DOMAIN s -> DOMAIN f]
    /\ \A i, j \in DOMAIN s : i < j => h[i] < h[j]
    /\ \A i \in DOMAIN s : /\ f[h[i]].kind \in Loops
                           /\ s[i].breakLabel = f[h[i]].end
                           /\ s[i].continueLabel = f[h[i]].cont
    /\ \A n \in DOMAIN f : f[n].kind \in Loops => \E i \in DOMAIN s : h[i] = n
IsStack(f, s) == IsSequence(s) /\ \E h : StackOf(h, f, s)

\* What has been diagnosed before the routine is compiled: conditions that are none (those of a
\* do at its end), break and continue outside of loops.
Misplaced(p, i) ==
    \/ p[i].kind = "ill"
    \/ p[i].kind \in {"break", "continue"} /\ \A k \in DOMAIN p : OpenAt(p, k, i) => p[k].kind \notin Loops
Blamed(p, f, d) ==
    d <=> \E i \in DOMAIN p : \/ Misplaced(p, i)
                              \/ p[i].cond = "ill" /\ \A n \in DOMAIN f : f[n].at # i

-----------------------------------------------------------------------------
(* What the nodes say. *)

LabelsIn(b) == {b[i].label : i \in {j \in DOMAIN b : b[j].node = "Label"}}
GotosIn(b) == {b[i].label : i \in {j \in DOMAIN b : b[j].node = "Goto"}}
HasUse(b) == \E i \in DOMAIN b : b[i].node = "UseOfComparison"
PlacedTwice(b) ==
    \E i, j \in DOMAIN b : i # j /\ b[i].node = "Label" /\ b[j].node = "Label" /\ b[i].label = b[j].label

\* A comparison is followed by its branch, or by its use.
Paired(b) ==
    /\ \A i \in DOMAIN b : b[i].node = "Compare" =>
          i + 1 \in DOMAIN b /\ b[i + 1].node \in {"UseOfComparison", "Branch"}
    /\ \A i \in DOMAIN b : b[i].node = "Branch" =>
          i - 1 \in DOMAIN b /\ b[i - 1].node = "Compare" /\ b[i - 1].test = b[i].test

\* Labels made by MakeLabelName, and those of a frame that are still to be placed.
Made(next) == {MakeLabelName(h, n) : h \in Hints, n \in 0..(next - 1)}
Pending(f) == IF f.kind = "else" THEN {f.end} ELSE {f.cont, f.end}

\* Labels to be placed are new, each of its own frame.
Fresh(f, b, next) ==
    /\ \A n \in DOMAIN f : Pending(f[n]) \subseteq Made(next) \ LabelsIn(b)
    /\ \A m, n \in DOMAIN f : m # n => Pending(f[m]) \cap Pending(f[n]) = {}
    /\ \A n \in DOMAIN f : f[n].kind \in Loops => f[n].cont # f[n].end /\ f[n].body \in LabelsIn(b)
    /\ \A x \in LabelsIn(b) : x \in Made(next) \/ \E l \in UserLabels : x = Written(l)

IsLabelOf(p, l) == \E i \in DOMAIN p : p[i].kind = "label" /\ p[i].label = l
LabelTwice(p) == \E i, j \in DOMAIN p : /\ i # j /\ p[i].kind = "label" /\ p[j].kind = "label"
                                        /\ p[i].label = p[j].label
IsGotoOf(p, l) == \E i \in DOMAIN p : p[i].kind = "goto" /\ p[i].label = l

\* The nodes have the labels, the jumps and the values of the program.
SaidOf(p, b) ==
    /\ \A i \in DOMAIN p : p[i].kind \in {"label", "goto"} => p[i].label \in UserLabels
    /\ \A l \in UserLabels : Written(l) \in LabelsIn(b) <=> IsLabelOf(p, l)
    /\ \A l \in UserLabels : IsGotoOf(p, l) => Written(l) \in GotosIn(b)
    /\ PlacedTwice(b) <=> LabelTwice(p)
    /\ HasUse(b) <=> \E i \in DOMAIN p : p[i].kind = "value"

\* A jump leads to a label that is placed or will be, or where the program says.
Leads(p, f, b, d) ==
    \A x \in GotosIn(b) : \/ d
                          \/ x \in LabelsIn(b)
                          \/ \E n \in DOMAIN f : x \in Pending(f[n])
                          \/ \E l \in UserLabels : IsGotoOf(p, l) /\ x = Written(l)

-----------------------------------------------------------------------------
(* Frames and what is open. *)

OpenersTo(p, i) == {j \in 1..(i - 1) : p[j].kind \in Openers}
ClosesTo(p, i) == {j \in 1..(i - 1) : p[j].kind = "close"}

LEMMA Counted ==
  ASSUME NEW p, NEW i \in Nat
  PROVE  /\ IsFiniteSet(OpenersTo(p, i)) /\ Cardinality(OpenersTo(p, i)) \in Nat
         /\ IsFiniteSet(ClosesTo(p, i)) /\ Cardinality(ClosesTo(p, i)) \in Nat
         /\ Depth(p, i) = Cardinality(OpenersTo(p, i)) - Cardinality(ClosesTo(p, i))
<1>1. IsFiniteSet(1..(i - 1))
  BY FS_Interval
<1>2. OpenersTo(p, i) \subseteq 1..(i - 1) /\ ClosesTo(p, i) \subseteq 1..(i - 1)
  BY DEF OpenersTo, ClosesTo
<1>3. IsFiniteSet(OpenersTo(p, i)) /\ IsFiniteSet(ClosesTo(p, i))
  BY <1>1, <1>2, FS_Subset
<1> QED
  BY <1>3, FS_CardinalityType DEF Depth, OpenersTo, ClosesTo

\* A token more changes no depth up to it, and the depth behind it by what it is.
LEMMA DepthOfAppend ==
  ASSUME NEW p, IsSequence(p), NEW t
  PROVE  /\ \A i \in 1..Len(p) + 1 : Depth(Append(p, t), i) = Depth(p, i)
         /\ Depth(Append(p, t), Len(p) + 2) = Depth(p, Len(p) + 1)
               + (IF t.kind \in Openers THEN 1 ELSE 0) - (IF t.kind = "close" THEN 1 ELSE 0)
<1> DEFINE q == Append(p, t)
           m == Len(p) + 1
<1>1. /\ Len(p) \in Nat /\ m \in Nat
      /\ \A j \in 1..(m - 1) : q[j] = p[j]
      /\ q[m] = t
  BY SequenceFacts, AppendIsSequence
<1> HIDE DEF q
<1>2. ASSUME NEW i \in 1..m
      PROVE  OpenersTo(q, i) = OpenersTo(p, i) /\ ClosesTo(q, i) = ClosesTo(p, i)
  <2>1. \A j \in 1..(i - 1) : q[j] = p[j]
    BY <1>1
  <2> QED
    BY <2>1 DEF OpenersTo, ClosesTo
<1>3. \A i \in 1..m : Depth(q, i) = Depth(p, i)
  <2> SUFFICES ASSUME NEW i \in 1..m PROVE Depth(q, i) = Depth(p, i)
    OBVIOUS
  <2>1. i \in Nat
    BY <1>1
  <2> QED
    BY <1>2, <2>1, Counted
<1>4. Cardinality(OpenersTo(q, m + 1)) = Cardinality(OpenersTo(p, m)) + (IF t.kind \in Openers THEN 1 ELSE 0)
  <2>1. IsFiniteSet(OpenersTo(p, m)) /\ Cardinality(OpenersTo(p, m)) \in Nat
    BY <1>1, Counted
  <2>2. m \notin OpenersTo(p, m)
    BY <1>1 DEF OpenersTo
  <2>3. CASE t.kind \in Openers
    <3>1. OpenersTo(q, m + 1) = OpenersTo(p, m) \cup {m}
      <4>1. \A j : j \in 1..(m + 1 - 1) <=> j \in 1..(m - 1) \/ j = m
        BY <1>1
      <4> QED
        BY <1>1, <2>3, <4>1 DEF OpenersTo
    <3>2. Cardinality(OpenersTo(p, m) \cup {m}) = Cardinality(OpenersTo(p, m)) + 1
      BY <2>1, <2>2, FS_AddElement
    <3> QED
      BY <2>3, <3>1, <3>2
  <2>4. CASE t.kind \notin Openers
    <3>1. OpenersTo(q, m + 1) = OpenersTo(p, m)
      <4>1. \A j : j \in 1..(m + 1 - 1) <=> j \in 1..(m - 1) \/ j = m
        BY <1>1
      <4> QED
        BY <1>1, <2>4, <4>1 DEF OpenersTo
    <3> QED
      BY <2>1, <2>4, <3>1
  <2> QED
    BY <2>3, <2>4
<1>5. Cardinality(ClosesTo(q, m + 1)) = Cardinality(ClosesTo(p, m)) + (IF t.kind = "close" THEN 1 ELSE 0)
  <2>1. IsFiniteSet(ClosesTo(p, m)) /\ Cardinality(ClosesTo(p, m)) \in Nat
    BY <1>1, Counted
  <2>2. m \notin ClosesTo(p, m)
    BY <1>1 DEF ClosesTo
  <2>3. CASE t.kind = "close"
    <3>1. ClosesTo(q, m + 1) = ClosesTo(p, m) \cup {m}
      <4>1. \A j : j \in 1..(m + 1 - 1) <=> j \in 1..(m - 1) \/ j = m
        BY <1>1
      <4> QED
        BY <1>1, <2>3, <4>1 DEF ClosesTo
    <3>2. Cardinality(ClosesTo(p, m) \cup {m}) = Cardinality(ClosesTo(p, m)) + 1
      BY <2>1, <2>2, FS_AddElement
    <3> QED
      BY <2>3, <3>1, <3>2
  <2>4. CASE t.kind # "close"
    <3>1. ClosesTo(q, m + 1) = ClosesTo(p, m)
      <4>1. \A j : j \in 1..(m + 1 - 1) <=> j \in 1..(m - 1) \/ j = m
        BY <1>1
      <4> QED
        BY <1>1, <2>4, <4>1 DEF ClosesTo
    <3> QED
      BY <2>1, <2>4, <3>1
  <2> QED
    BY <2>3, <2>4
<1>6. Depth(q, m + 1) = Depth(p, m) + (IF t.kind \in Openers THEN 1 ELSE 0) - (IF t.kind = "close" THEN 1 ELSE 0)
  <2>1. /\ Depth(q, m + 1) = Cardinality(OpenersTo(q, m + 1)) - Cardinality(ClosesTo(q, m + 1))
        /\ Depth(p, m) = Cardinality(OpenersTo(p, m)) - Cardinality(ClosesTo(p, m))
        /\ Cardinality(OpenersTo(p, m)) \in Nat /\ Cardinality(ClosesTo(p, m)) \in Nat
    BY <1>1, Counted
  <2> QED
    BY <1>4, <1>5, <2>1
<1>7. m + 1 = Len(p) + 2
  BY <1>1
<1> QED
  BY <1>3, <1>6, <1>7 DEF q

\* What is open or ended before a token does not depend on it.
LEMMA OpenBefore ==
  ASSUME NEW p, IsSequence(p), NEW t
  PROVE  /\ \A k \in 1..Len(p) : \A j \in 1..Len(p) : Ends(Append(p, t), k, j) <=> Ends(p, k, j)
         /\ \A i \in 1..Len(p) + 1 : \A k : OpenAt(Append(p, t), k, i) <=> OpenAt(p, k, i)
         /\ \A k \in 1..Len(p) : HasEnd(p, k) => HasEnd(Append(p, t), k)
<1> DEFINE q == Append(p, t)
           m == Len(p)
<1>1. /\ m \in Nat /\ Len(q) = m + 1
      /\ \A j \in 1..m : q[j] = p[j]
      /\ \A i \in 1..m + 1 : Depth(q, i) = Depth(p, i)
  BY SequenceFacts, AppendIsSequence, DepthOfAppend
<1> HIDE DEF q, m
<1>2. ASSUME NEW k \in 1..m, NEW j \in 1..m PROVE Ends(q, k, j) <=> Ends(p, k, j)
  <2>1. k \in 1..m + 1 /\ j \in 1..m + 1
    BY <1>1
  <2>2. Depth(q, k) = Depth(p, k) /\ Depth(q, j) = Depth(p, j) /\ q[j] = p[j]
    BY <1>1, <2>1
  <2> QED
    BY <2>2 DEF Ends
<1>3. ASSUME NEW i \in 1..m + 1, NEW k PROVE OpenAt(q, k, i) <=> OpenAt(p, k, i)
  <2> SUFFICES ASSUME k \in 1..(i - 1) PROVE OpenAt(q, k, i) <=> OpenAt(p, k, i)
    BY DEF OpenAt
  <2>1. k \in 1..m /\ \A j \in (k + 1)..(i - 1) : j \in 1..m
    BY <1>1
  <2>2. q[k] = p[k] /\ \A j \in (k + 1)..(i - 1) : Ends(q, k, j) <=> Ends(p, k, j)
    BY <1>1, <1>2, <2>1
  <2> QED
    BY <2>2 DEF OpenAt
<1>4. ASSUME NEW k \in 1..m, HasEnd(p, k) PROVE HasEnd(q, k)
  <2>1. PICK j \in (k + 1)..m : Ends(p, k, j) /\ \A i \in (k + 1)..(j - 1) : ~Ends(p, k, i)
    BY <1>4 DEF HasEnd, m
  <2>2. j \in 1..m /\ j \in (k + 1)..(m + 1) /\ \A i \in (k + 1)..(j - 1) : i \in 1..m
    BY <1>1
  <2>3. Ends(q, k, j) /\ \A i \in (k + 1)..(j - 1) : ~Ends(q, k, i)
    BY <1>2, <2>1, <2>2
  <2> QED
    BY <1>1, <2>2, <2>3 DEF HasEnd
<1> QED
  BY <1>2, <1>3, <1>4 DEF q, m

\* What is open behind a token.
LEMMA OpenBehind ==
  ASSUME NEW p, IsSequence(p), NEW t, NEW k
  PROVE  OpenAt(Append(p, t), k, Len(p) + 2) <=>
            \/ k = Len(p) + 1 /\ t.kind \in Openers
            \/ OpenAt(p, k, Len(p) + 1) /\ ~(t.kind = "close" /\ Depth(p, Len(p) + 1) = Depth(p, k) + 1)
<1> DEFINE q == Append(p, t)
           m == Len(p) + 1
<1>1. /\ m \in Nat /\ m + 1 = Len(p) + 2 /\ m >= 1
      /\ \A j \in 1..(m - 1) : q[j] = p[j]
      /\ q[m] = t
      /\ \A i \in 1..m : Depth(q, i) = Depth(p, i)
  <2>1. Len(p) \in Nat /\ m - 1 = Len(p) /\ m \in Nat /\ m + 1 = Len(p) + 2 /\ m >= 1
    BY SequenceFacts
  <2>2. (\A j \in 1..Len(p) : q[j] = p[j]) /\ q[m] = t
    BY AppendIsSequence
  <2>3. \A i \in 1..m : Depth(q, i) = Depth(p, i)
    BY DepthOfAppend
  <2> HIDE DEF q
  <2> QED
    BY <2>1, <2>2, <2>3
<1>2. OpenAt(q, k, m) <=> OpenAt(p, k, m)
  <2>1. m \in 1..Len(p) + 1
    BY <1>1
  <2> QED
    BY <2>1, OpenBefore
<1>6. Len(p) + 2 = m + 1
  BY <1>1
<1> HIDE DEF q, m
<1>3. CASE k = m
  <2>1. ~OpenAt(p, k, m)
    BY <1>1, <1>3 DEF OpenAt
  <2>2. OpenAt(q, k, m + 1) <=> t.kind \in Openers
    <3>1. m \in 1..(m + 1 - 1) /\ (m + 1)..(m + 1 - 1) = {}
      BY <1>1
    <3> QED
      BY <1>1, <1>3, <3>1 DEF OpenAt
  <2> QED
    BY <1>3, <1>6, <2>1, <2>2 DEF m, q
<1>4. CASE k # m /\ k \in 1..(m - 1)
  <2>1. \A j : j \in (k + 1)..(m + 1 - 1) <=> j \in (k + 1)..(m - 1) \/ j = m
    BY <1>1, <1>4
  <2>2. k \in 1..(m + 1 - 1)
    BY <1>1, <1>4
  <2>3. OpenAt(q, k, m + 1) <=> OpenAt(q, k, m) /\ ~Ends(q, k, m)
    BY <1>4, <2>1, <2>2 DEF OpenAt
  <2>4. Ends(q, k, m) <=> t.kind = "close" /\ Depth(p, m) = Depth(p, k) + 1
    <3>1. k \in 1..m /\ m \in 1..m
      BY <1>1, <1>4
    <3>2. Depth(q, k) = Depth(p, k) /\ Depth(q, m) = Depth(p, m)
      BY <1>1, <3>1
    <3> QED
      BY <1>1, <3>2 DEF Ends
  <2> QED
    BY <1>2, <1>4, <1>6, <2>3, <2>4 DEF m, q
<1>5. CASE k # m /\ k \notin 1..(m - 1)
  <2>1. k \notin 1..(m + 1 - 1)
    BY <1>1, <1>5
  <2> QED
    BY <1>5, <1>6, <2>1 DEF OpenAt, m, q
<1> QED
  BY <1>3, <1>4, <1>5

LEMMA EndedIsNotOpen ==
  ASSUME NEW p, IsSequence(p), NEW k, HasEnd(p, k)
  PROVE  ~OpenAt(p, k, Len(p) + 1)
<1>1. Len(p) \in Nat
  BY SequenceFacts
<1>2. PICK j \in (k + 1)..Len(p) : Ends(p, k, j)
  BY DEF HasEnd
<1> SUFFICES ASSUME OpenAt(p, k, Len(p) + 1) PROVE FALSE
  OBVIOUS
<1>3. k \in Nat
  BY <1>1 DEF OpenAt
<1>4. j \in (k + 1)..(Len(p) + 1 - 1)
  BY <1>1, <1>3
<1> QED
  BY <1>2, <1>4 DEF OpenAt

\* Depths are numbers.
LEMMA DepthIsNumber ==
  ASSUME NEW p, NEW i \in Nat
  PROVE  Depth(p, i) \in Int
BY Counted

LEMMA NestBegins == Nest(<<>>, <<>>)
<1>1. Depth(<<>>, 1) = 0
  <2>1. OpenersTo(<<>>, 1) = {} /\ ClosesTo(<<>>, 1) = {}
    BY DEF OpenersTo, ClosesTo
  <2> QED
    BY <2>1, Counted, FS_EmptySet
<1> QED
  BY <1>1 DEF Nest

\* A token that opens and closes nothing; the frames may be renamed.
LEMMA NestGoesOn ==
  ASSUME NEW p, IsSequence(p), NEW f, NEW g, Nest(p, f), NEW t, t.kind \notin Openers, t.kind # "close",
         Len(g) = Len(f), DOMAIN g = DOMAIN f,
         \A n \in DOMAIN f : g[n].at = f[n].at /\ (g[n].kind \in Loops <=> f[n].kind \in Loops)
  PROVE  Nest(Append(p, t), g)
<1> DEFINE q == Append(p, t)
           m == Len(p) + 1
<1>1. /\ m \in Nat /\ Len(q) = m /\ m + 1 = Len(p) + 2 /\ DOMAIN p = 1..Len(p) /\ DOMAIN q = 1..m
      /\ Len(p) \in Nat
      /\ \A j \in 1..Len(p) : q[j] = p[j]
      /\ q[m] = t
  BY SequenceFacts, AppendIsSequence
<1>2. /\ Depth(q, m + 1) = Depth(p, m)
      /\ \A i \in 1..m : Depth(q, i) = Depth(p, i)
  <2>1. Depth(p, m) \in Int
    BY <1>1, DepthIsNumber
  <2>2. Depth(q, m + 1) = Depth(p, m) + 0 - 0
    BY <1>1, DepthOfAppend
  <2> QED
    BY <2>1, <2>2, DepthOfAppend
<1>3. \A k : OpenAt(q, k, m + 1) <=> OpenAt(p, k, m)
  BY <1>1, OpenBehind
<1>4. \A k \in 1..Len(p) : HasEnd(p, k) => HasEnd(q, k)
  BY OpenBefore
<1> HIDE DEF q
<1>5. ASSUME NEW n \in DOMAIN g
      PROVE  /\ OpenAt(q, g[n].at, m + 1)
             /\ Depth(q, g[n].at) = n - 1
             /\ q[g[n].at].kind \in Loops <=> g[n].kind \in Loops
  <2>1. /\ OpenAt(p, f[n].at, m)
        /\ Depth(p, f[n].at) = n - 1
        /\ p[f[n].at].kind \in Loops <=> f[n].kind \in Loops
    BY DEF Nest
  <2>2. f[n].at \in 1..Len(p)
    BY <1>1, <2>1 DEF OpenAt
  <2>3. f[n].at \in 1..m
    BY <1>1, <2>2
  <2> QED
    BY <1>1, <1>2, <1>3, <2>1, <2>2, <2>3
<1>6. ASSUME NEW k \in DOMAIN q, q[k].kind \in Openers PROVE HasEnd(q, k) \/ \E n \in DOMAIN g : g[n].at = k
  <2>1. k # m
    BY <1>1, <1>6
  <2>2. k \in 1..Len(p)
    BY <1>1, <2>1
  <2>3. HasEnd(p, k) \/ \E n \in DOMAIN f : f[n].at = k
    BY <1>1, <1>6, <2>2 DEF Nest
  <2> QED
    BY <1>4, <2>2, <2>3
<1>7. Depth(q, m + 1) = Len(g)
  BY <1>2 DEF Nest
<1> QED
  BY <1>1, <1>5, <1>6, <1>7 DEF Nest, q

LEMMA NestOpens ==
  ASSUME NEW p, IsSequence(p), NEW f, IsSequence(f), Nest(p, f), NEW t, t.kind \in Openers, NEW frame,
         frame.at = Len(p) + 1, t.kind \in Loops <=> frame.kind \in Loops
  PROVE  Nest(Append(p, t), Append(f, frame))
<1> DEFINE q == Append(p, t)
           g == Append(f, frame)
           m == Len(p) + 1
<1>1. /\ m \in Nat /\ Len(q) = m /\ m + 1 = Len(p) + 2 /\ DOMAIN p = 1..Len(p) /\ DOMAIN q = 1..m
      /\ Len(p) \in Nat
      /\ \A j \in 1..Len(p) : q[j] = p[j]
      /\ q[m] = t
  BY SequenceFacts, AppendIsSequence
<1>2. /\ Len(f) \in Nat /\ DOMAIN f = 1..Len(f) /\ Len(g) = Len(f) + 1 /\ DOMAIN g = 1..Len(f) + 1
      /\ \A n \in 1..Len(f) : g[n] = f[n]
      /\ g[Len(f) + 1] = frame
  BY SequenceFacts, AppendIsSequence
<1>3. t.kind # "close"
  BY DEF Openers, Loops
<1>4. /\ Depth(q, m + 1) = Len(g)
      /\ \A i \in 1..m : Depth(q, i) = Depth(p, i)
      /\ Depth(p, m) = Len(f)
  <2>1. Depth(p, m) = Len(f)
    BY DEF Nest
  <2>2. Depth(q, m + 1) = Depth(p, m) + 1 - 0
    BY <1>1, <1>3, DepthOfAppend
  <2> QED
    BY <1>2, <2>1, <2>2, DepthOfAppend
<1>5. \A k : OpenAt(q, k, m + 1) <=> k = m \/ OpenAt(p, k, m)
  BY <1>1, <1>3, OpenBehind
<1>6. \A k \in 1..Len(p) : HasEnd(p, k) => HasEnd(q, k)
  BY OpenBefore
<1> HIDE DEF q, g
<1>7. ASSUME NEW n \in DOMAIN g
      PROVE  /\ OpenAt(q, g[n].at, m + 1)
             /\ Depth(q, g[n].at) = n - 1
             /\ q[g[n].at].kind \in Loops <=> g[n].kind \in Loops
  <2>1. CASE n \in 1..Len(f)
    <3>1. /\ OpenAt(p, f[n].at, m)
          /\ Depth(p, f[n].at) = n - 1
          /\ p[f[n].at].kind \in Loops <=> f[n].kind \in Loops
          /\ g[n] = f[n]
      BY <1>2, <2>1 DEF Nest
    <3>2. f[n].at \in 1..Len(p)
      BY <1>1, <3>1 DEF OpenAt
    <3>3. f[n].at \in 1..m
      BY <1>1, <3>2
    <3> QED
      BY <1>1, <1>4, <1>5, <3>1, <3>2, <3>3
  <2>2. CASE n = Len(f) + 1
    <3>1. g[n] = frame /\ m \in 1..m /\ n - 1 = Len(f)
      BY <1>1, <1>2, <2>2
    <3> QED
      BY <1>1, <1>4, <1>5, <3>1
  <2> QED
    BY <1>2, <2>1, <2>2
<1>8. ASSUME NEW k \in DOMAIN q, q[k].kind \in Openers PROVE HasEnd(q, k) \/ \E n \in DOMAIN g : g[n].at = k
  <2>1. CASE k = m
    <3>1. Len(f) + 1 \in DOMAIN g
      BY <1>2
    <3> QED
      BY <1>2, <2>1, <3>1
  <2>2. CASE k \in 1..Len(p)
    <3>1. HasEnd(p, k) \/ \E n \in DOMAIN f : f[n].at = k
      BY <1>1, <1>8, <2>2 DEF Nest
    <3>2. \A n \in DOMAIN f : n \in DOMAIN g /\ g[n] = f[n]
      BY <1>2
    <3> QED
      BY <1>6, <2>2, <3>1, <3>2
  <2> QED
    BY <1>1, <2>1, <2>2
<1> QED
  BY <1>1, <1>4, <1>7, <1>8 DEF Nest, q, g

LEMMA FrontFacts ==
  ASSUME NEW f, IsSequence(f), f # <<>>
  PROVE  /\ Len(f) \in Nat \ {0} /\ DOMAIN f = 1..Len(f)
         /\ Len(Front(f)) = Len(f) - 1
         /\ DOMAIN Front(f) = 1..(Len(f) - 1)
         /\ \A n \in 1..(Len(f) - 1) : Front(f)[n] = f[n]
         /\ IsSequence(Front(f))
         /\ Last(f) = f[Len(f)]
<1>1. f \in Seq(Items(f)) /\ Len(f) \in Nat /\ DOMAIN f = 1..Len(f)
  BY SequenceFacts DEF IsSequence
<1>2. Len(f) # 0
  BY <1>1
<1>3. /\ Front(f) \in Seq(Items(f))
      /\ Len(Front(f)) = Len(f) - 1
      /\ DOMAIN Front(f) = 1..(Len(f) - 1)
      /\ \A n \in 1..(Len(f) - 1) : Front(f)[n] = f[n]
  BY <1>1, <1>2 DEF Front
<1>4. IsSequence(Front(f))
  BY <1>3, SequenceOf
<1> QED
  BY <1>1, <1>2, <1>3, <1>4 DEF Last

LEMMA NestCloses ==
  ASSUME NEW p, IsSequence(p), NEW f, IsSequence(f), f # <<>>, Nest(p, f), NEW t, t.kind = "close"
  PROVE  Nest(Append(p, t), Front(f))
<1> DEFINE q == Append(p, t)
           g == Front(f)
           m == Len(p) + 1
           d == Len(f)
<1>1. /\ m \in Nat /\ Len(q) = m /\ m + 1 = Len(p) + 2 /\ DOMAIN p = 1..Len(p) /\ DOMAIN q = 1..m
      /\ Len(p) \in Nat
      /\ \A j \in 1..Len(p) : q[j] = p[j]
      /\ q[m] = t
  BY SequenceFacts, AppendIsSequence
<1>2. /\ d \in Nat /\ d # 0 /\ DOMAIN f = 1..d /\ Len(g) = d - 1 /\ DOMAIN g = 1..(d - 1)
      /\ \A n \in 1..(d - 1) : g[n] = f[n]
  BY FrontFacts
<1>3. t.kind \notin Openers
  BY DEF Openers, Loops
<1>4. /\ Depth(q, m + 1) = Len(g)
      /\ \A i \in 1..m : Depth(q, i) = Depth(p, i)
      /\ Depth(p, m) = d
  <2>1. Depth(p, m) = d
    BY DEF Nest
  <2>2. /\ Depth(q, m + 1) = Depth(p, m) + 0 - 1
        /\ \A i \in 1..m : Depth(q, i) = Depth(p, i)
    <3>1. /\ Depth(q, Len(p) + 2) = Depth(p, Len(p) + 1)
                + (IF t.kind \in Openers THEN 1 ELSE 0) - (IF t.kind = "close" THEN 1 ELSE 0)
          /\ \A i \in 1..Len(p) + 1 : Depth(q, i) = Depth(p, i)
      BY DepthOfAppend
    <3> HIDE DEF q
    <3>2. Depth(q, m + 1) = Depth(p, m) + (IF t.kind \in Openers THEN 1 ELSE 0) - (IF t.kind = "close" THEN 1 ELSE 0)
      BY <1>1, <3>1
    <3> QED
      BY <1>3, <3>1, <3>2
  <2> HIDE DEF q, m, d, g
  <2> QED
    BY <1>2, <2>1, <2>2
<1>5. \A k : OpenAt(q, k, m + 1) <=> OpenAt(p, k, m) /\ d # Depth(p, k) + 1
  BY <1>1, <1>3, <1>4, OpenBehind
<1>6. \A k \in 1..Len(p) : HasEnd(p, k) => HasEnd(q, k)
  BY OpenBefore
<1>7. \A n \in 1..d : /\ OpenAt(p, f[n].at, m)
                      /\ Depth(p, f[n].at) = n - 1
                      /\ p[f[n].at].kind \in Loops <=> f[n].kind \in Loops
  BY <1>2 DEF Nest
<1>8. HasEnd(q, f[d].at)
  <2> DEFINE k == f[d].at
  <2>1. d \in 1..d
    BY <1>2
  <2>2. OpenAt(p, k, m) /\ Depth(p, k) = d - 1
    BY <1>7, <2>1
  <2>3. k \in 1..Len(p) /\ \A i \in (k + 1)..(m - 1) : ~Ends(p, k, i)
    BY <1>1, <2>2 DEF OpenAt
  <2> HIDE DEF k
  <2>4. \A i \in (k + 1)..(m - 1) : i \in 1..Len(p)
    BY <1>1, <2>3
  <2>5. \A i \in (k + 1)..(m - 1) : ~Ends(q, k, i)
    BY <2>3, <2>4, OpenBefore
  <2>6. Ends(q, k, m)
    <3>1. k \in 1..m /\ m \in 1..m
      BY <1>1, <2>3
    <3>2. Depth(q, k) = d - 1 /\ Depth(q, m) = d
      BY <1>4, <2>2, <3>1
    <3>3. d = d - 1 + 1
      BY <1>2
    <3> QED
      BY <1>1, <3>2, <3>3 DEF Ends
  <2>7. m \in (k + 1)..Len(q)
    BY <1>1, <2>3
  <2>8. HasEnd(q, k)
    BY <2>5, <2>6, <2>7 DEF HasEnd
  <2> QED
    BY <2>8 DEF k
<1> HIDE DEF q, g, d
<1>9. ASSUME NEW n \in DOMAIN g
      PROVE  /\ OpenAt(q, g[n].at, m + 1)
             /\ Depth(q, g[n].at) = n - 1
             /\ q[g[n].at].kind \in Loops <=> g[n].kind \in Loops
  <2>1. n \in 1..d /\ g[n] = f[n] /\ d # n - 1 + 1
    BY <1>2
  <2>2. /\ OpenAt(p, f[n].at, m)
        /\ Depth(p, f[n].at) = n - 1
        /\ p[f[n].at].kind \in Loops <=> f[n].kind \in Loops
    BY <1>7, <2>1
  <2>3. f[n].at \in 1..Len(p)
    BY <1>1, <2>2 DEF OpenAt
  <2>4. f[n].at \in 1..m
    BY <1>1, <2>3
  <2> QED
    BY <1>1, <1>4, <1>5, <2>1, <2>2, <2>3, <2>4
<1>10. ASSUME NEW k \in DOMAIN q, q[k].kind \in Openers PROVE HasEnd(q, k) \/ \E n \in DOMAIN g : g[n].at = k
  <2>1. k # m
    BY <1>1, <1>3, <1>10
  <2>2. k \in 1..Len(p)
    BY <1>1, <2>1
  <2>3. HasEnd(p, k) \/ \E n \in DOMAIN f : f[n].at = k
    BY <1>1, <1>10, <2>2 DEF Nest
  <2>4. CASE HasEnd(p, k)
    BY <1>6, <2>2, <2>4
  <2>5. CASE \E n \in DOMAIN f : f[n].at = k
    <3>1. PICK n \in 1..d : f[n].at = k
      BY <1>2, <2>5
    <3>2. CASE n = d
      BY <1>8, <3>1, <3>2
    <3>3. CASE n # d
      <4>1. n \in 1..(d - 1)
        BY <1>2, <3>3
      <4> QED
        BY <1>2, <3>1, <4>1
    <3> QED
      BY <3>2, <3>3
  <2> QED
    BY <2>3, <2>4, <2>5
<1> QED
  BY <1>1, <1>4, <1>9, <1>10 DEF Nest, q, g

-----------------------------------------------------------------------------
(* The jump stack *)

LEMMA StackBegins == IsStack(<<>>, <<>>)
<1> DEFINE h == [i \in {} |-> i]
<1>1. StackOf(h, <<>>, <<>>)
  BY DEF StackOf
<1>2. IsSequence(<<>>)
  BY DEF IsSequence, Items
<1> HIDE DEF h
<1> QED
  BY <1>1, <1>2 DEF IsStack

\* It is empty where no loop is open.
LEMMA StackIsEmpty ==
  ASSUME NEW f, NEW s, IsStack(f, s)
  PROVE  s = <<>> <=> \A n \in DOMAIN f : f[n].kind \notin Loops
<1>1. PICK h : StackOf(h, f, s)
  BY DEF IsStack
<1>2. IsSequence(s) /\ Len(s) \in Nat /\ DOMAIN s = 1..Len(s)
  BY SequenceFacts DEF IsStack
<1>3. s # <<>> => 1 \in DOMAIN s
  BY <1>2 DEF IsSequence
<1>4. s = <<>> => DOMAIN s = {}
  OBVIOUS
<1>5. ASSUME s # <<>> PROVE \E n \in DOMAIN f : f[n].kind \in Loops
  <2>1. h[1] \in DOMAIN f /\ f[h[1]].kind \in Loops
    BY <1>1, <1>3, <1>5 DEF StackOf
  <2> QED
    BY <2>1
<1>6. ASSUME NEW n \in DOMAIN f, f[n].kind \in Loops PROVE DOMAIN s # {}
  BY <1>1, <1>6 DEF StackOf
<1> QED
  BY <1>4, <1>5, <1>6

\* The innermost loop is its last entry.
LEMMA StackLast ==
  ASSUME NEW f, NEW s, IsStack(f, s), s # <<>>
  PROVE  \E n \in DOMAIN f : /\ f[n].kind \in Loops
                             /\ Last(s).breakLabel = f[n].end
                             /\ Last(s).continueLabel = f[n].cont
<1>1. PICK h : StackOf(h, f, s)
  BY DEF IsStack
<1>2. IsSequence(s) /\ Len(s) \in Nat /\ DOMAIN s = 1..Len(s)
  BY SequenceFacts DEF IsStack
<1>3. Len(s) \in DOMAIN s /\ Last(s) = s[Len(s)]
  BY <1>2 DEF IsSequence, Last
<1>4. h[Len(s)] \in DOMAIN f
  BY <1>1, <1>3 DEF StackOf
<1> QED
  BY <1>1, <1>3, <1>4 DEF StackOf

\* Frames renamed, where they keep what the stack knows of them.
LEMMA StackStays ==
  ASSUME NEW f, NEW g, NEW s, IsStack(f, s), DOMAIN g = DOMAIN f,
         \A n \in DOMAIN f : f[n].kind \in Loops \/ g[n].kind \in Loops => g[n] = f[n]
  PROVE  IsStack(g, s)
<1>1. PICK h : StackOf(h, f, s)
  BY DEF IsStack
<1>2. StackOf(h, g, s)
  <2>1. h \in [DOMAIN s -> DOMAIN g] /\ \A i, j \in DOMAIN s : i < j => h[i] < h[j]
    BY <1>1 DEF StackOf
  <2>2. ASSUME NEW i \in DOMAIN s
        PROVE  /\ g[h[i]].kind \in Loops
               /\ s[i].breakLabel = g[h[i]].end
               /\ s[i].continueLabel = g[h[i]].cont
    <3>1. h[i] \in DOMAIN f /\ f[h[i]].kind \in Loops
      BY <1>1 DEF StackOf
    <3>2. g[h[i]] = f[h[i]]
      BY <3>1
    <3> QED
      BY <1>1, <3>1, <3>2 DEF StackOf
  <2>3. ASSUME NEW n \in DOMAIN g, g[n].kind \in Loops PROVE \E i \in DOMAIN s : h[i] = n
    <3>1. n \in DOMAIN f /\ f[n].kind \in Loops
      BY <2>3
    <3> QED
      BY <1>1, <3>1 DEF StackOf
  <2> QED
    BY <2>1, <2>2, <2>3 DEF StackOf
<1> QED
  BY <1>2 DEF IsStack

LEMMA StackOpens ==
  ASSUME NEW f, IsSequence(f), NEW s, IsStack(f, s), NEW frame
  PROVE  IsStack(Append(f, frame), IF frame.kind \in Loops
                                   THEN Append(s, [breakLabel |-> frame.end, continueLabel |-> frame.cont])
                                   ELSE s)
<1> DEFINE g == Append(f, frame)
           entry == [breakLabel |-> frame.end, continueLabel |-> frame.cont]
           u == Append(s, entry)
           m == Len(s) + 1
           k == Len(f) + 1
<1>1. PICK h : StackOf(h, f, s)
  BY DEF IsStack
<1>2. IsSequence(s) /\ Len(s) \in Nat /\ DOMAIN s = 1..Len(s)
  BY SequenceFacts DEF IsStack
<1>3. /\ Len(f) \in Nat /\ DOMAIN f = 1..Len(f)
      /\ DOMAIN g = 1..k /\ g[k] = frame
      /\ \A n \in DOMAIN f : g[n] = f[n]
  BY SequenceFacts, AppendIsSequence
<1>4. \A n : n \in DOMAIN g <=> n \in DOMAIN f \/ n = k
  BY <1>3
<1>5. k \notin DOMAIN f /\ \A n \in DOMAIN f : n < k
  BY <1>3
<1>6. CASE frame.kind \in Loops
  <2>1. /\ IsSequence(u) /\ DOMAIN u = 1..m /\ u[m] = entry
        /\ \A i \in DOMAIN s : u[i] = s[i]
    BY <1>2, AppendIsSequence
  <2>2. \A i : i \in DOMAIN u <=> i \in DOMAIN s \/ i = m
    BY <1>2, <2>1
  <2>3. m \notin DOMAIN s /\ (\A i \in DOMAIN s : i < m) /\ \A i \in DOMAIN u : i = m \/ i < m
    BY <1>2, <2>1
  <2>4. entry.breakLabel = frame.end /\ entry.continueLabel = frame.cont
    OBVIOUS
  <2> DEFINE hh == [i \in DOMAIN u |-> IF i = m THEN k ELSE h[i]]
  <2>5. hh[m] = k /\ (\A i \in DOMAIN s : hh[i] = h[i]) /\ DOMAIN hh = DOMAIN u
    BY <2>2, <2>3
  <2>6. \A i \in DOMAIN s : h[i] \in DOMAIN f
    BY <1>1 DEF StackOf
  <2>7. hh \in [DOMAIN u -> DOMAIN g]
    BY <1>4, <2>2, <2>6
  <2> HIDE DEF hh, entry
  <2>8. ASSUME NEW i \in DOMAIN u, NEW j \in DOMAIN u, i < j PROVE hh[i] < hh[j]
    <3>1. i \in DOMAIN s
      <4>1. i \in 1..m /\ j \in 1..m
        BY <2>1
      <4>2. i # m
        BY <1>2, <2>8, <4>1
      <4> QED
        BY <2>2, <4>2
    <3>2. CASE j \in DOMAIN s
      <4>1. h[i] < h[j]
        BY <1>1, <2>8, <3>1, <3>2 DEF StackOf
      <4> QED
        BY <2>5, <3>1, <3>2, <4>1
    <3>3. CASE j = m
      <4>1. h[i] < k
        BY <1>5, <2>6, <3>1
      <4> QED
        BY <2>5, <3>1, <3>3, <4>1
    <3> QED
      BY <2>2, <3>2, <3>3
  <2>9. ASSUME NEW i \in DOMAIN u
        PROVE  /\ g[hh[i]].kind \in Loops
               /\ u[i].breakLabel = g[hh[i]].end
               /\ u[i].continueLabel = g[hh[i]].cont
    <3>1. CASE i \in DOMAIN s
      <4>1. h[i] \in DOMAIN f /\ f[h[i]].kind \in Loops /\ s[i].breakLabel = f[h[i]].end /\ s[i].continueLabel = f[h[i]].cont
        BY <1>1, <3>1 DEF StackOf
      <4>2. hh[i] = h[i] /\ g[h[i]] = f[h[i]] /\ u[i] = s[i]
        BY <1>3, <2>1, <2>5, <3>1, <4>1
      <4> QED
        BY <4>1, <4>2
    <3>2. CASE i = m
      <4>1. hh[i] = k /\ g[k] = frame /\ u[i] = entry
        BY <1>3, <2>1, <2>5, <3>2
      <4> QED
        BY <1>6, <2>4, <4>1
    <3> QED
      BY <2>2, <3>1, <3>2
  <2>10. ASSUME NEW n \in DOMAIN g, g[n].kind \in Loops PROVE \E i \in DOMAIN u : hh[i] = n
    <3>1. CASE n \in DOMAIN f
      <4>1. g[n] = f[n]
        BY <1>3, <3>1
      <4>2. PICK i \in DOMAIN s : h[i] = n
        BY <1>1, <2>10, <3>1, <4>1 DEF StackOf
      <4> QED
        BY <2>2, <2>5, <4>2
    <3>2. CASE n = k
      BY <2>2, <2>5, <3>2
    <3> QED
      BY <1>4, <3>1, <3>2
  <2>11. StackOf(hh, g, u)
    BY <2>7, <2>8, <2>9, <2>10 DEF StackOf
  <2>12. IsStack(g, u)
    BY <2>1, <2>11 DEF IsStack
  <2> QED
    BY <1>6, <2>12 DEF entry
<1>7. CASE frame.kind \notin Loops
  <2>1. h \in [DOMAIN s -> DOMAIN g] /\ \A i, j \in DOMAIN s : i < j => h[i] < h[j]
    BY <1>1, <1>4 DEF StackOf
  <2>2. ASSUME NEW i \in DOMAIN s
        PROVE  /\ g[h[i]].kind \in Loops
               /\ s[i].breakLabel = g[h[i]].end
               /\ s[i].continueLabel = g[h[i]].cont
    <3>1. h[i] \in DOMAIN f /\ f[h[i]].kind \in Loops /\ s[i].breakLabel = f[h[i]].end /\ s[i].continueLabel = f[h[i]].cont
      BY <1>1 DEF StackOf
    <3>2. g[h[i]] = f[h[i]]
      BY <1>3, <3>1
    <3> QED
      BY <3>1, <3>2
  <2>3. ASSUME NEW n \in DOMAIN g, g[n].kind \in Loops PROVE \E i \in DOMAIN s : h[i] = n
    <3>1. n # k
      BY <1>3, <1>7, <2>3
    <3>2. n \in DOMAIN f /\ g[n] = f[n]
      BY <1>3, <1>4, <3>1
    <3> QED
      BY <1>1, <2>3, <3>2 DEF StackOf
  <2>4. StackOf(h, g, s)
    BY <2>1, <2>2, <2>3 DEF StackOf
  <2>5. IsStack(g, s)
    BY <1>2, <2>4 DEF IsStack
  <2> QED
    BY <1>7, <2>5
<1> QED
  BY <1>6, <1>7

LEMMA StackCloses ==
  ASSUME NEW f, IsSequence(f), f # <<>>, NEW s, IsStack(f, s)
  PROVE  IsStack(Front(f), IF Last(f).kind \in Loops THEN Front(s) ELSE s)
<1> DEFINE g == Front(f)
           u == Front(s)
           k == Len(f)
           m == Len(s)
<1>1. PICK h : StackOf(h, f, s)
  BY DEF IsStack
<1>2. IsSequence(s) /\ m \in Nat /\ DOMAIN s = 1..m
  BY SequenceFacts DEF IsStack
<1>3. /\ k \in Nat \ {0} /\ DOMAIN f = 1..k /\ DOMAIN g = 1..(k - 1)
      /\ \A n \in 1..(k - 1) : g[n] = f[n]
      /\ Last(f) = f[k]
  BY FrontFacts
<1>4. \A n : n \in DOMAIN g <=> n \in DOMAIN f /\ n # k
  BY <1>3
<1>5. k \in DOMAIN f /\ \A n \in DOMAIN f : n <= k
  BY <1>3
<1>6. /\ h \in [DOMAIN s -> DOMAIN f]
      /\ \A i, j \in DOMAIN s : i < j => h[i] < h[j]
      /\ \A i \in DOMAIN s : /\ f[h[i]].kind \in Loops
                             /\ s[i].breakLabel = f[h[i]].end
                             /\ s[i].continueLabel = f[h[i]].cont
      /\ \A n \in DOMAIN f : f[n].kind \in Loops => \E i \in DOMAIN s : h[i] = n
  BY <1>1 DEF StackOf
<1>7. CASE f[k].kind \in Loops
  <2>1. PICK i \in DOMAIN s : h[i] = k
    BY <1>5, <1>6, <1>7
  <2>2. i = m
    <3> SUFFICES ASSUME i # m PROVE FALSE
      OBVIOUS
    <3>1. m \in DOMAIN s /\ i < m
      BY <1>2, <2>1
    <3>2. h[i] < h[m] /\ h[m] \in DOMAIN f
      BY <1>6, <3>1
    <3>3. h[m] \in Nat /\ h[m] <= k
      BY <1>3, <3>2
    <3> QED
      BY <1>3, <2>1, <3>2, <3>3
  <2>3. s # <<>>
    BY <2>1
  <2>4. /\ DOMAIN u = 1..(m - 1) /\ IsSequence(u)
        /\ \A j \in 1..(m - 1) : u[j] = s[j]
    BY <1>2, <2>3, FrontFacts
  <2>5. \A j : j \in DOMAIN u <=> j \in DOMAIN s /\ j # m
    BY <1>2, <2>4
  <2> DEFINE hh == [j \in DOMAIN u |-> h[j]]
  <2>6. \A j \in DOMAIN u : h[j] \in DOMAIN f /\ h[j] # k
    <3> SUFFICES ASSUME NEW j \in DOMAIN u PROVE h[j] \in DOMAIN f /\ h[j] # k
      OBVIOUS
    <3>1. j \in DOMAIN s /\ j < m /\ m \in DOMAIN s
      BY <1>2, <2>4, <2>5
    <3>2. h[j] < h[m] /\ h[m] = k /\ h[j] \in DOMAIN f
      BY <1>6, <2>1, <2>2, <3>1
    <3> QED
      BY <1>3, <3>2
  <2>7. hh \in [DOMAIN u -> DOMAIN g] /\ \A j \in DOMAIN u : hh[j] = h[j]
    BY <1>4, <2>6
  <2> HIDE DEF hh
  <2>8. \A i1, j1 \in DOMAIN u : i1 < j1 => hh[i1] < hh[j1]
    BY <1>6, <2>5, <2>7
  <2>9. ASSUME NEW j \in DOMAIN u
        PROVE  /\ g[hh[j]].kind \in Loops
               /\ u[j].breakLabel = g[hh[j]].end
               /\ u[j].continueLabel = g[hh[j]].cont
    <3>1. j \in DOMAIN s /\ u[j] = s[j] /\ hh[j] = h[j] /\ h[j] \in DOMAIN g
      BY <2>4, <2>5, <2>7
    <3>2. g[h[j]] = f[h[j]]
      BY <1>3, <3>1
    <3> QED
      BY <1>6, <3>1, <3>2
  <2>10. ASSUME NEW n \in DOMAIN g, g[n].kind \in Loops PROVE \E j \in DOMAIN u : hh[j] = n
    <3>1. n \in DOMAIN f /\ n # k /\ g[n] = f[n]
      BY <1>3, <1>4, <2>10
    <3>2. PICK j \in DOMAIN s : h[j] = n
      BY <1>6, <2>10, <3>1
    <3>3. j # m
      BY <2>1, <2>2, <3>1, <3>2
    <3> QED
      BY <2>5, <2>7, <3>2, <3>3
  <2>11. StackOf(hh, g, u)
    BY <2>7, <2>8, <2>9, <2>10 DEF StackOf
  <2>12. IsStack(g, u)
    BY <2>4, <2>11 DEF IsStack
  <2> QED
    BY <1>3, <1>7, <2>12
<1>8. CASE f[k].kind \notin Loops
  <2>1. \A i \in DOMAIN s : h[i] \in DOMAIN f /\ h[i] # k
    BY <1>6, <1>8
  <2>2. h \in [DOMAIN s -> DOMAIN g]
    BY <1>4, <1>6, <2>1
  <2>3. \A i \in DOMAIN s : g[h[i]] = f[h[i]]
    BY <1>3, <1>4, <2>1
  <2>4. \A n \in DOMAIN g : n \in DOMAIN f /\ g[n] = f[n]
    BY <1>3, <1>4
  <2>5. StackOf(h, g, s)
    BY <1>6, <2>2, <2>3, <2>4 DEF StackOf
  <2>6. IsStack(g, s)
    BY <1>2, <2>5 DEF IsStack
  <2> QED
    BY <1>3, <1>8, <2>6
<1> QED
  BY <1>7, <1>8

-----------------------------------------------------------------------------
(* What is diagnosed before the end. *)

LEMMA BlamedBegins == Blamed(<<>>, <<>>, FALSE)
BY DEF Blamed

\* A loop is open where a frame of a loop is.
LEMMA LoopIsOpen ==
  ASSUME NEW p, IsSequence(p), NEW f, Nest(p, f)
  PROVE  (\E n \in DOMAIN f : f[n].kind \in Loops) <=>
            \E k \in DOMAIN p : OpenAt(p, k, Len(p) + 1) /\ p[k].kind \in Loops
<1>1. DOMAIN p = 1..Len(p) /\ Len(p) \in Nat
  BY SequenceFacts
<1>2. ASSUME NEW n \in DOMAIN f, f[n].kind \in Loops
      PROVE  \E k \in DOMAIN p : OpenAt(p, k, Len(p) + 1) /\ p[k].kind \in Loops
  <2>1. OpenAt(p, f[n].at, Len(p) + 1) /\ p[f[n].at].kind \in Loops
    BY <1>2 DEF Nest
  <2>2. f[n].at \in DOMAIN p
    BY <1>1, <2>1 DEF OpenAt
  <2> QED
    BY <2>1, <2>2
<1>3. ASSUME NEW k \in DOMAIN p, OpenAt(p, k, Len(p) + 1), p[k].kind \in Loops
      PROVE  \E n \in DOMAIN f : f[n].kind \in Loops
  <2>1. p[k].kind \in Openers
    BY <1>3 DEF Openers
  <2>2. ~HasEnd(p, k)
    BY <1>3, EndedIsNotOpen
  <2>3. PICK n \in DOMAIN f : f[n].at = k
    BY <2>1, <2>2 DEF Nest
  <2>4. f[n].kind \in Loops
    BY <1>3, <2>3 DEF Nest
  <2> QED
    BY <2>4
<1> QED
  BY <1>2, <1>3

\* Tokens before the last are misplaced as they were, the last as the loops open there say.
LEMMA MisplacedBefore ==
  ASSUME NEW p, IsSequence(p), NEW f, Nest(p, f), NEW t
  PROVE  /\ \A i \in DOMAIN p : Misplaced(Append(p, t), i) <=> Misplaced(p, i)
         /\ Misplaced(Append(p, t), Len(p) + 1) <=>
               \/ t.kind = "ill"
               \/ t.kind \in {"break", "continue"} /\ \A n \in DOMAIN f : f[n].kind \notin Loops
<1> DEFINE q == Append(p, t)
           m == Len(p) + 1
<1>1. /\ DOMAIN p = 1..Len(p) /\ Len(p) \in Nat /\ DOMAIN q = 1..m
      /\ \A i \in DOMAIN p : q[i] = p[i]
      /\ q[m] = t
  BY SequenceFacts, AppendIsSequence
<1>2. \A i \in 1..m : \A k : OpenAt(q, k, i) <=> OpenAt(p, k, i)
  BY OpenBefore
<1> HIDE DEF q
<1>3. \A i \in 1..m : \A k : OpenAt(p, k, i) => k \in DOMAIN p /\ k \in DOMAIN q /\ q[k] = p[k]
  <2> SUFFICES ASSUME NEW i \in 1..m, NEW k, OpenAt(p, k, i) PROVE k \in DOMAIN p /\ k \in DOMAIN q /\ q[k] = p[k]
    OBVIOUS
  <2>1. k \in 1..(i - 1)
    BY DEF OpenAt
  <2>2. k \in DOMAIN p /\ k \in DOMAIN q
    BY <1>1, <2>1
  <2> QED
    BY <1>1, <2>2
<1>4. \A i \in 1..m : (\A k \in DOMAIN q : OpenAt(q, k, i) => q[k].kind \notin Loops) <=>
                      (\A k \in DOMAIN p : OpenAt(p, k, i) => p[k].kind \notin Loops)
  BY <1>2, <1>3
<1>5. ASSUME NEW i \in DOMAIN p PROVE Misplaced(q, i) <=> Misplaced(p, i)
  <2>1. i \in 1..m /\ q[i] = p[i]
    BY <1>1
  <2> QED
    BY <1>4, <2>1 DEF Misplaced
<1>6. Misplaced(q, m) <=> \/ t.kind = "ill"
                          \/ t.kind \in {"break", "continue"} /\ \A n \in DOMAIN f : f[n].kind \notin Loops
  <2>1. m \in 1..m
    BY <1>1
  <2>2. (\A k \in DOMAIN q : OpenAt(q, k, m) => q[k].kind \notin Loops) <=> \A n \in DOMAIN f : f[n].kind \notin Loops
    BY <1>4, <2>1, LoopIsOpen
  <2> QED
    BY <1>1, <2>2 DEF Misplaced
<1> QED
  BY <1>5, <1>6 DEF q

\* A token with or without a problem; the frames may be renamed.
LEMMA BlamedGoesOn ==
  ASSUME NEW p, IsSequence(p), NEW f, Nest(p, f), NEW d, Blamed(p, f, d), NEW t, t.cond # "ill",
         NEW g, DOMAIN g = DOMAIN f, \A n \in DOMAIN f : g[n].at = f[n].at,
         NEW e, e <=> d \/ t.kind = "ill"
                        \/ (t.kind \in {"break", "continue"} /\ \A n \in DOMAIN f : f[n].kind \notin Loops)
  PROVE  Blamed(Append(p, t), g, e)
<1> DEFINE q == Append(p, t)
           m == Len(p) + 1
           Bad(i) == Misplaced(p, i) \/ (p[i].cond = "ill" /\ \A n \in DOMAIN f : f[n].at # i)
           Worse(i) == Misplaced(q, i) \/ (q[i].cond = "ill" /\ \A n \in DOMAIN g : g[n].at # i)
<1>1. /\ DOMAIN p = 1..Len(p) /\ Len(p) \in Nat /\ DOMAIN q = 1..m
      /\ \A i \in DOMAIN p : q[i] = p[i]
      /\ q[m] = t
  BY SequenceFacts, AppendIsSequence
<1>2. \A i : i \in DOMAIN q <=> i \in DOMAIN p \/ i = m
  BY <1>1
<1>3. /\ \A i \in DOMAIN p : Misplaced(q, i) <=> Misplaced(p, i)
      /\ Misplaced(q, m) <=>
            \/ t.kind = "ill"
            \/ t.kind \in {"break", "continue"} /\ \A n \in DOMAIN f : f[n].kind \notin Loops
  BY MisplacedBefore
<1> HIDE DEF q, m
<1>4. \A i \in DOMAIN p : Worse(i) <=> Bad(i)
  BY <1>1, <1>3
<1>5. Worse(m) <=> Misplaced(q, m)
  BY <1>1
<1>6. d <=> \E i \in DOMAIN p : Bad(i)
  BY DEF Blamed
<1>7. (\E i \in DOMAIN q : Worse(i)) <=> (\E i \in DOMAIN p : Bad(i)) \/ Worse(m)
  <2> HIDE DEF Worse, Bad
  <2> QED
    BY <1>2, <1>4
<1>8. e <=> \E i \in DOMAIN q : Worse(i)
  <2> HIDE DEF Worse, Bad
  <2> QED
    BY <1>3, <1>5, <1>6, <1>7
<1> QED
  BY <1>8 DEF Blamed, q

\* A statement opens: its condition is diagnosed at its end.
LEMMA BlamedOpens ==
  ASSUME NEW p, IsSequence(p), NEW f, IsSequence(f), Nest(p, f), NEW d, Blamed(p, f, d),
         NEW t, t.kind \in Openers, NEW frame, frame.at = Len(p) + 1
  PROVE  Blamed(Append(p, t), Append(f, frame), d)
<1> DEFINE q == Append(p, t)
           g == Append(f, frame)
           m == Len(p) + 1
           Bad(i) == Misplaced(p, i) \/ (p[i].cond = "ill" /\ \A n \in DOMAIN f : f[n].at # i)
           Worse(i) == Misplaced(q, i) \/ (q[i].cond = "ill" /\ \A n \in DOMAIN g : g[n].at # i)
<1>1. /\ DOMAIN p = 1..Len(p) /\ Len(p) \in Nat /\ DOMAIN q = 1..m
      /\ \A i \in DOMAIN p : q[i] = p[i]
      /\ q[m] = t
  BY SequenceFacts, AppendIsSequence
<1>2. /\ \A i : i \in DOMAIN q <=> i \in DOMAIN p \/ i = m
      /\ m \notin DOMAIN p
  BY <1>1
<1>3. /\ \A i \in DOMAIN p : Misplaced(q, i) <=> Misplaced(p, i)
      /\ ~Misplaced(q, m)
  <2>1. t.kind \notin {"ill", "break", "continue"}
    BY DEF Openers, Loops
  <2> QED
    BY <2>1, MisplacedBefore
<1>4. \E k : k \in DOMAIN g /\ g[k] = frame /\ \A n : n \in DOMAIN g <=> n \in DOMAIN f \/ n = k
  <2>1. Len(f) \in Nat /\ DOMAIN f = 1..Len(f) /\ DOMAIN g = 1..Len(f) + 1 /\ g[Len(f) + 1] = frame
    BY SequenceFacts, AppendIsSequence
  <2>2. \A n : n \in DOMAIN g <=> n \in DOMAIN f \/ n = Len(f) + 1
    BY <2>1
  <2> QED
    BY <2>1, <2>2
<1>5. PICK k : k \in DOMAIN g /\ g[k] = frame /\ \A n : n \in DOMAIN g <=> n \in DOMAIN f \/ n = k
  BY <1>4
<1>6. \A n \in DOMAIN f : g[n] = f[n]
  BY SequenceFacts, AppendIsSequence
<1>7. frame.at = m
  OBVIOUS
<1> HIDE DEF q, m, g
<1>8. \A i \in DOMAIN p : Worse(i) <=> Bad(i)
  <2> SUFFICES ASSUME NEW i \in DOMAIN p PROVE Worse(i) <=> Bad(i)
    OBVIOUS
  <2>1. (\A n \in DOMAIN g : g[n].at # i) <=> \A n \in DOMAIN f : f[n].at # i
    BY <1>2, <1>5, <1>6, <1>7
  <2> QED
    BY <1>1, <1>3, <2>1
<1>9. ~Worse(m)
  BY <1>3, <1>5, <1>7
<1>10. d <=> \E i \in DOMAIN p : Bad(i)
  BY DEF Blamed
<1>11. d <=> \E i \in DOMAIN q : Worse(i)
  <2> HIDE DEF Worse, Bad
  <2> QED
    BY <1>2, <1>8, <1>9, <1>10
<1> QED
  BY <1>11 DEF Blamed, q, g

\* A statement ends, and with it the excuse for its condition.
LEMMA BlamedCloses ==
  ASSUME NEW p, IsSequence(p), NEW f, IsSequence(f), f # <<>>, Nest(p, f), NEW d, Blamed(p, f, d),
         NEW t, t.kind = "close", t.cond # "ill", NEW e, e <=> d \/ p[Last(f).at].cond = "ill"
  PROVE  Blamed(Append(p, t), Front(f), e)
<1> DEFINE q == Append(p, t)
           g == Front(f)
           m == Len(p) + 1
           k == Len(f)
           a == f[k].at
           Bad(i) == Misplaced(p, i) \/ (p[i].cond = "ill" /\ \A n \in DOMAIN f : f[n].at # i)
           Worse(i) == Misplaced(q, i) \/ (q[i].cond = "ill" /\ \A n \in DOMAIN g : g[n].at # i)
<1>1. /\ DOMAIN p = 1..Len(p) /\ Len(p) \in Nat /\ DOMAIN q = 1..m
      /\ \A i \in DOMAIN p : q[i] = p[i]
      /\ q[m] = t
  BY SequenceFacts, AppendIsSequence
<1>2. \A i : i \in DOMAIN q <=> i \in DOMAIN p \/ i = m
  BY <1>1
<1>3. /\ \A i \in DOMAIN p : Misplaced(q, i) <=> Misplaced(p, i)
      /\ ~Misplaced(q, m)
  <2>1. t.kind \notin {"ill", "break", "continue"}
    OBVIOUS
  <2> QED
    BY <2>1, MisplacedBefore
<1>4. /\ k \in Nat \ {0} /\ DOMAIN f = 1..k /\ DOMAIN g = 1..(k - 1)
      /\ \A n \in 1..(k - 1) : g[n] = f[n]
      /\ Last(f) = f[k]
  BY FrontFacts
<1>5. \A n : n \in DOMAIN f <=> n \in DOMAIN g \/ n = k
  BY <1>4
<1>6. k \notin DOMAIN g /\ k \in DOMAIN f
  BY <1>4
<1>7. a \in DOMAIN p /\ \A n \in DOMAIN g : f[n].at # a
  <2>1. \A n \in DOMAIN f : OpenAt(p, f[n].at, Len(p) + 1) /\ Depth(p, f[n].at) = n - 1
    BY DEF Nest
  <2>2. a \in 1..(Len(p) + 1 - 1)
    BY <1>6, <2>1 DEF OpenAt
  <2>3. Depth(p, a) = k - 1
    BY <1>6, <2>1
  <2>4. ASSUME NEW n \in DOMAIN g PROVE f[n].at # a
    <3>1. Depth(p, f[n].at) = n - 1
      BY <1>5, <2>1
    <3>2. n - 1 # k - 1
      BY <1>4
    <3> QED
      BY <2>3, <3>1, <3>2
  <2> QED
    BY <1>1, <2>2, <2>4
<1>8. e <=> d \/ p[a].cond = "ill"
  BY <1>4
<1> HIDE DEF q, m, g, a, k
<1>9. \A i \in DOMAIN p : Worse(i) <=> Bad(i) \/ (i = a /\ p[a].cond = "ill")
  <2> SUFFICES ASSUME NEW i \in DOMAIN p PROVE Worse(i) <=> Bad(i) \/ (i = a /\ p[a].cond = "ill")
    OBVIOUS
  <2>1. \A n \in DOMAIN g : g[n] = f[n]
    BY <1>4
  <2>2. (\A n \in DOMAIN g : g[n].at # i) <=> (\A n \in DOMAIN f : f[n].at # i) \/ i = a
    BY <1>5, <1>7, <2>1 DEF a
  <2> QED
    BY <1>1, <1>3, <2>2
<1>10. ~Worse(m)
  BY <1>1, <1>3
<1>11. d <=> \E i \in DOMAIN p : Bad(i)
  BY DEF Blamed
<1>12. e <=> \E i \in DOMAIN q : Worse(i)
  <2> HIDE DEF Worse, Bad
  <2> QED
    BY <1>2, <1>7, <1>8, <1>9, <1>10, <1>11
<1> QED
  BY <1>12 DEF Blamed, q, g

-----------------------------------------------------------------------------
(* What a statement's nodes say. *)

\* Whole nodes: paired, and no label twice.
Says(b, labels, gotos, use) ==
    /\ IsNodes(b) /\ Paired(b) /\ ~PlacedTwice(b)
    /\ LabelsIn(b) = labels /\ GotosIn(b) = gotos /\ (HasUse(b) <=> use)

\* Nodes written behind others.
Joins(b, c, labels, gotos, use) ==
    /\ IsNodes(c) /\ Paired(c)
    /\ LabelsIn(c) = LabelsIn(b) \cup labels
    /\ GotosIn(c) = GotosIn(b) \cup gotos
    /\ HasUse(c) <=> HasUse(b) \/ use
    /\ PlacedTwice(c) <=> PlacedTwice(b) \/ LabelsIn(b) \cap labels # {}

LEMMA ConcatJoins ==
  ASSUME NEW s, IsNodes(s), Paired(s), NEW t, NEW labels, NEW gotos, NEW use, Says(t, labels, gotos, use)
  PROVE  Joins(s, s \o t, labels, gotos, use)
<1> DEFINE c == s \o t
           m == Len(s)
<1>1. /\ IsSequence(s) /\ IsSequence(t) /\ IsNodes(c)
      /\ m \in Nat /\ DOMAIN s = 1..m /\ Len(t) \in Nat /\ DOMAIN t = 1..Len(t)
  BY MoreNodes, SequenceFacts DEF IsNodes, Says
<1>2. /\ DOMAIN c = 1..m + Len(t)
      /\ \A i \in 1..m : c[i] = s[i]
      /\ \A i \in 1..Len(t) : c[m + i] = t[i]
  BY <1>1, ConcatIsSequence
<1> HIDE DEF c, m
<1>3. /\ \A i \in DOMAIN s : i \in DOMAIN c /\ c[i] = s[i]
      /\ \A i \in DOMAIN t : m + i \in DOMAIN c /\ c[m + i] = t[i]
      /\ \A i \in DOMAIN c : i \in DOMAIN s \/ \E j \in DOMAIN t : i = m + j
      /\ \A i \in DOMAIN s : \A j \in DOMAIN t : i # m + j
      /\ \A i, j \in DOMAIN t : m + i = m + j => i = j
  <2>1. \A i \in DOMAIN c : i \in DOMAIN s \/ \E j \in DOMAIN t : i = m + j
    <3> SUFFICES ASSUME NEW i \in DOMAIN c, i \notin DOMAIN s PROVE \E j \in DOMAIN t : i = m + j
      OBVIOUS
    <3>1. i - m \in DOMAIN t /\ i = m + (i - m)
      BY <1>1, <1>2
    <3> QED
      BY <3>1
  <2>2. \A i \in DOMAIN s : i \in DOMAIN c
    BY <1>1, <1>2
  <2>3. \A i \in DOMAIN t : m + i \in DOMAIN c
    BY <1>1, <1>2
  <2>4. \A i \in DOMAIN s : \A j \in DOMAIN t : i # m + j
    BY <1>1
  <2>5. \A i, j \in DOMAIN t : m + i = m + j => i = j
    BY <1>1
  <2> QED
    BY <1>1, <1>2, <2>1, <2>2, <2>3, <2>4, <2>5
<1>4. LabelsIn(t) = labels /\ GotosIn(t) = gotos /\ (HasUse(t) <=> use) /\ Paired(t) /\ ~PlacedTwice(t)
  BY DEF Says
<1>5. LabelsIn(c) = LabelsIn(s) \cup labels
  <2>1. ASSUME NEW x \in LabelsIn(c) PROVE x \in LabelsIn(s) \cup LabelsIn(t)
    BY <1>3 DEF LabelsIn
  <2>2. ASSUME NEW x \in LabelsIn(s) \cup LabelsIn(t) PROVE x \in LabelsIn(c)
    BY <1>3 DEF LabelsIn
  <2> QED
    BY <1>4, <2>1, <2>2
<1>6. GotosIn(c) = GotosIn(s) \cup gotos
  <2>1. ASSUME NEW x \in GotosIn(c) PROVE x \in GotosIn(s) \cup GotosIn(t)
    BY <1>3 DEF GotosIn
  <2>2. ASSUME NEW x \in GotosIn(s) \cup GotosIn(t) PROVE x \in GotosIn(c)
    BY <1>3 DEF GotosIn
  <2> QED
    BY <1>4, <2>1, <2>2
<1>7. HasUse(c) <=> HasUse(s) \/ use
  BY <1>3, <1>4 DEF HasUse
<1>8. PlacedTwice(c) <=> PlacedTwice(s) \/ LabelsIn(s) \cap labels # {}
  <2>1. ASSUME PlacedTwice(c) PROVE PlacedTwice(s) \/ LabelsIn(s) \cap LabelsIn(t) # {}
    <3>1. PICK i, j \in DOMAIN c : i # j /\ c[i].node = "Label" /\ c[j].node = "Label" /\ c[i].label = c[j].label
      BY <2>1 DEF PlacedTwice
    <3>2. CASE i \in DOMAIN s /\ j \in DOMAIN s
      BY <1>3, <3>1, <3>2 DEF PlacedTwice
    <3>3. CASE i \in DOMAIN s /\ j \notin DOMAIN s
      <4>1. PICK k \in DOMAIN t : j = m + k
        BY <1>3, <3>3
      <4>2. c[i].label \in LabelsIn(s) /\ c[j].label \in LabelsIn(t)
        BY <1>3, <3>1, <3>3, <4>1 DEF LabelsIn
      <4> QED
        BY <3>1, <4>2
    <3>4. CASE i \notin DOMAIN s /\ j \in DOMAIN s
      <4>1. PICK k \in DOMAIN t : i = m + k
        BY <1>3, <3>4
      <4>2. c[j].label \in LabelsIn(s) /\ c[i].label \in LabelsIn(t)
        BY <1>3, <3>1, <3>4, <4>1 DEF LabelsIn
      <4> QED
        BY <3>1, <4>2
    <3>5. CASE i \notin DOMAIN s /\ j \notin DOMAIN s
      <4>1. PICK k \in DOMAIN t : i = m + k
        BY <1>3, <3>5
      <4>2. PICK n \in DOMAIN t : j = m + n
        BY <1>3, <3>5
      <4>3. PlacedTwice(t)
        BY <1>3, <3>1, <4>1, <4>2 DEF PlacedTwice
      <4> QED
        BY <1>4, <4>3
    <3> QED
      BY <3>2, <3>3, <3>4, <3>5
  <2>2. ASSUME PlacedTwice(s) PROVE PlacedTwice(c)
    BY <1>3, <2>2 DEF PlacedTwice
  <2>3. ASSUME LabelsIn(s) \cap LabelsIn(t) # {} PROVE PlacedTwice(c)
    <3>1. PICK x : x \in LabelsIn(s) /\ x \in LabelsIn(t)
      BY <2>3
    <3>2. PICK i \in DOMAIN s : s[i].node = "Label" /\ s[i].label = x
      BY <3>1 DEF LabelsIn
    <3>3. PICK j \in DOMAIN t : t[j].node = "Label" /\ t[j].label = x
      BY <3>1 DEF LabelsIn
    <3>4. m + j \in DOMAIN c /\ i \in DOMAIN c /\ i # m + j /\ c[i] = s[i] /\ c[m + j] = t[j]
      BY <1>3
    <3> QED
      BY <3>2, <3>3, <3>4 DEF PlacedTwice
  <2> QED
    BY <1>4, <2>1, <2>2, <2>3
<1>9. Paired(c)
  <2>1. ASSUME NEW i \in DOMAIN c, c[i].node = "Compare"
        PROVE  i + 1 \in DOMAIN c /\ c[i + 1].node \in {"UseOfComparison", "Branch"}
    <3>1. CASE i \in DOMAIN s
      <4>1. i + 1 \in DOMAIN s /\ s[i + 1].node \in {"UseOfComparison", "Branch"}
        BY <1>3, <2>1, <3>1 DEF Paired
      <4> QED
        BY <1>3, <4>1
    <3>2. CASE i \notin DOMAIN s
      <4>1. PICK j \in DOMAIN t : i = m + j
        BY <1>3, <3>2
      <4>2. j + 1 \in DOMAIN t /\ t[j + 1].node \in {"UseOfComparison", "Branch"}
        BY <1>3, <1>4, <2>1, <4>1 DEF Paired
      <4>3. i + 1 = m + (j + 1)
        BY <1>1, <4>1
      <4> QED
        BY <1>3, <4>2, <4>3
    <3> QED
      BY <3>1, <3>2
  <2>2. ASSUME NEW i \in DOMAIN c, c[i].node = "Branch"
        PROVE  i - 1 \in DOMAIN c /\ c[i - 1].node = "Compare" /\ c[i - 1].test = c[i].test
    <3>1. CASE i \in DOMAIN s
      <4>1. i - 1 \in DOMAIN s /\ s[i - 1].node = "Compare" /\ s[i - 1].test = s[i].test
        BY <1>3, <2>2, <3>1 DEF Paired
      <4> QED
        BY <1>3, <3>1, <4>1
    <3>2. CASE i \notin DOMAIN s
      <4>1. PICK j \in DOMAIN t : i = m + j
        BY <1>3, <3>2
      <4>2. j - 1 \in DOMAIN t /\ t[j - 1].node = "Compare" /\ t[j - 1].test = t[j].test
        BY <1>3, <1>4, <2>2, <4>1 DEF Paired
      <4>3. i - 1 = m + (j - 1)
        BY <1>1, <4>1
      <4> QED
        BY <1>3, <4>1, <4>2, <4>3
    <3> QED
      BY <3>1, <3>2
  <2> QED
    BY <2>1, <2>2 DEF Paired
<1> QED
  BY <1>1, <1>5, <1>6, <1>7, <1>8, <1>9 DEF Joins, c

LEMMA ConcatSays ==
  ASSUME NEW s, NEW l1, NEW g1, NEW u1, Says(s, l1, g1, u1),
         NEW t, NEW l2, NEW g2, NEW u2, Says(t, l2, g2, u2), l1 \cap l2 = {}
  PROVE  Says(s \o t, l1 \cup l2, g1 \cup g2, u1 \/ u2)
<1> DEFINE c == s \o t
<1>1. Joins(s, c, l2, g2, u2)
  BY ConcatJoins DEF Says
<1> HIDE DEF c
<1>2. /\ ~PlacedTwice(s) /\ LabelsIn(s) = l1 /\ GotosIn(s) = g1
      /\ HasUse(s) <=> u1
  BY DEF Says
<1>3. ~PlacedTwice(c) /\ LabelsIn(c) = l1 \cup l2 /\ GotosIn(c) = g1 \cup g2 /\ IsNodes(c) /\ Paired(c)
  BY <1>1, <1>2 DEF Joins
<1>4. HasUse(c) <=> u1 \/ u2
  BY <1>1, <1>2 DEF Joins
<1> QED
  BY <1>3, <1>4 DEF Says, c

\* The nodes of two statements, one behind the other.
LEMMA JoinsTwice ==
  ASSUME NEW b, NEW c, NEW d, NEW l1, NEW g1, NEW l2, NEW g2,
         Joins(b, c, l1, g1, FALSE), Joins(c, d, l2, g2, FALSE), l1 \cap l2 = {}
  PROVE  Joins(b, d, l1 \cup l2, g1 \cup g2, FALSE)
<1>1. LabelsIn(d) = LabelsIn(b) \cup (l1 \cup l2) /\ GotosIn(d) = GotosIn(b) \cup (g1 \cup g2) /\ IsNodes(d) /\ Paired(d)
  BY DEF Joins
<1>2. HasUse(d) <=> HasUse(b)
  BY DEF Joins
<1>3. PlacedTwice(d) <=> PlacedTwice(b) \/ LabelsIn(b) \cap (l1 \cup l2) # {}
  <2>1. PlacedTwice(d) <=> PlacedTwice(c) \/ LabelsIn(c) \cap l2 # {}
    BY DEF Joins
  <2>2. PlacedTwice(c) <=> PlacedTwice(b) \/ LabelsIn(b) \cap l1 # {}
    BY DEF Joins
  <2>3. LabelsIn(c) \cap l2 = LabelsIn(b) \cap l2
    BY DEF Joins
  <2> QED
    BY <2>1, <2>2, <2>3
<1> QED
  BY <1>1, <1>2, <1>3 DEF Joins

LEMMA NothingSays == Says(<<>>, {}, {}, FALSE)
BY NoNodes DEF Says, Paired, PlacedTwice, LabelsIn, GotosIn, HasUse

\* One node that is neither a comparison nor a branch.
LEMMA NodeSays ==
  ASSUME NEW n, n.node \in NodeKinds \ {"Compare", "Branch"}
  PROVE  Says(<<n>>, IF n.node = "Label" THEN {n.label} ELSE {},
                     IF n.node = "Goto" THEN {n.label} ELSE {}, n.node = "UseOfComparison")
<1> DEFINE b == <<n>>
<1>1. DOMAIN b = {1} /\ b[1] = n
  OBVIOUS
<1>2. IsNodes(b)
  BY OneNode
<1> HIDE DEF b
<1>3. Paired(b)
  BY <1>1 DEF Paired
<1>4. ~PlacedTwice(b)
  BY <1>1 DEF PlacedTwice
<1>5. LabelsIn(b) = IF n.node = "Label" THEN {n.label} ELSE {}
  BY <1>1 DEF LabelsIn
<1>6. GotosIn(b) = IF n.node = "Goto" THEN {n.label} ELSE {}
  BY <1>1 DEF GotosIn
<1>7. HasUse(b) <=> n.node = "UseOfComparison"
  BY <1>1 DEF HasUse
<1> QED
  BY <1>2, <1>3, <1>4, <1>5, <1>6, <1>7 DEF Says, b

LEMMA ConstructorsSay ==
  ASSUME NEW l, NEW of
  PROVE  /\ Says(EmitLabel(l), {l}, {}, FALSE)
         /\ Says(EmitJump(l), {}, {l}, FALSE)
         /\ Says(Other("Operation", of), {}, {}, FALSE)
         /\ Says(Other("Return", of), {}, {}, FALSE)
<1>1. Says(EmitLabel(l), {l}, {}, FALSE)
  <2> DEFINE n == [node |-> "Label", label |-> l]
  <2>1. n.node = "Label" /\ n.label = l
    OBVIOUS
  <2>2. EmitLabel(l) = <<n>>
    BY DEF EmitLabel
  <2> HIDE DEF n
  <2>3. Says(<<n>>, {l}, {}, n.node = "UseOfComparison")
    BY <2>1, NodeSays DEF NodeKinds
  <2> QED
    BY <2>1, <2>2, <2>3 DEF Says
<1>2. Says(EmitJump(l), {}, {l}, FALSE)
  <2> DEFINE n == [node |-> "Goto", label |-> l]
  <2>1. n.node = "Goto" /\ n.label = l
    OBVIOUS
  <2>2. EmitJump(l) = <<n>>
    BY DEF EmitJump
  <2> HIDE DEF n
  <2>3. Says(<<n>>, {}, {l}, n.node = "UseOfComparison")
    BY <2>1, NodeSays DEF NodeKinds
  <2> QED
    BY <2>1, <2>2, <2>3 DEF Says
<1>3. ASSUME NEW kind \in {"Operation", "Return"} PROVE Says(Other(kind, of), {}, {}, FALSE)
  <2> DEFINE n == [node |-> kind, of |-> of]
  <2>1. n.node = kind
    OBVIOUS
  <2>2. Other(kind, of) = <<n>>
    BY DEF Other
  <2> HIDE DEF n
  <2>3. Says(<<n>>, {}, {}, n.node = "UseOfComparison")
    BY <2>1, NodeSays DEF NodeKinds
  <2> QED
    BY <2>1, <2>2, <2>3 DEF Says
<1>4. Says(Other("Operation", of), {}, {}, FALSE) /\ Says(Other("Return", of), {}, {}, FALSE)
  BY <1>3
<1> QED
  BY <1>1, <1>2, <1>4

\* A comparison with the node that takes it.
LEMMA ComparisonSays ==
  ASSUME NEW test, NEW c, NEW n, n.node \in {"Branch", "UseOfComparison"}, n.node = "Branch" => n.test = test
  PROVE  Says(EmitCompare(test, c) \o <<n>>, {}, {}, n.node = "UseOfComparison")
<1> DEFINE a == [node |-> "Compare", test |-> test, code |-> c]
           b == EmitCompare(test, c) \o <<n>>
<1>1. a.node = "Compare" /\ a.test = test
  OBVIOUS
<1>2. DOMAIN b = {1, 2} /\ b[1] = a /\ b[2] = n
  <2>1. EmitCompare(test, c) = <<a>>
    BY DEF EmitCompare
  <2>2. IsSequence(<<a>>) /\ IsSequence(<<n>>)
    <3>1. IsNodes(<<a>>) /\ IsNodes(<<n>>)
      BY <1>1, OneNode DEF NodeKinds
    <3> QED
      BY <3>1 DEF IsNodes
  <2> HIDE DEF a
  <2>3. Len(<<a>>) = 1 /\ Len(<<n>>) = 1 /\ <<a>>[1] = a /\ <<n>>[1] = n
    OBVIOUS
  <2>4. /\ DOMAIN b = 1..1 + 1
        /\ \A i \in 1..1 : b[i] = <<a>>[i]
        /\ \A i \in 1..1 : b[1 + i] = <<n>>[i]
    BY <2>1, <2>2, <2>3, ConcatIsSequence
  <2>5. 1..1 + 1 = {1, 2} /\ 1 \in 1..1 /\ 1 + 1 = 2
    OBVIOUS
  <2> QED
    BY <2>3, <2>4, <2>5
<1>3. IsNodes(b)
  <2>1. IsNodes(EmitCompare(test, c)) /\ IsNodes(<<n>>)
    BY Constructors, OneNode DEF NodeKinds
  <2> QED
    BY <2>1, MoreNodes
<1> HIDE DEF a, b
<1>4. Paired(b)
  <2>1. 1 + 1 = 2 /\ 2 - 1 = 1
    OBVIOUS
  <2> QED
    BY <1>1, <1>2, <2>1 DEF Paired
<1>5. ~PlacedTwice(b) /\ LabelsIn(b) = {} /\ GotosIn(b) = {}
  BY <1>1, <1>2 DEF PlacedTwice, LabelsIn, GotosIn
<1>6. HasUse(b) <=> n.node = "UseOfComparison"
  BY <1>1, <1>2 DEF HasUse
<1> QED
  BY <1>3, <1>4, <1>5, <1>6 DEF Says, b

LEMMA ConditionSays ==
  ASSUME NEW token, NEW test, NEW ifTrue, NEW ifFalse
  PROVE  Says(EmitConditionalBranch(token, test, ifTrue, ifFalse), {}, IF token.cond = "none" THEN {ifTrue} ELSE {}, FALSE)
<1>1. CASE token.cond = "none"
  BY <1>1, ConstructorsSay DEF EmitConditionalBranch
<1>2. CASE token.cond # "none"
  <2> DEFINE n == [node |-> "Branch", test |-> test, ifTrue |-> ifTrue, ifFalse |-> ifFalse]
  <2>1. n.node = "Branch" /\ n.test = test
    OBVIOUS
  <2>2. EmitConditionalBranch(token, test, ifTrue, ifFalse) = EmitCompare(test, token.code) \o <<n>>
    BY <1>2 DEF EmitConditionalBranch, EmitBranch
  <2> HIDE DEF n
  <2>3. Says(EmitCompare(test, token.code) \o <<n>>, {}, {}, n.node = "UseOfComparison")
    BY <2>1, ComparisonSays
  <2> QED
    BY <1>2, <2>1, <2>2, <2>3 DEF Says
<1> QED
  BY <1>1, <1>2

LEMMA ValueSays ==
  ASSUME NEW test, NEW c, NEW of
  PROVE  Says(EmitCompare(test, c) \o Other("UseOfComparison", of), {}, {}, TRUE)
<1> DEFINE n == [node |-> "UseOfComparison", of |-> of]
<1>1. n.node = "UseOfComparison"
  OBVIOUS
<1>2. Other("UseOfComparison", of) = <<n>>
  BY DEF Other
<1> HIDE DEF n
<1>3. Says(EmitCompare(test, c) \o <<n>>, {}, {}, n.node = "UseOfComparison")
  BY <1>1, ComparisonSays
<1> QED
  BY <1>1, <1>2, <1>3 DEF Says

-----------------------------------------------------------------------------
(* Labels made and labels written. *)

LEMMA MadeLabels ==
  ASSUME NEW next \in Nat
  PROVE  /\ \A h, k : MakeLabelName(h, k) \in Made(next) <=> h \in Hints /\ k \in 0..(next - 1)
         /\ \A l \in UserLabels : Written(l) \notin Made(next)
         /\ \A n \in Nat : next <= n => Made(next) \subseteq Made(n)
<1>1. ASSUME NEW h, NEW k PROVE MakeLabelName(h, k) \in Made(next) <=> h \in Hints /\ k \in 0..(next - 1)
  BY DEF Made, MakeLabelName
<1>2. ASSUME NEW l \in UserLabels PROVE Written(l) \notin Made(next)
  <2>1. Written(l) = MakeLabelName(l, 0)
    BY DEF Written, MakeLabelName
  <2> QED
    BY <1>1, <2>1, UserLabelsAssumption
<1>3. ASSUME NEW n \in Nat, next <= n PROVE Made(next) \subseteq Made(n)
  <2>1. 0..(next - 1) \subseteq 0..(n - 1)
    BY <1>3
  <2> QED
    BY <2>1 DEF Made
<1> QED
  BY <1>1, <1>2, <1>3

LEMMA FreshBegins == Fresh(<<>>, <<>>, 0)
BY DEF Fresh, LabelsIn

\* The programmer's labels do not touch those to be placed.
LEMMA FreshGoesOn ==
  ASSUME NEW f, NEW b, NEW next \in Nat, Fresh(f, b, next),
         NEW c, NEW new, NEW more, NEW use, Joins(b, c, new, more, use), \A x \in new : \E l \in UserLabels : x = Written(l),
         NEW n \in Nat, next <= n
  PROVE  Fresh(f, c, n)
<1>0. LabelsIn(c) = LabelsIn(b) \cup new
  BY DEF Joins
<1>1. Made(next) \subseteq Made(n) /\ \A x \in new : x \notin Made(next)
  BY MadeLabels
<1>2. \A i \in DOMAIN f : Pending(f[i]) \subseteq Made(n) \ (LabelsIn(c))
  BY <1>0, <1>1 DEF Fresh
<1>3. \A i \in DOMAIN f : f[i].kind \in Loops => f[i].cont # f[i].end /\ f[i].body \in LabelsIn(c)
  BY <1>0 DEF Fresh
<1>4. \A x \in LabelsIn(c) : x \in Made(n) \/ \E l \in UserLabels : x = Written(l)
  BY <1>0, <1>1 DEF Fresh
<1>5. \A i, j \in DOMAIN f : i # j => Pending(f[i]) \cap Pending(f[j]) = {}
  BY DEF Fresh
<1> QED
  BY <1>2, <1>3, <1>4, <1>5 DEF Fresh

\* A frame with new LabelsIn(b), one of them placed at once.
LEMMA FreshOpens ==
  ASSUME NEW f, IsSequence(f), NEW b, NEW next \in Nat, Fresh(f, b, next),
         NEW n \in Nat, next <= n, NEW frame, NEW l, l \in Made(n) \ Made(next),
         Pending(frame) \subseteq Made(n) \ Made(next), l \notin Pending(frame),
         frame.kind \in Loops => frame.cont # frame.end /\ frame.body = l,
         NEW c, NEW more, NEW use, Joins(b, c, {l}, more, use)
  PROVE  Fresh(Append(f, frame), c, n)
<1> DEFINE g == Append(f, frame)
           k == Len(f) + 1
           labels == LabelsIn(b)
           L == LabelsIn(c)
<1>0. L = labels \cup {l}
  BY DEF Joins
<1>1. /\ \A i : i \in DOMAIN g <=> i \in DOMAIN f \/ i = k
      /\ \A i \in DOMAIN f : g[i] = f[i]
      /\ g[k] = frame
  <2>1. /\ Len(f) \in Nat /\ DOMAIN f = 1..Len(f) /\ DOMAIN g = 1..k
        /\ \A i \in DOMAIN f : g[i] = f[i]
        /\ g[k] = frame
    BY SequenceFacts, AppendIsSequence
  <2>2. \A i : i \in DOMAIN g <=> i \in DOMAIN f \/ i = k
    BY <2>1
  <2> QED
    BY <2>1, <2>2
<1> HIDE DEF g, k
<1>2. Made(next) \subseteq Made(n) /\ (\A u \in UserLabels : Written(u) \notin Made(n))
  BY MadeLabels
<1>3. \A x \in labels : x \in Made(next) \/ \E u \in UserLabels : x = Written(u)
  BY DEF Fresh
<1>4. Pending(frame) \cap L = {}
  BY <1>0, <1>2, <1>3
<1>5. \A i \in DOMAIN f : Pending(f[i]) \subseteq Made(next) \ L
  BY <1>0 DEF Fresh
<1>6. \A i \in DOMAIN g : Pending(g[i]) \subseteq Made(n) \ L
  BY <1>1, <1>2, <1>4, <1>5
<1>7. \A i \in DOMAIN g, j \in DOMAIN g : i # j => Pending(g[i]) \cap Pending(g[j]) = {}
  <2>1. \A i \in DOMAIN f, j \in DOMAIN f : i # j => Pending(f[i]) \cap Pending(f[j]) = {}
    BY DEF Fresh
  <2>2. \A i \in DOMAIN f : Pending(f[i]) \cap Pending(frame) = {}
    BY <1>5
  <2> QED
    BY <1>1, <2>1, <2>2
<1>8. \A i \in DOMAIN g : g[i].kind \in Loops => g[i].cont # g[i].end /\ g[i].body \in L
  <2>1. \A i \in DOMAIN f : f[i].kind \in Loops => f[i].cont # f[i].end /\ f[i].body \in labels
    BY DEF Fresh
  <2> QED
    BY <1>0, <1>1, <2>1
<1>9. \A x \in L : x \in Made(n) \/ \E u \in UserLabels : x = Written(u)
  BY <1>0, <1>2, <1>3
<1>10. Fresh(g, c, n)
  BY <1>6, <1>7, <1>8, <1>9 DEF Fresh
<1> QED
  BY <1>10 DEF g

\* Labels of a frame are placed, and it has them no longer.
LEMMA FreshPlaces ==
  ASSUME NEW f, NEW b, NEW next, Fresh(f, b, next),
         NEW g, DOMAIN g \subseteq DOMAIN f,
         \A i \in DOMAIN g : /\ Pending(g[i]) \subseteq Pending(f[i])
                             /\ g[i].kind \in Loops => g[i] = f[i],
         NEW new, NEW k \in DOMAIN f, new \subseteq Pending(f[k]),
         \A i \in DOMAIN g : i = k => Pending(g[i]) \cap new = {},
         NEW c, NEW more, NEW use, Joins(b, c, new, more, use)
  PROVE  Fresh(g, c, next)
<1> DEFINE labels == LabelsIn(b)
           L == LabelsIn(c)
<1>0. L = labels \cup new
  BY DEF Joins
<1>1. \A i \in DOMAIN f : Pending(f[i]) \subseteq Made(next) \ labels
  BY DEF Fresh
<1>2. \A i, j \in DOMAIN f : i # j => Pending(f[i]) \cap Pending(f[j]) = {}
  BY DEF Fresh
<1>3. \A i \in DOMAIN f : f[i].kind \in Loops => f[i].cont # f[i].end /\ f[i].body \in labels
  BY DEF Fresh
<1>4. \A x \in labels : x \in Made(next) \/ \E u \in UserLabels : x = Written(u)
  BY DEF Fresh
<1>5. ASSUME NEW i \in DOMAIN g PROVE Pending(g[i]) \subseteq Made(next) \ L
  <2>1. i \in DOMAIN f /\ Pending(g[i]) \subseteq Pending(f[i])
    OBVIOUS
  <2>2. CASE i = k
    BY <1>0, <1>1, <2>1, <2>2
  <2>3. CASE i # k
    <3>1. Pending(f[i]) \cap Pending(f[k]) = {}
      BY <1>2, <2>1, <2>3
    <3> QED
      BY <1>0, <1>1, <2>1, <3>1
  <2> QED
    BY <2>2, <2>3
<1>6. ASSUME NEW i \in DOMAIN g, NEW j \in DOMAIN g, i # j PROVE Pending(g[i]) \cap Pending(g[j]) = {}
  <2>1. i \in DOMAIN f /\ j \in DOMAIN f /\ Pending(g[i]) \subseteq Pending(f[i]) /\ Pending(g[j]) \subseteq Pending(f[j])
    OBVIOUS
  <2>2. Pending(f[i]) \cap Pending(f[j]) = {}
    BY <1>2, <1>6, <2>1
  <2> QED
    BY <2>1, <2>2
<1>7. \A i \in DOMAIN g : g[i].kind \in Loops => g[i].cont # g[i].end /\ g[i].body \in L
  BY <1>0, <1>3
<1>8. \A x \in L : x \in Made(next) \/ \E u \in UserLabels : x = Written(u)
  BY <1>0, <1>1, <1>4
<1> QED
  BY <1>5, <1>6, <1>7, <1>8 DEF Fresh

-----------------------------------------------------------------------------
(* The nodes and the program *)

LEMMA TokensOfAppend ==
  ASSUME NEW p, IsSequence(p), NEW t
  PROVE  /\ \A l : IsLabelOf(Append(p, t), l) <=> IsLabelOf(p, l) \/ (t.kind = "label" /\ t.label = l)
         /\ \A l : IsGotoOf(Append(p, t), l) <=> IsGotoOf(p, l) \/ (t.kind = "goto" /\ t.label = l)
         /\ LabelTwice(Append(p, t)) <=> LabelTwice(p) \/ (t.kind = "label" /\ IsLabelOf(p, t.label))
<1> DEFINE q == Append(p, t)
           m == Len(p) + 1
<1>1. /\ \A i : i \in DOMAIN q <=> i \in DOMAIN p \/ i = m
      /\ \A i \in DOMAIN p : q[i] = p[i] /\ i # m
      /\ q[m] = t
  <2>1. /\ Len(p) \in Nat /\ DOMAIN p = 1..Len(p) /\ DOMAIN q = 1..m
        /\ \A i \in DOMAIN p : q[i] = p[i]
        /\ q[m] = t
    BY SequenceFacts, AppendIsSequence
  <2>2. \A i : i \in DOMAIN q <=> i \in DOMAIN p \/ i = m
    BY <2>1
  <2>3. \A i \in DOMAIN p : i # m
    BY <2>1
  <2> QED
    BY <2>1, <2>2, <2>3
<1> HIDE DEF q, m
<1>2. \A l : IsLabelOf(q, l) <=> IsLabelOf(p, l) \/ (t.kind = "label" /\ t.label = l)
  BY <1>1 DEF IsLabelOf
<1>3. \A l : IsGotoOf(q, l) <=> IsGotoOf(p, l) \/ (t.kind = "goto" /\ t.label = l)
  BY <1>1 DEF IsGotoOf
<1>4. LabelTwice(q) <=> LabelTwice(p) \/ (t.kind = "label" /\ IsLabelOf(p, t.label))
  BY <1>1 DEF LabelTwice, IsLabelOf
<1> QED
  BY <1>2, <1>3, <1>4 DEF q

LEMMA SaidBegins == SaidOf(<<>>, <<>>)
BY DEF SaidOf, IsLabelOf, IsGotoOf, LabelTwice, LabelsIn, GotosIn, PlacedTwice, HasUse

LEMMA SaidGoesOn ==
  ASSUME NEW p, IsSequence(p), NEW b, SaidOf(p, b),
         NEW c, NEW new, NEW more, NEW u, Joins(b, c, new, more, u),
         NEW t, u <=> t.kind = "value", t.kind \in {"label", "goto"} => t.label \in UserLabels,
         t.kind = "label" => new = {Written(t.label)},
         t.kind # "label" => LabelsIn(b) \cap new = {} /\ \A l \in UserLabels : Written(l) \notin new,
         t.kind = "goto" => Written(t.label) \in more
  PROVE  SaidOf(Append(p, t), c)
<1> DEFINE q == Append(p, t)
           m == Len(p) + 1
           labels == LabelsIn(b)
           gotos == GotosIn(b)
           use == HasUse(b)
           twice == PlacedTwice(b)
           v == HasUse(c)
           w == PlacedTwice(c)
<1>0. /\ LabelsIn(c) = labels \cup new /\ GotosIn(c) = gotos \cup more
      /\ v <=> use \/ t.kind = "value"
      /\ w <=> twice \/ labels \cap new # {}
  BY DEF Joins
<1>1. /\ \A i : i \in DOMAIN q <=> i \in DOMAIN p \/ i = m
      /\ \A i \in DOMAIN p : q[i] = p[i]
      /\ q[m] = t
  <2>1. /\ Len(p) \in Nat /\ DOMAIN p = 1..Len(p) /\ DOMAIN q = 1..m
        /\ \A i \in DOMAIN p : q[i] = p[i]
        /\ q[m] = t
    BY SequenceFacts, AppendIsSequence
  <2>2. \A i : i \in DOMAIN q <=> i \in DOMAIN p \/ i = m
    BY <2>1
  <2> QED
    BY <2>1, <2>2
<1>2. /\ \A l : IsLabelOf(q, l) <=> IsLabelOf(p, l) \/ (t.kind = "label" /\ t.label = l)
      /\ \A l : IsGotoOf(q, l) <=> IsGotoOf(p, l) \/ (t.kind = "goto" /\ t.label = l)
      /\ LabelTwice(q) <=> LabelTwice(p) \/ (t.kind = "label" /\ IsLabelOf(p, t.label))
  BY TokensOfAppend
<1> HIDE DEF q, m
<1>3. /\ \A i \in DOMAIN p : p[i].kind \in {"label", "goto"} => p[i].label \in UserLabels
      /\ \A l \in UserLabels : Written(l) \in labels <=> IsLabelOf(p, l)
      /\ \A l \in UserLabels : IsGotoOf(p, l) => Written(l) \in gotos
      /\ twice <=> LabelTwice(p)
      /\ use <=> \E i \in DOMAIN p : p[i].kind = "value"
  BY DEF SaidOf
<1>11. t.kind # "label" => labels \cap new = {} /\ \A l \in UserLabels : Written(l) \notin new
  OBVIOUS
<1> HIDE DEF labels, gotos, use, twice, v, w
<1>4. \A i \in DOMAIN q : q[i].kind \in {"label", "goto"} => q[i].label \in UserLabels
  BY <1>1, <1>3
<1>5. \A l1, l2 : Written(l1) = Written(l2) => l1 = l2
  BY DEF Written
<1>6. \A l \in UserLabels : Written(l) \in labels \cup new <=> IsLabelOf(q, l)
  <2>1. CASE t.kind = "label"
    BY <1>2, <1>3, <1>5, <2>1
  <2>2. CASE t.kind # "label"
    BY <1>2, <1>3, <1>11, <2>2
  <2> QED
    BY <2>1, <2>2
<1>7. \A l \in UserLabels : IsGotoOf(q, l) => Written(l) \in gotos \cup more
  BY <1>2, <1>3
<1>8. w <=> LabelTwice(q)
  <2>1. CASE t.kind = "label"
    <3>1. labels \cap new # {} <=> Written(t.label) \in labels
      BY <2>1
    <3>2. t.label \in UserLabels
      BY <2>1
    <3>3. labels \cap new # {} <=> IsLabelOf(p, t.label)
      BY <1>3, <3>1, <3>2
    <3> QED
      BY <1>0, <1>2, <1>3, <2>1, <3>3
  <2>2. CASE t.kind # "label"
    BY <1>0, <1>2, <1>3, <1>11, <2>2
  <2> QED
    BY <2>1, <2>2
<1>9. v <=> \E i \in DOMAIN q : q[i].kind = "value"
  BY <1>0, <1>1, <1>3
<1>10. SaidOf(q, c)
  BY <1>0, <1>4, <1>6, <1>7, <1>8, <1>9 DEF SaidOf, v, w
<1> QED
  BY <1>10 DEF q

LEMMA LeadsBegins == Leads(<<>>, <<>>, <<>>, FALSE)
BY DEF Leads, GotosIn

LEMMA LeadsGoesOn ==
  ASSUME NEW p, IsSequence(p), NEW f, NEW b, NEW d, Leads(p, f, b, d),
         NEW c, NEW new, NEW more, NEW use, Joins(b, c, new, more, use), NEW t, NEW g, NEW e, d => e,
         \A n \in DOMAIN f : \A x \in Pending(f[n]) :
             e \/ x \in new \/ \E k \in DOMAIN g : x \in Pending(g[k]),
         \A x \in more : \/ e
                         \/ x \in LabelsIn(c)
                         \/ \E k \in DOMAIN g : x \in Pending(g[k])
                         \/ \E l \in UserLabels : t.kind = "goto" /\ t.label = l /\ x = Written(l)
  PROVE  Leads(Append(p, t), g, c, e)
<1> DEFINE q == Append(p, t)
<1>0. LabelsIn(c) = LabelsIn(b) \cup new /\ GotosIn(c) = GotosIn(b) \cup more
  BY DEF Joins
<1>1. \A l : IsGotoOf(q, l) <=> IsGotoOf(p, l) \/ (t.kind = "goto" /\ t.label = l)
  BY TokensOfAppend
<1> HIDE DEF q
<1>2. ASSUME NEW x \in GotosIn(c)
      PROVE  \/ e
             \/ x \in LabelsIn(c)
             \/ \E n \in DOMAIN g : x \in Pending(g[n])
             \/ \E l \in UserLabels : IsGotoOf(q, l) /\ x = Written(l)
  <2>1. CASE x \in GotosIn(b)
    <3>1. \/ d
          \/ x \in LabelsIn(b)
          \/ \E n \in DOMAIN f : x \in Pending(f[n])
          \/ \E l \in UserLabels : IsGotoOf(p, l) /\ x = Written(l)
      BY <2>1 DEF Leads
    <3>2. (\E n \in DOMAIN f : x \in Pending(f[n])) => e \/ x \in new \/ \E k \in DOMAIN g : x \in Pending(g[k])
      OBVIOUS
    <3>3. (\E l \in UserLabels : IsGotoOf(p, l) /\ x = Written(l)) => \E l \in UserLabels : IsGotoOf(q, l) /\ x = Written(l)
      BY <1>1
    <3> QED
      BY <1>0, <3>1, <3>2, <3>3
  <2>2. CASE x \in more
    BY <1>1, <2>2
  <2> QED
    BY <1>0, <2>1, <2>2
<1>3. Leads(q, g, c, e)
  BY <1>2 DEF Leads
<1> QED
  BY <1>3 DEF q

-----------------------------------------------------------------------------
(* What CompileRoutine makes of the nodes. *)

\* A routine with the fields given.
Has(q, labels, gotos, pending, d) ==
    /\ q = [instructions |-> q.instructions, definedLabels |-> q.definedLabels,
            gotoReferences |-> q.gotoReferences, pendingCompare |-> q.pendingCompare, diagnosed |-> q.diagnosed]
    /\ q.definedLabels = labels /\ q.gotoReferences = gotos /\ q.pendingCompare = pending
    /\ q.diagnosed <=> d

LEMMA HasAfter ==
  ASSUME NEW r, NEW labels, NEW gotos, NEW pending, NEW d, Has(r, labels, gotos, pending, d), NEW v
  PROVE  /\ Has(Emit(r, v), labels, gotos, pending, d)
         /\ Has([r EXCEPT !.definedLabels = v], v, gotos, pending, d)
         /\ Has([r EXCEPT !.gotoReferences = v], labels, v, pending, d)
         /\ Has([r EXCEPT !.pendingCompare = v], labels, gotos, v, d)
         /\ Has(Diagnose(r), labels, gotos, pending, TRUE)
<1>1. /\ r = [instructions |-> r.instructions, definedLabels |-> r.definedLabels,
              gotoReferences |-> r.gotoReferences, pendingCompare |-> r.pendingCompare, diagnosed |-> r.diagnosed]
      /\ r.definedLabels = labels /\ r.gotoReferences = gotos /\ r.pendingCompare = pending
  BY DEF Has
<1>2. r.diagnosed <=> d
  BY DEF Has
<1>3. ASSUME NEW q, NEW i, NEW l, NEW g, NEW c, NEW b,
             q = [instructions |-> i, definedLabels |-> l, gotoReferences |-> g, pendingCompare |-> c, diagnosed |-> b]
      PROVE  /\ q.instructions = i /\ q.definedLabels = l /\ q.gotoReferences = g
             /\ q.pendingCompare = c /\ q.diagnosed = b
  BY <1>3
<1>4. ASSUME NEW q, NEW i, NEW l, NEW g, NEW c, NEW b, NEW e,
             q = [instructions |-> i, definedLabels |-> l, gotoReferences |-> g, pendingCompare |-> c, diagnosed |-> b],
             b <=> e
      PROVE  Has(q, l, g, c, e)
  <2>1. /\ q.instructions = i /\ q.definedLabels = l /\ q.gotoReferences = g
        /\ q.pendingCompare = c /\ q.diagnosed = b
    BY <1>3, <1>4
  <2>2. q.diagnosed <=> e
    BY <1>4, <2>1
  <2> QED
    BY <1>4, <2>1, <2>2 DEF Has
<1>5. Has(Emit(r, v), labels, gotos, pending, d)
  <2>1. Emit(r, v) = [instructions |-> Append(r.instructions, v), definedLabels |-> labels,
                      gotoReferences |-> gotos, pendingCompare |-> pending, diagnosed |-> r.diagnosed]
    BY <1>1 DEF Emit
  <2> QED
    BY <1>2, <1>4, <2>1
<1>6. Has([r EXCEPT !.definedLabels = v], v, gotos, pending, d)
  <2>1. [r EXCEPT !.definedLabels = v] =
           [instructions |-> r.instructions, definedLabels |-> v,
            gotoReferences |-> gotos, pendingCompare |-> pending, diagnosed |-> r.diagnosed]
    BY <1>1
  <2> QED
    BY <1>2, <1>4, <2>1
<1>7. Has([r EXCEPT !.gotoReferences = v], labels, v, pending, d)
  <2>1. [r EXCEPT !.gotoReferences = v] =
           [instructions |-> r.instructions, definedLabels |-> labels,
            gotoReferences |-> v, pendingCompare |-> pending, diagnosed |-> r.diagnosed]
    BY <1>1
  <2> QED
    BY <1>2, <1>4, <2>1
<1>8. Has([r EXCEPT !.pendingCompare = v], labels, gotos, v, d)
  <2>1. [r EXCEPT !.pendingCompare = v] =
           [instructions |-> r.instructions, definedLabels |-> labels,
            gotoReferences |-> gotos, pendingCompare |-> v, diagnosed |-> r.diagnosed]
    BY <1>1
  <2> QED
    BY <1>2, <1>4, <2>1
<1>9. Has(Diagnose(r), labels, gotos, pending, TRUE)
  <2>1. ASSUME NEW b, b <=> TRUE PROVE Has([r EXCEPT !.diagnosed = b], labels, gotos, pending, TRUE)
    <3>1. [r EXCEPT !.diagnosed = b] =
             [instructions |-> r.instructions, definedLabels |-> labels,
              gotoReferences |-> gotos, pendingCompare |-> pending, diagnosed |-> b]
      BY <1>1
    <3> QED
      BY <1>4, <2>1, <3>1
  <2> QED
    BY <2>1 DEF Diagnose
<1> QED
  BY <1>5, <1>6, <1>7, <1>8, <1>9

\* What a node adds. A comparison is pending until its branch, and anything else is diagnosed.
NodeLabels(n) == IF n.node = "Label" THEN {n.label} ELSE {}
NodeGotos(n) == IF n.node = "Goto" THEN {n.label} ELSE {}
ComparisonOf(n) == [test |-> n.test, code |-> n.code]
Left(n) == IF n.node = "Compare" THEN ComparisonOf(n) ELSE NoCompare
NodeProblem(n, labels, pending) ==
    \/ pending # NoCompare /\ n.node # "Branch"
    \/ n.node = "Branch" /\ pending.test # n.test
    \/ n.node = "Label" /\ n.label \in labels
    \/ n.node = "UseOfComparison"

LEMMA ParseNodeHas ==
  ASSUME NEW before, NEW labels, NEW gotos, NEW pending, NEW d, Has(before, labels, gotos, pending, d),
         NEW n, n.node \in NodeKinds
  PROVE  Has(ParseNode(before, n), labels \cup NodeLabels(n), gotos \cup NodeGotos(n), Left(n),
             d \/ NodeProblem(n, labels, pending))
<1> DEFINE r == Settle(before, n)
           q == ParseNode(before, n)
           e == d \/ (pending # NoCompare /\ n.node # "Branch")
           rest == IF n.node = "Branch" THEN pending ELSE NoCompare
           w == d \/ NodeProblem(n, labels, pending)
<1>1. before.pendingCompare = pending
  BY DEF Has
<1>2. Has(r, labels, gotos, rest, e)
  <2>1. CASE pending # NoCompare /\ n.node # "Branch"
    <3>1. r = [Diagnose(before) EXCEPT !.pendingCompare = NoCompare]
      BY <1>1, <2>1 DEF Settle
    <3>2. Has(Diagnose(before), labels, gotos, pending, TRUE)
      BY HasAfter
    <3>3. Has([Diagnose(before) EXCEPT !.pendingCompare = NoCompare], labels, gotos, NoCompare, TRUE)
      BY <3>2, HasAfter
    <3>4. rest = NoCompare
      BY <2>1
    <3>5. e <=> TRUE
      BY <2>1
    <3> HIDE DEF r, e, rest
    <3> QED
      BY <3>1, <3>3, <3>4, <3>5 DEF Has
  <2>2. CASE ~(pending # NoCompare /\ n.node # "Branch")
    <3>1. r = before
      BY <1>1, <2>2 DEF Settle
    <3>2. rest = pending
      BY <2>2
    <3>3. e <=> d
      BY <2>2
    <3> HIDE DEF r, e, rest
    <3> QED
      BY <3>1, <3>2, <3>3 DEF Has
  <2> QED
    BY <2>1, <2>2
<1>3. /\ n.node = "Operation" => q = Emit(r, Operation(n.of))
      /\ n.node = "Return" => q = Emit(r, Return(n.of))
      /\ n.node = "Label" => q = Place(r, n.label)
      /\ n.node = "Goto" => q = [Emit(r, UnconditionalJump(n.label)) EXCEPT !.gotoReferences = @ \cup {n.label}]
      /\ n.node = "Compare" => q = [r EXCEPT !.pendingCompare = [test |-> n.test, code |-> n.code]]
      /\ n.node = "Branch" => q = BranchOn(r, n)
      /\ n.node = "UseOfComparison" => q = Diagnose(r)
  BY DEF ParseNode
<1>4. /\ n.node # "Branch" => rest = NoCompare
      /\ n.node = "Branch" => rest = pending
  OBVIOUS
<1>5. r.definedLabels = labels /\ r.gotoReferences = gotos /\ r.pendingCompare = rest
  BY <1>2 DEF Has
<1> HIDE DEF r, q, rest
<1>6. SUFFICES \E b : Has(q, labels \cup NodeLabels(n), gotos \cup NodeGotos(n), Left(n), b) /\ (b <=> w)
  BY DEF Has, q
<1>7. CASE n.node \in {"Operation", "Return"}
  <2>1. Has(q, labels, gotos, NoCompare, e)
    <3>1. q = Emit(r, Operation(n.of)) \/ q = Emit(r, Return(n.of))
      BY <1>3, <1>7
    <3>2. Has(Emit(r, Operation(n.of)), labels, gotos, rest, e) /\ Has(Emit(r, Return(n.of)), labels, gotos, rest, e)
      <4> HIDE DEF e
      <4> QED
        BY <1>2, HasAfter
    <3>3. rest = NoCompare
      BY <1>4, <1>7
    <3> HIDE DEF e
    <3> QED
      BY <3>1, <3>2, <3>3
  <2>2. NodeLabels(n) = {} /\ NodeGotos(n) = {} /\ Left(n) = NoCompare
    BY <1>7 DEF NodeLabels, NodeGotos, Left
  <2>3. e <=> w
    BY <1>7 DEF NodeProblem
  <2> HIDE DEF e, w
  <2> QED
    BY <2>1, <2>2, <2>3
<1>8. CASE n.node = "Label"
  <2>1. NodeLabels(n) = {n.label} /\ NodeGotos(n) = {} /\ Left(n) = NoCompare
    BY <1>8 DEF NodeLabels, NodeGotos, Left
  <2>2. CASE n.label \in labels
    <3>1. q = Diagnose(r)
      BY <1>3, <1>5, <1>8, <2>2 DEF Place
    <3>2. Has(q, labels, gotos, NoCompare, TRUE)
      BY <1>2, <1>4, <1>8, <3>1, HasAfter
    <3>3. labels \cup NodeLabels(n) = labels
      BY <2>1, <2>2
    <3>4. w <=> TRUE
      BY <1>8, <2>2 DEF NodeProblem
    <3> HIDE DEF w
    <3> QED
      BY <2>1, <3>2, <3>3, <3>4
  <2>3. CASE n.label \notin labels
    <3> DEFINE k == Emit(r, Label(n.label))
    <3>1. q = [k EXCEPT !.definedLabels = @ \cup {n.label}]
      BY <1>3, <1>5, <1>8, <2>3 DEF Place
    <3>2. Has(k, labels, gotos, NoCompare, e)
      BY <1>2, <1>4, <1>8, HasAfter
    <3> HIDE DEF k
    <3>3. k.definedLabels = labels
      BY <3>2 DEF Has
    <3>4. q = [k EXCEPT !.definedLabels = labels \cup {n.label}]
      BY <3>1, <3>3
    <3>5. Has(q, labels \cup {n.label}, gotos, NoCompare, e)
      BY <3>2, <3>4, HasAfter
    <3>6. e <=> w
      BY <1>8, <2>3 DEF NodeProblem
    <3> HIDE DEF e, w
    <3> QED
      BY <2>1, <3>5, <3>6
  <2> QED
    BY <2>2, <2>3
<1>9. CASE n.node = "Goto"
  <2> DEFINE k == Emit(r, UnconditionalJump(n.label))
  <2>1. q = [k EXCEPT !.gotoReferences = @ \cup {n.label}]
    BY <1>3, <1>9
  <2>2. Has(k, labels, gotos, NoCompare, e)
    BY <1>2, <1>4, <1>9, HasAfter
  <2> HIDE DEF k
  <2>3. k.gotoReferences = gotos
    BY <2>2 DEF Has
  <2>4. q = [k EXCEPT !.gotoReferences = gotos \cup {n.label}]
    BY <2>1, <2>3
  <2>5. Has(q, labels, gotos \cup {n.label}, NoCompare, e)
    BY <2>2, <2>4, HasAfter
  <2>6. NodeLabels(n) = {} /\ NodeGotos(n) = {n.label} /\ Left(n) = NoCompare
    BY <1>9 DEF NodeLabels, NodeGotos, Left
  <2>7. e <=> w
    BY <1>9 DEF NodeProblem
  <2> HIDE DEF e, w
  <2> QED
    BY <2>5, <2>6, <2>7
<1>10. CASE n.node = "Compare"
  <2>1. q = [r EXCEPT !.pendingCompare = ComparisonOf(n)]
    BY <1>3, <1>10 DEF ComparisonOf
  <2>2. Has(q, labels, gotos, ComparisonOf(n), e)
    BY <1>2, <2>1, HasAfter
  <2>3. NodeLabels(n) = {} /\ NodeGotos(n) = {} /\ Left(n) = ComparisonOf(n)
    BY <1>10 DEF NodeLabels, NodeGotos, Left
  <2>4. e <=> w
    BY <1>10 DEF NodeProblem
  <2> HIDE DEF e, w
  <2> QED
    BY <2>2, <2>3, <2>4
<1>11. CASE n.node = "Branch"
  <2>1. NodeLabels(n) = {} /\ NodeGotos(n) = {} /\ Left(n) = NoCompare
    BY <1>11 DEF NodeLabels, NodeGotos, Left
  <2>2. CASE pending.test # n.test
    <3>1. q = [Diagnose(r) EXCEPT !.pendingCompare = NoCompare]
      BY <1>3, <1>4, <1>5, <1>11, <2>2 DEF BranchOn
    <3>2. Has(Diagnose(r), labels, gotos, rest, TRUE)
      BY <1>2, HasAfter
    <3>3. Has(q, labels, gotos, NoCompare, TRUE)
      BY <3>1, <3>2, HasAfter
    <3>4. w <=> TRUE
      BY <1>11, <2>2 DEF NodeProblem
    <3> HIDE DEF w
    <3> QED
      BY <2>1, <3>3, <3>4
  <2>3. CASE pending.test = n.test
    <3> DEFINE away == CompareAndJump(n.test, Invert(r.pendingCompare.code), n.ifFalse)
               on == UnconditionalJump(n.ifTrue)
    <3>1. q = [Emit(Emit(r, away), on) EXCEPT !.pendingCompare = NoCompare]
      BY <1>3, <1>4, <1>5, <1>11, <2>3 DEF BranchOn
    <3> HIDE DEF away, on
    <3>2. Has(Emit(r, away), labels, gotos, rest, e)
      BY <1>2, HasAfter
    <3>3. Has(Emit(Emit(r, away), on), labels, gotos, rest, e)
      BY <3>2, HasAfter
    <3>4. Has(q, labels, gotos, NoCompare, e)
      BY <3>1, <3>3, HasAfter
    <3>5. e <=> w
      BY <1>11, <2>3 DEF NodeProblem
    <3> HIDE DEF e, w
    <3> QED
      BY <2>1, <3>4, <3>5
  <2> QED
    BY <2>2, <2>3
<1>12. CASE n.node = "UseOfComparison"
  <2>1. Has(q, labels, gotos, NoCompare, TRUE)
    <3>1. Has(Diagnose(r), labels, gotos, rest, TRUE)
      BY <1>2, HasAfter
    <3>2. rest = NoCompare /\ q = Diagnose(r)
      BY <1>3, <1>4, <1>12
    <3> QED
      BY <3>1, <3>2
  <2>2. NodeLabels(n) = {} /\ NodeGotos(n) = {} /\ Left(n) = NoCompare
    BY <1>12 DEF NodeLabels, NodeGotos, Left
  <2>3. w <=> TRUE
    BY <1>12 DEF NodeProblem
  <2> HIDE DEF w
  <2> QED
    BY <2>1, <2>2, <2>3
<1> QED
  BY <1>7, <1>8, <1>9, <1>10, <1>11, <1>12 DEF NodeKinds

\* What the first n nodes say.
LabelsTo(b, n) == {b[i].label : i \in {j \in 1..n : b[j].node = "Label"}}
GotosTo(b, n) == {b[i].label : i \in {j \in 1..n : b[j].node = "Goto"}}
PendingTo(b, n) == IF n = 0 THEN NoCompare ELSE Left(b[n])
ProblemTo(b, n) ==
    \/ \E i \in 1..n : b[i].node = "UseOfComparison"
    \/ \E i, j \in 1..n : i # j /\ b[i].node = "Label" /\ b[j].node = "Label" /\ b[i].label = b[j].label

\* One node more.
LEMMA NodeMore ==
  ASSUME NEW b, IsNodes(b), Paired(b), NEW n \in Nat, n + 1 <= Len(b)
  PROVE  /\ LabelsTo(b, n + 1) = LabelsTo(b, n) \cup NodeLabels(b[n + 1])
         /\ GotosTo(b, n + 1) = GotosTo(b, n) \cup NodeGotos(b[n + 1])
         /\ ProblemTo(b, n + 1) <=> ProblemTo(b, n) \/ NodeProblem(b[n + 1], LabelsTo(b, n), PendingTo(b, n))
<1> DEFINE k == n + 1
           x == b[k]
<1>1. /\ Len(b) \in Nat /\ DOMAIN b = 1..Len(b) /\ k \in DOMAIN b
      /\ \A i : i \in 1..k <=> i \in 1..n \/ i = k
      /\ k \notin 1..n
      /\ n # 0 => n \in DOMAIN b
      /\ k - 1 = n
  <2>1. IsSequence(b)
    BY DEF IsNodes
  <2>2. Len(b) \in Nat /\ DOMAIN b = 1..Len(b)
    BY <2>1, SequenceFacts
  <2>3. \A i : i \in 1..k <=> i \in 1..n \/ i = k
    OBVIOUS
  <2> QED
    BY <2>2, <2>3
<1>2. k = n + 1
  OBVIOUS
<1> HIDE DEF k
<1>3. LabelsTo(b, k) = LabelsTo(b, n) \cup NodeLabels(x)
  BY <1>1 DEF LabelsTo, NodeLabels
<1>4. GotosTo(b, k) = GotosTo(b, n) \cup NodeGotos(x)
  BY <1>1 DEF GotosTo, NodeGotos
<1>5. ASSUME ProblemTo(b, k) PROVE ProblemTo(b, n) \/ NodeProblem(x, LabelsTo(b, n), PendingTo(b, n))
  <2>1. CASE \E i \in 1..k : b[i].node = "UseOfComparison"
    BY <1>1, <2>1 DEF ProblemTo, NodeProblem
  <2>2. CASE \E i, j \in 1..k : i # j /\ b[i].node = "Label" /\ b[j].node = "Label" /\ b[i].label = b[j].label
    <3>1. PICK i, j \in 1..k : i # j /\ b[i].node = "Label" /\ b[j].node = "Label" /\ b[i].label = b[j].label
      BY <2>2
    <3>2. CASE i \in 1..n /\ j \in 1..n
      BY <3>1, <3>2 DEF ProblemTo
    <3>3. CASE i = k /\ j \in 1..n
      <4>1. x.node = "Label" /\ x.label \in LabelsTo(b, n)
        BY <3>1, <3>3 DEF LabelsTo
      <4> QED
        BY <4>1 DEF NodeProblem
    <3>4. CASE j = k /\ i \in 1..n
      <4>1. x.node = "Label" /\ x.label \in LabelsTo(b, n)
        BY <3>1, <3>4 DEF LabelsTo
      <4> QED
        BY <4>1 DEF NodeProblem
    <3> QED
      BY <1>1, <3>1, <3>2, <3>3, <3>4
  <2> QED
    BY <1>5, <2>1, <2>2 DEF ProblemTo
<1>6. ASSUME ProblemTo(b, n) PROVE ProblemTo(b, k)
  BY <1>1, <1>6 DEF ProblemTo
<1>7. ASSUME NodeProblem(x, LabelsTo(b, n), PendingTo(b, n)) PROVE ProblemTo(b, k)
  <2>1. CASE PendingTo(b, n) # NoCompare /\ x.node # "Branch"
    <3>1. n # 0 /\ b[n].node = "Compare"
      BY <2>1 DEF PendingTo, Left
    <3>2. x.node \in {"UseOfComparison", "Branch"}
      BY <1>1, <1>2, <3>1 DEF Paired
    <3> QED
      BY <1>1, <2>1, <3>2 DEF ProblemTo
  <2>2. CASE x.node = "Branch" /\ PendingTo(b, n).test # x.test
    <3>1. n \in DOMAIN b /\ b[n].node = "Compare" /\ b[n].test = x.test
      BY <1>1, <2>2 DEF Paired
    <3>2. n # 0
      BY <1>1, <3>1
    <3>3. PendingTo(b, n) = [test |-> b[n].test, code |-> b[n].code]
      BY <3>1, <3>2 DEF PendingTo, Left, ComparisonOf
    <3> QED
      BY <2>2, <3>1, <3>3
  <2>3. CASE x.node = "Label" /\ x.label \in LabelsTo(b, n)
    <3>1. PICK i \in 1..n : b[i].node = "Label" /\ b[i].label = x.label
      BY <2>3 DEF LabelsTo
    <3>2. i \in 1..k /\ k \in 1..k /\ i # k
      BY <1>1
    <3> QED
      BY <2>3, <3>1, <3>2 DEF ProblemTo
  <2>4. CASE x.node = "UseOfComparison"
    BY <1>1, <2>4 DEF ProblemTo
  <2> QED
    BY <1>7, <2>1, <2>2, <2>3, <2>4 DEF NodeProblem
<1> QED
  BY <1>3, <1>4, <1>5, <1>6, <1>7 DEF k

\* The routine has the labels and the jumps of the nodes, and is diagnosed where a comparison is
\* used or a label placed again.
LEMMA CompiledSays ==
  ASSUME NEW b, IsNodes(b), Paired(b)
  PROVE  /\ Compiled(b).definedLabels = LabelsIn(b)
         /\ Compiled(b).gotoReferences = GotosIn(b)
         /\ Compiled(b).diagnosed <=> HasUse(b) \/ PlacedTwice(b)
<1> DEFINE r == CHOOSE f : CompiledTo(f, b, Len(b))
           Good(n) == Has(r[n], LabelsTo(b, n), GotosTo(b, n), PendingTo(b, n), ProblemTo(b, n))
           A == {n \in Nat : n <= Len(b) => Good(n)}
<1>1. Len(b) \in Nat /\ DOMAIN b = 1..Len(b)
  BY SequenceFacts DEF IsNodes
<1>2. CompiledTo(r, b, Len(b))
  BY <1>1, CompiledExists
<1>3. Compiled(b) = r[Len(b)]
  BY DEF Compiled, CompiledTo
<1> HIDE DEF r
<1>4. r[0] = EmptyRoutine /\ \A n \in 1..Len(b) : r[n] = ParseNode(r[n - 1], b[n])
  <2>1. 0 \in 0..Len(b)
    BY <1>1
  <2>2. r[0] = EmptyRoutine
    BY <1>2, <2>1 DEF CompiledTo
  <2>3. ASSUME NEW n \in 1..Len(b) PROVE r[n] = ParseNode(r[n - 1], b[n])
    <3>1. n \in 0..Len(b) /\ n # 0
      BY <1>1
    <3> QED
      BY <1>2, <3>1 DEF CompiledTo
  <2> QED
    BY <2>2, <2>3
<1>5. 0 \in A
  <2>1. LabelsTo(b, 0) = {} /\ GotosTo(b, 0) = {} /\ PendingTo(b, 0) = NoCompare
    BY DEF LabelsTo, GotosTo, PendingTo
  <2>2. ~ProblemTo(b, 0)
    BY DEF ProblemTo
  <2>3. /\ r[0] = [instructions |-> r[0].instructions, definedLabels |-> r[0].definedLabels,
                   gotoReferences |-> r[0].gotoReferences, pendingCompare |-> r[0].pendingCompare,
                   diagnosed |-> r[0].diagnosed]
        /\ r[0].definedLabels = {} /\ r[0].gotoReferences = {} /\ r[0].pendingCompare = NoCompare
    BY <1>4 DEF EmptyRoutine
  <2>4. ~r[0].diagnosed
    BY <1>4 DEF EmptyRoutine
  <2>5. Good(0)
    BY <2>1, <2>2, <2>3, <2>4 DEF Has
  <2> QED
    BY <2>5
<1>6. ASSUME NEW n \in Nat, n \in A PROVE n + 1 \in A
  <2> SUFFICES ASSUME n + 1 <= Len(b) PROVE Good(n + 1)
    OBVIOUS
  <2>1. n + 1 \in 1..Len(b) /\ (n + 1) - 1 = n /\ n <= Len(b)
    BY <1>1
  <2>2. Good(n) /\ r[n + 1] = ParseNode(r[n], b[n + 1])
    BY <1>4, <1>6, <2>1
  <2>3. b[n + 1].node \in NodeKinds
    BY <1>1, <2>1 DEF IsNodes, Items
  <2> DEFINE w == ProblemTo(b, n) \/ NodeProblem(b[n + 1], LabelsTo(b, n), PendingTo(b, n))
  <2>4. Has(r[n + 1], LabelsTo(b, n) \cup NodeLabels(b[n + 1]), GotosTo(b, n) \cup NodeGotos(b[n + 1]),
            Left(b[n + 1]), w)
    <3>1. ASSUME NEW q, NEW labels, NEW gotos, NEW pending, NEW d, Has(q, labels, gotos, pending, d),
                 NEW x, x.node \in NodeKinds, NEW e, e <=> d \/ NodeProblem(x, labels, pending)
          PROVE  Has(ParseNode(q, x), labels \cup NodeLabels(x), gotos \cup NodeGotos(x), Left(x), e)
      <4>1. Has(ParseNode(q, x), labels \cup NodeLabels(x), gotos \cup NodeGotos(x), Left(x),
                d \/ NodeProblem(x, labels, pending))
        BY ONLY <3>1, ParseNodeHas
      <4> QED
        BY <3>1, <4>1 DEF Has
    <3>2. w <=> ProblemTo(b, n) \/ NodeProblem(b[n + 1], LabelsTo(b, n), PendingTo(b, n))
      OBVIOUS
    <3>3. Has(r[n], LabelsTo(b, n), GotosTo(b, n), PendingTo(b, n), ProblemTo(b, n))
      BY <2>2
    <3> HIDE DEF w, Good, A
    <3>4. Has(ParseNode(r[n], b[n + 1]), LabelsTo(b, n) \cup NodeLabels(b[n + 1]),
              GotosTo(b, n) \cup NodeGotos(b[n + 1]), Left(b[n + 1]), w)
      BY ONLY <2>3, <3>1, <3>2, <3>3
    <3> QED
      BY <2>2, <3>4
  <2>5. LabelsTo(b, n + 1) = LabelsTo(b, n) \cup NodeLabels(b[n + 1])
    BY NodeMore
  <2>6. GotosTo(b, n + 1) = GotosTo(b, n) \cup NodeGotos(b[n + 1])
    BY NodeMore
  <2>7. ProblemTo(b, n + 1) <=> w
    BY NodeMore
  <2>8. PendingTo(b, n + 1) = Left(b[n + 1])
    BY DEF PendingTo
  <2> HIDE DEF w
  <2> QED
    BY <2>4, <2>5, <2>6, <2>7, <2>8 DEF Has
<1> HIDE DEF A
<1>7. \A n \in Nat : n \in A
  BY <1>5, <1>6, InductionOverNat
<1>8. Good(Len(b))
  BY <1>1, <1>7 DEF A
<1>9. LabelsTo(b, Len(b)) = LabelsIn(b) /\ GotosTo(b, Len(b)) = GotosIn(b)
  BY <1>1 DEF LabelsTo, GotosTo, LabelsIn, GotosIn
<1>10. ProblemTo(b, Len(b)) <=> HasUse(b) \/ PlacedTwice(b)
  BY <1>1 DEF ProblemTo, HasUse, PlacedTwice
<1> HIDE DEF Good
<1>11. Compiled(b).definedLabels = LabelsIn(b) /\ Compiled(b).gotoReferences = GotosIn(b)
  BY <1>3, <1>8, <1>9 DEF Good, Has
<1>12. Compiled(b).diagnosed <=> HasUse(b) \/ PlacedTwice(b)
  BY <1>3, <1>8, <1>10 DEF Good, Has
<1> QED
  BY <1>11, <1>12

-----------------------------------------------------------------------------
(* The invariant of what is diagnosed. *)

Diagnosis(p, f, s, b, next, d) ==
    /\ Nest(p, f) /\ IsStack(f, s) /\ Blamed(p, f, d)
    /\ Paired(b) /\ Fresh(f, b, next) /\ SaidOf(p, b) /\ Leads(p, f, b, d)

DInv ==
    /\ IInv
    /\ IsSequence(program) /\ nextLabelIndex \in Nat
    /\ phase = "statements" => Diagnosis(program, frames, jumpStack, built, nextLabelIndex, diagnosed)
    /\ DiagnosedExactly

\* While statements are read, nothing is said of the routine.
LEMMA StillReading ==
  ASSUME DInv, phase = "statements", UNCHANGED translation, IInv',
         NEW t, program' = Append(program, t), nextLabelIndex' \in Nat,
         Diagnosis(program', frames', jumpStack', built', nextLabelIndex', diagnosed')
  PROVE  DInv'
<1>1. IsSequence(program')
  BY AppendIsSequence DEF DInv
<1>2. phase' = "statements"
  BY DEF translation
<1> QED
  BY <1>1, <1>2 DEF DInv, DiagnosedExactly

\* A statement that opens and closes nothing, with the labels and the jumps of its nodes.
Simple(f, t, new, more, use, d, e) ==
    /\ t.kind \notin Openers \cup {"close"} /\ t.cond # "ill"
    /\ t.kind \in {"label", "goto"} => t.label \in UserLabels
    /\ use <=> t.kind = "value"
    /\ new = IF t.kind = "label" THEN {Written(t.label)} ELSE {}
    /\ t.kind = "goto" => Written(t.label) \in more
    /\ e <=> d \/ t.kind = "ill"
             \/ (t.kind \in {"break", "continue"} /\ \A i \in DOMAIN f : f[i].kind \notin Loops)
    /\ \A x \in more : \/ e
                       \/ \E i \in DOMAIN f : x \in Pending(f[i])
                       \/ t.kind = "goto" /\ x = Written(t.label)

LEMMA SimpleDiagnosis ==
  ASSUME NEW p, IsSequence(p), NEW f, NEW s, NEW b, NEW next \in Nat, NEW d, Diagnosis(p, f, s, b, next, d),
         NEW t, NEW c, NEW new, NEW more, NEW use, Joins(b, c, new, more, use),
         NEW e, Simple(f, t, new, more, use, d, e), NEW n \in Nat, next <= n
  PROVE  Diagnosis(Append(p, t), f, s, c, n, e)
<1>0. /\ t.kind \notin Openers \cup {"close"} /\ t.cond # "ill"
      /\ t.kind \in {"label", "goto"} => t.label \in UserLabels
      /\ use <=> t.kind = "value"
      /\ new = IF t.kind = "label" THEN {Written(t.label)} ELSE {}
      /\ t.kind = "goto" => Written(t.label) \in more
      /\ e <=> d \/ t.kind = "ill"
               \/ (t.kind \in {"break", "continue"} /\ \A i \in DOMAIN f : f[i].kind \notin Loops)
      /\ \A x \in more : \/ e
                         \/ \E i \in DOMAIN f : x \in Pending(f[i])
                         \/ t.kind = "goto" /\ x = Written(t.label)
  BY DEF Simple
<1>1. /\ Nest(p, f) /\ IsStack(f, s) /\ Blamed(p, f, d)
      /\ Paired(b) /\ Fresh(f, b, next) /\ SaidOf(p, b) /\ Leads(p, f, b, d)
  BY DEF Diagnosis
<1>2. Paired(c)
  BY DEF Joins
<1>3. Nest(Append(p, t), f)
  BY <1>0, <1>1, NestGoesOn
<1>4. Blamed(Append(p, t), f, e)
  BY <1>0, <1>1, BlamedGoesOn
<1>5. Fresh(f, c, n)
  <2>1. \A x \in new : \E l \in UserLabels : x = Written(l)
    BY <1>0
  <2> QED
    BY <1>1, <2>1, FreshGoesOn
<1>6. SaidOf(Append(p, t), c)
  <2>1. t.kind = "label" => new = {Written(t.label)}
    BY <1>0
  <2>2. t.kind # "label" => LabelsIn(b) \cap new = {} /\ \A l \in UserLabels : Written(l) \notin new
    BY <1>0
  <2> QED
    BY <1>0, <1>1, <2>1, <2>2, SaidGoesOn
<1>7. Leads(Append(p, t), f, c, e)
  <2>1. \A i \in DOMAIN f : \A x \in Pending(f[i]) : e \/ x \in new \/ \E k \in DOMAIN f : x \in Pending(f[k])
    BY <1>0
  <2>2. \A x \in more : \/ e
                        \/ x \in LabelsIn(c)
                        \/ \E k \in DOMAIN f : x \in Pending(f[k])
                        \/ \E l \in UserLabels : t.kind = "goto" /\ t.label = l /\ x = Written(l)
    BY <1>0
  <2>3. d => e
    BY <1>0
  <2> QED
    BY <1>0, <1>1, <2>1, <2>2, <2>3, LeadsGoesOn
<1> QED
  BY <1>1, <1>2, <1>3, <1>4, <1>5, <1>6, <1>7 DEF Diagnosis

\* A statement that opens with label l; its frame has the labels after next and before n.
Opening(p, t, frame, next, n, l) ==
    /\ t.kind \in Openers
    /\ frame.at = Len(p) + 1 /\ (t.kind \in Loops <=> frame.kind \in Loops)
    /\ l \in Made(n) \ Made(next)
    /\ Pending(frame) \subseteq Made(n) \ Made(next) /\ l \notin Pending(frame)
    /\ frame.kind \in Loops => frame.cont # frame.end /\ frame.body = l

LEMMA OpenDiagnosis ==
  ASSUME NEW p, IsSequence(p), NEW f, IsSequence(f), NEW s, NEW b, NEW next \in Nat, NEW d,
         Diagnosis(p, f, s, b, next, d),
         NEW t, NEW frame, NEW n \in Nat, next <= n, NEW l, Opening(p, t, frame, next, n, l),
         NEW c, NEW more, Joins(b, c, {l}, more, FALSE), more \subseteq {l},
         NEW u, u = IF frame.kind \in Loops
                    THEN Append(s, [breakLabel |-> frame.end, continueLabel |-> frame.cont])
                    ELSE s
  PROVE  Diagnosis(Append(p, t), Append(f, frame), u, c, n, d)
<1> DEFINE g == Append(f, frame)
<1>0. /\ t.kind \in Openers
      /\ frame.at = Len(p) + 1 /\ (t.kind \in Loops <=> frame.kind \in Loops)
      /\ l \in Made(n) \ Made(next)
      /\ Pending(frame) \subseteq Made(n) \ Made(next) /\ l \notin Pending(frame)
      /\ frame.kind \in Loops => frame.cont # frame.end /\ frame.body = l
  BY DEF Opening
<1>1. /\ Nest(p, f) /\ IsStack(f, s) /\ Blamed(p, f, d)
      /\ Paired(b) /\ Fresh(f, b, next) /\ SaidOf(p, b) /\ Leads(p, f, b, d)
  BY DEF Diagnosis
<1>2. Paired(c) /\ LabelsIn(c) = LabelsIn(b) \cup {l}
  BY DEF Joins
<1>3. Nest(Append(p, t), g)
  BY <1>0, <1>1, NestOpens
<1>4. IsStack(g, u)
  BY <1>0, <1>1, StackOpens
<1>5. Blamed(Append(p, t), g, d)
  BY <1>0, <1>1, BlamedOpens
<1>6. Fresh(g, c, n)
  BY <1>0, <1>1, FreshOpens
<1>7. SaidOf(Append(p, t), c)
  <2>1. LabelsIn(b) \cap {l} = {} /\ \A x \in UserLabels : Written(x) \notin {l}
    <3>1. \A x \in UserLabels : Written(x) \notin Made(n)
      BY MadeLabels
    <3> QED
      BY <1>0, <1>1, <3>1 DEF Fresh
  <2>2. t.kind \notin {"label", "goto", "value"}
    BY <1>0 DEF Openers, Loops
  <2>3. FALSE <=> t.kind = "value"
    BY <2>2
  <2> QED
    BY <1>1, <2>1, <2>2, <2>3, SaidGoesOn
<1>8. Leads(Append(p, t), g, c, d)
  <2>1. \A i \in DOMAIN f : i \in DOMAIN g /\ g[i] = f[i]
    <3>1. /\ Len(f) \in Nat /\ DOMAIN f = 1..Len(f) /\ DOMAIN g = 1..Len(f) + 1
          /\ \A i \in DOMAIN f : g[i] = f[i]
      BY SequenceFacts, AppendIsSequence
    <3> HIDE DEF g
    <3> QED
      BY <3>1
  <2>2. \A i \in DOMAIN f : \A x \in Pending(f[i]) : d \/ x \in {l} \/ \E k \in DOMAIN g : x \in Pending(g[k])
    BY <2>1
  <2> HIDE DEF g
  <2>3. \A x \in more : \/ d
                        \/ x \in LabelsIn(c)
                        \/ \E k \in DOMAIN g : x \in Pending(g[k])
                        \/ \E a \in UserLabels : t.kind = "goto" /\ t.label = a /\ x = Written(a)
    BY <1>2
  <2>4. d => d
    OBVIOUS
  <2> QED
    BY <1>1, <2>2, <2>3, <2>4, LeadsGoesOn
<1> HIDE DEF g
<1>9. Diagnosis(Append(p, t), g, u, c, n, d)
  BY <1>2, <1>3, <1>4, <1>5, <1>6, <1>7, <1>8 DEF Diagnosis
<1> QED
  BY <1>9 DEF g

\* Labels of the innermost statement are placed: it has an else, or it ends.
\* The frames are g after it.
Placing(f, g, b, k, t, new, more, d, e) ==
    /\ t.kind \in {"else", "close"}
    /\ k \in DOMAIN f /\ DOMAIN g \subseteq DOMAIN f
    /\ \A i \in DOMAIN g : /\ Pending(g[i]) \subseteq Pending(f[i])
                           /\ g[i].kind \in Loops => g[i] = f[i]
    /\ new \subseteq Pending(f[k]) /\ \A i \in DOMAIN g : i = k => Pending(g[i]) \cap new = {}
    /\ d => e
    /\ \A i \in DOMAIN f : \A x \in Pending(f[i]) : e \/ x \in new \/ \E j \in DOMAIN g : x \in Pending(g[j])
    /\ \A x \in more : e \/ x \in LabelsIn(b) \cup new \/ \E j \in DOMAIN g : x \in Pending(g[j])

LEMMA PlaceDiagnosis ==
  ASSUME NEW p, IsSequence(p), NEW f, NEW s, NEW b, NEW next \in Nat, NEW d, Diagnosis(p, f, s, b, next, d),
         NEW t, NEW k, NEW c, NEW new, NEW more, Joins(b, c, new, more, FALSE),
         NEW g, NEW e, Placing(f, g, b, k, t, new, more, d, e),
         NEW u, Nest(Append(p, t), g), IsStack(g, u), Blamed(Append(p, t), g, e)
  PROVE  Diagnosis(Append(p, t), g, u, c, next, e)
<1>0. /\ t.kind \in {"else", "close"}
      /\ k \in DOMAIN f /\ DOMAIN g \subseteq DOMAIN f
      /\ \A i \in DOMAIN g : /\ Pending(g[i]) \subseteq Pending(f[i])
                             /\ g[i].kind \in Loops => g[i] = f[i]
      /\ new \subseteq Pending(f[k]) /\ \A i \in DOMAIN g : i = k => Pending(g[i]) \cap new = {}
      /\ d => e
      /\ \A i \in DOMAIN f : \A x \in Pending(f[i]) : e \/ x \in new \/ \E j \in DOMAIN g : x \in Pending(g[j])
      /\ \A x \in more : e \/ x \in LabelsIn(b) \cup new \/ \E j \in DOMAIN g : x \in Pending(g[j])
  BY DEF Placing
<1>1. Fresh(f, b, next) /\ SaidOf(p, b) /\ Leads(p, f, b, d)
  BY DEF Diagnosis
<1>2. Paired(c) /\ LabelsIn(c) = LabelsIn(b) \cup new
  BY DEF Joins
<1>3. Fresh(g, c, next)
  <2>1. Fresh(f, b, next) /\ k \in DOMAIN f /\ DOMAIN g \subseteq DOMAIN f
    BY <1>0, <1>1
  <2>2. \A i \in DOMAIN g : /\ Pending(g[i]) \subseteq Pending(f[i])
                            /\ g[i].kind \in Loops => g[i] = f[i]
    BY <1>0
  <2>3. new \subseteq Pending(f[k])
    BY <1>0
  <2>4. \A i \in DOMAIN g : i = k => Pending(g[i]) \cap new = {}
    BY <1>0
  <2> QED
    BY ONLY <2>1, <2>2, <2>3, <2>4, Joins(b, c, new, more, FALSE), FreshPlaces
<1>4. SaidOf(Append(p, t), c)
  <2>1. LabelsIn(b) \cap new = {} /\ \A l \in UserLabels : Written(l) \notin new
    <3>1. \A l \in UserLabels : Written(l) \notin Made(next)
      BY MadeLabels
    <3>2. Pending(f[k]) \subseteq Made(next) \ LabelsIn(b)
      BY <1>0, <1>1 DEF Fresh
    <3> QED
      BY <1>0, <3>1, <3>2
  <2>2. FALSE <=> t.kind = "value"
    BY <1>0
  <2>3. t.kind \notin {"label", "goto"}
    BY <1>0
  <2> QED
    BY <1>1, <2>1, <2>2, <2>3, SaidGoesOn
<1>5. Leads(Append(p, t), g, c, e)
  <2>1. \A x \in more : \/ e
                        \/ x \in LabelsIn(c)
                        \/ \E j \in DOMAIN g : x \in Pending(g[j])
                        \/ \E l \in UserLabels : t.kind = "goto" /\ t.label = l /\ x = Written(l)
    BY <1>0, <1>2
  <2> QED
    BY <1>0, <1>1, <2>1, LeadsGoesOn
<1> QED
  BY <1>2, <1>3, <1>4, <1>5 DEF Diagnosis

-----------------------------------------------------------------------------
(* Each action keeps it. *)

LEMMA TokenFields ==
  ASSUME NEW kind, NEW cond, NEW label
  PROVE  Token(kind, cond, label).kind = kind /\ Token(kind, cond, label).cond = cond
         /\ Token(kind, cond, label).label = label
BY DEF Token

LEMMA SimpleStep ==
  ASSUME DInv, IInv', phase = "statements", UNCHANGED <<frames, jumpStack>>, UNCHANGED translation,
         NEW t, program' = Append(program, t),
         NEW nodes, NEW new, NEW more, NEW use, Says(nodes, new, more, use), built' = built \o nodes,
         Simple(frames, t, new, more, use, diagnosed, diagnosed'),
         nextLabelIndex' \in Nat, nextLabelIndex <= nextLabelIndex'
  PROVE  DInv'
<1> DEFINE b == built
           c == built \o nodes
           next == nextLabelIndex
           n == nextLabelIndex'
           e == diagnosed'
<1>1. /\ IsSequence(program) /\ next \in Nat
      /\ Diagnosis(program, frames, jumpStack, b, next, diagnosed)
      /\ IsNodes(b) /\ Paired(b)
  BY DEF DInv, IInv, Diagnosis
<1>2. Joins(b, c, new, more, use)
  BY <1>1, ConcatJoins
<1>3. Simple(frames, t, new, more, use, diagnosed, e) /\ n \in Nat /\ next <= n
  OBVIOUS
<1> HIDE DEF b, c, next, n, e
<1>4. Diagnosis(Append(program, t), frames, jumpStack, c, n, e)
  BY ONLY <1>1, <1>2, <1>3, SimpleDiagnosis
<1>5. Diagnosis(program', frames', jumpStack', built', nextLabelIndex', diagnosed')
  BY <1>4 DEF b, c, n, e
<1> QED
  BY <1>5, StillReading

\* A statement of nodes and diagnostics, neither of which an ill condition is.
Plain(kind, label, problem, new, more, use) ==
    /\ kind \in {"op", "value", "return", "label", "goto", "break", "continue"}
    /\ kind \in {"label", "goto"} => label \in UserLabels
    /\ use <=> kind = "value"
    /\ new = IF kind = "label" THEN {Written(label)} ELSE {}
    /\ kind = "goto" => Written(label) \in more
    /\ problem <=> kind \in {"break", "continue"} /\ \A i \in DOMAIN frames : frames[i].kind \notin Loops
    /\ \A x \in more : \/ \E i \in DOMAIN frames : x \in Pending(frames[i])
                       \/ kind = "goto" /\ x = Written(label)

LEMMA PlainStep ==
  ASSUME DInv, IInv', NEW kind, NEW label, Read(kind, "none", label),
         NEW nodes, NEW problem, Write(nodes, problem),
         NEW new, NEW more, NEW use, Says(nodes, new, more, use), Plain(kind, label, problem, new, more, use)
  PROVE  DInv'
<1> DEFINE t == Token(kind, "none", label)
<1>1. t.kind = kind /\ t.cond = "none" /\ t.label = label
  BY TokenFields
<1>2. /\ phase = "statements" /\ program' = Append(program, t) /\ UNCHANGED translation
      /\ built' = built \o nodes /\ UNCHANGED <<frames, jumpStack>> /\ nextLabelIndex' = nextLabelIndex
  BY DEF Read, Write
<1>3. diagnosed' <=> diagnosed \/ problem
  BY DEF Write
<1> HIDE DEF t
<1>4. kind \notin Openers \cup {"close", "ill"}
  BY DEF Plain, Openers, Loops
<1>5. nextLabelIndex' \in Nat /\ nextLabelIndex <= nextLabelIndex'
  BY <1>2 DEF DInv
<1>6. ASSUME NEW d, NEW e, e <=> d \/ problem
      PROVE  Simple(frames, t, new, more, use, d, e)
  <2>1. e <=> d \/ t.kind = "ill"
              \/ (t.kind \in {"break", "continue"} /\ \A i \in DOMAIN frames : frames[i].kind \notin Loops)
    BY <1>1, <1>4, <1>6 DEF Plain
  <2>2. /\ t.kind \notin Openers \cup {"close"} /\ t.cond # "ill"
        /\ t.kind \in {"label", "goto"} => t.label \in UserLabels
        /\ use <=> t.kind = "value"
    BY <1>1, <1>4 DEF Plain
  <2>3. /\ new = IF t.kind = "label" THEN {Written(t.label)} ELSE {}
        /\ t.kind = "goto" => Written(t.label) \in more
    BY <1>1 DEF Plain
  <2>4. \A x \in more : \/ e
                        \/ \E i \in DOMAIN frames : x \in Pending(frames[i])
                        \/ t.kind = "goto" /\ x = Written(t.label)
    BY <1>1 DEF Plain
  <2> QED
    BY <2>1, <2>2, <2>3, <2>4 DEF Simple
<1>7. Simple(frames, t, new, more, use, diagnosed, diagnosed')
  BY <1>3, <1>6
<1> QED
  BY <1>2, <1>5, <1>7, SimpleStep

LEMMA SimpleStatementsDiagnosed ==
  ASSUME DInv,
         \/ ExpressionStatement \/ ComparisonAsValue \/ ParseReturn
         \/ \E l \in UserLabels : ParseLabelNode(l) \/ ParseGotoNode(l)
         \/ ParseBreakNode \/ ParseContinueNode
         \/ \E kind \in {"if", "while", "for"} : IllCondition(kind)
  PROVE  DInv'
<1>1. IInv'
  BY SimpleStatements DEF DInv
<1>2. nextLabelIndex \in Nat
  BY DEF DInv
<1>3. \A kind \in {"op", "value", "return", "label", "goto", "break", "continue", "ill"} :
          kind \notin Openers \cup {"close"}
  BY DEF Openers, Loops
<1>4. ASSUME NEW kind, NEW label, Read(kind, "none", label), NEW nodes, NEW problem, Write(nodes, problem),
             NEW new, NEW more, NEW use, Says(nodes, new, more, use), Plain(kind, label, problem, new, more, use)
      PROVE  DInv'
  BY <1>1, <1>4, PlainStep
<1>5. CASE ExpressionStatement
  <2>1. Says(Other("Operation", <<"at", Here>>), {}, {}, FALSE)
    BY ConstructorsSay
  <2>2. Read("op", "none", "") /\ Write(Other("Operation", <<"at", Here>>), FALSE)
    BY <1>5 DEF ExpressionStatement
  <2>3. Plain("op", "", FALSE, {}, {}, FALSE)
    BY DEF Plain
  <2> QED
    BY <1>4, <2>1, <2>2, <2>3
<1>6. CASE ComparisonAsValue
  <2>1. Says(EmitCompare(Here, Code) \o Other("UseOfComparison", <<"at", Here>>), {}, {}, TRUE)
    BY ValueSays
  <2>2. Read("value", "none", "") /\ Write(EmitCompare(Here, Code) \o Other("UseOfComparison", <<"at", Here>>), FALSE)
    BY <1>6 DEF ComparisonAsValue
  <2>3. Plain("value", "", FALSE, {}, {}, TRUE)
    BY DEF Plain
  <2> QED
    BY <1>4, <2>1, <2>2, <2>3
<1>7. CASE ParseReturn
  <2>1. Says(Other("Return", <<"at", Here>>), {}, {}, FALSE)
    BY ConstructorsSay
  <2>2. Read("return", "none", "") /\ Write(Other("Return", <<"at", Here>>), FALSE)
    BY <1>7 DEF ParseReturn
  <2>3. Plain("return", "", FALSE, {}, {}, FALSE)
    BY DEF Plain
  <2> QED
    BY <1>4, <2>1, <2>2, <2>3
<1>8. CASE \E l \in UserLabels : ParseLabelNode(l)
  <2>1. PICK l \in UserLabels : Read("label", "none", l) /\ Write(EmitLabel(Written(l)), FALSE)
    BY <1>8 DEF ParseLabelNode
  <2>2. Says(EmitLabel(Written(l)), {Written(l)}, {}, FALSE)
    BY ConstructorsSay
  <2>3. Plain("label", l, FALSE, {Written(l)}, {}, FALSE)
    BY DEF Plain
  <2> QED
    BY <1>4, <2>1, <2>2, <2>3
<1>9. CASE \E l \in UserLabels : ParseGotoNode(l)
  <2>1. PICK l \in UserLabels : Read("goto", "none", l) /\ Write(EmitJump(Written(l)), FALSE)
    BY <1>9 DEF ParseGotoNode
  <2>2. Says(EmitJump(Written(l)), {}, {Written(l)}, FALSE)
    BY ConstructorsSay
  <2>3. Plain("goto", l, FALSE, {}, {Written(l)}, FALSE)
    BY DEF Plain
  <2> QED
    BY <1>4, <2>1, <2>2, <2>3
<1>10. ASSUME NEW kind \in {"break", "continue"}, Read(kind, "none", ""), NEW l,
              jumpStack # <<>> => l \in {Last(jumpStack).breakLabel, Last(jumpStack).continueLabel},
              IF jumpStack = <<>> THEN Write(<<>>, TRUE) ELSE Write(EmitJump(l), FALSE)
       PROVE  DInv'
  <2>1. IsStack(frames, jumpStack)
    BY <1>10 DEF DInv, Diagnosis, Read
  <2>2. jumpStack = <<>> <=> \A i \in DOMAIN frames : frames[i].kind \notin Loops
    BY <2>1, StackIsEmpty
  <2>3. CASE jumpStack = <<>>
    <3>1. Write(<<>>, TRUE) /\ Says(<<>>, {}, {}, FALSE)
      BY <1>10, <2>3, NothingSays
    <3>2. Plain(kind, "", TRUE, {}, {}, FALSE)
      BY <1>10, <2>2, <2>3 DEF Plain
    <3> QED
      BY <1>4, <1>10, <3>1, <3>2
  <2>4. CASE jumpStack # <<>>
    <3>1. Write(EmitJump(l), FALSE) /\ Says(EmitJump(l), {}, {l}, FALSE)
      BY <1>10, <2>4, ConstructorsSay
    <3>2. PICK i \in DOMAIN frames : /\ frames[i].kind \in Loops
                                     /\ Last(jumpStack).breakLabel = frames[i].end
                                     /\ Last(jumpStack).continueLabel = frames[i].cont
      BY <2>1, <2>4, StackLast
    <3>3. l \in Pending(frames[i])
      BY <1>10, <2>4, <3>2 DEF Pending, Loops
    <3>4. Plain(kind, "", FALSE, {}, {l}, FALSE)
      BY <1>10, <3>2, <3>3 DEF Plain
    <3> QED
      BY <1>4, <1>10, <3>1, <3>4
  <2> QED
    BY <2>3, <2>4
<1>11. CASE ParseBreakNode
  BY <1>10, <1>11 DEF ParseBreakNode
<1>12. CASE ParseContinueNode
  BY <1>10, <1>12 DEF ParseContinueNode
<1>13. CASE \E kind \in {"if", "while", "for"} : IllCondition(kind)
  <2> PICK kind \in {"if", "while", "for"} : IllCondition(kind)
    BY <1>13
  <2> DEFINE nodes == IF kind = "for" THEN Other("Operation", <<"init", Here>>) ELSE <<>>
             t == Token("ill", "none", "")
  <2>1. /\ phase = "statements" /\ program' = Append(program, t) /\ UNCHANGED translation
        /\ built' = built \o nodes /\ UNCHANGED <<frames, jumpStack>>
        /\ nextLabelIndex' = nextLabelIndex + IF kind = "if" THEN 0 ELSE 3
    BY DEF IllCondition, Read
  <2>2. diagnosed' = TRUE
    BY DEF IllCondition
  <2>3. t.kind = "ill" /\ t.cond = "none" /\ t.label = ""
    BY DEF Token
  <2>4. Says(nodes, {}, {}, FALSE)
    <3>1. CASE kind = "for"
      BY <3>1, ConstructorsSay
    <3>2. CASE kind # "for"
      BY <3>2, NothingSays
    <3> QED
      BY <3>1, <3>2
  <2> HIDE DEF nodes, t
  <2>5. nextLabelIndex' \in Nat /\ nextLabelIndex <= nextLabelIndex'
    BY <1>2, <2>1
  <2>6. ASSUME NEW d, NEW e, e PROVE Simple(frames, t, {}, {}, FALSE, d, e)
    BY <1>3, <2>3, <2>6 DEF Simple
  <2>7. Simple(frames, t, {}, {}, FALSE, diagnosed, diagnosed')
    BY <2>2, <2>6
  <2> QED
    BY <1>1, <2>1, <2>4, <2>5, <2>7, SimpleStep
<1> QED
  BY <1>5, <1>6, <1>7, <1>8, <1>9, <1>11, <1>12, <1>13

\* The labels a statement makes are new and not the same.
LEMMA LabelsMade ==
  ASSUME NEW next \in Nat, NEW n \in Nat, next <= n
  PROVE  \A h \in Hints, k \in next..(n - 1) : MakeLabelName(h, k) \in Made(n) \ Made(next)
<1> SUFFICES ASSUME NEW h \in Hints, NEW k \in next..(n - 1)
             PROVE  MakeLabelName(h, k) \in Made(n) \ Made(next)
  OBVIOUS
<1>1. k \in 0..(n - 1) /\ k \notin 0..(next - 1)
  OBVIOUS
<1>2. \A m \in Nat : MakeLabelName(h, k) \in Made(m) <=> k \in 0..(m - 1)
  BY MadeLabels
<1> QED
  BY <1>1, <1>2

LEMMA LabelsDiffer ==
  ASSUME NEW g, NEW h, NEW i, NEW j, i # j
  PROVE  MakeLabelName(g, i) # MakeLabelName(h, j)
BY DEF MakeLabelName

LEMMA OpenStep ==
  ASSUME DInv, IInv', phase = "statements", UNCHANGED translation, UNCHANGED diagnosed,
         NEW t, program' = Append(program, t),
         NEW frame, frames' = Append(frames, frame),
         jumpStack' = IF frame.kind \in Loops
                      THEN Append(jumpStack, [breakLabel |-> frame.end, continueLabel |-> frame.cont])
                      ELSE jumpStack,
         NEW nodes, NEW l, NEW more, Says(nodes, {l}, more, FALSE), more \subseteq {l}, built' = built \o nodes,
         Opening(program, t, frame, nextLabelIndex, nextLabelIndex', l),
         nextLabelIndex' \in Nat, nextLabelIndex <= nextLabelIndex'
  PROVE  DInv'
<1> DEFINE b == built
           c == built \o nodes
           next == nextLabelIndex
           n == nextLabelIndex'
           u == jumpStack'
<1>1. /\ IsSequence(program) /\ IsSequence(frames) /\ next \in Nat
      /\ Diagnosis(program, frames, jumpStack, b, next, diagnosed)
      /\ IsNodes(b) /\ Paired(b)
  BY DEF DInv, IInv, IsFrames, Diagnosis
<1>2. Joins(b, c, {l}, more, FALSE)
  BY <1>1, ConcatJoins
<1>3. Opening(program, t, frame, next, n, l) /\ n \in Nat /\ next <= n /\ more \subseteq {l}
  OBVIOUS
<1>4. u = IF frame.kind \in Loops
          THEN Append(jumpStack, [breakLabel |-> frame.end, continueLabel |-> frame.cont])
          ELSE jumpStack
  OBVIOUS
<1> HIDE DEF b, c, next, n, u
<1>5. Diagnosis(Append(program, t), Append(frames, frame), u, c, n, diagnosed)
  BY ONLY <1>1, <1>2, <1>3, <1>4, OpenDiagnosis
<1>6. Diagnosis(program', frames', jumpStack', built', nextLabelIndex', diagnosed')
  BY <1>5 DEF c, n, u
<1> QED
  BY <1>6, StillReading

LEMMA OpenIfDiagnosed ==
  ASSUME DInv, NEW hasElse \in BOOLEAN, OpenIf(hasElse)
  PROVE  DInv'
<1> DEFINE first == nextLabelIndex
           n == IF hasElse THEN first + 3 ELSE first + 2
           then == MakeLabelName("if.then", first)
           end == MakeLabelName("if.end", first + 1)
           else == IF hasElse THEN MakeLabelName("if.else", first + 2) ELSE end
           frame == Frame("if", then, else, end)
           t == Token("if", "test", "")
           branch == EmitConditionalBranch(t, Here, then, else)
           nodes == branch \o EmitLabel(then)
           gotos == {}
<1>1. IInv'
  BY OpenKeeps DEF DInv
<1>2. /\ phase = "statements" /\ program' = Append(program, t) /\ UNCHANGED translation /\ UNCHANGED diagnosed
      /\ frames' = Append(frames, frame) /\ built' = built \o nodes
      /\ nextLabelIndex' = first + IF hasElse THEN 3 ELSE 2
      /\ jumpStack' = IF frame.kind \in Loops
                      THEN Append(jumpStack, [breakLabel |-> frame.end, continueLabel |-> frame.cont])
                      ELSE jumpStack
  BY DEF OpenIf, Enter, EmitEntry, Read
<1>3. /\ t.kind = "if" /\ t.cond = "test"
      /\ frame.kind = "if" /\ frame.at = Here /\ frame.cont = else /\ frame.end = end
  BY DEF Token, Frame
<1>4. first \in Nat
  BY DEF DInv
<1>5. Says(nodes, {then}, gotos, FALSE)
  <2>1. Says(branch, {}, {}, FALSE)
    BY <1>3, ConditionSays
  <2>2. Says(EmitLabel(then), {then}, {}, FALSE)
    BY ConstructorsSay
  <2> HIDE DEF branch, then
  <2>3. Says(branch \o EmitLabel(then), {} \cup {then}, {} \cup {}, FALSE \/ FALSE)
    BY <2>1, <2>2, ConcatSays
  <2> QED
    BY <2>3 DEF Says
<1>6. /\ n \in Nat /\ first <= n /\ nextLabelIndex' = n
      /\ first \in first..(n - 1) /\ first + 1 \in first..(n - 1)
      /\ hasElse => first + 2 \in first..(n - 1)
      /\ first # first + 1 /\ first # first + 2
  <2>1. CASE hasElse
    <3>1. n = first + 3 /\ nextLabelIndex' = first + 3
      BY <1>2, <2>1
    <3> HIDE DEF n, first
    <3> QED
      BY <1>4, <2>1, <3>1
  <2>2. CASE ~hasElse
    <3>1. n = first + 2 /\ nextLabelIndex' = first + 2
      BY <1>2, <2>2
    <3> HIDE DEF n, first
    <3> QED
      BY <1>4, <2>2, <3>1
  <2> QED
    BY <2>1, <2>2
<1>7. then \in Made(n) \ Made(first) /\ end \in Made(n) \ Made(first) /\ else \in Made(n) \ Made(first)
  <2>1. {"if.then", "if.else", "if.end"} \subseteq Hints
    BY DEF Hints
  <2> HIDE DEF n, first
  <2>2. \A h \in Hints, k \in first..(n - 1) : MakeLabelName(h, k) \in Made(n) \ Made(first)
    BY <1>4, <1>6, LabelsMade
  <2> QED
    BY <1>6, <2>1, <2>2
<1>8. then # end /\ then # else /\ gotos \subseteq {then}
  BY <1>6, LabelsDiffer
<1> HIDE DEF n, first, then, end, else, frame, t, branch, nodes, gotos
<1>9. Opening(program, t, frame, first, n, then)
  <2>1. Pending(frame) = {else, end}
    BY <1>3 DEF Pending
  <2> QED
    BY <1>3, <1>7, <1>8, <2>1 DEF Opening, Openers, Loops, Here
<1>10. Opening(program, t, frame, nextLabelIndex, nextLabelIndex', then) /\ nextLabelIndex' \in Nat
       /\ nextLabelIndex <= nextLabelIndex'
  BY <1>6, <1>9 DEF first
<1> QED
  BY <1>1, <1>2, <1>5, <1>8, <1>10, OpenStep

LEMMA OpenLoopDiagnosed ==
  ASSUME DInv, NEW kind \in Loops, NEW cond \in {"test", "none", "ill"}, OpenLoop(kind, cond)
  PROVE  DInv'
<1> DEFINE first == nextLabelIndex
           n == first + 3
           body == MakeLabelName(kind \o ".body", first)
           cont == MakeLabelName(kind \o ".cont", first + 1)
           end == MakeLabelName(kind \o ".end", first + 2)
           frame == LoopFrame(kind)
           t == Token(kind, cond, "")
           init == IF kind = "for" THEN Other("Operation", <<"init", Here>>) ELSE <<>>
           branch == IF kind = "do" THEN <<>> ELSE EmitConditionalBranch(t, Here, frame.body, frame.end)
           more == IF kind # "do" /\ cond = "none" THEN {body} ELSE {}
           nodes == init \o branch \o EmitLabel(frame.body)
<1>1. IInv'
  BY OpenKeeps DEF DInv
<1>2. /\ phase = "statements" /\ program' = Append(program, t) /\ UNCHANGED translation /\ UNCHANGED diagnosed
      /\ frames' = Append(frames, frame) /\ built' = built \o nodes
      /\ nextLabelIndex' = n
      /\ jumpStack' = IF frame.kind \in Loops
                      THEN Append(jumpStack, [breakLabel |-> frame.end, continueLabel |-> frame.cont])
                      ELSE jumpStack
  BY DEF OpenLoop, Enter, EmitEntry, Read
<1>3. /\ t.kind = kind /\ t.cond = cond
      /\ frame.kind = kind /\ frame.at = Here
      /\ frame.body = body /\ frame.cont = cont /\ frame.end = end
  BY DEF Token, LoopFrame, Frame
<1>4. first \in Nat
  BY DEF DInv
<1>5. Says(nodes, {body}, more, FALSE)
  <2>1. Says(init, {}, {}, FALSE)
    <3>1. CASE kind = "for"
      BY <3>1, ConstructorsSay
    <3>2. CASE kind # "for"
      BY <3>2, NothingSays
    <3> QED
      BY <3>1, <3>2
  <2>2. Says(branch, {}, more, FALSE)
    <3>1. CASE kind = "do"
      BY <3>1, NothingSays
    <3>2. CASE kind # "do"
      <4> DEFINE entry == EmitConditionalBranch(t, Here, frame.body, frame.end)
      <4>1. branch = entry /\ more = IF t.cond = "none" THEN {frame.body} ELSE {}
        BY <1>3, <3>2
      <4>2. Says(entry, {}, IF t.cond = "none" THEN {frame.body} ELSE {}, FALSE)
        BY ConditionSays
      <4> HIDE DEF branch, more, t, frame, entry
      <4> QED
        BY <4>1, <4>2
    <3> QED
      BY <3>1, <3>2
  <2>3. Says(EmitLabel(body), {body}, {}, FALSE)
    BY ConstructorsSay
  <2>4. nodes = init \o branch \o EmitLabel(body)
    BY <1>3
  <2> HIDE DEF init, branch, body, more, nodes
  <2>5. Says(init \o branch, {} \cup {}, {} \cup more, FALSE \/ FALSE)
    BY <2>1, <2>2, ConcatSays
  <2> DEFINE front == init \o branch
  <2>6. Says(front, {}, more, FALSE)
    BY <2>5 DEF Says
  <2> HIDE DEF front
  <2>7. Says(front \o EmitLabel(body), {} \cup {body}, more \cup {}, FALSE \/ FALSE)
    BY <2>3, <2>6, ConcatSays
  <2> QED
    BY <2>4, <2>7 DEF Says, front
<1>6. /\ n \in Nat /\ first <= n
      /\ first \in first..(n - 1) /\ first + 1 \in first..(n - 1) /\ first + 2 \in first..(n - 1)
      /\ first # first + 1 /\ first # first + 2 /\ first + 1 # first + 2
  BY <1>4
<1>7. body \in Made(n) \ Made(first) /\ cont \in Made(n) \ Made(first) /\ end \in Made(n) \ Made(first)
  <2>1. kind \o ".body" \in Hints /\ kind \o ".cont" \in Hints /\ kind \o ".end" \in Hints
    <3> DEFINE parts == {".body", ".cont", ".end"}
               made == {k \o part : k \in Loops, part \in parts}
    <3>1. Hints = {"if.then", "if.else", "if.end"} \cup made /\ ".body" \in parts /\ ".cont" \in parts /\ ".end" \in parts
      BY DEF Hints
    <3> HIDE DEF parts
    <3>2. kind \o ".body" \in made /\ kind \o ".cont" \in made /\ kind \o ".end" \in made
      BY <3>1
    <3> HIDE DEF made
    <3> QED
      BY <3>1, <3>2
  <2> HIDE DEF n, first
  <2>2. \A h \in Hints, k \in first..(n - 1) : MakeLabelName(h, k) \in Made(n) \ Made(first)
    BY <1>4, <1>6, LabelsMade
  <2> QED
    BY <1>6, <2>1, <2>2
<1>8. body # cont /\ body # end /\ cont # end
  BY <1>6, LabelsDiffer
<1>9. more \subseteq {body}
  OBVIOUS
<1> HIDE DEF n, first, body, cont, end, frame, t, init, branch, more, nodes
<1>10. Opening(program, t, frame, first, n, body)
  <2>1. Pending(frame) = {cont, end}
    <3>1. kind # "else"
      BY DEF Loops
    <3> QED
      BY <1>3, <3>1 DEF Pending
  <2> QED
    BY <1>3, <1>7, <1>8, <2>1 DEF Opening, Openers, Here
<1>11. Opening(program, t, frame, nextLabelIndex, nextLabelIndex', body) /\ nextLabelIndex' \in Nat
       /\ nextLabelIndex <= nextLabelIndex'
  BY <1>2, <1>6, <1>10 DEF first
<1> QED
  BY <1>1, <1>2, <1>5, <1>9, <1>11, OpenStep

LEMMA PlaceStep ==
  ASSUME DInv, IInv', phase = "statements", UNCHANGED translation, UNCHANGED nextLabelIndex,
         NEW t, program' = Append(program, t),
         NEW k, NEW new, NEW more, Joins(built, built', new, more, FALSE),
         Placing(frames, frames', built, k, t, new, more, diagnosed, diagnosed'),
         Nest(Append(program, t), frames'), IsStack(frames', jumpStack'),
         Blamed(Append(program, t), frames', diagnosed')
  PROVE  DInv'
<1> DEFINE c == built'
           g == frames'
           u == jumpStack'
           e == diagnosed'
<1>1. /\ IsSequence(program) /\ nextLabelIndex \in Nat
      /\ Diagnosis(program, frames, jumpStack, built, nextLabelIndex, diagnosed)
  BY DEF DInv
<1>2. /\ Joins(built, c, new, more, FALSE) /\ Placing(frames, g, built, k, t, new, more, diagnosed, e)
      /\ Nest(Append(program, t), g) /\ IsStack(g, u) /\ Blamed(Append(program, t), g, e)
  OBVIOUS
<1> HIDE DEF c, g, u, e
<1>3. Diagnosis(Append(program, t), g, u, c, nextLabelIndex, e)
  BY ONLY <1>1, <1>2, PlaceDiagnosis
<1>4. Diagnosis(program', frames', jumpStack', built', nextLabelIndex', diagnosed') /\ nextLabelIndex' \in Nat
  BY <1>1, <1>3 DEF c, g, u, e
<1> QED
  BY <1>4, StillReading

LEMMA ElseDiagnosed ==
  ASSUME DInv, Else
  PROVE  DInv'
<1> DEFINE frame == Last(frames)
           m == Len(frames)
           t == Token("else", "none", "")
           f == frames
           g == frames'
           jump == EmitJump(frame.end)
           label == EmitLabel(frame.cont)
<1>1. IInv'
  BY ElseKeeps DEF DInv
<1>2. /\ frames # <<>> /\ frame.kind = "if" /\ frame.cont # frame.end
      /\ phase = "statements" /\ program' = Append(program, t) /\ UNCHANGED translation
      /\ frames' = [frames EXCEPT ![m].kind = "else"]
      /\ built' = built \o jump \o label
      /\ UNCHANGED jumpStack /\ UNCHANGED nextLabelIndex /\ UNCHANGED diagnosed
  BY DEF Else, Read
<1>3. /\ IsSequence(program) /\ IsFrames(f)
      /\ Nest(program, f) /\ IsStack(f, jumpStack) /\ Blamed(program, f, diagnosed)
      /\ IsNodes(built) /\ Paired(built)
  BY <1>2 DEF DInv, IInv, Diagnosis
<1>4. IsSequence(f) /\ m \in Nat \ {0} /\ DOMAIN f = 1..m /\ m \in DOMAIN f /\ frame = f[m] /\ IsFrame(frame)
  <2>1. IsSequence(f) /\ m \in Nat \ {0} /\ DOMAIN f = 1..m /\ frame = f[m]
    BY <1>2, <1>3, FrontFacts DEF IsFrames
  <2> QED
    BY <1>3, <2>1 DEF IsFrames
<1>5. /\ DOMAIN g = 1..m /\ Len(g) = m
      /\ \A i \in 1..m : i # m => g[i] = f[i]
      /\ g[m].kind = "else" /\ g[m].at = f[m].at /\ g[m].cont = f[m].cont /\ g[m].end = f[m].end
  <2>1. /\ DOMAIN g = 1..m
        /\ \A i \in 1..m : i # m => g[i] = f[i]
        /\ g[m] = [frame EXCEPT !.kind = "else"]
    BY <1>2, <1>4
  <2>2. g[m].kind = "else" /\ g[m].at = frame.at /\ g[m].cont = frame.cont /\ g[m].end = frame.end
    BY <1>4, <2>1 DEF IsFrame
  <2>3. IsSequence(g)
    BY <1>1 DEF IInv, IsFrames
  <2>4. Len(g) \in Nat /\ DOMAIN g = 1..Len(g)
    BY <2>3, SequenceFacts
  <2> HIDE DEF g, m
  <2>5. Len(g) = m
    BY <1>4, <2>1, <2>4
  <2> QED
    BY <1>4, <2>1, <2>2, <2>5
<1>6. Joins(built, built', {frame.cont}, {frame.end}, FALSE)
  <2>1. Says(jump, {}, {frame.end}, FALSE) /\ Says(label, {frame.cont}, {}, FALSE)
    BY ConstructorsSay
  <2> DEFINE b == built \o jump
             c == b \o label
  <2> HIDE DEF jump, label, frame
  <2>2. Joins(built, b, {}, {frame.end}, FALSE)
    BY <1>3, <2>1, ConcatJoins
  <2> HIDE DEF b
  <2>3. Joins(b, c, {frame.cont}, {}, FALSE)
    BY <2>1, <2>2, ConcatJoins DEF Joins
  <2> HIDE DEF c
  <2>4. Joins(built, c, {} \cup {frame.cont}, {frame.end} \cup {}, FALSE)
    BY <2>2, <2>3, JoinsTwice
  <2>5. built' = c
    BY <1>2 DEF b, c
  <2>6. {} \cup {frame.cont} = {frame.cont} /\ {frame.end} \cup {} = {frame.end}
    OBVIOUS
  <2> QED
    BY <2>4, <2>5, <2>6
<1>7. t.kind = "else" /\ t.cond = "none"
  BY DEF Token
<1>8. t.kind \notin Openers
  BY <1>7 DEF Openers, Loops
<1>9. Pending(f[m]) = {frame.cont, frame.end} /\ Pending(g[m]) = {frame.end} /\ f[m].kind = "if"
  BY <1>2, <1>4, <1>5 DEF Pending
<1>10. "if" \notin Loops /\ "else" \notin Loops
  BY DEF Loops
<1> HIDE DEF t, f, g, frame, m, jump, label
<1>11. /\ DOMAIN g = DOMAIN f /\ Len(g) = Len(f)
       /\ \A i \in DOMAIN f : g[i].at = f[i].at /\ (g[i].kind \in Loops <=> f[i].kind \in Loops)
       /\ \A i \in DOMAIN f : f[i].kind \in Loops \/ g[i].kind \in Loops => g[i] = f[i]
  <2>1. m = Len(f)
    BY DEF m, f
  <2>2. ASSUME NEW i \in DOMAIN f
        PROVE  /\ g[i].at = f[i].at /\ (g[i].kind \in Loops <=> f[i].kind \in Loops)
               /\ f[i].kind \in Loops \/ g[i].kind \in Loops => g[i] = f[i]
    <3>1. CASE i = m
      BY <1>5, <1>9, <1>10, <3>1
    <3>2. CASE i # m
      BY <1>4, <1>5, <2>2, <3>2
    <3> QED
      BY <3>1, <3>2
  <2> QED
    BY <1>4, <1>5, <2>1, <2>2
<1>12. Nest(Append(program, t), g)
  BY <1>3, <1>7, <1>8, <1>11, NestGoesOn
<1>13. IsStack(g, jumpStack)
  BY <1>3, <1>11, StackStays
<1>14. Blamed(Append(program, t), g, diagnosed)
  BY <1>3, <1>7, <1>11, BlamedGoesOn
<1>15. Placing(f, g, built, m, t, {frame.cont}, {frame.end}, diagnosed, diagnosed)
  <2>1. \A i \in DOMAIN g : /\ Pending(g[i]) \subseteq Pending(f[i])
                            /\ g[i].kind \in Loops => g[i] = f[i]
    BY <1>4, <1>5, <1>9, <1>11
  <2>2. {frame.cont} \subseteq Pending(f[m]) /\ \A i \in DOMAIN g : i = m => Pending(g[i]) \cap {frame.cont} = {}
    BY <1>2, <1>9
  <2>3. \A i \in DOMAIN f : \A x \in Pending(f[i]) :
           diagnosed \/ x \in {frame.cont} \/ \E j \in DOMAIN g : x \in Pending(g[j])
    <3> SUFFICES ASSUME NEW i \in DOMAIN f, NEW x \in Pending(f[i])
                 PROVE  x \in {frame.cont} \/ \E j \in DOMAIN g : x \in Pending(g[j])
      OBVIOUS
    <3>1. i \in DOMAIN g /\ m \in DOMAIN g
      BY <1>4, <1>11
    <3>2. CASE i = m
      BY <1>9, <3>1, <3>2
    <3>3. CASE i # m
      BY <1>4, <1>5, <3>1, <3>3
    <3> QED
      BY <3>2, <3>3
  <2>4. \A x \in {frame.end} : diagnosed \/ x \in LabelsIn(built) \cup {frame.cont}
                               \/ \E j \in DOMAIN g : x \in Pending(g[j])
    BY <1>4, <1>9, <1>11
  <2> QED
    BY <1>4, <1>7, <1>11, <2>1, <2>2, <2>3, <2>4 DEF Placing
<1>16. /\ Nest(Append(program, t), frames') /\ IsStack(frames', jumpStack') /\ Blamed(Append(program, t), frames', diagnosed')
       /\ Placing(frames, frames', built, m, t, {frame.cont}, {frame.end}, diagnosed, diagnosed')
  BY <1>2, <1>12, <1>13, <1>14, <1>15 DEF f, g
<1> QED
  BY <1>1, <1>2, <1>6, <1>16, PlaceStep

\* What the end of a statement says: its last labels, and a jump that leads to one of its labels.
EndLabels(frame) ==
    IF frame.kind \in Loops
    THEN {frame.cont} \cup IF program[frame.at].cond = "ill" THEN {} ELSE {frame.end}
    ELSE {frame.end}

LEMMA CloseSays ==
  ASSUME NEW frame, frame.kind \in FrameKinds, frame.kind \in Loops => frame.cont # frame.end
  PROVE  \E more : /\ Says(CloseNodes(frame), EndLabels(frame), more, FALSE)
                   /\ more \subseteq {frame.end} \cup IF frame.kind \in Loops THEN {frame.body} ELSE {}
                   /\ frame.kind \in Loops => more \subseteq {frame.body}
<1> DEFINE step == IF frame.kind = "for" THEN Other("Operation", <<"step", frame.at>>) ELSE <<>>
           branch == EmitConditionalBranch(program[frame.at], frame.at, frame.body, frame.end)
           last == branch \o EmitLabel(frame.end)
           end == IF program[frame.at].cond = "ill" THEN <<>> ELSE last
           jumps == IF program[frame.at].cond = "none" THEN {frame.body} ELSE {}
           more == IF program[frame.at].cond = "ill" THEN {} ELSE jumps
           labels == IF program[frame.at].cond = "ill" THEN {} ELSE {frame.end}
<1>1. CASE frame.kind = "if"
  <2>1. CloseNodes(frame) = EmitJump(frame.end) \o EmitLabel(frame.end) /\ EndLabels(frame) = {frame.end}
    BY <1>1 DEF CloseNodes, EndLabels, Loops
  <2>2. Says(EmitJump(frame.end), {}, {frame.end}, FALSE) /\ Says(EmitLabel(frame.end), {frame.end}, {}, FALSE)
    BY ConstructorsSay
  <2>3. Says(EmitJump(frame.end) \o EmitLabel(frame.end), {} \cup {frame.end}, {frame.end} \cup {}, FALSE \/ FALSE)
    BY <2>2, ConcatSays
  <2>4. Says(CloseNodes(frame), EndLabels(frame), {frame.end}, FALSE)
    BY <2>1, <2>3 DEF Says
  <2>5. frame.kind \notin Loops
    BY <1>1 DEF Loops
  <2> QED
    BY <2>4, <2>5
<1>2. CASE frame.kind = "else"
  <2>1. CloseNodes(frame) = EmitLabel(frame.end) /\ EndLabels(frame) = {frame.end} /\ frame.kind \notin Loops
    BY <1>2 DEF CloseNodes, EndLabels, Loops
  <2>2. Says(CloseNodes(frame), EndLabels(frame), {}, FALSE)
    BY <2>1, ConstructorsSay
  <2> QED
    BY <2>1, <2>2
<1>3. CASE frame.kind \in Loops
  <2>1. /\ CloseNodes(frame) = step \o EmitLabel(frame.cont) \o end
        /\ EndLabels(frame) = {frame.cont} \cup labels
    BY <1>3 DEF CloseNodes, EndLabels, Loops
  <2>2. Says(step, {}, {}, FALSE)
    <3>1. CASE frame.kind = "for"
      BY <3>1, ConstructorsSay
    <3>2. CASE frame.kind # "for"
      BY <3>2, NothingSays
    <3> QED
      BY <3>1, <3>2
  <2>3. Says(end, labels, more, FALSE)
    <3>1. CASE program[frame.at].cond = "ill"
      BY <3>1, NothingSays
    <3>2. CASE program[frame.at].cond # "ill"
      <4>1. Says(branch, {}, jumps, FALSE)
        BY ConditionSays
      <4>2. Says(EmitLabel(frame.end), {frame.end}, {}, FALSE)
        BY ConstructorsSay
      <4>3. end = last /\ labels = {frame.end} /\ more = jumps
        BY <3>2
      <4> HIDE DEF branch, jumps, end, labels, more
      <4>4. Says(last, {} \cup {frame.end}, jumps \cup {}, FALSE \/ FALSE)
        BY <4>1, <4>2, ConcatSays
      <4> HIDE DEF last
      <4> QED
        BY <4>3, <4>4 DEF Says
    <3> QED
      BY <3>1, <3>2
  <2>4. Says(EmitLabel(frame.cont), {frame.cont}, {}, FALSE)
    BY ConstructorsSay
  <2>5. {frame.cont} \cap labels = {} /\ more \subseteq {frame.body}
    BY <1>3
  <2> DEFINE front == step \o EmitLabel(frame.cont)
             nodes == front \o end
  <2> HIDE DEF step, end, labels, more
  <2>6. Says(front, {} \cup {frame.cont}, {} \cup {}, FALSE \/ FALSE)
    BY <2>2, <2>4, ConcatSays
  <2>7. Says(front, {frame.cont}, {}, FALSE)
    BY <2>6 DEF Says
  <2>8. CloseNodes(frame) = nodes
    BY <2>1
  <2> HIDE DEF front
  <2>9. Says(nodes, {frame.cont} \cup labels, {} \cup more, FALSE \/ FALSE)
    BY <2>3, <2>5, <2>7, ConcatSays
  <2> HIDE DEF nodes
  <2>10. Says(CloseNodes(frame), EndLabels(frame), more, FALSE)
    BY <2>1, <2>8, <2>9 DEF Says
  <2> QED
    BY <1>3, <2>5, <2>10
<1> QED
  BY <1>1, <1>2, <1>3 DEF FrameKinds

LEMMA CloseDiagnosed ==
  ASSUME DInv, Close
  PROVE  DInv'
<1> DEFINE frame == Last(frames)
           m == Len(frames)
           t == Token("close", "none", "")
           f == frames
           g == Front(frames)
           e == diagnosed'
           u == IF frame.kind \in Loops THEN Front(jumpStack) ELSE jumpStack
           new == EndLabels(frame)
<1>1. IInv'
  BY CloseKeeps DEF DInv
<1>2. /\ f # <<>> /\ phase = "statements"
      /\ frame.kind = "if" => frame.cont = frame.end
      /\ program' = Append(program, t) /\ UNCHANGED translation /\ UNCHANGED nextLabelIndex
      /\ frames' = g /\ jumpStack' = u
      /\ built' = built \o CloseNodes(frame)
  BY DEF Close
<1>3. e <=> diagnosed \/ program[frame.at].cond = "ill"
  BY DEF Close
<1>4. /\ IsSequence(program) /\ IsFrames(f) /\ IsSequence(f)
      /\ Nest(program, f) /\ IsStack(f, jumpStack) /\ Blamed(program, f, diagnosed)
      /\ Fresh(f, built, nextLabelIndex) /\ IsNodes(built) /\ Paired(built)
  BY <1>2 DEF DInv, IInv, Diagnosis, IsFrames
<1>5. /\ m \in Nat \ {0} /\ DOMAIN f = 1..m /\ m \in DOMAIN f /\ frame = f[m] /\ frame.kind \in FrameKinds
      /\ DOMAIN g = 1..(m - 1) /\ \A i \in 1..(m - 1) : g[i] = f[i]
  <2>1. m \in Nat \ {0} /\ DOMAIN f = 1..m /\ frame = f[m]
    BY <1>2, <1>4, FrontFacts
  <2>2. DOMAIN g = 1..(m - 1) /\ \A i \in 1..(m - 1) : g[i] = f[i]
    BY <1>2, <1>4, FrontFacts
  <2> QED
    BY <1>4, <2>1, <2>2 DEF IsFrames, IsFrame
<1>6. t.kind = "close" /\ t.cond = "none"
  BY DEF Token
<1>7. frame.kind \in Loops => frame.cont # frame.end /\ frame.body \in LabelsIn(built)
  BY <1>4, <1>5 DEF Fresh
<1>8. PICK more : /\ Says(CloseNodes(frame), new, more, FALSE)
                  /\ more \subseteq {frame.end} \cup IF frame.kind \in Loops THEN {frame.body} ELSE {}
                  /\ frame.kind \in Loops => more \subseteq {frame.body}
  BY <1>5, <1>7, CloseSays
<1> HIDE DEF frame, m, t, f, g, e, u
<1>9. Joins(built, built', new, more, FALSE)
  <2> DEFINE nodes == CloseNodes(frame)
             c == built \o nodes
  <2>1. Says(nodes, new, more, FALSE) /\ built' = c
    BY <1>2, <1>8
  <2> HIDE DEF nodes, new
  <2>2. Joins(built, c, new, more, FALSE)
    BY <1>4, <2>1, ConcatJoins
  <2> QED
    BY <2>1, <2>2
<1>10. Nest(Append(program, t), g)
  BY <1>2, <1>4, <1>6, NestCloses DEF g, f
<1>11. IsStack(g, u)
  BY <1>2, <1>4, StackCloses DEF g, f, u, frame
<1>12. Blamed(Append(program, t), g, e)
  <2>1. frame = Last(f) /\ g = Front(f) /\ t.cond # "ill"
    BY <1>6 DEF frame, f, g
  <2>2. e <=> diagnosed \/ program[Last(f).at].cond = "ill"
    BY <1>3, <2>1
  <2>3. Blamed(Append(program, t), Front(f), e)
    BY <1>2, <1>4, <1>6, <2>1, <2>2, BlamedCloses
  <2> QED
    BY <2>1, <2>3
<1>13. /\ new \subseteq Pending(frame)
       /\ \A x \in Pending(frame) : e \/ x \in new
       /\ \A x \in more : e \/ x \in LabelsIn(built) \cup new
  <2>1. CASE frame.kind = "if"
    <3>1. frame.kind \notin Loops /\ new = {frame.end} /\ Pending(frame) = {frame.cont, frame.end}
      BY <2>1 DEF EndLabels, Loops, Pending
    <3> QED
      BY <1>2, <1>8, <2>1, <3>1
  <2>2. CASE frame.kind = "else"
    <3>1. frame.kind \notin Loops /\ new = {frame.end} /\ Pending(frame) = {frame.end}
      BY <2>2 DEF EndLabels, Loops, Pending
    <3> QED
      BY <1>8, <3>1
  <2>3. CASE frame.kind \in Loops
    <3>1. Pending(frame) = {frame.cont, frame.end}
      BY <2>3 DEF Loops, Pending
    <3>2. CASE program[frame.at].cond = "ill"
      <4>1. new = {frame.cont} /\ e
        BY <1>3, <2>3, <3>2 DEF EndLabels
      <4> QED
        BY <3>1, <4>1
    <3>3. CASE program[frame.at].cond # "ill"
      <4>1. new = {frame.cont, frame.end}
        BY <2>3, <3>3 DEF EndLabels
      <4> QED
        BY <1>7, <1>8, <2>3, <3>1, <4>1
    <3> QED
      BY <3>2, <3>3
  <2> QED
    BY <1>5, <2>1, <2>2, <2>3 DEF FrameKinds
<1> HIDE DEF new
<1>14. Placing(f, g, built, m, t, new, more, diagnosed, e)
  <2>1. DOMAIN g \subseteq DOMAIN f /\ m \notin DOMAIN g /\ \A i \in DOMAIN f : i = m \/ i \in DOMAIN g
    BY <1>5
  <2>2. \A i \in DOMAIN g : g[i] = f[i]
    BY <1>5
  <2>3. \A i \in DOMAIN g : /\ Pending(g[i]) \subseteq Pending(f[i])
                            /\ g[i].kind \in Loops => g[i] = f[i]
    BY <2>2
  <2>4. new \subseteq Pending(f[m]) /\ \A i \in DOMAIN g : i = m => Pending(g[i]) \cap new = {}
    BY <1>5, <1>13, <2>1
  <2>5. \A i \in DOMAIN f : \A x \in Pending(f[i]) : e \/ x \in new \/ \E j \in DOMAIN g : x \in Pending(g[j])
    BY <1>5, <1>13, <2>1, <2>2
  <2>6. \A x \in more : e \/ x \in LabelsIn(built) \cup new \/ \E j \in DOMAIN g : x \in Pending(g[j])
    BY <1>13
  <2>7. diagnosed => e
    BY <1>3
  <2> QED
    BY <1>5, <1>6, <2>1, <2>3, <2>4, <2>5, <2>6, <2>7 DEF Placing
<1>15. /\ Nest(Append(program, t), frames') /\ IsStack(frames', jumpStack')
       /\ Blamed(Append(program, t), frames', diagnosed')
       /\ Placing(frames, frames', built, m, t, new, more, diagnosed, diagnosed')
  BY <1>2, <1>10, <1>11, <1>12, <1>14 DEF f, e
<1> QED
  BY <1>1, <1>2, <1>9, <1>15, PlaceStep

-----------------------------------------------------------------------------
(* A whole program. *)

\* Where every statement has ended, the loops that are open before a token are those around it.
LEMMA LoopsOpen ==
  ASSUME NEW p, IsSequence(p), Nest(p, <<>>), NEW i \in DOMAIN p
  PROVE  LoopsAround(p, i) = {} <=> \A k \in DOMAIN p : OpenAt(p, k, i) => p[k].kind \notin Loops
<1>1. Len(p) \in Nat /\ DOMAIN p = 1..Len(p)
  BY SequenceFacts
<1>2. ASSUME NEW k \in DOMAIN p, p[k].kind \in Openers, k < i
      PROVE  OpenAt(p, k, i) <=> CloseOf(p, k) >= i
  <2>1. PICK n \in (k + 1)..Len(p) : Ends(p, k, n) /\ \A j \in (k + 1)..(n - 1) : ~Ends(p, k, j)
    BY <1>2 DEF Nest, HasEnd
  <2> DEFINE c == CloseOf(p, k)
  <2>2. c \in (k + 1)..Len(p) /\ Ends(p, k, c) /\ \A j \in (k + 1)..(c - 1) : ~Ends(p, k, j)
    <3>1. c = CHOOSE j \in (k + 1)..Len(p) : Ends(p, k, j) /\ \A a \in (k + 1)..(j - 1) : ~Ends(p, k, a)
      <4>1. \A j \in (k + 1)..Len(p) :
               (/\ p[j].kind = "close" /\ Depth(p, j) = Depth(p, k) + 1
                /\ \A a \in (k + 1)..(j - 1) : ~(p[a].kind = "close" /\ Depth(p, a) = Depth(p, k) + 1))
               <=> Ends(p, k, j) /\ \A a \in (k + 1)..(j - 1) : ~Ends(p, k, a)
        BY DEF Ends
      <4> QED
        BY <4>1 DEF CloseOf, Ends
    <3> HIDE DEF c
    <3> QED
      BY <2>1, <3>1
  <2> HIDE DEF c
  <2>3. c >= i => OpenAt(p, k, i)
    BY <1>1, <1>2, <2>2 DEF OpenAt
  <2>4. ASSUME OpenAt(p, k, i), ~(c >= i) PROVE FALSE
    <3>1. c \in (k + 1)..(i - 1)
      BY <1>1, <1>2, <2>2, <2>4
    <3> QED
      BY <2>2, <2>4, <3>1 DEF OpenAt
  <2> QED
    BY <2>3, <2>4 DEF c
<1>3. ASSUME NEW k \in LoopsAround(p, i)
      PROVE  k \in DOMAIN p /\ OpenAt(p, k, i) /\ p[k].kind \in Loops
  <2>1. /\ k \in 1..(i - 1) /\ p[k].kind \in Openers /\ CloseOf(p, k) >= i /\ p[k].kind \in Loops
    BY <1>3 DEF LoopsAround, Around
  <2>2. k \in DOMAIN p /\ k < i
    BY <1>1, <2>1
  <2> QED
    BY <1>2, <2>1, <2>2
<1>4. ASSUME NEW k \in DOMAIN p, OpenAt(p, k, i), p[k].kind \in Loops
      PROVE  k \in LoopsAround(p, i)
  <2>1. k \in 1..(i - 1) /\ k < i /\ p[k].kind \in Openers
    BY <1>1, <1>4 DEF OpenAt
  <2>2. CloseOf(p, k) >= i
    BY <1>2, <1>4, <2>1
  <2> QED
    BY <1>4, <2>1, <2>2 DEF LoopsAround, Around
<1> QED
  BY <1>3, <1>4

\* What has been diagnosed when all statements have ended.
LEMMA BlamedAtEnd ==
  ASSUME NEW p, IsSequence(p), Nest(p, <<>>), NEW d, Blamed(p, <<>>, d)
  PROVE  d <=> \E i \in DOMAIN p : \/ p[i].kind = "ill" \/ p[i].cond = "ill"
                                   \/ p[i].kind \in {"break", "continue"} /\ LoopsAround(p, i) = {}
<1>1. DOMAIN <<>> = {}
  OBVIOUS
<1>2. \A i \in DOMAIN p : Misplaced(p, i) <=> \/ p[i].kind = "ill"
                                              \/ p[i].kind \in {"break", "continue"} /\ LoopsAround(p, i) = {}
  BY LoopsOpen DEF Misplaced
<1>3. d <=> \E i \in DOMAIN p : Misplaced(p, i) \/ p[i].cond = "ill"
  BY <1>1 DEF Blamed
<1> QED
  BY <1>2, <1>3

\* A jump is left without its label when the program has such a goto.
LEMMA GotosAtEnd ==
  ASSUME NEW p, NEW b, SaidOf(p, b), Leads(p, <<>>, b, FALSE)
  PROVE  GotosIn(b) \subseteq LabelsIn(b) <=>
            \A i \in DOMAIN p : p[i].kind = "goto" =>
               \E j \in DOMAIN p : p[j].kind = "label" /\ p[j].label = p[i].label
<1>1. DOMAIN <<>> = {}
  OBVIOUS
<1>2. ASSUME GotosIn(b) \subseteq LabelsIn(b), NEW i \in DOMAIN p, p[i].kind = "goto"
      PROVE  \E j \in DOMAIN p : p[j].kind = "label" /\ p[j].label = p[i].label
  <2> DEFINE l == p[i].label
  <2>1. l \in UserLabels /\ IsGotoOf(p, l)
    BY <1>2 DEF SaidOf, IsGotoOf
  <2> HIDE DEF l
  <2>2. Written(l) \in LabelsIn(b)
    BY <1>2, <2>1 DEF SaidOf
  <2>3. IsLabelOf(p, l)
    BY <2>1, <2>2 DEF SaidOf
  <2> QED
    BY <2>3 DEF IsLabelOf, l
<1>3. ASSUME \A i \in DOMAIN p : p[i].kind = "goto" =>
                \E j \in DOMAIN p : p[j].kind = "label" /\ p[j].label = p[i].label,
             NEW x \in GotosIn(b)
      PROVE  x \in LabelsIn(b)
  <2>1. x \in LabelsIn(b) \/ \E l \in UserLabels : IsGotoOf(p, l) /\ x = Written(l)
    BY <1>1 DEF Leads
  <2>2. ASSUME NEW l \in UserLabels, IsGotoOf(p, l), x = Written(l)
        PROVE  x \in LabelsIn(b)
    <3>1. IsLabelOf(p, l)
      BY <1>3, <2>2 DEF IsGotoOf, IsLabelOf
    <3> QED
      BY <2>2, <3>1 DEF SaidOf
  <2> QED
    BY <2>1, <2>2
<1> QED
  BY <1>2, <1>3

LEMMA CompileDiagnosed ==
  ASSUME DInv, NEW void \in BOOLEAN, NEW optimise, CompileRoutine(void, optimise)
  PROVE  DInv'
<1> DEFINE nodes == built \o ImplicitReturn(void)
           r == Compiled(nodes)
           p == program
<1>1. IInv'
  BY CompileKeeps DEF DInv
<1>2. /\ phase = "statements" /\ frames = <<>> /\ program' = program /\ nextLabelIndex' = nextLabelIndex
      /\ phase' # "statements"
  BY DEF CompileRoutine
<1>3. diagnosed' <=> diagnosed \/ r.diagnosed \/ ~(r.gotoReferences \subseteq r.definedLabels)
  BY DEF CompileRoutine
<1>4. /\ IsSequence(p) /\ nextLabelIndex \in Nat
      /\ Nest(p, <<>>) /\ Blamed(p, <<>>, diagnosed) /\ SaidOf(p, built) /\ Leads(p, <<>>, built, diagnosed)
      /\ IsNodes(built) /\ Paired(built)
  BY <1>2 DEF DInv, IInv, Diagnosis
<1>5. Joins(built, nodes, {}, {}, FALSE)
  <2> DEFINE return == ImplicitReturn(void)
  <2>1. Says(return, {}, {}, FALSE)
    <3>1. CASE void
      BY <3>1, ConstructorsSay DEF ImplicitReturn
    <3>2. CASE ~void
      BY <3>2, NothingSays DEF ImplicitReturn
    <3> QED
      BY <3>1, <3>2
  <2> HIDE DEF return
  <2>2. Joins(built, built \o return, {}, {}, FALSE)
    BY <1>4, <2>1, ConcatJoins
  <2> QED
    BY <2>2 DEF return
<1> HIDE DEF nodes
<1>6. /\ IsNodes(nodes) /\ Paired(nodes) /\ LabelsIn(nodes) = LabelsIn(built) /\ GotosIn(nodes) = GotosIn(built)
      /\ HasUse(nodes) <=> HasUse(built)
      /\ PlacedTwice(nodes) <=> PlacedTwice(built)
  BY <1>5 DEF Joins
<1>7. /\ r.definedLabels = LabelsIn(built) /\ r.gotoReferences = GotosIn(built)
      /\ r.diagnosed <=> HasUse(built) \/ PlacedTwice(built)
  BY <1>6, CompiledSays
<1> HIDE DEF r
<1>8. diagnosed' <=> diagnosed \/ HasUse(built) \/ PlacedTwice(built) \/ ~(GotosIn(built) \subseteq LabelsIn(built))
  BY <1>3, <1>7
<1>9. diagnosed <=> \E i \in DOMAIN p : \/ p[i].kind = "ill" \/ p[i].cond = "ill"
                                        \/ p[i].kind \in {"break", "continue"} /\ LoopsAround(p, i) = {}
  BY <1>4, BlamedAtEnd
<1>10. HasUse(built) <=> \E i \in DOMAIN p : p[i].kind = "value"
  BY <1>4 DEF SaidOf
<1>11. PlacedTwice(built) <=> \E i, j \in DOMAIN p : /\ i # j /\ p[i].kind = "label" /\ p[j].kind = "label"
                                                     /\ p[i].label = p[j].label
  BY <1>4 DEF SaidOf, LabelTwice
<1>12. ~diagnosed => (GotosIn(built) \subseteq LabelsIn(built) <=>
                         \A i \in DOMAIN p : p[i].kind = "goto" =>
                            \E j \in DOMAIN p : p[j].kind = "label" /\ p[j].label = p[i].label)
  <2> SUFFICES ASSUME ~diagnosed
               PROVE  GotosIn(built) \subseteq LabelsIn(built) <=>
                         \A i \in DOMAIN p : p[i].kind = "goto" =>
                            \E j \in DOMAIN p : p[j].kind = "label" /\ p[j].label = p[i].label
    OBVIOUS
  <2>1. Leads(p, <<>>, built, FALSE)
    BY <1>4 DEF Leads
  <2> QED
    BY <1>4, <2>1, GotosAtEnd
<1>13. diagnosed' <=> IllFormed(p)
  <2> DEFINE wrong == \E i \in DOMAIN p : \/ p[i].kind = "ill" \/ p[i].cond = "ill"
                                          \/ p[i].kind \in {"break", "continue"} /\ LoopsAround(p, i) = {}
             value == \E i \in DOMAIN p : p[i].kind = "value"
             lost == \E i \in DOMAIN p : p[i].kind = "goto" /\
                        \A j \in DOMAIN p : p[j].kind = "label" => p[j].label # p[i].label
             twice == \E i, j \in DOMAIN p : /\ i # j /\ p[i].kind = "label" /\ p[j].kind = "label"
                                             /\ p[i].label = p[j].label
  <2>1. IllFormed(p) <=> wrong \/ value \/ lost \/ twice
    BY DEF IllFormed
  <2>2. ~diagnosed => (~(GotosIn(built) \subseteq LabelsIn(built)) <=> lost)
    BY <1>12
  <2>3. (diagnosed <=> wrong) /\ (HasUse(built) <=> value) /\ (PlacedTwice(built) <=> twice)
    BY <1>9, <1>10, <1>11
  <2> HIDE DEF wrong, value, lost, twice
  <2> QED
    BY <1>8, <2>1, <2>2, <2>3
<1>14. DiagnosedExactly'
  BY <1>2, <1>13 DEF DiagnosedExactly
<1> QED
  BY <1>1, <1>2, <1>4, <1>14 DEF DInv

-----------------------------------------------------------------------------

LEMMA DiagnosisBegins == Init => DInv
<1> SUFFICES ASSUME Init PROVE DInv
  OBVIOUS
<1>1. IInv
  BY Initially
<1>2. Paired(<<>>)
  BY NothingSays DEF Says
<1>3. Diagnosis(<<>>, <<>>, <<>>, <<>>, 0, FALSE)
  BY <1>2, NestBegins, StackBegins, BlamedBegins, FreshBegins, SaidBegins, LeadsBegins DEF Diagnosis
<1>4. Diagnosis(program, frames, jumpStack, built, nextLabelIndex, diagnosed)
  BY <1>3 DEF Init
<1>5. IsSequence(program) /\ nextLabelIndex \in Nat
  BY NoNodes DEF Init, IsNodes
<1> QED
  BY <1>1, <1>4, <1>5 DEF DInv, DiagnosedExactly, Init

LEMMA DiagnosisInductive == DInv /\ [Next]_vars => DInv'
<1> SUFFICES ASSUME DInv, [Next]_vars PROVE DInv'
  OBVIOUS
<1>1. CASE \/ ExpressionStatement \/ ComparisonAsValue \/ ParseReturn
           \/ \E l \in UserLabels : ParseLabelNode(l) \/ ParseGotoNode(l)
           \/ ParseBreakNode \/ ParseContinueNode
           \/ \E kind \in {"if", "while", "for"} : IllCondition(kind)
  BY <1>1, SimpleStatementsDiagnosed
<1>2. CASE \E hasElse \in BOOLEAN : OpenIf(hasElse)
  BY <1>2, OpenIfDiagnosed
<1>3. CASE Else
  BY <1>3, ElseDiagnosed
<1>4. CASE \E kind \in Loops, cond \in {"test", "none", "ill"} : OpenLoop(kind, cond)
  BY <1>4, OpenLoopDiagnosed
<1>5. CASE Close
  BY <1>5, CloseDiagnosed
<1>6. CASE \E void \in BOOLEAN, optimise \in Optimise : CompileRoutine(void, optimise)
  BY <1>6, CompileDiagnosed
<1>7. CASE FinalisePass
  <2>1. IInv'
    BY <1>7, PassKeeps DEF DInv
  <2>2. /\ phase # "statements" /\ phase' # "statements"
        /\ UNCHANGED program /\ UNCHANGED nextLabelIndex /\ UNCHANGED diagnosed
    BY <1>7 DEF FinalisePass
  <2> QED
    BY <2>1, <2>2 DEF DInv, DiagnosedExactly
<1>8. CASE UNCHANGED vars
  <2>1. IInv'
    BY <1>8, Inductive DEF DInv
  <2> QED
    BY <1>8, <2>1 DEF DInv, DiagnosedExactly, vars
<1> QED
  BY <1>1, <1>2, <1>3, <1>4, <1>5, <1>6, <1>7, <1>8 DEF Next

\* A diagnostic is issued for exactly the bodies the language does not allow, whatever their
\* length, their nesting and their labels (CompileRoutine, ParseNode, Emit...).
THEOREM DiagnosedIffIllFormed == Spec => []DiagnosedExactly
<1>1. Init => DInv
  BY DiagnosisBegins
<1>2. DInv /\ [Next]_vars => DInv'
  BY DiagnosisInductive
<1>3. DInv => DiagnosedExactly
  BY DEF DInv
<1> QED
  BY <1>1, <1>2, <1>3, PTL DEF Spec
================================================================================
