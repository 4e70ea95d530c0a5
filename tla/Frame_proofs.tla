----------------------------- MODULE Frame_proofs -----------------------------
(***************************************************************************)
(* What a routine may rely on, whatever it needs slots for and in whatever *)
(* order: its variables share no byte with one another, with the arguments *)
(* it passes and with what its prologue saved, and the stack is aligned    *)
(* where it calls.                                                         *)
(*                                                                         *)
(* EnsureStackSlot and PassOnStack are called while the routine is lowered *)
(* and keep Frames, SlotsEndInside and SlotsApart; Finalise then fixes the *)
(* size, for what those three say of the frame.                            *)
(***************************************************************************)
EXTENDS Frame, TLAPS

(* The frames a routine can have while it is lowered. *)
Frames(owners) ==
    [stackSlots : UNION {[D -> Nat] : D \in SUBSET owners}, localsSize : Nat,
     outgoingReserve : Nat, parameterReserve : Nat]

(* Slots of the sizes asked for end inside the locals, one before the other. *)
SlotsEndInside(frame, sizes) ==
    \A v \in DOMAIN frame.stackSlots : frame.stackSlots[v] + sizes[v] <= frame.localsSize
SlotsApart(frame, sizes) ==
    \A v, w \in DOMAIN frame.stackSlots :
        v # w => \/ frame.stackSlots[v] + sizes[v] <= frame.stackSlots[w]
                 \/ frame.stackSlots[w] + sizes[w] <= frame.stackSlots[v]

(* The smallest multiple of the alignment that is not below. *)
LEMMA AlignUpProperties ==
    ASSUME NEW n \in Nat, NEW alignment \in Nat \ {0}
    PROVE  /\ AlignUp(n, alignment) \in Nat
           /\ AlignUp(n, alignment) >= n
           /\ AlignUp(n, alignment) < n + alignment
           /\ \E k \in Nat : AlignUp(n, alignment) = alignment * k
<1> DEFINE k == (n + alignment - 1) \div alignment
           r == (n + alignment - 1) % alignment
           up == alignment * k
<1>1. k \in Nat /\ r \in 0 .. alignment - 1 /\ n + alignment - 1 = up + r
  BY SMT
<1>2. up \in Nat
  BY <1>1, SMT
<1>3. AlignUp(n, alignment) = up
  BY <1>1, SMT DEF AlignUp
<1>4. up >= n /\ up < n + alignment
  <2> HIDE DEF up, r, k
  <2> QED BY <1>1, <1>2, SMT
<1> QED
  BY <1>1, <1>2, <1>3, <1>4, Zenon

(* A routine begins with a frame that has no slots. *)
THEOREM NewFrameIsApart ==
    ASSUME NEW owners, NEW sizes, NEW platform, platform.InitialStackReserve \in Nat
    PROVE  /\ NewFrame(platform) \in Frames(owners)
           /\ SlotsEndInside(NewFrame(platform), sizes)
           /\ SlotsApart(NewFrame(platform), sizes)
<1>1. [v \in {} |-> 0] \in UNION {[D -> Nat] : D \in SUBSET owners}
  <2>1. [v \in {} |-> 0] \in [{} -> Nat]
    OBVIOUS
  <2>2. {} \in SUBSET owners
    OBVIOUS
  <2> QED
    BY <2>1, <2>2
<1>2. NewFrame(platform) \in Frames(owners)
  BY <1>1 DEF NewFrame, Frames
<1>3. DOMAIN NewFrame(platform).stackSlots = {}
  BY DEF NewFrame
<1> QED
  BY <1>2, <1>3 DEF SlotsEndInside, SlotsApart

(* EnsureStackSlot: a slot a routine gets shares no byte with the slots it *)
(* has, whatever the alignment, and those stay where they are.             *)
THEOREM NewSlotIsApart ==
    ASSUME NEW owners, NEW sizes \in [owners -> Nat], NEW frame \in Frames(owners),
           NEW owner \in owners, NEW alignment \in Nat \ {0},
           SlotsEndInside(frame, sizes), SlotsApart(frame, sizes)
    PROVE  LET next == EnsureStackSlot(frame, owner, sizes[owner], alignment)
           IN  /\ next \in Frames(owners)
               /\ SlotsEndInside(next, sizes)
               /\ SlotsApart(next, sizes)
               /\ \A v \in DOMAIN frame.stackSlots : next.stackSlots[v] = frame.stackSlots[v]
<1> DEFINE slots == frame.stackSlots
           next == EnsureStackSlot(frame, owner, sizes[owner], alignment)
           offset == AlignUp(frame.localsSize, alignment)
           D == DOMAIN slots
           grown == [v \in D \cup {owner} |-> IF v = owner THEN offset ELSE slots[v]]
<1>1. CASE owner \in DOMAIN frame.stackSlots
  BY <1>1 DEF EnsureStackSlot
<1>2. CASE owner \notin DOMAIN frame.stackSlots
  <2>1. D \in SUBSET owners /\ slots \in [D -> Nat] /\ frame.localsSize \in Nat
    BY DEF Frames
  <2>2. offset \in Nat /\ offset >= frame.localsSize
    BY <2>1, AlignUpProperties
  <2>3. next = [frame EXCEPT !.stackSlots = grown, !.localsSize = offset + sizes[owner]]
    BY <1>2 DEF EnsureStackSlot
  <2>4. next.stackSlots = grown /\ next.localsSize = offset + sizes[owner]
    BY <2>3 DEF Frames
  <2>5. next \in Frames(owners)
    <3>1. grown \in [D \cup {owner} -> Nat] /\ D \cup {owner} \in SUBSET owners
      BY <2>1, <2>2
    <3>2. offset + sizes[owner] \in Nat
      BY <2>2
    <3> QED
      BY <2>3, <3>1, <3>2 DEF Frames
  <2> HIDE DEF offset, next
  <2>6. SlotsEndInside(next, sizes)
    <3> SUFFICES ASSUME NEW v \in D \cup {owner}
                 PROVE  grown[v] + sizes[v] <= offset + sizes[owner]
      BY <2>4 DEF SlotsEndInside
    <3>1. CASE v = owner
      BY <3>1, <2>2
    <3>2. CASE v # owner
      <4>1. v \in D /\ grown[v] = slots[v] /\ slots[v] \in Nat /\ sizes[v] \in Nat
        BY <3>2, <2>1
      <4>2. slots[v] + sizes[v] <= frame.localsSize
        BY <4>1 DEF SlotsEndInside
      <4> QED
        BY <4>1, <4>2, <2>1, <2>2
    <3> QED
      BY <3>1, <3>2
  <2>7. SlotsApart(next, sizes)
    <3> SUFFICES ASSUME NEW v \in D \cup {owner}, NEW w \in D \cup {owner}, v # w
                 PROVE  \/ grown[v] + sizes[v] <= grown[w]
                        \/ grown[w] + sizes[w] <= grown[v]
      BY <2>4 DEF SlotsApart
    <3>1. ASSUME NEW x \in D
          PROVE  grown[x] = slots[x] /\ slots[x] + sizes[x] <= offset
      <4>1. slots[x] \in Nat /\ sizes[x] \in Nat /\ slots[x] + sizes[x] <= frame.localsSize
        BY <2>1 DEF SlotsEndInside
      <4> QED
        BY <4>1, <1>2, <2>1, <2>2
    <3>2. CASE v = owner
      BY <3>1, <3>2
    <3>3. CASE w = owner
      BY <3>1, <3>3
    <3>4. CASE v # owner /\ w # owner
      BY <3>1, <3>4 DEF SlotsApart
    <3> QED
      BY <3>2, <3>3, <3>4
  <2>8. \A v \in DOMAIN frame.stackSlots : next.stackSlots[v] = frame.stackSlots[v]
    BY <2>4, <1>2
  <2> QED
    BY <2>5, <2>6, <2>7, <2>8 DEF next
<1> QED
  BY <1>1, <1>2

(* PassOnStack: once an argument is passed on the stack its slot is part   *)
(* of the reserve, which never shrinks, and the variables stay in place.   *)
THEOREM PassedArgumentIsReserved ==
    ASSUME NEW owners, NEW sizes, NEW frame \in Frames(owners), NEW platform,
           platform.InitialStackReserve \in Nat, NEW slot \in Nat,
           SlotsEndInside(frame, sizes), SlotsApart(frame, sizes)
    PROVE  LET next == PassOnStack(platform, frame, slot)
           IN  /\ next \in Frames(owners)
               /\ SlotsEndInside(next, sizes)
               /\ SlotsApart(next, sizes)
               /\ next.outgoingReserve >= frame.outgoingReserve
               /\ next.outgoingReserve >= platform.InitialStackReserve + SlotSize * slot + SlotSize
<1> DEFINE reserve == platform.InitialStackReserve + SlotSize * slot + SlotSize
           next == PassOnStack(platform, frame, slot)
<1>1. reserve \in Nat /\ frame.outgoingReserve \in Nat
  BY DEF SlotSize, Frames
<1> HIDE DEF reserve
<1>2. next = [frame EXCEPT !.outgoingReserve = Larger(frame.outgoingReserve, reserve)]
  BY DEF PassOnStack, reserve
<1>3. /\ Larger(frame.outgoingReserve, reserve) \in Nat
      /\ Larger(frame.outgoingReserve, reserve) >= frame.outgoingReserve
      /\ Larger(frame.outgoingReserve, reserve) >= reserve
  BY <1>1 DEF Larger
<1> HIDE DEF next
<1>4. next \in Frames(owners)
  BY <1>2, <1>3 DEF Frames
<1>5. /\ next.stackSlots = frame.stackSlots /\ next.localsSize = frame.localsSize
      /\ next.outgoingReserve = Larger(frame.outgoingReserve, reserve)
  BY <1>2 DEF Frames
<1>6. SlotsEndInside(next, sizes) /\ SlotsApart(next, sizes)
  BY <1>5 DEF SlotsEndInside, SlotsApart
<1> QED
  BY <1>3, <1>4, <1>5, <1>6 DEF next, reserve

(* Finalise: the frame has room for all that was asked for, and with what  *)
(* was pushed before it takes a multiple of the alignment, so that a call  *)
(* the routine makes finds the stack aligned.                              *)
THEOREM FinishedFrameIsAligned ==
    ASSUME NEW alignment \in Nat \ {0}, NEW omits \in BOOLEAN, NEW raw \in Nat, NEW saved \in Nat
    PROVE  LET size == StackFrameSize(alignment, omits, raw, saved)
           IN  /\ size \in Nat
               /\ size >= raw
               /\ raw # 0 \/ saved # 0
                     => \E k \in Nat : size + AlreadyPushed(omits, saved) = alignment * k
<1> DEFINE pushed == AlreadyPushed(omits, saved)
           size == StackFrameSize(alignment, omits, raw, saved)
<1>1. pushed \in Nat
  BY DEF AlreadyPushed, SlotSize
<1>2. CASE raw = 0 /\ saved = 0
  BY <1>2 DEF StackFrameSize
<1>3. CASE raw # 0 \/ saved # 0
  <2> DEFINE up == AlignUp(raw + pushed, alignment)
  <2> HIDE DEF pushed
  <2>1. raw + pushed \in Nat
    BY <1>1
  <2>2. up \in Nat /\ up >= raw + pushed /\ \E k \in Nat : up = alignment * k
    BY <2>1, AlignUpProperties
  <2>3. size = up - pushed
    BY <1>3 DEF StackFrameSize, pushed
  <2> HIDE DEF up, size
  <2>4. size \in Nat /\ size >= raw /\ size + pushed = up
    BY <1>1, <2>2, <2>3
  <2>5. \E k \in Nat : size + pushed = alignment * k
    BY <2>2, <2>4
  <2> QED
    BY <2>4, <2>5 DEF size, pushed
<1> QED
  BY <1>2, <1>3

(* ResolveStackOperands: in the finished routine the bytes of a variable   *)
(* lie above all the arguments the routine passes and below what its       *)
(* prologue saved, and no two variables share one.  (The provers know      *)
(* nothing of SelectSeq, so that it gives a sequence is an assumption.)    *)
THEOREM VariablesArePlacedApart ==
    ASSUME NEW owners, NEW sizes \in [owners -> Nat], NEW frame \in Frames(owners),
           SlotsEndInside(frame, sizes), SlotsApart(frame, sizes),
           NEW platform, platform.StackAlignment \in Nat \ {0},
           NEW omits \in BOOLEAN, NEW instructions,
           Len(CollectCalleeSavedWrites(platform, instructions)) \in Nat
    PROVE  LET layout == Layout(platform, omits, frame, instructions)
               place(v) == AboveRsp(layout, StackOperand(frame.stackSlots[v]))
           IN  \A v \in DOMAIN frame.stackSlots :
                 /\ place(v) >= frame.outgoingReserve
                 /\ place(v) + sizes[v] <= layout.stackFrameSize
                 /\ \A w \in DOMAIN frame.stackSlots :
                      v # w => \/ place(v) + sizes[v] <= place(w)
                               \/ place(w) + sizes[w] <= place(v)
<1> DEFINE slots == frame.stackSlots
           layout == Layout(platform, omits, frame, instructions)
           place(v) == AboveRsp(layout, StackOperand(frame.stackSlots[v]))
           saved == Len(CollectCalleeSavedWrites(platform, instructions))
           raw == frame.outgoingReserve + frame.localsSize + frame.parameterReserve
<1>1. /\ frame.outgoingReserve \in Nat /\ frame.localsSize \in Nat /\ frame.parameterReserve \in Nat
      /\ raw \in Nat
  BY DEF Frames
<1>2. /\ layout.outgoingReserve = frame.outgoingReserve
      /\ layout.stackFrameSize = StackFrameSize(platform.StackAlignment, omits, raw, saved)
  BY DEF Layout
<1>3. layout.stackFrameSize \in Nat /\ layout.stackFrameSize >= raw
  <2>1. saved \in Nat
    OBVIOUS
  <2> DEFINE size == StackFrameSize(platform.StackAlignment, omits, raw, saved)
  <2> HIDE DEF layout, saved, raw
  <2>2. size \in Nat /\ size >= raw
    BY <1>1, <2>1, FinishedFrameIsAligned, Zenon
  <2> QED
    BY <1>2, <2>2
<1>4. \A v \in DOMAIN slots : place(v) = frame.outgoingReserve + slots[v]
  BY <1>2 DEF AboveRsp, StackOperand
<1>5. \A v \in DOMAIN slots : /\ slots[v] \in Nat /\ sizes[v] \in Nat
                              /\ slots[v] + sizes[v] <= frame.localsSize
  BY DEF Frames, SlotsEndInside
<1>6. \A v, w \in DOMAIN slots : v # w => \/ slots[v] + sizes[v] <= slots[w]
                                          \/ slots[w] + sizes[w] <= slots[v]
  BY DEF SlotsApart
<1> HIDE DEF layout, place, slots
<1>7. ASSUME NEW v \in DOMAIN slots
      PROVE  /\ place(v) >= frame.outgoingReserve
             /\ place(v) + sizes[v] <= layout.stackFrameSize
             /\ \A w \in DOMAIN slots :
                  v # w => \/ place(v) + sizes[v] <= place(w)
                           \/ place(w) + sizes[w] <= place(v)
  <2>1. /\ place(v) = frame.outgoingReserve + slots[v] /\ slots[v] \in Nat /\ sizes[v] \in Nat
        /\ slots[v] + sizes[v] <= frame.localsSize
    BY <1>4, <1>5
  <2>2. place(v) >= frame.outgoingReserve
    BY <1>1, <2>1
  <2>3. place(v) + sizes[v] <= layout.stackFrameSize
    <3>1. slots[v] + sizes[v] <= frame.localsSize /\ frame.outgoingReserve + slots[v] + sizes[v] <= raw
      BY <1>1, <2>1
    <3> HIDE DEF raw
    <3> QED
      BY <1>1, <1>3, <2>1, <3>1
  <2>4. ASSUME NEW w \in DOMAIN slots, v # w
        PROVE  place(v) + sizes[v] <= place(w) \/ place(w) + sizes[w] <= place(v)
    <3>1. place(w) = frame.outgoingReserve + slots[w] /\ slots[w] \in Nat /\ sizes[w] \in Nat
      BY <1>4, <1>5
    <3>2. slots[v] + sizes[v] <= slots[w] \/ slots[w] + sizes[w] <= slots[v]
      BY <1>6, <2>4
    <3> QED
      BY <1>1, <2>1, <3>1, <3>2
  <2> QED
    BY <2>2, <2>3, <2>4
<1> QED
  BY <1>7 DEF layout, place, slots
=============================================================================
