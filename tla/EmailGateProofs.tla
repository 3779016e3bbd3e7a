-------------------------- MODULE EmailGateProofs ---------------------------
(***************************************************************************)
(* The gate keeps its limit for every set of callers, every limit and      *)
(* every queue length.  The inductive invariant ties the counter and the   *)
(* queue to the states of the callers.                                     *)
(***************************************************************************)
EXTENDS EmailGate, FiniteSetTheorems, SequenceTheorems, TLAPS

(* The queue holds waiting callers, each once: shift() never resolves a    *)
(* caller that is already running.                                         *)
QueueOfWaiting ==
    /\ \A n \in 1..Len(pending) : state[pending[n]] = "waiting"
    /\ \A m, n \in 1..Len(pending) : pending[m] = pending[n] => m = n

(* `active` lags behind only by the callers whose promise was resolved.    *)
SlotsCounted == /\ active = Cardinality(In("running"))
                /\ active + Cardinality(In("resumed")) <= Limit

GateInv == TypeOK /\ QueueOfWaiting /\ SlotsCounted /\ WaitersOnlyWhenFull

(* Sets of callers are finite.                                             *)
LEMMA InFinite ==
    ASSUME NEW s
    PROVE  /\ IsFiniteSet(In(s)) /\ IsFiniteSet(In(s)')
           /\ Cardinality(In(s)) \in Nat /\ Cardinality(In(s)') \in Nat
<1>1. In(s) \in SUBSET Caller /\ In(s)' \in SUBSET Caller
  BY DEF In
<1>2. IsFiniteSet(In(s)) /\ IsFiniteSet(In(s)')
  BY <1>1, GateAssumption, FS_Subset
<1> QED
  BY <1>2, FS_CardinalityType

LEMMA GateInit == Init => GateInv
<1> SUFFICES ASSUME Init PROVE GateInv
  OBVIOUS
<1>1. In("running") = {} /\ In("resumed") = {}
  BY DEF Init, In
<1>2. Cardinality(In("running")) = 0 /\ Cardinality(In("resumed")) = 0
  BY <1>1, FS_EmptySet
<1>3. pending = <<>> /\ Len(pending) = 0
  BY DEF Init
<1>4. TypeOK
  BY <1>3, GateAssumption DEF Init, TypeOK
<1> QED
  BY <1>2, <1>3, <1>4, GateAssumption
     DEF Init, GateInv, QueueOfWaiting, SlotsCounted, WaitersOnlyWhenFull

LEMMA EnterKeeps == ASSUME GateInv, NEW c \in Caller, Enter(c) PROVE GateInv'
<1> USE DEF GateInv
<1>1. In("running")' = In("running") \cup {c} /\ c \notin In("running")
  BY DEF Enter, In, TypeOK
<1>2. In("resumed")' = In("resumed") /\ Cardinality(In("resumed")) = 0
  BY FS_EmptySet DEF Enter, In, Drained, TypeOK
<1>3. Cardinality(In("running")') = Cardinality(In("running")) + 1
  BY <1>1, InFinite, FS_AddElement
<1>4. pending = <<>>
  BY <1>2, GateAssumption DEF Enter, Full, WaitersOnlyWhenFull, TypeOK
<1>5. TypeOK'
  BY DEF Enter, TypeOK
<1>6. QueueOfWaiting'
  BY <1>4 DEF Enter, QueueOfWaiting
<1>7. SlotsCounted'
  BY <1>2, <1>3, GateAssumption DEF Enter, Full, SlotsCounted, TypeOK
<1>8. WaitersOnlyWhenFull'
  BY <1>4 DEF Enter, WaitersOnlyWhenFull
<1> QED
  BY <1>5, <1>6, <1>7, <1>8

LEMMA WaitKeeps == ASSUME GateInv, NEW c \in Caller, Wait(c) PROVE GateInv'
<1> USE DEF GateInv
<1>1. In("running")' = In("running") /\ In("resumed")' = In("resumed")
  BY DEF Wait, In, TypeOK
<1>2. Cardinality(In("resumed")) = 0
  BY FS_EmptySet DEF Wait, Drained
<1>3. /\ pending' \in Seq(Caller) /\ Len(pending') = Len(pending) + 1
      /\ Len(pending) \in Nat
      /\ \A n \in 1..Len(pending) : pending'[n] = pending[n] /\ pending[n] \in Caller
      /\ pending'[Len(pending) + 1] = c
  BY AppendProperties, LenProperties, ElementOfSeq DEF Wait, TypeOK
<1>4. TypeOK'
  BY <1>3, GateAssumption DEF Wait, QueueRoom, TypeOK
<1>5. \A n \in 1..Len(pending) : pending[n] # c
  BY DEF Wait, QueueOfWaiting
<1>6. QueueOfWaiting'
  <2>1. \A n \in 1..Len(pending') : n \in 1..Len(pending) \/ n = Len(pending) + 1
    BY <1>3
  <2>2. \A n \in 1..Len(pending') : state'[pending'[n]] = "waiting"
    BY <1>3, <1>5, <2>1 DEF Wait, QueueOfWaiting, TypeOK
  <2>3. ASSUME NEW m \in 1..Len(pending'), NEW n \in 1..Len(pending'),
               pending'[m] = pending'[n]
        PROVE  m = n
    <3>1. CASE m \in 1..Len(pending) /\ n \in 1..Len(pending)
      BY <1>3, <2>3, <3>1 DEF QueueOfWaiting
    <3>2. CASE m = Len(pending) + 1 \/ n = Len(pending) + 1
      BY <1>3, <1>5, <2>1, <2>3, <3>2
    <3> QED
      BY <2>1, <3>1, <3>2
  <2> QED
    BY <2>2, <2>3 DEF QueueOfWaiting
<1>7. SlotsCounted'
  BY <1>1 DEF Wait, SlotsCounted
<1>8. active + Cardinality(In("resumed")) = Limit
  BY <1>2, GateAssumption DEF Wait, Full, SlotsCounted, TypeOK
<1>9. WaitersOnlyWhenFull'
  BY <1>1, <1>8 DEF Wait, WaitersOnlyWhenFull
<1> QED
  BY <1>4, <1>6, <1>7, <1>9

LEMMA ResumeKeeps == ASSUME GateInv, NEW c \in Caller, Resume(c) PROVE GateInv'
<1> USE DEF GateInv
<1>1. /\ In("running")' = In("running") \cup {c} /\ c \notin In("running")
      /\ In("resumed")' = In("resumed") \ {c} /\ c \in In("resumed")
  BY DEF Resume, In, TypeOK
<1>2. /\ Cardinality(In("running")') = Cardinality(In("running")) + 1
      /\ Cardinality(In("resumed")') = Cardinality(In("resumed")) - 1
  BY <1>1, InFinite, FS_AddElement, FS_RemoveElement
<1>3. TypeOK'
  BY DEF Resume, TypeOK
<1>4. QueueOfWaiting'
  BY ElementOfSeq DEF Resume, QueueOfWaiting, TypeOK
<1>5. SlotsCounted' /\ active' + Cardinality(In("resumed")') = active + Cardinality(In("resumed"))
  BY <1>2, InFinite, GateAssumption DEF Resume, SlotsCounted, TypeOK
<1>6. WaitersOnlyWhenFull'
  BY <1>5 DEF Resume, WaitersOnlyWhenFull
<1> QED
  BY <1>3, <1>4, <1>5, <1>6

LEMMA FinishKeeps == ASSUME GateInv, NEW c \in Caller, Finish(c) PROVE GateInv'
<1> USE DEF GateInv
<1>1. In("running") # {} /\ Cardinality(In("running")) # 0 /\ active \in Nat \ {0}
  <2>1. c \in In("running")
    BY DEF Finish, In
  <2>2. Cardinality(In("running")) # 0
    BY <2>1, InFinite, FS_EmptySet
  <2> QED
    BY <2>1, <2>2, InFinite DEF SlotsCounted
<1>2. CASE pending = <<>>
  <2>1. /\ In("running")' = In("running") \ {c} /\ c \in In("running")
        /\ In("resumed")' = In("resumed")
    BY <1>2 DEF Finish, In, TypeOK
  <2>2. Cardinality(In("running")') = Cardinality(In("running")) - 1
    BY <2>1, InFinite, FS_RemoveElement
  <2>3. TypeOK' /\ QueueOfWaiting' /\ WaitersOnlyWhenFull'
    BY <1>1, <1>2 DEF Finish, TypeOK, QueueOfWaiting, WaitersOnlyWhenFull
  <2>4. SlotsCounted'
    BY <1>1, <2>1, <2>2, InFinite, GateAssumption DEF Finish, SlotsCounted, TypeOK
  <2> QED
    BY <2>3, <2>4
<1>3. CASE pending # <<>>
  <2> DEFINE h == Head(pending)
  <2>1. /\ Len(pending) \in Nat \ {0} /\ h = pending[1] /\ h \in Caller
        /\ pending' = Tail(pending) /\ pending' \in Seq(Caller)
        /\ Len(pending') = Len(pending) - 1
        /\ \A n \in 1..Len(pending') : pending'[n] = pending[n + 1]
    <3>1. pending \in Seq(Caller) /\ pending' = Tail(pending)
      BY <1>3 DEF Finish, TypeOK
    <3>2. Len(pending) \in Nat \ {0}
      BY <1>3, <3>1, EmptySeq
    <3> QED
      BY <1>3, <3>1, <3>2, HeadTailProperties
  <2>2. state[h] = "waiting" /\ h # c
    BY <2>1 DEF Finish, QueueOfWaiting
  <2>3. /\ In("running")' = In("running") \ {c} /\ c \in In("running")
        /\ In("resumed")' = In("resumed") \cup {h} /\ h \notin In("resumed")
    BY <1>3, <2>1, <2>2 DEF Finish, In, TypeOK
  <2>4. /\ Cardinality(In("running")') = Cardinality(In("running")) - 1
        /\ Cardinality(In("resumed")') = Cardinality(In("resumed")) + 1
    BY <2>3, InFinite, FS_AddElement, FS_RemoveElement
  <2>5. TypeOK'
    BY <1>1, <1>3, <2>1, <2>2, GateAssumption DEF Finish, TypeOK
  <2>6. QueueOfWaiting'
    <3>1. \A n \in 1..Len(pending') : n + 1 \in 1..Len(pending) /\ n + 1 # 1
      BY <2>1
    <3>2. \A n \in 1..Len(pending') : pending[n + 1] # h /\ pending[n + 1] # c
      BY <2>1, <3>1 DEF Finish, QueueOfWaiting
    <3>3. \A n \in 1..Len(pending') : pending[n + 1] \in Caller
      BY <3>1, ElementOfSeq DEF TypeOK
    <3>4. \A n \in 1..Len(pending') : state'[pending'[n]] = "waiting"
      BY <1>3, <2>1, <3>1, <3>2, <3>3 DEF Finish, QueueOfWaiting, TypeOK
    <3>5. \A m, n \in 1..Len(pending') : pending'[m] = pending'[n] => m = n
      BY <2>1, <3>1 DEF QueueOfWaiting
    <3> QED
      BY <3>4, <3>5 DEF QueueOfWaiting
  <2>7. /\ SlotsCounted'
        /\ active' + Cardinality(In("resumed")') = active + Cardinality(In("resumed"))
    <3>1. active' = active - 1 /\ active \in Nat \ {0}
      BY <1>1 DEF Finish
    <3>2. Cardinality(In("resumed")) \in Nat
      BY InFinite
    <3> QED
      BY <2>4, <3>1, <3>2, GateAssumption DEF SlotsCounted
  <2>8. WaitersOnlyWhenFull'
    BY <1>3, <2>7 DEF WaitersOnlyWhenFull
  <2> QED
    BY <2>5, <2>6, <2>7, <2>8
<1> QED
  BY <1>2, <1>3

LEMMA GateInvHolds == Spec => []GateInv
<1>1. GateInv /\ [Next]_vars => GateInv'
  <2> SUFFICES ASSUME GateInv, [Next]_vars PROVE GateInv'
    OBVIOUS
  <2>1. CASE Next
    BY <2>1, EnterKeeps, WaitKeeps, ResumeKeeps, FinishKeeps DEF Next
  <2>2. CASE UNCHANGED vars
    BY <2>2 DEF vars, GateInv, TypeOK, QueueOfWaiting, SlotsCounted, WaitersOnlyWhenFull, In
  <2> QED
    BY <2>1, <2>2
<1> QED
  BY GateInit, <1>1, PTL DEF Spec

(* The variables of the gate have their types, and the queue its bound.    *)
THEOREM GateTyped == Spec => []TypeOK
<1>1. GateInv => TypeOK
  BY DEF GateInv
<1> QED
  BY GateInvHolds, <1>1, PTL

(* EmailConcurrencyGate.run never lets more than Limit operations proceed, *)
(* though a resumed caller does not look at `active` again.                *)
THEOREM GateWithinLimit == Spec => []WithinLimit
<1>1. GateInv => WithinLimit
  BY InFinite, GateAssumption DEF GateInv, SlotsCounted, WithinLimit, TypeOK
<1> QED
  BY GateInvHolds, <1>1, PTL

(* No operation's end leaves a caller waiting for a free slot.             *)
THEOREM GateLosesNoWakeup == Spec => []WaitersOnlyWhenFull
<1>1. GateInv => WaitersOnlyWhenFull
  BY DEF GateInv
<1> QED
  BY GateInvHolds, <1>1, PTL
=============================================================================
