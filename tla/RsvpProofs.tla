----------------------------- MODULE RsvpProofs -----------------------------
(***************************************************************************)
(* For any number of invitations and of requests in flight, any party and  *)
(* any input: the invariants of Rsvp, the freezing of revoked invitations, *)
(* and the refinement of ResponseLog.  For any limits, keys and instants:  *)
(* the properties of the limiter that every request passes first.          *)
(***************************************************************************)
EXTENDS MCRsvpRequests, Sequences, FiniteSetTheorems, SequenceTheorems, TLAPS

(* What normalize returns for a party that the attendance fits.            *)
LEMMA NormalizedIsSound ==
    ASSUME NEW input \in Input, NEW p \in Party, Fits(input, p)
    PROVE  /\ Normalized(input, p) \in Answer
           /\ SoundCounts(Normalized(input, p))
           /\ Normalized(input, p).status # "CANCELLED"
<1>1. MaxCount \in Nat /\ None \notin Nat
  BY RulesAssumption
<1>2. /\ input.status \in {"ACCEPTED", "DECLINED", "NOT_SURE"}
      /\ input.total \in OptionalCount /\ input.adults \in OptionalCount
      /\ input.children \in OptionalCount /\ input.note \in OptionalNote
  BY DEF Input
<1>3. CASE input.status # "ACCEPTED"
  BY <1>2, <1>3 DEF Normalized, Cleared, Answer, Status, SoundCounts, OptionalCount
<1>4. CASE input.status = "ACCEPTED" /\ p.mode = "TOTAL_ONLY"
  <2>1. /\ input.total # None /\ input.total \in 1..p.total
        /\ input.adults = None /\ input.children = None
    BY <1>4 DEF Fits
  <2>2. input.total \in Nat /\ input.total >= 1 /\ input.total \in Total
    BY <1>1, <1>2, <2>1 DEF OptionalCount, Count, Total
  <2> QED
    BY <1>1, <1>2, <1>4, <2>1, <2>2 DEF Normalized, Answer, Status, SoundCounts
<1>5. CASE input.status = "ACCEPTED" /\ p.mode = "ADULTS_AND_CHILDREN"
  <2>1. /\ input.adults # None /\ input.children # None
        /\ input.adults + input.children >= 1
    BY <1>5 DEF Fits
  <2>2. input.adults \in Count /\ input.children \in Count
    BY <1>2, <2>1 DEF OptionalCount
  <2>3. /\ input.adults + input.children \in Total
        /\ input.adults + input.children \in Nat
    BY <1>1, <2>2 DEF Count, Total
  <2> QED
    BY <1>1, <1>2, <1>5, <2>1, <2>3 DEF Normalized, Answer, Status, SoundCounts
<1>6. p.mode \in {"TOTAL_ONLY", "ADULTS_AND_CHILDREN"}
  BY DEF Party
<1> QED
  BY <1>3, <1>4, <1>5, <1>6

(* What cancelling leaves of an answer.                                    *)
LEMMA ClearedIsSound ==
    ASSUME NEW a \in Answer
    PROVE  /\ Cleared("CANCELLED", a.note) \in Answer
           /\ SoundCounts(Cleared("CANCELLED", a.note))
BY DEF Cleared, Answer, Status, SoundCounts, OptionalCount

(* Past lockInvitation: the request holds the row lock of its invitation.  *)
Holds(r) == tx[r].pc \in {"locked", "context", "ready"}

(* The row lock is exclusive to the end of the transaction.                *)
LockExclusive ==
    \A r, q \in Request : Holds(r) /\ Holds(q) /\ tx[r].inv = tx[q].inv => r = q

(* What a transaction knows by the statement it has reached.               *)
TxShape == \A r \in Request :
              /\ tx[r].pc # "idle" => tx[r].inv \in Invitation
              /\ tx[r].pc \in {"context", "ready"} => tx[r].party \in Party

RsvpInv == /\ TypeOK /\ TxShape /\ LockExclusive
           /\ HistoryEndsWithCurrent /\ CountsAreSound /\ ReadsStayTrue

LEMMA RsvpInit == Init => RsvpInv
<1> SUFFICES ASSUME Init PROVE RsvpInv
  OBVIOUS
<1>1. NoTx \in Tx
  BY DEF NoTx, Tx, TxPc
<1>2. TypeOK
  BY <1>1, EmptySeq DEF Init, TypeOK
<1>3. TxShape /\ LockExclusive /\ ReadsStayTrue
  BY DEF Init, NoTx, TxShape, LockExclusive, ReadsStayTrue, Holds
<1>4. HistoryEndsWithCurrent /\ CountsAreSound
  BY EmptySeq DEF Init, HistoryEndsWithCurrent, CountsAreSound
<1> QED
  BY <1>2, <1>3, <1>4 DEF RsvpInv

(* A transaction that ends, its locks with it, disturbs nothing.           *)
LEMMA FinishTx ==
    ASSUME RsvpInv, NEW r \in Request, Finish(r)
    PROVE  /\ tx' \in [Request -> Tx]
           /\ TxShape' /\ LockExclusive'
           /\ tx'[r].pc = "idle"
           /\ \A q \in Request : q # r => tx'[q] = tx[q]
<1>1. NoTx \in Tx /\ NoTx.pc = "idle"
  BY DEF NoTx, Tx, TxPc
<1>2. /\ tx' \in [Request -> Tx]
      /\ tx'[r] = NoTx
      /\ \A q \in Request : q # r => tx'[q] = tx[q]
  BY <1>1 DEF Finish, RsvpInv, TypeOK
<1> QED
  BY <1>1, <1>2 DEF RsvpInv, TxShape, LockExclusive, Holds

(* The answer and its snapshot, written together.                          *)
LEMMA StoreKeeps ==
    ASSUME RsvpInv, NEW r \in Request, tx[r].pc = "ready",
           NEW answer \in Answer, SoundCounts(answer), Store(r, answer)
    PROVE  RsvpInv'
<1> DEFINE i == tx[r].inv
<1> USE DEF RsvpInv
<1>1. i \in Invitation
  BY DEF TxShape
<1>2. /\ history[i] \in Seq(Answer) /\ Len(history[i]) \in Nat
      /\ history'[i] = Append(history[i], answer)
      /\ current'[i] = answer
      /\ \A j \in Invitation : j # i => history'[j] = history[j] /\ current'[j] = current[j]
  BY <1>1, LenProperties DEF Store, TypeOK
<1>3. /\ history'[i] \in Seq(Answer)
      /\ Len(history'[i]) = Len(history[i]) + 1
      /\ \A n \in 1..Len(history[i]) : history'[i][n] = history[i][n]
      /\ history'[i][Len(history[i]) + 1] = answer
      /\ history'[i] # <<>>
  BY <1>2, AppendProperties
<1>4. tx' \in [Request -> Tx] /\ TxShape' /\ LockExclusive'
  BY FinishTx DEF Store
<1>5. TypeOK'
  BY <1>1, <1>3, <1>4 DEF Store, TypeOK
<1>6. HistoryEndsWithCurrent'
  <2> SUFFICES ASSUME NEW j \in Invitation
               PROVE  /\ history'[j] = <<>> <=> current'[j] = None
                      /\ history'[j] # <<>> => history'[j][Len(history'[j])] = current'[j]
    BY DEF HistoryEndsWithCurrent
  <2>1. CASE j = i
    BY <1>2, <1>3, <2>1, NoneIsNoRow
  <2>2. CASE j # i
    BY <1>2, <2>2 DEF HistoryEndsWithCurrent
  <2> QED
    BY <2>1, <2>2
<1>7. CountsAreSound'
  <2> SUFFICES ASSUME NEW j \in Invitation, NEW n \in 1..Len(history'[j])
               PROVE  SoundCounts(history'[j][n])
    BY DEF CountsAreSound, SoundCounts
  <2>1. CASE j = i
    <3>1. n \in 1..Len(history[i]) \/ n = Len(history[i]) + 1
      BY <1>2, <1>3, <2>1
    <3> QED
      BY <1>1, <1>3, <2>1, <3>1 DEF CountsAreSound
  <2>2. CASE j # i
    BY <1>2, <2>2 DEF CountsAreSound
  <2> QED
    BY <2>1, <2>2
<1>8. ReadsStayTrue'
  <2> SUFFICES ASSUME NEW q \in Request
               PROVE  /\ tx'[q].pc \in {"context", "ready"} => ~revoked'[tx'[q].inv]
                      /\ tx'[q].pc = "ready" => /\ tx'[q].seen = current'[tx'[q].inv]
                                                /\ Permits(tx'[q].op, tx'[q].seen)
    BY DEF ReadsStayTrue, Permits
  <2>1. CASE q = r
    BY <2>1, FinishTx DEF Store
  <2>2. CASE q # r
    <3>1. tx'[q] = tx[q]
      BY <2>2, FinishTx DEF Store
    <3>2. tx[q].pc = "ready" => tx[q].inv \in Invitation /\ tx[q].inv # i
      BY <2>2 DEF LockExclusive, Holds, TxShape
    <3> QED
      BY <1>2, <3>1, <3>2 DEF ReadsStayTrue, Store
  <2> QED
    BY <2>1, <2>2
<1> QED
  BY <1>4, <1>5, <1>6, <1>7, <1>8

LEMMA AbortKeeps == ASSUME RsvpInv, NEW r \in Request, Abort(r) PROVE RsvpInv'
<1> USE DEF RsvpInv
<1>1. TypeOK' /\ TxShape' /\ LockExclusive'
  BY FinishTx DEF Abort, Tables, TypeOK
<1>2. HistoryEndsWithCurrent' /\ CountsAreSound'
  BY DEF Abort, Tables, HistoryEndsWithCurrent, CountsAreSound, SoundCounts
<1>3. ReadsStayTrue'
  BY FinishTx DEF Abort, Tables, ReadsStayTrue, Permits
<1> QED
  BY <1>1, <1>2, <1>3

(* Moves of one transaction that write nothing.                            *)
LEMMA StartKeeps ==
    ASSUME RsvpInv, NEW r \in Request, NEW i \in Invitation,
           NEW op \in {"create", "update", "cancel"}, Start(r, i, op)
    PROVE  RsvpInv'
<1> USE DEF RsvpInv
<1>1. /\ tx' \in [Request -> Tx]
      /\ tx'[r].pc = "resolved" /\ tx'[r].inv = i
      /\ \A q \in Request : q # r => tx'[q] = tx[q]
  BY DEF Start, TypeOK, Tx, TxPc, NoTx
<1>2. UNCHANGED Tables
  BY DEF Start
<1>3. TypeOK' /\ HistoryEndsWithCurrent' /\ CountsAreSound'
  BY <1>1, <1>2 DEF Tables, TypeOK, HistoryEndsWithCurrent, CountsAreSound, SoundCounts
<1>4. TxShape' /\ LockExclusive' /\ ReadsStayTrue'
  BY <1>1, <1>2 DEF Tables, TxShape, LockExclusive, Holds, ReadsStayTrue, Permits
<1> QED
  BY <1>3, <1>4

LEMMA LockKeeps == ASSUME RsvpInv, NEW r \in Request, Lock(r) PROVE RsvpInv'
<1> USE DEF RsvpInv
<1>1. /\ tx' \in [Request -> Tx]
      /\ tx'[r].pc = "locked" /\ tx'[r].inv = tx[r].inv
      /\ \A q \in Request : q # r => tx'[q] = tx[q]
  BY DEF Lock, TypeOK, Tx, TxPc
<1>2. UNCHANGED Tables /\ tx[r].pc = "resolved"
  BY DEF Lock
<1>3. \A q \in Request : Holds(q) => tx[q].inv # tx[r].inv
  BY DEF Lock, LockWait, LockFree, LockHolders, Holds
<1>4. TypeOK' /\ HistoryEndsWithCurrent' /\ CountsAreSound'
  BY <1>1, <1>2 DEF Tables, TypeOK, HistoryEndsWithCurrent, CountsAreSound, SoundCounts
<1>5. TxShape' /\ ReadsStayTrue'
  BY <1>1, <1>2 DEF Tables, TxShape, ReadsStayTrue, Permits
<1>6. LockExclusive'
  BY <1>1, <1>3 DEF LockExclusive, Holds
<1> QED
  BY <1>4, <1>5, <1>6

LEMMA ReadContextKeeps ==
    ASSUME RsvpInv, NEW r \in Request, ReadContext(r) PROVE RsvpInv'
<1> DEFINE i == tx[r].inv
<1>1. CASE ~ContextFound(i)
  BY <1>1, AbortKeeps DEF ReadContext
<1>2. CASE ContextFound(i)
  <2> USE DEF RsvpInv
  <2>1. i \in Invitation /\ party[i] \in Party /\ ~revoked[i] /\ UNCHANGED Tables
    BY <1>2 DEF ReadContext, ContextFound, Usable, TxShape, TypeOK
  <2>2. /\ tx' \in [Request -> Tx]
        /\ tx'[r].pc = "context" /\ tx'[r].inv = i /\ tx'[r].party = party[i]
        /\ \A q \in Request : q # r => tx'[q] = tx[q]
    <3> DEFINE t == [tx[r] EXCEPT !.pc = "context", !.party = party[i]]
    <3>1. tx[r] \in Tx /\ t \in Tx
      BY <2>1 DEF TypeOK, Tx, TxPc
    <3>2. t.pc = "context" /\ t.inv = i /\ t.party = party[i]
      BY <3>1 DEF Tx
    <3>3. tx' = [tx EXCEPT ![r] = t]
      BY <1>2 DEF ReadContext
    <3> HIDE DEF t
    <3> QED
      BY <3>1, <3>2, <3>3 DEF TypeOK
  <2>3. TypeOK' /\ HistoryEndsWithCurrent' /\ CountsAreSound'
    BY <2>1, <2>2 DEF Tables, TypeOK, HistoryEndsWithCurrent, CountsAreSound, SoundCounts
  <2>4. TxShape' /\ LockExclusive'
    BY <2>1, <2>2 DEF ReadContext, TxShape, LockExclusive, Holds
  <2>5. ReadsStayTrue'
    BY <2>1, <2>2 DEF Tables, ReadsStayTrue, Permits
  <2> QED
    BY <2>3, <2>4, <2>5
<1> QED
  BY <1>1, <1>2

LEMMA ReadCurrentKeeps ==
    ASSUME RsvpInv, NEW r \in Request, ReadCurrent(r) PROVE RsvpInv'
<1> DEFINE i == tx[r].inv
<1>1. CASE ~Permits(tx[r].op, current[i])
  BY <1>1, AbortKeeps DEF ReadCurrent
<1>2. CASE Permits(tx[r].op, current[i])
  <2> USE DEF RsvpInv
  <2>1. /\ i \in Invitation /\ current[i] \in Answer \cup {None}
        /\ ~revoked[i] /\ UNCHANGED Tables
    BY <1>2 DEF ReadCurrent, TxShape, ReadsStayTrue, TypeOK
  <2>2. /\ tx' \in [Request -> Tx]
        /\ tx'[r].pc = "ready" /\ tx'[r].inv = i /\ tx'[r].seen = current[i]
        /\ tx'[r].party = tx[r].party /\ tx'[r].op = tx[r].op
        /\ \A q \in Request : q # r => tx'[q] = tx[q]
    <3> DEFINE t == [tx[r] EXCEPT !.pc = "ready", !.seen = current[i]]
    <3>1. tx[r] \in Tx /\ t \in Tx
      BY <2>1 DEF TypeOK, Tx, TxPc
    <3>2. /\ t.pc = "ready" /\ t.inv = i /\ t.seen = current[i]
          /\ t.party = tx[r].party /\ t.op = tx[r].op
      BY <3>1 DEF Tx
    <3>3. tx' = [tx EXCEPT ![r] = t]
      BY <1>2 DEF ReadCurrent
    <3> HIDE DEF t
    <3> QED
      BY <3>1, <3>2, <3>3 DEF TypeOK
  <2>3. TypeOK' /\ HistoryEndsWithCurrent' /\ CountsAreSound'
    BY <2>1, <2>2 DEF Tables, TypeOK, HistoryEndsWithCurrent, CountsAreSound, SoundCounts
  <2>4. TxShape' /\ LockExclusive'
    BY <2>1, <2>2 DEF ReadCurrent, TxShape, LockExclusive, Holds
  <2>5. ReadsStayTrue'
    BY <1>2, <2>1, <2>2 DEF Tables, ReadsStayTrue, Permits
  <2> QED
    BY <2>3, <2>4, <2>5
<1> QED
  BY <1>1, <1>2

(* The three writes: each stores a sound answer or aborts.                 *)
LEMMA WritesStore ==
    ASSUME RsvpInv, NEW r \in Request,
           \/ Cancel(r) 
           \/ \E input \in Input : Create(r, input) \/ Update(r, input)
    PROVE  \/ Abort(r)
           \/ \E answer \in Answer :
                 /\ tx[r].pc = "ready" /\ SoundCounts(answer) /\ Store(r, answer)
                 /\ current[tx[r].inv] # None => answer # current[tx[r].inv]
                 /\ answer.status = "CANCELLED" =>
                       /\ current[tx[r].inv] # None
                       /\ current[tx[r].inv].status = "ACCEPTED"
<1> DEFINE i == tx[r].inv
<1> USE DEF RsvpInv
<1>1. CASE Cancel(r)
  <2>1. /\ tx[r].pc = "ready" /\ i \in Invitation
        /\ current[i] # None /\ current[i].status = "ACCEPTED"
    BY <1>1 DEF Cancel, ReadsStayTrue, Permits, TxShape
  <2>2. current[i] \in Answer
    BY <2>1 DEF TypeOK
  <2> DEFINE answer == Cleared("CANCELLED", current[i].note)
  <2>3. answer \in Answer /\ SoundCounts(answer) /\ answer.status = "CANCELLED"
    BY <2>2, ClearedIsSound DEF Cleared
  <2>4. Store(r, answer)
    BY <1>1 DEF Cancel
  <2> HIDE DEF answer
  <2> QED
    BY <2>1, <2>3, <2>4
<1>2. ASSUME NEW input \in Input, Create(r, input) \/ Update(r, input), ~Abort(r)
      PROVE  /\ tx[r].pc = "ready" /\ Fits(input, tx[r].party)
             /\ Store(r, Normalized(input, tx[r].party))
             /\ current[i] # None => Normalized(input, tx[r].party) # current[i]
  <2>1. CASE Create(r, input)
    BY <1>2, <2>1 DEF Create
  <2>2. CASE Update(r, input)
    BY <1>2, <2>2 DEF Update, Same, ReadsStayTrue
  <2> QED
    BY <1>2, <2>1, <2>2
<1>3. ASSUME NEW input \in Input, Create(r, input) \/ Update(r, input), ~Abort(r)
      PROVE  \E answer \in Answer :
                 /\ tx[r].pc = "ready" /\ SoundCounts(answer) /\ Store(r, answer)
                 /\ current[i] # None => answer # current[i]
                 /\ answer.status # "CANCELLED"
  <2>1. tx[r].party \in Party
    BY <1>2, <1>3 DEF TxShape
  <2> QED
    BY <1>2, <1>3, <2>1, NormalizedIsSound
<1> QED
  BY <1>1, <1>3

(* The host's requests.                                                    *)
LEMMA HostKeeps ==
    ASSUME RsvpInv, NEW i \in Invitation,
           \/ Revoke(i)
           \/ \E value \in BOOLEAN : SetArchived(i, value)
           \/ \E p \in Party : SetParty(i, p)
    PROVE  RsvpInv'
<1> USE DEF RsvpInv
<1>1. UNCHANGED <<current, history, tx>>
  BY DEF Revoke, SetArchived, SetParty
<1>2. TypeOK'
  BY DEF Revoke, SetArchived, SetParty, TypeOK
<1>3. TxShape' /\ LockExclusive' /\ HistoryEndsWithCurrent' /\ CountsAreSound'
  BY <1>1 DEF TxShape, LockExclusive, Holds, HistoryEndsWithCurrent, CountsAreSound, SoundCounts
<1>4. \A r \in Request : tx[r].pc \in {"context", "ready"} => ~revoked'[tx[r].inv]
  <2>1. CASE Revoke(i)
    <3>1. \A r \in Request : tx[r].pc \in {"context", "ready"} => tx[r].inv # i
      BY <2>1 DEF Revoke, LockFree, LockHolders
    <3> QED
      BY <2>1, <3>1 DEF Revoke, ReadsStayTrue, TypeOK
  <2>2. CASE UNCHANGED revoked
    BY <2>2 DEF ReadsStayTrue
  <2> QED
    BY <2>1, <2>2 DEF SetArchived, SetParty
<1>5. ReadsStayTrue'
  BY <1>1, <1>4 DEF ReadsStayTrue, Permits
<1> QED
  BY <1>2, <1>3, <1>5

LEMMA RsvpStep == RsvpInv /\ [Next]_vars => RsvpInv'
<1> SUFFICES ASSUME RsvpInv, [Next]_vars PROVE RsvpInv'
  OBVIOUS
<1>1. ASSUME NEW r \in Request, RequestStep(r) \/ RequestFails(r)
      PROVE  RsvpInv'
  <2>1. CASE Lock(r) \/ ReadContext(r) \/ ReadCurrent(r)
    BY <2>1, LockKeeps, ReadContextKeeps, ReadCurrentKeeps
  <2>2. CASE Cancel(r) \/ \E input \in Input : Create(r, input) \/ Update(r, input)
    BY <2>2, WritesStore, StoreKeeps, AbortKeeps
  <2>3. CASE RequestFails(r)
    BY <2>3, AbortKeeps DEF RequestFails
  <2> QED
    BY <1>1, <2>1, <2>2, <2>3 DEF RequestStep
<1>2. CASE Next
  BY <1>1, <1>2, StartKeeps, HostKeeps DEF Next
<1>3. CASE UNCHANGED vars
  BY <1>3 DEF vars, RsvpInv, TypeOK, TxShape, LockExclusive, Holds,
              HistoryEndsWithCurrent, CountsAreSound, SoundCounts, ReadsStayTrue, Permits
<1> QED
  BY <1>2, <1>3

LEMMA RsvpInvHolds == Spec => []RsvpInv
  BY RsvpInit, RsvpStep, PTL DEF Spec
-----------------------------------------------------------------------------
(* The rows and transactions have their types; parties and answers in the  *)
(* tables meet the CHECK constraints of their columns.                     *)
THEOREM RsvpTyped == Spec => []TypeOK
<1>1. RsvpInv => TypeOK
  BY DEF RsvpInv
<1> QED
  BY RsvpInvHolds, <1>1, PTL

(* rsvps and rsvp_history never disagree about the current answer.         *)
THEOREM RsvpHistoryCurrent == Spec => []HistoryEndsWithCurrent
<1>1. RsvpInv => HistoryEndsWithCurrent
  BY DEF RsvpInv
<1> QED
  BY RsvpInvHolds, <1>1, PTL

(* Every answer that normalize let through adds up and has somebody        *)
(* attending, for parties of any size.                                     *)
THEOREM RsvpCountsSound == Spec => []CountsAreSound
<1>1. RsvpInv => CountsAreSound
  BY DEF RsvpInv
<1> QED
  BY RsvpInvHolds, <1>1, PTL

(* The row lock makes the checks of a request hold until its write.        *)
THEOREM RsvpReadsStayTrue == Spec => []ReadsStayTrue
<1>1. RsvpInv => ReadsStayTrue
  BY DEF RsvpInv
<1> QED
  BY RsvpInvHolds, <1>1, PTL

(* All of it together: what is stored of answers is sound at any time, for *)
(* any number of requests, invitations and people.                         *)
THEOREM RsvpAnswersSound == Spec => []AnswersInv
<1>1. RsvpInv => AnswersInv
  BY DEF RsvpInv, AnswersInv
<1> QED
  BY RsvpInvHolds, <1>1, PTL

(* What any step does to the answers: nothing, or one sound new answer on  *)
(* an invitation that is not revoked, stored with its snapshot.            *)
LEMMA AnswersChangeByStore ==
    ASSUME RsvpInv, [Next]_vars
    PROVE  \/ UNCHANGED <<current, history>> /\ UNCHANGED revoked
           \/ UNCHANGED <<current, history>> /\ \E i \in Invitation : Revoke(i)
           \/ \E r \in Request, answer \in Answer :
                 /\ Store(r, answer) /\ tx[r].inv \in Invitation
                 /\ ~revoked[tx[r].inv]
                 /\ current[tx[r].inv] # None => answer # current[tx[r].inv]
                 /\ answer.status = "CANCELLED" =>
                       /\ current[tx[r].inv] # None
                       /\ current[tx[r].inv].status = "ACCEPTED"
<1>1. ASSUME NEW r \in Request,
             \/ Cancel(r)
             \/ \E input \in Input : Create(r, input) \/ Update(r, input)
      PROVE  \/ UNCHANGED <<current, history, revoked>>
             \/ \E answer \in Answer :
                 /\ Store(r, answer) /\ tx[r].inv \in Invitation
                 /\ ~revoked[tx[r].inv]
                 /\ current[tx[r].inv] # None => answer # current[tx[r].inv]
                 /\ answer.status = "CANCELLED" =>
                       /\ current[tx[r].inv] # None
                       /\ current[tx[r].inv].status = "ACCEPTED"
  <2>1. tx[r].pc = "ready" => tx[r].inv \in Invitation /\ ~revoked[tx[r].inv]
    BY DEF RsvpInv, TxShape, ReadsStayTrue
  <2>2. Abort(r) => UNCHANGED <<current, history, revoked>>
    BY DEF Abort, Tables
  <2> QED
    BY <1>1, <2>1, <2>2, WritesStore
<1>2. ASSUME NEW r \in Request, NEW i \in Invitation,
             NEW op \in {"create", "update", "cancel"}, Start(r, i, op)
      PROVE  UNCHANGED <<current, history, revoked>>
  BY <1>2 DEF Start, Tables
<1>3. ASSUME NEW r \in Request,
             Lock(r) \/ ReadContext(r) \/ ReadCurrent(r) \/ RequestFails(r)
      PROVE  UNCHANGED <<current, history, revoked>>
  BY <1>3 DEF Lock, ReadContext, ReadCurrent, RequestFails, Abort, Tables
<1>4. ASSUME NEW i \in Invitation
      PROVE  /\ Revoke(i) => UNCHANGED <<current, history>>
             /\ \A value \in BOOLEAN :
                   SetArchived(i, value) => UNCHANGED <<current, history, revoked>>
             /\ \A p \in Party : SetParty(i, p) => UNCHANGED <<current, history, revoked>>
  BY DEF Revoke, SetArchived, SetParty
<1>5. CASE UNCHANGED vars
  BY <1>5 DEF vars
<1>6. CASE Next
  BY <1>1, <1>2, <1>3, <1>4, <1>6 DEF Next, RequestStep
<1> QED
  BY <1>5, <1>6

(* Revoking an invitation freezes its answer, whatever requests had        *)
(* resolved its link before.                                               *)
THEOREM RsvpRevokedFreeze == Spec => RevokedAnswersFreeze
<1>1. ASSUME RsvpInv, [Next]_vars
      PROVE  [\A i \in Invitation : revoked[i] => current'[i] = current[i]]_vars
  BY <1>1, AnswersChangeByStore DEF Store, RsvpInv, TypeOK
<1> QED
  BY <1>1, RsvpInvHolds, PTL DEF Spec, RevokedAnswersFreeze

(* Requests with their locks, reads and writes implement the plain log of  *)
(* answers: one at a time, none repeated, none after the revocation.       *)
THEOREM RsvpImplementsLog == Spec => LogSpec
<1>1. Init => Log!LogInit
  BY DEF Init, Log!LogInit
<1>2. ASSUME RsvpInv, [Next]_vars
      PROVE  [Log!LogNext]_(Log!logVars)
  <2>1. CASE UNCHANGED <<current, history>> /\ UNCHANGED revoked
    BY <2>1 DEF Log!logVars
  <2>2. CASE UNCHANGED <<current, history>> /\ \E i \in Invitation : Revoke(i)
    BY <2>2 DEF Revoke, Log!LogNext, Log!Close
  <2>3. ASSUME NEW r \in Request, NEW answer \in Answer,
               Store(r, answer), tx[r].inv \in Invitation, ~revoked[tx[r].inv],
               current[tx[r].inv] # None => answer # current[tx[r].inv],
               answer.status = "CANCELLED" =>
                  /\ current[tx[r].inv] # None
                  /\ current[tx[r].inv].status = "ACCEPTED"
        PROVE  Log!LogNext
    <3> DEFINE i == tx[r].inv
    <3>1. history' = [history EXCEPT ![i] = Append(@, answer)] /\ UNCHANGED revoked
      BY <2>3 DEF Store
    <3>2. /\ history[i] = <<>> <=> current[i] = None
          /\ history[i] # <<>> => Log!Newest(i) = current[i]
      BY <1>2, <2>3 DEF RsvpInv, HistoryEndsWithCurrent, Log!Newest
    <3>3. current[i] # None => current[i] \in Answer
      BY <1>2, <2>3 DEF RsvpInv, TypeOK
    <3>4. Log!Add(i, answer)
      BY <2>3, <3>1, <3>2, <3>3 DEF Log!Add
    <3> QED
      BY <2>3, <3>4 DEF Log!LogNext
  <2> QED
    BY <1>2, <2>1, <2>2, <2>3, AnswersChangeByStore
<1> QED
  BY <1>1, <1>2, RsvpInvHolds, PTL DEF Spec, LogSpec, Log!LogSpec

-----------------------------------------------------------------------------
(* WindowLimiter.                                                          *)

(* The sets of WindowLimiter are counted as elsewhere.                     *)
LEMMA CountedAlike == \A S : Limiter!Cardinality(S) = Cardinality(S)
  BY DEF Limiter!Cardinality, Cardinality

(* How many times of a list are later than t.                              *)
Later(list, t) == {n \in 1..Len(list) : list[n] > t}
Since(list, t) == Cardinality(Later(list, t))

(* Later calls are finitely many, fewer of a later instant; one more call. *)
LEMMA LaterIsFinite ==
    ASSUME NEW list \in Seq(Nat), NEW t \in Int
    PROVE  IsFiniteSet(Later(list, t)) /\ Since(list, t) \in Nat
<1>1. IsFiniteSet(1..Len(list)) /\ Later(list, t) \in SUBSET (1..Len(list))
  <2>1. Len(list) \in Int
    OBVIOUS
  <2> QED
    BY <2>1, FS_Interval DEF Later
<1> QED
  BY <1>1, FS_Subset, FS_CardinalityType DEF Since

LEMMA SinceShrinks ==
    ASSUME NEW list \in Seq(Nat), NEW t \in Int, NEW u \in Int, t <= u
    PROVE  Since(list, u) <= Since(list, t)
<1>1. Later(list, u) \in SUBSET Later(list, t)
  BY DEF Later
<1> QED
  BY <1>1, LaterIsFinite, FS_Subset DEF Since

LEMMA SinceGrows ==
    ASSUME NEW list \in Seq(Nat), NEW e \in Nat, NEW t \in Int
    PROVE  /\ Append(list, e) \in Seq(Nat)
           /\ Since(Append(list, e), t) = IF e > t THEN Since(list, t) + 1 ELSE Since(list, t)
<1> DEFINE new == Append(list, e)
<1>1. new \in Seq(Nat) /\ Len(new) = Len(list) + 1 /\ Len(list) \in Nat
      /\ new[Len(list) + 1] = e /\ \A n \in 1..Len(list) : new[n] = list[n]
  OBVIOUS
<1> HIDE DEF new
<1>2. IsFiniteSet(Later(list, t)) /\ Since(list, t) \in Nat
  BY LaterIsFinite
<1>5. Len(list) + 1 \notin Later(list, t)
  BY <1>1 DEF Later
<1>3. CASE e > t
  <2>1. Later(new, t) = Later(list, t) \cup {Len(list) + 1}
    BY <1>1, <1>3 DEF Later
  <2> QED
    BY <1>1, <1>2, <1>3, <1>5, <2>1, FS_AddElement DEF Since, new
<1>4. CASE ~(e > t)
  <2>1. Later(new, t) = Later(list, t)
    BY <1>1, <1>4 DEF Later
  <2> QED
    BY <1>1, <1>4, <2>1 DEF Since, new
<1> QED
  BY <1>3, <1>4

LEMMA NoneSince ==
    ASSUME NEW list \in Seq(Nat), NEW t \in Int, \A n \in 1..Len(list) : list[n] <= t
    PROVE  Since(list, t) = 0
<1>1. Later(list, t) = {}
  BY DEF Later
<1> QED
  BY <1>1, FS_EmptySet DEF Since

(* The window of a bucket is over.                                         *)
Expires(b) == now - b.startedAt >= Window

(* What a bucket of a window that is not over says of the calls let        *)
(* through: no more than it counts; and if nothing was forgotten, exactly  *)
(* that, with less than a limit in the window before.                      *)
Spent(b) == LET times == admitted[b.key] IN
    /\ b.attempts <= Maximum => Since(times, b.startedAt - 1) >= b.attempts
    /\ b.attempts >= Maximum => Since(times, b.startedAt - 1) >= Maximum
Exact(b) == LET times == admitted[b.key] IN
    /\ Since(times, b.startedAt - 1) <= b.attempts
    /\ Since(times, b.startedAt - 1) <= Maximum
    /\ Since(times, b.startedAt) < Since(times, b.startedAt - 1)
    /\ Since(times, b.startedAt - Window) < Since(times, b.startedAt - 1) + Maximum

(* A key without such a bucket was let through less than a limit within    *)
(* the last window, and not yet at this instant.                           *)
Idle(k) == /\ Since(admitted[k], now - 1) = 0
           /\ Since(admitted[k], now - Window) < Maximum

(* The key has a bucket whose window is not over.                          *)
Counts(k) == \E n \in 1..Len(buckets) : buckets[n].key = k /\ ~Expires(buckets[n])

(* LimiterInv says nothing of how many calls a bucket stands for, nor of   *)
(* the keys without one; a step could then let through any number.         *)
LimiterTyped ==
    /\ Limiter!TypeOK
    /\ \A n \in 1..Len(buckets) : buckets[n].startedAt <= now /\ buckets[n].attempts >= 1
    /\ \A k \in Key : \A n \in 1..Len(admitted[k]) : admitted[k][n] <= now
LimiterInd ==
    /\ LimiterTyped
    /\ Len(buckets) <= MaxBuckets
    /\ \A k \in refused : Since(admitted[k], now - Window) >= Maximum
    /\ \A n \in 1..Len(buckets) :
          ~Expires(buckets[n]) =>
              Spent(buckets[n]) /\ (buckets[n].key \notin forgotten => Exact(buckets[n]))
    /\ \A k \in Key \ forgotten : ~Counts(k) => Idle(k)

LEMMA LimiterFacts ==
    ASSUME LimiterTyped
    PROVE  /\ now \in 0..MaxNow /\ now \in Nat /\ MaxNow \in Nat
           /\ Window \in Nat \ {0} /\ Maximum \in Nat \ {0} /\ MaxBuckets \in Nat \ {0}
           /\ PruneFrom \in 0..MaxBuckets
           /\ buckets \in Seq(Limiter!Bucket) /\ Len(buckets) \in Nat
           /\ \A n \in 1..Len(buckets) : buckets[n] \in Limiter!Bucket
           /\ admitted \in [Key -> Seq(Nat)]
           /\ refused \subseteq Key /\ forgotten \subseteq Key
<1>1. /\ now \in 0..MaxNow /\ admitted \in [Key -> Seq(0..MaxNow)]
      /\ buckets \in Seq(Limiter!Bucket) /\ refused \subseteq Key /\ forgotten \subseteq Key
  BY DEF LimiterTyped, Limiter!TypeOK
<1>2. MaxNow \in Nat /\ Window \in Nat \ {0} /\ Maximum \in Nat \ {0} /\ MaxBuckets \in Nat \ {0}
      /\ PruneFrom \in 0..MaxBuckets
  BY LimiterAssumed DEF Limiter!LimiterAssumption
<1>3. \A k \in Key : admitted[k] \in Seq(Nat)
  BY <1>1, <1>2
<1> QED
  BY <1>1, <1>2, <1>3

LEMMA CountingIs ==
    ASSUME LimiterTyped
    PROVE  \A k : k \in Limiter!Counting <=> Counts(k)
<1>1. \A b : Limiter!Expired(b) <=> Expires(b)
  BY DEF Limiter!Expired, Expires
<1>2. Limiter!Range(buckets) = {buckets[n] : n \in 1..Len(buckets)}
  BY LimiterFacts DEF Limiter!Range
<1> QED
  BY <1>1, <1>2 DEF Limiter!Counting, Counts

(* The map with a new bucket for k: at its old place, or at the end.       *)
LEMMA PutIs ==
    ASSUME LimiterTyped, NEW k \in Key
    PROVE  LET map == Limiter!PutBucket(k)
               new == Limiter!NewBucket(k)
           IN  /\ map \in Seq(Limiter!Bucket)
               /\ \A m, n \in 1..Len(map) : map[m].key = map[n].key => m = n
               /\ new \in Limiter!Bucket /\ new.key = k /\ new.startedAt = now /\ new.attempts = 1
               /\ \A n \in 1..Len(map) :
                     map[n] = new \/ (map[n].key # k /\ \E m \in 1..Len(buckets) : map[n] = buckets[m])
               /\ \E n \in 1..Len(map) : /\ map[n] = new
                                         /\ n = Len(map) \/ Len(map) = Len(buckets)
<1> DEFINE map == Limiter!PutBucket(k)
           new == Limiter!NewBucket(k)
<1>0. /\ now \in Nat /\ buckets \in Seq(Limiter!Bucket) /\ Len(buckets) \in Nat
      /\ \A n \in 1..Len(buckets) : buckets[n] \in Limiter!Bucket
      /\ \A m, n \in 1..Len(buckets) : buckets[m].key = buckets[n].key => m = n
  BY LimiterFacts DEF LimiterTyped, Limiter!TypeOK
<1>1. new \in Limiter!Bucket /\ new.key = k /\ new.startedAt = now /\ new.attempts = 1
  BY <1>0 DEF Limiter!NewBucket, Limiter!Bucket
<1> HIDE DEF new
<1>2. CASE Limiter!Position(k) = {}
  <2>1. map = Append(buckets, new)
    BY <1>2 DEF Limiter!PutBucket, new
  <2> HIDE DEF map
  <2>2. \A n \in 1..Len(buckets) : buckets[n].key # k
    BY <1>2 DEF Limiter!Position
  <2>3. /\ map \in Seq(Limiter!Bucket) /\ Len(map) = Len(buckets) + 1
        /\ map[Len(map)] = new /\ \A n \in 1..Len(buckets) : map[n] = buckets[n]
    BY <1>0, <1>1, <2>1
  <2>4. Len(map) \in 1..Len(map) /\ \A n \in 1..Len(map) : n = Len(map) \/ n \in 1..Len(buckets)
    BY <1>0, <2>3
  <2> QED
    BY <1>0, <1>1, <2>2, <2>3, <2>4 DEF map, new
<1>3. CASE Limiter!Position(k) # {}
  <2>1. map = [n \in 1..Len(buckets) |-> IF buckets[n].key = k THEN new ELSE buckets[n]]
    BY <1>3 DEF Limiter!PutBucket, new
  <2> HIDE DEF map
  <2>2. PICK p \in 1..Len(buckets) : buckets[p].key = k
    BY <1>3 DEF Limiter!Position
  <2>3. \A n \in 1..Len(buckets) : map[n] = IF buckets[n].key = k THEN new ELSE buckets[n]
    BY <2>1
  <2>4. \A n \in 1..Len(buckets) : map[n] \in Limiter!Bucket
    BY <1>0, <1>1, <2>3
  <2>5. map \in [1..Len(buckets) -> Limiter!Bucket]
    BY <2>1, <2>3, <2>4
  <2>6. map \in Seq(Limiter!Bucket) /\ Len(map) = Len(buckets)
    BY <1>0, <2>5
  <2> QED
    BY <1>0, <1>1, <2>2, <2>3, <2>6 DEF map, new
<1> QED
  BY <1>2, <1>3

(* Some of the first n positions.                                          *)
LEMMA SomePositions ==
    ASSUME NEW n \in Nat, NEW S \in SUBSET (1..n)
    PROVE  IsFiniteSet(S) /\ Cardinality(S) \in Nat /\ Cardinality(S) <= n
<1>1. 1 \in Int /\ n \in Int /\ n >= 0
  OBVIOUS
<1>2. IsFiniteSet(1..n) /\ Cardinality(1..n) = IF 1 > n THEN 0 ELSE n - 1 + 1
  BY <1>1, FS_Interval
<1>3. Cardinality(1..n) = n
  BY <1>1, <1>2
<1> QED
  BY <1>2, <1>3, FS_Subset, FS_CardinalityType

(* What prune keeps: buckets it was given, no more than fit, and with them *)
(* the last one and all if they fit, unless their window is over.          *)
LEMMA PruneKeeps ==
    ASSUME LimiterTyped, NEW map \in Seq(Limiter!Bucket), Limiter!Prune(map),
           \A m, n \in 1..Len(map) : map[m].key = map[n].key => m = n
    PROVE  /\ buckets' \in Seq(Limiter!Bucket)
           /\ \A m, n \in 1..Len(buckets') : buckets'[m].key = buckets'[n].key => m = n
           /\ Len(buckets') <= MaxBuckets
           /\ \A n \in 1..Len(buckets') : \E m \in 1..Len(map) : buckets'[n] = map[m]
           /\ \A m \in 1..Len(map) :
                 ~Expires(map[m]) /\ (m = Len(map) \/ Len(map) <= MaxBuckets) =>
                     \E n \in 1..Len(buckets') : buckets'[n] = map[m]
<1>0. MaxBuckets \in Nat \ {0} /\ PruneFrom \in 0..MaxBuckets /\ Len(map) \in Nat
  BY LimiterFacts
<1>1. CASE Len(map) < PruneFrom /\ buckets' = map
  BY <1>0, <1>1
<1> DEFINE live == {n \in 1..Len(map) : ~Limiter!Expired(map[n])}
<1>2. ASSUME NEW kept \in SUBSET live,
             Limiter!Cardinality(kept) = IF Limiter!Cardinality(live) > MaxBuckets THEN MaxBuckets
                                         ELSE Limiter!Cardinality(live),
             \A n \in live \ kept, m \in kept : n < m,
             NEW at \in [1..Limiter!Cardinality(kept) -> kept],
             \A i, j \in 1..Limiter!Cardinality(kept) : i < j => at[i] < at[j],
             buckets' = [i \in 1..Limiter!Cardinality(kept) |-> map[at[i]]]
      PROVE  /\ buckets' \in Seq(Limiter!Bucket)
             /\ \A m, n \in 1..Len(buckets') : buckets'[m].key = buckets'[n].key => m = n
             /\ Len(buckets') <= MaxBuckets
             /\ \A n \in 1..Len(buckets') : \E m \in 1..Len(map) : buckets'[n] = map[m]
             /\ \A m \in 1..Len(map) :
                   ~Expires(map[m]) /\ (m = Len(map) \/ Len(map) <= MaxBuckets) =>
                       \E n \in 1..Len(buckets') : buckets'[n] = map[m]
  <2> DEFINE size == Cardinality(kept)
  <2>1. IsFiniteSet(live) /\ Cardinality(live) <= Len(map) /\ Cardinality(live) \in Nat
    <3>1. live \in SUBSET (1..Len(map))
      OBVIOUS
    <3> HIDE DEF live
    <3> QED
      BY <1>0, <3>1, SomePositions
  <2>2. IsFiniteSet(kept) /\ size \in Nat /\ (Cardinality(live) = size => live = kept)
    <3> HIDE DEF live
    <3> QED
      BY <2>1, FS_Subset, FS_CardinalityType
  <2>3. /\ size = IF Cardinality(live) > MaxBuckets THEN MaxBuckets ELSE Cardinality(live)
        /\ at \in [1..size -> kept] /\ (\A i, j \in 1..size : i < j => at[i] < at[j])
        /\ buckets' = [i \in 1..size |-> map[at[i]]]
    BY <1>2, CountedAlike
  <2>4. \A n \in kept : n \in 1..Len(map) /\ n \in Nat /\ map[n] \in Limiter!Bucket
    BY <1>0
  <2>5. \A m \in 1..Len(map) : ~Expires(map[m]) => m \in live
    BY DEF Limiter!Expired, Expires
  <2>6. \A n \in live \ kept, m \in kept : n < m
    BY <1>2
  <2> HIDE DEF live, size
  <2>7. buckets' \in Seq(Limiter!Bucket) /\ Len(buckets') = size
        /\ \A i \in 1..size : buckets'[i] = map[at[i]] /\ at[i] \in kept
    <3>1. \A i \in 1..size : at[i] \in kept /\ map[at[i]] \in Limiter!Bucket
      BY <2>3, <2>4
    <3>2. buckets' \in [1..size -> Limiter!Bucket]
      BY <2>3, <3>1
    <3> QED
      BY <2>2, <2>3, <3>1, <3>2
  <2>8. \A i, j \in 1..size : at[i] = at[j] => i = j
    <3> SUFFICES ASSUME NEW i \in 1..size, NEW j \in 1..size, at[i] = at[j], i # j PROVE FALSE
      OBVIOUS
    <3>1. i < j \/ j < i
      BY <2>2
    <3>2. at[i] \in Nat /\ at[j] \in Nat
      BY <2>3, <2>4
    <3> QED
      BY <2>3, <3>1, <3>2
  <2>9. \A n \in kept : \E i \in 1..size : at[i] = n
    <3>1. at \in Injection(1..size, kept)
      BY <2>3, <2>8 DEF Injection, IsInjective
    <3>2. Cardinality(1..size) = size /\ Cardinality(kept) = size
      BY <2>2, FS_Interval DEF size
    <3>3. at \in Surjection(1..size, kept)
      BY <2>2, <3>1, <3>2, FS_Injection
    <3> QED
      BY <3>3 DEF Surjection
  <2>10. \A m, n \in 1..size : buckets'[m].key = buckets'[n].key => m = n
    <3> SUFFICES ASSUME NEW m \in 1..size, NEW n \in 1..size, buckets'[m].key = buckets'[n].key
                 PROVE  m = n
      OBVIOUS
    <3>1. map[at[m]].key = map[at[n]].key /\ at[m] \in 1..Len(map) /\ at[n] \in 1..Len(map)
      BY <2>4, <2>7
    <3> QED
      BY <2>8, <3>1
  <2>11. ASSUME NEW m \in 1..Len(map), ~Expires(map[m]), m = Len(map) \/ Len(map) <= MaxBuckets
         PROVE  \E n \in 1..size : buckets'[n] = map[m]
    <3>1. m \in kept
      <4>1. m \in live
        BY <2>5, <2>11
      <4>2. CASE Cardinality(live) <= MaxBuckets
        BY <1>0, <2>1, <2>2, <2>3, <4>1, <4>2
      <4>3. CASE Cardinality(live) > MaxBuckets
        <5>1. m = Len(map) /\ size = MaxBuckets
          BY <1>0, <2>1, <2>3, <2>11, <4>3
        <5>2. 1 \in 1..size
          BY <1>0, <5>1
        <5>4. at[1] \in kept /\ at[1] \in 1..Len(map)
          BY <2>4, <2>7, <5>2
        <5>3. at[1] <= m
          BY <1>0, <5>1, <5>4
        <5>5. m \notin kept => m < at[1]
          BY <2>6, <4>1, <5>4
        <5> QED
          BY <1>0, <5>3, <5>4, <5>5
      <4> QED
        BY <1>0, <2>1, <4>2, <4>3
    <3> QED
      BY <2>7, <2>9, <3>1
  <2>12. size <= MaxBuckets
    BY <1>0, <2>1, <2>3
  <2>13. \A n \in 1..size : \E m \in 1..Len(map) : buckets'[n] = map[m]
    BY <2>4, <2>7
  <2> QED
    BY <2>7, <2>10, <2>11, <2>12, <2>13
<1> QED
  BY <1>1, <1>2 DEF Limiter!Prune, Limiter!Keep

LEMMA LimiterInit == Limiter!Init => LimiterInd
<1> SUFFICES ASSUME Limiter!Init PROVE LimiterInd
  OBVIOUS
<1>1. /\ MaxNow \in Nat /\ Window \in Nat \ {0} /\ Maximum \in Nat \ {0} /\ MaxBuckets \in Nat \ {0}
  BY LimiterAssumed DEF Limiter!LimiterAssumption
<1>2. /\ now = 0 /\ buckets = <<>> /\ admitted = [k \in Key |-> <<>>] /\ refused = {}
      /\ forgotten = {}
  BY DEF Limiter!Init
<1>3. Len(buckets) = 0 /\ buckets \in Seq(Limiter!Bucket) /\ \A k \in Key : admitted[k] = <<>>
  BY <1>2
<1>4. LimiterTyped
  BY <1>1, <1>2, <1>3 DEF LimiterTyped, Limiter!TypeOK
<1>5. \A t \in Int : Since(<<>>, t) = 0
  <2>1. <<>> \in Seq(Nat) /\ \A t \in Int : \A n \in 1..Len(<<>>) : <<>>[n] <= t
    OBVIOUS
  <2> QED
    BY <2>1, NoneSince
<1>6. \A k \in Key : Idle(k)
  BY <1>1, <1>2, <1>3, <1>5 DEF Idle
<1> QED
  BY <1>1, <1>2, <1>3, <1>4, <1>6 DEF LimiterInd

LEMMA LimiterTicks == LimiterInd /\ Limiter!Tick => LimiterInd'
<1> SUFFICES ASSUME LimiterInd, Limiter!Tick PROVE LimiterInd'
  OBVIOUS
<1>0. /\ now \in Nat /\ MaxNow \in Nat /\ now \in 0..MaxNow /\ Window \in Nat \ {0} /\ Maximum \in Nat \ {0}
      /\ \A n \in 1..Len(buckets) : buckets[n] \in Limiter!Bucket
      /\ admitted \in [Key -> Seq(Nat)]
  BY LimiterFacts DEF LimiterInd
<1>1. now < MaxNow /\ now' = now + 1 /\ refused' = {} /\ UNCHANGED <<buckets, admitted, forgotten>>
  BY DEF Limiter!Tick
<1>2. LimiterTyped'
  <2>1. Limiter!TypeOK /\ now + 1 \in 0..MaxNow
    BY <1>0, <1>1 DEF LimiterInd, LimiterTyped
  <2>2. Limiter!TypeOK'
    BY <1>1, <2>1 DEF Limiter!TypeOK
  <2>3. \A n \in 1..Len(buckets) : buckets[n].startedAt <= now + 1 /\ buckets[n].attempts >= 1
    BY <1>0 DEF LimiterInd, LimiterTyped, Limiter!Bucket
  <2>4. \A k \in Key : \A n \in 1..Len(admitted[k]) : admitted[k][n] <= now + 1
    <3> SUFFICES ASSUME NEW k \in Key, NEW n \in 1..Len(admitted[k])
                 PROVE  admitted[k][n] <= now + 1
      OBVIOUS
    <3>1. admitted[k] \in Seq(Nat) /\ admitted[k][n] <= now
      BY <1>0 DEF LimiterInd, LimiterTyped
    <3>2. admitted[k][n] \in Nat
      BY <3>1
    <3> QED
      BY <1>0, <3>1, <3>2
  <2> QED
    BY <1>1, <2>2, <2>3, <2>4 DEF LimiterTyped
<1>3. \A n \in 1..Len(buckets) : buckets[n].startedAt \in Nat /\ buckets[n].startedAt <= now
  BY <1>0 DEF LimiterInd, LimiterTyped, Limiter!Bucket
<1>4. \A n \in 1..Len(buckets) : ~Expires(buckets[n])' => ~Expires(buckets[n])
  BY <1>0, <1>1, <1>3 DEF Expires
<1>5. \A n \in 1..Len(buckets) : (Spent(buckets[n])' <=> Spent(buckets[n]))
                                /\ (Exact(buckets[n])' <=> Exact(buckets[n]))
  BY <1>1 DEF Spent, Exact
<1>6. ASSUME NEW k \in Key \ forgotten', ~Counts(k)' PROVE Idle(k)'
  <2> DEFINE times == admitted[k]
  <2>1. times \in Seq(Nat) /\ \A n \in 1..Len(times) : times[n] <= now
    BY <1>0 DEF LimiterInd, LimiterTyped
  <2>2. Since(times, now) = 0
    BY <1>0, <2>1, NoneSince
  <2>3. Since(times, now + 1 - Window) < Maximum
    <3>1. CASE Counts(k)
      <4>1. PICK n \in 1..Len(buckets) : buckets[n].key = k /\ ~Expires(buckets[n])
        BY <3>1 DEF Counts
      <4>2. Expires(buckets[n])'
        BY <1>1, <1>6, <4>1 DEF Counts
      <4>3. buckets[n].startedAt = now + 1 - Window
        <5>1. buckets[n].startedAt \in Nat /\ now \in Nat /\ Window \in Nat
          BY <1>0, <1>3
        <5>2. ~(now - buckets[n].startedAt >= Window)
          BY <4>1 DEF Expires
        <5>3. now' - buckets[n].startedAt >= Window
          BY <1>1, <4>2 DEF Expires
        <5>4. (now + 1) - buckets[n].startedAt >= Window
          BY <1>1, <5>3
        <5> QED
          BY <5>1, <5>2, <5>4
      <4>4. Exact(buckets[n])
        BY <1>1, <1>6, <4>1 DEF LimiterInd
      <4>5. now + 1 - Window \in Int /\ now + 1 - Window - 1 \in Int
        BY <1>0
      <4>6. Since(times, now + 1 - Window) \in Nat /\ Since(times, now + 1 - Window - 1) \in Nat
        BY <2>1, <4>5, LaterIsFinite
      <4> QED
        BY <1>0, <4>1, <4>3, <4>4, <4>6 DEF Exact
    <3>2. CASE ~Counts(k)
      <4>1. Since(times, now - Window) < Maximum
        BY <1>1, <1>6, <3>2 DEF LimiterInd, Idle
      <4>2. Since(times, now + 1 - Window) <= Since(times, now - Window)
        BY <1>0, <2>1, SinceShrinks
      <4>3. Since(times, now + 1 - Window) \in Nat /\ Since(times, now - Window) \in Nat
        BY <1>0, <2>1, LaterIsFinite
      <4> QED
        BY <1>0, <4>1, <4>2, <4>3
    <3> QED
      BY <3>1, <3>2
  <2>4. now' - 1 = now /\ now' - Window = now + 1 - Window
    BY <1>0, <1>1
  <2> QED
    BY <1>1, <2>2, <2>3, <2>4 DEF Idle
<1> QED
  BY <1>1, <1>2, <1>4, <1>5, <1>6 DEF LimiterInd

(* A call is let through: one more time, now.                              *)
LEMMA LimiterAdmits ==
    ASSUME LimiterTyped, NEW k \in Key, Limiter!Admit(k)
    PROVE  /\ now' = now /\ refused' = {} /\ admitted' \in [Key -> Seq(0..MaxNow)]
           /\ \A j \in Key : j # k => admitted'[j] = admitted[j]
           /\ \A j \in Key : \A n \in 1..Len(admitted'[j]) : admitted'[j][n] <= now
           /\ \A t \in Int : Since(admitted'[k], t) = IF now > t THEN Since(admitted[k], t) + 1
                                                      ELSE Since(admitted[k], t)
<1> DEFINE times == admitted[k]
           new == Append(times, now)
<1>1. now \in Nat /\ now \in 0..MaxNow /\ admitted \in [Key -> Seq(0..MaxNow)]
      /\ times \in Seq(0..MaxNow) /\ times \in Seq(Nat) /\ now <= now
      /\ \A j \in Key : \A n \in 1..Len(admitted[j]) : admitted[j][n] <= now
  BY LimiterFacts DEF LimiterTyped, Limiter!TypeOK
<1>2. /\ now' = now /\ refused' = {} /\ admitted' = [admitted EXCEPT ![k] = new]
  BY DEF Limiter!Admit
<1>3. \A t \in Int : Since(new, t) = IF now > t THEN Since(times, t) + 1 ELSE Since(times, t)
  BY <1>1, SinceGrows
<1>4. new \in Seq(0..MaxNow) /\ \A n \in 1..Len(new) : new[n] <= now
  <2>1. new \in Seq(0..MaxNow) /\ Len(new) = Len(times) + 1 /\ Len(times) \in Nat
        /\ new[Len(times) + 1] = now /\ \A n \in 1..Len(times) : new[n] = times[n]
    BY <1>1
  <2> HIDE DEF new
  <2>2. \A n \in 1..Len(new) : n = Len(times) + 1 \/ n \in 1..Len(times)
    BY <2>1
  <2> QED
    BY <1>1, <2>1, <2>2
<1> HIDE DEF new
<1>5. admitted' \in [Key -> Seq(0..MaxNow)] /\ admitted'[k] = new
      /\ \A j \in Key : j # k => admitted'[j] = admitted[j]
  BY <1>1, <1>2, <1>4
<1>6. ASSUME NEW j \in Key PROVE \A n \in 1..Len(admitted'[j]) : admitted'[j][n] <= now
  BY <1>1, <1>4, <1>5
<1> QED
  BY <1>2, <1>3, <1>5, <1>6

(* A window starts, with a bucket that is kept.                            *)
LEMMA WindowStarts ==
    ASSUME LimiterInd, NEW k \in Key, Limiter!StartWindow(k)
    PROVE  /\ LimiterInd'
           /\ \E n \in 1..Len(buckets') : buckets'[n].key = k
           /\ \A j \in Key : j # k => admitted'[j] = admitted[j]
<1> DEFINE map == Limiter!PutBucket(k)
           new == Limiter!NewBucket(k)
           times == admitted[k]
<1>0. /\ LimiterTyped /\ now \in Nat /\ MaxNow \in Nat /\ now \in 0..MaxNow
      /\ Window \in Nat \ {0} /\ Maximum \in Nat \ {0} /\ MaxBuckets \in Nat \ {0}
      /\ \A n \in 1..Len(buckets) : buckets[n] \in Limiter!Bucket
      /\ admitted \in [Key -> Seq(Nat)] /\ Len(buckets) \in Nat /\ Len(buckets) <= MaxBuckets
      /\ refused \subseteq Key /\ forgotten \subseteq Key
  BY LimiterFacts DEF LimiterInd
<1>1. /\ Limiter!Admit(k) /\ Limiter!Prune(map) /\ Limiter!StartsWindow(k)
      /\ forgotten' = forgotten \cup (Limiter!Counting \ {b.key : b \in Limiter!Range(buckets')})
  BY DEF Limiter!StartWindow
<1>2. /\ now' = now /\ refused' = {} /\ admitted' \in [Key -> Seq(0..MaxNow)]
      /\ \A j \in Key : j # k => admitted'[j] = admitted[j]
      /\ \A j \in Key : \A n \in 1..Len(admitted'[j]) : admitted'[j][n] <= now
      /\ \A t \in Int : Since(admitted'[k], t) = IF now > t THEN Since(times, t) + 1 ELSE Since(times, t)
  BY <1>0, <1>1, LimiterAdmits
<1>30. /\ map \in Seq(Limiter!Bucket)
       /\ \A m, n \in 1..Len(map) : map[m].key = map[n].key => m = n
       /\ new \in Limiter!Bucket /\ new.key = k /\ new.startedAt = now /\ new.attempts = 1
       /\ \A n \in 1..Len(map) :
             map[n] = new \/ (map[n].key # k /\ \E m \in 1..Len(buckets) : map[n] = buckets[m])
       /\ \E n \in 1..Len(map) : map[n] = new /\ (n = Len(map) \/ Len(map) = Len(buckets))
  BY <1>0, PutIs
<1>31. PICK fresh : fresh = new
  OBVIOUS
<1> HIDE DEF map, new
<1>3. /\ map \in Seq(Limiter!Bucket)
      /\ \A m, n \in 1..Len(map) : map[m].key = map[n].key => m = n
      /\ fresh \in Limiter!Bucket /\ fresh.key = k /\ fresh.startedAt = now /\ fresh.attempts = 1
      /\ \A n \in 1..Len(map) :
            map[n] = fresh \/ (map[n].key # k /\ \E m \in 1..Len(buckets) : map[n] = buckets[m])
      /\ \E n \in 1..Len(map) : map[n] = fresh /\ (n = Len(map) \/ Len(map) = Len(buckets))
  BY <1>30, <1>31
<1>4. /\ buckets' \in Seq(Limiter!Bucket)
      /\ \A m, n \in 1..Len(buckets') : buckets'[m].key = buckets'[n].key => m = n
      /\ Len(buckets') <= MaxBuckets
      /\ \A n \in 1..Len(buckets') : \E m \in 1..Len(map) : buckets'[n] = map[m]
      /\ \A m \in 1..Len(map) :
            ~Expires(map[m]) /\ (m = Len(map) \/ Len(map) <= MaxBuckets) =>
                \E n \in 1..Len(buckets') : buckets'[n] = map[m]
  BY <1>0, <1>1, <1>3, PruneKeeps
<1>5. \A n \in 1..Len(buckets') :
         \/ buckets'[n] = fresh
         \/ buckets'[n].key # k /\ \E m \in 1..Len(buckets) : buckets'[n] = buckets[m]
  <2> SUFFICES ASSUME NEW n \in 1..Len(buckets')
               PROVE  \/ buckets'[n] = fresh
                      \/ buckets'[n].key # k /\ \E m \in 1..Len(buckets) : buckets'[n] = buckets[m]
    OBVIOUS
  <2>1. PICK p \in 1..Len(map) : buckets'[n] = map[p]
    BY <1>4
  <2> QED
    BY <1>3, <2>1
<1>6. \A b : Expires(b)' <=> Expires(b)
  BY <1>2 DEF Expires
<1>7. \E n \in 1..Len(buckets') : buckets'[n] = fresh
  <2>1. ~Expires(fresh)
    BY <1>0, <1>3 DEF Expires
  <2>2. PICK m \in 1..Len(map) : map[m] = fresh /\ (m = Len(map) \/ Len(map) = Len(buckets))
    BY <1>3
  <2>3. ~Expires(map[m]) /\ (m = Len(map) \/ Len(map) <= MaxBuckets)
    BY <1>0, <2>1, <2>2
  <2>4. \E n \in 1..Len(buckets') : buckets'[n] = map[m]
    BY <1>4, <2>3
  <2> QED
    BY <2>2, <2>4
<1>8. ~Counts(k) /\ (k \notin forgotten => Idle(k))
  <2>1. ~Counts(k)
    BY <1>1 DEF Limiter!StartsWindow, Limiter!Position, Limiter!Expired, Expires, Counts
  <2> QED
    BY <2>1 DEF LimiterInd
<1>9. /\ forgotten' \subseteq Key /\ forgotten \subseteq forgotten' /\ (k \in forgotten' => k \in forgotten)
      /\ \A j \in Key \ forgotten' : Counts(j) => \E n \in 1..Len(buckets') : buckets'[n].key = j
  <2>1. \A j : j \in Limiter!Counting <=> Counts(j)
    BY <1>0, CountingIs
  <2>2. \A j : Counts(j) => j \in Key
    BY <1>0 DEF Counts, Limiter!Bucket
  <2>3. Limiter!Range(buckets') = {buckets'[n] : n \in 1..Len(buckets')}
    BY <1>4 DEF Limiter!Range
  <2> QED
    BY <1>0, <1>1, <1>8, <2>1, <2>2, <2>3
<1>10. LimiterTyped'
  <2>1. Limiter!TypeOK'
    <3>1. now' \in 0..MaxNow /\ refused' \subseteq Key
      BY <1>0, <1>2
    <3> QED
      BY <1>2, <1>4, <1>9, <3>1 DEF Limiter!TypeOK
  <2>2. \A n \in 1..Len(buckets') : buckets'[n].startedAt <= now /\ buckets'[n].attempts >= 1
    <3>1. fresh.startedAt <= now /\ fresh.attempts >= 1
      BY <1>0, <1>3
    <3>2. \A m \in 1..Len(buckets) : buckets[m].startedAt <= now /\ buckets[m].attempts >= 1
      BY <1>0 DEF LimiterTyped
    <3> QED
      BY <1>5, <3>1, <3>2
  <2> QED
    BY <1>2, <2>1, <2>2 DEF LimiterTyped
<1>11. times \in Seq(Nat) /\ \A t \in Int : Since(times, t) \in Nat
  BY <1>0, LaterIsFinite
<1>12. /\ now - 1 \in Int /\ now - Window \in Int /\ now > now - 1 /\ now > now - Window /\ now \in Int
       /\ ~(now > now)
  BY <1>0
<1>13. Since(times, now) = 0
  BY <1>0, <1>11, NoneSince DEF LimiterTyped
<1>14. /\ Since(admitted'[k], now - 1) = Since(times, now - 1) + 1
       /\ Since(admitted'[k], now) = 0
       /\ Since(admitted'[k], now - Window) = Since(times, now - Window) + 1
  BY <1>2, <1>12, <1>13
<1>15. Spent(fresh)' /\ (k \notin forgotten' => Exact(fresh)')
  <2>1. fresh.key = k /\ fresh.startedAt = now /\ fresh.attempts = 1
    BY <1>3
  <2>2. Spent(fresh)'
    <3>1. Since(times, now - 1) \in Nat
      BY <1>11, <1>12
    <3>2. Since(admitted'[k], now - 1) >= 1
      BY <1>14, <3>1
    <3>3. 1 >= Maximum => Maximum = 1
      BY <1>0
    <3> QED
      BY <2>1, <3>2, <3>3 DEF Spent
  <2>3. k \notin forgotten' => Since(times, now - 1) = 0 /\ Since(times, now - Window) < Maximum
    BY <1>8, <1>9 DEF Idle
  <2>4. ASSUME k \notin forgotten' PROVE Exact(fresh)'
    <3>1. /\ Since(admitted'[k], now - 1) = 1 /\ Since(admitted'[k], now) = 0
          /\ Since(admitted'[k], now - Window) = Since(times, now - Window) + 1
          /\ Since(times, now - Window) < Maximum /\ Since(times, now - Window) \in Nat
      BY <1>11, <1>12, <1>14, <2>3, <2>4
    <3>2. Since(admitted'[k], now - Window) < 1 + Maximum /\ 1 <= Maximum
      BY <1>0, <3>1
    <3> QED
      BY <2>1, <3>1, <3>2 DEF Exact
  <2> QED
    BY <2>2, <2>4
<1>16. ASSUME NEW n \in 1..Len(buckets'), ~Expires(buckets[n])'
       PROVE  Spent(buckets[n])' /\ ((buckets[n].key)' \notin forgotten' => Exact(buckets[n])')
  <2>1. CASE buckets'[n] = fresh
    <3>1. (Spent(buckets[n])' <=> Spent(fresh)') /\ (Exact(buckets[n])' <=> Exact(fresh)')
      BY <2>1 DEF Spent, Exact
    <3> QED
      BY <1>3, <1>15, <2>1, <3>1
  <2>2. ASSUME buckets'[n].key # k, NEW m \in 1..Len(buckets), buckets'[n] = buckets[m]
        PROVE  Spent(buckets[n])' /\ ((buckets[n].key)' \notin forgotten' => Exact(buckets[n])')
    <3>1. ~Expires(buckets[m])
      BY <1>2, <1>16, <2>2 DEF Expires
    <3>2. admitted'[buckets[m].key] = admitted[buckets[m].key]
      BY <1>0, <1>2, <2>2 DEF Limiter!Bucket
    <3>3. Spent(buckets[m]) /\ (buckets[m].key \notin forgotten => Exact(buckets[m]))
      BY <3>1 DEF LimiterInd
    <3>4. (Spent(buckets[n])' <=> Spent(buckets[m])) /\ (Exact(buckets[n])' <=> Exact(buckets[m]))
      BY <2>2, <3>2 DEF Spent, Exact
    <3> QED
      BY <1>9, <2>2, <3>3, <3>4
  <2> QED
    BY <1>5, <2>1, <2>2
<1>17. ASSUME NEW j \in Key \ forgotten', ~Counts(j)' PROVE Idle(j)'
  <2>1. j # k
    <3>1. ~Expires(fresh)'
      BY <1>0, <1>2, <1>3 DEF Expires
    <3> QED
      BY <1>3, <1>7, <1>17, <3>1 DEF Counts, Expires
  <2>2. ~Counts(j)
    <3> SUFFICES ASSUME Counts(j) PROVE FALSE
      OBVIOUS
    <3>1. PICK n \in 1..Len(buckets') : buckets'[n].key = j
      BY <1>9, <1>17
    <3>2. PICK m \in 1..Len(buckets) : buckets'[n] = buckets[m]
      BY <1>3, <1>5, <2>1, <3>1
    <3>3. PICK p \in 1..Len(buckets) : buckets[p].key = j /\ ~Expires(buckets[p])
      BY DEF Counts
    <3>4. p = m
      BY <1>0, <3>1, <3>2, <3>3 DEF LimiterTyped, Limiter!TypeOK
    <3> QED
      BY <1>2, <1>17, <3>1, <3>2, <3>3, <3>4 DEF Counts, Expires
  <2>3. Idle(j)
    BY <1>9, <1>17, <2>2 DEF LimiterInd
  <2> QED
    BY <1>2, <1>17, <2>1, <2>3 DEF Idle
<1> QED
  BY <1>2, <1>3, <1>4, <1>7, <1>10, <1>16, <1>17 DEF LimiterInd

(* A call in a window that is not over is let through or refused.          *)
LEMMA AttemptCounts ==
    ASSUME LimiterInd, NEW k \in Key, Limiter!CountAttempt(k)
    PROVE  /\ LimiterInd'
           /\ \E n \in 1..Len(buckets') : buckets'[n].key = k
           /\ \A j \in Key : j # k => admitted'[j] = admitted[j]
<1> DEFINE times == admitted[k]
<1>0. /\ LimiterTyped /\ now \in Nat /\ MaxNow \in Nat /\ now \in 0..MaxNow
      /\ Window \in Nat \ {0} /\ Maximum \in Nat \ {0} /\ MaxBuckets \in Nat \ {0}
      /\ buckets \in Seq(Limiter!Bucket) /\ Len(buckets) \in Nat /\ Len(buckets) <= MaxBuckets
      /\ \A n \in 1..Len(buckets) : buckets[n] \in Limiter!Bucket
      /\ admitted \in [Key -> Seq(Nat)] /\ forgotten \subseteq Key
  BY LimiterFacts DEF LimiterInd
<1>1. PICK n \in 1..Len(buckets) :
         /\ buckets[n].key = k /\ ~Expires(buckets[n])
         /\ buckets' = [buckets EXCEPT ![n].attempts =
                            IF buckets[n].attempts > Maximum THEN buckets[n].attempts
                            ELSE buckets[n].attempts + 1]
         /\ IF buckets[n].attempts < Maximum THEN Limiter!Admit(k)
            ELSE refused' = {k} /\ UNCHANGED <<now, admitted>>
         /\ UNCHANGED forgotten
  BY DEF Limiter!CountAttempt, Limiter!Position, Limiter!Expired, Expires
<1>2. PICK b : b = buckets[n]
  OBVIOUS
<1>3. PICK more : more = IF b.attempts > Maximum THEN b.attempts ELSE b.attempts + 1
  OBVIOUS
<1>4. PICK new : new = [b EXCEPT !.attempts = more]
  OBVIOUS
<1>5. /\ b \in Limiter!Bucket /\ b.key = k /\ b.startedAt \in Nat /\ b.startedAt <= now
      /\ b.attempts \in Nat /\ b.attempts >= 1 /\ now - b.startedAt < Window
      /\ Spent(b) /\ (k \notin forgotten => Exact(b))
  <2>1. b \in Limiter!Bucket /\ b.key = k /\ b.startedAt <= now /\ b.attempts >= 1
    BY <1>0, <1>1, <1>2 DEF LimiterTyped
  <2>2. b.startedAt \in Nat /\ b.attempts \in Nat
    BY <2>1 DEF Limiter!Bucket
  <2>3. now - b.startedAt < Window
    BY <1>0, <1>1, <1>2, <2>2 DEF Expires
  <2>4. Spent(b) /\ (k \notin forgotten => Exact(b))
    BY <1>1, <1>2 DEF LimiterInd
  <2> QED
    BY <2>1, <2>2, <2>3, <2>4
<1>6. /\ more \in Nat /\ more >= 1 /\ (b.attempts < Maximum => more = b.attempts + 1)
      /\ b.attempts >= Maximum => more >= b.attempts
  BY <1>0, <1>3, <1>5
<1>7. /\ new \in Limiter!Bucket /\ new.key = k /\ new.startedAt = b.startedAt /\ new.attempts = more
  BY <1>4, <1>5, <1>6 DEF Limiter!Bucket
<1>8. /\ buckets' \in Seq(Limiter!Bucket) /\ Len(buckets') = Len(buckets) /\ buckets'[n] = new
      /\ \A m \in 1..Len(buckets) : m # n => buckets'[m] = buckets[m]
  <2>1. buckets' = [buckets EXCEPT ![n] = new]
    BY <1>0, <1>1, <1>2, <1>3, <1>4
  <2> QED
    BY <1>0, <1>7, <2>1
<1>9. times \in Seq(Nat) /\ \A t \in Int : Since(times, t) \in Nat
  BY <1>0, LaterIsFinite
<1>10. b.startedAt - 1 \in Int /\ b.startedAt \in Int /\ b.startedAt - Window \in Int
       /\ now - Window \in Int /\ now - Window <= b.startedAt - 1 /\ now > b.startedAt - 1
       /\ now > b.startedAt - Window
  BY <1>0, <1>5
<1>11. /\ now' = now /\ admitted' \in [Key -> Seq(0..MaxNow)]
       /\ \A j \in Key : j # k => admitted'[j] = admitted[j]
       /\ \A j \in Key : \A m \in 1..Len(admitted'[j]) : admitted'[j][m] <= now
       /\ refused' \subseteq {k}
       /\ \A j \in refused' : Since(admitted'[j], now - Window) >= Maximum
       /\ Spent(new)' /\ (k \notin forgotten => Exact(new)')
  <2>1. CASE b.attempts < Maximum
    <3>1. /\ now' = now /\ refused' = {} /\ admitted' \in [Key -> Seq(0..MaxNow)]
          /\ \A j \in Key : j # k => admitted'[j] = admitted[j]
          /\ \A j \in Key : \A m \in 1..Len(admitted'[j]) : admitted'[j][m] <= now
          /\ \A t \in Int : Since(admitted'[k], t) = IF now > t THEN Since(times, t) + 1
                                                     ELSE Since(times, t)
      BY <1>0, <1>1, <1>2, <2>1, LimiterAdmits
    <3>2. /\ Since(admitted'[k], b.startedAt - 1) = Since(times, b.startedAt - 1) + 1
          /\ Since(admitted'[k], b.startedAt) <= Since(times, b.startedAt) + 1
          /\ Since(admitted'[k], b.startedAt - Window) = Since(times, b.startedAt - Window) + 1
          /\ Since(admitted'[k], b.startedAt) \in Nat
      <4>1. Since(admitted'[k], b.startedAt - 1) = Since(times, b.startedAt - 1) + 1
        BY <1>10, <3>1
      <4>2. Since(admitted'[k], b.startedAt - Window) = Since(times, b.startedAt - Window) + 1
        BY <1>10, <3>1
      <4>3. Since(admitted'[k], b.startedAt) = IF now > b.startedAt THEN Since(times, b.startedAt) + 1
                                              ELSE Since(times, b.startedAt)
        BY <1>10, <3>1
      <4>4. Since(times, b.startedAt) \in Nat
        BY <1>9, <1>10
      <4> QED
        BY <4>1, <4>2, <4>3, <4>4
    <3>3. /\ Since(times, b.startedAt - 1) \in Nat /\ Since(times, b.startedAt) \in Nat
          /\ Since(times, b.startedAt - Window) \in Nat
      BY <1>9, <1>10
    <3>4. Since(times, b.startedAt - 1) >= b.attempts
      BY <1>0, <1>5, <2>1 DEF Spent
    <3>5. Spent(new)'
      <4>1. Since(admitted'[k], b.startedAt - 1) >= more
        BY <1>5, <1>6, <2>1, <3>2, <3>3, <3>4
      <4>2. Since(admitted'[k], b.startedAt - 1) \in Nat
        BY <3>2, <3>3
      <4>3. more >= Maximum => Since(admitted'[k], b.startedAt - 1) >= Maximum
        BY <1>0, <1>6, <4>1, <4>2
      <4> QED
        BY <1>7, <4>1, <4>3 DEF Spent
    <3>6. k \notin forgotten =>
              /\ Since(times, b.startedAt - 1) <= b.attempts
              /\ Since(times, b.startedAt) < Since(times, b.startedAt - 1)
              /\ Since(times, b.startedAt - Window) < Since(times, b.startedAt - 1) + Maximum
      BY <1>5 DEF Exact
    <3>7. ASSUME k \notin forgotten PROVE Exact(new)'
      <4>1. /\ Since(admitted'[k], b.startedAt - 1) <= more
            /\ Since(admitted'[k], b.startedAt - 1) <= Maximum
        <5>1. more = b.attempts + 1 /\ b.attempts + 1 <= Maximum
          BY <1>0, <1>5, <1>6, <2>1
        <5>2. Since(times, b.startedAt - 1) <= b.attempts
          BY <3>6, <3>7
        <5>3. Since(times, b.startedAt - 1) + 1 <= b.attempts + 1
          BY <1>5, <3>3, <5>2
        <5> QED
          BY <1>0, <1>5, <3>2, <3>3, <5>1, <5>3
      <4>2. Since(admitted'[k], b.startedAt) < Since(admitted'[k], b.startedAt - 1)
        BY <3>2, <3>3, <3>6, <3>7
      <4>3. Since(admitted'[k], b.startedAt - Window) < Since(admitted'[k], b.startedAt - 1) + Maximum
        BY <1>0, <3>2, <3>3, <3>6, <3>7
      <4> QED
        BY <1>7, <4>1, <4>2, <4>3 DEF Exact
    <3> QED
      BY <3>1, <3>5, <3>7
  <2>2. CASE ~(b.attempts < Maximum)
    <3>1. refused' = {k} /\ UNCHANGED <<now, admitted>>
      BY <1>1, <1>2, <2>2
    <3>2. b.attempts >= Maximum /\ more >= Maximum
      BY <1>0, <1>5, <1>6, <2>2
    <3>3. Since(times, b.startedAt - 1) >= Maximum
      BY <1>5, <3>2 DEF Spent
    <3>4. /\ Since(times, b.startedAt - 1) \in Nat /\ Since(times, now - Window) \in Nat
          /\ Since(times, b.startedAt - 1) <= Since(times, now - Window)
      BY <1>9, <1>10, SinceShrinks
    <3>5. Since(times, now - Window) >= Maximum
      BY <1>0, <3>3, <3>4
    <3>6. Spent(new)'
      <4>1. more <= Maximum => more = Maximum
        BY <1>0, <1>6, <3>2
      <4> QED
        BY <1>5, <1>7, <3>1, <3>3, <4>1 DEF Spent
    <3>7. k \notin forgotten => Exact(new)'
      <4>1. k \notin forgotten =>
                /\ Since(times, b.startedAt - 1) <= Maximum
                /\ Since(times, b.startedAt) < Since(times, b.startedAt - 1)
                /\ Since(times, b.startedAt - Window) < Since(times, b.startedAt - 1) + Maximum
        BY <1>5 DEF Exact
      <4>2. Since(times, b.startedAt - 1) <= Maximum => Since(times, b.startedAt - 1) <= more
        BY <1>0, <1>6, <3>2, <3>4
      <4> QED
        BY <1>5, <1>7, <3>1, <4>1, <4>2 DEF Exact
    <3>8. admitted' \in [Key -> Seq(0..MaxNow)]
          /\ \A j \in Key : \A m \in 1..Len(admitted'[j]) : admitted'[j][m] <= now
      BY <1>0, <3>1 DEF LimiterTyped, Limiter!TypeOK
    <3> QED
      BY <3>1, <3>5, <3>6, <3>7, <3>8
  <2> QED
    BY <2>1, <2>2
<1>12. LimiterTyped'
  <2>1. \A m \in 1..Len(buckets) : buckets'[m].key = buckets[m].key
    BY <1>2, <1>5, <1>7, <1>8
  <2>2. \A m, p \in 1..Len(buckets') : buckets'[m].key = buckets'[p].key => m = p
    BY <1>0, <1>8, <2>1 DEF LimiterTyped, Limiter!TypeOK
  <2>3. now' \in 0..MaxNow /\ refused' \subseteq Key /\ forgotten' \subseteq Key
    BY <1>0, <1>1, <1>11
  <2>4. Limiter!TypeOK'
    BY <1>8, <1>11, <2>2, <2>3 DEF Limiter!TypeOK
  <2>5. \A m \in 1..Len(buckets') : buckets'[m].startedAt <= now /\ buckets'[m].attempts >= 1
    <3>1. \A m \in 1..Len(buckets) : buckets[m].startedAt <= now /\ buckets[m].attempts >= 1
      BY <1>0 DEF LimiterTyped
    <3>2. new.startedAt <= now /\ new.attempts >= 1
      BY <1>5, <1>6, <1>7
    <3> QED
      BY <1>8, <3>1, <3>2
  <2> QED
    BY <1>11, <2>4, <2>5 DEF LimiterTyped
<1>13. ASSUME NEW m \in 1..Len(buckets'), ~Expires(buckets[m])'
       PROVE  Spent(buckets[m])' /\ ((buckets[m].key)' \notin forgotten' => Exact(buckets[m])')
  <2>1. CASE m = n
    <3>1. (Spent(buckets[m])' <=> Spent(new)') /\ (Exact(buckets[m])' <=> Exact(new)')
      BY <1>8, <2>1 DEF Spent, Exact
    <3> QED
      BY <1>1, <1>7, <1>8, <1>11, <2>1, <3>1
  <2>2. CASE m # n
    <3>1. m \in 1..Len(buckets) /\ buckets'[m] = buckets[m]
      BY <1>8, <2>2
    <3>2. ~Expires(buckets[m])
      BY <1>11, <1>13, <3>1 DEF Expires
    <3>3. buckets[m].key \in Key /\ buckets[m].key # k
      BY <1>0, <1>1, <2>2, <3>1 DEF LimiterTyped, Limiter!TypeOK, Limiter!Bucket
    <3>4. admitted'[buckets[m].key] = admitted[buckets[m].key]
      BY <1>11, <3>3
    <3>5. Spent(buckets[m]) /\ (buckets[m].key \notin forgotten => Exact(buckets[m]))
      BY <3>1, <3>2 DEF LimiterInd
    <3>6. (Spent(buckets[m])' <=> Spent(buckets[m])) /\ (Exact(buckets[m])' <=> Exact(buckets[m]))
      BY <3>1, <3>4 DEF Spent, Exact
    <3> QED
      BY <1>1, <3>1, <3>5, <3>6
  <2> QED
    BY <2>1, <2>2
<1>14. ASSUME NEW j \in Key \ forgotten', ~Counts(j)' PROVE Idle(j)'
  <2>1. j # k
    <3>1. ~Expires(buckets[n])'
      BY <1>0, <1>5, <1>7, <1>8, <1>11 DEF Expires
    <3>2. n \in 1..Len(buckets') /\ buckets'[n].key = k
      BY <1>7, <1>8
    <3> QED
      BY <1>14, <3>1, <3>2 DEF Counts
  <2>2. ~Counts(j)
    <3> SUFFICES ASSUME NEW m \in 1..Len(buckets), buckets[m].key = j, ~Expires(buckets[m])
                 PROVE  FALSE
      BY DEF Counts
    <3>1. m # n /\ m \in 1..Len(buckets') /\ buckets'[m] = buckets[m]
      BY <1>1, <1>8, <2>1
    <3> QED
      BY <1>11, <1>14, <3>1 DEF Counts, Expires
  <2>3. Idle(j)
    BY <1>1, <1>14, <2>2 DEF LimiterInd
  <2> QED
    BY <1>11, <1>14, <2>1, <2>3 DEF Idle
<1>15. \A j \in refused' : Since(admitted'[j], now' - Window) >= Maximum
  BY <1>11
<1>16. Len(buckets') <= MaxBuckets
  BY <1>0, <1>8
<1>17. \E m \in 1..Len(buckets') : buckets'[m].key = k
  BY <1>7, <1>8
<1> QED
  BY <1>11, <1>12, <1>13, <1>14, <1>15, <1>16, <1>17 DEF LimiterInd

LEMMA LimiterStep == LimiterInd /\ Limiter!Next => LimiterInd'
  BY LimiterTicks, WindowStarts, AttemptCounts DEF Limiter!Next

LEMMA LimiterHolds == LimiterInd => Limiter!LimiterInv
<1> SUFFICES ASSUME LimiterInd PROVE Limiter!LimiterInv
  OBVIOUS
<1>0. /\ LimiterTyped /\ now \in Nat /\ Window \in Nat \ {0} /\ Maximum \in Nat \ {0}
      /\ \A n \in 1..Len(buckets) : buckets[n] \in Limiter!Bucket
      /\ admitted \in [Key -> Seq(Nat)] /\ refused \subseteq Key
  BY LimiterFacts DEF LimiterInd
<1>1. \A k, t : Limiter!AdmittedSince(k, t) = Since(admitted[k], t)
  BY CountedAlike DEF Limiter!AdmittedSince, Since, Later
<1>2. ASSUME NEW k \in Key \ forgotten
      PROVE  Since(admitted[k], now - Window) < 2 * Maximum
  <2> DEFINE times == admitted[k]
  <2>0. times \in Seq(Nat) /\ \A t \in Int : Since(times, t) \in Nat
    BY <1>0, LaterIsFinite
  <2>1. CASE Counts(k)
    <3>1. PICK n \in 1..Len(buckets) : buckets[n].key = k /\ ~Expires(buckets[n])
      BY <2>1 DEF Counts
    <3>2. PICK s \in Nat : s = buckets[n].startedAt /\ s <= now
      BY <1>0, <3>1 DEF LimiterTyped, Limiter!Bucket
    <3>3. /\ Since(times, s - 1) <= Maximum
          /\ Since(times, s - Window) < Since(times, s - 1) + Maximum
      BY <3>1, <3>2 DEF LimiterInd, Exact
    <3>4. s - Window \in Int /\ s - 1 \in Int /\ now - Window \in Int /\ s - Window <= now - Window
      BY <1>0, <3>2
    <3>5. Since(times, now - Window) <= Since(times, s - Window)
      BY <2>0, <3>4, SinceShrinks
    <3>6. Since(times, now - Window) \in Nat /\ Since(times, s - Window) \in Nat
          /\ Since(times, s - 1) \in Nat
      BY <2>0, <3>4
    <3> QED
      BY <1>0, <3>3, <3>5, <3>6
  <2>2. CASE ~Counts(k)
    <3>1. Since(times, now - Window) < Maximum
      BY <2>2 DEF LimiterInd, Idle
    <3>2. Since(times, now - Window) \in Nat
      BY <1>0, <2>0
    <3> QED
      BY <1>0, <3>1, <3>2
  <2> QED
    BY <2>1, <2>2
<1>3. \A k \in refused : Since(admitted[k], now - Window) >= Maximum
  BY DEF LimiterInd
<1> QED
  BY <1>0, <1>1, <1>2, <1>3
     DEF LimiterInd, LimiterTyped, Limiter!LimiterInv, Limiter!NeverTwiceTheLimit,
         Limiter!NoFalseRefusal, Limiter!MemoryIsBounded

(* However many keys call, at whatever instants: a key whose count was not *)
(* lost is let through less than twice the limit within any window, a call *)
(* is refused only after a full limit of them, and the map keeps its size. *)
THEOREM LimiterIsSound == PartsSpec => []LimiterInv
<1>1. PartsInit => LimiterInd
  BY LimiterInit DEF PartsInit
<1>2. LimiterInd /\ [PartsNext]_<<part, vars, limiter>> => LimiterInd'
  <2>1. LimiterInd /\ UNCHANGED limiter => LimiterInd'
    BY DEF limiter, LimiterInd, LimiterTyped, Limiter!TypeOK, Spent, Exact, Idle, Counts, Expires
  <2> QED
    BY <2>1, LimiterStep DEF PartsNext
<1>3. LimiterInd => LimiterInv
  BY LimiterHolds DEF LimiterInv
<1> QED
  BY <1>1, <1>2, <1>3, PTL DEF PartsSpec

(* The call under way keeps its bucket, whatever is dropped for memory.    *)
THEOREM CallsKeepTheirBucket == PartsSpec => NewestBucketKept
<1> DEFINE Kept == \A k \in Key : Len(admitted'[k]) > Len(admitted[k]) =>
                      \E n \in 1..Len(buckets') : buckets'[n].key = k
<1>1. PartsInit => LimiterInd
  BY LimiterInit DEF PartsInit
<1>2. LimiterInd /\ [PartsNext]_<<part, vars, limiter>> => LimiterInd'
  <2>1. LimiterInd /\ UNCHANGED limiter => LimiterInd'
    BY DEF limiter, LimiterInd, LimiterTyped, Limiter!TypeOK, Spent, Exact, Idle, Counts, Expires
  <2> QED
    BY <2>1, LimiterStep DEF PartsNext
<1>3. LimiterInd /\ [PartsNext]_<<part, vars, limiter>> => [Kept]_Limiter!vars
  <2> SUFFICES ASSUME LimiterInd, [PartsNext]_<<part, vars, limiter>>, ~(UNCHANGED Limiter!vars)
               PROVE  Kept
    OBVIOUS
  <2>0. \A k \in Key : Len(admitted[k]) \in Nat
    BY LimiterFacts DEF LimiterInd
  <2>1. Limiter!Next
    BY DEF PartsNext, limiter, Limiter!vars
  <2>2. CASE UNCHANGED admitted
    BY <2>0, <2>2
  <2>3. ASSUME NEW k \in Key, Limiter!StartWindow(k) \/ Limiter!CountAttempt(k) PROVE Kept
    <3>1. /\ \E n \in 1..Len(buckets') : buckets'[n].key = k
          /\ \A j \in Key : j # k => admitted'[j] = admitted[j]
      BY <2>3, WindowStarts, AttemptCounts
    <3> QED
      BY <2>0, <3>1
  <2> QED
    BY <2>1, <2>2, <2>3 DEF Limiter!Next, Limiter!Tick
<1> QED
  BY <1>1, <1>2, <1>3, PTL DEF PartsSpec, NewestBucketKept, Limiter!NewestBucketKept
=============================================================================
