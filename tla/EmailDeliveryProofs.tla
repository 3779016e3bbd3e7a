------------------------- MODULE EmailDeliveryProofs ------------------------
(***************************************************************************)
(* For any number of senders, guests, keys and crashes: a key reaches the  *)
(* provider at most once, SENT is the truth, attempts only advance and are *)
(* numbered without gaps; and when transactions get the lock of a guest in *)
(* the order they began, a guest has at most one delivery in progress.     *)
(***************************************************************************)
EXTENDS EmailDelivery, FiniteSetTheorems, SequenceTheorems, TLAPS

Delivering == {"queued", "sending", "answered", "recorded"}

(* What a request knows by the point it has reached.                       *)
Begun(r) == /\ r.pc # "idle" => up /\ r.guest \in Guest /\ r.key \in Key
            /\ r.pc \notin {"answered", "recorded"} => r.ok = FALSE
MayRotate(r) == r.pc = "rotating" => ~archived[r.guest] /\ r.prev \in Issued \cup {None}
AtStatus(pc, status) == /\ pc = "queued" => status = "QUEUED"
                        /\ pc \in {"sending", "answered"} => status = "SENDING"
                        /\ pc = "recorded" => status = "SENT"
Delivers(r) ==
    r.pc \in Delivering =>
        /\ r.attempt \in Indices /\ attempts[r.attempt].key = r.key
        /\ AtStatus(r.pc, attempts[r.attempt].status)
        /\ r.pc = "sending" => calls[r.key] = 0
        /\ r.pc = "answered" /\ r.ok => r.attempt \in accepted
SenderShape == \A s \in Sender : Begun(sender[s]) /\ MayRotate(sender[s]) /\ Delivers(sender[s])

(* An attempt is delivered by the request that queued it, and by no other. *)
OneDeliverer ==
    \A s, q \in Sender :
        /\ sender[s].pc \in Delivering /\ sender[q].pc \in Delivering
        /\ sender[s].attempt = sender[q].attempt
        => s = q

(* The unique index of the keys, and the foreign key of the invitation.    *)
KeysDiffer == \A a, b \in Indices : attempts[a].key = attempts[b].key => a = b
AttemptsIssued == \A a \in Indices : attempts[a].inv \in Issued

(* A key that is not used, or whose attempt is still queued, has not       *)
(* reached the provider.                                                   *)
CallsCounted == /\ \A k \in Key : calls[k] \in {0, 1} /\ (WithKey(k) = {} => calls[k] = 0)
                /\ \A a \in Indices : attempts[a].status = "QUEUED" => calls[attempts[a].key] = 0

(* The numbers of a guest's n attempts are 1..n, in their order.           *)
NumbersOf(g) == {attempts[a].number : a \in AttemptsOf(g)}
Numbered == /\ \A g \in Guest : NumbersOf(g) = 1..Cardinality(AttemptsOf(g))
            /\ NumbersAreDense

(* OneCallPerKey alone does not say that the request about to call is the  *)
(* only one with its key, nor SentWasAccepted that a late answer is about  *)
(* the attempt it is written to.                                           *)
EmailInd == /\ TypeOK /\ SenderShape /\ OneDeliverer /\ KeysDiffer
            /\ AttemptsIssued /\ CallsCounted /\ SentWasAccepted /\ Numbered
-----------------------------------------------------------------------------
(* Rows                                                                    *)

(* The UPDATE statements keep the constraint of the table; none but markSent *)
(* makes a row SENT.                                                       *)
LEMMA RowUpdates ==
    /\ \A g \in Guest : NewRow(g) \in Row /\ NewRow(g).status # "SENT"
    /\ \A row \in Row : RevokedRow(row) \in Row /\ RevokedRow(row).status # "SENT"
  BY DEF NewRow, RevokedRow, Row, Status

LEMMA UpdatesOfActive ==
    ASSUME NEW row \in Row, ~row.revoked
    PROVE  /\ OpenedRow(row) \in Row /\ OpenedRow(row).status # "SENT"
           /\ SentRow(row) \in Row
<1>1. row.status \in {"READY", "SENT", "OPENED"}
  BY DEF Row, Status
<1>2. SentRow(row) \in Row
  BY DEF SentRow, Row, Status
<1>3. OpenedRow(row).status = "OPENED" /\ OpenedRow(row).revoked = row.revoked
  BY <1>1 DEF OpenedRow, Row
<1>4. OpenedRow(row) \in [guest : Guest, status : Status, revoked : BOOLEAN,
                          visits : Nat, opens : Nat]
  <2>1. row \in [guest : Guest, status : Status, revoked : BOOLEAN, visits : Nat, opens : Nat]
    BY DEF Row
  <2>2. row.opens + 1 \in Nat
           /\ (IF row.status \in {"READY", "SENT"} THEN "OPENED" ELSE row.status) \in Status
    BY <2>1 DEF Status
  <2>3. ASSUME NEW n \in Nat, NEW c \in Status
        PROVE  [row EXCEPT !.opens = n, !.status = c] \in
                   [guest : Guest, status : Status, revoked : BOOLEAN, visits : Nat, opens : Nat]
    BY <2>1
  <2> QED
    BY <2>2, <2>3 DEF OpenedRow
<1> QED
  BY <1>2, <1>3, <1>4 DEF Row

(* What every statement on invitations keeps: rows are not deleted, and    *)
(* none becomes SENT without a SENT attempt.                               *)
RowsGoOn ==
    /\ inv' \in [Invitation -> Row \cup {None}]
    /\ \A i \in Issued : inv'[i] # None
    /\ \A i \in Invitation : inv'[i] # None /\ inv'[i].status = "SENT" =>
          \/ i \in Issued /\ inv[i].status = "SENT"
          \/ \E a \in Indices : attempts[a].inv = i /\ attempts[a].status = "SENT"

LEMMA OneRowGoesOn ==
    ASSUME TypeOK, NEW i \in Invitation, NEW row \in Row, inv' = [inv EXCEPT ![i] = row],
           row.status = "SENT" =>
               \E a \in Indices : attempts[a].inv = i /\ attempts[a].status = "SENT"
    PROVE  RowsGoOn
BY NoneIsNoRow DEF TypeOK, RowsGoOn, Issued
-----------------------------------------------------------------------------
(* Attempts                                                                *)

(* An attempt keeps everything but its status and its age.                 *)
SameAttempts == /\ Indices' = Indices
                /\ \A a \in Indices : /\ attempts'[a].guest = attempts[a].guest
                                      /\ attempts'[a].key = attempts[a].key
                                      /\ attempts'[a].inv = attempts[a].inv
                                      /\ attempts'[a].number = attempts[a].number
                                      /\ attempts'[a].createdAt = attempts[a].createdAt

LEMMA NumberedKept == ASSUME Numbered, SameAttempts PROVE Numbered'
<1>1. \A g : AttemptsOf(g)' = AttemptsOf(g)
  BY DEF SameAttempts, AttemptsOf
<1>2. \A g \in Guest : NumbersOf(g)' = NumbersOf(g)
  BY <1>1 DEF SameAttempts, NumbersOf, AttemptsOf
<1> QED
  BY <1>1, <1>2 DEF Numbered, NumbersAreDense, SameAttempts

(* Max of the first numbers.                                               *)
LEMMA MaxOfFirst == ASSUME NEW n \in Nat PROVE Max({0} \cup (1..n)) = n
<1> DEFINE S == {0} \cup (1..n)
<1>1. n \in S /\ \A y \in S : n >= y
  OBVIOUS
<1>2. \A x \in S : (\A y \in S : x >= y) => x = n
  OBVIOUS
<1> HIDE DEF S
<1>3. (CHOOSE x \in S : \A y \in S : x >= y) = n
  BY <1>1, <1>2
<1> QED
  BY <1>3 DEF Max, S

LEMMA AttemptsAreFinite ==
    ASSUME TypeOK, NEW g
    PROVE  IsFiniteSet(AttemptsOf(g)) /\ Cardinality(AttemptsOf(g)) \in Nat
<1>1. IsFiniteSet(Indices) /\ AttemptsOf(g) \in SUBSET Indices
  BY FS_Interval, LenProperties DEF TypeOK, Indices, AttemptsOf
<1> QED
  BY <1>1, FS_Subset, FS_CardinalityType

LEMMA NextNumberIs ==
    ASSUME TypeOK, Numbered, NEW g \in Guest
    PROVE  NextNumber(g) = Cardinality(AttemptsOf(g)) + 1
<1>1. Max({0} \cup NumbersOf(g)) = Cardinality(AttemptsOf(g))
  BY AttemptsAreFinite, MaxOfFirst DEF Numbered
<1> QED
  BY <1>1 DEF NextNumber, NumbersOf

LEMMA NumberedGrows ==
    ASSUME TypeOK, Numbered, NEW n \in Nat, n = Len(attempts) + 1, NEW g \in Guest,
           Indices' = Indices \cup {n}, \A a \in Indices : attempts'[a] = attempts[a],
           attempts'[n].guest = g, attempts'[n].number = NextNumber(g)
    PROVE  Numbered'
<1> DEFINE c == Cardinality(AttemptsOf(g))
<1>1. n \notin Indices /\ \A a \in Indices : a < n /\ a \in Nat
  BY LenProperties DEF TypeOK, Indices
<1>2. /\ AttemptsOf(g)' = AttemptsOf(g) \cup {n} /\ n \notin AttemptsOf(g)
      /\ \A h : h # g => AttemptsOf(h)' = AttemptsOf(h)
  BY <1>1 DEF AttemptsOf
<1>3. c \in Nat /\ IsFiniteSet(AttemptsOf(g))
  BY AttemptsAreFinite
<1>4. Cardinality(AttemptsOf(g)') = c + 1
  <2>1. Cardinality(AttemptsOf(g) \cup {n}) = c + 1
    BY <1>2, <1>3, FS_AddElement
  <2> QED
    BY <1>2, <2>1, Zenon
<1>5. attempts'[n].number = c + 1
  BY NextNumberIs
<1>6. ASSUME NEW h \in Guest PROVE NumbersOf(h)' = 1..Cardinality(AttemptsOf(h)')
  <2>1. CASE h = g
    <3>1. NumbersOf(g)' = NumbersOf(g) \cup {c + 1}
      BY <1>1, <1>5 DEF NumbersOf, AttemptsOf
    <3>2. (1..c) \cup {c + 1} = 1..(c + 1)
      BY <1>3
    <3>3. NumbersOf(g)' = 1..(c + 1)
      BY <3>1, <3>2 DEF Numbered
    <3> QED
      BY <1>4, <2>1, <3>3, Zenon
  <2>2. CASE h # g
    <3>1. NumbersOf(h)' = NumbersOf(h)
      BY <1>1, <2>2 DEF NumbersOf, AttemptsOf
    <3>2. NumbersOf(h) = 1..Cardinality(AttemptsOf(h))
      BY DEF Numbered
    <3> QED
      BY <1>2, <2>2, <3>1, <3>2, Zenon
  <2> QED
    BY <2>1, <2>2
<1>7. ASSUME NEW a \in Indices', NEW h, attempts'[a].guest = h
      PROVE  attempts'[a].number = Cardinality({b \in AttemptsOf(h)' : b <= a})
  <2>1. CASE a = n
    <3>1. {b \in AttemptsOf(g)' : b <= n} = AttemptsOf(g)'
      BY <1>1, n <= n DEF AttemptsOf
    <3> QED
      BY <1>4, <1>5, <1>7, <2>1, <3>1, Zenon
  <2>2. CASE a \in Indices
    <3>1. {b \in AttemptsOf(h)' : b <= a} = {b \in AttemptsOf(h) : b <= a}
      BY <1>1, <2>2 DEF AttemptsOf
    <3>2. attempts[a].number = Cardinality({b \in AttemptsOf(h) : b <= a})
      BY <1>7, <2>2 DEF Numbered, NumbersAreDense
    <3> QED
      BY <2>2, <3>1, <3>2, Zenon
  <2> QED
    BY <2>1, <2>2
<1>8. NumbersAreDense'
  BY <1>7, Zenon DEF NumbersAreDense
<1>9. (\A h \in Guest : NumbersOf(h) = 1..Cardinality(AttemptsOf(h)))'
  BY <1>6, Zenon
<1> QED
  BY <1>8, <1>9 DEF Numbered
-----------------------------------------------------------------------------
(* Steps that leave attempts and calls alone                               *)

LEMMA NoRequestRests == NoRequest \in Request /\ NoRequest.pc = "idle" /\ NoRequest.ok = FALSE
  BY DEF NoRequest, Request, SenderPc

LEMMA EmailInit == Init => EmailInd
<1> SUFFICES ASSUME Init PROVE EmailInd
  OBVIOUS
<1>1. Len(attempts) = 0 /\ attempts \in Seq(Attempt) /\ Indices = {}
  BY DEF Init, Indices
<1>2. NoRequest \in Request /\ NoRequest.pc = "idle" /\ NoRequest.ok = FALSE
  BY NoRequestRests
<1>3. TypeOK
  BY <1>1, <1>2, EmailAssumption DEF Init, TypeOK
<1>4. SenderShape /\ OneDeliverer
  BY <1>2 DEF Init, SenderShape, OneDeliverer, Begun, MayRotate, Delivers, Delivering
<1>5. KeysDiffer /\ AttemptsIssued /\ CallsCounted /\ SentWasAccepted
  BY <1>1 DEF Init, KeysDiffer, AttemptsIssued, CallsCounted, SentWasAccepted, Issued
<1>6. Numbered
  <2>1. \A g : AttemptsOf(g) = {}
    BY <1>1 DEF AttemptsOf
  <2>2. \A g : NumbersOf(g) = {}
    BY <2>1 DEF NumbersOf
  <2>3. 1..Cardinality({}) = {}
    BY FS_EmptySet
  <2> QED
    BY <1>1, <2>1, <2>2, <2>3 DEF Numbered, NumbersAreDense
<1> QED
  BY <1>3, <1>4, <1>5, <1>6 DEF EmailInd

(* One request, not delivering after the step, moves; rows may change.     *)
LEMMA RequestKeeps ==
    ASSUME EmailInd, NEW s \in Sender, NEW r \in Request,
           sender' = [sender EXCEPT ![s] = r], RowsGoOn,
           UNCHANGED <<up, archived, attempts, calls, accepted>>,
           begins' \in Nat, spent' \in [Guest -> 0..RateLimit],
           r.pc \notin Delivering, Begun(r), MayRotate(r)
    PROVE  EmailInd'
<1> USE DEF EmailInd
<1>1. TypeOK'
  BY DEF TypeOK, RowsGoOn, Indices
<1>2. \A q \in Sender : sender'[q] = IF q = s THEN r ELSE sender[q]
  BY DEF TypeOK
<1>3. Issued \subseteq Issued' /\ Indices' = Indices
  BY DEF Issued, RowsGoOn, Indices
<1>4. SenderShape'
  BY <1>2, <1>3 DEF SenderShape, Begun, MayRotate, Delivers, AtStatus
<1>5. OneDeliverer'
  BY <1>2 DEF OneDeliverer
<1>6. KeysDiffer' /\ AttemptsIssued' /\ CallsCounted'
  BY <1>3 DEF KeysDiffer, AttemptsIssued, CallsCounted, WithKey, Indices
<1>7. SentWasAccepted'
  BY <1>3 DEF SentWasAccepted, RowsGoOn, Issued
<1>8. Numbered'
  BY NumberedKept DEF SameAttempts, Indices
<1> QED
  BY <1>1, <1>4, <1>5, <1>6, <1>7, <1>8

(* No request moves: rows, the archive or the limiter's window change.     *)
LEMMA OthersKeep ==
    ASSUME EmailInd, RowsGoOn, UNCHANGED <<up, begins, sender, attempts, calls, accepted>>,
           archived' \in [Guest -> BOOLEAN], spent' \in [Guest -> 0..RateLimit],
           \A g \in Guest : archived'[g] => archived[g] \/ LockHolders(g) = {}
    PROVE  EmailInd'
<1> USE DEF EmailInd
<1>1. TypeOK'
  BY DEF TypeOK, RowsGoOn, Indices
<1>2. Issued \subseteq Issued' /\ Indices' = Indices
  BY DEF Issued, RowsGoOn, Indices
<1>3. \A q \in Sender : MayRotate(sender[q])'
  BY <1>2 DEF SenderShape, Begun, MayRotate, LockHolders, InTransaction
<1>4. SenderShape'
  BY <1>2, <1>3 DEF SenderShape, Begun, Delivers, AtStatus
<1>5. OneDeliverer' /\ KeysDiffer' /\ AttemptsIssued' /\ CallsCounted'
  BY <1>2 DEF OneDeliverer, KeysDiffer, AttemptsIssued, CallsCounted, WithKey, Indices
<1>6. SentWasAccepted'
  BY <1>2 DEF SentWasAccepted, RowsGoOn, Issued
<1>7. Numbered'
  BY NumberedKept DEF SameAttempts, Indices
<1> QED
  BY <1>1, <1>4, <1>5, <1>6, <1>7
-----------------------------------------------------------------------------
(* The transaction                                                         *)

LEMMA UnchangedRowsGoOn == ASSUME EmailInd, inv' = inv PROVE RowsGoOn
  BY DEF EmailInd, TypeOK, RowsGoOn, Issued

LEMMA RejectKeeps == ASSUME EmailInd, NEW s \in Sender, Reject(s) PROVE EmailInd'
<1>1. sender' = [sender EXCEPT ![s] = NoRequest] /\ UNCHANGED <<begins, spent, inv>>
  BY DEF Reject, End, Become
<1>2. begins' \in Nat /\ spent' \in [Guest -> 0..RateLimit]
  BY <1>1 DEF EmailInd, TypeOK
<1>3. UNCHANGED <<up, archived, attempts, calls, accepted>>
  BY DEF Reject
<1>4. NoRequest.pc \notin Delivering /\ Begun(NoRequest) /\ MayRotate(NoRequest)
  BY NoRequestRests DEF Delivering, Begun, MayRotate
<1>5. RowsGoOn
  BY <1>1, UnchangedRowsGoOn
<1> QED
  BY <1>1, <1>2, <1>3, <1>4, <1>5, NoRequestRests, RequestKeeps

LEMMA BeginKeeps ==
    ASSUME EmailInd, NEW s \in Sender, NEW g \in Guest, NEW k \in Key, NEW rotate \in BOOLEAN,
           Begin(s, g, k, rotate)
    PROVE  EmailInd'
<1> DEFINE r == [NoRequest EXCEPT !.pc = "begun", !.guest = g, !.key = k,
                     !.rotate = rotate, !.stamp = begins + 1]
<1>1. begins \in Nat /\ spent \in [Guest -> 0..RateLimit]
  BY DEF EmailInd, TypeOK
<1>2. r \in Request /\ r.pc = "begun" /\ r.guest = g /\ r.key = k /\ r.ok = FALSE
  <2>1. ASSUME NEW q \in Request, NEW n \in Nat
        PROVE  LET new == [q EXCEPT !.pc = "begun", !.guest = g, !.key = k,
                               !.rotate = rotate, !.stamp = n]
               IN  /\ new \in Request /\ new.pc = "begun" /\ new.guest = g /\ new.key = k
                   /\ new.ok = q.ok
    BY DEF Request, SenderPc
  <2>2. begins + 1 \in Nat
    BY <1>1
  <2> QED
    BY <2>1, <2>2, NoRequestRests, Zenon
<1>3. /\ sender' = [sender EXCEPT ![s] = r] /\ begins' = begins + 1 /\ up
      /\ UNCHANGED <<up, archived, inv, attempts, spent, calls, accepted>>
  BY DEF Begin, Become
<1> HIDE DEF r
<1>4. r.pc \notin Delivering /\ Begun(r) /\ MayRotate(r)
  BY <1>2, <1>3 DEF Delivering, Begun, MayRotate
<1>5. RowsGoOn
  BY <1>3, UnchangedRowsGoOn
<1>6. begins' \in Nat /\ spent' \in [Guest -> 0..RateLimit]
  BY <1>1, <1>3
<1> QED
  BY <1>2, <1>3, <1>4, <1>5, <1>6, RequestKeeps

(* The steps of the transaction that only move the request on.             *)
LEMMA MoveKeeps ==
    ASSUME EmailInd, NEW s \in Sender, NEW pc \in {"locked", "checking"},
           sender[s].pc \in {"begun", "locked"}, MoveTo(s, pc), spent' \in [Guest -> 0..RateLimit],
           UNCHANGED <<up, archived, inv, attempts, begins, calls, accepted>>
    PROVE  EmailInd'
<1> DEFINE r == [sender[s] EXCEPT !.pc = pc]
<1>1. sender[s] \in Request /\ begins \in Nat
  BY DEF EmailInd, TypeOK
<1>2. r \in Request /\ r.pc = pc /\ r.guest = sender[s].guest /\ r.key = sender[s].key
  BY <1>1 DEF Request, SenderPc
<1>3. sender' = [sender EXCEPT ![s] = r] /\ r.ok = sender[s].ok
  BY <1>1 DEF MoveTo, Request
<1> HIDE DEF r
<1>4. r.pc \notin Delivering /\ Begun(r) /\ MayRotate(r)
  BY <1>2, <1>3 DEF Delivering, Begun, MayRotate, EmailInd, SenderShape
<1>5. RowsGoOn
  BY UnchangedRowsGoOn
<1> QED
  BY <1>1, <1>2, <1>3, <1>4, <1>5, RequestKeeps

LEMMA LockGuestKeeps == ASSUME EmailInd, NEW s \in Sender, LockGuest(s) PROVE EmailInd'
<1>1. spent' \in [Guest -> 0..RateLimit]
  BY DEF EmailInd, TypeOK, LockGuest
<1>2. /\ sender[s].pc \in {"begun", "locked"} /\ MoveTo(s, "locked")
      /\ UNCHANGED <<up, archived, inv, attempts, begins, calls, accepted>>
  BY DEF LockGuest
<1> QED
  BY <1>1, <1>2, MoveKeeps

LEMMA CheckKeyKeeps == ASSUME EmailInd, NEW s \in Sender, CheckKey(s) PROVE EmailInd'
<1> DEFINE g == sender[s].guest
<1>1. CASE Reject(s)
  BY <1>1, RejectKeeps
<1>2. CASE ~Reject(s)
  <2>1. /\ sender[s].pc \in {"begun", "locked"} /\ MoveTo(s, "checking")
        /\ spent' = [spent EXCEPT ![g] = @ + 1] /\ ~(spent[g] >= RateLimit)
        /\ UNCHANGED <<up, archived, inv, attempts, begins, calls, accepted>>
    BY <1>2 DEF CheckKey
  <2>2. g \in Guest /\ spent \in [Guest -> 0..RateLimit] /\ RateLimit \in Nat
    BY <2>1, EmailAssumption DEF EmailInd, TypeOK, SenderShape, Begun
  <2>3. spent[g] + 1 \in 0..RateLimit
    BY <2>1, <2>2
  <2>4. spent' \in [Guest -> 0..RateLimit]
    BY <2>1, <2>2, <2>3
  <2> QED
    BY <2>1, <2>4, MoveKeeps
<1> QED
  BY <1>1, <1>2

LEMMA CheckProgressKeeps == ASSUME EmailInd, NEW s \in Sender, CheckProgress(s) PROVE EmailInd'
<1> DEFINE g == sender[s].guest
<1>1. CASE Reject(s)
  BY <1>1, RejectKeeps
<1>2. CASE ~Reject(s)
  <2>1. PICK prev \in IF ActiveOf(g) # {} THEN ActiveOf(g)
                      ELSE IF InvitationsOf(g) # {} THEN InvitationsOf(g) ELSE {None} :
            /\ sender[s].pc = "checking" /\ ~archived[g]
            /\ sender' = [sender EXCEPT ![s].pc = "rotating", ![s].prev = prev]
            /\ UNCHANGED <<up, archived, inv, attempts, begins, spent, calls, accepted>>
    BY <1>2 DEF CheckProgress
  <2> DEFINE r == [sender[s] EXCEPT !.pc = "rotating", !.prev = prev]
  <2>2. prev \in Issued \cup {None}
    BY DEF ActiveOf, InvitationsOf
  <2>3. /\ sender \in [Sender -> Request] /\ sender[s] \in Request /\ begins' \in Nat
        /\ spent' \in [Guest -> 0..RateLimit]
    BY <2>1 DEF EmailInd, TypeOK
  <2>4. /\ r \in Request /\ r.pc = "rotating" /\ r.prev = prev
        /\ r.guest = g /\ r.key = sender[s].key /\ r.ok = sender[s].ok
    BY <2>2, <2>3 DEF Request, SenderPc, Issued
  <2>5. sender' = [sender EXCEPT ![s] = r]
    BY <2>1, <2>3
  <2> HIDE DEF r
  <2>6. r.pc \notin Delivering /\ Begun(r) /\ MayRotate(r)
    BY <2>1, <2>2, <2>4 DEF Delivering, Begun, MayRotate, EmailInd, SenderShape
  <2>7. RowsGoOn
    BY <2>1, UnchangedRowsGoOn
  <2> QED
    BY <2>1, <2>3, <2>4, <2>5, <2>6, <2>7, RequestKeeps
<1> QED
  BY <1>1, <1>2
-----------------------------------------------------------------------------
(* The delivery                                                            *)

LEMMA AttemptsTyped == ASSUME TypeOK, NEW a \in Indices PROVE attempts[a] \in Attempt
  BY ElementOfSeq DEF TypeOK, Indices

LEMMA StatusIsSet ==
    ASSUME TypeOK, NEW a \in Indices, NEW x \in AttemptStatus, SetStatus(a, x)
    PROVE  /\ attempts' \in Seq(Attempt) /\ SameAttempts
           /\ \A b \in Indices :
                 attempts'[b].status = IF b = a THEN x ELSE attempts[b].status
<1> DEFINE e == [attempts[a] EXCEPT !.status = x, !.stale = FALSE]
<1>1. attempts \in Seq(Attempt) /\ a \in 1..Len(attempts) /\ attempts[a] \in Attempt
  BY ElementOfSeq DEF TypeOK, Indices
<1>2. /\ e \in Attempt /\ e.status = x /\ e.guest = attempts[a].guest
      /\ e.key = attempts[a].key /\ e.inv = attempts[a].inv
      /\ e.number = attempts[a].number /\ e.createdAt = attempts[a].createdAt
  BY <1>1 DEF Attempt
<1>3. attempts' = [attempts EXCEPT ![a] = e]
  BY <1>1 DEF SetStatus
<1> HIDE DEF e
<1>4. /\ attempts' \in Seq(Attempt) /\ Len(attempts') = Len(attempts)
      /\ \A b \in 1..Len(attempts) : attempts'[b] = IF b = a THEN e ELSE attempts[b]
  BY <1>1, <1>2, <1>3, ExceptSeq
<1> QED
  BY <1>1, <1>2, <1>4 DEF SameAttempts, Indices

(* A delivery writes the status of its own attempt and moves on or ends.   *)
LEMMA DeliveryKeeps ==
    ASSUME EmailInd, NEW s \in Sender, NEW r \in Request, NEW a \in Indices,
           NEW x \in AttemptStatus \ {"QUEUED"},
           sender[s].pc \in Delivering, sender[s].attempt = a,
           attempts[a].status \in InProgress,
           SetStatus(a, x), sender' = [sender EXCEPT ![s] = r],
           UNCHANGED <<up, archived, inv, begins, spent, calls, accepted>>,
           x = "SENT" => a \in accepted,
           r.pc \in {"idle", "sending", "recorded"}, AtStatus(r.pc, x),
           r.pc # "idle" => /\ r.attempt = a /\ r.key = sender[s].key
                            /\ r.guest = sender[s].guest,
           r.pc = "sending" => calls[r.key] = 0,
           r.pc # "recorded" => r.ok = FALSE
    PROVE  EmailInd'
<1> USE DEF EmailInd
<1>1. /\ attempts' \in Seq(Attempt) /\ Indices' = Indices
      /\ \A b \in Indices : /\ attempts'[b].key = attempts[b].key
                            /\ attempts'[b].inv = attempts[b].inv
                            /\ attempts'[b].status = IF b = a THEN x ELSE attempts[b].status
  BY StatusIsSet DEF SameAttempts
<1>2. \A q \in Sender : sender'[q] = IF q = s THEN r ELSE sender[q]
  BY DEF TypeOK
<1>3. TypeOK'
  BY <1>1 DEF TypeOK
<1>4. Begun(r)' /\ MayRotate(r)' /\ Delivers(r)'
  BY <1>1 DEF SenderShape, Begun, MayRotate, Delivers, Delivering
<1>5. \A q \in Sender \ {s} : /\ Begun(sender[q])' /\ MayRotate(sender[q])'
                              /\ Delivers(sender[q])'
  <2> TAKE q \in Sender \ {s}
  <2>1. sender'[q] = sender[q] /\ Begun(sender[q]) /\ MayRotate(sender[q]) /\ Delivers(sender[q])
    BY <1>2 DEF SenderShape
  <2>2. sender[q].pc \in Delivering => sender[q].attempt # a
    BY DEF OneDeliverer
  <2>3. Begun(sender[q])' /\ MayRotate(sender[q])'
    BY <2>1 DEF Begun, MayRotate, Issued
  <2>4. Delivers(sender[q])'
    BY <1>1, <2>1, <2>2 DEF Delivers
  <2> QED
    BY <2>3, <2>4
<1>6. SenderShape'
  BY <1>2, <1>4, <1>5 DEF SenderShape
<1>7. OneDeliverer'
  BY <1>2 DEF OneDeliverer, Delivering
<1>8. KeysDiffer' /\ AttemptsIssued' /\ CallsCounted'
  BY <1>1 DEF KeysDiffer, AttemptsIssued, CallsCounted, WithKey, Issued
<1>9. SentWasAccepted'
  BY <1>1 DEF SentWasAccepted, Issued, InProgress
<1>10. Numbered'
  BY StatusIsSet, NumberedKept
<1> QED
  BY <1>3, <1>6, <1>7, <1>8, <1>9, <1>10

(* What the delivering request s knows of its attempt.                     *)
LEMMA AttemptOfRequest ==
    ASSUME EmailInd, NEW s \in Sender, sender[s].pc \in Delivering
    PROVE  /\ sender[s] \in Request /\ sender[s].attempt \in Indices
           /\ attempts[sender[s].attempt].key = sender[s].key
           /\ AtStatus(sender[s].pc, attempts[sender[s].attempt].status)
           /\ up /\ sender[s].guest \in Guest /\ sender[s].key \in Key
  BY DEF EmailInd, TypeOK, SenderShape, Delivers, Begun, Delivering

LEMMA MarkSendingKeeps == ASSUME EmailInd, NEW s \in Sender, MarkSending(s) PROVE EmailInd'
<1> DEFINE a == sender[s].attempt
           r == [sender[s] EXCEPT !.pc = "sending"]
<1>1. sender[s].pc = "queued" /\ sender[s].pc \in Delivering
  BY DEF MarkSending, Delivering
<1>2. /\ sender[s] \in Request /\ a \in Indices /\ attempts[a].status = "QUEUED"
      /\ attempts[a].key = sender[s].key
  BY <1>1, AttemptOfRequest DEF AtStatus
<1>3. /\ SetStatus(a, "SENDING") /\ sender' = [sender EXCEPT ![s] = r]
      /\ UNCHANGED <<up, archived, inv, begins, spent, calls, accepted>>
  BY <1>2 DEF MarkSending, MoveTo
<1>4. /\ r \in Request /\ r.pc = "sending" /\ r.attempt = a /\ r.key = sender[s].key
      /\ r.guest = sender[s].guest /\ r.ok = FALSE
  BY <1>1, <1>2 DEF Request, SenderPc, EmailInd, SenderShape, Begun
<1> HIDE DEF r
<1>5. calls[r.key] = 0
  BY <1>2, <1>4 DEF EmailInd, CallsCounted
<1>6. AtStatus(r.pc, "SENDING") /\ "SENDING" \in AttemptStatus \ {"QUEUED"}
  BY <1>4 DEF AtStatus, AttemptStatus
<1> HIDE DEF a
<1> QED
  BY <1>1, <1>2, <1>3, <1>4, <1>5, <1>6, DeliveryKeeps DEF a, InProgress

LEMMA RecordAnswerKeeps == ASSUME EmailInd, NEW s \in Sender, RecordAnswer(s) PROVE EmailInd'
<1> DEFINE a == sender[s].attempt
           r == [sender[s] EXCEPT !.pc = "recorded"]
<1>1. sender[s].pc = "answered" /\ sender[s].pc \in Delivering
  BY DEF RecordAnswer, Delivering
<1>2. /\ sender[s] \in Request /\ a \in Indices /\ attempts[a].status = "SENDING"
      /\ sender[s].ok => a \in accepted
      /\ UNCHANGED <<up, archived, inv, begins, spent, calls, accepted>>
  BY <1>1, AttemptOfRequest DEF AtStatus, EmailInd, SenderShape, Delivers, RecordAnswer
<1>3. {"SENT", "FAILED"} \subseteq AttemptStatus \ {"QUEUED"}
  BY DEF AttemptStatus
<1>4. CASE sender[s].ok
  <2>1. SetStatus(a, "SENT") /\ sender' = [sender EXCEPT ![s] = r]
    BY <1>4 DEF RecordAnswer, MoveTo
  <2>2. /\ r \in Request /\ r.pc = "recorded" /\ r.attempt = a /\ r.key = sender[s].key
        /\ r.guest = sender[s].guest /\ AtStatus(r.pc, "SENT")
    BY <1>2 DEF Request, SenderPc, AtStatus
  <2> HIDE DEF r
  <2> QED
    BY <1>1, <1>2, <1>3, <1>4, <2>1, <2>2, DeliveryKeeps DEF InProgress
<1>5. CASE ~sender[s].ok
  <2>1. SetStatus(a, "FAILED") /\ sender' = [sender EXCEPT ![s] = NoRequest]
    BY <1>5 DEF RecordAnswer, End, Become
  <2>2. AtStatus(NoRequest.pc, "FAILED")
    BY NoRequestRests DEF AtStatus
  <2> QED
    BY <1>1, <1>2, <1>3, <2>1, <2>2, NoRequestRests, DeliveryKeeps DEF InProgress
<1> QED
  BY <1>4, <1>5

LEMMA CallProviderKeeps == ASSUME EmailInd, NEW s \in Sender, CallProvider(s) PROVE EmailInd'
<1> USE DEF EmailInd
<1> DEFINE a == sender[s].attempt
           k == sender[s].key
<1>1. sender[s].pc = "sending" /\ sender[s].pc \in Delivering
      /\ UNCHANGED <<up, archived, inv, attempts, begins, spent>>
  BY DEF CallProvider, Delivering
<1>2. /\ sender[s] \in Request /\ a \in Indices /\ attempts[a].status = "SENDING"
      /\ attempts[a].key = k /\ k \in Key /\ calls[k] = 0 /\ up /\ sender[s].guest \in Guest
  BY <1>1, AttemptOfRequest DEF AtStatus, SenderShape, Delivers
<1>3. ASSUME NEW r \in Request, sender' = [sender EXCEPT ![s] = r],
             r.pc = "answered", r.attempt = a, r.key = k, r.guest = sender[s].guest,
             calls' \in {calls, [calls EXCEPT ![k] = @ + 1]},
             accepted' \in {accepted, accepted \cup {a}}, r.ok => a \in accepted'
      PROVE  EmailInd'
  <2>2. \A q \in Sender : sender'[q] = IF q = s THEN r ELSE sender[q]
    BY <1>3 DEF TypeOK
  <2>3. /\ calls' \in [Key -> Nat] /\ calls'[k] \in {0, 1}
        /\ \A j \in Key \ {k} : calls'[j] = calls[j]
    BY <1>2, <1>3 DEF TypeOK
  <2>4. Indices' = Indices /\ accepted \subseteq accepted' /\ accepted' \subseteq Indices
    BY <1>1, <1>2, <1>3 DEF TypeOK, Indices
  <2>5. TypeOK'
    BY <1>1, <1>3, <2>3, <2>4 DEF TypeOK
  <2>6. \A b \in Indices : attempts[b].key = k => b = a
    BY <1>2 DEF KeysDiffer
  <2>7. Begun(r)' /\ MayRotate(r)' /\ Delivers(r)'
    BY <1>1, <1>2, <1>3, <2>4 DEF Begun, MayRotate, Delivers, AtStatus, Indices
  <2>8. \A q \in Sender \ {s} : /\ Begun(sender[q])' /\ MayRotate(sender[q])'
                                /\ Delivers(sender[q])'
    <3> TAKE q \in Sender \ {s}
    <3>1. sender'[q] = sender[q] /\ Begun(sender[q]) /\ MayRotate(sender[q])
          /\ Delivers(sender[q])
      BY <2>2 DEF SenderShape
    <3>2. sender[q].pc \in Delivering => sender[q].attempt # a /\ sender[q].key # k
      BY <1>1, <2>6, <3>1 DEF OneDeliverer, Delivers
    <3>3. Begun(sender[q])' /\ MayRotate(sender[q])'
      BY <1>1, <3>1 DEF Begun, MayRotate, Issued
    <3>4. Delivers(sender[q])'
      BY <1>1, <2>3, <2>4, <3>1, <3>2 DEF Delivers, Begun, Delivering
    <3> QED
      BY <3>3, <3>4
  <2>9. SenderShape'
    BY <2>2, <2>7, <2>8 DEF SenderShape
  <2>10. OneDeliverer'
    BY <1>1, <1>3, <2>2 DEF OneDeliverer, Delivering
  <2>11. KeysDiffer' /\ AttemptsIssued'
    BY <1>1, <2>4 DEF KeysDiffer, AttemptsIssued, Issued
  <2>12. CallsCounted'
    <3>1. \A j \in Key : WithKey(j)' = WithKey(j)
      BY <1>1, <2>4 DEF WithKey
    <3>2. \A j \in Key : calls'[j] \in {0, 1} /\ (WithKey(j)' = {} => calls'[j] = 0)
      BY <1>2, <2>3, <3>1 DEF CallsCounted, WithKey
    <3>3. ASSUME NEW b \in Indices, attempts[b].status = "QUEUED"
          PROVE  calls'[attempts[b].key] = 0
      <4>1. b # a /\ attempts[b].key \in Key \ {k}
        BY <1>2, <2>6, <3>3, AttemptsTyped DEF Attempt
      <4> QED
        BY <2>3, <3>3, <4>1 DEF CallsCounted
    <3> QED
      BY <1>1, <2>4, <3>2, <3>3 DEF CallsCounted
  <2>13. SentWasAccepted'
    BY <1>1, <2>4 DEF SentWasAccepted, Issued
  <2>14. Numbered'
    BY <1>1, NumberedKept DEF SameAttempts, Indices
  <2> QED
    BY <2>5, <2>9, <2>10, <2>11, <2>12, <2>13, <2>14
<1>4. CASE MoveTo(s, "answered") /\ UNCHANGED <<calls, accepted>>
  <2> DEFINE r == [sender[s] EXCEPT !.pc = "answered"]
  <2>1. /\ r \in Request /\ r.pc = "answered" /\ r.attempt = a /\ r.key = k
        /\ r.guest = sender[s].guest /\ r.ok = FALSE
    BY <1>1, <1>2 DEF Request, SenderPc, SenderShape, Begun
  <2>2. sender' = [sender EXCEPT ![s] = r]
    BY <1>4 DEF MoveTo
  <2> HIDE DEF r
  <2> QED
    BY <1>3, <1>4, <2>1, <2>2
<1>5. CASE ~(MoveTo(s, "answered") /\ UNCHANGED <<calls, accepted>>)
  <2>1. PICK ok \in BOOLEAN :
            /\ sender' = [sender EXCEPT ![s].pc = "answered", ![s].ok = ok]
            /\ accepted' = IF ok THEN accepted \cup {a} ELSE accepted
    BY <1>5 DEF CallProvider
  <2>2. calls' = [calls EXCEPT ![k] = @ + 1]
    BY <1>5 DEF CallProvider
  <2> DEFINE r == [sender[s] EXCEPT !.pc = "answered", !.ok = ok]
  <2>3. /\ r \in Request /\ r.pc = "answered" /\ r.attempt = a /\ r.key = k
        /\ r.guest = sender[s].guest /\ r.ok = ok
    BY <1>2 DEF Request, SenderPc
  <2>4. sender' = [sender EXCEPT ![s] = r]
    BY <2>1 DEF TypeOK
  <2> HIDE DEF r
  <2> QED
    BY <1>3, <2>1, <2>2, <2>3, <2>4
<1> QED
  BY <1>4, <1>5

(* The rows after a rotation: one new, the one before it revoked.          *)
LEMMA RotationGoesOn ==
    ASSUME TypeOK, NEW g \in Guest, NEW i \in Invitation \ Issued, NEW prev \in Issued \cup {None},
           inv' = [j \in Invitation |-> IF j = i THEN NewRow(g)
                                        ELSE IF j = prev /\ ~inv[j].revoked THEN RevokedRow(inv[j])
                                        ELSE inv[j]]
    PROVE  RowsGoOn /\ i \in Issued'
<1>1. inv \in [Invitation -> Row \cup {None}]
  BY DEF TypeOK
<1>2. ASSUME NEW j \in Invitation, j # i, j = prev, ~inv[j].revoked
      PROVE  inv[j] \in Row /\ inv'[j] = RevokedRow(inv[j])
  BY <1>1, <1>2, NoneIsNoRow DEF Issued
<1>3. \A j \in Invitation : /\ inv'[j] \in Row \cup {None}
                            /\ inv[j] # None => inv'[j] # None
                            /\ inv'[j] # None /\ inv'[j].status = "SENT" =>
                                   inv[j] # None /\ inv[j].status = "SENT"
  <2> TAKE j \in Invitation
  <2>1. CASE j = i
    BY <2>1, RowUpdates, NoneIsNoRow DEF Issued
  <2>2. CASE j # i /\ j = prev /\ ~inv[j].revoked
    BY <1>2, <2>2, RowUpdates, NoneIsNoRow
  <2>3. CASE j # i /\ ~(j = prev /\ ~inv[j].revoked)
    BY <1>1, <2>3
  <2> QED
    BY <2>1, <2>2, <2>3
<1>4. inv'[i] \in Row
  BY RowUpdates
<1> QED
  BY <1>3, <1>4, NoneIsNoRow DEF RowsGoOn, Issued

(* What a transaction that queues does, in the words of this module.       *)
LEMMA QueueEffect ==
    ASSUME EmailInd, NEW s \in Sender, Queue(s), ~Reject(s)
    PROVE  \E i \in Invitation \ Issued, new \in Attempt :
              /\ RowsGoOn /\ i \in Issued'
              /\ new.guest = sender[s].guest /\ new.key = sender[s].key /\ new.inv = i
              /\ new.number = NextNumber(sender[s].guest) /\ new.createdAt = sender[s].stamp
              /\ new.status = "QUEUED"
              /\ attempts' = Append(attempts, new)
              /\ sender[s].pc = "rotating" /\ CanIssue(s)
              /\ sender' = [sender EXCEPT ![s].pc = "queued", ![s].attempt = Len(attempts) + 1]
              /\ UNCHANGED <<up, archived, begins, spent, calls, accepted>>
<1> DEFINE r == sender[s]
           g == sender[s].guest
           New(i) == [guest |-> g, key |-> r.key, inv |-> i, number |-> NextNumber(g),
                      createdAt |-> r.stamp, status |-> "QUEUED", stale |-> FALSE]
<1>1. PICK i \in Invitation \ Issued :
          /\ inv' = [j \in Invitation |-> IF j = i THEN NewRow(g)
                                          ELSE IF j = r.prev /\ ~inv[j].revoked
                                          THEN RevokedRow(inv[j]) ELSE inv[j]]
          /\ attempts' = Append(attempts, New(i))
          /\ sender' = [sender EXCEPT ![s].pc = "queued", ![s].attempt = Len(attempts) + 1]
          /\ UNCHANGED <<up, archived, begins, spent, calls, accepted>>
          /\ r.pc = "rotating" /\ CanIssue(s)
  BY DEF Queue
<1>2. /\ r \in Request /\ g \in Guest /\ r.key \in Key
      /\ r.prev \in Issued \cup {None} /\ r.stamp \in Nat
  BY <1>1 DEF EmailInd, TypeOK, SenderShape, Begun, MayRotate, Request
<1>3. RowsGoOn /\ i \in Issued'
  BY <1>1, <1>2, RotationGoesOn DEF EmailInd
<1>4. NextNumber(g) \in Nat
  BY <1>2, NextNumberIs, AttemptsAreFinite DEF EmailInd
<1>5. New(i) \in Attempt
  BY <1>2, <1>4 DEF Attempt, AttemptStatus
<1> QED
  BY <1>1, <1>3, <1>5

LEMMA QueueKeeps == ASSUME EmailInd, NEW s \in Sender, Queue(s) PROVE EmailInd'
<1> USE DEF EmailInd
<1>1. CASE Reject(s)
  BY <1>1, RejectKeeps
<1>2. CASE ~Reject(s)
  <2> DEFINE n == Len(attempts) + 1
             k == sender[s].key
             next == [sender[s] EXCEPT !.pc = "queued", !.attempt = n]
  <2>1. PICK i \in Invitation \ Issued, new \in Attempt :
            /\ RowsGoOn /\ i \in Issued'
            /\ new.key = k /\ new.inv = i /\ new.status = "QUEUED"
            /\ new.guest = sender[s].guest /\ new.number = NextNumber(sender[s].guest)
            /\ attempts' = Append(attempts, new)
            /\ sender[s].pc = "rotating" /\ CanIssue(s)
            /\ sender' = [sender EXCEPT ![s].pc = "queued", ![s].attempt = n]
            /\ UNCHANGED <<up, archived, begins, spent, calls, accepted>>
    BY <1>2, QueueEffect
  <2>2. /\ sender[s] \in Request /\ sender[s].guest \in Guest /\ k \in Key /\ up
        /\ sender[s].ok = FALSE
    BY <2>1 DEF TypeOK, SenderShape, Begun
  <2>3. /\ attempts \in Seq(Attempt) /\ Len(attempts) \in Nat /\ n \in Nat
        /\ attempts' \in Seq(Attempt) /\ Len(attempts') = n
        /\ \A a \in Indices : attempts'[a] = attempts[a]
        /\ attempts'[n] = new
    BY <2>1, AppendProperties, LenProperties DEF TypeOK, Indices
  <2>4. Indices' = Indices \cup {n} /\ n \notin Indices
    BY <2>3 DEF Indices
  <2>5. /\ next \in Request /\ next.pc = "queued" /\ next.attempt = n /\ next.key = k
        /\ next.guest = sender[s].guest /\ next.ok = sender[s].ok
    BY <2>2, <2>3 DEF Request, SenderPc
  <2>6. sender' = [sender EXCEPT ![s] = next]
    BY <2>1 DEF TypeOK
  <2> HIDE DEF next
  <2>7. PICK r \in Request : /\ r.pc = "queued" /\ r.attempt = n /\ r.key = k
                             /\ r.guest = sender[s].guest /\ r.ok = FALSE
                             /\ sender' = [sender EXCEPT ![s] = r]
    BY <2>2, <2>5, <2>6
  <2>8. /\ RowsGoOn /\ i \in Issued'
        /\ new.key = k /\ new.inv = i /\ new.status = "QUEUED"
        /\ sender[s].pc = "rotating" /\ CanIssue(s)
        /\ UNCHANGED <<up, archived, begins, spent, calls, accepted>>
    BY <2>1
  <2> HIDE DEF n
  <2>9. \A q \in Sender : sender'[q] = IF q = s THEN r ELSE sender[q]
    BY <2>7 DEF TypeOK
  <2>10. TypeOK'
    BY <2>8, <2>3, <2>4, <2>7 DEF TypeOK, RowsGoOn
  <2>11. Issued \subseteq Issued'
    BY <2>8 DEF RowsGoOn, Issued
  <2>12. Begun(r)' /\ MayRotate(r)' /\ Delivers(r)'
    <3>1. Begun(r)' /\ MayRotate(r)'
      BY <2>8, <2>2, <2>7 DEF Begun, MayRotate
    <3>2. r.attempt \in Indices' /\ attempts'[r.attempt] = new
      BY <2>3, <2>4, <2>7
    <3>3. Delivers(r)'
      BY <2>8, <2>7, <3>2 DEF Delivers, AtStatus
    <3> QED
      BY <3>1, <3>3
  <2>13. \A q \in Sender \ {s} : /\ Begun(sender[q])' /\ MayRotate(sender[q])'
                                 /\ Delivers(sender[q])'
    <3> TAKE q \in Sender \ {s}
    <3>1. sender'[q] = sender[q] /\ Begun(sender[q]) /\ MayRotate(sender[q]) /\ Delivers(sender[q])
      BY <2>9 DEF SenderShape
    <3>2. Begun(sender[q])' /\ MayRotate(sender[q])'
      BY <2>8, <2>11, <3>1 DEF Begun, MayRotate
    <3>3. Delivers(sender[q])'
      BY <2>8, <2>3, <2>4, <3>1 DEF Delivers
    <3> QED
      BY <3>2, <3>3
  <2>14. SenderShape'
    BY <2>9, <2>12, <2>13 DEF SenderShape
  <2>15. OneDeliverer'
    BY <2>4, <2>7, <2>9 DEF OneDeliverer, SenderShape, Delivers
  <2>16. \A a \in Indices : attempts[a].key # k
    BY <2>8 DEF CanIssue, WithKey
  <2>17. KeysDiffer' /\ AttemptsIssued'
    BY <2>8, <2>3, <2>4, <2>11, <2>16 DEF KeysDiffer, AttemptsIssued
  <2>18. calls[k] = 0
    BY <2>8, <2>2 DEF CallsCounted, CanIssue
  <2>19. CallsCounted'
    <3>1. \A j \in Key : WithKey(j)' = {} => WithKey(j) = {}
      BY <2>3, <2>4 DEF WithKey
    <3> QED
      BY <2>8, <2>3, <2>4, <2>18, <3>1 DEF CallsCounted
  <2>20. SentWasAccepted'
    BY <2>8, <2>3, <2>4 DEF SentWasAccepted, RowsGoOn, Issued
  <2>21. Numbered'
    BY <2>1, <2>2, <2>3, <2>4, NumberedGrows DEF n
  <2> QED
    BY <2>10, <2>14, <2>15, <2>17, <2>19, <2>20, <2>21
<1> QED
  BY <1>1, <1>2

LEMMA MarkInvitationSentKeeps ==
    ASSUME EmailInd, NEW s \in Sender, MarkInvitationSent(s)
    PROVE  EmailInd'
<1> DEFINE a == sender[s].attempt
           i == attempts[a].inv
<1>1. /\ sender[s].pc = "recorded" /\ sender[s].pc \in Delivering
      /\ inv' = IF MaySend(inv[i]) THEN [inv EXCEPT ![i] = SentRow(@)] ELSE inv
      /\ sender' = [sender EXCEPT ![s] = NoRequest]
      /\ UNCHANGED <<up, archived, attempts, begins, spent, calls, accepted>>
  BY DEF MarkInvitationSent, Delivering, End, Become
<1>2. a \in Indices /\ attempts[a].status = "SENT"
  BY <1>1, AttemptOfRequest DEF AtStatus
<1>3. i \in Invitation /\ inv[i] \in Row
  BY <1>2 DEF EmailInd, AttemptsIssued, Issued, TypeOK
<1>4. CASE MaySend(inv[i])
  <2>1. ~inv[i].revoked
    BY <1>4 DEF MaySend
  <2>2. SentRow(inv[i]) \in Row
    BY <1>3, <2>1, UpdatesOfActive
  <2>3. inv' = [inv EXCEPT ![i] = SentRow(inv[i])]
    BY <1>1, <1>4
  <2>4. RowsGoOn
    BY <1>2, <1>3, <2>2, <2>3, OneRowGoesOn DEF EmailInd
  <2> QED
    BY <1>1, <2>4, NoRequestRests, RequestKeeps
       DEF EmailInd, TypeOK, Begun, MayRotate, Delivering
<1>5. CASE ~MaySend(inv[i])
  <2>1. Reject(s)
    BY <1>1, <1>5 DEF Reject, End, Become
  <2> QED
    BY <2>1, RejectKeeps
<1> QED
  BY <1>4, <1>5
-----------------------------------------------------------------------------
(* Other requests, time, failures and recovery                             *)

LEMMA HostCreatesKeeps ==
    ASSUME EmailInd, NEW g \in Guest, NEW i \in Invitation, HostCreates(g, i)
    PROVE  EmailInd'
<1>1. NewRow(g) \in Row /\ NewRow(g).status # "SENT" /\ inv' = [inv EXCEPT ![i] = NewRow(g)]
  BY RowUpdates DEF HostCreates
<1>2. RowsGoOn
  BY <1>1, OneRowGoesOn DEF EmailInd
<1> QED
  BY <1>2, OthersKeep DEF HostCreates, OthersUnchanged, EmailInd, TypeOK

LEMMA HostRegeneratesKeeps ==
    ASSUME EmailInd, NEW g \in Guest, NEW old \in Invitation, NEW i \in Invitation,
           HostRegenerates(g, old, i)
    PROVE  EmailInd'
<1>1. old \in Issued /\ i \notin Issued /\ inv \in [Invitation -> Row \cup {None}]
  BY DEF HostRegenerates, InvitationsOf, EmailInd, TypeOK
<1>2. inv' = [j \in Invitation |-> IF j = i THEN NewRow(g)
                                   ELSE IF j = old /\ ~inv[j].revoked THEN RevokedRow(inv[j])
                                   ELSE inv[j]]
  BY <1>1 DEF HostRegenerates
<1>3. RowsGoOn
  BY <1>1, <1>2, RotationGoesOn DEF EmailInd
<1> QED
  BY <1>3, OthersKeep DEF HostRegenerates, OthersUnchanged, EmailInd, TypeOK

LEMMA HostRevokesKeeps ==
    ASSUME EmailInd, NEW i \in Invitation, HostRevokes(i)
    PROVE  EmailInd'
<1>1. inv[i] \in Row /\ inv' = [inv EXCEPT ![i] = RevokedRow(inv[i])]
  BY DEF HostRevokes, Issued, EmailInd, TypeOK
<1>2. RowsGoOn
  BY <1>1, RowUpdates, OneRowGoesOn DEF EmailInd
<1> QED
  BY <1>2, OthersKeep DEF HostRevokes, OthersUnchanged, EmailInd, TypeOK

LEMMA GuestOpensKeeps ==
    ASSUME EmailInd, NEW i \in Invitation, GuestOpens(i)
    PROVE  EmailInd'
<1>1. inv[i] \in Row /\ ~inv[i].revoked /\ inv' = [inv EXCEPT ![i] = OpenedRow(inv[i])]
  BY DEF GuestOpens, Issued, EmailInd, TypeOK
<1>2. RowsGoOn
  BY <1>1, UpdatesOfActive, OneRowGoesOn DEF EmailInd
<1> QED
  BY <1>2, OthersKeep DEF GuestOpens, OthersUnchanged, EmailInd, TypeOK

LEMMA SetArchivedKeeps ==
    ASSUME EmailInd, NEW g \in Guest, NEW value \in BOOLEAN, SetArchived(g, value)
    PROVE  EmailInd'
<1>1. /\ archived' \in [Guest -> BOOLEAN] /\ spent' \in [Guest -> 0..RateLimit]
      /\ \A h \in Guest : archived'[h] => archived[h] \/ LockHolders(h) = {}
  BY DEF SetArchived, GuestFree, OthersUnchanged, EmailInd, TypeOK
<1>2. RowsGoOn
  BY UnchangedRowsGoOn DEF SetArchived
<1> QED
  BY <1>1, <1>2, OthersKeep DEF SetArchived, OthersUnchanged

LEMMA WindowSlidesKeeps ==
    ASSUME EmailInd, NEW g \in Guest, WindowSlides(g)
    PROVE  EmailInd'
<1>1. spent \in [Guest -> 0..RateLimit] /\ RateLimit \in Nat /\ spent[g] > 0
  BY EmailAssumption DEF EmailInd, TypeOK, WindowSlides
<1>2. spent[g] - 1 \in 0..RateLimit /\ spent' = [spent EXCEPT ![g] = spent[g] - 1]
  BY <1>1 DEF WindowSlides
<1>3. spent' \in [Guest -> 0..RateLimit]
  BY <1>1, <1>2
<1>4. RowsGoOn
  BY UnchangedRowsGoOn DEF WindowSlides
<1> QED
  BY <1>3, <1>4, OthersKeep DEF WindowSlides, EmailInd, TypeOK

(* Time and recovery: attempts age or fail, and nobody delivers.           *)
LEMMA AgeingKeeps ==
    ASSUME EmailInd, attempts' \in Seq(Attempt), SameAttempts,
           up' \in BOOLEAN, spent' \in [Guest -> 0..RateLimit], sender' \in [Sender -> Request],
           UNCHANGED <<archived, inv, begins, calls, accepted>>,
           \A a \in Indices : \/ attempts'[a].status = attempts[a].status
                              \/ /\ attempts[a].status = "SENDING"
                                 /\ attempts'[a].status = "FAILED"
                                 /\ \A s \in Sender : sender'[s].pc = "idle",
           \A s \in Sender : \/ sender'[s].pc = "idle" /\ sender'[s].ok = FALSE
                             \/ sender'[s] = sender[s] /\ up' = up
    PROVE  EmailInd'
<1> USE DEF EmailInd
<1>1. Indices' = Indices /\ Issued' = Issued
  BY DEF SameAttempts, Issued
<1>2. TypeOK'
  BY <1>1 DEF TypeOK
<1>3. ASSUME NEW s \in Sender
      PROVE  Begun(sender[s])' /\ MayRotate(sender[s])' /\ Delivers(sender[s])'
  <2>1. CASE sender'[s].pc = "idle" /\ sender'[s].ok = FALSE
    BY <2>1 DEF Begun, MayRotate, Delivers, Delivering
  <2>2. CASE sender'[s] = sender[s] /\ sender[s].pc # "idle" /\ up' = up
    <3>1. Begun(sender[s]) /\ MayRotate(sender[s]) /\ Delivers(sender[s])
      BY DEF SenderShape
    <3>2. Begun(sender[s])' /\ MayRotate(sender[s])'
      BY <1>1, <2>2, <3>1 DEF Begun, MayRotate
    <3>3. Delivers(sender[s])'
      BY <1>1, <2>2, <3>1 DEF Delivers, SameAttempts
    <3> QED
      BY <3>2, <3>3
  <2>3. sender[s].pc = "idle" => sender[s].ok = FALSE
    BY DEF SenderShape, Begun
  <2> QED
    BY <2>1, <2>2, <2>3
<1>4. SenderShape'
  BY <1>3 DEF SenderShape
<1>5. OneDeliverer'
  BY DEF OneDeliverer, Delivering
<1>6. KeysDiffer' /\ AttemptsIssued'
  BY <1>1 DEF SameAttempts, KeysDiffer, AttemptsIssued
<1>7. CallsCounted'
  <2>1. \A k \in Key : WithKey(k)' = WithKey(k)
    BY <1>1 DEF SameAttempts, WithKey
  <2> QED
    BY <1>1, <2>1 DEF SameAttempts, CallsCounted
<1>8. SentWasAccepted'
  BY <1>1 DEF SentWasAccepted, SameAttempts
<1>9. Numbered'
  BY NumberedKept
<1> QED
  BY <1>2, <1>4, <1>5, <1>6, <1>7, <1>8, <1>9

LEMMA FifteenMinutesEffect ==
    ASSUME TypeOK, NEW a \in Indices, FifteenMinutesPass(a)
    PROVE  /\ attempts' \in Seq(Attempt) /\ SameAttempts
           /\ \A b \in Indices : attempts'[b].status = attempts[b].status
<1> DEFINE e == [attempts[a] EXCEPT !.stale = TRUE]
<1>1. attempts \in Seq(Attempt) /\ a \in 1..Len(attempts) /\ attempts[a] \in Attempt
  BY AttemptsTyped DEF TypeOK, Indices
<1>2. /\ e \in Attempt /\ e.status = attempts[a].status /\ e.guest = attempts[a].guest
      /\ e.key = attempts[a].key /\ e.inv = attempts[a].inv
      /\ e.number = attempts[a].number /\ e.createdAt = attempts[a].createdAt
  BY <1>1 DEF Attempt
<1>3. attempts' = [attempts EXCEPT ![a] = e]
  BY DEF FifteenMinutesPass
<1> HIDE DEF e
<1>4. /\ attempts' \in Seq(Attempt) /\ Len(attempts') = Len(attempts)
      /\ \A b \in 1..Len(attempts) : attempts'[b] = IF b = a THEN e ELSE attempts[b]
  BY <1>1, <1>2, <1>3, ExceptSeq
<1> QED
  BY <1>1, <1>2, <1>4 DEF SameAttempts, Indices

LEMMA RestartEffect ==
    ASSUME TypeOK, Restart
    PROVE  /\ attempts' \in Seq(Attempt) /\ SameAttempts
           /\ \A a \in Indices : \/ attempts'[a].status = attempts[a].status
                                 \/ /\ attempts[a].status = "SENDING"
                                    /\ attempts'[a].status = "FAILED"
<1> DEFINE Failed(a) == [attempts[a] EXCEPT !.status = "FAILED", !.stale = FALSE]
           After(a) == IF Interrupted(attempts[a]) THEN Failed(a) ELSE attempts[a]
           n == Len(attempts)
<1>1. attempts \in Seq(Attempt) /\ n \in Nat /\ attempts' = [a \in 1..n |-> After(a)]
  BY LenProperties DEF TypeOK, Restart, Indices
<1>2. ASSUME NEW a \in 1..n
      PROVE  /\ After(a) \in Attempt /\ After(a).guest = attempts[a].guest
             /\ After(a).key = attempts[a].key /\ After(a).inv = attempts[a].inv
             /\ After(a).number = attempts[a].number
             /\ After(a).createdAt = attempts[a].createdAt
             /\ \/ After(a).status = attempts[a].status
                \/ attempts[a].status = "SENDING" /\ After(a).status = "FAILED"
  <2>1. attempts[a] \in Attempt
    BY AttemptsTyped DEF Indices
  <2>2. /\ Failed(a) \in Attempt /\ Failed(a).guest = attempts[a].guest
        /\ Failed(a).key = attempts[a].key /\ Failed(a).inv = attempts[a].inv
        /\ Failed(a).number = attempts[a].number /\ Failed(a).status = "FAILED"
        /\ Failed(a).createdAt = attempts[a].createdAt
    BY <2>1 DEF Attempt, AttemptStatus
  <2> QED
    BY <2>1, <2>2 DEF Interrupted
<1> HIDE DEF After
<1>3. attempts' \in [1..n -> Attempt]
  BY <1>1, <1>2
<1>4. attempts' \in Seq(Attempt) /\ Len(attempts') = n
  BY <1>1, <1>3, SeqDef, LenProperties
<1>5. \A a \in 1..n : attempts'[a] = After(a)
  BY <1>1
<1> QED
  BY <1>2, <1>4, <1>5 DEF SameAttempts, Indices

LEMMA TimeAndCrashesKeep ==
    ASSUME EmailInd, Crash \/ Restart \/ \E a \in Indices : FifteenMinutesPass(a)
    PROVE  EmailInd'
<1> USE DEF EmailInd
<1>1. CASE Crash
  <2>1. /\ attempts' = attempts /\ up' = FALSE
        /\ sender' = [s \in Sender |-> NoRequest] /\ spent' = [g \in Guest |-> 0]
        /\ UNCHANGED <<archived, inv, begins, calls, accepted>>
    BY <1>1 DEF Crash
  <2>2. sender' \in [Sender -> Request] /\ spent' \in [Guest -> 0..RateLimit]
        /\ \A s \in Sender : sender'[s].pc = "idle" /\ sender'[s].ok = FALSE
    BY <2>1, NoRequestRests, EmailAssumption
  <2>3. attempts' \in Seq(Attempt) /\ SameAttempts
    BY <2>1 DEF TypeOK, SameAttempts, Indices
  <2> QED
    BY <2>1, <2>2, <2>3, AgeingKeeps
<1>2. CASE Restart
  <2>1. /\ ~up /\ up' = TRUE /\ UNCHANGED <<archived, inv, begins, spent, sender, calls, accepted>>
    BY <1>2 DEF Restart
  <2>2. \A s \in Sender : sender'[s].pc = "idle" /\ sender'[s].ok = FALSE
    BY <2>1 DEF SenderShape, Begun
  <2>3. sender' \in [Sender -> Request] /\ spent' \in [Guest -> 0..RateLimit]
    BY <2>1 DEF TypeOK
  <2> QED
    BY <1>2, <2>1, <2>2, <2>3, RestartEffect, AgeingKeeps
<1>3. CASE \E a \in Indices : FifteenMinutesPass(a)
  <2>1. PICK a \in Indices : FifteenMinutesPass(a)
    BY <1>3
  <2>2. UNCHANGED <<up, archived, inv, begins, spent, sender, calls, accepted>>
    BY <2>1 DEF FifteenMinutesPass
  <2>3. up' \in BOOLEAN /\ sender' \in [Sender -> Request] /\ spent' \in [Guest -> 0..RateLimit]
    BY <2>2 DEF TypeOK
  <2> QED
    BY <2>1, <2>2, <2>3, FifteenMinutesEffect, AgeingKeeps
<1> QED
  BY <1>1, <1>2, <1>3

LEMMA EmailStep == EmailInd /\ [Next]_vars => EmailInd'
<1> SUFFICES ASSUME EmailInd, [Next]_vars PROVE EmailInd'
  OBVIOUS
<1>1. ASSUME NEW s \in Sender, NEW g \in Guest, NEW k \in Key, NEW rotate \in BOOLEAN,
             Begin(s, g, k, rotate)
      PROVE  EmailInd'
  BY <1>1, BeginKeeps
<1>2. ASSUME NEW s \in Sender, SenderStep(s) PROVE EmailInd'
  BY <1>2, LockGuestKeeps, CheckKeyKeeps, CheckProgressKeeps, QueueKeeps, MarkSendingKeeps,
     CallProviderKeeps, RecordAnswerKeeps, MarkInvitationSentKeeps DEF SenderStep
<1>3. ASSUME NEW s \in Sender, RequestFails(s) PROVE EmailInd'
  BY <1>3, RejectKeeps DEF RequestFails
<1>4. ASSUME NEW g \in Guest, NEW i \in Invitation,
             HostCreates(g, i) \/ \E old \in Invitation : HostRegenerates(g, old, i)
      PROVE  EmailInd'
  BY <1>4, HostCreatesKeeps, HostRegeneratesKeeps
<1>5. ASSUME NEW g \in Guest, WindowSlides(g) \/ \E value \in BOOLEAN : SetArchived(g, value)
      PROVE  EmailInd'
  BY <1>5, WindowSlidesKeeps, SetArchivedKeeps
<1>6. ASSUME NEW i \in Invitation, HostRevokes(i) \/ GuestOpens(i) PROVE EmailInd'
  BY <1>6, HostRevokesKeeps, GuestOpensKeeps
<1>7. CASE UNCHANGED vars
  <2>1. UNCHANGED <<up, archived, inv, attempts, begins, spent, sender, calls, accepted>>
    BY <1>7 DEF vars
  <2>2. RowsGoOn /\ spent' \in [Guest -> 0..RateLimit] /\ archived' \in [Guest -> BOOLEAN]
    BY <2>1, UnchangedRowsGoOn DEF EmailInd, TypeOK
  <2> QED
    BY <2>1, <2>2, OthersKeep
<1> QED
  BY <1>1, <1>2, <1>3, <1>4, <1>5, <1>6, <1>7, TimeAndCrashesKeep DEF Next

(* The inductive invariant, from which the following theorems come.        *)
THEOREM EmailInvariant == Spec => []EmailInd
  BY EmailInit, EmailStep, PTL DEF Spec

(* Attempts are typed and numbered without gaps, whatever transactions,    *)
(* crashes and restarts come together.                                     *)
THEOREM AttemptsTypedAndDense == Spec => []AttemptsInv
<1>1. EmailInd => AttemptsInv
  BY DEF EmailInd, Numbered, AttemptsInv
<1> QED
  BY <1>1, EmailInvariant, PTL

(* A request that is repeated, overlaps another or comes back after a      *)
(* crash does not call the provider a second time for its key.             *)
THEOREM ProviderCalledOnce == Spec => []OneCallPerKey
<1>1. EmailInd => OneCallPerKey
  BY DEF EmailInd, CallsCounted, OneCallPerKey
<1> QED
  BY <1>1, EmailInvariant, PTL

(* SENT is only said of a message the provider accepted, and of a link by  *)
(* the delivery of this link.                                              *)
THEOREM SentIsTrue == Spec => []SentWasAccepted
<1>1. EmailInd => SentWasAccepted
  BY DEF EmailInd
<1> QED
  BY <1>1, EmailInvariant, PTL
-----------------------------------------------------------------------------
(* How attempts evolve                                                     *)

Advances == /\ SameAttempts
            /\ \A a \in Indices : \/ attempts'[a].status = attempts[a].status
                                  \/ <<attempts[a].status, attempts'[a].status>> \in Moves

Queues(s) ==
    /\ sender[s].pc = "rotating" /\ UNCHANGED <<archived, begins>>
    /\ sender'[s].pc = "queued" /\ \A q \in Sender \ {s} : sender'[q] = sender[q]
    /\ \E new \in Attempt : /\ attempts' = Append(attempts, new)
                            /\ new.guest = sender[s].guest /\ new.createdAt = sender[s].stamp

LEMMA UnchangedAdvances == ASSUME attempts' = attempts PROVE Advances
  BY DEF Advances, SameAttempts, Indices

LEMMA DeliveriesAdvance ==
    ASSUME EmailInd, NEW s \in Sender, MarkSending(s) \/ RecordAnswer(s)
    PROVE  Advances
<1> DEFINE a == sender[s].attempt
<1>1. CASE MarkSending(s)
  <2>1. sender[s].pc = "queued" /\ sender[s].pc \in Delivering
    BY <1>1 DEF MarkSending, Delivering
  <2>2. a \in Indices /\ attempts[a].status = "QUEUED"
    BY <2>1, AttemptOfRequest DEF AtStatus
  <2>3. SetStatus(a, "SENDING") /\ "SENDING" \in AttemptStatus
    BY <1>1, <2>2 DEF MarkSending, AttemptStatus
  <2> HIDE DEF a
  <2> QED
    BY <2>2, <2>3, StatusIsSet DEF EmailInd, Advances, Moves
<1>2. CASE RecordAnswer(s)
  <2>1. sender[s].pc = "answered" /\ sender[s].pc \in Delivering
    BY <1>2 DEF RecordAnswer, Delivering
  <2>2. a \in Indices /\ attempts[a].status = "SENDING"
    BY <2>1, AttemptOfRequest DEF AtStatus
  <2>3. PICK x \in {"SENT", "FAILED"} : SetStatus(a, x) /\ x \in AttemptStatus
    BY <1>2 DEF RecordAnswer, AttemptStatus
  <2> HIDE DEF a
  <2> QED
    BY <2>2, <2>3, StatusIsSet DEF EmailInd, Advances, Moves
<1> QED
  BY <1>1, <1>2

LEMMA QueuesWhenNotRejected ==
    ASSUME EmailInd, NEW s \in Sender, Queue(s), ~Reject(s)
    PROVE  Queues(s)
<1>1. PICK new \in Attempt :
          /\ new.guest = sender[s].guest /\ new.createdAt = sender[s].stamp
          /\ attempts' = Append(attempts, new) /\ sender[s].pc = "rotating"
          /\ sender' = [sender EXCEPT ![s].pc = "queued", ![s].attempt = Len(attempts) + 1]
          /\ UNCHANGED <<archived, begins>>
  BY QueueEffect
<1>2. sender \in [Sender -> Request] /\ sender[s] \in Request
  BY DEF EmailInd, TypeOK
<1>3. sender'[s].pc = "queued" /\ \A q \in Sender \ {s} : sender'[q] = sender[q]
  BY <1>1, <1>2 DEF Request
<1> QED
  BY <1>1, <1>3 DEF Queues

LEMMA SenderAdvances ==
    ASSUME EmailInd, NEW s \in Sender, SenderStep(s)
    PROVE  Advances \/ Queues(s)
<1>1. CASE LockGuest(s) \/ CheckKey(s) \/ CheckProgress(s) \/ CallProvider(s)
               \/ MarkInvitationSent(s) \/ Reject(s)
  <2>1. attempts' = attempts
    BY <1>1 DEF LockGuest, CheckKey, CheckProgress, CallProvider, MarkInvitationSent, Reject
  <2> QED
    BY <2>1, UnchangedAdvances
<1> QED
  BY <1>1, DeliveriesAdvance, QueuesWhenNotRejected DEF SenderStep

LEMMA AttemptsEvolve ==
    ASSUME EmailInd, [Next]_vars
    PROVE  Advances \/ \E s \in Sender : Queues(s)
<1>1. ASSUME NEW s \in Sender, SenderStep(s)
      PROVE  Advances \/ Queues(s)
  BY <1>1, SenderAdvances
<1>2. CASE UNCHANGED vars \/ Crash
  BY <1>2, UnchangedAdvances DEF vars, Crash
<1>3. CASE Restart
  BY <1>3, RestartEffect DEF EmailInd, Advances, Moves
<1>4. CASE \E a \in Indices : FifteenMinutesPass(a)
  BY <1>4, FifteenMinutesEffect DEF EmailInd, Advances
<1>5. ASSUME NEW s \in Sender, NEW g \in Guest, NEW k \in Key, NEW rotate \in BOOLEAN,
             Begin(s, g, k, rotate)
      PROVE  Advances
  BY <1>5, UnchangedAdvances DEF Begin
<1>6. CASE \E g \in Guest :
              \/ \E i \in Invitation : HostCreates(g, i)
                                       \/ \E old \in Invitation : HostRegenerates(g, old, i)
              \/ \E value \in BOOLEAN : SetArchived(g, value)
              \/ WindowSlides(g)
  BY <1>6, UnchangedAdvances
     DEF HostCreates, HostRegenerates, SetArchived, WindowSlides, OthersUnchanged
<1>7. CASE \E i \in Invitation : HostRevokes(i) \/ GuestOpens(i)
  BY <1>7, UnchangedAdvances DEF HostRevokes, GuestOpens, OthersUnchanged
<1>8. ASSUME NEW s \in Sender, RequestFails(s) PROVE Advances
  BY <1>8, UnchangedAdvances DEF RequestFails, Reject
<1> QED
  BY <1>1, <1>2, <1>3, <1>4, <1>5, <1>6, <1>7, <1>8 DEF Next

(* The recovery of a restart and the unguarded updates of a late answer    *)
(* never move an attempt backwards or overwrite a finished one.            *)
THEOREM AttemptsAdvance == Spec => AttemptsOnlyAdvance
<1>1. EmailInd /\ [Next]_vars =>
          [\A a \in Indices : LET old == attempts[a].status
                                  new == attempts'[a].status
                              IN  old = new \/ <<old, new>> \in Moves]_vars
  <2> SUFFICES ASSUME EmailInd, [Next]_vars
               PROVE  \A a \in Indices : \/ attempts[a].status = attempts'[a].status
                                         \/ <<attempts[a].status, attempts'[a].status>> \in Moves
    OBVIOUS
  <2>1. CASE Advances
    BY <2>1 DEF Advances
  <2>2. ASSUME NEW s \in Sender, Queues(s)
        PROVE  \A a \in Indices : attempts'[a] = attempts[a]
    BY <2>2, AppendProperties DEF Queues, EmailInd, TypeOK, Indices
  <2> QED
    BY <2>1, <2>2, AttemptsEvolve
<1> QED
  BY <1>1, EmailInvariant, PTL DEF Spec, AttemptsOnlyAdvance

(* The guest lock keeps an archive out between the check and the commit.   *)
THEOREM ArchivedGetNone == Spec => NoneQueuedForArchived
<1>1. EmailInd /\ EmailInd' /\ [Next]_vars =>
          [Len(attempts') > Len(attempts) => ~archived[attempts'[Len(attempts')].guest]]_vars
  <2> SUFFICES ASSUME EmailInd, EmailInd', [Next]_vars, Len(attempts') > Len(attempts)
               PROVE  ~archived[attempts'[Len(attempts')].guest]
    OBVIOUS
  <2>1. Len(attempts) \in Nat /\ Len(attempts') \in Nat
    BY LenProperties DEF EmailInd, TypeOK
  <2>2. ~Advances
    BY <2>1 DEF Advances, SameAttempts, Indices
  <2>3. PICK s \in Sender : Queues(s)
    BY <2>2, AttemptsEvolve
  <2>4. attempts'[Len(attempts')].guest = sender[s].guest
    BY <2>3, AppendProperties DEF Queues, EmailInd, TypeOK
  <2>5. ~archived[sender[s].guest]
    BY <2>3 DEF Queues, EmailInd, SenderShape, MayRotate
  <2> QED
    BY <2>4, <2>5
<1> QED
  BY <1>1, EmailInvariant, PTL DEF Spec, NoneQueuedForArchived
-----------------------------------------------------------------------------
(* One delivery in progress, when the lock is got in BEGIN order           *)

Waiting == {"begun"} \cup InTransaction

LockExclusive ==
    \A s, q \in Sender :
        /\ sender[s].pc \in InTransaction /\ sender[q].pc \in InTransaction
        /\ sender[s].guest = sender[q].guest
        => s = q

(* Transactions have the stamps they began with; the one with the lock     *)
(* began before those that wait for it, and after all that have committed. *)
StampsOrdered ==
    /\ \A s \in Sender : sender[s].pc \in Waiting => sender[s].stamp <= begins
    /\ \A a \in Indices : attempts[a].createdAt <= begins
    /\ \A s, q \in Sender :
          /\ sender[s].pc \in Waiting /\ sender[q].pc \in Waiting
          /\ sender[s].stamp = sender[q].stamp
          => s = q
    /\ \A s, q \in Sender :
          /\ sender[s].pc \in InTransaction /\ sender[q].pc = "begun"
          /\ sender[s].guest = sender[q].guest
          => sender[s].stamp < sender[q].stamp
    /\ \A s \in Sender, a \in Indices :
          sender[s].pc \in Waiting /\ sender[s].guest = attempts[a].guest
          => attempts[a].createdAt < sender[s].stamp

(* So the latest attempt by created_at is the last one inserted, which is  *)
(* the only one that can be in progress, and a request that saw it is not  *)
(* still knows so when it queues.                                          *)
OnlyLatestInProgress ==
    \A a, b \in Indices :
        /\ attempts[a].guest = attempts[b].guest
        /\ attempts[a].createdAt < attempts[b].createdAt
        => attempts[a].status \notin InProgress
QuietRotation ==
    \A s \in Sender, a \in Indices :
        sender[s].pc = "rotating" /\ sender[s].guest = attempts[a].guest
        => attempts[a].status \notin InProgress

OrderInd == /\ LockExclusive /\ StampsOrdered /\ OnlyLatestInProgress
            /\ QuietRotation /\ OneInProgress

LEMMA OrderInit == Init => OrderInd
<1> SUFFICES ASSUME Init PROVE OrderInd
  OBVIOUS
<1>1. Indices = {} /\ \A s \in Sender : sender[s].pc = "idle"
  BY NoRequestRests DEF Init, Indices
<1> QED
  BY <1>1 DEF OrderInd, LockExclusive, StampsOrdered, OnlyLatestInProgress, QuietRotation,
              OneInProgress, Waiting, InTransaction

(* What was seen of the latest attempt is true of all.                     *)
LEMMA NotBusyMeansQuiet ==
    ASSUME TypeOK, OrderInd, NEW g, ~Busy(g)
    PROVE  \A a \in AttemptsOf(g) : attempts[a].status \notin InProgress
<1> SUFFICES ASSUME NEW a \in AttemptsOf(g), attempts[a].status \in InProgress PROVE FALSE
  OBVIOUS
<1>1. \A b \in AttemptsOf(g) : attempts[b].createdAt \in Nat
  BY AttemptsTyped DEF AttemptsOf, Attempt
<1>2. \A b \in AttemptsOf(g) : attempts[b].createdAt <= attempts[a].createdAt
  BY <1>1 DEF OrderInd, OnlyLatestInProgress, AttemptsOf
<1> QED
  BY <1>2 DEF Busy, Latest

(* A request goes on within its transaction, or leaves it.                 *)
Continues(s) ==
    \/ sender'[s].pc \notin Waiting
    \/ /\ sender'[s].guest = sender[s].guest /\ sender'[s].stamp = sender[s].stamp
       /\ \/ sender'[s].pc = "begun" /\ sender[s].pc = "begun"
          \/ sender'[s].pc \in InTransaction /\ sender[s].pc \in InTransaction
       /\ sender'[s].pc = "rotating" => sender[s].pc = "rotating" \/ ~Busy(sender[s].guest)

LEMMA MovesNeverResume ==
    ASSUME Advances
    PROVE  /\ Indices' = Indices
           /\ \A a \in Indices : /\ attempts'[a].guest = attempts[a].guest
                                 /\ attempts'[a].createdAt = attempts[a].createdAt
                                 /\ attempts'[a].status \in InProgress =>
                                        attempts[a].status \in InProgress
  BY DEF Advances, SameAttempts, Moves, InProgress

LEMMA ContinuingKeepsOrder ==
    ASSUME TypeOK, OrderInd, Advances, begins' = begins, \A s \in Sender : Continues(s)
    PROVE  OrderInd'
<1>1. /\ Indices' = Indices
      /\ \A a \in Indices : /\ attempts'[a].guest = attempts[a].guest
                            /\ attempts'[a].createdAt = attempts[a].createdAt
                            /\ attempts'[a].status \in InProgress =>
                                   attempts[a].status \in InProgress
  BY MovesNeverResume
<1>2. LockExclusive'
  BY DEF OrderInd, LockExclusive, Continues, Waiting, InTransaction
<1>3. StampsOrdered'
  <2>1. \A s \in Sender : sender'[s].pc \in Waiting =>
            /\ sender[s].pc \in Waiting
            /\ sender'[s].pc \in InTransaction <=> sender[s].pc \in InTransaction
            /\ sender'[s].pc = "begun" <=> sender[s].pc = "begun"
            /\ sender'[s].guest = sender[s].guest /\ sender'[s].stamp = sender[s].stamp
    BY DEF Continues, Waiting, InTransaction
  <2>2. InTransaction \subseteq Waiting /\ "begun" \in Waiting
    BY DEF Waiting
  <2> QED
    BY <1>1, <2>1, <2>2 DEF OrderInd, StampsOrdered
<1>4. OnlyLatestInProgress' /\ OneInProgress'
  BY <1>1 DEF OrderInd, OnlyLatestInProgress, OneInProgress
<1>5. QuietRotation'
  <2> SUFFICES ASSUME NEW s \in Sender, NEW a \in Indices, sender'[s].pc = "rotating",
                      sender'[s].guest = attempts'[a].guest
               PROVE  attempts'[a].status \notin InProgress
    BY <1>1 DEF QuietRotation
  <2>1. /\ sender[s].guest = attempts[a].guest
        /\ sender[s].pc = "rotating" \/ ~Busy(sender[s].guest)
    BY <1>1 DEF Continues, Waiting, InTransaction
  <2>2. attempts[a].status \notin InProgress
    BY <2>1, NotBusyMeansQuiet DEF OrderInd, QuietRotation, AttemptsOf
  <2> QED
    BY <1>1, <2>2
<1> QED
  BY <1>2, <1>3, <1>4, <1>5 DEF OrderInd

LEMMA BeginKeepsOrder ==
    ASSUME TypeOK, OrderInd, NEW s \in Sender, NEW g \in Guest, NEW k \in Key,
           NEW rotate \in BOOLEAN, Begin(s, g, k, rotate)
    PROVE  OrderInd'
<1> USE DEF OrderInd
<1>1. begins \in Nat /\ begins' = begins + 1 /\ attempts' = attempts /\ Indices' = Indices
  BY DEF TypeOK, Begin, Indices
<1>2. \A a \in Indices : attempts[a].createdAt \in Nat
  BY AttemptsTyped DEF Attempt
<1>3. \A q \in Sender : sender[q] \in Request /\ sender[q].stamp \in Nat
  BY DEF TypeOK, Request
<1>4. /\ sender'[s].pc = "begun" /\ sender'[s].guest = g /\ sender'[s].stamp = begins + 1
      /\ \A q \in Sender \ {s} : sender'[q] = sender[q]
  <2>1. ASSUME NEW r \in Request, NEW n \in Nat
        PROVE  LET new == [r EXCEPT !.pc = "begun", !.guest = g, !.key = k,
                               !.rotate = rotate, !.stamp = n]
               IN  new.pc = "begun" /\ new.guest = g /\ new.stamp = n
    BY DEF Request
  <2>2. begins + 1 \in Nat
    BY <1>1
  <2> DEFINE r == [NoRequest EXCEPT !.pc = "begun", !.guest = g, !.key = k,
                       !.rotate = rotate, !.stamp = begins + 1]
  <2>3. r.pc = "begun" /\ r.guest = g /\ r.stamp = begins + 1
    BY <2>1, <2>2, NoRequestRests, Zenon
  <2>4. sender' = [sender EXCEPT ![s] = r]
    BY DEF Begin, Become
  <2> HIDE DEF r
  <2> QED
    BY <2>3, <2>4 DEF TypeOK
<1>5. LockExclusive'
  BY <1>4 DEF LockExclusive, InTransaction
<1>6. StampsOrdered'
  <2>1. \A q \in Sender : sender'[q].pc \in Waiting => sender'[q].stamp <= begins'
    BY <1>1, <1>3, <1>4 DEF StampsOrdered
  <2>2. \A a \in Indices : attempts[a].createdAt <= begins'
    BY <1>1, <1>2 DEF StampsOrdered
  <2>3. \A q \in Sender \ {s} : sender'[q].pc \in Waiting => sender'[q].stamp < sender'[s].stamp
    BY <1>1, <1>3, <1>4 DEF StampsOrdered
  <2>4. \A a \in Indices : attempts[a].createdAt < sender'[s].stamp
    BY <1>1, <1>2, <1>4 DEF StampsOrdered
  <2>5. \A q \in Sender : sender'[q].stamp \in Nat
    BY <1>1, <1>3, <1>4
  <2>6. \A q, r \in Sender :
            /\ sender'[q].pc \in Waiting /\ sender'[r].pc \in Waiting
            /\ sender'[q].stamp = sender'[r].stamp
            => q = r
    BY <1>4, <2>3, <2>5 DEF StampsOrdered
  <2>7. \A q, r \in Sender :
            /\ sender'[q].pc \in InTransaction /\ sender'[r].pc = "begun"
            /\ sender'[q].guest = sender'[r].guest
            => sender'[q].stamp < sender'[r].stamp
    BY <1>4, <2>3 DEF StampsOrdered, Waiting, InTransaction
  <2>8. \A q \in Sender, a \in Indices :
            sender'[q].pc \in Waiting /\ sender'[q].guest = attempts[a].guest
            => attempts[a].createdAt < sender'[q].stamp
    BY <1>4, <2>4 DEF StampsOrdered
  <2> QED
    BY <1>1, <2>1, <2>2, <2>6, <2>7, <2>8 DEF StampsOrdered
<1>7. OnlyLatestInProgress' /\ OneInProgress'
  BY <1>1 DEF OnlyLatestInProgress, OneInProgress
<1>8. QuietRotation'
  BY <1>1, <1>4 DEF QuietRotation
<1> QED
  BY <1>5, <1>6, <1>7, <1>8

LEMMA LockKeepsOrder ==
    ASSUME ~BeginSkew, TypeOK, OrderInd, NEW s \in Sender, LockGuest(s)
    PROVE  OrderInd'
<1> USE DEF OrderInd
<1>1. /\ begins' = begins /\ attempts' = attempts /\ Indices' = Indices
      /\ sender[s].pc = "begun" /\ GuestFree(sender[s].guest) /\ InBeginOrder(s)
  BY DEF LockGuest, Indices
<1>2. \A q \in Sender : sender[q] \in Request /\ sender[q].stamp \in Nat
  BY DEF TypeOK, Request
<1>3. /\ sender'[s].pc = "locked" /\ sender'[s].guest = sender[s].guest
      /\ sender'[s].stamp = sender[s].stamp
      /\ \A q \in Sender \ {s} : sender'[q] = sender[q]
  BY <1>2 DEF LockGuest, MoveTo, TypeOK, Request
<1>4. LockExclusive'
  BY <1>1, <1>3 DEF LockExclusive, GuestFree, LockHolders
<1>5. StampsOrdered'
  <2>1. \A q \in Sender : /\ sender'[q].guest = sender[q].guest
                          /\ sender'[q].stamp = sender[q].stamp
                          /\ sender'[q].pc \in Waiting <=> sender[q].pc \in Waiting
    BY <1>1, <1>3 DEF Waiting, InTransaction
  <2>2. \A q, r \in Sender :
            /\ sender'[q].pc \in InTransaction /\ sender'[r].pc = "begun"
            /\ sender'[q].guest = sender'[r].guest
            => sender'[q].stamp < sender'[r].stamp
    <3> SUFFICES ASSUME NEW q \in Sender, NEW r \in Sender, sender'[q].pc \in InTransaction,
                        sender'[r].pc = "begun", sender[q].guest = sender[r].guest
                 PROVE  sender[q].stamp < sender[r].stamp
      BY <2>1
    <3>1. r # s /\ sender[r].pc = "begun"
      BY <1>3
    <3>2. CASE q = s
      <4>1. sender[s].stamp <= sender[r].stamp
        BY <1>1, <3>1, <3>2 DEF InBeginOrder
      <4>2. sender[s].stamp # sender[r].stamp
        BY <1>1, <3>1 DEF StampsOrdered, Waiting
      <4> QED
        BY <1>2, <3>2, <4>1, <4>2
    <3>3. CASE q # s
      BY <1>3, <3>1, <3>3 DEF StampsOrdered
    <3> QED
      BY <3>2, <3>3
  <2> QED
    BY <1>1, <2>1, <2>2 DEF StampsOrdered
<1>6. OnlyLatestInProgress' /\ OneInProgress'
  BY <1>1 DEF OnlyLatestInProgress, OneInProgress
<1>7. QuietRotation'
  BY <1>1, <1>3 DEF QuietRotation
<1> QED
  BY <1>4, <1>5, <1>6, <1>7

LEMMA QueueKeepsOrder ==
    ASSUME TypeOK, OrderInd, NEW s \in Sender, Queues(s)
    PROVE  OrderInd'
<1> USE DEF OrderInd
<1> DEFINE n == Len(attempts) + 1
<1>1. PICK new \in Attempt : /\ attempts' = Append(attempts, new)
                             /\ new.guest = sender[s].guest /\ new.createdAt = sender[s].stamp
  BY DEF Queues
<1>2. /\ Indices' = Indices \cup {n} /\ n \notin Indices /\ attempts'[n] = new
      /\ \A a \in Indices : attempts'[a] = attempts[a]
  BY <1>1, AppendProperties, LenProperties DEF TypeOK, Indices
<1>3. /\ sender[s].pc = "rotating" /\ sender'[s].pc = "queued" /\ begins' = begins
      /\ \A q \in Sender \ {s} : sender'[q] = sender[q]
  BY DEF Queues
<1>4. /\ new.guest = sender[s].guest /\ new.createdAt = sender[s].stamp
      /\ "rotating" \in InTransaction /\ "rotating" \in Waiting
      /\ "queued" \notin Waiting /\ InTransaction \subseteq Waiting
  BY <1>1 DEF InTransaction, Waiting
<1> HIDE DEF n
<1>5. LockExclusive'
  BY <1>3, <1>4 DEF LockExclusive
<1>6. \A q \in Sender : sender'[q].pc \in Waiting =>
          /\ q # s /\ sender'[q] = sender[q]
          /\ sender[q].guest = sender[s].guest => sender[q].pc = "begun"
  BY <1>3, <1>4 DEF LockExclusive, Waiting
<1>7. StampsOrdered'
  <2>1. \A a \in Indices' : attempts'[a].createdAt <= begins'
    BY <1>2, <1>3, <1>4 DEF StampsOrdered
  <2>2. \A q \in Sender, a \in Indices' :
            sender'[q].pc \in Waiting /\ sender'[q].guest = attempts'[a].guest
            => attempts'[a].createdAt < sender'[q].stamp
    BY <1>2, <1>3, <1>4, <1>6 DEF StampsOrdered
  <2> QED
    BY <1>3, <1>4, <1>6, <2>1, <2>2 DEF StampsOrdered, Waiting
<1>8. \A a \in Indices : attempts[a].guest = new.guest =>
          /\ attempts[a].createdAt < new.createdAt
          /\ attempts[a].status \notin InProgress
  BY <1>3, <1>4 DEF StampsOrdered, QuietRotation
<1>9. /\ new.createdAt \in Nat
      /\ \A a \in Indices : attempts[a].createdAt \in Nat
  BY AttemptsTyped DEF Attempt
<1>10. OnlyLatestInProgress'
  BY <1>2, <1>8, <1>9 DEF OnlyLatestInProgress
<1>11. OneInProgress'
  BY <1>2, <1>8 DEF OneInProgress
<1>12. QuietRotation'
  <2>1. \A q \in Sender : sender'[q].pc = "rotating" =>
            q # s /\ sender'[q] = sender[q] /\ sender[q].guest # new.guest
    BY <1>3, <1>4, <1>6
  <2> QED
    BY <1>2, <2>1 DEF QuietRotation
<1> QED
  BY <1>5, <1>7, <1>10, <1>11, <1>12

LEMMA EndedContinues ==
    ASSUME EmailInd, NEW s \in Sender, sender' = [sender EXCEPT ![s] = NoRequest], NEW q \in Sender
    PROVE  Continues(q)
<1>1. sender'[q] = IF q = s THEN NoRequest ELSE sender[q]
  BY DEF EmailInd, TypeOK
<1>2. NoRequest.pc \notin Waiting
  BY NoRequestRests DEF Waiting, InTransaction
<1>3. sender[q].pc \in Waiting => sender[q].pc = "begun" \/ sender[q].pc \in InTransaction
  BY DEF Waiting
<1> QED
  BY <1>1, <1>2, <1>3 DEF Continues

LEMMA RestContinues ==
    ASSUME NEW q \in Sender, sender'[q] = sender[q]
    PROVE  Continues(q)
  BY DEF Continues, Waiting

LEMMA StepsContinue ==
    ASSUME EmailInd, NEW s \in Sender, SenderStep(s), ~LockGuest(s), ~Queues(s), NEW q \in Sender
    PROVE  Continues(q)
<1>1. sender \in [Sender -> Request] /\ sender[s] \in Request
  BY DEF EmailInd, TypeOK
<1>2. CASE Reject(s) \/ MarkInvitationSent(s)
  <2>1. sender' = [sender EXCEPT ![s] = NoRequest]
    BY <1>2 DEF Reject, MarkInvitationSent, End, Become
  <2> QED
    BY <2>1, EndedContinues
<1>3. ASSUME q # s, CheckKey(s) \/ CheckProgress(s) \/ MarkSending(s) \/ CallProvider(s)
                        \/ RecordAnswer(s)
      PROVE  sender'[q] = sender[q]
  BY <1>1, <1>3
     DEF CheckKey, CheckProgress, MarkSending, CallProvider, RecordAnswer, MoveTo, Reject, End, Become
<1>4. CASE CheckKey(s) /\ ~Reject(s) /\ q = s
  <2>1. sender[s].pc = "locked" /\ sender' = [sender EXCEPT ![s].pc = "checking"]
    BY <1>4 DEF CheckKey, MoveTo
  <2>2. /\ sender'[s].pc = "checking" /\ sender'[s].guest = sender[s].guest
        /\ sender'[s].stamp = sender[s].stamp
    BY <1>1, <2>1 DEF Request
  <2> QED
    BY <1>4, <2>1, <2>2 DEF Continues, InTransaction
<1>5. CASE CheckProgress(s) /\ ~Reject(s) /\ q = s
  <2>1. /\ sender[s].pc = "checking" /\ ~Busy(sender[s].guest)
        /\ \E prev : sender' = [sender EXCEPT ![s].pc = "rotating", ![s].prev = prev]
    BY <1>5 DEF CheckProgress
  <2>2. /\ sender'[s].pc = "rotating" /\ sender'[s].guest = sender[s].guest
        /\ sender'[s].stamp = sender[s].stamp
    BY <1>1, <2>1 DEF Request
  <2> QED
    BY <1>5, <2>1, <2>2 DEF Continues, InTransaction
<1>6. CASE (MarkSending(s) \/ CallProvider(s) \/ RecordAnswer(s)) /\ q = s
  <2>1. \/ sender' = [sender EXCEPT ![s] = NoRequest]
        \/ \E pc \in Delivering : sender' = [sender EXCEPT ![s].pc = pc]
        \/ \E ok : sender' = [sender EXCEPT ![s].pc = "answered", ![s].ok = ok]
    BY <1>6 DEF MarkSending, CallProvider, RecordAnswer, MoveTo, End, Become, Delivering
  <2>2. sender'[s].pc \in Delivering \cup {"idle"}
    BY <1>1, <2>1, NoRequestRests DEF Request, Delivering
  <2> QED
    BY <1>6, <2>2 DEF Continues, Delivering, Waiting, InTransaction
<1>7. CASE Queue(s) /\ ~Reject(s)
  BY <1>7, QueuesWhenNotRejected
<1> QED
  BY <1>2, <1>3, <1>4, <1>5, <1>6, <1>7, RestContinues DEF SenderStep

LEMMA OrderStep ==
    ASSUME ~BeginSkew, EmailInd, OrderInd, [Next]_vars
    PROVE  OrderInd'
<1> USE DEF EmailInd
<1>1. ASSUME NEW s \in Sender, SenderStep(s) PROVE OrderInd'
  <2>1. CASE LockGuest(s)
    BY <2>1, LockKeepsOrder
  <2>2. CASE Queues(s)
    BY <2>2, QueueKeepsOrder
  <2>3. CASE ~LockGuest(s) /\ ~Queues(s)
    <3>1. \A q \in Sender : Continues(q)
      BY <1>1, <2>3, StepsContinue
    <3>2. begins' = begins
      BY <1>1 DEF SenderStep, LockGuest, CheckKey, CheckProgress, Queue, MarkSending, CallProvider,
                  RecordAnswer, MarkInvitationSent, Reject
    <3>3. Advances
      BY <1>1, <2>3, SenderAdvances
    <3> QED
      BY <3>1, <3>2, <3>3, ContinuingKeepsOrder
  <2> QED
    BY <2>1, <2>2, <2>3
<1>2. ASSUME NEW s \in Sender, NEW g \in Guest, NEW k \in Key, NEW rotate \in BOOLEAN,
             Begin(s, g, k, rotate)
      PROVE  OrderInd'
  BY <1>2, BeginKeepsOrder
<1>3. ASSUME NEW s \in Sender, RequestFails(s) PROVE OrderInd'
  <2>1. sender' = [sender EXCEPT ![s] = NoRequest] /\ attempts' = attempts /\ begins' = begins
    BY <1>3 DEF RequestFails, Reject, End, Become
  <2> QED
    BY <2>1, EndedContinues, UnchangedAdvances, ContinuingKeepsOrder
<1>4. ASSUME Advances, begins' = begins, \A s \in Sender : sender'[s] = sender[s]
      PROVE  OrderInd'
  BY <1>4, RestContinues, ContinuingKeepsOrder
<1>5. CASE Crash
  <2>1. /\ attempts' = attempts /\ begins' = begins
        /\ \A s \in Sender : sender'[s] = NoRequest
    BY <1>5 DEF Crash
  <2>2. \A s \in Sender : Continues(s)
    BY <2>1, NoRequestRests DEF Continues, Waiting, InTransaction
  <2> QED
    BY <2>1, <2>2, UnchangedAdvances, ContinuingKeepsOrder
<1>6. CASE Restart
  BY <1>4, <1>6, RestartEffect DEF Advances, Moves, Restart
<1>7. ASSUME NEW a \in Indices, FifteenMinutesPass(a) PROVE OrderInd'
  BY <1>4, <1>7, FifteenMinutesEffect DEF Advances, FifteenMinutesPass
<1>8. ASSUME attempts' = attempts, sender' = sender, begins' = begins PROVE OrderInd'
  BY <1>4, <1>8, UnchangedAdvances
<1>9. CASE \E g \in Guest :
              \/ \E i \in Invitation : HostCreates(g, i)
                                       \/ \E old \in Invitation : HostRegenerates(g, old, i)
              \/ \E value \in BOOLEAN : SetArchived(g, value)
              \/ WindowSlides(g)
  BY <1>8, <1>9 DEF HostCreates, HostRegenerates, SetArchived, WindowSlides, OthersUnchanged
<1>10. CASE \E i \in Invitation : HostRevokes(i) \/ GuestOpens(i)
  BY <1>8, <1>10 DEF HostRevokes, GuestOpens, OthersUnchanged
<1>11. CASE UNCHANGED vars
  BY <1>8, <1>11 DEF vars
<1> QED
  BY <1>1, <1>2, <1>3, <1>5, <1>6, <1>7, <1>9, <1>10, <1>11 DEF Next

(* The check for a delivery in progress holds although it reads only the   *)
(* latest attempt and runs before the new one exists: as long as           *)
(* transactions get the guest lock in the order they began.                *)
THEOREM OneDeliveryPerGuest == ASSUME ~BeginSkew PROVE Spec => []OneInProgress
<1>1. EmailInd /\ OrderInd /\ [Next]_vars => OrderInd'
  BY OrderStep
<1>2. OrderInd => OneInProgress
  BY DEF OrderInd
<1> QED
  BY <1>1, <1>2, OrderInit, EmailInvariant, PTL DEF Spec
=============================================================================
