---------------------------- MODULE EmailDelivery ----------------------------
(***************************************************************************)
(* Sending one guest's invitation by e-mail: a transaction under the lock  *)
(* of the guest row rotates the link and queues an attempt; outside any    *)
(* transaction the attempt is marked SENDING, handed to the provider, and  *)
(* marked with the answer.  The API process may die between any two steps; *)
(* on its next start it fails the attempts left SENDING for 15 minutes.    *)
(*                                                                         *)
(* The statements of a rotation interleave with other requests in module   *)
(* Invitations; here a rotation is one step, and what matters is when it   *)
(* happens relative to the steps of a delivery.                            *)
(***************************************************************************)
EXTENDS InvitationRows, Sequences, FiniteSets, FiniteSetsExt

CONSTANTS
    Key,          \* idempotency keys, one per press of the send button
    Sender,       \* send requests in flight at once
    RateLimit,    \* EMAIL_RATE_LIMIT_PER_MINUTE
    MaxBegins,    \* bound: send transactions begun
    BeginSkew,    \* may transactions get the guest lock out of BEGIN order?
    Failures      \* may requests and the process fail?

ASSUME EmailAssumption ==
    /\ IsFiniteSet(Invitation) /\ IsFiniteSet(Sender)
    /\ None \notin Key
    /\ RateLimit \in Nat \ {0} /\ MaxBegins \in Nat
    /\ BeginSkew \in BOOLEAN /\ Failures \in BOOLEAN

VARIABLES
    up,        \* the API process runs
    archived,  \* guests.archived_at IS NOT NULL
    inv,       \* committed invitation rows
    attempts,  \* email_delivery_attempts, in insertion order
    begins,    \* transactions begun so far: the clock behind created_at
    spent,     \* spent[g]: sends of the last minute, in EmailRateLimiter
    sender,    \* sender[s]: the request s
    calls,     \* calls[k]: how often the provider was called for key k
    accepted   \* attempts whose message the provider accepted

vars == <<up, archived, inv, attempts, begins, spent, sender, calls, accepted>>

AttemptStatus == {"QUEUED", "SENDING", "SENT", "FAILED"}
InProgress == {"QUEUED", "SENDING"}

(* created_at defaults to now(), the time the transaction began.  `stale`  *)
(* says that the updated_at of a SENDING attempt is 15 minutes old.        *)
Attempt == [guest : Guest, key : Key, inv : Invitation, number : Nat,
            createdAt : Nat, status : AttemptStatus, stale : BOOLEAN]

SenderPc == {"idle", "begun", "locked", "checking", "rotating",
             "queued", "sending", "answered", "recorded"}
Request == [pc : SenderPc, guest : Guest \cup {None}, key : Key \cup {None},
            rotate : BOOLEAN,  \* the host confirmed the rotation
            stamp : Nat, prev : Invitation \cup {None},
            attempt : Nat, ok : BOOLEAN]
NoRequest == [pc |-> "idle", guest |-> None, key |-> None, rotate |-> FALSE,
              stamp |-> 0, prev |-> None, attempt |-> 0, ok |-> FALSE]

Init == /\ up = TRUE
        /\ archived = [g \in Guest |-> FALSE]
        /\ inv = [i \in Invitation |-> None]
        /\ attempts = <<>>
        /\ begins = 0
        /\ spent = [g \in Guest |-> 0]
        /\ sender = [s \in Sender |-> NoRequest]
        /\ calls = [k \in Key |-> 0]
        /\ accepted = {}
-----------------------------------------------------------------------------
Issued == {i \in Invitation : inv[i] # None}
InvitationsOf(g) == {i \in Issued : inv[i].guest = g}
ActiveOf(g) == {i \in InvitationsOf(g) : ~inv[i].revoked}

Indices == 1..Len(attempts)
AttemptsOf(g) == {a \in Indices : attempts[a].guest = g}
WithKey(k) == {a \in Indices : attempts[a].key = k}

InTransaction == {"locked", "checking", "rotating"}
LockHolders(g) == {s \in Sender : /\ sender[s].guest = g
                                  /\ sender[s].pc \in InTransaction}
GuestFree_NotLocked(g) == TRUE
GuestFree(g) == LockHolders(g) = {}

(* latestForGuest: ORDER BY created_at DESC LIMIT 1 *)
Latest(g) == {a \in AttemptsOf(g) :
                 \A b \in AttemptsOf(g) : attempts[b].createdAt <= attempts[a].createdAt}
Busy_QueuedOnly(g) == \E a \in Latest(g) : attempts[a].status = "QUEUED"
Busy(g) == \E a \in Latest(g) : attempts[a].status \in InProgress

(* nextAttemptNumber: MAX(attempt_number) + 1 *)
NextNumber_GlobalCount(g) == Len(attempts) + 1
NextNumber(g) == Max({0} \cup {attempts[a].number : a \in AttemptsOf(g)}) + 1
-----------------------------------------------------------------------------
(* The transaction of a send request                                       *)

Become(s, request) == sender' = [sender EXCEPT ![s] = request]
MoveTo(s, pc) == sender' = [sender EXCEPT ![s].pc = pc]
End(s) == Become(s, NoRequest)

(* 404, 409 and 429 answers roll the transaction back.                     *)
Reject(s) == /\ End(s)
             /\ UNCHANGED <<up, archived, inv, attempts, begins, spent, calls, accepted>>

Begin(s, g, k, rotate) ==
    /\ up /\ sender[s].pc = "idle" /\ begins < MaxBegins
    /\ begins' = begins + 1
    /\ Become(s, [NoRequest EXCEPT !.pc = "begun", !.guest = g, !.key = k,
                      !.rotate = rotate, !.stamp = begins + 1])
    /\ UNCHANGED <<up, archived, inv, attempts, spent, calls, accepted>>

(* SELECT .. FOR UPDATE on the guest.  Without BeginSkew the transactions  *)
(* that wait for one guest get its lock in the order they began.           *)
InBeginOrder(s) ==
    \A other \in Sender : (sender[other].pc = "begun" /\ sender[other].guest = sender[s].guest)
                              => sender[s].stamp <= sender[other].stamp

LockGuest(s) ==
    /\ sender[s].pc = "begun"
    /\ GuestFree(sender[s].guest)
    /\ BeginSkew \/ InBeginOrder(s)
    /\ MoveTo(s, "locked")
    /\ UNCHANGED <<up, archived, inv, attempts, begins, spent, calls, accepted>>

(* byIdempotencyKey: the attempt of an earlier request with this key is    *)
(* returned, or refused if it is another guest's; otherwise the rate       *)
(* limiter counts the request, whatever becomes of it.                     *)
IsReplay_Never(k) == FALSE
IsReplay(k) == WithKey(k) # {}

CheckKey(s) ==
    LET g == sender[s].guest IN
    /\ sender[s].pc = "locked"
    /\ IF IsReplay(sender[s].key) \/ spent[g] >= RateLimit
       THEN Reject(s)
       ELSE /\ spent' = [spent EXCEPT ![g] = @ + 1]
            /\ MoveTo(s, "checking")
            /\ UNCHANGED <<up, archived, inv, attempts, begins, calls, accepted>>

(* latestForGuest, findActiveByGuest ?? findLatestByGuest, emailEligibility*)
(* and the confirmation of a rotation.                                     *)
CheckProgress(s) ==
    LET g == sender[s].guest IN
    /\ sender[s].pc = "checking"
    /\ \/ /\ \/ Busy(g) \/ archived[g]
             \/ InvitationsOf(g) # {} /\ ~sender[s].rotate
          /\ Reject(s)
       \/ /\ ~Busy(g) /\ ~archived[g]
          /\ InvitationsOf(g) # {} => sender[s].rotate
          /\ \E prev \in IF ActiveOf(g) # {} THEN ActiveOf(g)
                         ELSE IF InvitationsOf(g) # {} THEN InvitationsOf(g) ELSE {None} :
                sender' = [sender EXCEPT ![s].pc = "rotating", ![s].prev = prev]
          /\ UNCHANGED <<up, archived, inv, attempts, begins, spent, calls, accepted>>

(* regenerateInTransaction refuses when another link became active or the  *)
(* guest was archived, createForGuestInTransaction only the former; the    *)
(* unique key fails the insertion of an attempt.                           *)
CanIssue_KeyNotUnique(s) ==
    /\ ActiveOf(sender[s].guest) \subseteq {sender[s].prev}
    /\ sender[s].prev # None => ~archived[sender[s].guest]
CanIssue(s) == /\ ActiveOf(sender[s].guest) \subseteq {sender[s].prev}
               /\ sender[s].prev # None => ~archived[sender[s].guest]
               /\ WithKey(sender[s].key) = {}

Queue(s) ==
    LET r == sender[s] IN
    /\ r.pc = "rotating"
    /\ IF CanIssue(s)
       THEN \E i \in Invitation \ Issued :
              /\ inv' = [j \in Invitation |->
                    IF j = i THEN NewRow(r.guest)
                    ELSE IF j = r.prev /\ ~inv[j].revoked THEN RevokedRow(inv[j])
                    ELSE inv[j]]
              /\ attempts' = Append(attempts,
                    [guest |-> r.guest, key |-> r.key, inv |-> i,
                     number |-> NextNumber(r.guest), createdAt |-> r.stamp,
                     status |-> "QUEUED", stale |-> FALSE])
              /\ sender' = [sender EXCEPT ![s].pc = "queued",
                                          ![s].attempt = Len(attempts) + 1]
              /\ UNCHANGED <<up, archived, begins, spent, calls, accepted>>
       ELSE Reject(s)
-----------------------------------------------------------------------------
(* The delivery, outside any transaction                                   *)

SetStatus(a, status) == attempts' = [attempts EXCEPT ![a].status = status, ![a].stale = FALSE]

MarkSending(s) ==
    LET a == sender[s].attempt IN
    /\ sender[s].pc = "queued"
    /\ IF attempts[a].status = "QUEUED"
       THEN SetStatus(a, "SENDING") /\ MoveTo(s, "sending")
       ELSE End(s) /\ UNCHANGED attempts
    /\ UNCHANGED <<up, archived, inv, begins, spent, calls, accepted>>

(* safeProviderSend: the provider answers or fails, or the concurrency     *)
(* gate is full and the provider is not called at all.                     *)
CallProvider(s) ==
    /\ sender[s].pc = "sending"
    /\ \/ /\ calls' = [calls EXCEPT ![sender[s].key] = @ + 1]
          /\ \E ok \in BOOLEAN :
                /\ sender' = [sender EXCEPT ![s].pc = "answered", ![s].ok = ok]
                /\ accepted' = IF ok THEN accepted \cup {sender[s].attempt} ELSE accepted
       \/ /\ MoveTo(s, "answered")
          /\ UNCHANGED <<calls, accepted>>
    /\ UNCHANGED <<up, archived, inv, attempts, begins, spent>>

(* markSent, markFailed: UPDATE .. WHERE id, whatever the status is by now.*)
RecordAnswer_AlwaysSent(s) ==
    /\ sender[s].pc = "answered"
    /\ SetStatus(sender[s].attempt, "SENT")
    /\ MoveTo(s, "recorded")
    /\ UNCHANGED <<up, archived, inv, begins, spent, calls, accepted>>
RecordAnswer_LosesFailures(s) ==
    /\ sender[s].pc = "answered"
    /\ IF sender[s].ok
       THEN SetStatus(sender[s].attempt, "SENT") /\ MoveTo(s, "recorded")
       ELSE End(s) /\ UNCHANGED attempts
    /\ UNCHANGED <<up, archived, inv, begins, spent, calls, accepted>>
RecordAnswer(s) ==
    /\ sender[s].pc = "answered"
    /\ IF sender[s].ok
       THEN SetStatus(sender[s].attempt, "SENT") /\ MoveTo(s, "recorded")
       ELSE SetStatus(sender[s].attempt, "FAILED") /\ End(s)
    /\ UNCHANGED <<up, archived, inv, begins, spent, calls, accepted>>

MarkInvitationSent(s) ==
    LET i == attempts[sender[s].attempt].inv IN
    /\ sender[s].pc = "recorded"
    /\ inv' = IF MaySend(inv[i]) THEN [inv EXCEPT ![i] = SentRow(@)] ELSE inv
    /\ End(s)
    /\ UNCHANGED <<up, archived, attempts, begins, spent, calls, accepted>>
-----------------------------------------------------------------------------
(* Other requests, each one step here.  Inserting an invitation needs the  *)
(* guest row (foreign key), and so does archiving; revoking does not.      *)

(* Bound: hosts leave an invitation for every send request still to come.  *)
HostRoom == Cardinality(Invitation \ Issued) > MaxBegins - begins +
                Cardinality({s \in Sender : sender[s].pc \in InTransaction \cup {"begun"}})

OthersUnchanged == UNCHANGED <<up, attempts, begins, spent, sender, calls, accepted>>

HostCreates(g, i) ==
    /\ up /\ HostRoom /\ GuestFree(g) /\ ~archived[g]
    /\ ActiveOf(g) = {} /\ i \notin Issued
    /\ inv' = [inv EXCEPT ![i] = NewRow(g)]
    /\ UNCHANGED archived /\ OthersUnchanged

HostRegenerates(g, old, i) ==
    /\ up /\ HostRoom /\ GuestFree(g) /\ ~archived[g]
    /\ old \in InvitationsOf(g) /\ ActiveOf(g) \subseteq {old} /\ i \notin Issued
    /\ inv' = [inv EXCEPT ![old] = IF @.revoked THEN @ ELSE RevokedRow(@), ![i] = NewRow(g)]
    /\ UNCHANGED archived /\ OthersUnchanged

HostRevokes(i) ==
    /\ up /\ i \in Issued /\ ~inv[i].revoked
    /\ inv' = [inv EXCEPT ![i] = RevokedRow(@)]
    /\ UNCHANGED archived /\ OthersUnchanged

GuestOpens(i) ==
    /\ up /\ i \in Issued /\ ~inv[i].revoked /\ ~archived[inv[i].guest]
    /\ inv[i].opens = 0  \* bound: one counted open per invitation
    /\ inv' = [inv EXCEPT ![i] = OpenedRow(@)]
    /\ UNCHANGED archived /\ OthersUnchanged

SetArchived(g, value) ==
    /\ up /\ GuestFree(g) /\ archived[g] # value
    /\ archived' = [archived EXCEPT ![g] = value]
    /\ UNCHANGED inv /\ OthersUnchanged
-----------------------------------------------------------------------------
(* Time, failures and recovery                                             *)

(* A timestamp leaves the 60-second window of the rate limiter.            *)
WindowSlides(g) ==
    /\ spent[g] > 0
    /\ spent' = [spent EXCEPT ![g] = @ - 1]
    /\ UNCHANGED <<up, archived, inv, attempts, begins, sender, calls, accepted>>

FifteenMinutesPass(a) ==
    /\ attempts[a].status = "SENDING" /\ ~attempts[a].stale
    /\ attempts' = [attempts EXCEPT ![a].stale = TRUE]
    /\ UNCHANGED <<up, archived, inv, begins, spent, sender, calls, accepted>>

(* A failing statement ends one request where it stands.                   *)
RequestFails(s) == Failures /\ sender[s].pc # "idle" /\ Reject(s)

Crash == /\ Failures /\ up
         /\ up' = FALSE
         /\ sender' = [s \in Sender |-> NoRequest]
         /\ spent' = [g \in Guest |-> 0]
         /\ UNCHANGED <<archived, inv, attempts, begins, calls, accepted>>

(* onApplicationBootstrap runs markInterrupted before requests are served. *)
Interrupted_AnyStatus(attempt) == TRUE
Interrupted(attempt) == attempt.status = "SENDING" /\ attempt.stale

Restart ==
    /\ ~up
    /\ up' = TRUE
    /\ attempts' = [a \in Indices |->
          IF Interrupted(attempts[a])
          THEN [attempts[a] EXCEPT !.status = "FAILED", !.stale = FALSE]
          ELSE attempts[a]]
    /\ UNCHANGED <<archived, inv, begins, spent, sender, calls, accepted>>
-----------------------------------------------------------------------------
SenderStep(s) == \/ LockGuest(s) \/ CheckKey(s) \/ CheckProgress(s) \/ Queue(s)
                 \/ MarkSending(s) \/ CallProvider(s) \/ RecordAnswer(s)
                 \/ MarkInvitationSent(s)

Next ==
    \/ \E s \in Sender :
          \/ \E g \in Guest, k \in Key, rotate \in BOOLEAN : Begin(s, g, k, rotate)
          \/ SenderStep(s) \/ RequestFails(s)
    \/ \E g \in Guest :
          \/ \E i \in Invitation : \/ HostCreates(g, i)
                                   \/ \E old \in Invitation : HostRegenerates(g, old, i)
          \/ \E value \in BOOLEAN : SetArchived(g, value)
          \/ WindowSlides(g)
    \/ \E i \in Invitation : HostRevokes(i) \/ GuestOpens(i)
    \/ \E a \in Indices : FifteenMinutesPass(a)
    \/ Crash \/ Restart

Spec == Init /\ [][Next]_vars

(* The event loop and the database run every pending statement, the        *)
(* provider call has timeouts, systemd restarts the process, and clocks    *)
(* advance.                                                                *)
Fairness == /\ \A s \in Sender : WF_vars(SenderStep(s))
            /\ WF_vars(Restart)
            /\ \A a \in 1..MaxBegins :
                   WF_vars(a \in Indices /\ FifteenMinutesPass(a))

FairSpec == Spec /\ Fairness
-----------------------------------------------------------------------------
(* Properties                                                              *)

(* Every variable holds what its table or request can hold.                *)
TypeOK == /\ up \in BOOLEAN
          /\ archived \in [Guest -> BOOLEAN]
          /\ inv \in [Invitation -> Row \cup {None}]
          /\ attempts \in Seq(Attempt)
          /\ begins \in Nat
          /\ spent \in [Guest -> 0..RateLimit]
          /\ sender \in [Sender -> Request]
          /\ calls \in [Key -> Nat]
          /\ accepted \subseteq Indices

(* The in-progress check protects a guest from two deliveries at once,     *)
(* though it runs before the attempt exists and reads only one attempt.    *)
(* It holds when transactions get the guest lock in the order they began.  *)
OneInProgress ==
    \A a, b \in Indices :
        /\ attempts[a].guest = attempts[b].guest
        /\ attempts[a].status \in InProgress
        /\ attempts[b].status \in InProgress
        => a = b

(* Attempts of a guest are numbered 1, 2, 3, .. in the order of insertion, *)
(* whatever other guests' transactions do meanwhile.                       *)
NumbersAreDense ==
    \A a \in Indices :
        attempts[a].number = Cardinality({b \in AttemptsOf(attempts[a].guest) : b <= a})

(* "Repeated requests with the same key .. do not call the provider twice":*)
(* not when they overlap, for one guest or for two, fail, or are repeated  *)
(* after a crash.                                                          *)
OneCallPerKey == \A k \in Key : calls[k] <= 1

(* SENT is only claimed for messages the provider accepted, and an         *)
(* invitation is only SENT by a delivery of its own link.                  *)
SentWasAccepted ==
    /\ \A a \in Indices : attempts[a].status = "SENT" => a \in accepted
    /\ \A i \in Issued : inv[i].status = "SENT" =>
          \E a \in Indices : attempts[a].inv = i /\ attempts[a].status = "SENT"

(* An attempt only moves along QUEUED -> SENDING -> SENT or FAILED, and a  *)
(* finished attempt stays as it is: the recovery of a restart and the      *)
(* unguarded updates of a late answer never overwrite each other.          *)
Moves == {<<"QUEUED", "SENDING">>, <<"SENDING", "SENT">>, <<"SENDING", "FAILED">>}
AttemptsOnlyAdvance ==
    [][\A a \in Indices :
          LET old == attempts[a].status
              new == attempts'[a].status
          IN  old = new \/ <<old, new>> \in Moves]_vars

(* Nothing is queued for an archived guest: the guest lock keeps an        *)
(* archive out between the check and the commit.                           *)
NoneQueuedForArchived ==
    [][Len(attempts') > Len(attempts) => ~archived[attempts'[Len(attempts')].guest]]_vars

(* A delivery without failures finishes, so the guest can be sent to again.*)
At(a, statuses) == a \in Indices /\ attempts[a].status \in statuses

DeliveriesFinish ==
    \A a \in 1..MaxBegins : At(a, InProgress) ~> At(a, {"SENT", "FAILED"})

(* "Startup recovery marks stale sending attempts as retryable failures    *)
(* after 15 minutes": an attempt that a crash left in SENDING does not     *)
(* stay there once the process is back and 15 minutes have passed.         *)
CrashedSendIsRecovered ==
    \A a \in 1..MaxBegins : (~up /\ At(a, {"SENDING"})) ~> At(a, {"SENT", "FAILED"})

(* What is stored of attempts is of its type and numbered without gaps.    *)
AttemptsInv == TypeOK /\ NumbersAreDense
=============================================================================
