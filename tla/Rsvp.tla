-------------------------------- MODULE Rsvp --------------------------------
(***************************************************************************)
(* The answers of invited guests: create, update and cancel, each a        *)
(* READ COMMITTED transaction that locks the row of the invitation, reads  *)
(* the party and the current answer, and writes the answer together with   *)
(* a history row; and the host requests that change what those reads see:  *)
(* the party of the guest, its archiving, and the revocation of the link.  *)
(*                                                                         *)
(* How credentials resolve to an invitation is module Invitations; every   *)
(* invitation here belongs to a guest of its own.                          *)
(***************************************************************************)
EXTENDS RsvpRules, Sequences, FiniteSets

CONSTANTS
    Invitation,  \* invitations, each with its guest
    Request,     \* RSVP requests in flight at once
    MaxHistory   \* bound: answers per invitation

ASSUME RsvpAssumption ==
    /\ IsFiniteSet(Request)
    /\ None \notin Invitation
    /\ MaxHistory \in Nat

VARIABLES
    revoked,   \* invitations.revoked_at IS NOT NULL
    archived,  \* guests.archived_at IS NOT NULL
    party,     \* the invited party in the guest row
    current,   \* rsvps: the answer of an invitation, or None
    history,   \* rsvp_history, in commit order
    tx         \* tx[r]: the transaction of request r

vars == <<revoked, archived, party, current, history, tx>>

ASSUME NoneIsNoRow == None \notin Party /\ None \notin Answer

TxPc == {"idle", "resolved", "locked", "context", "ready"}
Tx == [pc : TxPc, op : {"none", "create", "update", "cancel"},
       inv : Invitation \cup {None},
       party : Party \cup {None},     \* the guest row as context() read it
       seen : Answer \cup {None}]     \* the answer as current() read it
NoTx == [pc |-> "idle", op |-> "none", inv |-> None, party |-> None, seen |-> None]

Init == /\ revoked = [i \in Invitation |-> FALSE]
        /\ archived = [i \in Invitation |-> FALSE]
        /\ party \in [Invitation -> Party]
        /\ current = [i \in Invitation |-> None]
        /\ history = [i \in Invitation |-> <<>>]
        /\ tx = [r \in Request |-> NoTx]
-----------------------------------------------------------------------------
Usable(i) == ~revoked[i] /\ ~archived[i]

LockHolders(i) == {r \in Request : tx[r].inv = i /\ tx[r].pc \in {"locked", "context", "ready"}}
LockFree(i) == LockHolders(i) = {}

HistoryRoom(i) ==
    Len(history[i]) + Cardinality({r \in Request : tx[r].inv = i}) < MaxHistory

Tables == <<revoked, archived, party, current, history>>

Finish(r) == tx' = [tx EXCEPT ![r] = NoTx]
Abort(r) == Finish(r) /\ UNCHANGED Tables

(* resolveAccess *)
Start(r, i, op) ==
    /\ tx[r].pc = "idle"
    /\ op \in {"create", "update", "cancel"}
    /\ Usable(i) /\ HistoryRoom(i)
    /\ tx' = [tx EXCEPT ![r] = [NoTx EXCEPT !.pc = "resolved", !.op = op, !.inv = i]]
    /\ UNCHANGED Tables

(* lockInvitation: SELECT .. FOR UPDATE                                    *)
LockWait_None(i) == TRUE
LockWait(i) == LockFree(i)

Lock(r) == /\ tx[r].pc = "resolved"
           /\ LockWait(tx[r].inv)
           /\ tx' = [tx EXCEPT ![r].pc = "locked"]
           /\ UNCHANGED Tables

(* context: the invitation and its guest, checked again under the lock;    *)
(* the guest row itself is not locked.                                     *)
ContextFound_Skipped(i) == TRUE
ContextFound(i) == Usable(i)

ReadContext(r) ==
    LET i == tx[r].inv IN
    /\ tx[r].pc = "locked"
    /\ IF ContextFound(i)
       THEN /\ tx' = [tx EXCEPT ![r] = [@ EXCEPT !.pc = "context", !.party = party[i]]]
            /\ UNCHANGED Tables
       ELSE Abort(r)

(* current                                                                 *)
ReadCurrent(r) ==
    LET seen == current[tx[r].inv] IN
    /\ tx[r].pc = "context"
    /\ IF Permits(tx[r].op, seen)
       THEN /\ tx' = [tx EXCEPT ![r] = [@ EXCEPT !.pc = "ready", !.seen = seen]]
            /\ UNCHANGED Tables
       ELSE Abort(r)

(* The answer and its history row, in the last statements before COMMIT.   *)
Store(r, answer) ==
    LET i == tx[r].inv IN
    /\ current' = [current EXCEPT ![i] = answer]
    /\ history' = [history EXCEPT ![i] = Append(@, answer)]
    /\ Finish(r)
    /\ UNCHANGED <<revoked, archived, party>>

(* rsvps_invitation_id_unique fails an insertion beside another answer.    *)
Create(r, input) ==
    /\ tx[r].pc = "ready" /\ tx[r].op = "create"
    /\ IF Fits(input, tx[r].party) /\ current[tx[r].inv] = None
       THEN Store(r, Normalized(input, tx[r].party))
       ELSE Abort(r)

(* same: an update that changes nothing writes nothing.                    *)
Same_Never(seen, answer) == FALSE
Same(seen, answer) == seen = answer

Update(r, input) ==
    LET answer == Normalized(input, tx[r].party) IN
    /\ tx[r].pc = "ready" /\ tx[r].op = "update"
    /\ IF Fits(input, tx[r].party) /\ ~Same(tx[r].seen, answer)
       THEN Store(r, answer)
       ELSE Abort(r)

(* Only the status and the counts are written: the note stays.             *)
Cancel(r) ==
    /\ tx[r].pc = "ready" /\ tx[r].op = "cancel"
    /\ Store(r, Cleared("CANCELLED", current[tx[r].inv].note))
-----------------------------------------------------------------------------
(* The host, each request one statement that matters here.  Revoking       *)
(* updates the row RSVP requests lock; the guest row is not locked.        *)

Revoke(i) == /\ ~revoked[i] /\ LockFree(i)
             /\ revoked' = [revoked EXCEPT ![i] = TRUE]
             /\ UNCHANGED <<archived, party, current, history, tx>>

SetArchived(i, value) == /\ archived[i] # value
                         /\ archived' = [archived EXCEPT ![i] = value]
                         /\ UNCHANGED <<revoked, party, current, history, tx>>

(* guests.service.update: any valid party, whatever was answered.          *)
SetParty(i, p) == /\ ~archived[i] /\ party[i] # p
                  /\ party' = [party EXCEPT ![i] = p]
                  /\ UNCHANGED <<revoked, archived, current, history, tx>>

RequestFails(r) == tx[r].pc # "idle" /\ Abort(r)
-----------------------------------------------------------------------------
RequestStep(r) == \/ Lock(r) \/ ReadContext(r) \/ ReadCurrent(r) \/ Cancel(r)
                  \/ \E input \in Input : Create(r, input) \/ Update(r, input)

Next == \/ \E r \in Request :
             \/ \E i \in Invitation, op \in {"create", "update", "cancel"} : Start(r, i, op)
             \/ RequestStep(r) \/ RequestFails(r)
        \/ \E i \in Invitation :
             \/ Revoke(i)
             \/ \E value \in BOOLEAN : SetArchived(i, value)
             \/ \E p \in Party : SetParty(i, p)

Spec == Init /\ [][Next]_vars
-----------------------------------------------------------------------------
(* Properties                                                              *)

(* Every variable holds what its table or transaction can hold; the counts *)
(* of a party always agree with its mode.                                  *)
TypeOK == /\ revoked \in [Invitation -> BOOLEAN]
          /\ archived \in [Invitation -> BOOLEAN]
          /\ party \in [Invitation -> Party]
          /\ current \in [Invitation -> Answer \cup {None}]
          /\ history \in [Invitation -> Seq(Answer)]
          /\ tx \in [Request -> Tx]

(* The snapshot table tells the same story as the current row: its last    *)
(* entry is the current answer, and there is no answer without an entry.   *)
HistoryEndsWithCurrent ==
    \A i \in Invitation :
        /\ history[i] = <<>> <=> current[i] = None
        /\ history[i] # <<>> => history[i][Len(history[i])] = current[i]

(* An accepted answer has somebody attending and adds up, any other answer *)
(* has no counts, whatever was answered before it.  This holds of          *)
(* every snapshot, so the host's totals can be recomputed from history.    *)
CountsAreSound ==
    \A i \in Invitation : \A n \in 1..Len(history[i]) : SoundCounts(history[i][n])

(* What a request read is still true when it writes: the answer it         *)
(* compared with, and that its invitation was not revoked.                 *)
ReadsStayTrue ==
    \A r \in Request :
        /\ tx[r].pc \in {"context", "ready"} => ~revoked[tx[r].inv]
        /\ tx[r].pc = "ready" => /\ tx[r].seen = current[tx[r].inv]
                                 /\ Permits(tx[r].op, tx[r].seen)

(* A revoked invitation keeps the answer it had: a request that resolved   *)
(* its link before the revocation changes nothing after it.                *)
RevokedAnswersFreeze ==
    [][\A i \in Invitation : revoked[i] => current'[i] = current[i]]_vars

(* "TOTAL_ONLY accepts one positive total no larger than the invited       *)
(* total": not when the host shrinks the party between a request's read    *)
(* and its commit, since the guest row is not locked.                      *)
AcceptedWithinParty ==
    [][\A i \in Invitation :
          /\ Len(history'[i]) > Len(history[i])
          /\ current'[i].status = "ACCEPTED"
          => current'[i].total <= party[i].total]_vars

(* The promise of ResponseLog, read off the committed rows.                *)
Log == INSTANCE ResponseLog WITH
          log <- history, closed <- revoked,
          Accepted <- {a \in Answer : a.status = "ACCEPTED"},
          Cancelled <- {a \in Answer : a.status = "CANCELLED"}

(* However requests, revocations and retries interleave, the answers of    *)
(* invitations are a behaviour of ResponseLog.                             *)
LogSpec == Log!LogSpec

(* What is stored of answers is always sound: of its type, with counts     *)
(* that add up, told alike by the row and its history, and still what the  *)
(* requests that are about to write have read.                             *)
AnswersInv == TypeOK /\ HistoryEndsWithCurrent /\ CountsAreSound /\ ReadsStayTrue
=============================================================================
