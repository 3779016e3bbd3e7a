----------------------------- MODULE Invitations -----------------------------
(***************************************************************************)
(* Host and public requests on invitations, as the API runs them: every    *)
(* request is one PostgreSQL transaction at READ COMMITTED, and each       *)
(* statement that other requests can interleave with is an action.         *)
(*                                                                         *)
(* The tables hold committed rows only.  What a transaction has written    *)
(* and not yet committed is in its own record, with the row locks that go  *)
(* with it: a host transaction with `revoking` holds the row of its        *)
(* invitation and those of the grants in `closing`; a visitor past         *)
(* markAccessGrantUsed holds the row of its grant.  A statement that needs *)
(* a locked row is not enabled.  The last write of a transaction is one    *)
(* action with its COMMIT: nothing between the two can block.              *)
(***************************************************************************)
EXTENDS InvitationRows, FiniteSets

CONSTANTS
    Grant,     \* identifiers of invitation_access_grants
    Host,      \* host requests in flight at once
    Visitor,   \* public requests in flight at once
    MaxTrack   \* bound: visits and opens tracked per invitation

ASSUME InvitationsAssumption ==
    /\ None \notin Grant
    /\ IsFiniteSet(Invitation) /\ IsFiniteSet(Host) /\ IsFiniteSet(Visitor)
    /\ MaxTrack \in Nat

VARIABLES
    archived,  \* archived[g]: guests.archived_at IS NOT NULL
    inv,       \* inv[i]: the committed row of invitation i, or None
    acts,      \* acts[i][type]: committed invitation_activities rows
    grants,    \* grants[k]: the committed row of grant k, or None
    host,      \* host[h]: the transaction of host request h
    visitor    \* visitor[v]: the transaction of public request v

vars == <<archived, inv, acts, grants, host, visitor>>

Activity == {"CREATED", "REGENERATED", "OPENED", "REVOKED"}

(* expires_at against the clock: `expired` is 12 minutes after the lookup, *)
(* `purgeable` a further 24 hours.                                         *)
Age == {"valid", "expired", "purgeable"}
GrantRow == [inv : Invitation, age : Age, revoked : BOOLEAN]

ASSUME NoneIsNoGrant == None \notin GrantRow

HostPc == {"idle", "checking", "revoking", "closing", "guest", "creating",
           "inserting"}
HostTx == [pc : HostPc, op : {"none", "create", "regenerate", "revoke"},
           guest : Guest \cup {None}, inv : Invitation \cup {None},
           seen : BOOLEAN,      \* revoked_at as findById returned it
           revoking : BOOLEAN,  \* holds an uncommitted revocation of inv
           logged : BOOLEAN,    \* inserted an uncommitted REVOKED activity
           closing : SUBSET Grant]
NoHostTx == [pc |-> "idle", op |-> "none", guest |-> None, inv |-> None,
             seen |-> FALSE, revoking |-> FALSE, logged |-> FALSE,
             closing |-> {}]

VisitorPc == {"idle", "marking", "reading", "tracking", "updating", "issuing"}
VisitorTx == [pc : VisitorPc, op : {"none", "visit", "open", "lookup"},
              inv : Invitation \cup {None}, grant : Grant \cup {None}]
NoVisitorTx == [pc |-> "idle", op |-> "none", inv |-> None, grant |-> None]

Init == /\ archived = [g \in Guest |-> FALSE]
        /\ inv = [i \in Invitation |-> None]
        /\ acts = [i \in Invitation |-> [a \in Activity |-> 0]]
        /\ grants = [k \in Grant |-> None]
        /\ host = [h \in Host |-> NoHostTx]
        /\ visitor = [v \in Visitor |-> NoVisitorTx]
-----------------------------------------------------------------------------
(* What statements read, and the locks they wait for.                      *)

Issued == {i \in Invitation : inv[i] # None}
Active == {i \in Issued : ~inv[i].revoked}
ActiveOf(g) == {i \in Active : inv[i].guest = g}

(* candidatesByPrefix, publicDetails: invitation not revoked, guest not    *)
(* archived.                                                               *)
Usable(i) == i \in Active /\ ~archived[inv[i].guest]

(* accessGrantCandidates *)
GrantUsable(k) == /\ grants[k] # None
                  /\ grants[k].age = "valid"
                  /\ ~grants[k].revoked
                  /\ Usable(grants[k].inv)

(* findActiveByGuest inside h's transaction, which sees its own revocation *)
SeenActive(h, g) == {i \in ActiveOf(g) : ~(host[h].revoking /\ host[h].inv = i)}

RowHolders(i) == {h \in Host : host[h].revoking /\ host[h].inv = i}
GrantHolders(k) ==
    {v \in Visitor : /\ visitor[v].grant = k
                     /\ visitor[v].pc \in {"reading", "tracking", "updating"}}
GrantClosers(k) == {h \in Host : k \in host[h].closing}

RowFree(i) == RowHolders(i) = {}
GrantFree(k) == GrantHolders(k) = {} /\ GrantClosers(k) = {}

OpenGrants(i) == {k \in Grant : /\ grants[k] # None
                                /\ grants[k].inv = i
                                /\ ~grants[k].revoked}

(* The tracked requests on an invitation are bounded when they start, so   *)
(* that a request which started is never stopped by the bound.             *)
InFlight(i) == {v \in Visitor : visitor[v].inv = i}
TrackRoom(i) == inv[i].visits + inv[i].opens + Cardinality(InFlight(i)) < MaxTrack

(* Likewise for the invitations that started requests may insert.          *)
InsertRoom ==
    Cardinality({h \in Host : host[h].op \in {"create", "regenerate"}})
        < Cardinality(Invitation \ Issued)
-----------------------------------------------------------------------------
(* Transactions end in COMMIT or ROLLBACK.                                 *)

(* The writes of h become visible: its revocation with its activity, the   *)
(* closed grants, and the new row `new` of its guest unless that is None.  *)
Commit(h, closing, new) ==
    LET t == host[h]
        revoked == IF t.revoking THEN [inv EXCEPT ![t.inv] = RevokedRow(@)] ELSE inv
        logged == IF t.logged THEN [acts EXCEPT ![t.inv]["REVOKED"] = @ + 1] ELSE acts
        type == IF t.op = "create" THEN "CREATED" ELSE "REGENERATED"
    IN  /\ inv' = IF new = None THEN revoked
                  ELSE [revoked EXCEPT ![new] = NewRow(t.guest)]
        /\ acts' = IF new = None THEN logged
                   ELSE [logged EXCEPT ![new][type] = @ + 1]
        /\ grants' = [k \in Grant |-> IF k \in closing
                                      THEN [grants[k] EXCEPT !.revoked = TRUE]
                                      ELSE grants[k]]
        /\ host' = [host EXCEPT ![h] = NoHostTx]
        /\ UNCHANGED <<archived, visitor>>

Rollback(h) == /\ host' = [host EXCEPT ![h] = NoHostTx]
               /\ UNCHANGED <<archived, inv, acts, grants, visitor>>

Refuse(v) == /\ visitor' = [visitor EXCEPT ![v] = NoVisitorTx]
             /\ UNCHANGED <<archived, inv, acts, grants, host>>

Continue(h, pc) == /\ host' = [host EXCEPT ![h].pc = pc]
                   /\ UNCHANGED <<archived, inv, acts, grants, visitor>>

VisitorAt(v, pc) == /\ visitor' = [visitor EXCEPT ![v].pc = pc]
                    /\ UNCHANGED <<archived, inv, acts, grants, host>>
-----------------------------------------------------------------------------
(* Host requests                                                           *)

(* archive, restore: one UPDATE each.  Neither touches an invitation.      *)
Archive(g) == /\ ~archived[g]
              /\ archived' = [archived EXCEPT ![g] = TRUE]
              /\ UNCHANGED <<inv, acts, grants, host, visitor>>

Restore(g) == /\ archived[g]
              /\ archived' = [archived EXCEPT ![g] = FALSE]
              /\ UNCHANGED <<inv, acts, grants, host, visitor>>

(* createForGuest reads the guest without locking it.                      *)
StartCreate(h, g) ==
    /\ host[h].pc = "idle" /\ InsertRoom
    /\ ~archived[g]
    /\ host' = [host EXCEPT ![h] = [NoHostTx EXCEPT !.pc = "creating",
                                        !.op = "create", !.guest = g]]
    /\ UNCHANGED <<archived, inv, acts, grants, visitor>>

(* regenerateInTransaction: findById, and its revoked_at is remembered.    *)
StartRegenerate(h, i) ==
    /\ host[h].pc = "idle" /\ InsertRoom
    /\ i \in Issued
    /\ host' = [host EXCEPT ![h] = [NoHostTx EXCEPT !.pc = "checking",
                     !.op = "regenerate", !.guest = inv[i].guest, !.inv = i,
                     !.seen = inv[i].revoked]]
    /\ UNCHANGED <<archived, inv, acts, grants, visitor>>

(* revoke: an invitation seen revoked only has its grants closed again.    *)
StartRevoke(h, i) ==
    /\ host[h].pc = "idle"
    /\ i \in Issued
    /\ host' = [host EXCEPT ![h] = [NoHostTx EXCEPT
                     !.pc = IF inv[i].revoked THEN "closing" ELSE "revoking",
                     !.op = "revoke", !.guest = inv[i].guest, !.inv = i,
                     !.seen = inv[i].revoked]]
    /\ UNCHANGED <<archived, inv, acts, grants, visitor>>

(* regenerateInTransaction: another active invitation of the guest is a    *)
(* 409.                                                                    *)
CheckOther(h) ==
    /\ host[h].pc = "checking"
    /\ IF SeenActive(h, host[h].guest) \ {host[h].inv} # {}
       THEN Rollback(h)
       ELSE Continue(h, IF host[h].seen THEN "closing" ELSE "revoking")

(* UPDATE .. WHERE revoked_at IS NULL takes the row lock and re-reads the  *)
(* row: if another request committed its revocation meanwhile, no row is   *)
(* updated, and the REVOKED activity is inserted all the same.             *)
RevokeRow_Unlogged(h) ==
    /\ host[h].pc = "revoking"
    /\ RowFree(host[h].inv)
    /\ host' = [host EXCEPT ![h].pc = "closing",
                            ![h].revoking = ~inv[host[h].inv].revoked]
    /\ UNCHANGED <<archived, inv, acts, grants, visitor>>
RevokeRow(h) ==
    /\ host[h].pc = "revoking"
    /\ RowFree(host[h].inv)
    /\ host' = [host EXCEPT ![h].pc = "closing",
                            ![h].logged = TRUE,
                            ![h].revoking = ~inv[host[h].inv].revoked]
    /\ UNCHANGED <<archived, inv, acts, grants, visitor>>

(* revokeAccessGrants waits for every visitor that is using one of them.   *)
CanClose(h) == \A k \in OpenGrants(host[h].inv) : GrantFree(k)

CloseAndRevoke(h) ==
    /\ host[h].pc = "closing" /\ host[h].op = "revoke"
    /\ CanClose(h)
    /\ Commit(h, OpenGrants(host[h].inv), None)

CloseGrants(h) ==
    /\ host[h].pc = "closing" /\ host[h].op = "regenerate"
    /\ CanClose(h)
    /\ host' = [host EXCEPT ![h].pc = "guest",
                            ![h].closing = OpenGrants(host[h].inv)]
    /\ UNCHANGED <<archived, inv, acts, grants, visitor>>

(* A guest archived meanwhile: 404, and the revocation is rolled back.     *)
ReadGuest_CommitsOn404(h) ==
    /\ host[h].pc = "guest"
    /\ IF archived[host[h].guest] THEN Commit(h, host[h].closing, None)
       ELSE Continue(h, "creating")
ReadGuest(h) ==
    /\ host[h].pc = "guest"
    /\ IF archived[host[h].guest] THEN Rollback(h) ELSE Continue(h, "creating")

FindActive(h) ==
    /\ host[h].pc = "creating"
    /\ IF SeenActive(h, host[h].guest) # {} THEN Rollback(h)
       ELSE Continue(h, "inserting")

(* The partial unique index on guest_id WHERE revoked_at IS NULL: a row    *)
(* that another transaction is revoking makes the INSERT wait, any other   *)
(* active row fails it.                                                    *)
IndexWait(h) == \E i \in SeenActive(h, host[h].guest) : ~RowFree(i)
IndexFree_Unchecked(h) == TRUE
IndexFree(h) == SeenActive(h, host[h].guest) = {}

Insert(h) ==
    /\ host[h].pc = "inserting"
    /\ ~IndexWait(h)
    /\ IF IndexFree(h)
       THEN \E i \in Invitation \ Issued : Commit(h, host[h].closing, i)
       ELSE Rollback(h)

(* markSent, which the e-mail delivery runs outside any transaction.       *)
MarkSent(i) ==
    /\ i \in Issued /\ RowFree(i)
    /\ MaySend(inv[i])
    /\ inv' = [inv EXCEPT ![i] = SentRow(@)]
    /\ UNCHANGED <<archived, acts, grants, host, visitor>>
-----------------------------------------------------------------------------
(* Public requests                                                         *)

(* A permanent token names its invitation: resolveAccess for an open,      *)
(* candidatesByPrefix for a visit, which reads the details next.           *)
StartByToken(v, i, op) ==
    /\ visitor[v].pc = "idle"
    /\ op \in {"visit", "open"}
    /\ Usable(i) /\ TrackRoom(i)
    /\ visitor' = [visitor EXCEPT ![v] = [NoVisitorTx EXCEPT
                       !.pc = IF op = "visit" THEN "reading" ELSE "tracking",
                       !.op = op, !.inv = i]]
    /\ UNCHANGED <<archived, inv, acts, grants, host>>

(* A grant that the candidate query found.                                 *)
StartByGrant(v, k, op) ==
    /\ visitor[v].pc = "idle"
    /\ op \in {"visit", "open"}
    /\ GrantUsable(k) /\ TrackRoom(grants[k].inv)
    /\ visitor' = [visitor EXCEPT ![v] = [pc |-> "marking", op |-> op,
                                          inv |-> grants[k].inv, grant |-> k]]
    /\ UNCHANGED <<archived, inv, acts, grants, host>>

(* markAccessGrantUsed locks the grant row.  It compares expires_at with   *)
(* the clock the request read before the candidate query, so a grant that  *)
(* expires in between is still used.                                       *)
MarkGrantUsed_Hangs(v) ==
    LET k == visitor[v].grant IN
    /\ visitor[v].pc = "marking"
    /\ GrantFree(k)
    /\ grants[k] # None /\ ~grants[k].revoked
    /\ VisitorAt(v, IF visitor[v].op = "visit" THEN "reading" ELSE "tracking")
MarkGrantUsed_Unchecked(v) ==
    /\ visitor[v].pc = "marking"
    /\ GrantFree(visitor[v].grant)
    /\ VisitorAt(v, IF visitor[v].op = "visit" THEN "reading" ELSE "tracking")
MarkGrantUsed(v) ==
    LET k == visitor[v].grant IN
    /\ visitor[v].pc = "marking"
    /\ GrantFree(k)
    /\ IF grants[k] # None /\ ~grants[k].revoked
       THEN VisitorAt(v, IF visitor[v].op = "visit" THEN "reading" ELSE "tracking")
       ELSE Refuse(v)

PublicDetails(v) ==
    /\ visitor[v].pc = "reading"
    /\ IF Usable(visitor[v].inv) THEN VisitorAt(v, "tracking") ELSE Refuse(v)

(* recordVisit, recordOpen: the UPDATE repeats both predicates.  The rows  *)
(* it looks for are those of the moment it starts; if it then waits for    *)
(* the row of the invitation, that row is judged anew, the guest is not.   *)
StartUpdate(v) ==
    /\ visitor[v].pc = "tracking"
    /\ IF Usable(visitor[v].inv) THEN VisitorAt(v, "updating") ELSE Refuse(v)

StillMatches_Unchecked(i) == i \in Issued
StillMatches(i) == i \in Active

Track(v) ==
    LET i == visitor[v].inv IN
    /\ visitor[v].pc = "updating"
    /\ RowFree(i)
    /\ IF StillMatches(i)
       THEN /\ inv' = [inv EXCEPT ![i] = IF visitor[v].op = "open"
                                         THEN OpenedRow(@) ELSE VisitedRow(@)]
            /\ acts' = IF visitor[v].op = "open"
                       THEN [acts EXCEPT ![i]["OPENED"] = @ + 1] ELSE acts
            /\ visitor' = [visitor EXCEPT ![v] = NoVisitorTx]
            /\ UNCHANGED <<archived, grants, host>>
       ELSE Refuse(v)

(* A grant identifier is random: one that is in use is never drawn again.  *)
FreshGrants == {k \in Grant : /\ grants[k] = None
                              /\ \A v \in Visitor : visitor[v].grant # k
                              /\ GrantClosers(k) = {}}
GrantRoom == Cardinality({v \in Visitor : visitor[v].op = "lookup"})
                < Cardinality(FreshGrants)

(* The lookup: findLookupMatch, then the cleanup and the new grant.        *)
StartLookup(v, i) ==
    /\ visitor[v].pc = "idle" /\ GrantRoom
    /\ Usable(i)
    /\ visitor' = [visitor EXCEPT ![v] = [NoVisitorTx EXCEPT
                       !.pc = "issuing", !.op = "lookup", !.inv = i]]
    /\ UNCHANGED <<archived, inv, acts, grants, host>>

Purgeable == {k \in Grant : grants[k] # None /\ grants[k].age = "purgeable"}

IssueGrant(v) ==
    /\ visitor[v].pc = "issuing"
    /\ \A k \in Purgeable : GrantFree(k)
    /\ \E new \in FreshGrants :
          grants' = [k \in Grant |->
              IF k = new THEN [inv |-> visitor[v].inv, age |-> "valid", revoked |-> FALSE]
              ELSE IF k \in Purgeable THEN None ELSE grants[k]]
    /\ visitor' = [visitor EXCEPT ![v] = NoVisitorTx]
    /\ UNCHANGED <<archived, inv, acts, host>>
-----------------------------------------------------------------------------
(* Time and failures                                                       *)

AgeGrant(k) ==
    /\ grants[k] # None /\ grants[k].age # "purgeable"
    /\ grants' = [grants EXCEPT ![k].age =
                     IF @ = "valid" THEN "expired" ELSE "purgeable"]
    /\ UNCHANGED <<archived, inv, acts, host, visitor>>

(* A lost connection or a failing statement rolls a transaction back.      *)
HostFails(h) == host[h].pc # "idle" /\ Rollback(h)
VisitorFails(v) == visitor[v].pc # "idle" /\ Refuse(v)

(* Host requests lock the invitation and then its grants; a visitor with a *)
(* grant locks the grant and then the invitation.  When each waits for the *)
(* other, PostgreSQL rolls one of them back.                               *)
Deadlocked(h, v) ==
    /\ host[h].pc = "closing" /\ h \in RowHolders(host[h].inv)
    /\ visitor[v].pc = "updating" /\ visitor[v].inv = host[h].inv
    /\ v \in GrantHolders(visitor[v].grant)
    /\ visitor[v].grant \in OpenGrants(host[h].inv)

BreakDeadlock == \E h \in Host, v \in Visitor :
                    Deadlocked(h, v) /\ (Rollback(h) \/ Refuse(v))
-----------------------------------------------------------------------------
HostStarts(h) == \/ \E g \in Guest : StartCreate(h, g)
                 \/ \E i \in Invitation : StartRegenerate(h, i) \/ StartRevoke(h, i)

HostStep(h) == \/ CheckOther(h) \/ RevokeRow(h) \/ CloseAndRevoke(h)
               \/ CloseGrants(h) \/ ReadGuest(h) \/ FindActive(h) \/ Insert(h)

VisitorStarts(v) ==
    \/ \E i \in Invitation : \/ \E op \in {"visit", "open"} : StartByToken(v, i, op)
                             \/ StartLookup(v, i)
    \/ \E k \in Grant, op \in {"visit", "open"} : StartByGrant(v, k, op)

VisitorStep(v) == \/ MarkGrantUsed(v) \/ PublicDetails(v) \/ StartUpdate(v)
                  \/ Track(v) \/ IssueGrant(v)

Next == \/ \E g \in Guest : Archive(g) \/ Restore(g)
        \/ \E h \in Host : HostStarts(h) \/ HostStep(h) \/ HostFails(h)
        \/ \E v \in Visitor : VisitorStarts(v) \/ VisitorStep(v) \/ VisitorFails(v)
        \/ \E i \in Invitation : MarkSent(i)
        \/ \E k \in Grant : AgeGrant(k)
        \/ BreakDeadlock

Spec == Init /\ [][Next]_vars

(* Lock queues are served in order and the database runs every statement,  *)
(* so a request whose next statement is possible again and again makes it; *)
(* that a host or a guest starts a request, or that one fails, is never    *)
(* assumed.                                                                *)
Fairness == /\ \A h \in Host : SF_vars(HostStep(h))
            /\ \A v \in Visitor : SF_vars(VisitorStep(v))
            /\ WF_vars(BreakDeadlock)

FairSpec == Spec /\ Fairness
-----------------------------------------------------------------------------
(* Properties                                                              *)

(* Every variable holds what its table or transaction can hold.            *)
TypeOK == /\ archived \in [Guest -> BOOLEAN]
          /\ inv \in [Invitation -> Row \cup {None}]
          /\ acts \in [Invitation -> [Activity -> Nat]]
          /\ grants \in [Grant -> GrantRow \cup {None}]
          /\ host \in [Host -> HostTx]
          /\ visitor \in [Visitor -> VisitorTx]

(* However creations and rotations of one guest interleave, the guest      *)
(* never has two working links: find-then-insert is not enough, the index  *)
(* decides.                                                                *)
OneActivePerGuest ==
    \A i, j \in Active : inv[i].guest = inv[j].guest => i = j

(* The e-mail's READY -> SENT and the guest's first open race: a working   *)
(* link says OPENED exactly when it has been opened.                       *)
OpenedIffCounted ==
    \A i \in Active : inv[i].status = "OPENED" <=> inv[i].opens > 0

(* The activity log can be read instead of the row: one creation, as many  *)
(* OPENED entries as counted opens, and a REVOKED entry (two concurrent    *)
(* revocations may leave two) exactly for revoked rows.                    *)
AuditMatchesRow ==
    \A i \in Issued : /\ acts[i]["CREATED"] + acts[i]["REGENERATED"] = 1
                       /\ acts[i]["OPENED"] = inv[i].opens
                       /\ (acts[i]["REVOKED"] > 0) = inv[i].revoked

(* A revoked invitation is frozen: requests that resolved it earlier count *)
(* no visit and no open on it, and a late e-mail does not mark it sent.    *)
RevokedIsTerminal ==
    [][\A i \in Issued : inv[i].revoked => inv'[i] = inv[i]]_vars

GrantInUse(k) == \E v \in Visitor : /\ visitor[v].grant = k
                                     /\ visitor[v].pc \notin {"idle", "marking"}

(* A grant that a request has marked used is neither revoked nor purged    *)
(* until the request is done: revoking it waits, or is what a deadlock     *)
(* rolls back.                                                             *)
GrantsStayWhileUsed ==
    \A k \in Grant : GrantInUse(k) => grants[k] # None /\ ~grants[k].revoked

(* Regeneration is all or nothing: a regenerate request that changes any   *)
(* invitation leaves its guest with a new working link, even when the      *)
(* guest was archived between its statements.                              *)
RotationIsAtomic ==
    [][\A h \in Host :
          (host[h].op = "regenerate" /\ host'[h].op = "none" /\ inv' # inv)
              => \E i \in Invitation \ Issued : inv'[i] = NewRow(host[h].guest)]_vars

(* Every request ends, lock-order inversion between rotations and visits   *)
(* by grant included.                                                      *)
RequestsEnd == /\ \A h \in Host : host[h].pc # "idle" ~> host[h].pc = "idle"
               /\ \A v \in Visitor : visitor[v].pc # "idle" ~> visitor[v].pc = "idle"
-----------------------------------------------------------------------------
(* The promise of LinkLifecycle, read off the committed rows.              *)

LinkOf(g) == IF ActiveOf(g) = {} THEN None ELSE CHOOSE i \in ActiveOf(g) : TRUE
StateOf(i) == IF inv[i] = None THEN None ELSE inv[i].status

Lifecycle == INSTANCE LinkLifecycle WITH
                link <- [g \in Guest |-> LinkOf(g)],
                state <- [i \in Invitation |-> StateOf(i)]

(* Whatever the interleaving, what committed requests do to the links of   *)
(* guests is a behaviour of LinkLifecycle.                                 *)
LifecycleSpec == Lifecycle!LinkSpec
=============================================================================
