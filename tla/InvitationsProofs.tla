------------------------- MODULE InvitationsProofs --------------------------
(***************************************************************************)
(* For any number of guests, invitations, grants and requests in flight:   *)
(* one working link per guest, revoked links frozen, status, counters and  *)
(* activity log that agree, rotations that are all or nothing, and the     *)
(* whole an implementation of LinkLifecycle.                               *)
(***************************************************************************)
EXTENDS Invitations, TLAPS

(* What a host transaction may hold at each of its statements: it writes   *)
(* for a guest; it revokes a row that still works; the activity it logged  *)
(* is of a row that is revoked, by itself or before; it closes grants that *)
(* exist.                                                                  *)
HostHolds(t) ==
    /\ t.pc # "idle" => t.guest \in Guest
    /\ t.pc \in {"checking", "revoking", "closing"} => t.inv \in Issued
    /\ t.revoking => t.inv \in Active /\ t.logged
    /\ t.logged => t.inv \in Issued /\ (t.revoking \/ inv[t.inv].revoked)
    /\ \A k \in t.closing : grants[k] # None

HostShape == \A h \in Host : HostHolds(host[h])

(* The lock on an invitation that is being revoked is exclusive.           *)
RowLocks == \A h, q \in Host :
               host[h].revoking /\ host[q].revoking /\ host[h].inv = host[q].inv => h = q

VisitorShape == \A v \in Visitor : visitor[v].pc # "idle" => visitor[v].inv \in Invitation

(* Nothing is logged about an invitation before it is issued.              *)
UnissuedSilent == \A i \in Invitation \ Issued : \A a \in Activity : acts[i][a] = 0

LocksInv == HostShape /\ RowLocks /\ VisitorShape
RowsInv == OneActivePerGuest /\ OpenedIffCounted /\ AuditMatchesRow /\ UnissuedSilent

InvitationsInv == TypeOK /\ LocksInv /\ RowsInv

LEMMA NoTransactions ==
    /\ NoHostTx \in HostTx /\ HostHolds(NoHostTx) /\ ~NoHostTx.revoking
    /\ NoVisitorTx \in VisitorTx /\ NoVisitorTx.pc = "idle"
  BY DEF NoHostTx, HostTx, HostPc, HostHolds, NoVisitorTx, VisitorTx, VisitorPc

LEMMA InvitationsInit == Init => InvitationsInv
<1> SUFFICES ASSUME Init PROVE InvitationsInv
  OBVIOUS
<1>1. TypeOK
  BY NoTransactions DEF Init, TypeOK
<1>2. Issued = {} /\ Active = {}
  BY DEF Init, Issued, Active
<1>3. HostShape /\ RowLocks
  BY NoTransactions DEF Init, HostShape, RowLocks
<1>4. VisitorShape
  BY DEF Init, VisitorShape, NoVisitorTx
<1>5. RowsInv
  BY <1>2 DEF Init, RowsInv, OneActivePerGuest, OpenedIffCounted, AuditMatchesRow, UnissuedSilent
<1> QED
  BY <1>1, <1>3, <1>4, <1>5 DEF InvitationsInv, LocksInv

(* Rows that stay are judged as before.                                    *)
LEMMA RowsUnchanged ==
    ASSUME RowsInv, UNCHANGED <<inv, acts>>
    PROVE  RowsInv'
  BY DEF RowsInv, OneActivePerGuest, OpenedIffCounted, AuditMatchesRow, UnissuedSilent,
         Active, Issued

(* A step that only changes the transaction of one host request.           *)
LEMMA HostOnly ==
    ASSUME InvitationsInv, NEW h \in Host, NEW t \in HostTx, HostHolds(t),
           t.revoking => RowHolders(t.inv) \subseteq {h},
           host' = [host EXCEPT ![h] = t],
           UNCHANGED <<archived, inv, acts, grants, visitor>>
    PROVE  InvitationsInv'
<1> USE DEF InvitationsInv, LocksInv
<1>1. /\ host'[h] = t
      /\ \A q \in Host : q # h => host'[q] = host[q]
      /\ host' \in [Host -> HostTx]
  BY DEF TypeOK
<1>2. TypeOK'
  BY <1>1 DEF TypeOK
<1>3. HostShape'
  BY <1>1 DEF HostShape, HostHolds, Active, Issued
<1>4. RowLocks'
  BY <1>1 DEF RowLocks, RowHolders
<1>5. VisitorShape' /\ RowsInv'
  BY RowsUnchanged DEF VisitorShape
<1> QED
  BY <1>2, <1>3, <1>4, <1>5

(* A step that only changes the transaction of one visitor.                *)
LEMMA VisitorOnly ==
    ASSUME InvitationsInv, NEW v \in Visitor, NEW t \in VisitorTx,
           t.pc # "idle" => t.inv \in Invitation,
           visitor' = [visitor EXCEPT ![v] = t],
           UNCHANGED <<archived, inv, acts, grants, host>>
    PROVE  InvitationsInv'
<1> USE DEF InvitationsInv, LocksInv
<1>1. TypeOK' /\ VisitorShape'
  BY DEF TypeOK, VisitorShape
<1>2. HostShape' /\ RowLocks'
  BY DEF HostShape, HostHolds, RowLocks, Active, Issued
<1> QED
  BY <1>1, <1>2, RowsUnchanged

LEMMA RollbackKeeps == ASSUME InvitationsInv, NEW h \in Host, Rollback(h) PROVE InvitationsInv'
  BY NoTransactions, HostOnly DEF Rollback

LEMMA RefuseKeeps == ASSUME InvitationsInv, NEW v \in Visitor, Refuse(v) PROVE InvitationsInv'
  BY NoTransactions, VisitorOnly DEF Refuse

LEMMA ContinueKeeps ==
    ASSUME InvitationsInv, NEW h \in Host, NEW pc \in HostPc \ {"idle"},
           host[h].pc # "idle",
           pc \in {"checking", "revoking", "closing"} => host[h].inv \in Issued,
           Continue(h, pc)
    PROVE  InvitationsInv'
<1> DEFINE t == [host[h] EXCEPT !.pc = pc]
<1>1. host[h] \in HostTx /\ HostHolds(host[h])
  BY DEF InvitationsInv, LocksInv, TypeOK, HostShape
<1>2. t \in HostTx /\ HostHolds(t) /\ t.revoking = host[h].revoking /\ t.inv = host[h].inv
  BY <1>1 DEF HostTx, HostHolds
<1>3. host' = [host EXCEPT ![h] = t]
  BY DEF Continue
<1>4. t.revoking => RowHolders(t.inv) \subseteq {h}
  BY <1>2 DEF RowHolders, InvitationsInv, LocksInv, RowLocks
<1> HIDE DEF t
<1> QED
  BY <1>2, <1>3, <1>4, HostOnly DEF Continue

LEMMA VisitorAtKeeps ==
    ASSUME InvitationsInv, NEW v \in Visitor, NEW pc \in VisitorPc,
           visitor[v].pc # "idle", VisitorAt(v, pc)
    PROVE  InvitationsInv'
<1> DEFINE t == [visitor[v] EXCEPT !.pc = pc]
<1>1. visitor[v] \in VisitorTx /\ visitor[v].inv \in Invitation
  BY DEF InvitationsInv, LocksInv, TypeOK, VisitorShape
<1>2. t \in VisitorTx /\ t.inv \in Invitation
  BY <1>1 DEF VisitorTx
<1>3. visitor' = [visitor EXCEPT ![v] = t]
  BY DEF VisitorAt
<1> HIDE DEF t
<1> QED
  BY <1>2, <1>3, VisitorOnly DEF VisitorAt
-----------------------------------------------------------------------------
(* Statements of host requests before their COMMIT                         *)

LEMMA StartsKeep ==
    ASSUME InvitationsInv, NEW h \in Host, HostStarts(h)
    PROVE  InvitationsInv'
<1>1. ASSUME NEW t \in HostTx, HostHolds(t), ~t.revoking,
             host' = [host EXCEPT ![h] = t],
             UNCHANGED <<archived, inv, acts, grants, visitor>>
      PROVE  InvitationsInv'
  BY <1>1, HostOnly
<1>2. ASSUME NEW g \in Guest, StartCreate(h, g)
      PROVE  InvitationsInv'
  <2> DEFINE t == [NoHostTx EXCEPT !.pc = "creating", !.op = "create", !.guest = g]
  <2>1. t \in HostTx /\ HostHolds(t) /\ ~t.revoking
    BY DEF NoHostTx, HostTx, HostPc, HostHolds
  <2> QED
    BY <1>1, <1>2, <2>1 DEF StartCreate
<1>3. ASSUME NEW i \in Invitation, StartRegenerate(h, i)
      PROVE  InvitationsInv'
  <2> DEFINE t == [NoHostTx EXCEPT !.pc = "checking", !.op = "regenerate",
                       !.guest = inv[i].guest, !.inv = i, !.seen = inv[i].revoked]
  <2>1. inv[i] \in Row /\ i \in Issued
    BY <1>3 DEF StartRegenerate, Issued, InvitationsInv, TypeOK
  <2>2. t \in HostTx /\ HostHolds(t) /\ ~t.revoking
    BY <2>1 DEF NoHostTx, HostTx, HostPc, HostHolds, Row
  <2> QED
    BY <1>1, <1>3, <2>2 DEF StartRegenerate
<1>4. ASSUME NEW i \in Invitation, StartRevoke(h, i)
      PROVE  InvitationsInv'
  <2> DEFINE t == [NoHostTx EXCEPT
                       !.pc = IF inv[i].revoked THEN "closing" ELSE "revoking",
                       !.op = "revoke", !.guest = inv[i].guest, !.inv = i,
                       !.seen = inv[i].revoked]
  <2>1. inv[i] \in Row /\ i \in Issued
    BY <1>4 DEF StartRevoke, Issued, InvitationsInv, TypeOK
  <2>2. t \in HostTx /\ HostHolds(t) /\ ~t.revoking
    BY <2>1 DEF NoHostTx, HostTx, HostPc, HostHolds, Row
  <2> QED
    BY <1>1, <1>4, <2>2 DEF StartRevoke
<1> QED
  BY <1>2, <1>3, <1>4 DEF HostStarts

LEMMA CheckOtherKeeps ==
    ASSUME InvitationsInv, NEW h \in Host, CheckOther(h) PROVE InvitationsInv'
<1>1. host[h].pc = "checking" /\ host[h].inv \in Issued
  BY DEF CheckOther, InvitationsInv, LocksInv, HostShape, HostHolds
<1> QED
  BY <1>1, RollbackKeeps, ContinueKeeps DEF CheckOther, HostPc

LEMMA RevokeRowKeeps ==
    ASSUME InvitationsInv, NEW h \in Host, RevokeRow(h) PROVE InvitationsInv'
<1> DEFINE i == host[h].inv
           t == [host[h] EXCEPT !.pc = "closing", !.logged = TRUE,
                                !.revoking = ~inv[i].revoked]
<1>1. host[h] \in HostTx /\ HostHolds(host[h]) /\ i \in Issued /\ inv[i] \in Row
  BY DEF RevokeRow, InvitationsInv, LocksInv, TypeOK, HostShape, HostHolds, Issued
<1>2. inv[i].revoked \in BOOLEAN
  BY <1>1 DEF Row
<1>3. /\ t \in HostTx /\ t.inv = i /\ t.revoking = ~inv[i].revoked /\ t.logged
      /\ t.pc = "closing" /\ t.guest = host[h].guest /\ t.closing = host[h].closing
  BY <1>1, <1>2 DEF HostTx, HostPc
<1>4. host' = [host EXCEPT ![h] = t]
  BY DEF RevokeRow
<1>5. RowHolders(i) = {}
  BY DEF RevokeRow, RowFree
<1>6. t.revoking => i \in Active
  BY <1>1, <1>3 DEF Active
<1> HIDE DEF t
<1>7. HostHolds(t)
  BY <1>1, <1>2, <1>3, <1>6 DEF HostHolds, RevokeRow
<1> QED
  BY <1>3, <1>4, <1>5, <1>7, HostOnly DEF RevokeRow

LEMMA CloseGrantsKeeps ==
    ASSUME InvitationsInv, NEW h \in Host, CloseGrants(h) PROVE InvitationsInv'
<1> DEFINE t == [host[h] EXCEPT !.pc = "guest", !.closing = OpenGrants(host[h].inv)]
<1>1. host[h] \in HostTx /\ HostHolds(host[h])
  BY DEF InvitationsInv, LocksInv, TypeOK, HostShape
<1>2. OpenGrants(host[h].inv) \subseteq Grant
  BY DEF OpenGrants
<1>3. /\ t \in HostTx /\ t.inv = host[h].inv /\ t.revoking = host[h].revoking
      /\ t.logged = host[h].logged /\ t.pc = "guest" /\ t.guest = host[h].guest
      /\ t.closing = OpenGrants(host[h].inv)
  BY <1>1, <1>2 DEF HostTx, HostPc
<1>4. host' = [host EXCEPT ![h] = t]
  BY DEF CloseGrants
<1> HIDE DEF t
<1>5. HostHolds(t)
  BY <1>1, <1>3 DEF HostHolds, CloseGrants, OpenGrants
<1>6. t.revoking => RowHolders(t.inv) \subseteq {h}
  BY <1>3 DEF RowHolders, InvitationsInv, LocksInv, RowLocks
<1> QED
  BY <1>3, <1>4, <1>5, <1>6, HostOnly DEF CloseGrants

LEMMA ReadGuestKeeps ==
    ASSUME InvitationsInv, NEW h \in Host, ReadGuest(h) PROVE InvitationsInv'
  BY RollbackKeeps, ContinueKeeps DEF ReadGuest, HostPc
-----------------------------------------------------------------------------
(* COMMIT                                                                  *)

(* The rows after h commits: its own invitation is revoked with an         *)
(* activity, a new one is ready with an activity, all others stay.         *)
CommitEffect(h, new) ==
    /\ inv' = [i \in Invitation |-> inv'[i]]
    /\ acts' = [i \in Invitation |-> acts'[i]]
    /\ \A i \in Invitation :
       /\ inv'[i] = IF i = new THEN NewRow(host[h].guest)
                    ELSE IF host[h].revoking /\ i = host[h].inv THEN RevokedRow(inv[i])
                    ELSE inv[i]
       /\ acts'[i]["OPENED"] = acts[i]["OPENED"]
       /\ acts'[i]["REVOKED"] = IF host[h].logged /\ i = host[h].inv
                                THEN acts[i]["REVOKED"] + 1 ELSE acts[i]["REVOKED"]
       /\ i # new => /\ acts'[i]["CREATED"] = acts[i]["CREATED"]
                     /\ acts'[i]["REGENERATED"] = acts[i]["REGENERATED"]
       /\ i = new => acts'[i]["CREATED"] + acts'[i]["REGENERATED"]
                        = acts[i]["CREATED"] + acts[i]["REGENERATED"] + 1
       /\ acts'[i] \in [Activity -> Nat]

LEMMA CommitRows ==
    ASSUME InvitationsInv, NEW h \in Host, NEW closing \in SUBSET Grant,
           NEW new \in (Invitation \ Issued) \cup {None},
           Commit(h, closing, new)
    PROVE  CommitEffect(h, new)
<1> DEFINE t == host[h]
           type == IF t.op = "create" THEN "CREATED" ELSE "REGENERATED"
           logged == IF t.logged THEN [acts EXCEPT ![t.inv]["REVOKED"] = @ + 1] ELSE acts
           revoked == IF t.revoking THEN [inv EXCEPT ![t.inv] = RevokedRow(@)] ELSE inv
<1>1. /\ inv \in [Invitation -> Row \cup {None}]
      /\ acts \in [Invitation -> [Activity -> Nat]]
      /\ HostHolds(t) /\ None \notin Invitation
  BY NoneIsNoRow DEF InvitationsInv, TypeOK, LocksInv, HostShape
<1>2. /\ t.revoking => t.inv \in Invitation /\ t.inv # new
      /\ t.logged => t.inv \in Invitation /\ t.inv # new
  BY <1>1 DEF HostHolds, Active, Issued
<1>3. \A i \in Invitation :
         /\ logged[i] \in [Activity -> Nat]
         /\ \A a \in Activity : logged[i][a] =
               IF t.logged /\ i = t.inv /\ a = "REVOKED" THEN acts[i][a] + 1 ELSE acts[i][a]
  BY <1>1, <1>2 DEF Activity
<1>4. logged \in [Invitation -> [Activity -> Nat]]
  BY <1>1, <1>2 DEF Activity
<1>5. /\ inv' = IF new = None THEN revoked ELSE [revoked EXCEPT ![new] = NewRow(t.guest)]
      /\ acts' = IF new = None THEN logged ELSE [logged EXCEPT ![new][type] = @ + 1]
  BY DEF Commit
<1>6. type \in {"CREATED", "REGENERATED"}
  OBVIOUS
<1> HIDE DEF logged, type
<1>7. ASSUME NEW i \in Invitation
      PROVE  inv'[i] = IF i = new THEN NewRow(t.guest)
                       ELSE IF t.revoking /\ i = t.inv THEN RevokedRow(inv[i])
                       ELSE inv[i]
  BY <1>1, <1>2, <1>5
<1>8. ASSUME NEW i \in Invitation, i # new PROVE acts'[i] = logged[i]
  BY <1>1, <1>4, <1>5, <1>8
<1>9. ASSUME NEW i \in Invitation, i = new
      PROVE  acts'[i] = [logged[i] EXCEPT ![type] = @ + 1]
  BY <1>1, <1>4, <1>5, <1>9
<1>10. ASSUME NEW i \in Invitation, i = new
       PROVE  /\ acts'[i] \in [Activity -> Nat]
              /\ acts'[i]["OPENED"] = acts[i]["OPENED"]
              /\ acts'[i]["REVOKED"] = logged[i]["REVOKED"]
              /\ acts'[i]["CREATED"] + acts'[i]["REGENERATED"]
                    = acts[i]["CREATED"] + acts[i]["REGENERATED"] + 1
  <2>1. /\ logged[i] \in [Activity -> Nat]
        /\ logged[i]["OPENED"] = acts[i]["OPENED"]
        /\ logged[i]["CREATED"] = acts[i]["CREATED"]
        /\ logged[i]["REGENERATED"] = acts[i]["REGENERATED"]
    BY <1>3 DEF Activity
  <2>2. /\ acts[i]["CREATED"] \in Nat /\ acts[i]["REGENERATED"] \in Nat
        /\ logged[i][type] + 1 \in Nat
    BY <1>1, <1>6, <2>1 DEF Activity
  <2>3. /\ acts'[i] \in [Activity -> Nat]
        /\ \A a \in Activity : acts'[i][a] = IF a = type THEN logged[i][a] + 1 ELSE logged[i][a]
    BY <1>9, <1>10, <2>1, <2>2
  <2>4. CASE type = "CREATED"
    BY <2>1, <2>2, <2>3, <2>4 DEF Activity
  <2>5. CASE type = "REGENERATED"
    BY <2>1, <2>2, <2>3, <2>5 DEF Activity
  <2> QED
    BY <1>6, <2>4, <2>5
<1>11. inv' = [i \in Invitation |-> inv'[i]] /\ acts' = [i \in Invitation |-> acts'[i]]
  BY <1>1, <1>4, <1>5
<1> QED
  BY <1>2, <1>3, <1>7, <1>8, <1>10, <1>11 DEF Activity, CommitEffect

(* The UPDATE statements keep the constraint of the table.                 *)
LEMMA RowUpdates ==
    /\ \A g \in Guest :
          /\ NewRow(g) \in Row
          /\ NewRow(g).guest = g /\ ~NewRow(g).revoked
          /\ NewRow(g).status = "READY" /\ NewRow(g).opens = 0
    /\ \A row \in Row :
          /\ RevokedRow(row) \in Row
          /\ RevokedRow(row).revoked /\ RevokedRow(row).guest = row.guest
          /\ RevokedRow(row).opens = row.opens
  BY DEF NewRow, RevokedRow, Row, Status

LEMMA OpenedRows ==
    ASSUME NEW row \in Row, ~row.revoked
    PROVE  /\ OpenedRow(row) \in Row /\ ~OpenedRow(row).revoked
           /\ OpenedRow(row).guest = row.guest
           /\ OpenedRow(row).opens = row.opens + 1
           /\ OpenedRow(row).status = "OPENED"
<1>1. row.status \in {"READY", "SENT", "OPENED"}
  BY DEF Row, Status
<1>2. /\ OpenedRow(row).guest = row.guest
      /\ OpenedRow(row).opens = row.opens + 1
      /\ OpenedRow(row).visits = row.visits
  BY DEF OpenedRow, Row
<1>3. OpenedRow(row).status = "OPENED"
  BY <1>1 DEF OpenedRow, Row
<1>4. OpenedRow(row).revoked = row.revoked
  BY DEF OpenedRow, Row
<1>5. OpenedRow(row) \in [guest : Guest, status : Status, revoked : BOOLEAN,
                          visits : Nat, opens : Nat]
  <2>1. row \in [guest : Guest, status : Status, revoked : BOOLEAN,
                visits : Nat, opens : Nat]
    BY DEF Row
  <2>2. ASSUME NEW n \in Nat, NEW c \in Status
        PROVE  [row EXCEPT !.opens = n, !.status = c]
                  \in [guest : Guest, status : Status, revoked : BOOLEAN,
                       visits : Nat, opens : Nat]
    BY <2>1
  <2>3. /\ row.opens + 1 \in Nat
        /\ (IF row.status \in {"READY", "SENT"} THEN "OPENED" ELSE row.status) \in Status
    BY <2>1 DEF Status
  <2> QED
    BY <2>2, <2>3 DEF OpenedRow
<1>6. (OpenedRow(row).status = "REVOKED") = FALSE
  BY <1>3
<1>7. (OpenedRow(row).status = "REVOKED") = OpenedRow(row).revoked
  BY <1>4, <1>6, Zenon DEF Row
<1> QED
  BY <1>2, <1>3, <1>4, <1>5, <1>7 DEF Row

(* What a commit leaves of the working links: not the one it revoked, and  *)
(* the one it created.                                                     *)
LinksAfter(h, new) ==
    /\ inv' \in [Invitation -> Row \cup {None}]
    /\ Issued' = Issued \cup ({new} \ {None})
    /\ \A i \in Active' : \/ i = new
                          \/ /\ i \in Active /\ inv'[i] = inv[i]
                             /\ ~(host[h].revoking /\ host[h].inv = i)
    /\ \A i \in Active : ~(host[h].revoking /\ host[h].inv = i)
                            => i \in Active' /\ i # new /\ inv'[i] = inv[i]

LEMMA CommitActive ==
    ASSUME InvitationsInv, NEW h \in Host, NEW closing \in SUBSET Grant,
           NEW new \in (Invitation \ Issued) \cup {None},
           host[h].pc # "idle", Commit(h, closing, new)
    PROVE  LinksAfter(h, new)
<1>0. CommitEffect(h, new)
  BY CommitRows
<1>1. /\ inv \in [Invitation -> Row \cup {None}] /\ host[h].guest \in Guest
      /\ host[h].revoking => host[h].inv \in Active
      /\ None \notin Invitation /\ None \notin Row
  BY NoneIsNoRow DEF InvitationsInv, TypeOK, LocksInv, HostShape, HostHolds
<1>2. inv' = [i \in Invitation |-> inv'[i]]
  BY <1>0 DEF CommitEffect
<1>3. \A i \in Invitation :
         /\ inv'[i] = IF i = new THEN NewRow(host[h].guest)
                      ELSE IF host[h].revoking /\ i = host[h].inv THEN RevokedRow(inv[i])
                      ELSE inv[i]
  BY <1>0 DEF CommitEffect
<1>4. /\ NewRow(host[h].guest) \in Row
      /\ host[h].revoking => /\ RevokedRow(inv[host[h].inv]) \in Row
                             /\ RevokedRow(inv[host[h].inv]).revoked
  BY <1>1, RowUpdates DEF Active, Issued
<1>5. \A i \in Invitation :
         /\ inv'[i] \in Row \cup {None}
         /\ inv'[i] # None <=> i = new \/ inv[i] # None
  BY <1>1, <1>3, <1>4 DEF Issued, Active
<1>6. inv' \in [Invitation -> Row \cup {None}]
  BY <1>2, <1>5
<1>7. Issued' = Issued \cup ({new} \ {None})
  BY <1>1, <1>5 DEF Issued
<1>8. ASSUME NEW i \in Active', i # new
      PROVE  i \in Active /\ inv'[i] = inv[i] /\ ~(host[h].revoking /\ host[h].inv = i)
  <2>1. i \in Invitation /\ inv'[i] # None /\ ~inv'[i].revoked
    BY <1>8 DEF Active, Issued
  <2>2. ~(host[h].revoking /\ host[h].inv = i)
    BY <1>3, <1>4, <1>8, <2>1
  <2> QED
    BY <1>3, <1>8, <2>1, <2>2 DEF Active, Issued
<1>9. ASSUME NEW i \in Active, ~(host[h].revoking /\ host[h].inv = i)
      PROVE  i \in Active' /\ i # new /\ inv'[i] = inv[i]
  <2>1. i \in Issued /\ i \in Invitation /\ i # new
    BY <1>1 DEF Active, Issued
  <2>2. inv'[i] = inv[i]
    BY <1>3, <1>9, <2>1
  <2> QED
    BY <2>1, <2>2 DEF Active, Issued
<1> QED
  BY <1>6, <1>7, <1>8, <1>9 DEF LinksAfter

LEMMA CommitKeeps ==
    ASSUME InvitationsInv, NEW h \in Host, NEW closing \in SUBSET Grant,
           NEW new \in (Invitation \ Issued) \cup {None},
           host[h].pc # "idle",
           \A k \in closing : grants[k] # None,
           new # None => SeenActive(h, host[h].guest) = {},
           Commit(h, closing, new)
    PROVE  InvitationsInv'
<1> DEFINE t == host[h]
<1>0. CommitEffect(h, new) /\ LinksAfter(h, new)
  BY CommitRows, CommitActive
<1>1. /\ HostHolds(t) /\ None \notin Invitation /\ None \notin Row /\ t.guest \in Guest
      /\ inv \in [Invitation -> Row \cup {None}]
  BY NoneIsNoRow DEF InvitationsInv, LocksInv, HostShape, HostHolds, TypeOK
<1>2. /\ host' \in [Host -> HostTx] /\ host'[h] = NoHostTx
      /\ \A q \in Host : q # h => host'[q] = host[q]
  BY NoTransactions DEF Commit, InvitationsInv, TypeOK
<1>3. /\ grants' \in [Grant -> GrantRow \cup {None}]
      /\ \A k \in Grant : grants[k] # None => grants'[k] # None
  BY NoneIsNoGrant DEF Commit, InvitationsInv, TypeOK, GrantRow
<1>4. TypeOK'
  <2>1. acts' \in [Invitation -> [Activity -> Nat]]
    BY <1>0 DEF CommitEffect
  <2> QED
    BY <1>0, <1>2, <1>3, <2>1 DEF Commit, InvitationsInv, TypeOK, LinksAfter
<1>5. HostShape'
  <2> SUFFICES ASSUME NEW q \in Host PROVE HostHolds(host[q])'
    BY DEF HostShape
  <2>1. CASE q = h
    BY <1>2, <2>1 DEF NoHostTx, HostHolds
  <2>2. CASE q # h
    <3>1. host'[q] = host[q] /\ HostHolds(host[q]) /\ host[q] \in HostTx
      BY <1>2, <2>2 DEF InvitationsInv, LocksInv, HostShape, TypeOK
    <3>2. host[q].revoking => ~(t.revoking /\ t.inv = host[q].inv)
      BY <2>2 DEF InvitationsInv, LocksInv, RowLocks
    <3>3. host[q].revoking => host[q].inv \in Active'
      BY <1>0, <3>1, <3>2 DEF HostHolds, LinksAfter
    <3>4. Issued \subseteq Issued'
      BY <1>0 DEF LinksAfter
    <3>5. ASSUME host[q].logged, ~host[q].revoking
          PROVE  inv'[host[q].inv].revoked
      <4>1. /\ host[q].inv \in Issued /\ host[q].inv \in Invitation /\ host[q].inv # new
            /\ inv[host[q].inv].revoked
        BY <1>1, <3>1, <3>5 DEF HostHolds, Issued
      <4>2. ~(t.revoking /\ host[q].inv = t.inv)
        BY <1>1, <4>1 DEF HostHolds, Active
      <4> QED
        BY <1>0, <4>1, <4>2 DEF CommitEffect
    <3>6. \A k \in host[q].closing : grants'[k] # None
      BY <1>3, <3>1 DEF HostHolds, HostTx
    <3> QED
      BY <3>1, <3>3, <3>4, <3>5, <3>6 DEF HostHolds
  <2> QED
    BY <2>1, <2>2
<1>6. RowLocks' /\ VisitorShape'
  BY <1>2, NoTransactions DEF Commit, InvitationsInv, LocksInv, RowLocks, VisitorShape
<1>7. OneActivePerGuest'
  <2> SUFFICES ASSUME NEW i \in Active', NEW j \in Active', inv'[i].guest = inv'[j].guest
               PROVE  i = j
    BY DEF OneActivePerGuest
  <2>1. ASSUME NEW k \in Active', k # new, new \in Active'
        PROVE  inv'[k].guest # inv'[new].guest
    <3>1. k \in Active /\ inv'[k] = inv[k] /\ ~(t.revoking /\ t.inv = k)
      BY <1>0, <2>1 DEF LinksAfter
    <3>2. new \in Invitation /\ new # None
      BY <1>1, <2>1 DEF Active, Issued
    <3>3. inv'[new].guest = t.guest
      BY <1>0, <1>1, <3>2, RowUpdates DEF CommitEffect
    <3>4. inv[k].guest # t.guest
      BY <3>1, <3>2 DEF SeenActive, ActiveOf
    <3> QED
      BY <3>1, <3>3, <3>4
  <2>2. CASE i = new \/ j = new
    BY <2>1, <2>2
  <2>3. CASE i # new /\ j # new
    BY <1>0, <2>3 DEF InvitationsInv, RowsInv, OneActivePerGuest, LinksAfter
  <2> QED
    BY <2>2, <2>3
<1>8. OpenedIffCounted'
  <2> SUFFICES ASSUME NEW i \in Active'
               PROVE  inv'[i].status = "OPENED" <=> inv'[i].opens > 0
    BY DEF OpenedIffCounted
  <2>1. CASE i = new
    <3>1. inv'[i] = NewRow(t.guest)
      BY <1>0, <2>1 DEF Active, Issued, CommitEffect
    <3> QED
      BY <1>1, <3>1, RowUpdates
  <2>2. CASE i # new
    BY <1>0, <2>2 DEF InvitationsInv, RowsInv, OpenedIffCounted, LinksAfter
  <2> QED
    BY <2>1, <2>2
<1>9. AuditMatchesRow'
  <2> SUFFICES ASSUME NEW i \in Issued'
               PROVE  /\ acts'[i]["CREATED"] + acts'[i]["REGENERATED"] = 1
                      /\ acts'[i]["OPENED"] = inv'[i].opens
                      /\ (acts'[i]["REVOKED"] > 0) = inv'[i].revoked
    BY DEF AuditMatchesRow
  <2>1. /\ i \in Invitation /\ acts[i] \in [Activity -> Nat]
        /\ \A a \in {"CREATED", "REGENERATED", "OPENED", "REVOKED"} : acts[i][a] \in Nat
    BY DEF Issued, InvitationsInv, TypeOK, Activity
  <2>2. CASE i = new
    <3>1. inv'[i] = NewRow(t.guest) /\ \A a \in Activity : acts[i][a] = 0
      BY <1>0, <2>1, <2>2, <1>1 DEF InvitationsInv, RowsInv, UnissuedSilent, CommitEffect
    <3>2. ~(t.logged /\ i = t.inv)
      BY <1>1, <2>1, <2>2 DEF HostHolds
    <3>3. /\ acts'[i]["CREATED"] + acts'[i]["REGENERATED"] = 1
          /\ acts'[i]["OPENED"] = 0 /\ acts'[i]["REVOKED"] = 0
      BY <1>0, <2>1, <2>2, <3>1, <3>2 DEF Activity, CommitEffect
    <3>4. inv'[i].opens = 0 /\ inv'[i].revoked = FALSE
      BY <1>1, <3>1 DEF NewRow
    <3>5. (acts'[i]["REVOKED"] > 0) = FALSE
      BY <3>3
    <3>6. (acts'[i]["REVOKED"] > 0) = inv'[i].revoked
      BY <3>4, <3>5, Zenon
    <3>7. acts'[i]["OPENED"] = inv'[i].opens
      BY <3>3, <3>4
    <3> QED
      BY <3>3, <3>6, <3>7, Zenon
  <2>3. CASE i # new
    <3>1. i \in Issued /\ inv[i] \in Row
      BY <1>0, <1>1, <2>1, <2>3 DEF Issued, LinksAfter
    <3>2. /\ acts'[i]["CREATED"] + acts'[i]["REGENERATED"] = 1
          /\ acts'[i]["OPENED"] = inv[i].opens
          /\ (acts[i]["REVOKED"] > 0) = inv[i].revoked
      BY <1>0, <2>1, <2>3, <3>1 DEF InvitationsInv, RowsInv, AuditMatchesRow, CommitEffect
    <3>3. CASE t.logged /\ i = t.inv
      <4>1. acts'[i]["REVOKED"] = acts[i]["REVOKED"] + 1
        BY <1>0, <2>1, <3>3 DEF CommitEffect
      <4>2. inv'[i].revoked = TRUE /\ inv'[i].opens = inv[i].opens
        <5>1. CASE t.revoking
          <6>1. inv'[i] = RevokedRow(inv[i])
            BY <1>0, <2>1, <2>3, <3>3, <5>1 DEF CommitEffect
          <6> QED
            BY <3>1, <6>1 DEF RevokedRow, Row
        <5>2. CASE ~t.revoking
          <6>1. inv'[i] = inv[i] /\ inv[i].revoked
            BY <1>0, <1>1, <2>1, <2>3, <3>3, <5>2 DEF HostHolds, CommitEffect
          <6> QED
            BY <3>1, <6>1 DEF Row
        <5> QED
          BY <5>1, <5>2
      <4>3. (acts'[i]["REVOKED"] > 0) = TRUE
        BY <2>1, <4>1
      <4>4. (acts'[i]["REVOKED"] > 0) = inv'[i].revoked
        BY <4>2, <4>3, Zenon
      <4>5. acts'[i]["OPENED"] = inv'[i].opens
        BY <3>2, <4>2
      <4> QED
        BY <3>2, <4>4, <4>5, Zenon
    <3>4. CASE ~(t.logged /\ i = t.inv)
      <4>1. inv'[i] = inv[i] /\ acts'[i]["REVOKED"] = acts[i]["REVOKED"]
        BY <1>0, <1>1, <2>1, <2>3, <3>4 DEF HostHolds, CommitEffect
      <4> QED
        BY <3>2, <4>1
    <3> QED
      BY <3>3, <3>4
  <2> QED
    BY <2>2, <2>3
<1>10. UnissuedSilent'
  <2> SUFFICES ASSUME NEW i \in Invitation \ Issued', NEW a \in Activity
               PROVE  acts'[i][a] = 0
    BY DEF UnissuedSilent, Activity
  <2>1. i # new /\ i \notin Issued
    BY <1>0, <1>1 DEF LinksAfter
  <2>2. ~(t.logged /\ i = t.inv)
    BY <1>1, <2>1 DEF HostHolds
  <2>3. \A b \in Activity : acts[i][b] = 0
    BY <2>1 DEF InvitationsInv, RowsInv, UnissuedSilent
  <2> QED
    BY <1>0, <2>1, <2>2, <2>3 DEF Activity, CommitEffect
<1> QED
  BY <1>4, <1>5, <1>6, <1>7, <1>8, <1>9, <1>10 DEF InvitationsInv, LocksInv, RowsInv

LEMMA FindActiveKeeps ==
    ASSUME InvitationsInv, NEW h \in Host, FindActive(h) PROVE InvitationsInv'
  BY RollbackKeeps, ContinueKeeps DEF FindActive, HostPc

LEMMA CloseAndRevokeKeeps ==
    ASSUME InvitationsInv, NEW h \in Host, CloseAndRevoke(h) PROVE InvitationsInv'
<1> DEFINE closing == OpenGrants(host[h].inv)
<1>1. closing \in SUBSET Grant /\ \A k \in closing : grants[k] # None
  BY DEF OpenGrants
<1>2. host[h].pc # "idle" /\ Commit(h, closing, None)
  BY DEF CloseAndRevoke
<1> HIDE DEF closing
<1>3. None \in (Invitation \ Issued) \cup {None}
  OBVIOUS
<1> QED
  BY <1>1, <1>2, <1>3, CommitKeeps

LEMMA InsertKeeps ==
    ASSUME InvitationsInv, NEW h \in Host, Insert(h) PROVE InvitationsInv'
<1>1. CASE Rollback(h)
  BY <1>1, RollbackKeeps
<1>2. CASE ~Rollback(h)
  <2>1. IndexFree(h) /\ host[h].pc # "idle"
    BY <1>2 DEF Insert
  <2>2. PICK i \in Invitation \ Issued : Commit(h, host[h].closing, i)
    BY <1>2 DEF Insert
  <2>3. host[h].closing \in SUBSET Grant /\ \A k \in host[h].closing : grants[k] # None
    BY DEF InvitationsInv, LocksInv, TypeOK, HostShape, HostHolds, HostTx
  <2>4. SeenActive(h, host[h].guest) = {}
    BY <2>1 DEF IndexFree
  <2> QED
    BY <2>1, <2>2, <2>3, <2>4, CommitKeeps
<1> QED
  BY <1>1, <1>2
-----------------------------------------------------------------------------
(* UPDATEs of one working invitation, and those that touch no invitation   *)

LEMMA ActiveRowChanges ==
    ASSUME InvitationsInv, NEW i \in Active, NEW row \in Row,
           ~row.revoked, row.guest = inv[i].guest,
           row.status = "OPENED" <=> row.opens > 0,
           inv' = [inv EXCEPT ![i] = row],
           acts' \in [Invitation -> [Activity -> Nat]],
           \A j \in Invitation : j # i => acts'[j] = acts[j],
           \A a \in Activity : a # "OPENED" => acts'[i][a] = acts[i][a],
           acts'[i]["OPENED"] = row.opens,
           visitor' \in [Visitor -> VisitorTx], VisitorShape',
           UNCHANGED <<archived, grants, host>>
    PROVE  InvitationsInv'
<1> USE DEF InvitationsInv, LocksInv
<1>1. /\ i \in Issued /\ i \in Invitation /\ None \notin Row /\ ~inv[i].revoked
      /\ inv \in [Invitation -> Row \cup {None}]
  BY NoneIsNoRow DEF Active, Issued, TypeOK
<1>2. inv'[i] = row /\ \A j \in Invitation : j # i => inv'[j] = inv[j]
  BY <1>1
<1>3. TypeOK'
  BY <1>1 DEF TypeOK
<1>4. Issued' = Issued /\ Active' = Active
  BY <1>1, <1>2 DEF Issued, Active
<1>5. HostShape'
  <2> SUFFICES ASSUME NEW q \in Host PROVE HostHolds(host[q])'
    BY DEF HostShape
  <2>1. HostHolds(host[q])
    BY DEF HostShape
  <2>2. ASSUME host[q].inv \in Issued, inv[host[q].inv].revoked
        PROVE  inv'[host[q].inv].revoked
    BY <1>1, <1>2, <2>2 DEF Issued
  <2> QED
    BY <1>4, <2>1, <2>2 DEF HostHolds
<1>6. RowLocks'
  BY DEF RowLocks
<1>7. OneActivePerGuest' /\ OpenedIffCounted'
  BY <1>1, <1>2, <1>4 DEF RowsInv, OneActivePerGuest, OpenedIffCounted, Active, Issued
<1>8. AuditMatchesRow'
  <2> SUFFICES ASSUME NEW j \in Issued
               PROVE  /\ acts'[j]["CREATED"] + acts'[j]["REGENERATED"] = 1
                      /\ acts'[j]["OPENED"] = inv'[j].opens
                      /\ (acts'[j]["REVOKED"] > 0) = inv'[j].revoked
    BY <1>4 DEF AuditMatchesRow
  <2>1. /\ acts[j]["CREATED"] + acts[j]["REGENERATED"] = 1
        /\ acts[j]["OPENED"] = inv[j].opens
        /\ (acts[j]["REVOKED"] > 0) = inv[j].revoked
    BY DEF RowsInv, AuditMatchesRow
  <2>2. CASE j # i
    <3>1. j \in Invitation
      BY DEF Issued
    <3>2. acts'[j] = acts[j] /\ inv'[j] = inv[j]
      BY <1>2, <2>2, <3>1
    <3> QED
      BY <2>1, <3>2, Zenon
  <2>3. CASE j = i
    <3>1. /\ acts'[i]["CREATED"] = acts[i]["CREATED"]
          /\ acts'[i]["REGENERATED"] = acts[i]["REGENERATED"]
          /\ acts'[i]["REVOKED"] = acts[i]["REVOKED"]
      BY DEF Activity
    <3>2. inv[i].revoked = FALSE /\ row.revoked = FALSE
      BY <1>1 DEF Row
    <3>3. (acts'[i]["REVOKED"] > 0) = inv'[i].revoked
      BY <1>2, <2>1, <2>3, <3>1, <3>2, Zenon
    <3>4. acts'[i]["OPENED"] = inv'[i].opens
      BY <1>2
    <3>5. acts'[i]["CREATED"] + acts'[i]["REGENERATED"] = 1
      BY <2>1, <2>3, <3>1
    <3> QED
      BY <2>3, <3>3, <3>4, <3>5, Zenon
  <2> QED
    BY <2>2, <2>3
<1>9. UnissuedSilent'
  BY <1>1, <1>4 DEF RowsInv, UnissuedSilent
<1> QED
  BY <1>3, <1>5, <1>6, <1>7, <1>8, <1>9 DEF RowsInv

LEMMA MarkSentKeeps ==
    ASSUME InvitationsInv, NEW i \in Invitation, MarkSent(i) PROVE InvitationsInv'
<1> DEFINE row == SentRow(inv[i])
<1>1. /\ i \in Active /\ inv[i] \in Row /\ inv[i].status = "READY"
  BY DEF MarkSent, MaySend, Active, Issued, InvitationsInv, TypeOK
<1>2. inv[i].opens \in Nat /\ ~(inv[i].opens > 0)
  BY <1>1 DEF InvitationsInv, RowsInv, OpenedIffCounted, Row
<1>3. /\ row \in Row /\ ~row.revoked /\ row.guest = inv[i].guest
      /\ row.opens = inv[i].opens /\ row.status = "SENT"
  BY <1>1 DEF SentRow, Row, Status
<1>4. inv' = [inv EXCEPT ![i] = row] /\ UNCHANGED <<archived, acts, grants, host, visitor>>
  BY DEF MarkSent
<1>5. /\ acts \in [Invitation -> [Activity -> Nat]] /\ visitor \in [Visitor -> VisitorTx]
      /\ VisitorShape
  BY DEF InvitationsInv, LocksInv, TypeOK
<1>6. acts[i]["OPENED"] = inv[i].opens
  BY <1>1 DEF InvitationsInv, RowsInv, AuditMatchesRow, Active
<1>7. VisitorShape'
  BY <1>4, <1>5 DEF VisitorShape
<1> HIDE DEF row
<1> QED
  BY <1>1, <1>2, <1>3, <1>4, <1>5, <1>6, <1>7, ActiveRowChanges

LEMMA TrackKeeps ==
    ASSUME InvitationsInv, NEW v \in Visitor, Track(v) PROVE InvitationsInv'
<1> DEFINE i == visitor[v].inv
           row == IF visitor[v].op = "open" THEN OpenedRow(inv[i]) ELSE VisitedRow(inv[i])
<1>1. CASE Refuse(v)
  BY <1>1, RefuseKeeps
<1>2. CASE ~Refuse(v)
  <2>1. /\ i \in Active
        /\ inv' = [inv EXCEPT ![i] = row]
        /\ acts' = IF visitor[v].op = "open"
                   THEN [acts EXCEPT ![i]["OPENED"] = @ + 1] ELSE acts
        /\ visitor' = [visitor EXCEPT ![v] = NoVisitorTx]
        /\ UNCHANGED <<archived, grants, host>>
    BY <1>2 DEF Track, StillMatches
  <2>2. /\ i \in Active /\ i \in Invitation /\ inv[i] \in Row /\ ~inv[i].revoked
        /\ acts \in [Invitation -> [Activity -> Nat]]
    BY <2>1, NoneIsNoRow DEF Active, Issued, InvitationsInv, TypeOK
  <2>3. /\ acts[i]["OPENED"] = inv[i].opens /\ acts[i]["OPENED"] \in Nat
        /\ inv[i].status = "OPENED" <=> inv[i].opens > 0
    BY <2>2 DEF InvitationsInv, RowsInv, AuditMatchesRow, OpenedIffCounted, Active, Activity
  <2>4. /\ visitor' \in [Visitor -> VisitorTx] /\ VisitorShape'
    BY <2>1, NoTransactions DEF InvitationsInv, LocksInv, TypeOK, VisitorShape
  <2>5. CASE visitor[v].op = "open"
    <3>1. /\ row \in Row /\ ~row.revoked /\ row.guest = inv[i].guest
          /\ row.opens = inv[i].opens + 1 /\ row.status = "OPENED"
      BY <2>2, <2>5, OpenedRows
    <3>2. /\ acts' \in [Invitation -> [Activity -> Nat]]
          /\ \A j \in Invitation : j # i => acts'[j] = acts[j]
          /\ \A a \in Activity : a # "OPENED" => acts'[i][a] = acts[i][a]
          /\ acts'[i]["OPENED"] = acts[i]["OPENED"] + 1
      BY <2>1, <2>2, <2>5 DEF Activity
    <3> HIDE DEF row, i
    <3>3. inv[i].opens \in Nat /\ inv[i].opens + 1 > 0
      BY <2>3
    <3>4. row.opens > 0 /\ acts'[i]["OPENED"] = row.opens
      BY <2>3, <3>1, <3>2, <3>3
    <3>5. row.status = "OPENED" <=> row.opens > 0
      BY <3>1, <3>4
    <3>6. /\ inv' = [inv EXCEPT ![i] = row]
          /\ UNCHANGED <<archived, grants, host>>
      BY <2>1
    <3> QED
      BY <2>2, <2>4, <3>1, <3>2, <3>4, <3>5, <3>6, ActiveRowChanges
  <2>6. CASE visitor[v].op # "open"
    <3>1. /\ row \in Row /\ ~row.revoked /\ row.guest = inv[i].guest
          /\ row.opens = inv[i].opens /\ row.status = inv[i].status
      BY <2>2, <2>6 DEF VisitedRow, Row
    <3>2. acts' = acts
      BY <2>1, <2>6
    <3>3. /\ row.status = "OPENED" <=> row.opens > 0
          /\ acts'[i]["OPENED"] = row.opens
      BY <2>3, <3>1, <3>2
    <3>4. /\ inv' = [inv EXCEPT ![i] = row]
          /\ UNCHANGED <<archived, grants, host>>
      BY <2>1
    <3> HIDE DEF row, i
    <3> QED
      BY <2>2, <2>4, <3>1, <3>2, <3>3, <3>4, ActiveRowChanges
  <2> QED
    BY <2>5, <2>6
<1> QED
  BY <1>1, <1>2

(* Grants change: no lock is lost as long as the grants being closed stay. *)
LEMMA GrantsChange ==
    ASSUME InvitationsInv,
           grants' \in [Grant -> GrantRow \cup {None}],
           \A h \in Host : \A k \in host[h].closing : grants'[k] # None,
           visitor' \in [Visitor -> VisitorTx], VisitorShape',
           UNCHANGED <<archived, inv, acts, host>>
    PROVE  InvitationsInv'
<1> USE DEF InvitationsInv, LocksInv
<1>1. TypeOK'
  BY DEF TypeOK
<1>2. HostShape' /\ RowLocks'
  BY DEF HostShape, HostHolds, RowLocks, Active, Issued
<1> QED
  BY <1>1, <1>2, RowsUnchanged

LEMMA IssueGrantKeeps ==
    ASSUME InvitationsInv, NEW v \in Visitor, IssueGrant(v) PROVE InvitationsInv'
<1>1. /\ visitor[v].inv \in Invitation /\ grants \in [Grant -> GrantRow \cup {None}]
      /\ \A h \in Host : /\ host[h].closing \subseteq Grant
                         /\ \A k \in host[h].closing : grants[k] # None
  BY DEF IssueGrant, InvitationsInv, LocksInv, TypeOK, VisitorShape, HostShape, HostHolds, HostTx
<1>2. PICK new \in FreshGrants :
         grants' = [k \in Grant |->
              IF k = new THEN [inv |-> visitor[v].inv, age |-> "valid", revoked |-> FALSE]
              ELSE IF k \in Purgeable THEN None ELSE grants[k]]
  BY DEF IssueGrant
<1>3. [inv |-> visitor[v].inv, age |-> "valid", revoked |-> FALSE] \in GrantRow
  BY <1>1 DEF GrantRow, Age
<1>4. grants' \in [Grant -> GrantRow \cup {None}]
  BY <1>1, <1>2, <1>3
<1>5. \A h \in Host : \A k \in host[h].closing : k \notin Purgeable
  BY DEF IssueGrant, GrantFree, GrantClosers
<1>6. \A h \in Host : \A k \in host[h].closing : grants'[k] # None
  BY <1>1, <1>2, <1>3, <1>5, NoneIsNoGrant
<1>7. visitor' \in [Visitor -> VisitorTx] /\ VisitorShape'
  BY NoTransactions DEF IssueGrant, InvitationsInv, LocksInv, TypeOK, VisitorShape
<1> QED
  BY <1>4, <1>6, <1>7, GrantsChange DEF IssueGrant

LEMMA AgeGrantKeeps ==
    ASSUME InvitationsInv, NEW k \in Grant, AgeGrant(k) PROVE InvitationsInv'
<1>1. grants \in [Grant -> GrantRow \cup {None}] /\ grants[k] \in GrantRow
  BY DEF AgeGrant, InvitationsInv, TypeOK
<1> DEFINE older == [grants[k] EXCEPT !.age =
                         IF @ = "valid" THEN "expired" ELSE "purgeable"]
<1>2. older \in GrantRow
  BY <1>1 DEF GrantRow, Age
<1>3. grants' = [grants EXCEPT ![k] = older]
  BY DEF AgeGrant
<1> HIDE DEF older
<1>4. \A h \in Host : /\ host[h].closing \subseteq Grant
                      /\ \A q \in host[h].closing : grants[q] # None
  BY DEF InvitationsInv, LocksInv, TypeOK, HostShape, HostHolds, HostTx
<1>5. \A h \in Host : \A q \in host[h].closing : grants'[q] # None
  BY <1>1, <1>2, <1>3, <1>4, NoneIsNoGrant
<1>6. visitor' \in [Visitor -> VisitorTx] /\ VisitorShape'
  BY DEF AgeGrant, InvitationsInv, LocksInv, TypeOK, VisitorShape
<1>7. grants' \in [Grant -> GrantRow \cup {None}]
  BY <1>1, <1>2, <1>3
<1> QED
  BY <1>5, <1>6, <1>7, GrantsChange DEF AgeGrant

LEMMA GuestsKeep ==
    ASSUME InvitationsInv, NEW g \in Guest, Archive(g) \/ Restore(g) PROVE InvitationsInv'
<1> USE DEF InvitationsInv, LocksInv
<1>1. archived' \in [Guest -> BOOLEAN] /\ UNCHANGED <<inv, acts, grants, host, visitor>>
  BY DEF Archive, Restore, TypeOK
<1>2. TypeOK'
  BY <1>1 DEF TypeOK
<1>3. HostShape' /\ RowLocks' /\ VisitorShape'
  BY <1>1 DEF HostShape, HostHolds, RowLocks, VisitorShape, Active, Issued
<1> QED
  BY <1>1, <1>2, <1>3, RowsUnchanged
-----------------------------------------------------------------------------
(* Public requests before their COMMIT                                     *)

LEMMA VisitorStartsKeep ==
    ASSUME InvitationsInv, NEW v \in Visitor, VisitorStarts(v) PROVE InvitationsInv'
<1>1. ASSUME NEW t \in VisitorTx, t.inv \in Invitation,
             visitor' = [visitor EXCEPT ![v] = t],
             UNCHANGED <<archived, inv, acts, grants, host>>
      PROVE  InvitationsInv'
  BY <1>1, VisitorOnly
<1>2. ASSUME NEW i \in Invitation, NEW op \in {"visit", "open"}, StartByToken(v, i, op)
      PROVE  InvitationsInv'
  <2> DEFINE t == [NoVisitorTx EXCEPT !.pc = IF op = "visit" THEN "reading" ELSE "tracking",
                       !.op = op, !.inv = i]
  <2>1. t \in VisitorTx /\ t.inv \in Invitation
    BY DEF NoVisitorTx, VisitorTx, VisitorPc
  <2> QED
    BY <1>1, <1>2, <2>1 DEF StartByToken
<1>3. ASSUME NEW i \in Invitation, StartLookup(v, i)
      PROVE  InvitationsInv'
  <2> DEFINE t == [NoVisitorTx EXCEPT !.pc = "issuing", !.op = "lookup", !.inv = i]
  <2>1. t \in VisitorTx /\ t.inv \in Invitation
    BY DEF NoVisitorTx, VisitorTx, VisitorPc
  <2> QED
    BY <1>1, <1>3, <2>1 DEF StartLookup
<1>4. ASSUME NEW k \in Grant, NEW op \in {"visit", "open"}, StartByGrant(v, k, op)
      PROVE  InvitationsInv'
  <2> DEFINE t == [pc |-> "marking", op |-> op, inv |-> grants[k].inv, grant |-> k]
  <2>1. grants[k].inv \in Invitation
    BY <1>4 DEF StartByGrant, GrantUsable, InvitationsInv, TypeOK, GrantRow
  <2>2. t \in VisitorTx /\ t.inv \in Invitation
    BY <2>1 DEF VisitorTx, VisitorPc
  <2> QED
    BY <1>1, <1>4, <2>2 DEF StartByGrant
<1> QED
  BY <1>2, <1>3, <1>4 DEF VisitorStarts

LEMMA MarkGrantUsedKeeps ==
    ASSUME InvitationsInv, NEW v \in Visitor, MarkGrantUsed(v) PROVE InvitationsInv'
  BY RefuseKeeps, VisitorAtKeeps DEF MarkGrantUsed, VisitorPc

LEMMA PublicDetailsKeeps ==
    ASSUME InvitationsInv, NEW v \in Visitor, PublicDetails(v) PROVE InvitationsInv'
  BY RefuseKeeps, VisitorAtKeeps DEF PublicDetails, VisitorPc

LEMMA StartUpdateKeeps ==
    ASSUME InvitationsInv, NEW v \in Visitor, StartUpdate(v) PROVE InvitationsInv'
  BY RefuseKeeps, VisitorAtKeeps DEF StartUpdate, VisitorPc
-----------------------------------------------------------------------------
LEMMA HostStepKeeps ==
    ASSUME InvitationsInv, NEW h \in Host, HostStep(h) PROVE InvitationsInv'
  BY CheckOtherKeeps, RevokeRowKeeps, CloseAndRevokeKeeps, CloseGrantsKeeps,
     ReadGuestKeeps, FindActiveKeeps, InsertKeeps DEF HostStep

LEMMA VisitorStepKeeps ==
    ASSUME InvitationsInv, NEW v \in Visitor, VisitorStep(v) PROVE InvitationsInv'
  BY MarkGrantUsedKeeps, PublicDetailsKeeps, StartUpdateKeeps, TrackKeeps,
     IssueGrantKeeps DEF VisitorStep

LEMMA InvitationsStep == InvitationsInv /\ [Next]_vars => InvitationsInv'
<1> SUFFICES ASSUME InvitationsInv, [Next]_vars PROVE InvitationsInv'
  OBVIOUS
<1>1. ASSUME NEW g \in Guest, Archive(g) \/ Restore(g) PROVE InvitationsInv'
  BY <1>1, GuestsKeep
<1>2. ASSUME NEW h \in Host, HostStarts(h) \/ HostStep(h) \/ HostFails(h)
      PROVE  InvitationsInv'
  BY <1>2, StartsKeep, HostStepKeeps, RollbackKeeps DEF HostFails
<1>3. ASSUME NEW v \in Visitor, VisitorStarts(v) \/ VisitorStep(v) \/ VisitorFails(v)
      PROVE  InvitationsInv'
  BY <1>3, VisitorStartsKeep, VisitorStepKeeps, RefuseKeeps DEF VisitorFails
<1>4. ASSUME NEW i \in Invitation, MarkSent(i) PROVE InvitationsInv'
  BY <1>4, MarkSentKeeps
<1>5. ASSUME NEW k \in Grant, AgeGrant(k) PROVE InvitationsInv'
  BY <1>5, AgeGrantKeeps
<1>6. CASE BreakDeadlock
  BY <1>6, RollbackKeeps, RefuseKeeps DEF BreakDeadlock
<1>7. CASE UNCHANGED vars
  BY <1>7, RowsUnchanged DEF vars, InvitationsInv, LocksInv, TypeOK, HostShape, HostHolds,
     RowLocks, VisitorShape, Active, Issued
<1> QED
  BY <1>1, <1>2, <1>3, <1>4, <1>5, <1>6, <1>7 DEF Next

LEMMA InvitationsInvHolds == Spec => []InvitationsInv
  BY InvitationsInit, InvitationsStep, PTL DEF Spec
-----------------------------------------------------------------------------
(* Tables and transactions hold only what their columns allow.             *)
THEOREM InvitationsTyped == Spec => []TypeOK
<1>1. InvitationsInv => TypeOK
  BY DEF InvitationsInv
<1> QED
  BY <1>1, InvitationsInvHolds, PTL

(* No interleaving of creations, regenerations and revocations leaves a    *)
(* guest with two working links.                                           *)
THEOREM OneLinkPerGuest == Spec => []OneActivePerGuest
<1>1. InvitationsInv => OneActivePerGuest
  BY DEF InvitationsInv, RowsInv
<1> QED
  BY <1>1, InvitationsInvHolds, PTL

(* A working link says OPENED exactly when an open was counted on it,      *)
(* whichever of the e-mail's SENT and the guest's open came first.         *)
THEOREM OpenedMeansCounted == Spec => []OpenedIffCounted
<1>1. InvitationsInv => OpenedIffCounted
  BY DEF InvitationsInv, RowsInv
<1> QED
  BY <1>1, InvitationsInvHolds, PTL

(* The activity log agrees with the rows after every commit.               *)
THEOREM AuditTrailMatches == Spec => []AuditMatchesRow
<1>1. InvitationsInv => AuditMatchesRow
  BY DEF InvitationsInv, RowsInv
<1> QED
  BY <1>1, InvitationsInvHolds, PTL

(* No step of any request changes a revoked invitation.                    *)
THEOREM RevokedStaysFrozen == Spec => RevokedIsTerminal
<1> DEFINE Frozen == \A i \in Issued : inv[i].revoked => inv'[i] = inv[i]
<1>1. ASSUME InvitationsInv, Next PROVE Frozen
  <2> SUFFICES ASSUME NEW i \in Issued, inv[i].revoked PROVE inv'[i] = inv[i]
    OBVIOUS
  <2>1. i \in Invitation /\ i \notin Active
    BY DEF Active, Issued
  <2>2. ASSUME NEW h \in Host, NEW closing \in SUBSET Grant,
               NEW new \in (Invitation \ Issued) \cup {None}, Commit(h, closing, new)
        PROVE  inv'[i] = inv[i]
    <3>1. CommitEffect(h, new)
      BY <1>1, <2>2, CommitRows
    <3>2. i # new /\ ~(host[h].revoking /\ i = host[h].inv)
      BY <1>1, <2>1, NoneIsNoRow DEF InvitationsInv, LocksInv, HostShape, HostHolds
    <3> QED
      BY <2>1, <3>1, <3>2 DEF CommitEffect
  <2>3. ASSUME NEW h \in Host, CloseAndRevoke(h) PROVE inv'[i] = inv[i]
    <3>1. OpenGrants(host[h].inv) \in SUBSET Grant /\ None \in (Invitation \ Issued) \cup {None}
      BY DEF OpenGrants
    <3> QED
      BY <2>2, <2>3, <3>1 DEF CloseAndRevoke
  <2>4. ASSUME NEW h \in Host, Insert(h) PROVE inv'[i] = inv[i]
    <3>1. host[h].closing \in SUBSET Grant
      BY <1>1 DEF InvitationsInv, TypeOK, HostTx
    <3> QED
      BY <2>2, <2>4, <3>1 DEF Insert, Rollback
  <2>5. ASSUME NEW h \in Host, HostStarts(h) \/ HostStep(h) \/ HostFails(h)
        PROVE  inv'[i] = inv[i]
    BY <2>3, <2>4, <2>5 DEF HostStarts, StartCreate, StartRegenerate, StartRevoke, HostStep,
       CheckOther, RevokeRow, CloseGrants, ReadGuest, FindActive, HostFails, Rollback, Continue
  <2>6. ASSUME NEW v \in Visitor, Track(v) PROVE inv'[i] = inv[i]
    BY <1>1, <2>1, <2>6 DEF Track, StillMatches, Refuse, InvitationsInv, TypeOK
  <2>7. ASSUME NEW v \in Visitor, VisitorStarts(v) \/ VisitorStep(v) \/ VisitorFails(v)
        PROVE  inv'[i] = inv[i]
    BY <2>6, <2>7 DEF VisitorStarts, StartByToken, StartLookup, StartByGrant, VisitorStep,
       MarkGrantUsed, PublicDetails, StartUpdate, IssueGrant, VisitorFails, VisitorAt, Refuse
  <2>8. ASSUME NEW j \in Invitation, MarkSent(j) PROVE inv'[i] = inv[i]
    BY <1>1, <2>1, <2>8 DEF MarkSent, MaySend, InvitationsInv, TypeOK
  <2> QED
    BY <1>1, <2>5, <2>7, <2>8
       DEF Next, Archive, Restore, AgeGrant, BreakDeadlock, Rollback, Refuse
<1>2. InvitationsInv /\ [Next]_vars => [Frozen]_vars
  BY <1>1
<1> QED
  BY <1>2, InvitationsInvHolds, PTL DEF Spec, RevokedIsTerminal
-----------------------------------------------------------------------------
(* Locks on grants                                                         *)

Using == {"reading", "tracking", "updating"}

(* Row locks exclude each other: what one transaction closes no other one  *)
(* has marked used.  A lookup under way names no grant.                    *)
GrantLocks ==
    /\ \A h \in Host : \A k \in host[h].closing : GrantHolders(k) = {}
    /\ \A v \in Visitor : visitor[v].pc = "issuing" => visitor[v].grant = None
    /\ GrantsStayWhileUsed

(* A grant in use is a locked one.                                         *)
LEMMA UsersHold ==
    ASSUME TypeOK, GrantLocks, NEW k \in Grant, GrantInUse(k)
    PROVE  GrantHolders(k) # {}
  BY InvitationsAssumption DEF TypeOK, VisitorTx, VisitorPc, GrantLocks, GrantInUse, GrantHolders

(* A step of one visitor that leaves it the grant it has, or a free one    *)
(* that works.                                                             *)
LEMMA VisitorUses ==
    ASSUME TypeOK, GrantLocks, NEW v \in Visitor, NEW t \in VisitorTx,
           t.pc = "issuing" => t.grant = None,
           t.pc \in Using /\ t.grant \in Grant =>
              \/ visitor[v].pc \in Using /\ visitor[v].grant = t.grant
              \/ /\ GrantClosers(t.grant) = {}
                 /\ grants[t.grant] # None /\ ~grants[t.grant].revoked,
           visitor' = [visitor EXCEPT ![v] = t],
           UNCHANGED <<grants, host>>
    PROVE  GrantLocks'
<1>1. visitor'[v] = t /\ \A w \in Visitor : w # v => visitor'[w] = visitor[w]
  BY DEF TypeOK
<1>2. ASSUME NEW h \in Host, NEW k \in host'[h].closing PROVE GrantHolders(k)' = {}
  <2>1. k \in host[h].closing /\ k \in Grant /\ GrantHolders(k) = {}
    BY <1>2 DEF GrantLocks, TypeOK, HostTx
  <2>2. h \in GrantClosers(k)
    BY <2>1 DEF GrantClosers
  <2>3. ~(t.pc \in Using /\ t.grant = k)
    BY <2>1, <2>2 DEF GrantHolders, Using
  <2> QED
    BY <1>1, <2>1, <2>3 DEF GrantHolders, Using
<1>3. ASSUME NEW w \in Visitor PROVE visitor'[w].pc = "issuing" => visitor'[w].grant = None
  BY <1>1 DEF GrantLocks
<1>4. ASSUME NEW k \in Grant, NEW w \in Visitor, visitor'[w].grant = k,
             visitor'[w].pc \notin {"idle", "marking"}
      PROVE  grants'[k] # None /\ ~grants'[k].revoked
  <2>1. CASE w # v
    BY <1>1, <1>4, <2>1 DEF GrantLocks, GrantsStayWhileUsed, GrantInUse
  <2>2. CASE w = v
    <3>1. t.grant = k /\ t.pc \in Using
      BY <1>1, <1>4, <2>2, InvitationsAssumption DEF VisitorTx, VisitorPc, Using
    <3>2. CASE visitor[v].pc \in Using /\ visitor[v].grant = k
      BY <3>2 DEF Using, GrantLocks, GrantsStayWhileUsed, GrantInUse
    <3> QED
      BY <3>1, <3>2
  <2> QED
    BY <2>1, <2>2
<1> QED
  BY <1>2, <1>3, <1>4 DEF GrantLocks, GrantsStayWhileUsed, GrantInUse

(* A step of one host request that closes only unlocked grants.            *)
LEMMA HostCloses ==
    ASSUME TypeOK, GrantLocks, NEW h \in Host, NEW t \in HostTx,
           \A k \in t.closing : GrantHolders(k) = {},
           host' = [host EXCEPT ![h] = t],
           \A k \in Grant : grants'[k] = grants[k] \/ GrantHolders(k) = {},
           UNCHANGED visitor
    PROVE  GrantLocks'
<1>1. host'[h] = t /\ \A q \in Host : q # h => host'[q] = host[q]
  BY DEF TypeOK
<1>2. ASSUME NEW q \in Host, NEW k \in host'[q].closing PROVE GrantHolders(k)' = {}
  <2>1. GrantHolders(k)' = GrantHolders(k)
    BY DEF GrantHolders
  <2> QED
    BY <1>1, <1>2, <2>1 DEF GrantLocks
<1>3. ASSUME NEW k \in Grant, GrantInUse(k)' PROVE grants'[k] # None /\ ~grants'[k].revoked
  <2>1. GrantInUse(k)
    BY <1>3 DEF GrantInUse
  <2>2. grants'[k] = grants[k]
    BY <2>1, UsersHold
  <2> QED
    BY <2>1, <2>2 DEF GrantLocks, GrantsStayWhileUsed
<1> QED
  BY <1>2, <1>3 DEF GrantLocks, GrantsStayWhileUsed

(* What a host request may close it has found free.                        *)
LEMMA CommitCloses ==
    ASSUME TypeOK, GrantLocks, NEW h \in Host, NEW closing \in SUBSET Grant,
           \A k \in closing : GrantHolders(k) = {}, NEW new, Commit(h, closing, new)
    PROVE  GrantLocks'
<1>1. NoHostTx \in HostTx /\ NoHostTx.closing = {}
  BY NoTransactions DEF NoHostTx
<1>2. \A k \in Grant : grants'[k] = grants[k] \/ GrantHolders(k) = {}
  BY DEF Commit
<1> QED
  BY <1>1, <1>2, HostCloses DEF Commit

LEMMA HostStepLocks ==
    ASSUME TypeOK, GrantLocks, NEW h \in Host, HostStarts(h) \/ HostStep(h) \/ Rollback(h)
    PROVE  GrantLocks'
<1>1. host[h] \in HostTx /\ \A k \in host[h].closing : k \in Grant /\ GrantHolders(k) = {}
  BY DEF TypeOK, HostTx, GrantLocks
<1>2. \A k \in Grant : CanClose(h) /\ k \in OpenGrants(host[h].inv) => GrantHolders(k) = {}
  BY DEF CanClose, GrantFree
<1>3. OpenGrants(host[h].inv) \subseteq Grant
  BY DEF OpenGrants
<1>4. ASSUME CloseAndRevoke(h) PROVE GrantLocks'
  BY <1>2, <1>3, <1>4, CommitCloses DEF CloseAndRevoke
<1>5. ASSUME Rollback(h) PROVE GrantLocks'
  <2>1. NoHostTx \in HostTx /\ NoHostTx.closing = {}
    BY NoTransactions DEF NoHostTx
  <2> QED
    BY <1>5, <2>1, HostCloses DEF Rollback
<1>6. ASSUME Insert(h) PROVE GrantLocks'
  BY <1>1, <1>5, <1>6, CommitCloses DEF Insert
<1>7. ASSUME CloseGrants(h) PROVE GrantLocks'
  <2> DEFINE t == [host[h] EXCEPT !.pc = "guest", !.closing = OpenGrants(host[h].inv)]
  <2>1. t \in HostTx /\ t.closing = OpenGrants(host[h].inv)
    BY <1>1, <1>3 DEF HostTx, HostPc
  <2>2. host' = [host EXCEPT ![h] = t] /\ UNCHANGED <<grants, visitor>>
    BY <1>7 DEF CloseGrants
  <2>3. \A k \in t.closing : GrantHolders(k) = {}
    BY <1>2, <1>3, <1>7, <2>1 DEF CloseGrants
  <2> HIDE DEF t
  <2> QED
    BY <2>1, <2>2, <2>3, HostCloses
<1>8. ASSUME NEW pc \in HostPc, Continue(h, pc) PROVE GrantLocks'
  <2> DEFINE t == [host[h] EXCEPT !.pc = pc]
  <2>1. t \in HostTx /\ t.closing = host[h].closing
    BY <1>1 DEF HostTx
  <2>2. host' = [host EXCEPT ![h] = t] /\ UNCHANGED <<grants, visitor>>
    BY <1>8 DEF Continue
  <2> HIDE DEF t
  <2> QED
    BY <1>1, <2>1, <2>2, HostCloses
<1>9. ASSUME RevokeRow(h) PROVE GrantLocks'
  BY <1>9 DEF RevokeRow, GrantLocks, GrantHolders, GrantsStayWhileUsed, GrantInUse, TypeOK
<1>10. ASSUME NEW t, t.closing = {}, host' = [host EXCEPT ![h] = t],
              UNCHANGED <<grants, visitor>>
       PROVE  GrantLocks'
  BY <1>10 DEF GrantLocks, GrantHolders, GrantsStayWhileUsed, GrantInUse, TypeOK
<1>11. ASSUME NEW g \in Guest, StartCreate(h, g) PROVE GrantLocks'
  BY <1>10, <1>11 DEF StartCreate, NoHostTx
<1>12. ASSUME NEW i \in Invitation, StartRegenerate(h, i) PROVE GrantLocks'
  BY <1>10, <1>12 DEF StartRegenerate, NoHostTx
<1>13. ASSUME NEW i \in Invitation, StartRevoke(h, i) PROVE GrantLocks'
  <2> DEFINE t == [NoHostTx EXCEPT
                       !.pc = IF inv[i].revoked THEN "closing" ELSE "revoking",
                       !.op = "revoke", !.guest = inv[i].guest, !.inv = i,
                       !.seen = inv[i].revoked]
  <2>1. t.closing = {}
    BY DEF NoHostTx
  <2> QED
    BY <1>10, <1>13, <2>1 DEF StartRevoke
<1>14. HostStarts(h) => GrantLocks'
  BY <1>11, <1>12, <1>13 DEF HostStarts
<1> QED
  BY <1>4, <1>5, <1>6, <1>7, <1>8, <1>9, <1>14
     DEF HostStep, CheckOther, ReadGuest, FindActive, HostPc

LEMMA VisitorStepLocks ==
    ASSUME TypeOK, GrantLocks, NEW v \in Visitor,
           VisitorStarts(v) \/ VisitorStep(v) \/ Refuse(v)
    PROVE  GrantLocks'
<1>1. visitor[v] \in VisitorTx
  BY DEF TypeOK
<1>2. ASSUME NEW new, new = NoVisitorTx, visitor' = [visitor EXCEPT ![v] = new],
             UNCHANGED <<grants, host>>
      PROVE  GrantLocks'
  BY <1>2, NoTransactions, VisitorUses DEF Using
<1>3. ASSUME NEW pc \in Using, VisitorAt(v, pc),
             \/ visitor[v].pc \in Using
             \/ /\ visitor[v].grant \in Grant => GrantClosers(visitor[v].grant) = {}
                /\ grants[visitor[v].grant] # None /\ ~grants[visitor[v].grant].revoked
      PROVE  GrantLocks'
  <2> DEFINE t == [visitor[v] EXCEPT !.pc = pc]
  <2>1. t \in VisitorTx /\ t.pc = pc /\ t.grant = visitor[v].grant
    BY <1>1 DEF VisitorTx, VisitorPc, Using
  <2>2. visitor' = [visitor EXCEPT ![v] = t] /\ UNCHANGED <<grants, host>>
    BY <1>3 DEF VisitorAt
  <2> HIDE DEF t
  <2>3. t.pc # "issuing"
    BY <2>1 DEF Using
  <2> QED
    BY <1>3, <2>1, <2>2, <2>3, VisitorUses
<1>4. ASSUME MarkGrantUsed(v) PROVE GrantLocks'
  BY <1>2, <1>3, <1>4 DEF MarkGrantUsed, Refuse, GrantFree, Using
<1>5. ASSUME PublicDetails(v) \/ StartUpdate(v) PROVE GrantLocks'
  BY <1>2, <1>3, <1>5 DEF PublicDetails, StartUpdate, Refuse, Using
<1>6. ASSUME Track(v) \/ Refuse(v) PROVE GrantLocks'
  BY <1>2, <1>6 DEF Track, Refuse
<1>7. ASSUME IssueGrant(v) PROVE GrantLocks'
  <2>1. visitor'[v] = NoVisitorTx /\ \A w \in Visitor : w # v => visitor'[w] = visitor[w]
    BY <1>7 DEF IssueGrant, TypeOK
  <2>2. \A k : GrantHolders(k)' \subseteq GrantHolders(k)
    BY <2>1, NoTransactions DEF GrantHolders
  <2>3. ASSUME NEW k \in Grant, GrantInUse(k)' PROVE grants'[k] # None /\ ~grants'[k].revoked
    <3>1. GrantInUse(k)
      BY <2>1, <2>3, NoTransactions DEF GrantInUse
    <3>2. GrantHolders(k) # {} /\ grants[k] # None /\ ~grants[k].revoked
      BY <3>1, UsersHold DEF GrantLocks, GrantsStayWhileUsed
    <3>3. k \notin Purgeable /\ k \notin FreshGrants
      BY <1>7, <3>2 DEF IssueGrant, GrantFree, FreshGrants
    <3> QED
      BY <1>7, <3>2, <3>3 DEF IssueGrant
  <2>4. \A h \in Host : \A k \in host'[h].closing : GrantHolders(k)' = {}
    BY <1>7, <2>2 DEF IssueGrant, GrantLocks
  <2>5. \A w \in Visitor : visitor'[w].pc = "issuing" => visitor'[w].grant = None
    BY <2>1, NoTransactions DEF GrantLocks
  <2> QED
    BY <2>3, <2>4, <2>5 DEF GrantLocks, GrantsStayWhileUsed
<1>8. ASSUME NEW t \in VisitorTx, t.pc \in Using \cup {"marking", "issuing"},
             t.grant # None => t.pc = "marking",
             visitor' = [visitor EXCEPT ![v] = t], UNCHANGED <<grants, host>>
      PROVE  GrantLocks'
  BY <1>8, VisitorUses, InvitationsAssumption DEF Using
<1>9. ASSUME VisitorStarts(v) PROVE GrantLocks'
  <2>1. ASSUME NEW i \in Invitation, NEW op \in {"visit", "open"}, StartByToken(v, i, op)
        PROVE  GrantLocks'
    <3> DEFINE t == [NoVisitorTx EXCEPT !.pc = IF op = "visit" THEN "reading" ELSE "tracking",
                                        !.op = op, !.inv = i]
    <3>1. t \in VisitorTx /\ t.grant = None /\ t.pc \in Using
      BY <2>1 DEF NoVisitorTx, VisitorTx, VisitorPc, Using
    <3> QED
      BY <1>8, <2>1, <3>1 DEF StartByToken
  <2>2. ASSUME NEW i \in Invitation, StartLookup(v, i) PROVE GrantLocks'
    <3> DEFINE t == [NoVisitorTx EXCEPT !.pc = "issuing", !.op = "lookup", !.inv = i]
    <3>1. t \in VisitorTx /\ t.grant = None /\ t.pc = "issuing"
      BY DEF NoVisitorTx, VisitorTx, VisitorPc
    <3> QED
      BY <1>8, <2>2, <3>1 DEF StartLookup
  <2>3. ASSUME NEW k \in Grant, NEW op \in {"visit", "open"}, StartByGrant(v, k, op)
        PROVE  GrantLocks'
    <3> DEFINE t == [pc |-> "marking", op |-> op, inv |-> grants[k].inv, grant |-> k]
    <3>1. grants[k].inv \in Invitation
      BY <2>3 DEF StartByGrant, GrantUsable, TypeOK, GrantRow
    <3>2. t \in VisitorTx /\ t.pc = "marking"
      BY <3>1 DEF VisitorTx, VisitorPc
    <3> QED
      BY <1>8, <2>3, <3>2 DEF StartByGrant
  <2> QED
    BY <1>9, <2>1, <2>2, <2>3 DEF VisitorStarts
<1> QED
  BY <1>4, <1>5, <1>6, <1>7, <1>9 DEF VisitorStep

LEMMA GrantLocksStep == TypeOK /\ GrantLocks /\ [Next]_vars => GrantLocks'
<1> SUFFICES ASSUME TypeOK, GrantLocks, [Next]_vars PROVE GrantLocks'
  OBVIOUS
<1>1. ASSUME UNCHANGED <<host, visitor>>,
             \A k \in Grant : grants[k] # None /\ ~grants[k].revoked
                                 => grants'[k] # None /\ ~grants'[k].revoked
      PROVE  GrantLocks'
  BY <1>1 DEF GrantLocks, GrantHolders, GrantsStayWhileUsed, GrantInUse
<1>2. ASSUME NEW k \in Grant, AgeGrant(k) PROVE GrantLocks'
  <2>1. \A j \in Grant : j # k => grants'[j] = grants[j]
    BY <1>2 DEF AgeGrant, TypeOK
  <2>2. grants[k] \in GrantRow
    BY <1>2 DEF AgeGrant, TypeOK
  <2>3. grants'[k] \in GrantRow /\ grants'[k].revoked = grants[k].revoked
    BY <1>2, <2>2 DEF AgeGrant, TypeOK, GrantRow, Age
  <2>4. grants'[k] # None
    BY <2>3, NoneIsNoGrant
  <2> QED
    BY <1>1, <1>2, <2>1, <2>3, <2>4 DEF AgeGrant
<1>3. ASSUME UNCHANGED <<grants, host, visitor>> PROVE GrantLocks'
  BY <1>1, <1>3
<1> QED
  BY <1>2, <1>3, HostStepLocks, VisitorStepLocks
     DEF Next, Archive, Restore, MarkSent, HostFails, VisitorFails, BreakDeadlock, vars

(* A grant that a request has marked used is neither revoked nor purged    *)
(* until the request is done.                                              *)
THEOREM GrantsStayUsed == Spec => []GrantsStayWhileUsed
<1>1. Init => GrantLocks
  BY DEF Init, NoHostTx, NoVisitorTx, GrantLocks, GrantsStayWhileUsed, GrantInUse
<1>2. GrantLocks => GrantsStayWhileUsed
  BY DEF GrantLocks
<1> QED
  BY <1>1, <1>2, InvitationsTyped, GrantLocksStep, PTL DEF Spec
-----------------------------------------------------------------------------
(* Regenerations                                                           *)

(* A regenerate request that changes any invitation leaves its guest with  *)
(* a new working link: whatever fails before the INSERT rolls back, and    *)
(* the revocation is visible only together with the new row.               *)
THEOREM RegenerationsAreAtomic == Spec => RotationIsAtomic
<1> DEFINE Atomic == \A h \in Host :
               (host[h].op = "regenerate" /\ host'[h].op = "none" /\ inv' # inv)
                   => \E i \in Invitation \ Issued : inv'[i] = NewRow(host[h].guest)
<1>1. ASSUME InvitationsInv, Next PROVE Atomic
  <2> SUFFICES ASSUME NEW h \in Host, host[h].op = "regenerate",
                      host'[h].op = "none", inv' # inv
               PROVE  \E i \in Invitation \ Issued : inv'[i] = NewRow(host[h].guest)
    OBVIOUS
  <2>1. host \in [Host -> HostTx] /\ host' # host
    BY <1>1 DEF InvitationsInv, TypeOK
  <2>2. PICK q \in Host : HostStep(q)
    BY <1>1, <2>1 DEF Next, Archive, Restore, HostStarts, StartCreate, StartRegenerate,
       StartRevoke, HostFails, VisitorStarts, StartByToken, StartByGrant, StartLookup,
       VisitorStep, MarkGrantUsed, PublicDetails, StartUpdate, Track, IssueGrant,
       VisitorFails, VisitorAt, Refuse, MarkSent, AgeGrant, BreakDeadlock, Rollback
  <2>3. CloseAndRevoke(q) \/ Insert(q)
    BY <2>2 DEF HostStep, CheckOther, RevokeRow, CloseGrants, ReadGuest, FindActive,
       Rollback, Continue
  <2>4. q = h
    BY <2>1, <2>3 DEF CloseAndRevoke, Insert, Commit, Rollback
  <2>5. Insert(h)
    BY <2>3, <2>4 DEF CloseAndRevoke
  <2>6. PICK i \in Invitation \ Issued : Commit(h, host[h].closing, i)
    BY <2>5 DEF Insert, Rollback
  <2>7. host[h].closing \in SUBSET Grant
    BY <2>1 DEF HostTx
  <2>8. CommitEffect(h, i)
    BY <1>1, <2>6, <2>7, CommitRows
  <2>9. inv'[i] = NewRow(host[h].guest)
    BY <2>8 DEF CommitEffect
  <2> QED
    BY <2>9
<1>2. InvitationsInv /\ [Next]_vars => [Atomic]_vars
  BY <1>1
<1> QED
  BY <1>2, InvitationsInvHolds, PTL DEF Spec, RotationIsAtomic
-----------------------------------------------------------------------------
(* What a step does to the rows: nothing, an UPDATE of a working one, or   *)
(* the COMMIT of a host transaction.                                       *)

RowUpdated == \E i \in Active, row \in Row :
    /\ inv' = [inv EXCEPT ![i] = row]
    /\ ~row.revoked /\ row.guest = inv[i].guest
    /\ \/ row.status = inv[i].status
       \/ inv[i].status = "READY" /\ row.status = "SENT"
       \/ inv[i].status \in {"READY", "SENT"} /\ row.status = "OPENED"

HostCommits == \E h \in Host, closing \in SUBSET Grant,
                  new \in (Invitation \ Issued) \cup {None} :
    /\ host[h].pc # "idle"
    /\ new # None => SeenActive(h, host[h].guest) = {}
    /\ Commit(h, closing, new)

LEMMA StepsOnRows ==
    ASSUME InvitationsInv, [Next]_vars
    PROVE  UNCHANGED inv \/ RowUpdated \/ HostCommits
<1>1. ASSUME NEW h \in Host, CloseAndRevoke(h) PROVE HostCommits
  <2>1. OpenGrants(host[h].inv) \in SUBSET Grant /\ None \in (Invitation \ Issued) \cup {None}
    BY DEF OpenGrants
  <2> QED
    BY <1>1, <2>1 DEF CloseAndRevoke, HostCommits
<1>2. ASSUME NEW h \in Host, Insert(h) PROVE UNCHANGED inv \/ HostCommits
  <2>1. host[h].closing \in SUBSET Grant
    BY DEF InvitationsInv, TypeOK, HostTx
  <2>2. CASE IndexFree(h)
    <3>1. PICK i \in Invitation \ Issued : Commit(h, host[h].closing, i)
      BY <1>2, <2>2 DEF Insert
    <3>2. host[h].pc # "idle" /\ SeenActive(h, host[h].guest) = {}
      BY <1>2, <2>2 DEF Insert, IndexFree
    <3> QED
      BY <2>1, <3>1, <3>2 DEF HostCommits
  <2>3. CASE ~IndexFree(h)
    BY <1>2, <2>3 DEF Insert, Rollback
  <2> QED
    BY <2>2, <2>3
<1>3. ASSUME NEW i \in Invitation, MarkSent(i) PROVE RowUpdated
  <2>1. i \in Active /\ inv[i] \in Row
    BY <1>3, NoneIsNoRow DEF MarkSent, MaySend, Active, Issued, InvitationsInv, TypeOK
  <2>2. /\ SentRow(inv[i]) \in Row /\ ~SentRow(inv[i]).revoked
        /\ SentRow(inv[i]).guest = inv[i].guest /\ SentRow(inv[i]).status = "SENT"
    BY <2>1, <1>3 DEF MarkSent, MaySend, SentRow, Row, Status
  <2> QED
    BY <1>3, <2>1, <2>2 DEF MarkSent, MaySend, RowUpdated
<1>4. ASSUME NEW v \in Visitor, Track(v) PROVE UNCHANGED inv \/ RowUpdated
  <2> DEFINE i == visitor[v].inv
             row == IF visitor[v].op = "open" THEN OpenedRow(inv[i]) ELSE VisitedRow(inv[i])
  <2>1. CASE ~StillMatches(i)
    BY <1>4, <2>1 DEF Track, Refuse
  <2>2. CASE StillMatches(i)
    <3>1. i \in Active /\ inv' = [inv EXCEPT ![i] = row]
      BY <1>4, <2>2 DEF Track, StillMatches
    <3>2. inv[i] \in Row /\ ~inv[i].revoked
      BY <3>1 DEF Active, Issued, InvitationsInv, TypeOK
    <3>3. /\ row \in Row /\ ~row.revoked /\ row.guest = inv[i].guest
          /\ row.status = "OPENED" \/ row.status = inv[i].status
      BY <3>2, OpenedRows DEF VisitedRow, Row
    <3>4. inv[i].status \in {"READY", "SENT", "OPENED"}
      BY <3>2 DEF Row, Status
    <3> HIDE DEF row, i
    <3> QED
      BY <3>1, <3>3, <3>4 DEF RowUpdated
  <2> QED
    BY <2>1, <2>2
<1>5. ASSUME NEW h \in Host, HostStarts(h) \/ HostStep(h) \/ HostFails(h)
      PROVE  UNCHANGED inv \/ HostCommits
  BY <1>1, <1>2, <1>5 DEF HostStarts, StartCreate, StartRegenerate, StartRevoke, HostStep,
     CheckOther, RevokeRow, CloseGrants, ReadGuest, FindActive, HostFails, Rollback, Continue
<1>6. ASSUME NEW v \in Visitor, VisitorStarts(v) \/ VisitorStep(v) \/ VisitorFails(v)
      PROVE  UNCHANGED inv \/ RowUpdated
  BY <1>4, <1>6 DEF VisitorStarts, StartByToken, StartLookup, StartByGrant, VisitorStep,
     MarkGrantUsed, PublicDetails, StartUpdate, IssueGrant, VisitorFails, VisitorAt, Refuse
<1>7. CASE UNCHANGED vars
  BY <1>7 DEF vars
<1> QED
  BY <1>3, <1>5, <1>6, <1>7 DEF Next, Archive, Restore, AgeGrant, BreakDeadlock, Rollback, Refuse

(* A host transaction that names an invitation writes for its guest.       *)
OwnGuest == \A h \in Host : host[h].inv # None =>
                /\ host[h].inv \in Issued
                /\ inv[host[h].inv].guest = host[h].guest

(* A row stays, and stays its guest's.                                     *)
LEMMA GuestsStay ==
    ASSUME InvitationsInv, [Next]_vars, NEW i \in Issued
    PROVE  i \in Issued' /\ inv'[i].guest = inv[i].guest
<1>1. /\ i \in Invitation /\ inv[i] \in Row /\ None \notin Row /\ i # None
      /\ inv \in [Invitation -> Row \cup {None}]
  BY NoneIsNoRow DEF Issued, InvitationsInv, TypeOK
<1>2. CASE UNCHANGED inv
  BY <1>1, <1>2 DEF Issued
<1>3. CASE RowUpdated
  <2>1. PICK j \in Active, row \in Row :
           inv' = [inv EXCEPT ![j] = row] /\ row.guest = inv[j].guest
    BY <1>3 DEF RowUpdated
  <2>2. inv'[i] = IF i = j THEN row ELSE inv[i]
    BY <1>1, <2>1
  <2>3. inv'[i] # None /\ inv'[i].guest = inv[i].guest
    BY <1>1, <2>1, <2>2
  <2> QED
    BY <1>1, <2>3 DEF Issued
<1>4. CASE HostCommits
  <2>1. PICK h \in Host, closing \in SUBSET Grant, new \in (Invitation \ Issued) \cup {None} :
           Commit(h, closing, new)
    BY <1>4 DEF HostCommits
  <2>2. CommitEffect(h, new)
    BY <2>1, CommitRows
  <2>3. /\ RevokedRow(inv[i]) \in Row /\ RevokedRow(inv[i]).guest = inv[i].guest
        /\ i # new
    BY <1>1, RowUpdates
  <2>4. inv'[i] = inv[i] \/ inv'[i] = RevokedRow(inv[i])
    BY <1>1, <2>2, <2>3 DEF CommitEffect
  <2>5. inv'[i] # None /\ inv'[i].guest = inv[i].guest
    BY <1>1, <2>3, <2>4
  <2> QED
    BY <1>1, <2>5 DEF Issued
<1> QED
  BY <1>2, <1>3, <1>4, StepsOnRows

LEMMA HostNames ==
    ASSUME InvitationsInv, [Next]_vars, NEW q \in Host
    PROVE  \/ host'[q].inv = host[q].inv /\ host'[q].guest = host[q].guest
           \/ host'[q].inv = None
           \/ host'[q].inv \in Issued /\ host'[q].guest = inv[host'[q].inv].guest
<1> DEFINE Named == \/ host'[q].inv = host[q].inv /\ host'[q].guest = host[q].guest
                    \/ host'[q].inv = None
                    \/ host'[q].inv \in Issued /\ host'[q].guest = inv[host'[q].inv].guest
<1>1. host \in [Host -> HostTx]
  BY DEF InvitationsInv, TypeOK
<1>2. ASSUME NEW h \in Host, host' = [host EXCEPT ![h] = NoHostTx] PROVE Named
  BY <1>1, <1>2 DEF NoHostTx
<1>3. ASSUME NEW h \in Host, HostStarts(h) PROVE Named
  <2>1. CASE h # q
    <3>1. host'[q] = host[q]
      BY <1>1, <1>3, <2>1 DEF HostStarts, StartCreate, StartRegenerate, StartRevoke
    <3> QED
      BY <3>1
  <2>2. CASE h = q
    <3>1. ASSUME NEW g \in Guest, StartCreate(h, g) PROVE host'[h].inv = None
      BY <1>1, <3>1 DEF StartCreate, NoHostTx
    <3>2. ASSUME NEW i \in Invitation, StartRegenerate(h, i) \/ StartRevoke(h, i)
          PROVE  i \in Issued /\ host'[h].inv = i /\ host'[h].guest = inv[i].guest
      BY <1>1, <3>2 DEF StartRegenerate, StartRevoke, NoHostTx
    <3> QED
      BY <1>3, <2>2, <3>1, <3>2 DEF HostStarts
  <2> QED
    BY <2>1, <2>2
<1>4. ASSUME NEW h \in Host, NEW pc, Continue(h, pc) PROVE Named
  BY <1>1, <1>4 DEF Continue, HostTx
<1>5. ASSUME NEW h \in Host, RevokeRow(h) \/ CloseGrants(h) PROVE Named
  <2>1. CASE h # q
    BY <1>1, <1>5, <2>1 DEF RevokeRow, CloseGrants
  <2>2. CASE h = q
    BY <1>1, <1>5, <2>2 DEF RevokeRow, CloseGrants, HostTx
  <2> QED
    BY <2>1, <2>2
<1>6. ASSUME NEW h \in Host, HostStep(h) PROVE Named
  BY <1>2, <1>4, <1>5, <1>6 DEF HostStep, CheckOther, CloseAndRevoke, ReadGuest, FindActive,
     Insert, Commit, Rollback
<1>7. ASSUME UNCHANGED host PROVE Named
  BY <1>7
<1>8. ASSUME NEW v \in Visitor, VisitorStarts(v) \/ VisitorStep(v) \/ VisitorFails(v)
      PROVE  UNCHANGED host
  BY <1>8 DEF VisitorStarts, StartByToken, StartByGrant, StartLookup, VisitorStep,
     MarkGrantUsed, PublicDetails, StartUpdate, Track, IssueGrant, VisitorFails, VisitorAt, Refuse
<1> HIDE DEF Named
<1>9. ASSUME NEW h \in Host, HostStarts(h) \/ HostStep(h) \/ HostFails(h) PROVE Named
  BY <1>2, <1>3, <1>6, <1>9 DEF HostFails, Rollback
<1>10. ASSUME BreakDeadlock PROVE Named
  <2>1. PICK h \in Host, v \in Visitor : Rollback(h) \/ Refuse(v)
    BY <1>10 DEF BreakDeadlock
  <2> QED
    BY <1>2, <1>7, <2>1 DEF Rollback, Refuse
<1>11. ASSUME \/ \E g \in Guest : Archive(g) \/ Restore(g)
              \/ \E i \in Invitation : MarkSent(i)
              \/ \E k \in Grant : AgeGrant(k)
              \/ UNCHANGED vars
       PROVE  UNCHANGED host
  BY <1>11 DEF Archive, Restore, MarkSent, AgeGrant, vars
<1>12. ASSUME UNCHANGED vars PROVE Named
  BY <1>7, <1>11, <1>12
<1>13. ASSUME Next PROVE Named
  BY <1>7, <1>8, <1>9, <1>10, <1>11, <1>13 DEF Next
<1>14. Named
  BY <1>12, <1>13
<1> QED
  BY <1>14 DEF Named

LEMMA OwnGuestStep == InvitationsInv /\ OwnGuest /\ [Next]_vars => OwnGuest'
<1> SUFFICES ASSUME InvitationsInv, OwnGuest, [Next]_vars,
                    NEW h \in Host, host'[h].inv # None
             PROVE  /\ host'[h].inv \in Issued'
                    /\ inv'[host'[h].inv].guest = host'[h].guest
  BY DEF OwnGuest
<1>1. host'[h].inv \in Issued /\ host'[h].guest = inv[host'[h].inv].guest
  BY HostNames DEF OwnGuest
<1> QED
  BY <1>1, GuestsStay

LEMMA OwnGuestHolds == Spec => []OwnGuest
<1>1. Init => OwnGuest
  BY DEF Init, OwnGuest, NoHostTx
<1> QED
  BY <1>1, OwnGuestStep, InvitationsInvHolds, PTL DEF Spec
-----------------------------------------------------------------------------
(* Links and states, as LinkLifecycle sees the rows                        *)

LEMMA LinkIsActive ==
    ASSUME OneActivePerGuest, NEW g \in Guest
    PROVE  /\ ActiveOf(g) = {} => LinkOf(g) = None
           /\ \A i \in ActiveOf(g) : LinkOf(g) = i
  BY DEF OneActivePerGuest, ActiveOf, LinkOf

LEMMA LinkIsActiveNext ==
    ASSUME OneActivePerGuest', NEW g \in Guest
    PROVE  /\ ActiveOf(g)' = {} => LinkOf(g)' = None
           /\ \A i \in ActiveOf(g)' : LinkOf(g)' = i
  BY DEF OneActivePerGuest, ActiveOf, LinkOf

(* Links follow from which invitations work and whose they are.            *)
LEMMA LinksFollow ==
    ASSUME OneActivePerGuest, OneActivePerGuest', NEW g \in Guest,
           \A i : i \in ActiveOf(g)' <=> i \in ActiveOf(g)
    PROVE  LinkOf(g)' = LinkOf(g)
<1>1. CASE ActiveOf(g) = {}
  <2>1. ActiveOf(g)' = {}
    BY <1>1
  <2> QED
    BY <1>1, <2>1, LinkIsActive, LinkIsActiveNext
<1>2. ASSUME NEW i \in ActiveOf(g) PROVE LinkOf(g)' = LinkOf(g)
  <2>1. i \in ActiveOf(g)'
    BY <1>2
  <2> QED
    BY <1>2, <2>1, LinkIsActive, LinkIsActiveNext
<1> QED
  BY <1>1, <1>2

(* An UPDATE of a working row: sent, opened, or only counted.              *)
LEMMA UpdateIsLifecycle ==
    ASSUME InvitationsInv, InvitationsInv', RowUpdated
    PROVE  [Lifecycle!LinkNext]_(Lifecycle!linkVars)
<1>1. PICK i \in Active, row \in Row :
        /\ inv' = [inv EXCEPT ![i] = row]
        /\ ~row.revoked /\ row.guest = inv[i].guest
        /\ \/ row.status = inv[i].status
           \/ inv[i].status = "READY" /\ row.status = "SENT"
           \/ inv[i].status \in {"READY", "SENT"} /\ row.status = "OPENED"
  BY DEF RowUpdated
<1>2. /\ i \in Invitation /\ inv[i] \in Row /\ ~inv[i].revoked
      /\ None \notin Row /\ None \notin Invitation
      /\ inv \in [Invitation -> Row \cup {None}]
      /\ OneActivePerGuest /\ OneActivePerGuest'
  BY NoneIsNoRow DEF Active, Issued, InvitationsInv, TypeOK, RowsInv
<1>3. inv'[i] = row /\ \A j \in Invitation : j # i => inv'[j] = inv[j]
  BY <1>1, <1>2
<1>4. \A g \in Guest : \A j : j \in ActiveOf(g)' <=> j \in ActiveOf(g)
  BY <1>1, <1>2, <1>3 DEF ActiveOf, Active, Issued
<1>5. \A g \in Guest : LinkOf(g)' = LinkOf(g)
  BY <1>2, <1>4, LinksFollow
<1>6. [g \in Guest |-> LinkOf(g)]' = [g \in Guest |-> LinkOf(g)]
  BY <1>5
<1>7. /\ StateOf(i) = inv[i].status /\ StateOf(i)' = row.status
      /\ \A j \in Invitation : j # i => StateOf(j)' = StateOf(j)
  BY <1>2, <1>3 DEF StateOf
<1>8. [j \in Invitation |-> StateOf(j)]'
         = [[j \in Invitation |-> StateOf(j)] EXCEPT ![i] = row.status]
  BY <1>2, <1>7
<1> DEFINE g == inv[i].guest
<1>9. g \in Guest /\ LinkOf(g) = i
  BY <1>1, <1>2, LinkIsActive DEF ActiveOf, Row
<1>10. CASE row.status = inv[i].status
  <2>1. [j \in Invitation |-> StateOf(j)]' = [j \in Invitation |-> StateOf(j)]
    BY <1>7, <1>10
  <2> QED
    BY <1>6, <2>1 DEF Lifecycle!linkVars
<1>11. CASE inv[i].status = "READY" /\ row.status = "SENT"
  <2>1. Lifecycle!MarkSent(g)
    BY <1>2, <1>6, <1>7, <1>8, <1>9, <1>11 DEF Lifecycle!MarkSent
  <2> QED
    BY <1>9, <2>1 DEF Lifecycle!LinkNext
<1>12. CASE inv[i].status \in {"READY", "SENT"} /\ row.status = "OPENED"
  <2>1. Lifecycle!MarkOpened(g)
    BY <1>2, <1>6, <1>7, <1>8, <1>9, <1>12 DEF Lifecycle!MarkOpened
  <2> QED
    BY <1>9, <2>1 DEF Lifecycle!LinkNext
<1> QED
  BY <1>1, <1>10, <1>11, <1>12

(* A COMMIT withdraws, issues or rotates, or leaves every row alone.       *)
LEMMA CommitIsLifecycle ==
    ASSUME InvitationsInv, InvitationsInv', OwnGuest, HostCommits
    PROVE  [Lifecycle!LinkNext]_(Lifecycle!linkVars)
<1>1. PICK h \in Host, closing \in SUBSET Grant, new \in (Invitation \ Issued) \cup {None} :
        /\ host[h].pc # "idle"
        /\ new # None => SeenActive(h, host[h].guest) = {}
        /\ Commit(h, closing, new)
  BY DEF HostCommits
<1>2. CommitEffect(h, new) /\ LinksAfter(h, new)
  BY <1>1, CommitRows, CommitActive
<1>3. host[h].guest \in Guest
  BY <1>1 DEF InvitationsInv, LocksInv, HostShape, HostHolds
<1>4. PICK t : t = host[h]
  OBVIOUS
<1>5. PICK g \in Guest : g = t.guest
  BY <1>3, <1>4
<1>6. /\ None \notin Row /\ None \notin Invitation /\ None \notin Guest
      /\ inv \in [Invitation -> Row \cup {None}]
      /\ inv' \in [Invitation -> Row \cup {None}]
      /\ OneActivePerGuest /\ OneActivePerGuest'
      /\ t.revoking => t.inv \in Active
  BY <1>1, <1>4, NoneIsNoRow DEF InvitationsInv, TypeOK, RowsInv, LocksInv, HostShape, HostHolds
<1>7. ASSUME t.revoking PROVE inv[t.inv].guest = g /\ t.inv \in Invitation /\ t.inv # new
  BY <1>6, <1>7, <1>4, <1>5 DEF OwnGuest, Active, Issued
<1>8. \A i \in Invitation :
        inv'[i] = IF i = new THEN NewRow(g)
                  ELSE IF t.revoking /\ i = t.inv THEN RevokedRow(inv[i])
                  ELSE inv[i]
  BY <1>2, <1>4, <1>5 DEF CommitEffect
<1>9. ASSUME t.revoking
      PROVE  /\ RevokedRow(inv[t.inv]) \in Row /\ RevokedRow(inv[t.inv]).revoked
             /\ RevokedRow(inv[t.inv]).status = "REVOKED"
  <2>1. inv[t.inv] \in Row
    BY <1>6, <1>9 DEF Active, Issued
  <2>2. RevokedRow(inv[t.inv]).status = "REVOKED"
    BY <2>1 DEF RevokedRow, Row
  <2> QED
    BY <2>1, <2>2, RowUpdates
<1>10. NewRow(g).status = "READY" /\ NewRow(g) # None /\ NewRow(g).guest = g /\ ~NewRow(g).revoked
  BY <1>6, RowUpdates
<1>11. \A i \in Invitation :
        StateOf(i)' = IF i = new THEN "READY"
                      ELSE IF t.revoking /\ i = t.inv THEN "REVOKED"
                      ELSE StateOf(i)
  BY <1>6, <1>8, <1>9, <1>10 DEF StateOf
<1>12. \A i : i \in Active' <=> \/ i = new /\ new # None
                                \/ i \in Active /\ ~(t.revoking /\ t.inv = i)
  BY <1>2, <1>6, <1>8, <1>10, <1>4 DEF LinksAfter, Active, Issued
<1>13. \A i \in Active' : inv'[i].guest = IF i = new THEN g ELSE inv[i].guest
  BY <1>2, <1>6, <1>8, <1>10, <1>12 DEF LinksAfter, Active, Issued
<1>14. ASSUME NEW f \in Guest, f # g PROVE LinkOf(f)' = LinkOf(f)
  <2>1. \A i : i \in ActiveOf(f)' <=> i \in ActiveOf(f)
    BY <1>6, <1>7, <1>12, <1>13, <1>14 DEF ActiveOf, Active, Issued
  <2> QED
    BY <1>6, <2>1, LinksFollow
<1>15. new # None => LinkOf(g)' = new
  <2> SUFFICES ASSUME new # None PROVE LinkOf(g)' = new
    OBVIOUS
  <2>1. new \in Invitation /\ inv'[new] = NewRow(g)
    BY <1>8
  <2>2. new \in Active' /\ inv'[new].guest = g
    BY <1>10, <2>1 DEF Active, Issued
  <2>3. new \in ActiveOf(g)'
    BY <2>2 DEF ActiveOf
  <2> QED
    BY <1>6, <2>3, LinkIsActiveNext
<1>16. ASSUME t.revoking PROVE LinkOf(g) = t.inv
  <2>1. t.inv \in ActiveOf(g)
    BY <1>6, <1>7, <1>16 DEF ActiveOf
  <2> QED
    BY <1>6, <2>1, LinkIsActive
<1>17. [f \in Guest |-> LinkOf(f)]' = [[f \in Guest |-> LinkOf(f)] EXCEPT ![g] = LinkOf(g)']
  BY <1>6, <1>14
<1>18. ASSUME new # None PROVE new \in Invitation /\ StateOf(new) = None
  BY <1>18 DEF StateOf, Issued
<1>19. CASE new = None /\ ~t.revoking
  <2>1. \A i : i \in ActiveOf(g)' <=> i \in ActiveOf(g)
    BY <1>6, <1>12, <1>13, <1>19 DEF ActiveOf, Active, Issued
  <2>2. LinkOf(g)' = LinkOf(g)
    BY <1>6, <2>1, LinksFollow
  <2>3. [f \in Guest |-> LinkOf(f)]' = [f \in Guest |-> LinkOf(f)]
    BY <1>14, <2>2
  <2>4. [i \in Invitation |-> StateOf(i)]' = [i \in Invitation |-> StateOf(i)]
    BY <1>6, <1>11, <1>19
  <2> QED
    BY <2>3, <2>4 DEF Lifecycle!linkVars
<1>20. CASE new = None /\ t.revoking
  <2>1. ActiveOf(g)' = {}
    BY <1>6, <1>12, <1>13, <1>16, <1>20, LinkIsActive DEF ActiveOf, Active, Issued
  <2>2. LinkOf(g)' = None
    BY <1>6, <2>1, LinkIsActiveNext
  <2>3. [i \in Invitation |-> StateOf(i)]'
           = [[i \in Invitation |-> StateOf(i)] EXCEPT ![LinkOf(g)] = "REVOKED"]
    BY <1>6, <1>7, <1>11, <1>16, <1>20
  <2>4. Lifecycle!Withdraw(g)
    BY <1>6, <1>7, <1>16, <1>17, <1>20, <2>2, <2>3 DEF Lifecycle!Withdraw
  <2> QED
    BY <1>6, <2>4 DEF Lifecycle!LinkNext
<1>21. CASE new # None /\ ~t.revoking
  <2>1. ActiveOf(g) = {}
    BY <1>1, <1>21, <1>4, <1>5 DEF SeenActive
  <2>2. LinkOf(g) = None
    BY <1>6, <2>1, LinkIsActive
  <2>3. [i \in Invitation |-> StateOf(i)]'
           = [[i \in Invitation |-> StateOf(i)] EXCEPT ![new] = "READY"]
    BY <1>11, <1>18, <1>21
  <2>4. Lifecycle!Issue(g, new)
    BY <1>6, <1>15, <1>17, <1>18, <1>21, <2>2, <2>3 DEF Lifecycle!Issue
  <2> QED
    BY <1>6, <1>18, <1>21, <2>4 DEF Lifecycle!LinkNext
<1>22. CASE new # None /\ t.revoking
  <2>1. [i \in Invitation |-> StateOf(i)]'
           = [[i \in Invitation |-> StateOf(i)] EXCEPT ![LinkOf(g)] = "REVOKED",
                                                        ![new] = "READY"]
    BY <1>7, <1>11, <1>16, <1>18, <1>22
  <2>2. Lifecycle!Rotate(g, new)
    BY <1>6, <1>7, <1>15, <1>16, <1>17, <1>18, <1>22, <2>1 DEF Lifecycle!Rotate
  <2> QED
    BY <1>6, <1>18, <1>22, <2>2 DEF Lifecycle!LinkNext
<1> QED
  BY <1>19, <1>20, <1>21, <1>22

(* Invitations implements LinkLifecycle: whatever the interleaving of      *)
(* requests and failures, the committed rows go through issue, rotation,   *)
(* withdrawal, sent and opened, each as one step of its guest's link.      *)
THEOREM InvitationsImplementLifecycle == Spec => LifecycleSpec
<1>1. Init => Lifecycle!LinkInit
  <2> SUFFICES ASSUME Init PROVE Lifecycle!LinkInit
    OBVIOUS
  <2>1. \A g \in Guest : LinkOf(g) = None
    BY DEF Init, LinkOf, ActiveOf, Active, Issued
  <2>2. \A i \in Invitation : StateOf(i) = None
    BY DEF Init, StateOf
  <2> QED
    BY <2>1, <2>2 DEF Lifecycle!LinkInit
<1>2. InvitationsInv /\ InvitationsInv' /\ OwnGuest /\ [Next]_vars
         => [Lifecycle!LinkNext]_(Lifecycle!linkVars)
  <2> SUFFICES ASSUME InvitationsInv, InvitationsInv', OwnGuest, [Next]_vars
               PROVE  [Lifecycle!LinkNext]_(Lifecycle!linkVars)
    OBVIOUS
  <2>1. CASE UNCHANGED inv
    BY <2>1 DEF Lifecycle!linkVars, LinkOf, ActiveOf, Active, Issued, StateOf
  <2> QED
    BY <2>1, StepsOnRows, UpdateIsLifecycle, CommitIsLifecycle
<1> QED
  BY <1>1, <1>2, InvitationsInvHolds, OwnGuestHolds, PTL
     DEF Spec, LifecycleSpec, Lifecycle!LinkSpec
=============================================================================
