--------------------------- MODULE InvitationRows ---------------------------
(***************************************************************************)
(* The rows of the tables `invitations` and `invitation_access_grants`,    *)
(* and the single UPDATE statements the repositories run on them.  The     *)
(* modules about invitations, e-mail and RSVPs share these definitions.    *)
(***************************************************************************)
EXTENDS Naturals

CONSTANTS
    Guest,       \* guests of one event
    Invitation,  \* invitation identifiers; each stands for its own raw token
    None         \* SQL null

(* `invitation_status`.  The schema also lists DRAFT, which no code writes.*)
Status == {"READY", "SENT", "OPENED", "REVOKED"}

(* A row: the columns some property depends on.  `revoked` is              *)
(* `revoked_at IS NOT NULL`; the token hash is the identifier itself.  The *)
(* constraint is the table's invitations_revoked_state_check.              *)
Row == {row \in [guest : Guest, status : Status, revoked : BOOLEAN,
                 visits : Nat, opens : Nat] :
            (row.status = "REVOKED") = row.revoked}

ASSUME NoneIsNoRow == None \notin Guest /\ None \notin Invitation /\ None \notin Row

NewRow(g) == [guest |-> g, status |-> "READY", revoked |-> FALSE,
              visits |-> 0, opens |-> 0]

RevokedRow_KeepsStatus(row) == [row EXCEPT !.revoked = TRUE]
RevokedRow(row) == [row EXCEPT !.status = "REVOKED", !.revoked = TRUE]

SentRow(row) == [row EXCEPT !.status = "SENT"]

VisitedRow(row) == [row EXCEPT !.visits = @ + 1]

OpenedRow_FromReadyOnly(row) ==
    [row EXCEPT !.opens = @ + 1, !.status = IF @ = "READY" THEN "OPENED" ELSE @]
OpenedRow(row) ==
    [row EXCEPT !.opens = @ + 1,
                !.status = IF @ \in {"READY", "SENT"} THEN "OPENED" ELSE @]

(* The WHERE clause of markSent: a link that was opened or revoked while   *)
(* its e-mail was on the way keeps its status.                             *)
MaySend_IgnoresStatus(row) == ~row.revoked
MaySend(row) == row.status = "READY" /\ ~row.revoked
=============================================================================
