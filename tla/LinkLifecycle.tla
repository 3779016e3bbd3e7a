---------------------------- MODULE LinkLifecycle ----------------------------
(***************************************************************************)
(* What the invitation service promises about the private link of a guest, *)
(* without requests, transactions, locks or access grants: a guest has at  *)
(* most one working link; a rotation replaces it in one indivisible step;  *)
(* a link that stopped working never works again and never changes again;  *)
(* only a working link is marked sent or opened.                           *)
(***************************************************************************)
CONSTANTS Guest, Invitation, None

VARIABLES
    link,   \* link[g]: the invitation whose link works for g, or None
    state   \* state[i]: how far invitation i got, None before it is issued

linkVars == <<link, state>>

LinkInit == /\ link = [g \in Guest |-> None]
            /\ state = [i \in Invitation |-> None]

Issue(g, i) == /\ link[g] = None
               /\ state[i] = None
               /\ link' = [link EXCEPT ![g] = i]
               /\ state' = [state EXCEPT ![i] = "READY"]

Rotate(g, i) == /\ link[g] # None
                /\ state[i] = None
                /\ link' = [link EXCEPT ![g] = i]
                /\ state' = [state EXCEPT ![link[g]] = "REVOKED", ![i] = "READY"]

Withdraw(g) == /\ link[g] # None
               /\ link' = [link EXCEPT ![g] = None]
               /\ state' = [state EXCEPT ![link[g]] = "REVOKED"]

MarkSent(g) == /\ link[g] # None
               /\ state[link[g]] = "READY"
               /\ state' = [state EXCEPT ![link[g]] = "SENT"]
               /\ UNCHANGED link

MarkOpened(g) == /\ link[g] # None
                 /\ state[link[g]] \in {"READY", "SENT"}
                 /\ state' = [state EXCEPT ![link[g]] = "OPENED"]
                 /\ UNCHANGED link

LinkNext == \E g \in Guest :
                \/ \E i \in Invitation : Issue(g, i) \/ Rotate(g, i)
                \/ Withdraw(g) \/ MarkSent(g) \/ MarkOpened(g)

LinkSpec == LinkInit /\ [][LinkNext]_linkVars
=============================================================================
