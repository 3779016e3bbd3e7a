----------------------------- MODULE ResponseLog -----------------------------
(***************************************************************************)
(* What the RSVP service promises, without requests, transactions and      *)
(* locks: one current answer per invitation, which is the last entry of    *)
(* its history; entries are only added, one at a time, never twice the     *)
(* same in a row; only an accepted answer is cancelled, and an invitation  *)
(* that was revoked keeps its answers.                                     *)
(***************************************************************************)
EXTENDS Sequences, Naturals

CONSTANTS Invitation, Answer, Accepted, Cancelled

VARIABLES
    log,     \* log[i]: the answers given on invitation i, oldest first
    closed   \* closed[i]: invitation i was revoked

logVars == <<log, closed>>

LogInit == /\ log = [i \in Invitation |-> <<>>]
           /\ closed = [i \in Invitation |-> FALSE]

Newest(i) == log[i][Len(log[i])]

Add(i, a) == /\ ~closed[i]
             /\ log[i] # <<>> => a # Newest(i)
             /\ a \in Cancelled => log[i] # <<>> /\ Newest(i) \in Accepted
             /\ log' = [log EXCEPT ![i] = Append(@, a)]
             /\ UNCHANGED closed

Close(i) == /\ ~closed[i]
            /\ closed' = [closed EXCEPT ![i] = TRUE]
            /\ UNCHANGED log

LogNext == \E i \in Invitation :
               \/ Close(i)
               \/ \E a \in Answer : Add(i, a)

LogSpec == LogInit /\ [][LogNext]_logVars
=============================================================================
