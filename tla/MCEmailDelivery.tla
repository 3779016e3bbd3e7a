--------------------------- MODULE MCEmailDelivery ---------------------------
(* Small instances of EmailDelivery for TLC.                               *)
EXTENDS EmailDelivery, TLC

Interchangeable == Permutations(Guest) \cup Permutations(Invitation)
                       \cup Permutations(Sender) \cup Permutations(Key)

(* For the search of one long schedule: only send requests run.            *)
OnlySends == /\ \A g \in Guest : ~archived[g] /\ spent[g] >= Len(attempts)
             /\ \A i \in Issued : inv[i].opens = 0
             /\ Cardinality(Issued) = Len(attempts)
             /\ \A a \in Indices : ~attempts[a].stale
=============================================================================
