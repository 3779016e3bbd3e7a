--------------------------- MODULE MCRsvpRequests ---------------------------
(* Small instances, side by side, of Rsvp and of the limiter that every    *)
(* RSVP and lookup request passes first.  The two share no state, so a     *)
(* behaviour steps one of them and leaves the other in its initial state.  *)
EXTENDS Rsvp, TLC

CONSTANTS Key, Maximum, Window, PruneFrom, MaxBuckets, MaxNow, MaxCalls
VARIABLES part, now, buckets, admitted, refused, forgotten

limiter == <<now, buckets, admitted, refused, forgotten>>
Limiter == INSTANCE WindowLimiter
ASSUME LimiterAssumed == Limiter!LimiterAssumption

PartsInit == /\ part \in {"rsvp", "limiter"}
             /\ part = "limiter" =>
                   party = CHOOSE p \in [Invitation -> Party] : TRUE
             /\ Init /\ Limiter!Init

PartsNext == /\ UNCHANGED part
             /\ \/ part = "rsvp" /\ Next /\ UNCHANGED limiter
                \/ part = "limiter" /\ Limiter!Next /\ UNCHANGED vars

PartsSpec == PartsInit /\ [][PartsNext]_<<part, vars, limiter>>

Interchangeable == Permutations(Invitation) \cup Permutations(Request)
                       \cup Permutations(Key)

(* The properties of the limiter, as stated in WindowLimiter.              *)
LimiterInv == part = "limiter" => Limiter!LimiterInv
NewestBucketKept == Limiter!NewestBucketKept
=============================================================================
