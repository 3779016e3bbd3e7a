--------------------------- MODULE WindowLimiter ---------------------------
(***************************************************************************)
(* RsvpRateLimiter and InvitationLookupRateLimiter, which differ in their  *)
(* limits and in when they prune: fixed windows, one bucket per key, in a  *)
(* Map whose memory is bounded by dropping the buckets inserted first.     *)
(* `consume` is synchronous, so a call is one action.                      *)
(***************************************************************************)
EXTENDS Integers, Sequences, FiniteSets, Functions

CONSTANTS
    Key,         \* HMACs of address and credential
    Maximum,     \* maximumAttempts: 20 for RSVPs, 5 for lookups
    Window,      \* windowMilliseconds
    PruneFrom,   \* prune looks at maps of this size: 0 for RSVPs, 1000 for lookups
    MaxBuckets,  \* maximumBuckets
    MaxNow,      \* bound: the last instant
    MaxCalls     \* bound: calls of one key that are let through

LimiterAssumption ==
    /\ IsFiniteSet(Key)
    /\ Maximum \in Nat \ {0} /\ Window \in Nat \ {0}
    /\ MaxBuckets \in Nat \ {0} /\ PruneFrom \in 0..MaxBuckets
    /\ MaxNow \in Nat /\ MaxCalls \in Nat

VARIABLES
    now,       \* Date.now()
    buckets,   \* the Map, in insertion order
    admitted,  \* admitted[k]: when calls for k were let through (for properties)
    refused,   \* the key refused by the last call, or {} (for properties)
    forgotten  \* keys that lost a count to the memory bound (for properties)

vars == <<now, buckets, admitted, refused, forgotten>>

Bucket == [key : Key, startedAt : Nat, attempts : Nat]

Init == /\ now = 0
        /\ buckets = <<>>
        /\ admitted = [k \in Key |-> <<>>]
        /\ refused = {}
        /\ forgotten = {}
-----------------------------------------------------------------------------
Position(k) == {n \in 1..Len(buckets) : buckets[n].key = k}

Expired_OffByOne(b) == now - b.startedAt >= Window - 1
Expired(b) == now - b.startedAt >= Window

(* Map.set: a key that is present keeps its place.                         *)
NewBucket(k) == [key |-> k, startedAt |-> now, attempts |-> 1]
PutBucket(k) == IF Position(k) = {} THEN Append(buckets, NewBucket(k))
                ELSE [n \in 1..Len(buckets) |->
                         IF buckets[n].key = k THEN NewBucket(k) ELSE buckets[n]]

(* The keys whose window is not over.                                      *)
Counting == {b.key : b \in {c \in Range(buckets) : ~Expired(c)}}

(* prune: drop the expired buckets, then the first ones until the map      *)
(* fits; what is kept stays in order.  At most one result is possible.     *)
Keep(map, kept) ==
    \E at \in [1..Cardinality(kept) -> kept] :
        /\ \A i, j \in 1..Cardinality(kept) : i < j => at[i] < at[j]
        /\ buckets' = [i \in 1..Cardinality(kept) |-> map[at[i]]]
Prune_DropsLast(map) ==
    LET live == {n \in 1..Len(map) : ~Expired(map[n])} IN
    \E kept \in SUBSET live :
        /\ Cardinality(kept) = IF Cardinality(live) > MaxBuckets THEN MaxBuckets
                               ELSE Cardinality(live)
        /\ \A n \in live \ kept, m \in kept : m < n
        /\ Keep(map, kept)
Prune(map) ==
    \/ Len(map) < PruneFrom /\ buckets' = map
    \/ /\ Len(map) >= PruneFrom
       /\ LET live == {n \in 1..Len(map) : ~Expired(map[n])} IN
          \E kept \in SUBSET live :
              /\ Cardinality(kept) = IF Cardinality(live) > MaxBuckets THEN MaxBuckets
                                     ELSE Cardinality(live)
              /\ \A n \in live \ kept, m \in kept : n < m
              /\ Keep(map, kept)

Admit(k) == /\ Len(admitted[k]) < MaxCalls
            /\ admitted' = [admitted EXCEPT ![k] = Append(@, now)]
            /\ refused' = {}
            /\ UNCHANGED now

(* consume for a key without a bucket, or with one whose window is over    *)
StartsWindow(k) == \A n \in Position(k) : Expired(buckets[n])

StartWindow(k) == /\ StartsWindow(k)
                  /\ Prune(PutBucket(k))
                  /\ forgotten' = forgotten \cup (Counting \ {b.key : b \in Range(buckets')})
                  /\ Admit(k)

(* Bound: a bucket counts to Maximum + 1, the first refusal; counting on   *)
(* refuses the same.                                                       *)
CountAttempt(k) ==
    \E n \in Position(k) :
        /\ ~Expired(buckets[n])
        /\ buckets' = [buckets EXCEPT ![n].attempts = IF @ > Maximum THEN @ ELSE @ + 1]
        /\ IF buckets[n].attempts < Maximum
           THEN Admit(k)
           ELSE refused' = {k} /\ UNCHANGED <<now, admitted>>
        /\ UNCHANGED forgotten

Tick == /\ now < MaxNow
        /\ now' = now + 1
        /\ refused' = {}
        /\ UNCHANGED <<buckets, admitted, forgotten>>

Next == Tick \/ \E k \in Key : StartWindow(k) \/ CountAttempt(k)

Spec == Init /\ [][Next]_vars
-----------------------------------------------------------------------------
(* Properties                                                              *)

(* Every variable holds what it can hold, and no key has two buckets.      *)
TypeOK == /\ now \in 0..MaxNow
          /\ buckets \in Seq(Bucket)
          /\ \A m, n \in 1..Len(buckets) : buckets[m].key = buckets[n].key => m = n
          /\ admitted \in [Key -> Seq(0..MaxNow)]
          /\ refused \subseteq Key /\ forgotten \subseteq Key

AdmittedSince(k, t) == Cardinality({n \in 1..Len(admitted[k]) : admitted[k][n] > t})

(* Fixed windows let through bursts across a boundary, but never twice the *)
(* limit in any span as long as a window, unless the key's count was lost  *)
(* to the memory bound.                                                    *)
NeverTwiceTheLimit == \A k \in Key \ forgotten : AdmittedSince(k, now - Window) < 2 * Maximum

(* A call is only refused when the limit was used up within the last       *)
(* window: refused calls cost nothing later.                               *)
NoFalseRefusal == \A k \in refused : AdmittedSince(k, now - Window) >= Maximum

(* However many addresses call, the map is bounded.                        *)
MemoryIsBounded == Len(buckets) <= MaxBuckets

(* Dropping buckets for memory never drops the one of the call under way,  *)
(* though a key that comes back keeps its old place in the Map.            *)
NewestBucketKept ==
    [][\A k \in Key : Len(admitted'[k]) > Len(admitted[k]) =>
          \E n \in 1..Len(buckets') : buckets'[n].key = k]_vars

(* Fixed windows of bounded memory: bursts below twice the limit, no       *)
(* refusal without a used up limit, and a map that never exceeds its size. *)
LimiterInv == TypeOK /\ NeverTwiceTheLimit /\ NoFalseRefusal /\ MemoryIsBounded
=============================================================================
