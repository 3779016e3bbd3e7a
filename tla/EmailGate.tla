----------------------------- MODULE EmailGate ------------------------------
(***************************************************************************)
(* EmailConcurrencyGate: every e-mail of the process, to guests or as a    *)
(* test, is handed to the provider through `run`, which lets at most Limit *)
(* operations proceed and queues at most MaxPending more.                  *)
(*                                                                         *)
(* One event loop runs everything, so an action is what happens between    *)
(* two awaits.  `run` checks `active` when it is called, but a caller that *)
(* waited increments it in a microtask after its promise was resolved.     *)
(* Callers come from I/O callbacks (a database answer, a request body),    *)
(* and microtasks are drained before the next callback: nobody calls `run` *)
(* while a resumed caller has not run yet.                                 *)
(***************************************************************************)
EXTENDS Naturals, Sequences, FiniteSets

CONSTANTS
    Caller,      \* e-mails in flight at once
    Limit,       \* EMAIL_SEND_CONCURRENCY
    MaxPending   \* 50 in the code

ASSUME GateAssumption == /\ IsFiniteSet(Caller)
                         /\ Limit \in Nat \ {0}
                         /\ MaxPending \in Nat

VARIABLES
    active,   \* this.active
    pending,  \* this.pending: the callers whose resolve functions it holds
    state     \* where each caller is in `run`

vars == <<active, pending, state>>

Init == /\ active = 0
        /\ pending = <<>>
        /\ state = [c \in Caller |-> "idle"]

In(s) == {c \in Caller : state[c] = s}

(* The pending microtasks go first.                                        *)
Drained == In("resumed") = {}

Full_OffByOne == active > Limit
Full == active >= Limit

(* `run` starts the operation in the same turn when a slot is free.        *)
Enter(c) == /\ state[c] = "idle" /\ Drained
            /\ ~Full
            /\ active' = active + 1
            /\ state' = [state EXCEPT ![c] = "running"]
            /\ UNCHANGED pending

(* With MaxPending callers waiting the next is turned away with a 503,     *)
(* which changes nothing.                                                  *)
QueueRoom == Len(pending) < MaxPending

Wait(c) == /\ state[c] = "idle" /\ Drained
           /\ Full /\ QueueRoom
           /\ pending' = Append(pending, c)
           /\ state' = [state EXCEPT ![c] = "waiting"]
           /\ UNCHANGED active

(* The continuation of the await: no second look at `active`.              *)
Resume(c) == /\ state[c] = "resumed"
             /\ active' = active + 1
             /\ state' = [state EXCEPT ![c] = "running"]
             /\ UNCHANGED pending

(* finally: free the slot and resolve the promise of the first in line.    *)
Finish_NoWake(c) == /\ state[c] = "running"
                    /\ active' = active - 1
                    /\ state' = [state EXCEPT ![c] = "idle"]
                    /\ UNCHANGED pending

Finish_WakesLast(c) ==
    /\ state[c] = "running"
    /\ active' = active - 1
    /\ IF pending = <<>>
       THEN /\ state' = [state EXCEPT ![c] = "idle"]
            /\ UNCHANGED pending
       ELSE /\ state' = [state EXCEPT ![c] = "idle", ![pending[Len(pending)]] = "resumed"]
            /\ pending' = SubSeq(pending, 1, Len(pending) - 1)

Finish(c) ==
    /\ state[c] = "running"
    /\ active' = active - 1
    /\ IF pending = <<>>
       THEN /\ state' = [state EXCEPT ![c] = "idle"]
            /\ UNCHANGED pending
       ELSE /\ state' = [state EXCEPT ![c] = "idle", ![Head(pending)] = "resumed"]
            /\ pending' = Tail(pending)

Next == \E c \in Caller : Enter(c) \/ Wait(c) \/ Resume(c) \/ Finish(c)

Spec == Init /\ [][Next]_vars

(* The event loop runs microtasks, and the provider's timeouts end every   *)
(* operation.                                                              *)
Fairness == \A c \in Caller : WF_vars(Resume(c)) /\ WF_vars(Finish(c))
FairSpec == Spec /\ Fairness
-----------------------------------------------------------------------------
(* Properties                                                              *)

(* Every variable holds what the gate can hold; the queue is bounded.      *)
TypeOK == /\ active \in Nat
          /\ pending \in Seq(Caller)
          /\ state \in [Caller -> {"idle", "waiting", "resumed", "running"}]
          /\ Len(pending) <= MaxPending

(* `active` is incremented a microtask after the slot was given away; all  *)
(* the same, never more than Limit operations run.                         *)
WithinLimit == Cardinality(In("running")) <= Limit

(* No wake-up is lost: while somebody waits, every slot is taken or given  *)
(* to a caller about to run.                                               *)
WaitersOnlyWhenFull ==
    pending # <<>> => active + Cardinality(In("resumed")) = Limit

(* Nobody who got into the queue is starved, whoever else keeps coming.    *)
EveryWaiterRuns == \A c \in Caller : state[c] = "waiting" ~> state[c] = "running"
=============================================================================
