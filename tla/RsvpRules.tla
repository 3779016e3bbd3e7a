----------------------------- MODULE RsvpRules ------------------------------
(***************************************************************************)
(* The rules of an answer: which parties and answers there are, what       *)
(* normalize makes of an input and when an operation is permitted.  Module *)
(* Rsvp runs them as transactions, module AnswerPanel asks for them from   *)
(* the guest's page.                                                       *)
(***************************************************************************)
EXTENDS Naturals

CONSTANTS
    Note,        \* dietary notes and guest messages, as one value
    MaxCount,    \* bound: people in a party or an answer
    None         \* SQL null, an absent field

ASSUME RulesAssumption ==
    MaxCount \in Nat /\ None \notin Nat /\ None \notin Note

Count == 0..MaxCount
Total == 0..(2 * MaxCount)
OptionalCount == Count \cup {None}
OptionalNote == Note \cup {None}

(* guests_invitation_count_consistency: a total alone, or adults and       *)
(* children with their sum.                                                *)
Party == [mode : {"TOTAL_ONLY"}, total : Count, adults : {None}, children : {None}]
         \cup {p \in [mode : {"ADULTS_AND_CHILDREN"}, total : Total,
                      adults : Count, children : Count] :
                  p.total = p.adults + p.children}

(* publicRsvpMutationObjectSchema: a guest cannot ask for CANCELLED.       *)
Input == [status : {"ACCEPTED", "DECLINED", "NOT_SURE"}, total : OptionalCount,
          adults : OptionalCount, children : OptionalCount, note : OptionalNote]

Status == {"ACCEPTED", "DECLINED", "NOT_SURE", "CANCELLED"}
Answer == [status : Status, total : Total \cup {None}, adults : OptionalCount,
           children : OptionalCount, note : OptionalNote]
-----------------------------------------------------------------------------
(* normalize                                                               *)

Cleared(status, note) == [status |-> status, total |-> None, adults |-> None,
                          children |-> None, note |-> note]

(* Attendance outside the party is INVALID_ATTENDANCE.                     *)
Fits(input, p) ==
    \/ input.status # "ACCEPTED"
    \/ /\ p.mode = "TOTAL_ONLY"
       /\ input.total # None /\ input.total \in 1..p.total
       /\ input.adults = None /\ input.children = None
    \/ /\ p.mode = "ADULTS_AND_CHILDREN"
       /\ input.total = None
       /\ input.adults # None /\ input.adults <= p.adults
       /\ input.children # None /\ input.children <= p.children
       /\ input.adults + input.children >= 1

Normalized(input, p) ==
    IF input.status # "ACCEPTED" THEN Cleared(input.status, input.note)
    ELSE [status |-> "ACCEPTED",
          total |-> IF p.mode = "TOTAL_ONLY" THEN input.total
                    ELSE input.adults + input.children,
          adults |-> input.adults, children |-> input.children,
          note |-> input.note]

(* current, and what each operation demands of it: 409 for a second        *)
(* creation, 404 for an update of nothing, 409 for a cancellation of       *)
(* anything but an accepted answer.                                        *)
Permits_CancelAny(op, seen) == op = "create" <=> seen = None
Permits(op, seen) ==
    \/ op = "create" /\ seen = None
    \/ op = "update" /\ seen # None
    \/ op = "cancel" /\ seen # None /\ seen.status = "ACCEPTED"

(* The counts an answer can carry.                                         *)
SoundCounts(a) ==
    IF a.status = "ACCEPTED"
    THEN /\ a.total # None /\ a.total >= 1
         /\ a.adults # None => a.children # None /\ a.total = a.adults + a.children
    ELSE a.total = None /\ a.adults = None /\ a.children = None
=============================================================================
