----------------------------- MODULE GuestEdits -----------------------------
(***************************************************************************)
(* What a guest's row can become.  The form and the contract decide which  *)
(* party sizes and contacts go together, the database checks it again, and *)
(* an update merges what it was sent with the row it read, without a lock, *)
(* before it writes the whole row.                                         *)
(*                                                                         *)
(* One guest.  "locale" stands for every field that is copied as it is     *)
(* (the names, the notes and the language).                                *)
(***************************************************************************)
EXTENDS Integers, Functions

CONSTANTS
    Request,  \* create and update requests under way at once
    Locale,   \* values of the fields that are only copied
    Typed,    \* inputs of the form
    Partial,  \* patches a client sends without the form
    MaxPart,  \* most adults or children of a guest
    MaxTotal, \* most people of a guest
    None

VARIABLES
    row,    \* the guest's row, or None before it is created
    req     \* req[r]: the request's transaction

vars == <<row, req>>

Channel == {"EMAIL", "SMS", "BOTH", "MANUAL"}
CountMode == {"TOTAL_ONLY", "ADULTS_AND_CHILDREN"}

(* Contacts as they are typed: "spaced" has blanks or capitals that        *)
(* normalizeEmail and normalizePhone remove, "short" is no contact.        *)
Contact == {"plain", "spaced", "short", None}
NormalContact(c) == IF c = "spaced" THEN "plain" ELSE c

GuestFields == [channel : Channel, email : {"plain", None}, phone : {"plain", None},
                mode : CountMode, total : 0..MaxTotal,
                adults : 0..MaxPart \cup {None}, children : 0..MaxPart \cup {None},
                locale : Locale]
Field == {"channel", "email", "phone", "mode", "total", "adults", "children", "locale"}
Row == [guest : GuestFields, archived : BOOLEAN]

(* What the form holds, and what the fields of a patch may be: a value of  *)
(* another type is refused before anything looks at it.                    *)
Input == [channel : Channel, email : Contact, phone : Contact, mode : CountMode,
          total : Int, adults : Int, children : Int, locale : Locale]
PatchValue == [channel |-> Channel, email |-> Contact, phone |-> Contact, mode |-> CountMode,
               total |-> Int \cup {None}, adults |-> Int \cup {None},
               children |-> Int \cup {None}, locale |-> Locale]

EditsAssumption ==
    /\ MaxPart \in Nat /\ MaxTotal \in Nat /\ MaxTotal >= 2 * MaxPart
    /\ Typed \subseteq Input
    /\ \A patch \in Partial :
          DOMAIN patch \subseteq Field
              /\ \A field \in DOMAIN patch : patch[field] \in PatchValue[field]
    /\ None \notin Int \cup Channel \cup CountMode \cup Locale \cup {"plain", "spaced", "short"}
    /\ None \notin GuestFields /\ None \notin Row
-----------------------------------------------------------------------------
(* The form: a MANUAL guest loses its contacts, and only the counts of the *)
(* chosen mode are sent.                                                   *)
FormPayload(typed) ==
    LET manual == typed.channel = "MANUAL"
        totals == typed.mode = "TOTAL_ONLY"
    IN  [typed EXCEPT !.email = IF manual THEN None ELSE @,
                      !.phone = IF manual THEN None ELSE @,
                      !.total = IF totals THEN @ ELSE None,
                      !.adults = IF totals THEN None ELSE @,
                      !.children = IF totals THEN None ELSE @]

(* What the form shows for a guest it edits.                               *)
OrZero(n) == IF n = None THEN 0 ELSE n
FormOf(guest) == [guest EXCEPT !.adults = OrZero(@), !.children = OrZero(@)]

(* guestInputObjectSchema, of the fields that are there.                   *)
WithinOrNone(n, most) == n = None \/ n \in 0..most
FieldOk(field, value) ==
    CASE field \in {"email", "phone"} -> value # "short"
      [] field = "total" -> WithinOrNone(value, MaxTotal)
      [] field \in {"adults", "children"} -> WithinOrNone(value, MaxPart)
      [] OTHER -> value # None
FieldsOk(patch) == \A field \in DOMAIN patch : FieldOk(field, patch[field])

Parsed(patch) == [field \in DOMAIN patch |->
                     IF field \in {"email", "phone"} THEN NormalContact(patch[field])
                     ELSE patch[field]]

(* createGuestInputSchema: superRefine, then transform.                    *)
CountsGiven(in) ==
    IF in.mode = "TOTAL_ONLY" THEN in.total # None
    ELSE in.adults # None /\ in.children # None
ContactsFit(in) ==
    CASE in.channel = "EMAIL" -> in.email # None
      [] in.channel = "SMS" -> in.phone # None
      [] in.channel = "BOTH" -> in.email # None /\ in.phone # None
      [] in.channel = "MANUAL" -> in.email = None /\ in.phone = None
Accepted(in) == FieldsOk(in) /\ CountsGiven(in) /\ ContactsFit(in)

Transformed_KeepsParts(in) ==
    IF in.mode = "TOTAL_ONLY" THEN in ELSE [in EXCEPT !.total = in.adults + in.children]
Transformed(in) ==
    IF in.mode = "TOTAL_ONLY" THEN [in EXCEPT !.adults = None, !.children = None]
    ELSE [in EXCEPT !.total = in.adults + in.children]

(* update: fields that were not sent come from the row.                    *)
Merged_WithDefaults(patch, guest) ==
    [field \in DOMAIN guest |->
        IF field \in DOMAIN patch THEN patch[field]
        ELSE IF field \in {"email", "phone", "adults", "children"} THEN None ELSE guest[field]]
Merged(patch, guest) ==
    [field \in DOMAIN guest |-> IF field \in DOMAIN patch THEN patch[field] ELSE guest[field]]

(* guests_invitation_count_consistency and                                 *)
(* guests_preferred_channel_contact_check                                  *)
ChecksPass(guest) ==
    /\ CASE guest.mode = "TOTAL_ONLY" ->
               guest.total >= 0 /\ guest.adults = None /\ guest.children = None
         [] guest.mode = "ADULTS_AND_CHILDREN" ->
               /\ guest.adults # None /\ guest.children # None
               /\ guest.adults >= 0 /\ guest.children >= 0
               /\ guest.total = guest.adults + guest.children
    /\ ContactsFit(guest)
-----------------------------------------------------------------------------
Free == [pc |-> "free", fields |-> {}, base |-> None, next |-> None]

Init == row = None /\ req = [r \in Request |-> Free]

(* The request is answered; "internal" is the answer to a constraint.      *)
Finish(r) == req' = [req EXCEPT ![r] = Free]
Fails(r) == req' = [req EXCEPT ![r] = [Free EXCEPT !.pc = "internal"]]

(* create: parsed, inserted and committed; refused with 400 otherwise.     *)
Create(r, payload) ==
    /\ req[r].pc = "free" /\ row = None
    /\ LET guest == Transformed(Parsed(payload)) IN
       IF ~Accepted(Parsed(payload)) THEN row' = row /\ Finish(r)
       ELSE IF ChecksPass(guest) THEN /\ row' = [guest |-> guest, archived |-> FALSE]
                                      /\ Finish(r)
       ELSE row' = row /\ Fails(r)

(* update up to its UPDATE: parse the patch, read the row, merge, parse.   *)
BeginUpdate(r, patch) ==
    /\ req[r].pc = "free" /\ row # None
    /\ LET in == Merged(Parsed(patch), row.guest) IN
       IF FieldsOk(patch) /\ ~row.archived /\ Accepted(in)
       THEN req' = [req EXCEPT ![r] = [pc |-> "write", fields |-> DOMAIN patch,
                                       base |-> row.guest, next |-> Transformed(in)]]
       ELSE Finish(r)
    /\ UNCHANGED row

(* The UPDATE names the guest only: it may be archived or changed by now.  *)
WriteUpdate(r) ==
    /\ req[r].pc = "write"
    /\ IF ChecksPass(req[r].next)
       THEN row' = [row EXCEPT !.guest = req[r].next] /\ Finish(r)
       ELSE row' = row /\ Fails(r)

Archive == row # None /\ row' = [row EXCEPT !.archived = TRUE] /\ UNCHANGED req
Restore == row # None /\ row' = [row EXCEPT !.archived = FALSE] /\ UNCHANGED req

Next == \/ \E r \in Request :
              \/ \E typed \in Typed : \/ Create(r, FormPayload(typed))
                                      \/ BeginUpdate(r, FormPayload(typed))
              \/ \E patch \in Partial : BeginUpdate(r, patch)
              \/ WriteUpdate(r)
        \/ Archive \/ Restore

Spec == Init /\ [][Next]_vars
-----------------------------------------------------------------------------
(* Properties                                                              *)

(* Every variable holds what the component's state can hold.               *)
TypeOK == /\ row \in Row \cup {None}
          /\ req \in [Request -> [pc : {"free", "write", "internal"},
                                  fields : SUBSET Field,
                                  base : GuestFields \cup {None},
                                  next : GuestFields \cup {None}]]

(* What the contract lets through the database takes: a constraint never   *)
(* turns a request the schemas accepted into an internal error.            *)
ConstraintsNeverFire == \A r \in Request : req[r].pc # "internal"

(* A stored guest passes its own schema unchanged, whichever edits made    *)
(* it: a patch of one copied field, as the language menu sends, is never   *)
(* refused for the other fields.                                           *)
StoredGuestsRevalidate ==
    row # None => Accepted(row.guest) /\ Transformed(Parsed(row.guest)) = row.guest

(* Opening the form and saving it without a change keeps the guest.        *)
SavingUnchangedKeeps ==
    row # None => /\ Accepted(Merged(Parsed(FormPayload(FormOf(row.guest))), row.guest))
                  /\ Transformed(Merged(Parsed(FormPayload(FormOf(row.guest))), row.guest))
                         = row.guest

(* A patch changes the fields it names and the counts they imply; any      *)
(* other field keeps the value it had when the patch was read.             *)
Implied(fields) == IF "mode" \in fields THEN {"total", "adults", "children"}
                   ELSE IF fields \cap {"adults", "children"} # {} THEN {"total"} ELSE {}
PatchesStayNarrow ==
    [][\A r \in Request :
          req[r].pc = "write" /\ req'[r].pc = "free"
          => \A field \in Field \ (req[r].fields \cup Implied(req[r].fields)) :
                row'.guest[field] = req[r].base[field]]_vars

(* The three layers that check a guest agree: what the schemas let through *)
(* the database takes, and the form and every patch can come back to it.   *)
EditsInv == TypeOK /\ ConstraintsNeverFire /\ StoredGuestsRevalidate /\ SavingUnchangedKeeps
=============================================================================
