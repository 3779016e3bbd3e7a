-------------------------- MODULE HostPagesProofs ---------------------------
(***************************************************************************)
(* What the runs check about the host's page of guests, for any guests,    *)
(* tabs, requests and inputs: the handlers, with what GuestPanelProofs     *)
(* proves of them; the edits of a guest's row, through the three layers    *)
(* that check it; the numbers, filters and badges; the read marks.         *)
(***************************************************************************)
EXTENDS MCHostPages, FiniteSetTheorems, TLAPS

-----------------------------------------------------------------------------
(* ReadMarks.                                                              *)

(* Tabs overwrite each other's marks, and what a tab reopens with is what  *)
(* was written last; but no mark is ever made of a message not opened.     *)
MarksWereOpened == /\ storage \subseteq opened
                   /\ marks \in [Tab -> SUBSET opened]

(* At first there are no marks.                                            *)
LEMMA MarksInit == Init => MarksWereOpened
BY DEF Init, MarksWereOpened

(* Every mark that is added is of a message that is opened.                *)
LEMMA MarksStep == MarksWereOpened /\ [Next]_vars => MarksWereOpened'
<1> SUFFICES ASSUME MarksWereOpened, [Next]_vars PROVE MarksWereOpened'
  OBVIOUS
<1> USE DEF MarksWereOpened
<1>1. ASSUME NEW g \in Guest, Answer(g) PROVE MarksWereOpened'
  BY <1>1 DEF Answer
<1>2. ASSUME NEW t \in Tab, Load(t) \/ Reopen(t) \/ CloseDetail(t) PROVE MarksWereOpened'
  BY <1>2 DEF Load, Reopen, CloseDetail
<1>3. ASSUME NEW t \in Tab, NEW g \in Guest, OpenMessage(t, g) PROVE MarksWereOpened'
  BY <1>3 DEF OpenMessage, ReadKey
<1>4. ASSUME NEW t \in Tab, NEW g \in Guest, ShowDetail(t, g) \/ DetailFails(t, g)
      PROVE MarksWereOpened'
  BY <1>4 DEF ShowDetail, DetailFails
<1>5. CASE UNCHANGED vars
  BY <1>5 DEF vars
<1> QED
  BY <1>1, <1>2, <1>3, <1>4, <1>5 DEF Next

(* An answer the host did not open is unread in every tab, whatever the    *)
(* tabs wrote over each other.                                             *)
THEOREM AnswersStayUnread == Spec => []NewAnswersAreUnread
<1>1. MarksWereOpened => NewAnswersAreUnread
  BY DEF MarksWereOpened, NewAnswersAreUnread, Unread, ReadKey
<1> QED
  BY <1>1, MarksInit, MarksStep, PTL DEF Spec

-----------------------------------------------------------------------------
(* GuestPanel: what GuestPanelProofs proves of it.                         *)

all == <<part, panel, edits, table, vars>>

(* A behaviour stays with its part.                                        *)
LEMMA PartStays == [PartsNext]_all => part' = part
  BY DEF PartsNext, all

(* The steps of a part are those of its module.                            *)
LEMMA OneSteps == [PartsNext]_all /\ part = "one" => [OnePanel!Next]_OnePanel!vars
  BY DEF PartsNext, all, panel, OnePanel!vars, OnePanel!page

(* The steps of a part are those of its module.                            *)
LEMMA TwoSteps == [PartsNext]_all /\ part = "two" => [TwoPanel!Next]_TwoPanel!vars
  BY DEF PartsNext, all, panel, TwoPanel!vars, TwoPanel!page

PanelsInd == /\ part = "one" => OnePanel!PanelIInv
             /\ part = "two" => TwoPanel!PanelIInv

(* The invariant of GuestPanelProofs holds of the part that steps.         *)
LEMMA PanelsInit == PartsInit => PanelsInd
<1>1. PartsInit /\ part = "one" => OnePanel!PanelIInv
  BY PartsAssumption, OnePanel!InitIInv DEF PartsInit
<1>2. PartsInit /\ part = "two" => TwoPanel!PanelIInv
  BY PartsAssumption, TwoPanel!InitIInv DEF PartsInit
<1> QED
  BY <1>1, <1>2 DEF PanelsInd

(* It is kept, by theorems of GuestPanelProofs.                            *)
LEMMA PanelsStep == PanelsInd /\ [PartsNext]_all => PanelsInd'
<1>1. PanelsInd /\ [PartsNext]_all /\ part = "one" => OnePanel!PanelIInv'
  BY PartsAssumption, OneSteps, OnePanel!PanelIInvKept DEF PanelsInd
<1>2. PanelsInd /\ [PartsNext]_all /\ part = "two" => TwoPanel!PanelIInv'
  BY PartsAssumption, TwoSteps, TwoPanel!PanelIInvKept DEF PanelsInd
<1> QED
  BY <1>1, <1>2, PartStays DEF PanelsInd

(* So it always holds.                                                     *)
LEMMA PanelsAlways == PartsSpec => []PanelsInd
  BY PanelsInit, PanelsStep, PTL DEF PartsSpec, all

(* It implies what the runs check.                                         *)
LEMMA PanelsSay == PanelsInd => DialogsInv /\ FreshWhenQuiet /\ HeldLinkWorks
<1>1. PanelsInd /\ part = "one" => OnePanel!DialogsInv /\ OnePanel!FreshWhenQuiet /\ OnePanel!HeldLinkWorks
  BY PartsAssumption, OnePanel!PanelIInvSays DEF PanelsInd
<1>2. PanelsInd /\ part = "two" => TwoPanel!DialogsInv /\ TwoPanel!FreshWhenQuiet /\ TwoPanel!HeldLinkWorks
  BY PartsAssumption, TwoPanel!PanelIInvSays DEF PanelsInd
<1> QED
  BY <1>1, <1>2 DEF DialogsInv, FreshWhenQuiet, HeldLinkWorks

(* No dialog of the page stays locked after its handlers have ended, and   *)
(* all but the share dialog are locked until then: theorem PanelIsSound,   *)
(* as the parts are composed.                                              *)
THEOREM DialogsSound == PartsSpec => []DialogsInv
  BY PanelsAlways, PanelsSay, PTL

(* A page at rest shows what the server has, but for guests whose own      *)
(* handlers crossed, lost an answer or set out from an old row, and unless *)
(* an old list came last: theorem PanelIsSound, as the parts are composed. *)
THEOREM PagesAtRestAreFresh == PartsSpec => []FreshWhenQuiet
  BY PanelsAlways, PanelsSay, PTL

(* A link the page holds of a guest that is not unsure, and on whom nothing *)
(* is under way, is that guest's only link: theorem PanelIsSound, as the    *)
(* parts are composed.                                                      *)
THEOREM HeldLinksWork == PartsSpec => []HeldLinkWorks
  BY PanelsAlways, PanelsSay, PTL

(* Also of a guest both parts know, and in the other parts nothing closes. *)
LEMMA OneClosesRight ==
    PanelsInd /\ [PartsNext]_all => [OnePanel!ClosesRight]_OnePanel!vars
<1> SUFFICES ASSUME PanelsInd, [PartsNext]_all PROVE [OnePanel!ClosesRight]_OnePanel!vars
  OBVIOUS
<1>1. CASE part = "one"
  BY <1>1, PartsAssumption, OneSteps, OnePanel!StepClosesRight DEF PanelsInd
<1>2. CASE part = "two"
  <2>1. [TwoPanel!ClosesRight]_TwoPanel!vars
    BY <1>2, PartsAssumption, TwoSteps, TwoPanel!StepClosesRight DEF PanelsInd
  <2>2. open.confirm # None => open.confirm.guest \in Guest
    BY <1>2, PartsAssumption DEF PanelsInd, TwoPanel!PanelIInv, TwoPanel!TypeOK, TwoPanel!Dialogs,
       TwoPanel!Captured
  <2>3. TwoPanel!ClosesRight => OnePanel!ClosesRight
    BY <2>2 DEF TwoPanel!ClosesRight, OnePanel!ClosesRight, TwoPanel!Active, OnePanel!Active
  <2>4. UNCHANGED TwoPanel!vars => UNCHANGED OnePanel!vars
    BY DEF TwoPanel!vars, OnePanel!vars, TwoPanel!page, OnePanel!page
  <2> QED
    BY <2>1, <2>3, <2>4
<1>3. CASE part \notin {"one", "two"}
  BY <1>3 DEF PartsNext, all, panel, OnePanel!vars, OnePanel!page
<1> QED
  BY <1>1, <1>2, <1>3

(* A confirmation that closes by itself has done what it asked for.        *)
LEMMA ConfirmationsDo == PartsSpec => OnePanel!ClosedMeansDone
<1>1. PartsSpec => [][OnePanel!ClosesRight]_OnePanel!vars
  BY PanelsAlways, OneClosesRight, PTL DEF PartsSpec, all
<1> QED
  BY <1>1 DEF OnePanel!ClosesRight, OnePanel!ClosedMeansDone

-----------------------------------------------------------------------------
(* GuestEdits.                                                             *)

(* A guest before the schemas looked at its numbers and contacts.          *)
Rough == [channel : Edits!Channel, email : Edits!Contact, phone : Edits!Contact,
          mode : Edits!CountMode, total : Int \cup {None}, adults : Int \cup {None},
          children : Int \cup {None}, locale : Locale]

(* Rough, with contacts normalised.                                        *)
Normal == [channel : Edits!Channel, email : {"plain", "short", None}, phone : {"plain", "short", None},
          mode : Edits!CountMode, total : Int \cup {None}, adults : Int \cup {None},
          children : Int \cup {None}, locale : Locale]

(* What is assumed of the form and of the patches.                         *)
LEMMA EditsAssumed ==
    /\ MaxPart \in Nat /\ MaxTotal \in Nat /\ MaxTotal >= 2 * MaxPart
    /\ Typed \subseteq Edits!Input
    /\ \A patch \in Partial :
          DOMAIN patch \subseteq Edits!Field
              /\ \A field \in DOMAIN patch : patch[field] \in Edits!PatchValue[field]
    /\ None \notin Int /\ None \notin Edits!Channel /\ None \notin Edits!CountMode /\ None \notin Locale
    /\ None # "plain" /\ None # "spaced" /\ None # "short"
    /\ None \notin Edits!GuestFields /\ None \notin Edits!Row
  BY PartsAssumption DEF Edits!EditsAssumption

(* What the schemas accept the database takes.                             *)
LEMMA AcceptedIsSound ==
    ASSUME NEW in \in Normal, Edits!Accepted(in)
    PROVE  Edits!Transformed(in) \in Edits!GuestFields /\ Edits!ChecksPass(Edits!Transformed(in))
<1>1. /\ in.email # "short" /\ in.phone # "short" /\ in.channel # None
      /\ in.total = None \/ in.total \in 0..MaxTotal
      /\ in.adults = None \/ in.adults \in 0..MaxPart
      /\ in.children = None \/ in.children \in 0..MaxPart
  <2>1. \A field \in {"email", "phone", "total", "adults", "children"} : Edits!FieldOk(field, in[field])
    BY DEF Edits!Accepted, Edits!FieldsOk, Normal
  <2>2. Edits!FieldOk("email", in.email) /\ Edits!FieldOk("phone", in.phone)
    BY <2>1
  <2>3. Edits!FieldOk("total", in.total)
    BY <2>1
  <2>4. Edits!FieldOk("adults", in.adults) /\ Edits!FieldOk("children", in.children)
    BY <2>1
  <2> QED
    BY <2>2, <2>3, <2>4, EditsAssumed DEF Edits!FieldOk, Edits!WithinOrNone, Normal
<1>2. Edits!CountsGiven(in) /\ Edits!ContactsFit(in)
  BY DEF Edits!Accepted
<1>3. CASE in.mode = "TOTAL_ONLY"
  <2>1. Edits!Transformed(in) = [in EXCEPT !.adults = None, !.children = None]
    BY <1>3 DEF Edits!Transformed
  <2>2. in.total \in 0..MaxTotal
    BY <1>1, <1>2, <1>3 DEF Edits!CountsGiven
  <2>3. Edits!Transformed(in) \in Edits!GuestFields
    BY <1>1, <2>1, <2>2 DEF Normal, Edits!GuestFields
  <2>4. Edits!ContactsFit(Edits!Transformed(in))
    BY <1>2, <2>1 DEF Edits!ContactsFit, Normal
  <2>5. LET after == Edits!Transformed(in) IN
        after.mode = "TOTAL_ONLY" /\ after.total >= 0 /\ after.adults = None /\ after.children = None
    BY <1>3, <2>1, <2>2 DEF Normal
  <2> QED
    BY <2>3, <2>4, <2>5 DEF Edits!ChecksPass
<1>4. CASE in.mode = "ADULTS_AND_CHILDREN"
  <2>1. Edits!Transformed(in) = [in EXCEPT !.total = in.adults + in.children]
    BY <1>4 DEF Edits!Transformed
  <2>2. in.adults \in 0..MaxPart /\ in.children \in 0..MaxPart
    BY <1>1, <1>2, <1>4 DEF Edits!CountsGiven
  <2>3. in.adults + in.children \in 0..MaxTotal
    BY <2>2, EditsAssumed
  <2>4. Edits!Transformed(in) \in Edits!GuestFields
    BY <1>1, <2>1, <2>2, <2>3 DEF Normal, Edits!GuestFields
  <2>5. Edits!ContactsFit(Edits!Transformed(in))
    BY <1>2, <2>1 DEF Edits!ContactsFit, Normal
  <2> QED
    BY <1>4, <2>1, <2>2, <2>4, <2>5, EditsAssumed DEF Edits!ChecksPass, Normal
<1> QED
  BY <1>3, <1>4 DEF Normal, Edits!CountMode

(* Normalising leaves the rest alone.                                      *)
LEMMA ParsedIs ==
    ASSUME NEW patch
    PROVE  /\ DOMAIN Edits!Parsed(patch) = DOMAIN patch
           /\ \A field \in DOMAIN patch :
                 Edits!Parsed(patch)[field] = IF field \in {"email", "phone"} /\ patch[field] = "spaced"
                                              THEN "plain" ELSE patch[field]
  BY DEF Edits!Parsed, Edits!NormalContact

(* The form sends all fields.                                              *)
LEMMA PayloadIs ==
    ASSUME NEW input \in Edits!Input
    PROVE  Edits!FormPayload(input) \in Rough
  BY DEF Edits!FormPayload, Rough, Edits!Input, Edits!Contact

(* Parsing leaves no blanks in contacts.                                   *)
LEMMA ParsedRough ==
    ASSUME NEW rough \in Rough
    PROVE  Edits!Parsed(rough) \in Normal
<1>1. DOMAIN rough = Edits!Field
  BY DEF Rough, Edits!Field
<1> QED
  BY <1>1, ParsedIs DEF Rough, Normal, Edits!Field, Edits!Parsed, Edits!NormalContact, Edits!Contact

(* A patch sends some of the fields, of the right types.                   *)
IsPatch(patch) == /\ DOMAIN patch \subseteq Edits!Field
                  /\ \A field \in DOMAIN patch : patch[field] \in Edits!PatchValue[field]

(* What the form sends is a patch of every field.                          *)
LEMMA RoughIsPatch ==
    ASSUME NEW rough \in Rough
    PROVE  IsPatch(rough)
  BY DEF Rough, IsPatch, Edits!PatchValue, Edits!Field

(* A merge has every field, those that were not sent from the row.         *)
LEMMA MergedIs ==
    ASSUME NEW patch, IsPatch(patch), NEW guest \in Edits!GuestFields
    PROVE  /\ Edits!Merged(Edits!Parsed(patch), guest) \in Normal
           /\ \A field \in Edits!Field : field \notin DOMAIN patch =>
                 Edits!Merged(Edits!Parsed(patch), guest)[field] = guest[field]
<1> DEFINE in == Edits!Merged(Edits!Parsed(patch), guest)
<1>1. DOMAIN guest = Edits!Field
  BY DEF Edits!GuestFields, Edits!Field
<1>2. \A field \in Edits!Field :
         in[field] = IF field \in DOMAIN patch THEN Edits!Parsed(patch)[field] ELSE guest[field]
  BY <1>1, ParsedIs DEF Edits!Merged
<1>3. DOMAIN in = Edits!Field /\ in = [field \in Edits!Field |-> in[field]]
  BY <1>1 DEF Edits!Merged
<1>4. ASSUME NEW field \in Edits!Field
      PROVE  /\ field = "channel" => in[field] \in Edits!Channel
             /\ field \in {"email", "phone"} => in[field] \in {"plain", "short", None}
             /\ field = "mode" => in[field] \in Edits!CountMode
             /\ field \in {"total", "adults", "children"} => in[field] \in Int \cup {None}
             /\ field = "locale" => in[field] \in Locale
  <2>1. CASE field \in DOMAIN patch
    <3>1. patch[field] \in Edits!PatchValue[field]
      BY <2>1 DEF IsPatch
    <3>2. in[field] = IF field \in {"email", "phone"} /\ patch[field] = "spaced"
                      THEN "plain" ELSE patch[field]
      BY <1>2, <2>1, ParsedIs
    <3> QED
      BY <3>1, <3>2 DEF Edits!PatchValue, Edits!Contact
  <2>2. CASE field \notin DOMAIN patch
    <3>1. in[field] = guest[field]
      BY <1>2, <2>2
    <3> QED
      BY <3>1, EditsAssumed DEF Edits!GuestFields
  <2> QED
    BY <2>1, <2>2
<1>5. in \in Normal
  <2> HIDE DEF in
  <2>1. /\ in["channel"] \in Edits!Channel /\ in["email"] \in {"plain", "short", None}
        /\ in["phone"] \in {"plain", "short", None} /\ in["mode"] \in Edits!CountMode
        /\ in["total"] \in Int \cup {None} /\ in["adults"] \in Int \cup {None}
        /\ in["children"] \in Int \cup {None} /\ in["locale"] \in Locale
    BY <1>4 DEF Edits!Field
  <2> QED
    BY <1>3, <2>1 DEF Normal, Edits!Field
<1> QED
  BY <1>2, <1>5

(* What an update under way holds: a guest the database takes, which       *)
(* differs from the guest it read in what was named and implied only.      *)
Narrow(q) == \A field \in Edits!Field \ (q.fields \cup Edits!Implied(q.fields)) :
                 q.next[field] = q.base[field]
Update == [pc : {"write"}, fields : SUBSET Edits!Field,
           base : Edits!GuestFields, next : Edits!GuestFields]
Underway(q) == q \in Update /\ Edits!ChecksPass(q.next) /\ Narrow(q)

EditsInd == /\ row \in Edits!Row \cup {None}
            /\ row # None => Edits!ChecksPass(row.guest)
            /\ req \in [Request -> {Edits!Free} \cup Update]
            /\ \A r \in Request : req[r] # Edits!Free => Underway(req[r]) /\ row # None

(* A request is free or holds an update.                                   *)
LEMMA FreeIs == /\ Edits!Free.pc = "free" /\ Edits!Free \notin Update
                /\ \A q \in Update : q.pc = "write"
  BY DEF Edits!Free, Update

(* A request is answered without changing another.                         *)
LEMMA Finishes ==
    ASSUME EditsInd, NEW r \in Request, Edits!Finish(r), row' = row \/ row' \in Edits!Row,
           row' # None => Edits!ChecksPass(row'.guest)
    PROVE  EditsInd'
<1>1. row' \in Edits!Row \cup {None} /\ (row # None => row' # None)
  BY EditsAssumed DEF EditsInd
<1>2. /\ req' \in [Request -> {Edits!Free} \cup Update]
      /\ \A q \in Request : req'[q] = Edits!Free \/ req'[q] = req[q]
  BY DEF EditsInd, Edits!Finish
<1> QED
  BY <1>1, <1>2 DEF EditsInd, Underway, Narrow

(* A guest is created from what the form sends.                            *)
LEMMA CreateKeeps ==
    ASSUME EditsInd, NEW r \in Request, NEW rough \in Rough, Edits!Create(r, rough)
    PROVE  EditsInd'
<1> DEFINE guest == Edits!Transformed(Edits!Parsed(rough))
<1>1. CASE ~Edits!Accepted(Edits!Parsed(rough))
  BY <1>1, Finishes DEF Edits!Create, EditsInd
<1>2. CASE Edits!Accepted(Edits!Parsed(rough))
  <2>1. guest \in Edits!GuestFields /\ Edits!ChecksPass(guest)
    BY <1>2, ParsedRough, AcceptedIsSound
  <2>2. row' = [guest |-> guest, archived |-> FALSE] /\ Edits!Finish(r)
    BY <1>2, <2>1 DEF Edits!Create
  <2> HIDE DEF guest
  <2>3. row' \in Edits!Row /\ row'.guest = guest
    BY <2>1, <2>2 DEF Edits!Row
  <2> QED
    BY <2>1, <2>2, <2>3, Finishes
<1> QED
  BY <1>1, <1>2

(* The counts that change without being named are those that are implied.  *)
LEMMA MergeIsNarrow ==
    ASSUME NEW patch, IsPatch(patch), NEW guest \in Edits!GuestFields, Edits!ChecksPass(guest),
           Edits!Accepted(Edits!Merged(Edits!Parsed(patch), guest)),
           NEW field \in Edits!Field \ (DOMAIN patch \cup Edits!Implied(DOMAIN patch))
    PROVE  Edits!Transformed(Edits!Merged(Edits!Parsed(patch), guest))[field] = guest[field]
<1> DEFINE in == Edits!Merged(Edits!Parsed(patch), guest)
           after == Edits!Transformed(in)
<1>1. in \in Normal /\ \A f \in Edits!Field : f \notin DOMAIN patch => in[f] = guest[f]
  BY MergedIs
<1> HIDE DEF in
<1>2. in[field] = guest[field]
  BY <1>1
<1>3. ASSUME in.mode = "TOTAL_ONLY" PROVE after[field] = guest[field]
  <2>1. after = [in EXCEPT !.adults = None, !.children = None]
    BY <1>3 DEF Edits!Transformed
  <2>2. CASE field \in {"adults", "children"}
    <3>1. "mode" \notin DOMAIN patch
      BY <2>2 DEF Edits!Implied
    <3>2. guest.mode = "TOTAL_ONLY"
      BY <1>1, <1>3, <3>1 DEF Edits!Field
    <3>3. guest.adults = None /\ guest.children = None
      BY <3>2 DEF Edits!ChecksPass
    <3> QED
      BY <1>1, <2>1, <2>2, <3>3 DEF Normal
  <2>3. CASE field \notin {"adults", "children"}
    BY <1>1, <1>2, <2>1, <2>3 DEF Normal, Edits!Field
  <2> QED
    BY <2>2, <2>3
<1>4. ASSUME in.mode = "ADULTS_AND_CHILDREN" PROVE after[field] = guest[field]
  <2>1. after = [in EXCEPT !.total = in.adults + in.children]
    BY <1>4 DEF Edits!Transformed
  <2>2. CASE field = "total"
    <3>1. "mode" \notin DOMAIN patch /\ "adults" \notin DOMAIN patch /\ "children" \notin DOMAIN patch
      BY <2>2 DEF Edits!Implied
    <3>2. guest.mode = "ADULTS_AND_CHILDREN" /\ in.adults = guest.adults /\ in.children = guest.children
      BY <1>1, <1>4, <3>1 DEF Edits!Field
    <3>3. guest.total = guest.adults + guest.children
      BY <3>2 DEF Edits!ChecksPass
    <3> QED
      BY <1>1, <2>1, <2>2, <3>2, <3>3 DEF Normal
  <2>3. CASE field # "total"
    BY <1>1, <1>2, <2>1, <2>3 DEF Normal, Edits!Field
  <2> QED
    BY <2>2, <2>3
<1> QED
  BY <1>1, <1>3, <1>4 DEF Normal, Edits!CountMode, in

(* An update is prepared from the row as it is read.                       *)
LEMMA UpdateKeeps ==
    ASSUME EditsInd, NEW r \in Request, NEW patch, IsPatch(patch), Edits!BeginUpdate(r, patch)
    PROVE  EditsInd'
<1> DEFINE in == Edits!Merged(Edits!Parsed(patch), row.guest)
           q == [pc |-> "write", fields |-> DOMAIN patch, base |-> row.guest,
                 next |-> Edits!Transformed(in)]
<1>1. row \in Edits!Row /\ row' = row /\ Edits!ChecksPass(row.guest)
  BY DEF Edits!BeginUpdate, EditsInd
<1>2. row.guest \in Edits!GuestFields
  BY <1>1 DEF Edits!Row
<1>3. CASE Edits!Finish(r)
  BY <1>1, <1>3, Finishes
<1>4. CASE Edits!Accepted(in) /\ req' = [req EXCEPT ![r] = q]
  <2>1. in \in Normal
    BY <1>2, MergedIs
  <2>2. Edits!Transformed(in) \in Edits!GuestFields /\ Edits!ChecksPass(Edits!Transformed(in))
    BY <1>4, <2>1, AcceptedIsSound
  <2>3. \A field \in Edits!Field \ (DOMAIN patch \cup Edits!Implied(DOMAIN patch)) :
           Edits!Transformed(in)[field] = row.guest[field]
    BY <1>1, <1>2, <1>4, MergeIsNarrow
  <2>4. DOMAIN patch \subseteq Edits!Field
    BY DEF IsPatch
  <2> HIDE DEF in
  <2>5. q \in Update /\ q.next = Edits!Transformed(in) /\ q.base = row.guest /\ q.fields = DOMAIN patch
    BY <1>2, <2>2, <2>4 DEF Update
  <2> HIDE DEF q
  <2>6. Underway(q)
    BY <2>2, <2>3, <2>5 DEF Underway, Narrow
  <2>7. /\ req' \in [Request -> {Edits!Free} \cup Update]
        /\ \A p \in Request : req'[p] = q \/ req'[p] = req[p]
    BY <1>4, <2>5 DEF EditsInd
  <2>8. row # None
    BY <1>1, EditsAssumed
  <2>9. \A p \in Request : req'[p] # Edits!Free => Underway(req'[p])
    BY <2>6, <2>7 DEF EditsInd
  <2> QED
    BY <1>1, <2>7, <2>8, <2>9 DEF EditsInd, Underway, Narrow
<1> QED
  BY <1>3, <1>4 DEF Edits!BeginUpdate

(* An update is written over the row as it is by now.                      *)
LEMMA WriteKeeps ==
    ASSUME EditsInd, NEW r \in Request, Edits!WriteUpdate(r)
    PROVE  /\ EditsInd' /\ Edits!Finish(r) /\ row' # None /\ row'.guest = req[r].next
<1>1. Underway(req[r]) /\ row \in Edits!Row
  BY FreeIs DEF EditsInd, Edits!WriteUpdate
<1>2. row' = [row EXCEPT !.guest = req[r].next] /\ Edits!Finish(r)
  BY <1>1 DEF Edits!WriteUpdate, Underway
<1>3. row' \in Edits!Row /\ row'.guest = req[r].next
  BY <1>1, <1>2 DEF Underway, Update, Edits!Row
<1> QED
  BY <1>1, <1>2, <1>3, Finishes, EditsAssumed DEF Underway

(* Archiving touches neither counts nor contacts.                          *)
LEMMA ArchiveKeeps ==
    ASSUME EditsInd, Edits!Archive \/ Edits!Restore
    PROVE  EditsInd'
<1>1. row \in Edits!Row /\ Edits!ChecksPass(row.guest) /\ req' = req
  BY DEF EditsInd, Edits!Archive, Edits!Restore
<1>2. PICK b \in BOOLEAN : row' = [row EXCEPT !.archived = b]
  BY DEF Edits!Archive, Edits!Restore
<1>3. row' \in Edits!Row /\ row'.guest = row.guest
  BY <1>1, <1>2 DEF Edits!Row
<1>4. row' # None
  BY <1>3, EditsAssumed
<1> QED
  BY <1>1, <1>3, <1>4 DEF EditsInd, Underway, Narrow

(* Every request starts from the form or from a patch.                     *)
LEMMA EditsStep ==
    ASSUME EditsInd, [Edits!Next]_Edits!vars
    PROVE  EditsInd'
<1>1. \A input \in Typed : Edits!FormPayload(input) \in Rough
  BY PayloadIs, EditsAssumed
<1>2. ASSUME NEW r \in Request, NEW input \in Typed,
             Edits!Create(r, Edits!FormPayload(input)) \/ Edits!BeginUpdate(r, Edits!FormPayload(input))
      PROVE  EditsInd'
  BY <1>1, <1>2, CreateKeeps, UpdateKeeps, RoughIsPatch
<1>3. ASSUME NEW r \in Request, NEW patch \in Partial, Edits!BeginUpdate(r, patch)
      PROVE  EditsInd'
  <2>1. IsPatch(patch)
    BY EditsAssumed DEF IsPatch
  <2> QED
    BY <1>3, <2>1, UpdateKeeps
<1>4. ASSUME NEW r \in Request, Edits!WriteUpdate(r) PROVE EditsInd'
  BY <1>4, WriteKeeps
<1>5. CASE UNCHANGED Edits!vars
  BY <1>5 DEF Edits!vars, EditsInd, Underway, Narrow
<1> QED
  BY <1>2, <1>3, <1>4, <1>5, ArchiveKeeps DEF Edits!Next

(* There is no guest at first.                                             *)
LEMMA EditsInit == Edits!Init => EditsInd
  BY DEF Edits!Init, EditsInd

(* A stored guest has no blanks in its contacts.                           *)
LEMMA ParsedGuest ==
    ASSUME NEW guest \in Edits!GuestFields
    PROVE  Edits!Parsed(guest) = guest
<1>1. DOMAIN guest = Edits!Field /\ guest["email"] # "spaced" /\ guest["phone"] # "spaced"
  BY EditsAssumed DEF Edits!GuestFields, Edits!Field
<1>2. guest = [field \in Edits!Field |-> guest[field]]
  BY DEF Edits!GuestFields, Edits!Field
<1>3. \A field \in Edits!Field : Edits!Parsed(guest)[field] = guest[field]
  BY <1>1, ParsedIs
<1>4. DOMAIN Edits!Parsed(guest) = Edits!Field /\ Edits!Parsed(guest) = [field \in Edits!Field |-> Edits!Parsed(guest)[field]]
  BY <1>1 DEF Edits!Parsed
<1> QED
  BY <1>2, <1>3, <1>4

(* What the database took the schemas accept as it is.                     *)
LEMMA StoredIsAccepted ==
    ASSUME NEW guest \in Edits!GuestFields, Edits!ChecksPass(guest)
    PROVE  Edits!Accepted(guest) /\ Edits!Transformed(guest) = guest
<1>1. Edits!FieldsOk(guest)
  <2>1. /\ guest["email"] # "short" /\ guest["phone"] # "short"
        /\ guest["total"] \in 0..MaxTotal
        /\ guest["adults"] = None \/ guest["adults"] \in 0..MaxPart
        /\ guest["children"] = None \/ guest["children"] \in 0..MaxPart
        /\ guest["channel"] # None /\ guest["mode"] # None /\ guest["locale"] # None
    BY EditsAssumed DEF Edits!GuestFields
  <2>2. \A field \in Edits!Field : Edits!FieldOk(field, guest[field])
    BY <2>1 DEF Edits!FieldOk, Edits!WithinOrNone, Edits!Field
  <2>3. DOMAIN guest = Edits!Field
    BY DEF Edits!GuestFields, Edits!Field
  <2> QED
    BY <2>2, <2>3 DEF Edits!FieldsOk
<1>2. Edits!ContactsFit(guest)
  BY DEF Edits!ChecksPass
<1>3. CASE guest.mode = "TOTAL_ONLY"
  <2>1. guest.adults = None /\ guest.children = None /\ guest.total # None
    BY <1>3, EditsAssumed DEF Edits!ChecksPass, Edits!GuestFields
  <2>2. Edits!Transformed(guest) = [guest EXCEPT !.adults = None, !.children = None]
    BY <1>3 DEF Edits!Transformed
  <2>3. Edits!Transformed(guest) = guest
    BY <2>1, <2>2 DEF Edits!GuestFields
  <2> QED
    BY <1>1, <1>2, <1>3, <2>1, <2>3 DEF Edits!Accepted, Edits!CountsGiven
<1>4. CASE guest.mode = "ADULTS_AND_CHILDREN"
  <2>1. guest.adults # None /\ guest.children # None /\ guest.total = guest.adults + guest.children
    BY <1>4 DEF Edits!ChecksPass
  <2>2. Edits!Transformed(guest) = [guest EXCEPT !.total = guest.adults + guest.children]
    BY <1>4 DEF Edits!Transformed
  <2>3. Edits!Transformed(guest) = guest
    BY <2>1, <2>2 DEF Edits!GuestFields
  <2> QED
    BY <1>1, <1>2, <1>4, <2>1, <2>3 DEF Edits!Accepted, Edits!CountsGiven
<1> QED
  BY <1>3, <1>4 DEF Edits!GuestFields, Edits!CountMode

(* What the form sends for a stored guest comes back to it.                *)
Resent(guest) == Edits!Merged(Edits!Parsed(Edits!FormPayload(Edits!FormOf(guest))), guest)

(* It has the fields of the guest, with the counts of its mode only.       *)
LEMMA ResentIs ==
    ASSUME NEW guest \in Edits!GuestFields, Edits!ChecksPass(guest)
    PROVE  /\ Resent(guest) \in Normal
           /\ \A field \in {"channel", "email", "phone", "mode", "locale"} :
                 Resent(guest)[field] = guest[field]
           /\ guest.mode = "TOTAL_ONLY" =>
                 Resent(guest).total = guest.total /\ Resent(guest).adults = None /\ Resent(guest).children = None
           /\ guest.mode = "ADULTS_AND_CHILDREN" =>
                 Resent(guest).total = None /\ Resent(guest).adults = guest.adults
                 /\ Resent(guest).children = guest.children
<1> DEFINE form == Edits!FormOf(guest)
           sent == Edits!FormPayload(form)
           back == Edits!Merged(Edits!Parsed(sent), guest)
<1>1. /\ form = [guest EXCEPT !.adults = Edits!OrZero(guest.adults), !.children = Edits!OrZero(guest.children)]
      /\ Edits!OrZero(guest.adults) \in Int /\ Edits!OrZero(guest.children) \in Int
  BY EditsAssumed DEF Edits!FormOf, Edits!OrZero, Edits!GuestFields
<1>2. form \in Edits!Input
  <2>1. ASSUME NEW a \in Int, NEW k \in Int
        PROVE  [guest EXCEPT !.adults = a, !.children = k] \in Edits!Input
    <3>1. /\ guest.channel \in Edits!Channel /\ guest.email \in Edits!Contact /\ guest.phone \in Edits!Contact
          /\ guest.mode \in Edits!CountMode /\ guest.total \in Int /\ guest.locale \in Locale
      BY EditsAssumed DEF Edits!GuestFields, Edits!Contact
    <3>2. guest = [field \in Edits!Field |-> guest[field]]
      BY DEF Edits!GuestFields, Edits!Field
    <3> DEFINE q == [guest EXCEPT !.adults = a, !.children = k]
    <3>3. /\ q = [field \in Edits!Field |-> q[field]]
          /\ q["adults"] = a /\ q["children"] = k
          /\ \A field \in Edits!Field \ {"adults", "children"} : q[field] = guest[field]
      BY <3>2 DEF Edits!Field
    <3> HIDE DEF q
    <3>4. q \in Edits!Input
      BY <3>1, <3>3 DEF Edits!Input, Edits!Field
    <3> QED
      BY <3>4 DEF q
  <2> HIDE DEF form
  <2> QED
    BY <1>1, <2>1
<1>3. /\ form.channel = guest.channel /\ form.email = guest.email /\ form.phone = guest.phone
      /\ form.mode = guest.mode /\ form.total = guest.total /\ form.locale = guest.locale
      /\ form.adults = Edits!OrZero(guest.adults) /\ form.children = Edits!OrZero(guest.children)
  BY <1>1 DEF Edits!GuestFields
<1>4. sent \in Rough
  BY <1>2, PayloadIs
<1> HIDE DEF form
<1>5. /\ sent.channel = guest.channel /\ sent.mode = guest.mode /\ sent.locale = guest.locale
      /\ sent.email = IF guest.channel = "MANUAL" THEN None ELSE guest.email
      /\ sent.phone = IF guest.channel = "MANUAL" THEN None ELSE guest.phone
      /\ sent.total = IF guest.mode = "TOTAL_ONLY" THEN guest.total ELSE None
      /\ sent.adults = IF guest.mode = "TOTAL_ONLY" THEN None ELSE form.adults
      /\ sent.children = IF guest.mode = "TOTAL_ONLY" THEN None ELSE form.children
  BY <1>2, <1>3 DEF Edits!FormPayload, Edits!Input
<1> HIDE DEF sent
<1>6. sent.email = guest.email /\ sent.phone = guest.phone
  BY <1>5 DEF Edits!ChecksPass, Edits!ContactsFit
<1>7. guest.mode = "ADULTS_AND_CHILDREN" => form.adults = guest.adults /\ form.children = guest.children
  BY <1>3 DEF Edits!ChecksPass, Edits!OrZero
<1>8. back \in Normal
  BY <1>4, RoughIsPatch, MergedIs
<1>9. DOMAIN sent = Edits!Field /\ DOMAIN guest = Edits!Field
  BY <1>4 DEF Rough, Edits!GuestFields, Edits!Field
<1>10. \A field \in Edits!Field :
          back[field] = IF field \in {"email", "phone"} /\ sent[field] = "spaced" THEN "plain" ELSE sent[field]
  BY <1>9, ParsedIs DEF Edits!Merged
<1>11. guest["email"] # "spaced" /\ guest["phone"] # "spaced"
  BY EditsAssumed DEF Edits!GuestFields
<1> HIDE DEF back
<1>12. /\ back["channel"] = guest["channel"] /\ back["email"] = guest["email"] /\ back["phone"] = guest["phone"]
       /\ back["mode"] = guest["mode"] /\ back["locale"] = guest["locale"]
       /\ back["total"] = sent["total"] /\ back["adults"] = sent["adults"] /\ back["children"] = sent["children"]
  BY <1>5, <1>6, <1>10, <1>11 DEF Edits!Field
<1>13. back = Resent(guest)
  BY DEF back, sent, form, Resent
<1> QED
  BY <1>5, <1>7, <1>8, <1>12, <1>13

(* Saving it makes the same guest.                                         *)
LEMMA ResentComesBack ==
    ASSUME NEW guest \in Edits!GuestFields, Edits!ChecksPass(guest)
    PROVE  Edits!Accepted(Resent(guest)) /\ Edits!Transformed(Resent(guest)) = guest
<1> DEFINE in == Resent(guest)
<1>1. /\ in \in Normal
      /\ in.channel = guest.channel /\ in.email = guest.email /\ in.phone = guest.phone
      /\ in.mode = guest.mode /\ in.locale = guest.locale
      /\ guest.mode = "TOTAL_ONLY" => in.total = guest.total /\ in.adults = None /\ in.children = None
      /\ guest.mode = "ADULTS_AND_CHILDREN" =>
            in.total = None /\ in.adults = guest.adults /\ in.children = guest.children
  BY ResentIs
<1> HIDE DEF in
<1>2. Edits!Accepted(guest) /\ Edits!ContactsFit(guest)
  BY StoredIsAccepted DEF Edits!Accepted
<1>3. Edits!ContactsFit(in)
  BY <1>1, <1>2 DEF Edits!ContactsFit
<1>4. Edits!FieldsOk(in)
  <2>1. /\ in["email"] # "short" /\ in["phone"] # "short"
        /\ in["total"] = None \/ in["total"] \in 0..MaxTotal
        /\ in["adults"] = None \/ in["adults"] \in 0..MaxPart
        /\ in["children"] = None \/ in["children"] \in 0..MaxPart
        /\ in["channel"] # None /\ in["mode"] # None /\ in["locale"] # None
    BY <1>1, EditsAssumed DEF Edits!GuestFields, Edits!CountMode
  <2>2. \A field \in Edits!Field : Edits!FieldOk(field, in[field])
    BY <2>1 DEF Edits!FieldOk, Edits!WithinOrNone, Edits!Field
  <2>3. DOMAIN in = Edits!Field
    BY <1>1 DEF Normal, Edits!Field
  <2> QED
    BY <2>2, <2>3 DEF Edits!FieldsOk
<1>5. CASE guest.mode = "TOTAL_ONLY"
  <2>1. guest.adults = None /\ guest.children = None /\ guest.total # None
    BY <1>5, EditsAssumed DEF Edits!ChecksPass, Edits!GuestFields
  <2>2. Edits!Transformed(in) = [in EXCEPT !.adults = None, !.children = None]
    BY <1>1, <1>5 DEF Edits!Transformed
  <2>3. Edits!Transformed(in) = guest
    <3> DEFINE out == [in EXCEPT !.adults = None, !.children = None]
    <3>1. out \in Normal
      BY <1>1 DEF Normal
    <3>2. guest \in Normal
      BY DEF Edits!GuestFields, Normal
    <3>3. /\ out.channel = guest.channel /\ out.email = guest.email /\ out.phone = guest.phone
          /\ out.mode = guest.mode /\ out.locale = guest.locale
      BY <1>1 DEF Normal
    <3>4. out.total = guest.total /\ out.adults = guest.adults /\ out.children = guest.children
      BY <1>1, <1>5, <2>1 DEF Normal
    <3> HIDE DEF out
    <3>5. out = guest
      BY <3>1, <3>2, <3>3, <3>4 DEF Normal
    <3> QED
      BY <2>2, <3>5 DEF out
  <2> QED
    BY <1>1, <1>3, <1>4, <1>5, <2>1, <2>3 DEF Edits!Accepted, Edits!CountsGiven, in
<1>6. CASE guest.mode = "ADULTS_AND_CHILDREN"
  <2>1. guest.adults # None /\ guest.children # None /\ guest.total = guest.adults + guest.children
    BY <1>6 DEF Edits!ChecksPass
  <2>2. Edits!Transformed(in) = [in EXCEPT !.total = in.adults + in.children]
    BY <1>1, <1>6 DEF Edits!Transformed
  <2>3. Edits!Transformed(in) = guest
    <3> DEFINE out == [in EXCEPT !.total = in.adults + in.children]
    <3>0. in.adults + in.children \in Int
      BY <1>1, <1>6, <2>1 DEF Edits!GuestFields
    <3>1. out \in Normal
      BY <1>1, <3>0 DEF Normal
    <3>2. guest \in Normal
      BY DEF Edits!GuestFields, Normal
    <3>3. /\ out.channel = guest.channel /\ out.email = guest.email /\ out.phone = guest.phone
          /\ out.mode = guest.mode /\ out.locale = guest.locale
      BY <1>1 DEF Normal
    <3>4. out.total = guest.total /\ out.adults = guest.adults /\ out.children = guest.children
      BY <1>1, <1>6, <2>1 DEF Normal
    <3> HIDE DEF out
    <3>5. out = guest
      BY <3>1, <3>2, <3>3, <3>4 DEF Normal
    <3> QED
      BY <2>2, <3>5 DEF out
  <2> QED
    BY <1>1, <1>3, <1>4, <1>6, <2>1, <2>3 DEF Edits!Accepted, Edits!CountsGiven, in
<1> QED
  BY <1>5, <1>6 DEF Edits!GuestFields, Edits!CountMode

(* The invariant says what the run checks.                                 *)
LEMMA EditsSay == EditsInd => Edits!EditsInv
<1> SUFFICES ASSUME EditsInd PROVE Edits!EditsInv
  OBVIOUS
<1>1. \A r \in Request : req[r] = Edits!Free \/ req[r] \in Update
  BY DEF EditsInd
<1>2. Edits!TypeOK
  <2> DEFINE Shape == [pc : {"free", "write", "internal"}, fields : SUBSET Edits!Field,
                       base : Edits!GuestFields \cup {None}, next : Edits!GuestFields \cup {None}]
  <2>1. Edits!Free \in Shape
    BY DEF Edits!Free
  <2>2. Update \subseteq Shape
    BY DEF Update
  <2>3. req \in [Request -> Shape]
    BY <2>1, <2>2 DEF EditsInd
  <2> QED
    BY <2>3 DEF EditsInd, Edits!TypeOK
<1>3. Edits!ConstraintsNeverFire
  BY <1>1, FreeIs DEF Edits!ConstraintsNeverFire
<1>4. row # None => row.guest \in Edits!GuestFields /\ Edits!ChecksPass(row.guest)
  BY DEF EditsInd, Edits!Row
<1>5. Edits!StoredGuestsRevalidate
  BY <1>4, ParsedGuest, StoredIsAccepted DEF Edits!StoredGuestsRevalidate
<1>6. Edits!SavingUnchangedKeeps
  BY <1>4, ResentComesBack DEF Edits!SavingUnchangedKeeps, Resent
<1> QED
  BY <1>2, <1>3, <1>5, <1>6 DEF Edits!EditsInv

(* An update that is answered leaves what it did not name.                 *)
StaysNarrow ==
    \A r \in Request :
        req[r].pc = "write" /\ req'[r].pc = "free"
        => \A field \in Edits!Field \ (req[r].fields \cup Edits!Implied(req[r].fields)) :
              row'.guest[field] = req[r].base[field]

(* Only writing an update frees a request that held one.                   *)
LEMMA WritesAreNarrow ==
    ASSUME EditsInd, [Edits!Next]_Edits!vars
    PROVE  StaysNarrow
<1> SUFFICES ASSUME NEW r \in Request, req[r].pc = "write", req'[r].pc = "free"
             PROVE  \A field \in Edits!Field \ (req[r].fields \cup Edits!Implied(req[r].fields)) :
                        row'.guest[field] = req[r].base[field]
  BY DEF StaysNarrow
<1>1. Narrow(req[r])
  BY FreeIs DEF EditsInd, Underway
<1>2. req'[r] # req[r]
  OBVIOUS
<1>3. Edits!WriteUpdate(r)
  <2>1. ASSUME NEW q \in Request, NEW rough, Edits!Create(q, rough) PROVE FALSE
    <3>1. \E next : req' = [req EXCEPT ![q] = next]
      BY <2>1 DEF Edits!Create, Edits!Finish, Edits!Fails
    <3>2. req[q].pc = "free"
      BY <2>1 DEF Edits!Create
    <3> QED
      BY <1>2, <3>1, <3>2 DEF EditsInd
  <2>2. ASSUME NEW q \in Request, NEW patch, Edits!BeginUpdate(q, patch) PROVE FALSE
    <3>1. \E next : req' = [req EXCEPT ![q] = next]
      BY <2>2 DEF Edits!BeginUpdate, Edits!Finish
    <3>2. req[q].pc = "free"
      BY <2>2 DEF Edits!BeginUpdate
    <3> QED
      BY <1>2, <3>1, <3>2 DEF EditsInd
  <2>3. ASSUME NEW q \in Request \ {r}, Edits!WriteUpdate(q) PROVE FALSE
    <3>1. \E next : req' = [req EXCEPT ![q] = next]
      BY <2>3 DEF Edits!WriteUpdate, Edits!Finish, Edits!Fails
    <3> QED
      BY <1>2, <3>1 DEF EditsInd
  <2>4. ~Edits!Archive /\ ~Edits!Restore /\ ~(UNCHANGED Edits!vars)
    BY <1>2 DEF Edits!Archive, Edits!Restore, Edits!vars
  <2> QED
    BY <2>1, <2>2, <2>3, <2>4 DEF Edits!Next
<1>4. row'.guest = req[r].next
  BY <1>3, WriteKeeps
<1> QED
  BY <1>1, <1>4 DEF Narrow

(* The steps of a part are those of its module.                            *)
LEMMA EditSteps == [PartsNext]_all => [Edits!Next]_Edits!vars
  BY DEF PartsNext, all, edits, Edits!vars

(* So the invariant always holds.                                          *)
LEMMA EditsAlways == PartsSpec => []EditsInd
<1>1. PartsInit => EditsInd
  BY EditsInit DEF PartsInit
<1>2. EditsInd /\ [PartsNext]_all => EditsInd'
  BY EditsStep, EditSteps
<1> QED
  BY <1>1, <1>2, PTL DEF PartsSpec, all

(* What the form and any patch make of a guest the database takes, however *)
(* updates overlap; every stored guest passes its own schema unchanged,    *)
(* and the form saved without a change keeps it.                           *)
THEOREM EditsSound == PartsSpec => []EditsInv
<1>1. EditsInd => EditsInv
  BY EditsSay DEF EditsInv
<1> QED
  BY <1>1, EditsAlways, PTL

(* A patch changes what it names and what that implies.                    *)
LEMMA PatchesAreNarrow == PartsSpec => Edits!PatchesStayNarrow
<1>1. EditsInd /\ [PartsNext]_all => [StaysNarrow]_Edits!vars
  BY WritesAreNarrow, EditSteps
<1>2. PartsSpec => [][StaysNarrow]_Edits!vars
  BY <1>1, EditsAlways, PTL DEF PartsSpec, all
<1> QED
  BY <1>2 DEF StaysNarrow, Edits!PatchesStayNarrow

-----------------------------------------------------------------------------
(* GuestList.                                                              *)

(* What is assumed of the rows of the list.                                *)
LEMMA ListAssumed ==
    /\ IsFiniteSet(Guest) /\ GuestRow \subseteq Table!Row /\ \A r \in GuestRow : Table!ContactsFit(r)
<1>1. \A S : Table!IsFiniteSet(S) <=> IsFiniteSet(S)
  BY DEF Table!IsFiniteSet, IsFiniteSet
<1> QED
  BY <1>1, PartsAssumption DEF Table!ListAssumption

(* Instances of a module count alike.                                      *)
LEMMA SameCardinality == \A S : Table!Cardinality(S) = Cardinality(S)
  BY DEF Table!Cardinality, Cardinality

Present == {g \in Guest : ~guests[g].archived}
Answers(status) == {g \in Table!EventResponses : Table!Answered(guests[g], status)}
Badges(labels) == {g \in Guest : Table!StatusBadge(guests[g]) \in labels}

(* The numbers of the server, as sizes of sets of guests.                  *)
LEMMA StatisticsAre ==
    LET Has(g) == Table!Live(guests[g]) IN
    /\ Table!Statistics.totalGuests = Cardinality(Present)
    /\ Table!Statistics.notGenerated = Cardinality(Present) - Cardinality({g \in Present : Has(g)})
    /\ Table!Statistics.opened = Cardinality({g \in Present : Has(g) /\ guests[g].invitation.opens > 0})
    /\ Table!Statistics.notOpened = Cardinality({g \in Present : Has(g) /\ guests[g].invitation.opens = 0})
    /\ Table!Statistics.revoked = Cardinality({g \in Present : guests[g].invitation # None /\ ~Has(g)})
    /\ Table!Statistics.notContactable = Cardinality({g \in Present : ~Table!CanNotify(guests[g])})
  BY SameCardinality DEF Table!Statistics, Table!HowMany, Present

(* The numbers of answers, as sizes of sets of guests.                     *)
LEMMA RsvpStatisticsAre ==
    /\ Table!RsvpStatistics.pending = Cardinality({g \in Table!EventResponses : ~Table!HasRsvp(guests[g])})
    /\ Table!RsvpStatistics.accepted = Cardinality(Answers("ACCEPTED"))
    /\ Table!RsvpStatistics.declined = Cardinality(Answers("DECLINED"))
    /\ Table!RsvpStatistics.notSure = Cardinality(Answers("NOT_SURE"))
    /\ Table!RsvpStatistics.cancelled = Cardinality(Answers("CANCELLED"))
  BY SameCardinality DEF Table!RsvpStatistics, Table!HowMany, Answers

(* The rows of the list are rows the database took.                        *)
Taken == guests \in [Guest -> GuestRow]

(* A row of the list is one the database took.                             *)
LEMMA RowsAre ==
    ASSUME Taken, NEW g \in Guest
    PROVE  /\ guests[g] \in Table!Row /\ Table!ContactsFit(guests[g])
           /\ guests[g].invitation # None => guests[g].invitation \in Table!Invitation
           /\ Table!HasRsvp(guests[g]) => guests[g].invitation.rsvp.status \in Table!Status
  BY ListAssumed DEF Taken, Table!Row, Table!Invitation, Table!HasRsvp, Table!Rsvp

(* The server counts what the filters show.                                *)
LEMMA FiltersAgree ==
    ASSUME Taken
    PROVE  Table!StatisticsMatchFilters
<1>1. IsFiniteSet(Present)
  BY ListAssumed, FS_Subset DEF Present
<1>2. Table!Filtered("all") = Present
  BY DEF Table!Filtered, Table!Matches, Present
<1>3. Table!Filtered("without") = Present \ {g \in Present : Table!Live(guests[g])}
  BY DEF Table!Filtered, Table!Matches, Present
<1>4. Table!Filtered("opened") = {g \in Present : Table!Live(guests[g]) /\ guests[g].invitation.opens > 0}
  BY DEF Table!Filtered, Table!Matches, Present, Table!Live
<1>5. Table!Filtered("notOpened") = {g \in Present : Table!Live(guests[g]) /\ guests[g].invitation.opens = 0}
  BY DEF Table!Filtered, Table!Matches, Present
<1>6. Table!Filtered("cannotNotify") = {g \in Present : ~Table!CanNotify(guests[g])}
  BY DEF Table!Filtered, Table!Matches, Present
<1>7. Cardinality(Table!Filtered("without"))
         = Cardinality(Present) - Cardinality({g \in Present : Table!Live(guests[g])})
  <2> DEFINE Has == {g \in Present : Table!Live(guests[g])}
  <2>1. Present \cap Has = Has
    OBVIOUS
  <2> HIDE DEF Has
  <2>2. Cardinality(Present \ Has) = Cardinality(Present) - Cardinality(Present \cap Has)
    BY <1>1, FS_Difference
  <2> QED
    BY <1>3, <2>1, <2>2 DEF Has
<1>8. Table!StatisticsGrid.alarm <=> Table!Filtered("cannotNotify") # {}
  <2> DEFINE Dumb == {g \in Present : ~Table!CanNotify(guests[g])}
  <2>1. IsFiniteSet(Dumb)
    BY <1>1, FS_Subset
  <2>2. Table!StatisticsGrid.alarm <=> Cardinality(Dumb) > 0
    BY StatisticsAre DEF Table!StatisticsGrid
  <2> HIDE DEF Dumb
  <2>3. Cardinality(Dumb) > 0 <=> Dumb # {}
    BY <2>1, FS_EmptySet, FS_CardinalityType
  <2> QED
    BY <1>6, <2>2, <2>3 DEF Dumb
<1>9. Table!Filtered("all") = Table!Filtered("without") \cup Table!Filtered("opened") \cup Table!Filtered("notOpened")
  <2>1. \A g \in Present : Table!Live(guests[g]) => guests[g].invitation.opens > 0 \/ guests[g].invitation.opens = 0
    BY RowsAre DEF Present, Table!Live, Table!Invitation
  <2> QED
    BY <1>2, <1>3, <1>4, <1>5, <2>1
<1> QED
  BY <1>2, <1>4, <1>5, <1>7, <1>8, <1>9, StatisticsAre, SameCardinality DEF Table!StatisticsMatchFilters

(* The server counts what the badges say.                                  *)
LEMMA BadgesAgree ==
    ASSUME Taken
    PROVE  Table!AnswersMatchBadges
<1>1. ASSUME NEW status \in Table!Status PROVE Answers(status) = Badges({status})
  <2>1. ASSUME NEW g \in Guest PROVE g \in Answers(status) <=> Table!StatusBadge(guests[g]) = status
    BY RowsAre DEF Answers, Table!EventResponses, Table!StatusBadge, Table!Answered, Table!Live,
                   Table!HasRsvp, Table!Status
  <2>2. Answers(status) \subseteq Guest
    BY DEF Answers, Table!EventResponses
  <2> QED
    BY <2>1, <2>2 DEF Badges
<1>2. {g \in Table!EventResponses : ~Table!HasRsvp(guests[g])} = Badges({"opened", "ready"})
  <2>1. ASSUME NEW g \in Guest
        PROVE  g \in Table!EventResponses /\ ~Table!HasRsvp(guests[g])
                  <=> Table!StatusBadge(guests[g]) \in {"opened", "ready"}
    BY RowsAre DEF Table!EventResponses, Table!StatusBadge, Table!Live, Table!HasRsvp, Table!Status
  <2>2. Table!EventResponses \subseteq Guest
    BY DEF Table!EventResponses
  <2> QED
    BY <2>1, <2>2 DEF Badges
<1>3. {g \in Present : guests[g].invitation # None /\ ~Table!Live(guests[g])} = Badges({"revoked"})
  <2>1. ASSUME NEW g \in Guest
        PROVE  g \in Present /\ guests[g].invitation # None /\ ~Table!Live(guests[g])
                  <=> Table!StatusBadge(guests[g]) = "revoked"
    BY RowsAre DEF Present, Table!StatusBadge, Table!Live, Table!HasRsvp, Table!Status
  <2> QED
    BY <2>1 DEF Badges, Present
<1>4. Answers("ACCEPTED") = Badges({"ACCEPTED"}) /\ Answers("DECLINED") = Badges({"DECLINED"})
  BY <1>1 DEF Table!Status
<1>5. Answers("NOT_SURE") = Badges({"NOT_SURE"}) /\ Answers("CANCELLED") = Badges({"CANCELLED"})
  BY <1>1 DEF Table!Status
<1>6. /\ Table!RsvpStatistics.accepted = Cardinality(Badges({"ACCEPTED"}))
      /\ Table!RsvpStatistics.declined = Cardinality(Badges({"DECLINED"}))
      /\ Table!RsvpStatistics.notSure = Cardinality(Badges({"NOT_SURE"}))
      /\ Table!RsvpStatistics.cancelled = Cardinality(Badges({"CANCELLED"}))
      /\ Table!RsvpStatistics.pending = Cardinality(Badges({"opened", "ready"}))
      /\ Table!Statistics.revoked = Cardinality(Badges({"revoked"}))
  BY <1>2, <1>3, <1>4, <1>5, RsvpStatisticsAre, StatisticsAre
<1> QED
  BY <1>6, SameCardinality DEF Table!AnswersMatchBadges, Table!HowMany, Badges

(* The list and the form say the same.                                     *)
LEMMA TextsFollowBadges ==
    ASSUME Taken
    PROVE  Table!BadgeMatchesText
<1> SUFFICES ASSUME NEW g \in Guest
             PROVE  Table!StatusBadge(guests[g]) = Table!GuestStatusText(guests[g])
  BY DEF Table!BadgeMatchesText, Table!Shown
<1>1. guests[g].archived \in BOOLEAN
      /\ (guests[g].invitation # None => guests[g].invitation.revoked \in BOOLEAN)
  BY RowsAre DEF Table!Row, Table!Invitation
<1> QED
  BY <1>1 DEF Table!StatusBadge, Table!GuestStatusText, Table!Live, Table!HasRsvp

(* As many guests are counted as eligible as are offered an e-mail: an     *)
(* active invitation or the latest makes no difference to an e-mail.       *)
LEMMA OffersAgree == Table!EligibleAsOffered
  BY DEF Table!EligibleAsOffered, Table!EligibleGuests, Table!HowMany, Table!EmailEligible

(* Every preferred channel works.                                          *)
LEMMA ChannelsWork ==
    ASSUME Taken
    PROVE  Table!PreferredChannelsWork
<1> SUFFICES ASSUME NEW g \in Guest
             PROVE  /\ Table!Preferred(guests[g]) \subseteq Table!Available(guests[g])
                    /\ Table!CanNotify(guests[g]) <=> Table!Preferred(guests[g]) # {}
                    /\ Table!NotifyReason(guests[g]) # "NOT_CONFIGURED"
  BY DEF Table!PreferredChannelsWork
<1> DEFINE r == guests[g]
<1>1. r \in Table!Row /\ Table!ContactsFit(r)
  BY RowsAre
<1> HIDE DEF r
<1>2. r.channel \in Table!Channel /\ r.email \in BOOLEAN /\ r.phone \in BOOLEAN
  BY <1>1 DEF Table!Row
<1>3. CASE r.channel = "EMAIL"
  BY <1>1, <1>2, <1>3 DEF Table!ContactsFit, Table!Preferred, Table!Available, Table!CanNotify, Table!NotifyReason, r
<1>4. CASE r.channel = "SMS"
  BY <1>1, <1>2, <1>4 DEF Table!ContactsFit, Table!Preferred, Table!Available, Table!CanNotify, Table!NotifyReason, r
<1>5. CASE r.channel = "BOTH"
  BY <1>1, <1>2, <1>5 DEF Table!ContactsFit, Table!Preferred, Table!Available, Table!CanNotify, Table!NotifyReason, r
<1>6. CASE r.channel = "MANUAL"
  BY <1>1, <1>2, <1>6 DEF Table!ContactsFit, Table!Preferred, Table!Available, Table!CanNotify, Table!NotifyReason, r
<1> QED
  BY <1>2, <1>3, <1>4, <1>5, <1>6 DEF Table!Channel

ListInd == part = "list" => Taken

(* Rows are replaced by rows the database took.                            *)
LEMMA ListAlways == PartsSpec => []ListInd
<1>1. PartsInit => ListInd
  BY DEF PartsInit, ListInd, Table!Init, Taken
<1>2. ListInd /\ [PartsNext]_all => ListInd'
  <2> SUFFICES ASSUME part = "list", Taken, [PartsNext]_all PROVE Taken'
    BY PartStays DEF ListInd
  <2>1. [Table!Next]_Table!vars
    BY DEF PartsNext, all, table, Table!vars
  <2>2. ASSUME NEW g \in Guest, NEW r \in GuestRow, Table!Load(g, r) PROVE Taken'
    BY <2>2 DEF Table!Load, Taken
  <2>3. (Table!Next /\ ~(\E g \in Guest, r \in GuestRow : Table!Load(g, r))) => guests' = guests
    BY DEF Table!Next, Table!ToggleVisible, Table!ToggleGuest, Table!ClearSelection
  <2>4. UNCHANGED Table!vars => guests' = guests
    BY DEF Table!vars
  <2> QED
    BY <2>1, <2>2, <2>3, <2>4 DEF Taken
<1> QED
  BY <1>1, <1>2, PTL DEF PartsSpec, all

(* The numbers the server counts, the filters, the badges, the texts and   *)
(* the offers agree, for any number of guests and any rows the database    *)
(* takes.                                                                  *)
THEOREM ListSound == PartsSpec => []ListInv
<1>1. ListInd => ListInv
  BY FiltersAgree, BadgesAgree, TextsFollowBadges, OffersAgree, ChannelsWork
     DEF ListInd, ListInv, Table!ListInv
<1> QED
  BY <1>1, ListAlways, PTL

(* Ticks of guests the filter hides stay.                                  *)
HiddenStay == ticked' # ticked =>
    \A filter \in Table!Filter :
        Table!ToggleVisible(filter) =>
            ticked' \ Table!Filtered(filter) = ticked \ Table!Filtered(filter)

(* Ticking the visible guests leaves the others.                           *)
LEMMA TicksStay == PartsSpec => Table!HiddenTicksStay
<1>1. HiddenStay
  <2>1. ASSUME NEW filter, Table!ToggleVisible(filter)
        PROVE  ticked' \ Table!Filtered(filter) = ticked \ Table!Filtered(filter)
    BY <2>1 DEF Table!ToggleVisible
  <2> QED
    BY <2>1 DEF HiddenStay
<1>2. [][HiddenStay]_Table!vars
  BY <1>1, PTL
<1> QED
  BY <1>2 DEF HiddenStay, Table!HiddenTicksStay

(* A patch changes what it names, a dialog closes on what it did, and a    *)
(* tick on the visible guests leaves the hidden ones alone.                *)
THEOREM StepsDoAsAsked == PartsSpec => StepsAsAsked
  BY PatchesAreNarrow, ConfirmationsDo, TicksStay DEF StepsAsAsked
=============================================================================
