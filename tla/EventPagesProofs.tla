------------------------- MODULE EventPagesProofs -------------------------
(***************************************************************************)
(* What the runs check about an event and the page its guests see, for any *)
(* forms, notes and numbers of steps: the event and its revisions agree;   *)
(* the form keeps the times as they were typed; the two editors send no    *)
(* more than was edited; the panel that answers, the media and, with the   *)
(* two languages of the program, the language of the page are sound.       *)
(***************************************************************************)
EXTENDS MCEventPages, Sequences, FiniteSetTheorems, TLAPS

-----------------------------------------------------------------------------
(* EventRevisions.                                                         *)

(* The lock of the event's row is exclusive to the end of the transaction. *)
LockExclusive == \A s, q \in RowHolders : s = q

(* What a transaction knows by the statement it has reached.               *)
SaveShape == \A s \in Save :
                /\ save[s].pc # "idle" => save[s].form \in Form
                /\ save[s].pc = "inserting" => save[s].snapshot = Written(save[s].form)

(* Revisions are numbered without gaps.                                    *)
Dense == /\ IsFiniteSet(revisions)
         /\ Cardinality(revisions) \in Nat \ {0}
         /\ Numbers = 1..Cardinality(revisions)

(* What a read got first was said by a revision v; what it got later is no *)
(* older than v.                                                           *)
After(v, view) ==
    /\ view.number # None => v.number <= view.number
    /\ view.local # None =>
          \E w \in revisions : v.number <= w.number /\ w.content.local = view.local
ReadsForward ==
    \A r \in Read :
        IF read[r].event = None THEN read[r] = NoView
        ELSE \E v \in revisions : v.content.event = read[r].event /\ After(v, read[r])

(* Without the lock and the shape of transactions a save could insert an   *)
(* older form last; without Dense the next number could be taken; without  *)
(* ReadsForward nothing is known of a read that is not complete.           *)
RevInv == /\ TypeOK /\ LockExclusive /\ SaveShape /\ Dense
          /\ LastRevisionIsCurrent /\ SavesNeverClash /\ ReadsForward

(* Max of the first numbers.                                               *)
LEMMA MaxOfFirst ==
    ASSUME NEW n \in Nat \ {0}
    PROVE  Max((1..n) \cup {0}) = n
<1> DEFINE S == (1..n) \cup {0}
<1>1. n \in S /\ \A y \in S : n >= y
  OBVIOUS
<1>2. \A x \in S : (\A y \in S : x >= y) => x = n
  OBVIOUS
<1> HIDE DEF S
<1>3. (CHOOSE x \in S : \A y \in S : x >= y) = n
  BY <1>1, <1>2
<1> QED
  BY <1>3 DEF Max, S

LEMMA RevInit == Init => RevInv
<1> SUFFICES ASSUME Init PROVE RevInv
  OBVIOUS
<1> USE RevisionsAssumption
<1>1. PICK seed \in Form : /\ event = seed
                           /\ local = [l \in Locale |-> seed]
                           /\ revisions = {[number |-> 1,
                                            content |-> [event |-> event, local |-> local]]}
                           /\ save = [s \in Save |-> NoSave]
                           /\ read = [r \in Read |-> NoView]
  BY DEF Init
<1> DEFINE first == [number |-> 1, content |-> [event |-> event, local |-> local]]
<1>2. first \in Revision /\ revisions = {first} /\ first.number = 1
  BY <1>1 DEF Revision, Content, Texts
<1>3. TypeOK
  BY <1>1, <1>2 DEF TypeOK, Texts, SaveTx, SavePc, NoSave, View, NoView
<1>4. IsFiniteSet(revisions) /\ Cardinality(revisions) = 1
  BY <1>2, FS_Singleton
<1>5. Numbers = 1..1
  BY <1>2 DEF Numbers
<1>6. Dense
  BY <1>4, <1>5 DEF Dense
<1>7. LastNumber = 1
  BY <1>5, MaxOfFirst DEF LastNumber
<1>8. LastRevisionIsCurrent
  BY <1>2, <1>7 DEF LastRevisionIsCurrent
<1>9. LockExclusive /\ SaveShape /\ ReadsForward
  BY <1>1 DEF LockExclusive, RowHolders, SaveShape, ReadsForward, NoSave, NoView
<1>10. SavesNeverClash
  BY <1>1, <1>4, <1>5 DEF SavesNeverClash, NoSave
<1> QED
  BY <1>3, <1>6, <1>8, <1>9, <1>10 DEF RevInv

(* A step of a save that leaves what is committed, and the reads, alone.   *)
LEMMA SaveKeeps ==
    ASSUME RevInv, NEW s \in Save, NEW tx \in SaveTx,
           save' = [save EXCEPT ![s] = tx],
           UNCHANGED <<event, local, revisions, read>>,
           tx.pc # "idle" => tx.form \in Form,
           tx.pc = "inserting" => tx.snapshot = Written(tx.form) /\ tx.number = LastNumber + 1,
           tx.pc \in {"written", "inserting"} => s \in RowHolders \/ RowHolders = {}
    PROVE  RevInv'
<1> USE DEF RevInv
<1>1. TypeOK'
  BY DEF TypeOK
<1>2. Numbers' = Numbers /\ LastNumber' = LastNumber
  BY DEF Numbers, LastNumber
<1>3. \A q \in Save : save'[q] = IF q = s THEN tx ELSE save[q]
  BY DEF TypeOK
<1>4. LockExclusive'
  BY <1>3 DEF LockExclusive, RowHolders
<1>5. SaveShape' /\ SavesNeverClash'
  BY <1>2, <1>3 DEF SaveShape, SavesNeverClash, Written
<1>6. Dense' /\ LastRevisionIsCurrent' /\ ReadsForward'
  BY <1>2 DEF Dense, LastRevisionIsCurrent, ReadsForward, After
<1> QED
  BY <1>1, <1>4, <1>5, <1>6

(* The only step that commits adds one revision after all others.          *)
LEMMA InsertKeeps ==
    ASSUME RevInv, NEW s \in Save, InsertRevision(s)
    PROVE  RevInv'
<1> DEFINE n == Cardinality(revisions)
           f == save[s].form
           new == [number |-> n + 1, content |-> Written(f)]
<1> USE RevisionsAssumption
<1>1. /\ save[s].pc = "inserting" /\ f \in Form /\ n \in Nat \ {0}
      /\ save[s].number = n + 1 /\ save[s].snapshot = Written(f)
      /\ Numbers = 1..n /\ IsFiniteSet(revisions) /\ LastNumber = n
  <2>1. Numbers = 1..n /\ n \in Nat \ {0} /\ IsFiniteSet(revisions)
    BY DEF RevInv, Dense
  <2>2. LastNumber = n
    BY <2>1, MaxOfFirst DEF LastNumber
  <2> QED
    BY <2>1, <2>2 DEF RevInv, InsertRevision, SaveShape, SavesNeverClash
<1> HIDE DEF n
<1>2. ~Clash(s)
  BY <1>1 DEF Clash
<1>3. /\ event' = f /\ local' = [l \in Locale |-> f] /\ UNCHANGED read
      /\ revisions' = revisions \cup {new}
      /\ save' = [save EXCEPT ![s] = NoSave]
  BY <1>1, <1>2 DEF InsertRevision, EndSave, Written
<1>4. Written(f) = [event |-> event', local |-> local'] /\ Written(f) \in Content
  BY <1>1, <1>3 DEF Written, Content, Texts
<1>5. new \in Revision /\ new.number = n + 1 /\ new.content = Written(f)
  BY <1>1, <1>4 DEF Revision
<1> HIDE DEF new
<1>6. TypeOK'
  BY <1>1, <1>3, <1>5 DEF RevInv, TypeOK, SaveTx, SavePc, NoSave, Texts
<1>7. new \notin revisions
  <2>1. new \in revisions => new.number \in Numbers
    BY DEF Numbers
  <2>2. n + 1 \notin 1..n
    BY <1>1
  <2> QED
    BY <1>1, <1>5, <2>1, <2>2
<1>8. IsFiniteSet(revisions)' /\ Cardinality(revisions)' = n + 1
  BY <1>1, <1>3, <1>7, FS_AddElement DEF n
<1>9. Numbers' = 1..(n + 1)
  <2>1. Numbers' = Numbers \cup {n + 1}
    BY <1>3, <1>5 DEF Numbers
  <2> QED
    BY <1>1, <2>1
<1>10. Dense'
  BY <1>1, <1>8, <1>9 DEF Dense
<1>11. LastNumber' = n + 1
  BY <1>1, <1>9, MaxOfFirst DEF LastNumber
<1>12. LastRevisionIsCurrent'
  BY <1>3, <1>4, <1>5, <1>11 DEF LastRevisionIsCurrent
<1>13. \A q \in Save : /\ q # s => save'[q] = save[q] /\ save[q].pc # "inserting"
                       /\ q = s => save'[q] = NoSave
  BY <1>1, <1>3 DEF RevInv, TypeOK, LockExclusive, RowHolders
<1>14. LockExclusive' /\ SaveShape'
  BY <1>13 DEF RevInv, LockExclusive, RowHolders, SaveShape, NoSave, Written
<1>15. SavesNeverClash'
  BY <1>8, <1>9, <1>13 DEF SavesNeverClash, NoSave
<1>16. ReadsForward'
  BY <1>3 DEF RevInv, ReadsForward, After
<1> QED
  BY <1>6, <1>10, <1>12, <1>14, <1>15, <1>16 DEF RevInv

(* A step of a read whose new view was said by a revision and later ones.  *)
LEMMA ReadKeeps ==
    ASSUME RevInv, NEW r \in Read, NEW new \in View,
           Keep(r, new),
           IF new.event = None THEN new = NoView
           ELSE \E v \in revisions : v.content.event = new.event /\ After(v, new)
    PROVE  RevInv'
<1> USE DEF RevInv, Keep
<1>1. TypeOK'
  BY DEF TypeOK
<1>2. Numbers' = Numbers /\ LastNumber' = LastNumber
  BY DEF Numbers, LastNumber
<1>3. \A q \in Read : read'[q] = IF q = r THEN new ELSE read[q]
  BY DEF TypeOK
<1>4. ReadsForward'
  BY <1>3 DEF ReadsForward, After
<1>5. LockExclusive' /\ SaveShape' /\ SavesNeverClash'
  BY <1>2 DEF LockExclusive, RowHolders, SaveShape, SavesNeverClash, Written
<1>6. Dense' /\ LastRevisionIsCurrent'
  BY <1>2 DEF Dense, LastRevisionIsCurrent
<1> QED
  BY <1>1, <1>4, <1>5, <1>6

(* The newest revision is the last, and says what the event says.          *)
LEMMA NewestRevision ==
    ASSUME RevInv
    PROVE  /\ LastNumber \in Nat
           /\ \A v \in revisions : v.number <= LastNumber
           /\ \E v \in revisions : /\ v.number = LastNumber
                                   /\ v.content = [event |-> event, local |-> local]
<1> DEFINE n == Cardinality(revisions)
<1>1. n \in Nat \ {0} /\ Numbers = 1..n
  BY DEF RevInv, Dense
<1>2. LastNumber = n
  BY <1>1, MaxOfFirst DEF LastNumber
<1>3. \A v \in revisions : v.number \in 1..n
  BY <1>1 DEF Numbers
<1> QED
  BY <1>1, <1>2, <1>3 DEF RevInv, LastRevisionIsCurrent

LEMMA ReadStep ==
    ASSUME RevInv, NEW r \in Read, ReadEvent(r) \/ ReadTexts(r) \/ ReadNumber(r) \/ Answer(r)
    PROVE  RevInv'
<1> USE RevisionsAssumption
<1>1. /\ read[r] \in View /\ event \in Form /\ local \in Texts /\ None \notin Texts
      /\ revisions \subseteq Revision
  BY DEF RevInv, TypeOK, Texts
<1>2. PICK last \in revisions : /\ last.number = LastNumber
                                /\ last.content = [event |-> event, local |-> local]
  BY NewestRevision
<1>3. LastNumber \in Nat /\ \A v \in revisions : v.number \in Nat /\ v.number <= LastNumber
  BY <1>1, NewestRevision DEF Revision
<1>4. CASE ReadEvent(r)
  <2> DEFINE new == [read[r] EXCEPT !.event = event]
  <2>1. read[r] = NoView
    BY <1>4 DEF ReadEvent, RevInv, ReadsForward
  <2>2. new = [event |-> event, local |-> None, number |-> None] /\ new \in View
    BY <1>1, <2>1 DEF NoView, View
  <2>3. new.event # None /\ last.content.event = new.event /\ After(last, new)
    BY <1>1, <1>2, <2>2 DEF After
  <2>4. Keep(r, new)
    BY <1>4 DEF ReadEvent
  <2> HIDE DEF new
  <2> QED
    BY <2>2, <2>3, <2>4, ReadKeeps
<1>5. CASE ReadTexts(r)
  <2> DEFINE new == [read[r] EXCEPT !.local = local]
  <2>1. PICK v \in revisions : v.content.event = read[r].event /\ After(v, read[r])
    BY <1>5 DEF ReadTexts, MayReadRest, RevInv, ReadsForward
  <2>2. new \in View /\ new.event = read[r].event /\ new.local = local
        /\ new.number = read[r].number
    BY <1>1 DEF View
  <2>3. After(v, new)
    BY <1>2, <1>3, <2>1, <2>2 DEF After
  <2>4. Keep(r, new) /\ new.event # None
    BY <1>5, <2>2 DEF ReadTexts, MayReadRest
  <2> HIDE DEF new
  <2> QED
    BY <2>1, <2>2, <2>3, <2>4, ReadKeeps
<1>6. CASE ReadNumber(r)
  <2> DEFINE new == [read[r] EXCEPT !.number = LastNumber]
  <2>1. PICK v \in revisions : v.content.event = read[r].event /\ After(v, read[r])
    BY <1>6 DEF ReadNumber, MayReadRest, RevInv, ReadsForward
  <2>2. new \in View /\ new.event = read[r].event /\ new.local = read[r].local
        /\ new.number = LastNumber
    BY <1>1, <1>3 DEF View
  <2>3. After(v, new)
    BY <1>3, <2>1, <2>2 DEF After
  <2>4. Keep(r, new) /\ new.event # None
    BY <1>6, <2>2 DEF ReadNumber, MayReadRest
  <2> HIDE DEF new
  <2> QED
    BY <2>1, <2>2, <2>3, <2>4, ReadKeeps
<1>7. CASE Answer(r)
  <2>1. NoView \in View /\ NoView.event = None
    BY DEF NoView, View
  <2> QED
    BY <1>7, <2>1, ReadKeeps DEF Answer
<1> QED
  BY <1>4, <1>5, <1>6, <1>7

LEMMA SaveStep ==
    ASSUME RevInv, NEW s \in Save,
           \/ \E f \in Form : StartSave(s, f)
           \/ LockAndWrite(s) \/ ReadBack(s) \/ InsertRevision(s) \/ SaveFails(s)
    PROVE  RevInv'
<1>1. /\ save[s] \in SaveTx /\ LastNumber \in Nat
      /\ save[s].pc # "idle" => save[s].form \in Form
  BY NewestRevision DEF RevInv, TypeOK, SaveShape
<1>2. ASSUME NEW f \in Form, StartSave(s, f) PROVE RevInv'
  <2> DEFINE tx == [NoSave EXCEPT !.pc = "locking", !.form = f]
  <2>1. tx \in SaveTx /\ tx.pc = "locking" /\ tx.form = f
    BY DEF NoSave, SaveTx, SavePc
  <2>2. save' = [save EXCEPT ![s] = tx] /\ UNCHANGED <<event, local, revisions, read>>
    BY <1>2 DEF StartSave
  <2> HIDE DEF tx
  <2> QED
    BY <2>1, <2>2, SaveKeeps
<1>3. CASE LockAndWrite(s)
  <2> DEFINE tx == [save[s] EXCEPT !.pc = "written"]
  <2>1. tx \in SaveTx /\ tx.pc = "written" /\ tx.form \in Form
    BY <1>1, <1>3 DEF LockAndWrite, SaveTx, SavePc
  <2>2. save' = [save EXCEPT ![s] = tx] /\ UNCHANGED <<event, local, revisions, read>>
        /\ RowHolders = {}
    BY <1>3 DEF LockAndWrite, RowFree
  <2> HIDE DEF tx
  <2> QED
    BY <2>1, <2>2, SaveKeeps
<1>4. CASE ReadBack(s)
  <2> DEFINE tx == [pc |-> "inserting", form |-> save[s].form, number |-> LastNumber + 1,
                    snapshot |-> Written(save[s].form)]
  <2>1. save[s].form \in Form
    BY <1>1, <1>4 DEF ReadBack
  <2>2. Written(save[s].form) \in Content
    BY <2>1 DEF Written, Content, Texts
  <2>3. /\ tx \in SaveTx /\ tx.pc = "inserting" /\ tx.form = save[s].form
        /\ tx.number = LastNumber + 1 /\ tx.snapshot = Written(save[s].form)
    BY <1>1, <2>1, <2>2 DEF SaveTx, SavePc
  <2>4. save' = [save EXCEPT ![s] = tx] /\ UNCHANGED <<event, local, revisions, read>>
        /\ s \in RowHolders
    BY <1>4 DEF ReadBack, RowHolders
  <2> HIDE DEF tx
  <2> QED
    BY <2>1, <2>3, <2>4, SaveKeeps
<1>5. CASE InsertRevision(s)
  BY <1>5, InsertKeeps
<1>6. CASE SaveFails(s)
  <2>1. NoSave \in SaveTx /\ NoSave.pc = "idle"
    BY DEF NoSave, SaveTx, SavePc
  <2> QED
    BY <1>6, <2>1, SaveKeeps DEF SaveFails, EndSave
<1> QED
  BY <1>2, <1>3, <1>4, <1>5, <1>6

LEMMA RevStep == RevInv /\ [Next]_vars => RevInv'
<1> SUFFICES ASSUME RevInv, [Next]_vars PROVE RevInv'
  OBVIOUS
<1>1. CASE Next
  BY <1>1, SaveStep, ReadStep DEF Next
<1>2. CASE UNCHANGED vars
  BY <1>2 DEF vars, RevInv, TypeOK, LockExclusive, RowHolders, SaveShape, Dense, Numbers,
              LastNumber, LastRevisionIsCurrent, SavesNeverClash, ReadsForward, After
<1> QED
  BY <1>1, <1>2

LEMMA RevImplies == RevInv => RevisionsInv
<1> SUFFICES ASSUME RevInv PROVE ShownNumberNotOlder
  BY DEF RevInv, RevisionsInv
<1>1. ASSUME NEW r \in Read, Complete(r)
      PROVE  /\ \E v \in revisions : /\ v.number <= read[r].number
                                      /\ v.content.event = read[r].event
             /\ \E v, w \in revisions : /\ v.number <= w.number
                                         /\ v.content.event = read[r].event
                                         /\ w.content.local = read[r].local
  <2>1. read[r].event # None /\ read[r].local # None /\ read[r].number # None
    BY <1>1 DEF Complete
  <2>2. PICK v \in revisions : v.content.event = read[r].event /\ After(v, read[r])
    BY <2>1 DEF RevInv, ReadsForward
  <2> QED
    BY <2>1, <2>2 DEF After
<1> QED
  BY <1>1 DEF ShownNumberNotOlder

(* Saves and their failures, in any order and number, leave an event that  *)
(* its newest revision describes, numbers without gaps, and readers who    *)
(* never see a revision number or texts older than the fields.             *)
THEOREM RevisionsAgree == Spec => []RevisionsInv
<1>1. Spec => []RevInv
  BY RevInit, RevStep, PTL DEF Spec
<1> QED
  BY <1>1, RevImplies, PTL

-----------------------------------------------------------------------------
(* EventDraft: the form of the event.                                      *)

Drafted == [start : Int, end : Int \cup {None}, deadline : Int \cup {None},
            zone : Draft!Zone, locale : Draft!Language, texts : [Draft!Language -> Draft!Texts],
            address : {None, "partial", "complete"},
            latitude : Draft!Text, longitude : Draft!Text, maps : Draft!Text,
            animated : BOOLEAN, animation : {"NONE", "SUBTLE", "IMMERSIVE"},
            music : BOOLEAN, audio : Draft!Text]

(* The time typed last is still what localInputToIso made of it.           *)
TypedIsStored ==
    typed # None => \E l \in Int : /\ typed.local = l
                                   /\ \/ typed.field = "start" /\ draft.start = Draft!Instant(l, draft.zone)
                                      \/ typed.field = "end" /\ draft.end = Draft!Instant(l, draft.zone)
                                      \/ typed.field = "deadline" /\ draft.deadline = Draft!Instant(l, draft.zone)

DraftInd == draft \in Drafted /\ TypedIsStored

LEMMA InstantIsInteger ==
    ASSUME NEW l \in Int, NEW z \in Draft!Zone
    PROVE  Draft!Instant(l, z) \in Int
BY DEF Draft!Instant, Draft!Nearer, Draft!Shown, Draft!Offset, Draft!Zone, Draft!Change

(* Three steps find the instant of any local time the zone has.            *)
LEMMA InstantIsShown ==
    ASSUME NEW l \in Int, NEW z \in Draft!Zone, NEW utc \in Int, Draft!Shown(utc, z) = l
    PROVE  Draft!Shown(Draft!Instant(l, z), z) = l
<1>1. CASE z = "fixed"
  BY <1>1 DEF Draft!Instant, Draft!Nearer, Draft!Shown, Draft!Offset
<1>2. CASE z = "spring"
  BY <1>2 DEF Draft!Instant, Draft!Nearer, Draft!Shown, Draft!Offset, Draft!Change
<1>3. CASE z = "fall"
  BY <1>3 DEF Draft!Instant, Draft!Nearer, Draft!Shown, Draft!Offset, Draft!Change
<1> QED
  BY <1>1, <1>2, <1>3 DEF Draft!Zone

(* The form comes back from a save as it was sent.                         *)
LEMMA LoadedAsSaved ==
    ASSUME NEW d \in Drafted
    PROVE  Draft!Loaded(Draft!Stored(d)) = d
BY DEF Draft!Loaded, Draft!Stored, Drafted

LEMMA DraftInit == Draft!Init => DraftInd
<1>1. [l \in Draft!Language |-> [venue |-> None, message |-> None, arrival |-> None]]
      \in [Draft!Language -> Draft!Texts]
  BY DEF Draft!Texts, Draft!Text
<1> QED
  BY <1>1 DEF Draft!Init, Draft!NewDraft, DraftInd, Drafted, TypedIsStored, Draft!Zone,
              Draft!Language, Draft!Text

LEMMA TimesStep ==
    ASSUME DraftInd,
           \/ \E field \in Draft!Times : \/ Draft!ClearTime(field)
                                         \/ \E l \in Draft!Hour : Draft!TypeTime(field, l)
           \/ \E zone \in Draft!Zone : Draft!TypeZone(zone)
    PROVE  DraftInd'
<1>0. draft \in Drafted /\ draft.zone \in Draft!Zone
  BY DEF DraftInd, Drafted
<1>1. ASSUME NEW field \in Draft!Times, Draft!ClearTime(field) PROVE DraftInd'
  BY <1>0, <1>1 DEF Draft!ClearTime, Draft!Edit, Draft!Times, DraftInd, TypedIsStored, Drafted
<1>2. ASSUME NEW zone \in Draft!Zone, Draft!TypeZone(zone) PROVE DraftInd'
  BY <1>0, <1>2 DEF Draft!TypeZone, Draft!Edit, DraftInd, TypedIsStored, Drafted
<1>3. ASSUME NEW field \in Draft!Times, NEW l \in Draft!Hour, Draft!TypeTime(field, l) PROVE DraftInd'
  <2> DEFINE utc == Draft!Instant(l, draft.zone)
  <2>1. l \in Int /\ utc \in Int
    BY <1>0, InstantIsInteger DEF Draft!Hour
  <2>2. draft' = [draft EXCEPT ![field] = utc] /\ typed' = [field |-> field, local |-> l]
    BY <1>3 DEF Draft!TypeTime, Draft!Edit
  <2>3. draft' \in Drafted /\ draft'.zone = draft.zone
    BY <1>0, <2>1, <2>2 DEF Drafted, Draft!Times
  <2>4. typed'.field = field /\ typed'.local = l
    BY <2>2
  <2>5. TypedIsStored'
    <3>1. \/ field = "start" /\ draft'.start = utc
          \/ field = "end" /\ draft'.end = utc
          \/ field = "deadline" /\ draft'.deadline = utc
      BY <1>0, <2>2 DEF Drafted, Draft!Times
    <3> QED
      BY <2>1, <2>3, <2>4, <3>1 DEF TypedIsStored
  <2> QED
    BY <2>3, <2>5 DEF DraftInd
<1> QED
  BY <1>1, <1>2, <1>3

(* The rest of the form leaves the times alone.                            *)
LEMMA OthersStep ==
    ASSUME DraftInd,
           \/ \E l \in Draft!Language, text \in Draft!Text :
                 \E kind \in {"venue", "message", "arrival"} : Draft!TypeText(l, kind, text)
           \/ \E l \in Draft!Language : Draft!PickLocale(l)
           \/ \E address \in {None, "partial", "complete"} : Draft!TypeAddress(address)
           \/ \E value \in Draft!Text : \/ Draft!TypeCoordinate("latitude", value)
                                        \/ Draft!TypeCoordinate("longitude", value)
                                        \/ Draft!TypeMapsUrl(value) \/ Draft!TypeAudio(value)
           \/ \E mode \in {"NONE", "SUBTLE", "IMMERSIVE"} : Draft!PickAnimation(mode)
           \/ Draft!ToggleAnimation \/ Draft!ToggleMusic \/ Draft!SaveForm
    PROVE  DraftInd'
<1> SUFFICES /\ draft' \in Drafted /\ typed' = typed
             /\ draft'.zone = draft.zone /\ draft'.start = draft.start
             /\ draft'.end = draft.end /\ draft'.deadline = draft.deadline
  BY DEF DraftInd, TypedIsStored
<1>0. draft \in Drafted
  BY DEF DraftInd
<1> DEFINE Goal == /\ draft' \in Drafted /\ typed' = typed
                   /\ draft'.zone = draft.zone /\ draft'.start = draft.start
                   /\ draft'.end = draft.end /\ draft'.deadline = draft.deadline
<1>1. ASSUME NEW l \in Draft!Language, NEW text \in Draft!Text,
             NEW kind \in {"venue", "message", "arrival"}, Draft!TypeText(l, kind, text)
      PROVE  Goal
  <2>1. [draft.texts[l] EXCEPT ![kind] = text] \in Draft!Texts
    BY <1>0 DEF Drafted, Draft!Texts
  <2> QED
    BY <1>0, <1>1, <2>1 DEF Draft!TypeText, Draft!Edit, Draft!Keep, Drafted
<1>2. ASSUME \/ \E l \in Draft!Language : Draft!PickLocale(l)
             \/ \E address \in {None, "partial", "complete"} : Draft!TypeAddress(address)
             \/ \E mode \in {"NONE", "SUBTLE", "IMMERSIVE"} : Draft!PickAnimation(mode)
      PROVE  Goal
  BY <1>0, <1>2 DEF Draft!PickLocale, Draft!TypeAddress, Draft!PickAnimation, Draft!Edit, Draft!Keep, Drafted
<1>3. ASSUME NEW value \in Draft!Text,
             \/ Draft!TypeCoordinate("latitude", value) \/ Draft!TypeCoordinate("longitude", value)
             \/ Draft!TypeMapsUrl(value) \/ Draft!TypeAudio(value)
      PROVE  Goal
  BY <1>0, <1>3 DEF Draft!TypeCoordinate, Draft!TypeMapsUrl, Draft!TypeAudio, Draft!Edit, Draft!Keep, Drafted
<1>4. ASSUME Draft!ToggleAnimation PROVE Goal
  <2>1. (IF draft.animated THEN "NONE" ELSE IF draft.animation = "NONE" THEN "SUBTLE" ELSE draft.animation)
        \in {"NONE", "SUBTLE", "IMMERSIVE"}
    BY <1>0 DEF Drafted
  <2> QED
    BY <1>0, <1>4, <2>1 DEF Draft!ToggleAnimation, Draft!Edit, Draft!Keep, Drafted
<1>5. ASSUME Draft!ToggleMusic PROVE Goal
  BY <1>0, <1>5 DEF Draft!ToggleMusic, Draft!Edit, Draft!Keep, Drafted
<1>6. ASSUME Draft!SaveForm PROVE Goal
  BY <1>0, <1>6, LoadedAsSaved DEF Draft!SaveForm
<1> QED
  BY <1>1, <1>2, <1>3, <1>4, <1>5, <1>6

LEMMA DraftStep == DraftInd /\ [Draft!Next]_Draft!vars => DraftInd'
<1> SUFFICES ASSUME DraftInd, [Draft!Next]_Draft!vars PROVE DraftInd'
  OBVIOUS
<1>1. CASE Draft!Next
  BY <1>1, TimesStep, OthersStep DEF Draft!Next
<1>2. CASE UNCHANGED Draft!vars
  BY <1>2 DEF Draft!vars, DraftInd, TypedIsStored
<1> QED
  BY <1>1, <1>2

LEMMA ChecksNeverFire == ASSUME draft \in Drafted PROVE Draft!EventChecksNeverFire
BY DEF Draft!EventChecksNeverFire, Draft!Accepted, Draft!Stored, Draft!EventChecks,
       Draft!ProviderEnd, Drafted

LEMMA TextsAgree == ASSUME draft \in Drafted PROVE Draft!TextsAgree
<1> SUFFICES ASSUME NEW l \in Draft!Language
             PROVE  LET s == Draft!Stored(draft) IN
                    /\ Draft!PageTexts(s, l).venue = Draft!CalendarTexts(s, l).venue
                    /\ Draft!PageTexts(s, l).message = Draft!CalendarTexts(s, l).message
                    /\ Draft!IcsTexts(s, l) = Draft!CalendarTexts(s, l)
                    /\ Draft!Loaded(s) = draft
  BY DEF Draft!TextsAgree
<1> DEFINE s == Draft!Stored(draft)
<1>1. s.local = draft.texts /\ s.row.texts = draft.texts[draft.locale] /\ s.row.locale = draft.locale
  BY DEF Draft!Stored, Drafted
<1>2. Draft!Loaded(s) = draft
  BY LoadedAsSaved
<1> HIDE DEF s
<1>3. /\ Draft!Presented(s, l).venue = Draft!Or(s.local[l].venue, s.row.texts.venue)
      /\ Draft!Presented(s, s.row.locale).venue = s.row.texts.venue
      /\ Draft!Presented(s, l).message = Draft!Or(s.local[l].message, s.row.texts.message)
      /\ Draft!Presented(s, s.row.locale).message = s.row.texts.message
  BY <1>1 DEF Draft!Presented, Draft!Or
<1>4. /\ Draft!PageTexts(s, l).venue = Draft!CalendarTexts(s, l).venue
      /\ Draft!PageTexts(s, l).message = Draft!CalendarTexts(s, l).message
  BY <1>3 DEF Draft!PageTexts, Draft!CalendarTexts, Draft!Or
<1> QED
  BY <1>2, <1>4 DEF Draft!IcsTexts, s

LEMMA PlacesAgree == ASSUME draft \in Drafted PROVE Draft!PlacesAgree
BY PartsAssumption
   DEF Draft!PlacesAgree, Draft!Stored, Draft!MapLinks, Draft!Readiness, Draft!ProviderMenu,
       Draft!PrimaryLink, Draft!EmbedsMap, Draft!Coordinates, Draft!DraftAssumption, Drafted

LEMMA SwitchesReachGuests == ASSUME draft \in Drafted PROVE Draft!SwitchesReachGuests
BY DEF Draft!SwitchesReachGuests, Draft!Accepted, Draft!Presentation, Drafted

LEMMA DraftAlways == PartsSpec => []DraftInd
<1>1. PartsInit => DraftInd
  BY DraftInit DEF PartsInit
<1>2. [PartsNext]_<<part, vars, drafts, editors, answers, stage, pages>> => [Draft!Next]_Draft!vars
  BY DEF PartsNext, drafts, Draft!vars
<1> QED
  BY <1>1, <1>2, DraftStep, PTL DEF PartsSpec

(* Every form the editor can hold is sent as a body whose checks pass, its *)
(* texts reach the page and the calendars alike, its place gives the same  *)
(* links everywhere, and its switches decide what guests meet.             *)
THEOREM DraftSound == PartsSpec => []DraftInv
<1>1. DraftInd => DraftInv
  BY ChecksNeverFire, TextsAgree, PlacesAgree, SwitchesReachGuests
     DEF DraftInd, DraftInv, Draft!DraftInv
<1> QED
  BY <1>1, DraftAlways, PTL

(* A time that was typed last and exists in its zone is shown as typed, on *)
(* both sides of a change of the clocks.                                   *)
THEOREM TimesAreShown == PartsSpec => []TypedTimeIsShown
<1>1. DraftInd => Draft!TypedTimeIsShown
  <2> SUFFICES ASSUME DraftInd, typed # None, NEW utc \in Int,
                      Draft!Shown(utc, draft.zone) = typed.local
               PROVE  Draft!Shown(draft[typed.field], draft.zone) = typed.local
    BY DEF Draft!TypedTimeIsShown, Draft!Exists
  <2>1. PICK l \in Int : /\ typed.local = l
                         /\ \/ typed.field = "start" /\ draft.start = Draft!Instant(l, draft.zone)
                            \/ typed.field = "end" /\ draft.end = Draft!Instant(l, draft.zone)
                            \/ typed.field = "deadline" /\ draft.deadline = Draft!Instant(l, draft.zone)
    BY DEF DraftInd, TypedIsStored
  <2>2. draft.zone \in Draft!Zone
    BY DEF DraftInd, Drafted
  <2>3. draft[typed.field] = Draft!Instant(l, draft.zone)
    BY <2>1
  <2> QED
    BY <2>1, <2>2, <2>3, InstantIsShown
<1>2. DraftInd => TypedTimeIsShown
  BY <1>1 DEF TypedTimeIsShown
<1> QED
  BY <1>2, DraftAlways, PTL

-----------------------------------------------------------------------------
(* EventEditors: the editor and the modal of the dashboard.                *)

Pictured == [pictures : Value, rest : Value]
Said == [fields : Pictured, revision : Nat]
Opens == [loaded : Said, fields : Pictured]
Patched == [author : {"editor", "modal", "closed modal", "gone"}, base : Said,
            fields : Pictured, answer : Said \cup {None}, edited : SUBSET {"pictures", "rest"}]

EditorsTyped ==
    /\ editorEvent \in Said
    /\ editor \in [form : Opens \cup {None}, dirty : BOOLEAN, saving : BOOLEAN,
                   message : {None, "error", "saved"}]
    /\ preview \in [revision : Nat \cup {None}, asked : BOOLEAN, failed : BOOLEAN]
    /\ patches \subseteq Patched
    /\ modal # None \/ (\E p \in patches : p.author = "modal") =>
           modal \in [form : Opens \cup {None}, saving : BOOLEAN]

(* Nobody has loaded or was answered a revision the server has not given.  *)
NoneAhead ==
    /\ editor.form # None => editor.form.loaded.revision <= editorEvent.revision
    /\ \A p \in patches : p.answer # None => p.answer.revision <= editorEvent.revision

(* A patch sends back as it was loaded whatever was not edited.            *)
SendsAsLoaded ==
    \A p \in patches : \A f \in {"pictures", "rest"} \ p.edited : p.fields[f] = p.base.fields[f]

EditorsInd == /\ EditorsTyped /\ NoneAhead /\ SendsAsLoaded
              /\ Editors!CleanMeansSaved /\ Editors!PreviewFollowsSaves

LEMMA EditorsInit == Editors!Init => EditorsInd
BY PartsAssumption
   DEF Editors!EditorsAssumption, Editors!Init, Editors!NewEditor, Editors!NewPreview, EditorsInd,
       EditorsTyped, NoneAhead, SendsAsLoaded, Editors!CleanMeansSaved, Editors!PreviewFollowsSaves,
       Said, Pictured

(* Updates that change hands still say the same.                           *)
LEMMA RenamedSayTheSame ==
    ASSUME NEW authors, NEW author \in {"closed modal", "gone"}, patches \subseteq Patched,
           NEW p \in Editors!Renamed(authors, author)
    PROVE  /\ p \in Patched
           /\ \E q \in patches : /\ p.answer = q.answer /\ p.edited = q.edited
                                 /\ p.fields = q.fields /\ p.base = q.base
                                 /\ p.author = q.author \/ (q.author \in authors /\ p.author = author)
                                 /\ q.author \in authors => p.author = author
<1>1. PICK q \in patches : p = IF q.author \in authors THEN [q EXCEPT !.author = author] ELSE q
  BY DEF Editors!Renamed
<1>2. q \in Patched
  OBVIOUS
<1> QED
  BY <1>1, <1>2 DEF Patched

LEMMA PatchIsNarrow ==
    ASSUME NEW author \in {"editor", "modal"}, NEW form \in Opens
    PROVE  LET p == Editors!Patch(author, form, form.fields) IN
           /\ p \in Patched /\ p.answer = None /\ p.author = author
           /\ \A f \in {"pictures", "rest"} \ p.edited : p.fields[f] = p.base.fields[f]
BY DEF Editors!Patch, Opens, Patched

(* What happens at the page of the editor.                                 *)
LEMMA EditorSteps ==
    ASSUME EditorsInd,
           \/ Editors!LoadEditor \/ Editors!LoadFails \/ Editors!ReloadEditor \/ Editors!SaveEditor
           \/ \E value \in Value : Editors!Type("pictures", value) \/ Editors!Type("rest", value)
           \/ Editors!PreviewArrives \/ Editors!PreviewFails
    PROVE  EditorsInd'
<1> USE PartsAssumption DEF Editors!EditorsAssumption
<1>0. EditorsTyped /\ NoneAhead /\ SendsAsLoaded
  BY DEF EditorsInd
<1>1. CASE Editors!LoadEditor
  <2> DEFINE new == Editors!Opened(editorEvent)
  <2>1. new \in Opens /\ new.loaded = editorEvent /\ new.fields = editorEvent.fields
    BY <1>0 DEF EditorsTyped, Said, Opens, Editors!Opened
  <2>2. /\ editor' = [editor EXCEPT !.form = new] /\ UNCHANGED <<editorEvent, modal, patches>>
        /\ preview' = [preview EXCEPT !.asked = TRUE, !.failed = FALSE]
    BY <1>1 DEF Editors!LoadEditor, Editors!Previewed
  <2> HIDE DEF new
  <2>3. EditorsTyped'
    BY <1>0, <2>1, <2>2 DEF EditorsTyped
  <2>4. editor'.form = new /\ preview'.asked
    BY <1>0, <2>2 DEF EditorsTyped
  <2>5. editorEvent.revision \in Nat
    BY <1>0 DEF EditorsTyped, Said
  <2>6. NoneAhead' /\ SendsAsLoaded'
    BY <1>0, <2>1, <2>2, <2>4, <2>5 DEF NoneAhead, SendsAsLoaded
  <2> QED
    BY <2>1, <2>2, <2>3, <2>4, <2>6
       DEF EditorsInd, Editors!CleanMeansSaved, Editors!PreviewFollowsSaves
<1>6. CASE Editors!LoadFails
  BY <1>0, <1>6
     DEF Editors!LoadFails, EditorsInd, EditorsTyped, NoneAhead, SendsAsLoaded,
         Editors!CleanMeansSaved, Editors!PreviewFollowsSaves
<1>2. CASE Editors!ReloadEditor
  <2>1. ASSUME NEW p \in patches'
        PROVE  /\ p \in Patched
               /\ p.answer # None => p.answer.revision <= editorEvent.revision
               /\ \A f \in {"pictures", "rest"} \ p.edited : p.fields[f] = p.base.fields[f]
               /\ p.author = "modal" => \E q \in patches : q.author = "modal"
    <3>1. p \in Editors!Renamed({"editor"}, "gone") /\ patches \subseteq Patched
      BY <1>0, <1>2, <2>1 DEF EditorsTyped, Editors!ReloadEditor
    <3>2. PICK q \in patches :
             /\ p.answer = q.answer /\ p.edited = q.edited
             /\ p.fields = q.fields /\ p.base = q.base
             /\ p.author = q.author \/ (q.author \in {"editor"} /\ p.author = "gone")
             /\ q.author \in {"editor"} => p.author = "gone"
      BY <3>1, RenamedSayTheSame
    <3>3. p \in Patched
      BY <3>1, RenamedSayTheSame
    <3> QED
      BY <1>0, <3>2, <3>3 DEF NoneAhead, SendsAsLoaded
  <2>2. /\ editor' = Editors!NewEditor /\ preview' = Editors!NewPreview
        /\ UNCHANGED <<editorEvent, modal>>
    BY <1>2 DEF Editors!ReloadEditor
  <2>3. EditorsTyped'
    BY <1>0, <2>1, <2>2 DEF EditorsTyped, Editors!NewEditor, Editors!NewPreview
  <2>4. NoneAhead' /\ SendsAsLoaded'
    BY <1>0, <2>1, <2>2 DEF NoneAhead, SendsAsLoaded, Editors!NewEditor
  <2> QED
    BY <2>2, <2>3, <2>4
       DEF EditorsInd, Editors!NewEditor, Editors!CleanMeansSaved, Editors!PreviewFollowsSaves
<1>3. CASE Editors!SaveEditor
  <2>1. editor.form \in Opens
    BY <1>0, <1>3 DEF EditorsTyped, Editors!SaveEditor
  <2>2. PICK p \in Patched :
           /\ p.answer = None /\ p.author = "editor"
           /\ \A f \in {"pictures", "rest"} \ p.edited : p.fields[f] = p.base.fields[f]
           /\ patches' = patches \cup {p}
    BY <1>3, <2>1, PatchIsNarrow DEF Editors!SaveEditor, Editors!EditorPayload
  <2>3. /\ editor' = [editor EXCEPT !.saving = TRUE, !.message = None]
        /\ editor.form # None /\ editor.dirty /\ UNCHANGED <<editorEvent, preview, modal>>
    BY <1>3 DEF Editors!SaveEditor
  <2>4. EditorsTyped' /\ UNCHANGED <<editor.form, editor.dirty>> /\ editor'.message = None
    BY <1>0, <2>2, <2>3 DEF EditorsTyped
  <2>5. NoneAhead' /\ SendsAsLoaded'
    BY <1>0, <2>2, <2>3, <2>4 DEF NoneAhead, SendsAsLoaded
  <2> QED
    BY <2>3, <2>4, <2>5
       DEF EditorsInd, Editors!CleanMeansSaved, Editors!PreviewFollowsSaves
<1>4. ASSUME NEW value \in Value, Editors!Type("pictures", value) \/ Editors!Type("rest", value)
      PROVE  EditorsInd'
  <2>1. /\ editor.form \in Opens /\ editor.form # None
        /\ UNCHANGED <<editorEvent, preview, modal, patches>>
    BY <1>0, <1>4 DEF EditorsTyped, Editors!Type
  <2>2. PICK new \in Opens : /\ new.loaded = editor.form.loaded
                             /\ editor' = [editor EXCEPT !.form = new, !.dirty = TRUE, !.message = None]
    <3>1. CASE Editors!Type("pictures", value)
      <4> DEFINE new == [editor.form EXCEPT !.fields = [@ EXCEPT !.pictures = value]]
      <4>1. new \in Opens /\ new.loaded = editor.form.loaded
        BY <2>1 DEF Opens, Pictured
      <4>2. editor' = [editor EXCEPT !.form = new, !.dirty = TRUE, !.message = None]
        BY <3>1 DEF Editors!Type
      <4> QED
        BY <4>1, <4>2
    <3>2. CASE Editors!Type("rest", value)
      <4> DEFINE new == [editor.form EXCEPT !.fields = [@ EXCEPT !.rest = value]]
      <4>1. new \in Opens /\ new.loaded = editor.form.loaded
        BY <2>1 DEF Opens, Pictured
      <4>2. editor' = [editor EXCEPT !.form = new, !.dirty = TRUE, !.message = None]
        BY <3>2 DEF Editors!Type
      <4> QED
        BY <4>1, <4>2
    <3> QED
      BY <1>4, <3>1, <3>2
  <2>3. EditorsTyped' /\ editor'.form = new /\ editor'.dirty /\ editor'.message = None
    BY <1>0, <2>1, <2>2 DEF EditorsTyped
  <2> QED
    BY <1>0, <2>1, <2>2, <2>3
       DEF EditorsInd, NoneAhead, SendsAsLoaded, Editors!CleanMeansSaved, Editors!PreviewFollowsSaves
<1>5. CASE Editors!PreviewArrives \/ Editors!PreviewFails
  <2>1. /\ UNCHANGED <<editorEvent, editor, modal, patches>>
        /\ preview' \in [revision : Nat \cup {None}, asked : BOOLEAN, failed : BOOLEAN]
        /\ preview'.failed \/ preview'.revision = editorEvent.revision
    <3>1. CASE Editors!PreviewArrives
      BY <1>0, <3>1 DEF Editors!PreviewArrives, EditorsTyped, Said
    <3>2. CASE Editors!PreviewFails
      BY <1>0, <3>2 DEF Editors!PreviewFails, EditorsTyped
    <3> QED
      BY <1>5, <3>1, <3>2
  <2>2. /\ editorEvent.revision \in Nat
        /\ editor.form # None => editor.form.loaded.revision \in Nat
    BY <1>0 DEF EditorsTyped, Said, Opens
  <2> QED
    BY <1>0, <2>1, <2>2
       DEF EditorsInd, EditorsTyped, NoneAhead, SendsAsLoaded, Editors!CleanMeansSaved,
           Editors!PreviewFollowsSaves
<1> QED
  BY <1>1, <1>2, <1>3, <1>4, <1>5, <1>6

(* What happens at the dashboard.                                          *)
LEMMA ModalSteps ==
    ASSUME EditorsInd,
           \/ Editors!LoadDashboard \/ Editors!OpenModal \/ Editors!LoadModal
           \/ Editors!SaveModal \/ Editors!CloseModal
           \/ \E value \in Value : Editors!TypeModal(value)
           \/ \E p \in patches : Editors!ModalSaved(p) \/ Editors!ModalRefused(p)
    PROVE  EditorsInd'
<1> DEFINE Modals == [form : Opens \cup {None}, saving : BOOLEAN]
           Good(p) == /\ p \in Patched
                      /\ p.answer # None => p.answer.revision <= editorEvent.revision
                      /\ \A f \in {"pictures", "rest"} \ p.edited : p.fields[f] = p.base.fields[f]
<1>0. /\ EditorsTyped /\ NoneAhead /\ SendsAsLoaded
      /\ Editors!CleanMeansSaved /\ Editors!PreviewFollowsSaves
      /\ \A p \in patches : Good(p)
  BY DEF EditorsInd, EditorsTyped, NoneAhead, SendsAsLoaded
<1>1. ASSUME UNCHANGED <<editorEvent, editor, preview>>, \A p \in patches' : Good(p),
             modal' # None \/ (\E p \in patches' : p.author = "modal") => modal' \in Modals
      PROVE  EditorsInd'
  BY <1>0, <1>1
     DEF EditorsInd, EditorsTyped, NoneAhead, SendsAsLoaded, Editors!CleanMeansSaved,
         Editors!PreviewFollowsSaves
<1> HIDE DEF Good
<1>2. ASSUME NEW authors \in {{"modal"}, {"modal", "closed modal"}},
             NEW author \in {"closed modal", "gone"},
             NEW p \in Editors!Renamed(authors, author)
      PROVE  Good(p) /\ p.author # "modal"
  <2>1. PICK q \in patches : p = IF q.author \in authors THEN [q EXCEPT !.author = author] ELSE q
    BY <1>2 DEF Editors!Renamed
  <2>2. Good(q) /\ q \in Patched
    BY <1>0 DEF EditorsTyped
  <2>3. q.author \in authors => [q EXCEPT !.author = author] \in Patched
    BY <2>2 DEF Patched
  <2>4. q.author \notin authors => q.author # "modal"
    BY <1>2
  <2> QED
    BY <1>2, <2>1, <2>2, <2>3, <2>4 DEF Good, Patched
<1>3. ASSUME modal' = None, NEW authors \in {{"modal"}, {"modal", "closed modal"}},
             NEW author \in {"closed modal", "gone"},
             patches' \subseteq Editors!Renamed(authors, author),
             UNCHANGED <<editorEvent, editor, preview>>
      PROVE  EditorsInd'
  BY <1>1, <1>2, <1>3
<1>4. CASE Editors!LoadDashboard
  BY <1>3, <1>4 DEF Editors!LoadDashboard
<1>5. CASE Editors!CloseModal
  BY <1>3, <1>5 DEF Editors!CloseModal
<1>6. CASE \E p \in patches : Editors!ModalSaved(p)
  BY <1>3, <1>6 DEF Editors!ModalSaved
<1>7. CASE Editors!OpenModal
  <2>1. modal' \in Modals
    BY <1>7 DEF Editors!OpenModal, Editors!NewModal
  <2> QED
    BY <1>0, <1>1, <1>7, <2>1 DEF Editors!OpenModal
<1>8. CASE Editors!LoadModal
  <2>1. Editors!Opened(editorEvent) \in Opens
    BY <1>0 DEF EditorsTyped, Said, Opens, Editors!Opened
  <2>2. modal' \in Modals
    BY <1>0, <1>8, <2>1 DEF Editors!LoadModal, EditorsTyped
  <2> QED
    BY <1>0, <1>1, <1>8, <2>2 DEF Editors!LoadModal
<1>9. ASSUME NEW value \in Value, Editors!TypeModal(value) PROVE EditorsInd'
  <2>1. modal' \in Modals
    BY <1>0, <1>9 DEF Editors!TypeModal, EditorsTyped, Opens, Pictured
  <2> QED
    BY <1>0, <1>1, <1>9, <2>1 DEF Editors!TypeModal
<1>10. CASE Editors!SaveModal
  <2>1. modal \in Modals /\ modal.form \in Opens
    BY <1>0, <1>10 DEF EditorsTyped, Editors!SaveModal
  <2>2. modal' \in Modals
    BY <1>10, <2>1 DEF Editors!SaveModal
  <2>3. Good(Editors!Patch("modal", modal.form, modal.form.fields))
    BY <2>1, PatchIsNarrow DEF Good
  <2> QED
    BY <1>0, <1>1, <1>10, <2>2, <2>3 DEF Editors!SaveModal
<1>11. ASSUME NEW p \in patches, Editors!ModalRefused(p) PROVE EditorsInd'
  <2>1. modal \in Modals
    BY <1>0, <1>11 DEF Editors!ModalRefused, EditorsTyped
  <2>2. modal' \in Modals
    BY <1>11, <2>1 DEF Editors!ModalRefused
  <2> QED
    BY <1>0, <1>1, <1>11, <2>2 DEF Editors!ModalRefused
<1> QED
  BY <1>4, <1>5, <1>6, <1>7, <1>8, <1>9, <1>10, <1>11

(* What becomes of an update on its way.                                   *)
LEMMA PatchSteps ==
    ASSUME EditorsInd, NEW p \in patches,
           Editors!Serve(p) \/ Editors!EditorAnswer(p) \/ Editors!Dropped(p)
    PROVE  EditorsInd'
<1>0. EditorsTyped /\ NoneAhead /\ SendsAsLoaded
  BY DEF EditorsInd
<1>1. CASE Editors!Serve(p)
  <2> DEFINE saved == [fields |-> p.fields, revision |-> editorEvent.revision + 1]
             q == [p EXCEPT !.answer = saved]
  <2>0. p.fields \in Pictured /\ editorEvent.revision \in Nat
    BY <1>0 DEF EditorsTyped, Patched, Said
  <2>1. saved \in Said /\ saved.revision = editorEvent.revision + 1
    BY <2>0 DEF Said
  <2>2. /\ q \in Patched /\ q.answer = saved
        /\ q.fields = p.fields /\ q.base = p.base /\ q.edited = p.edited /\ q.author = p.author
    BY <1>0, <2>1 DEF EditorsTyped, Patched
  <2>3. /\ editorEvent' = saved /\ patches' = (patches \ {p}) \cup {q}
        /\ UNCHANGED <<editor, preview, modal>>
    BY <1>1 DEF Editors!Serve
  <2> HIDE DEF saved, q
  <2>4. EditorsTyped'
    BY <1>0, <2>1, <2>2, <2>3 DEF EditorsTyped
  <2>5. \A r \in patches : r.answer # None => r.answer.revision \in Nat
    BY <1>0 DEF EditorsTyped, Patched, Said
  <2>6. editor.form # None => editor.form.loaded.revision \in Nat
    BY <1>0 DEF EditorsTyped, Opens, Said
  <2>7. NoneAhead'
    BY <1>0, <2>0, <2>1, <2>2, <2>3, <2>5, <2>6 DEF NoneAhead
  <2>8. SendsAsLoaded'
    BY <1>0, <2>2, <2>3 DEF SendsAsLoaded
  <2> QED
    BY <2>3, <2>4, <2>7, <2>8
       DEF EditorsInd, Editors!CleanMeansSaved, Editors!PreviewFollowsSaves
<1>2. CASE Editors!EditorAnswer(p)
  <2>1. p.answer # None => /\ Editors!Opened(p.answer) \in Opens
                           /\ Editors!Opened(p.answer).loaded = p.answer
                           /\ Editors!Opened(p.answer).fields = p.answer.fields
    BY <1>0 DEF EditorsTyped, Patched, Said, Opens, Editors!Opened
  <2>2. /\ patches' = patches \ {p} /\ UNCHANGED <<editorEvent, modal>>
        /\ preview' = IF p.answer = None THEN preview
                      ELSE Editors!Previewed(Editors!Opened(p.answer))
        /\ Editors!EditorAnswered(p)
    BY <1>2 DEF Editors!EditorAnswer
  <2>3. CASE p.answer = None
    <3>1. /\ editor' = [editor EXCEPT !.saving = FALSE, !.message = "error"]
          /\ preview' = preview
      BY <2>2, <2>3 DEF Editors!EditorAnswered
    <3>2. EditorsTyped' /\ UNCHANGED <<editor.form, editor.dirty>> /\ editor'.message = "error"
      BY <1>0, <2>2, <3>1 DEF EditorsTyped
    <3> QED
      BY <1>0, <2>2, <3>1, <3>2
         DEF EditorsInd, NoneAhead, SendsAsLoaded, Editors!CleanMeansSaved,
             Editors!PreviewFollowsSaves
  <2>4. CASE p.answer # None
    <3> DEFINE new == Editors!Opened(p.answer)
    <3>1. editor' = [form |-> new, dirty |-> FALSE, saving |-> FALSE, message |-> "saved"]
      BY <2>2, <2>4 DEF Editors!EditorAnswered
    <3>2. preview' = Editors!Previewed(new)
      BY <2>2, <2>4
    <3>3. new.loaded.revision <= editorEvent.revision /\ new.fields = new.loaded.fields /\ new \in Opens
      BY <1>0, <2>1, <2>4 DEF NoneAhead
    <3> HIDE DEF new
    <3>4. EditorsTyped'
      BY <1>0, <2>2, <3>1, <3>2, <3>3 DEF EditorsTyped, Editors!Previewed
    <3>5. NoneAhead' /\ SendsAsLoaded'
      BY <1>0, <2>2, <3>1, <3>3 DEF NoneAhead, SendsAsLoaded
    <3>6. Editors!CleanMeansSaved'
      BY <3>1, <3>3 DEF Editors!CleanMeansSaved
    <3>7. Editors!PreviewFollowsSaves'
      BY <1>0, <3>1, <3>2 DEF EditorsInd, EditorsTyped, Editors!PreviewFollowsSaves, Editors!Previewed
    <3> QED
      BY <3>4, <3>5, <3>6, <3>7 DEF EditorsInd
  <2> QED
    BY <2>3, <2>4
<1>3. CASE Editors!Dropped(p)
  BY <1>0, <1>3
     DEF Editors!Dropped, EditorsInd, EditorsTyped, NoneAhead, SendsAsLoaded,
         Editors!CleanMeansSaved, Editors!PreviewFollowsSaves
<1> QED
  BY <1>1, <1>2, <1>3

LEMMA EditorsStep == EditorsInd /\ [Editors!Next]_Editors!vars => EditorsInd'
<1> SUFFICES ASSUME EditorsInd, [Editors!Next]_Editors!vars PROVE EditorsInd'
  OBVIOUS
<1>1. CASE Editors!Next
  BY <1>1, EditorSteps, ModalSteps, PatchSteps DEF Editors!Next
<1>2. CASE UNCHANGED Editors!vars
  BY <1>2
     DEF Editors!vars, EditorsInd, EditorsTyped, NoneAhead, SendsAsLoaded,
         Editors!CleanMeansSaved, Editors!PreviewFollowsSaves
<1> QED
  BY <1>1, <1>2

(* Only the server changes the event, and the answer it gives is to the    *)
(* update it served.                                                       *)
LEMMA ServedIsNarrow ==
    ASSUME EditorsInd, Editors!Next, NEW p \in patches, p.answer = None, p.base = editorEvent,
           [p EXCEPT !.answer = editorEvent'] \in patches',
           NEW f \in {"pictures", "rest"} \ p.edited
    PROVE  editorEvent'.fields[f] = editorEvent.fields[f]
<1>1. EditorsTyped /\ NoneAhead /\ p.fields[f] = editorEvent.fields[f]
  BY DEF EditorsInd, SendsAsLoaded
<1>2. CASE \E q \in patches : Editors!Serve(q)
  <2>1. PICK q \in patches : Editors!Serve(q)
    BY <1>2
  <2> DEFINE saved == [fields |-> q.fields, revision |-> editorEvent.revision + 1]
             new == [p EXCEPT !.answer = saved]
  <2>2. /\ editorEvent' = saved /\ patches' = (patches \ {q}) \cup {[q EXCEPT !.answer = saved]}
    BY <2>1 DEF Editors!Serve
  <2>3. p \in Patched /\ q \in Patched /\ editorEvent.revision \in Nat
    BY <1>1 DEF EditorsTyped, Said
  <2>8. saved \in Said
    <3>1. q.fields \in Pictured
      BY <2>3 DEF Patched
    <3>2. editorEvent.revision + 1 \in Nat
      BY <2>3
    <3> QED
      BY <3>1, <3>2 DEF Said
  <2>4. new.answer = saved /\ new.fields = p.fields
    BY <2>3 DEF Patched
  <2>5. new \notin patches
    <3>1. None \notin Nat
      BY PartsAssumption DEF Editors!EditorsAssumption
    <3>2. ASSUME new \in patches PROVE FALSE
      <4>1. new \in Patched /\ (new.answer # None => new.answer.revision <= editorEvent.revision)
        BY <1>1, <3>2 DEF EditorsTyped, NoneAhead
      <4>3. saved # None
        BY <2>8, PartsAssumption DEF Editors!EditorsAssumption, Said, Pictured
      <4> QED
        BY <2>3, <2>4, <4>1, <4>3
    <3> QED
      BY <3>2
  <2>6. new = [q EXCEPT !.answer = saved]
    BY <2>2, <2>5
  <2>7. q.fields = p.fields
    BY <2>3, <2>4, <2>6 DEF Patched
  <2> QED
    BY <1>1, <2>2, <2>7
<1>3. CASE ~\E q \in patches : Editors!Serve(q)
  <2>1. editorEvent' = editorEvent
    BY <1>3 DEF Editors!Next, Editors!LoadEditor, Editors!LoadFails, Editors!ReloadEditor,
         Editors!SaveEditor, Editors!PreviewArrives, Editors!PreviewFails, Editors!LoadDashboard,
         Editors!OpenModal, Editors!LoadModal, Editors!SaveModal, Editors!CloseModal, Editors!Type,
         Editors!TypeModal, Editors!EditorAnswer, Editors!Dropped, Editors!ModalSaved,
         Editors!ModalRefused
  <2> QED
    BY <2>1
<1> QED
  BY <1>2, <1>3

LEMMA EditorsImplied ==
  /\ PartsInit => Editors!Init
  /\ [PartsNext]_<<part, vars, drafts, editors, answers, stage, pages>> => [Editors!Next]_Editors!vars
BY DEF PartsInit, PartsNext, editors, Editors!vars

LEMMA EditorsAlways == PartsSpec => []EditorsInd
BY EditorsImplied, EditorsInit, EditorsStep, PTL DEF PartsSpec

(* The host is warned on leaving the editor with anything unsaved, and the *)
(* calendar under its form is not older than the form, whatever is typed   *)
(* during a save and however the two editors overtake each other.          *)
THEOREM EditorsSound == PartsSpec => []EditorsInv
<1>1. EditorsInd => EditorsInv
  BY DEF EditorsInd, EditorsInv, Editors!EditorsInv
<1> QED
  BY <1>1, EditorsAlways, PTL

(* A save that was based on the event as it is changes nothing that was not *)
(* edited, from the editor and from the modal.                             *)
THEOREM SavesStayNarrow == PartsSpec => FreshSavesStayNarrow
<1> DEFINE Narrow == \A p \in patches :
              /\ p.answer = None /\ p.base = editorEvent
              /\ [p EXCEPT !.answer = editorEvent'] \in patches'
              => \A f \in {"pictures", "rest"} \ p.edited :
                     editorEvent'.fields[f] = editorEvent.fields[f]
<1>1. EditorsInd /\ [Editors!Next]_Editors!vars => [Narrow]_Editors!vars
  BY ServedIsNarrow
<1> QED
  BY <1>1, EditorsAlways, EditorsImplied, PTL
     DEF PartsSpec, FreshSavesStayNarrow, Editors!FreshSavesStayNarrow

-----------------------------------------------------------------------------
(* AnswerPanel: what AnswerPanelProofs proves of the panel.                *)

LEMMA PanelImplied == PartsSpec => Panel!Spec
<1>1. PartsInit => Panel!Init
  BY DEF PartsInit
<1>2. [PartsNext]_<<part, vars, drafts, editors, answers, stage, pages>> => [Panel!Next]_Panel!vars
  BY DEF PartsNext, answers, Panel!vars
<1> QED
  BY <1>1, <1>2, PTL DEF PartsSpec, Panel!Spec

(* The panel shows what its notices say and what the server stored, for any *)
(* notes, parties and numbers of answers: theorem PanelAgrees, as the pages *)
(* are composed.                                                           *)
THEOREM PanelSound == PartsSpec => []PanelInv
<1>1. Panel!Spec => []Panel!PanelInv
  BY PartsAssumption, Panel!PanelAgrees
<1>2. Panel!PanelInv => PanelInv
  BY DEF PanelInv
<1> QED
  BY <1>1, <1>2, PanelImplied, PTL

(* The server never refuses a form the panel let through: theorem          *)
(* PanelIsNotRefused, as the pages are composed.                           *)
THEOREM FormsAreAccepted == PartsSpec => GoodFormsAreAccepted
<1>1. Panel!Spec => Panel!GoodFormsAreAccepted
  BY PartsAssumption, Panel!PanelIsNotRefused
<1> QED
  BY <1>1, PanelImplied DEF GoodFormsAreAccepted

-----------------------------------------------------------------------------
(* InvitationPage.                                                         *)

(* The page waits for the calendar of its own language or for none: the    *)
(* effect aborts the others.  While it waits the calendar is still the     *)
(* rendered one, as there is no third language.                            *)
CalendarFollows ==
    /\ calendars = {} \/ calendars = {page.locale}
    /\ calendars # {} => ~page.failed /\ page.calendar = page.own /\ page.locale # page.own
    /\ calendars = {} =>
           page.calendar = IF page.failed THEN page.own ELSE page.locale
CookieFollows ==
    ~unsure /\ page.picks > 0 =>
        IF cookies = {} THEN cookie = page.locale ELSE cookies = {page.locale}
PageTyped == /\ page \in Shown!Page
             /\ cookie \in Locale \cup {None} /\ cookies \subseteq Locale
             /\ unsure \in BOOLEAN
PageInd == PageTyped /\ (~page.preview => CalendarFollows /\ CookieFollows)
                     /\ (page.preview => calendars = {})

LEMMA PageIsRendered ==
    ASSUME NEW own \in Locale, NEW seen \in BOOLEAN, cookie \in Locale \cup {None}
    PROVE  LET new == Shown!Rendered(own, seen) IN
           /\ new \in Shown!Page
           /\ new.own = own /\ new.preview = seen /\ new.calendar = own
           /\ new.failed = FALSE /\ new.picks = 0
<1>1. Shown!Resolved(own) \in Locale
  BY DEF Shown!Resolved
<1>2. (IF seen THEN own ELSE Shown!Resolved(own)) \in Locale
  BY <1>1
<1>3. 0 \in 0..MaxPicks
  BY PartsAssumption DEF Shown!PageAssumption
<1> QED
  BY <1>2, <1>3 DEF Shown!Rendered, Shown!Page

LEMMA PageInit == Shown!Init => PageInd
<1> SUFFICES ASSUME Shown!Init PROVE PageInd
  OBVIOUS
<1>1. PICK own \in Locale, seen \in BOOLEAN : page = Shown!Rendered(own, seen)
  BY DEF Shown!Init
<1>2. cookie \in Locale \cup {None} /\ cookies = {} /\ unsure = FALSE
  BY DEF Shown!Init
<1>3. /\ page \in Shown!Page /\ page.own = own /\ page.preview = seen /\ page.calendar = own
      /\ page.failed = FALSE /\ page.picks = 0
  BY <1>1, <1>2, PageIsRendered
<1>4. calendars = IF page.preview \/ page.locale = page.own THEN {} ELSE {page.locale}
  BY DEF Shown!Init, Shown!Wanted
<1>5. PageTyped
  BY <1>2, <1>3 DEF PageTyped
<1>6. CookieFollows
  BY <1>2, <1>3 DEF CookieFollows
<1> QED
  BY <1>3, <1>4, <1>5, <1>6 DEF PageInd, CalendarFollows

LEMMA PageStep == PageInd /\ Shown!Next => PageInd'
<1> SUFFICES ASSUME PageInd, Shown!Next PROVE PageInd'
  OBVIOUS
<1>0. PageTyped /\ page.own \in Locale /\ page.preview \in BOOLEAN /\ page.locale \in Locale
  BY DEF PageInd, PageTyped, Shown!Page
<1>1. CASE Shown!Load
  <2>1. /\ page' \in Shown!Page /\ page'.own = page.own /\ page'.preview = page.preview
        /\ page'.calendar = page.own /\ page'.failed = FALSE /\ page'.picks = 0
    BY <1>0, <1>1, PageIsRendered DEF PageTyped, Shown!Load
  <2> QED
    BY <1>0, <1>1, <2>1
       DEF Shown!Load, Shown!Wanted, PageInd, PageTyped, CalendarFollows, CookieFollows
<1>2. ASSUME NEW l \in Locale, Shown!SelectLocale(l) PROVE PageInd'
  <2>1. page.picks + 1 \in 0..MaxPicks
    BY <1>0, <1>2, PartsAssumption DEF Shown!SelectLocale, Shown!PageAssumption, PageTyped, Shown!Page
  <2>2. PageTyped'
    BY <1>0, <1>2, <2>1 DEF Shown!SelectLocale, PageTyped, Shown!Page
  <2>3. ~page.preview => page.calendar = page.own \/ page.calendar = page.locale
    BY DEF PageInd, CalendarFollows
  <2>4. l # page.locale /\ (l = page.own \/ page.locale = page.own)
    BY <1>0, <1>2, PartsAssumption DEF Shown!SelectLocale, Shown!PageAssumption
  <2>5. ~page'.preview => CalendarFollows' /\ CookieFollows'
    BY <1>0, <1>2, <2>3, <2>4
       DEF Shown!SelectLocale, Shown!OwnCalendar, Shown!Aborted, Shown!Wanted, PageTyped, Shown!Page,
           CalendarFollows, CookieFollows
  <2> QED
    BY <1>0, <1>2, <2>2, <2>5
       DEF Shown!SelectLocale, Shown!Aborted, Shown!Wanted, PageInd, PageTyped, Shown!Page
<1>3. ASSUME NEW l \in Locale, Shown!CalendarArrives(l) \/ Shown!CalendarFails(l) PROVE PageInd'
  BY <1>0, <1>3
     DEF Shown!CalendarArrives, Shown!CalendarFails, PageInd, PageTyped, Shown!Page,
         CalendarFollows, CookieFollows
<1>4. ASSUME NEW l \in Locale, Shown!CookieSet(l) \/ Shown!CookieLost(l) PROVE PageInd'
  BY <1>0, <1>4
     DEF Shown!CookieSet, Shown!CookieLost, PageInd, PageTyped, Shown!Page,
         CalendarFollows, CookieFollows
<1>5. CASE Shown!RevealInvitation \/ Shown!Turn
  BY <1>0, <1>5
     DEF Shown!RevealInvitation, Shown!Turn, PageInd, PageTyped, Shown!Page,
         CalendarFollows, CookieFollows
<1> QED
  BY <1>1, <1>2, <1>3, <1>4, <1>5 DEF Shown!Next

(* Between the two languages the program has (PageAssumption): however     *)
(* often the page is changed, whichever calendars arrive late, fail or     *)
(* never come, at rest it shows the calendar in its own language or, when  *)
(* its request failed, as rendered; and the next load is in the language   *)
(* picked last, unless cookies crossed or were lost.                       *)
THEOREM PageLanguage == PartsSpec => []LanguageIsKept
<1>1. PartsInit => PageInd
  BY PageInit DEF PartsInit
<1>2. PageInd /\ [PartsNext]_<<part, vars, drafts, editors, answers, stage, pages>> => PageInd'
  BY PageStep DEF PartsNext, pages, PageInd, PageTyped, CalendarFollows, CookieFollows
<1>3. PageInd => LanguageIsKept
  BY PartsAssumption
     DEF PageInd, PageTyped, CalendarFollows, CookieFollows, LanguageIsKept, Shown!PageAssumption,
         Shown!LanguageIsKept, Shown!Resolved, Shown!Page
<1> QED
  BY <1>1, <1>2, <1>3, PTL DEF PartsSpec

-----------------------------------------------------------------------------
(* MediaStage.                                                             *)

(* The tasks that change what the page shows of an element; what the last  *)
(* of them must say while the video is paused or plays, and while the      *)
(* music is heard, paused or gone because its source failed.               *)
Telling == {t \in Stage!Task : t.event # "playing" \/ t.settles # {}}
VideoPaused == {t \in Stage!Task : t.event = "pause" /\ t.settles = {}}
VideoPlays == {t \in Stage!Task : t.event # "pause" \/ t.settles # {}}
AudioHeard == {t \in Stage!Task : IF t.settles = {} THEN t.event = "play" ELSE t.ok}
AudioPaused == {t \in Stage!Task : t.settles = {} => t.event # "play"}
AudioGone == {t \in Stage!Task : IF t.settles = {} THEN t.event # "play" ELSE ~t.ok}
(* The last task of T among ts is in R; none of ts is in T.                *)
Agree(ts, T, R) ==
    \A n \in 1..Len(ts) : ts[n] \in T /\ (\A k \in 1..Len(ts) : k > n => ts[k] \notin T)
                           => ts[n] \in R
Silent(ts, T) == \A n \in 1..Len(ts) : ts[n] \notin T

(* The music is heard; what waits for an element is its own.               *)
Hears(el) == ~el.paused /\ ~el.failed
Handles(el, own) == el.waiting \subseteq own /\ \A n \in 1..Len(el.tasks) : el.tasks[n].settles \subseteq own
(* What is shown of the video is how it is, or will be when the browser    *)
(* has told what it has queued.  An element that still waits to start by   *)
(* itself has told nothing.                                                *)
VideoOk(el, shown) ==
    /\ Handles(el, {"video", "all"})
    /\ el.autoplay => el.paused /\ ~el.ready /\ el.tasks = <<>>
    /\ el.failed => ~el.ready
    /\ ~el.autoplay /\ ~el.failed =>
          /\ el.paused => Agree(el.tasks, Telling, VideoPaused)
          /\ ~el.paused => Agree(el.tasks, Telling, VideoPlays)
          /\ Silent(el.tasks, Telling) => shown = el.paused
(* The same of the music; who waits for it learns whether it plays.        *)
AudioOk(el, shown) ==
    /\ Handles(el, {"audio"})
    /\ ~el.autoplay
    /\ el.failed => ~el.ready
    /\ ~el.paused /\ ~el.ready /\ ~el.failed => el.waiting # {}
    /\ Hears(el) => Agree(el.tasks, Telling, AudioHeard)
    /\ el.paused => Agree(el.tasks, Telling, AudioPaused)
    /\ el.failed /\ ~el.paused => Agree(el.tasks, Telling, AudioGone)
    /\ Silent(el.tasks, Telling) => shown = Hears(el)

(* ControlsShowMedia says nothing while tasks are queued, when a press may *)
(* change the element again: VideoOk and AudioOk say where they lead.      *)
StageTyped == /\ media \in [Stage!Medium -> Stage!Element]
              /\ videoPaused \in BOOLEAN /\ audioPlaying \in BOOLEAN
              /\ crossed \in BOOLEAN /\ refused \in BOOLEAN
StageInd == /\ StageTyped
            /\ ~crossed /\ ~refused => /\ VideoOk(media["video"], videoPaused)
                                       /\ AudioOk(media["audio"], audioPlaying)

(* A task at the end that decides; one that says nothing; the first taken. *)
LEMMA AgreeTold ==
    ASSUME NEW ts \in Seq(Stage!Task), NEW t \in Stage!Task, NEW T, NEW R, t \in T, t \in R
    PROVE  Agree(Append(ts, t), T, R) /\ ~Silent(Append(ts, t), T)
<1> DEFINE new == Append(ts, t)
<1>1. new \in Seq(Stage!Task) /\ Len(new) = Len(ts) + 1 /\ Len(ts) \in Nat
      /\ new[Len(ts) + 1] = t
  OBVIOUS
<1> HIDE DEF new
<1>2. Len(new) \in 1..Len(new) /\ new[Len(new)] \in T
  BY <1>1
<1>3. \A n \in 1..Len(new) : n # Len(new) => Len(new) > n
  BY <1>1
<1> QED
  BY <1>1, <1>2, <1>3 DEF Agree, Silent, new

LEMMA AgreeSilent ==
    ASSUME NEW ts \in Seq(Stage!Task), NEW t \in Stage!Task, NEW T, NEW R, t \notin T, Agree(ts, T, R)
    PROVE  Agree(Append(ts, t), T, R) /\ (Silent(Append(ts, t), T) => Silent(ts, T))
<1> DEFINE new == Append(ts, t)
<1>1. new \in Seq(Stage!Task) /\ Len(new) = Len(ts) + 1 /\ Len(ts) \in Nat
      /\ new[Len(ts) + 1] = t /\ \A n \in 1..Len(ts) : new[n] = ts[n]
  OBVIOUS
<1> HIDE DEF new
<1>2. \A n \in 1..Len(new) : new[n] \in T => n \in 1..Len(ts)
  BY <1>1
<1>3. \A n \in 1..Len(ts) : n \in 1..Len(new)
  BY <1>1
<1> QED
  BY <1>1, <1>2, <1>3 DEF Agree, Silent, new

LEMMA AgreeTail ==
    ASSUME NEW ts \in Seq(Stage!Task), ts # <<>>, NEW T, NEW R, Agree(ts, T, R)
    PROVE  /\ Head(ts) \in Stage!Task /\ Tail(ts) \in Seq(Stage!Task)
           /\ Agree(Tail(ts), T, R)
           /\ Silent(Tail(ts), T) => IF Head(ts) \in T THEN Head(ts) \in R ELSE Silent(ts, T)
<1> DEFINE new == Tail(ts)
<1>1. /\ Len(new) = Len(ts) - 1 /\ Len(ts) \in Nat /\ Len(ts) > 0 /\ Head(ts) = ts[1]
      /\ \A n \in 1..Len(new) : new[n] = ts[n + 1]
  OBVIOUS
<1> HIDE DEF new
<1>2. \A n \in 1..Len(ts) : n = 1 \/ (n - 1 \in 1..Len(new) /\ new[n - 1] = ts[n])
  BY <1>1
<1>3. ASSUME NEW n \in 1..Len(new), new[n] \in T,
             \A k \in 1..Len(new) : k > n => new[k] \notin T
      PROVE  new[n] \in R
  <2>1. n + 1 \in 1..Len(ts) /\ ts[n + 1] \in T
    BY <1>1, <1>3
  <2>2. \A k \in 1..Len(ts) : k > n + 1 => ts[k] \notin T
    BY <1>1, <1>2, <1>3
  <2> QED
    BY <1>1, <1>3, <2>1, <2>2 DEF Agree
<1>4. ASSUME \A n \in 1..Len(new) : new[n] \notin T
      PROVE  IF ts[1] \in T THEN ts[1] \in R ELSE Silent(ts, T)
  <2>1. \A k \in 1..Len(ts) : k > 1 => ts[k] \notin T
    BY <1>2, <1>4
  <2>2. 1 \in 1..Len(ts)
    BY <1>1
  <2> QED
    BY <1>1, <2>1, <2>2 DEF Agree, Silent
<1>5. Head(ts) \in Stage!Task /\ Tail(ts) \in Seq(Stage!Task)
  OBVIOUS
<1> QED
  BY <1>1, <1>3, <1>4, <1>5 DEF Agree, Silent, new

(* The elements after a task is queued, play() and pause().                *)
LEMMA QueuedIs ==
    ASSUME NEW el \in Stage!Element, NEW kind \in {"play", "pause", "playing"},
           NEW settles \in SUBSET Stage!Waiting, NEW ok \in BOOLEAN
    PROVE  LET new == Stage!Queued(el, kind, settles, ok)
               t == [event |-> kind, settles |-> settles, ok |-> ok]
           IN  /\ new \in Stage!Element /\ t \in Stage!Task
               /\ new.paused = el.paused /\ new.ready = el.ready /\ new.autoplay = el.autoplay
               /\ new.failed = el.failed /\ new.waiting = el.waiting
               /\ new.tasks = Append(el.tasks, t) /\ el.tasks \in Seq(Stage!Task)
<1> DEFINE t == [event |-> kind, settles |-> settles, ok |-> ok]
<1>1. t \in Stage!Task /\ el.tasks \in Seq(Stage!Task)
  BY DEF Stage!Task, Stage!Element
<1> HIDE DEF t
<1>2. Append(el.tasks, t) \in Seq(Stage!Task)
  BY <1>1
<1>3. Stage!Queued(el, kind, settles, ok) = [el EXCEPT !.tasks = Append(el.tasks, t)]
  BY DEF Stage!Queued, t
<1> QED
  BY <1>1, <1>2, <1>3 DEF Stage!Element, t

Told(kind, settles, ok) == [event |-> kind, settles |-> settles, ok |-> ok]

LEMMA QueuedOk ==
    ASSUME NEW el \in Stage!Element, NEW kind \in {"play", "pause", "playing"},
           NEW settles \in SUBSET Stage!Waiting
    PROVE  LET new == Stage!Queued(el, kind, settles, TRUE) IN
           /\ new \in Stage!Element
           /\ new.paused = el.paused /\ new.ready = el.ready /\ new.autoplay = el.autoplay
           /\ new.failed = el.failed /\ new.waiting = el.waiting
           /\ new.tasks = Append(el.tasks, Told(kind, settles, TRUE))
<1>1. TRUE \in BOOLEAN
  OBVIOUS
<1> QED
  BY <1>1, QueuedIs DEF Told

LEMMA QueuedFails ==
    ASSUME NEW el \in Stage!Element, NEW kind \in {"play", "pause", "playing"},
           NEW settles \in SUBSET Stage!Waiting
    PROVE  LET new == Stage!Queued(el, kind, settles, FALSE) IN
           /\ new \in Stage!Element
           /\ new.paused = el.paused /\ new.ready = el.ready /\ new.autoplay = el.autoplay
           /\ new.failed = el.failed /\ new.waiting = el.waiting
           /\ new.tasks = Append(el.tasks, Told(kind, settles, FALSE))
<1>1. FALSE \in BOOLEAN
  OBVIOUS
<1> QED
  BY <1>1, QueuedIs DEF Told

LEMMA ToldIs ==
    ASSUME NEW kind \in {"play", "pause", "playing"}, NEW settles \in SUBSET Stage!Waiting,
           NEW ok \in BOOLEAN
    PROVE  /\ Told(kind, settles, ok) \in Stage!Task
           /\ Told(kind, settles, ok).event = kind /\ Told(kind, settles, ok).ok = ok
           /\ Told(kind, settles, ok).settles = settles
BY DEF Told, Stage!Task

LEMMA PlayingIs ==
    ASSUME NEW el \in Stage!Element, NEW h \in Stage!Waiting
    PROVE  LET new == Stage!Playing(el, h)
               play == Told("play", {}, TRUE)
               settled == Told("playing", el.waiting \cup {h}, TRUE)
           IN  /\ new \in Stage!Element
               /\ ~new.paused /\ ~new.autoplay /\ new.ready = el.ready /\ new.failed = el.failed
               /\ new.waiting = IF el.ready THEN {} ELSE el.waiting \cup {h}
               /\ el.paused /\ el.ready => new.tasks = Append(Append(el.tasks, play), settled)
               /\ el.paused /\ ~el.ready => new.tasks = Append(el.tasks, play)
               /\ ~el.paused /\ el.ready => new.tasks = Append(el.tasks, settled)
               /\ ~el.paused /\ ~el.ready => new.tasks = el.tasks
<1> DEFINE called == [el EXCEPT !.paused = FALSE, !.autoplay = FALSE,
                                !.waiting = el.waiting \cup {h}]
           told == IF el.paused THEN Stage!Queued(called, "play", {}, TRUE) ELSE called
           idle == [told EXCEPT !.waiting = {}]
           new == Stage!Playing(el, h)
<1>1. new = IF el.ready THEN Stage!Queued(idle, "playing", told.waiting, TRUE) ELSE told
  BY DEF Stage!Playing
<1>2. /\ called \in Stage!Element /\ ~called.paused /\ ~called.autoplay /\ called.ready = el.ready
      /\ called.failed = el.failed /\ called.waiting = el.waiting \cup {h}
      /\ called.tasks = el.tasks
  BY DEF Stage!Element
<1> HIDE DEF called, new
<1>3. {} \in SUBSET Stage!Waiting /\ TRUE \in BOOLEAN
  OBVIOUS
<1>4. /\ told \in Stage!Element /\ ~told.paused /\ ~told.autoplay /\ told.ready = el.ready
      /\ told.failed = el.failed /\ told.waiting = el.waiting \cup {h}
      /\ told.tasks = IF el.paused THEN Append(el.tasks, Told("play", {}, TRUE)) ELSE el.tasks
  <2> DEFINE q == Stage!Queued(called, "play", {}, TRUE)
  <2>1. /\ q \in Stage!Element /\ q.paused = called.paused /\ q.ready = called.ready
        /\ q.autoplay = called.autoplay /\ q.failed = called.failed /\ q.waiting = called.waiting
        /\ q.tasks = Append(called.tasks, Told("play", {}, TRUE))
    BY <1>2, <1>3, QueuedOk
  <2>2. told = IF el.paused THEN q ELSE called
    OBVIOUS
  <2> HIDE DEF q, told
  <2> QED
    BY <1>2, <2>1, <2>2
<1> HIDE DEF told
<1>5. /\ idle \in Stage!Element /\ ~idle.paused /\ ~idle.autoplay /\ idle.ready = el.ready
      /\ idle.failed = el.failed /\ idle.waiting = {} /\ idle.tasks = told.tasks
  BY <1>4 DEF Stage!Element
<1> HIDE DEF idle
<1>6. told.waiting \in SUBSET Stage!Waiting
  BY <1>4 DEF Stage!Element
<1>7. CASE el.ready
  <2> DEFINE q == Stage!Queued(idle, "playing", told.waiting, TRUE)
  <2>1. /\ q \in Stage!Element /\ q.paused = idle.paused /\ q.ready = idle.ready /\ q.autoplay = idle.autoplay
        /\ q.failed = idle.failed /\ q.waiting = idle.waiting
        /\ q.tasks = Append(idle.tasks, Told("playing", told.waiting, TRUE))
    <3>1. idle \in Stage!Element /\ "playing" \in {"play", "pause", "playing"}
      BY <1>5
    <3> QED
      BY <1>6, <3>1, QueuedOk
  <2>2. new = q
    BY <1>1, <1>7
  <2> QED
    BY <1>4, <1>5, <1>7, <2>1, <2>2 DEF new
<1>8. CASE ~el.ready
  BY <1>1, <1>4, <1>8 DEF new
<1> QED
  BY <1>7, <1>8 DEF Stage!Element

LEMMA PausedIs ==
    ASSUME NEW el \in Stage!Element
    PROVE  LET new == Stage!Paused(el) IN
           /\ new \in Stage!Element
           /\ new.paused /\ ~new.autoplay /\ new.ready = el.ready /\ new.failed = el.failed
           /\ el.paused => new.waiting = el.waiting /\ new.tasks = el.tasks
           /\ ~el.paused => /\ new.waiting = {}
                            /\ new.tasks = Append(el.tasks, Told("pause", el.waiting, FALSE))
<1> DEFINE silent == [el EXCEPT !.paused = TRUE, !.autoplay = FALSE, !.waiting = {}]
<1>1. /\ silent \in Stage!Element /\ silent.paused /\ ~silent.autoplay /\ silent.ready = el.ready
      /\ silent.failed = el.failed /\ silent.waiting = {} /\ silent.tasks = el.tasks
  BY DEF Stage!Element
<1>2. el.waiting \in SUBSET Stage!Waiting
  BY DEF Stage!Element
<1>3. CASE el.paused
  BY <1>3 DEF Stage!Paused, Stage!Element
<1>4. CASE ~el.paused
  <2> DEFINE q == Stage!Queued(silent, "pause", el.waiting, FALSE)
  <2>1. Stage!Paused(el) = q
    BY <1>4 DEF Stage!Paused
  <2> HIDE DEF silent
  <2>2. /\ q \in Stage!Element /\ q.paused = silent.paused /\ q.ready = silent.ready
        /\ q.autoplay = silent.autoplay /\ q.failed = silent.failed /\ q.waiting = silent.waiting
        /\ q.tasks = Append(silent.tasks, Told("pause", el.waiting, FALSE))
    <3>1. silent \in Stage!Element /\ "pause" \in {"play", "pause", "playing"}
      BY <1>1
    <3> QED
      BY <1>2, <3>1, QueuedFails
  <2> HIDE DEF q
  <2> QED
    BY <1>1, <1>4, <2>1, <2>2
<1> QED
  BY <1>3, <1>4 DEF Stage!Element

(* A task of the element's own is one more of its own.                     *)
LEMMA HandlesMore ==
    ASSUME NEW ts \in Seq(Stage!Task), NEW own, NEW t \in Stage!Task, t.settles \subseteq own,
           \A n \in 1..Len(ts) : ts[n].settles \subseteq own
    PROVE  /\ Append(ts, t) \in Seq(Stage!Task)
           /\ \A n \in 1..Len(Append(ts, t)) : Append(ts, t)[n].settles \subseteq own
OBVIOUS

(* The video: play(), pause(), a task told, enough loaded.                 *)
LEMMA VideoIsPlayed ==
    ASSUME NEW el \in Stage!Element, NEW h \in {"video", "all"}, NEW shown \in BOOLEAN,
           VideoOk(el, shown)
    PROVE  VideoOk(Stage!Playing(el, h), shown)
<1> DEFINE new == Stage!Playing(el, h)
           play == Told("play", {}, TRUE)
           settled == Told("playing", el.waiting \cup {h}, TRUE)
           own == {"video", "all"}
<1>1. /\ new \in Stage!Element
      /\ ~new.paused /\ ~new.autoplay /\ new.ready = el.ready /\ new.failed = el.failed
      /\ new.waiting = IF el.ready THEN {} ELSE el.waiting \cup {h}
      /\ el.paused /\ el.ready => new.tasks = Append(Append(el.tasks, play), settled)
      /\ el.paused /\ ~el.ready => new.tasks = Append(el.tasks, play)
      /\ ~el.paused /\ el.ready => new.tasks = Append(el.tasks, settled)
      /\ ~el.paused /\ ~el.ready => new.tasks = el.tasks
  <2>1. h \in Stage!Waiting
    BY DEF Stage!Waiting
  <2> QED
    BY <2>1, PlayingIs
<1> HIDE DEF new
<1>2. el.waiting \in SUBSET Stage!Waiting /\ el.waiting \subseteq own /\ el.tasks \in Seq(Stage!Task)
      /\ \A n \in 1..Len(el.tasks) : el.tasks[n].settles \subseteq own
  BY DEF Stage!Element, VideoOk, Handles
<1>3. /\ play \in Stage!Task /\ play.event = "play" /\ play.settles = {}
      /\ settled \in Stage!Task /\ settled.event = "playing" /\ settled.settles = el.waiting \cup {h}
  <2>1. el.waiting \cup {h} \in SUBSET Stage!Waiting /\ {} \in SUBSET Stage!Waiting
    BY <1>2 DEF Stage!Waiting
  <2>2. play \in Stage!Task /\ play.event = "play" /\ play.settles = {}
    BY DEF Told, Stage!Task
  <2>3. settled \in Stage!Task /\ settled.event = "playing" /\ settled.settles = el.waiting \cup {h}
    BY <2>1 DEF Told, Stage!Task
  <2> QED
    BY <2>2, <2>3
<1> HIDE DEF play, settled
<1>4. play \in Telling /\ settled \in Telling /\ play \in VideoPlays /\ settled \in VideoPlays
  BY <1>3 DEF Telling, VideoPaused, VideoPlays
<1>5. Append(el.tasks, play) \in Seq(Stage!Task)
      /\ \A n \in 1..Len(Append(el.tasks, play)) : Append(el.tasks, play)[n].settles \subseteq own
  BY <1>2, <1>3, HandlesMore
<1>6. Handles(new, own)
  <2>1. settled.settles \subseteq own
    BY <1>2, <1>3
  <2>2. \A n \in 1..Len(new.tasks) : new.tasks[n].settles \subseteq own
    BY <1>1, <1>2, <1>3, <1>5, <2>1, HandlesMore DEF Stage!Element
  <2> QED
    BY <1>1, <1>2, <2>2 DEF Handles
<1>7. (~el.autoplay /\ ~el.failed) \/ el.paused =>
          Agree(new.tasks, Telling, VideoPlays) /\ (Silent(new.tasks, Telling) => shown = FALSE)
  <2>1. CASE el.paused /\ el.ready
    <3>1. Agree(Append(Append(el.tasks, play), settled), Telling, VideoPlays)
          /\ ~Silent(Append(Append(el.tasks, play), settled), Telling)
      BY <1>3, <1>4, <1>5, AgreeTold
    <3>2. new.tasks = Append(Append(el.tasks, play), settled)
      BY <1>1, <2>1
    <3> QED
      BY <3>1, <3>2
  <2>2. CASE el.paused /\ ~el.ready
    <3>1. Agree(Append(el.tasks, play), Telling, VideoPlays)
          /\ ~Silent(Append(el.tasks, play), Telling)
      BY <1>2, <1>3, <1>4, AgreeTold
    <3>2. new.tasks = Append(el.tasks, play)
      BY <1>1, <2>2
    <3> QED
      BY <3>1, <3>2
  <2>3. CASE ~el.paused /\ el.ready
    <3>1. Agree(Append(el.tasks, settled), Telling, VideoPlays)
          /\ ~Silent(Append(el.tasks, settled), Telling)
      BY <1>2, <1>3, <1>4, AgreeTold
    <3>2. new.tasks = Append(el.tasks, settled)
      BY <1>1, <2>3
    <3> QED
      BY <3>1, <3>2
  <2>4. CASE ~el.paused /\ ~el.ready
    BY <1>1, <2>4 DEF VideoOk, Stage!Element
  <2> QED
    BY <2>1, <2>2, <2>3, <2>4
<1>8. new.paused = FALSE
  BY <1>1 DEF Stage!Element
<1> QED
  BY <1>1, <1>6, <1>7, <1>8 DEF VideoOk, new

LEMMA VideoIsPaused ==
    ASSUME NEW el \in Stage!Element, NEW shown \in BOOLEAN, VideoOk(el, shown), el.waiting = {}
    PROVE  VideoOk(Stage!Paused(el), TRUE)
<1> DEFINE new == Stage!Paused(el)
           pause == Told("pause", {}, FALSE)
           own == {"video", "all"}
<1>1. /\ new \in Stage!Element
      /\ new.paused /\ ~new.autoplay /\ new.ready = el.ready /\ new.failed = el.failed
      /\ new.waiting = {} /\ (el.paused => new.tasks = el.tasks)
      /\ ~el.paused => new.tasks = Append(el.tasks, pause)
  BY PausedIs
<1> HIDE DEF new
<1>2. el.tasks \in Seq(Stage!Task) /\ \A n \in 1..Len(el.tasks) : el.tasks[n].settles \subseteq own
  BY DEF Stage!Element, VideoOk, Handles
<1>3. pause \in Stage!Task /\ pause.event = "pause" /\ pause.settles = {}
  BY ToldIs
<1> HIDE DEF pause
<1>4. pause \in Telling /\ pause \in VideoPaused
  BY <1>3 DEF Telling, VideoPaused, VideoPlays
<1>5. Handles(new, own)
  BY <1>1, <1>2, <1>3, HandlesMore DEF Handles
<1>6. new.paused = TRUE
  BY <1>1 DEF Stage!Element
<1>7. ~el.failed => Agree(new.tasks, Telling, VideoPaused)
  <2>1. CASE el.paused
    <3>1. el.paused = TRUE
      BY <2>1 DEF Stage!Element
    <3>2. el.autoplay => el.tasks = <<>>
      BY DEF VideoOk
    <3>3. el.tasks = <<>> => Agree(el.tasks, Telling, VideoPaused)
      BY DEF Agree
    <3> QED
      BY <1>1, <2>1, <3>2, <3>3 DEF VideoOk
  <2>2. CASE ~el.paused
    <3>1. Agree(Append(el.tasks, pause), Telling, VideoPaused)
      BY <1>2, <1>3, <1>4, AgreeTold
    <3>2. new.tasks = Append(el.tasks, pause)
      BY <1>1, <2>2
    <3> QED
      BY <3>1, <3>2
  <2> QED
    BY <2>1, <2>2
<1> QED
  BY <1>1, <1>5, <1>6, <1>7 DEF VideoOk, new

(* No task says nothing and everything.                                    *)
LEMMA NothingTold ==
    ASSUME NEW T, NEW R PROVE Agree(<<>>, T, R) /\ Silent(<<>>, T)
BY DEF Agree, Silent

(* A task is taken from the queue and told.                                *)
LEMMA TailIs ==
    ASSUME NEW el \in Stage!Element, NEW own, Handles(el, own), el.tasks # <<>>
    PROVE  LET new == [el EXCEPT !.tasks = Tail(el.tasks)] IN
           /\ new \in Stage!Element /\ new.tasks = Tail(el.tasks)
           /\ new.paused = el.paused /\ new.ready = el.ready /\ new.autoplay = el.autoplay
           /\ new.failed = el.failed /\ new.waiting = el.waiting
           /\ Handles(new, own)
           /\ Head(el.tasks) \in Stage!Task /\ Head(el.tasks).settles \subseteq own
<1> DEFINE ts == el.tasks
           new == [el EXCEPT !.tasks = Tail(ts)]
<1>1. ts \in Seq(Stage!Task) /\ ts # <<>>
  BY DEF Stage!Element
<1> HIDE DEF ts
<1>2. /\ Tail(ts) \in Seq(Stage!Task) /\ Head(ts) \in Stage!Task /\ Head(ts) = ts[1] /\ 1 \in 1..Len(ts)
      /\ \A n \in 1..Len(Tail(ts)) : n + 1 \in 1..Len(ts) /\ Tail(ts)[n] = ts[n + 1]
  BY <1>1
<1>3. /\ new \in Stage!Element /\ new.tasks = Tail(ts)
      /\ new.paused = el.paused /\ new.ready = el.ready /\ new.autoplay = el.autoplay
      /\ new.failed = el.failed /\ new.waiting = el.waiting
  BY <1>2 DEF Stage!Element
<1> HIDE DEF new
<1>4. el.waiting \subseteq own /\ \A n \in 1..Len(ts) : ts[n].settles \subseteq own
  BY DEF Handles, ts
<1>5. \A n \in 1..Len(Tail(ts)) : Tail(ts)[n].settles \subseteq own
  BY <1>2, <1>4
<1>6. Handles(new, own)
  BY <1>3, <1>4, <1>5 DEF Handles
<1>7. ts[1].settles \subseteq own
  BY <1>2, <1>4
<1> QED
  BY <1>2, <1>3, <1>6, <1>7 DEF new, ts

LEMMA VideoIsTold ==
    ASSUME NEW el \in Stage!Element, NEW shown \in BOOLEAN, VideoOk(el, shown), el.tasks # <<>>,
           NEW now \in BOOLEAN,
           LET t == Head(el.tasks) IN
           now <=> /\ IF t.event # "playing" THEN t.event = "pause" ELSE shown
                   /\ t.settles \cap {"video", "all"} = {}
    PROVE  VideoOk([el EXCEPT !.tasks = Tail(el.tasks)], now)
<1> DEFINE t == Head(el.tasks)
           new == [el EXCEPT !.tasks = Tail(el.tasks)]
           own == {"video", "all"}
<1>1. /\ new \in Stage!Element /\ new.tasks = Tail(el.tasks)
      /\ new.paused = el.paused /\ new.ready = el.ready /\ new.autoplay = el.autoplay
      /\ new.failed = el.failed /\ Handles(new, own)
      /\ t \in Stage!Task /\ t.settles \subseteq own
  BY TailIs DEF VideoOk
<1>2. el.tasks \in Seq(Stage!Task) /\ el.paused \in BOOLEAN
  BY DEF Stage!Element
<1>3. now <=> (IF t.event # "playing" THEN t.event = "pause" ELSE shown) /\ t.settles = {}
  BY <1>1
<1> HIDE DEF new
<1>4. el.failed => ~el.ready
  BY DEF VideoOk
<1>5. ~el.autoplay
  BY DEF VideoOk
<1>6. ASSUME ~el.failed, el.paused
      PROVE  Agree(new.tasks, Telling, VideoPaused) /\ (Silent(new.tasks, Telling) => now)
  <2>1. Agree(el.tasks, Telling, VideoPaused) /\ (Silent(el.tasks, Telling) => shown)
    BY <1>2, <1>5, <1>6 DEF VideoOk
  <2>2. /\ Agree(Tail(el.tasks), Telling, VideoPaused)
        /\ Silent(Tail(el.tasks), Telling) =>
              IF t \in Telling THEN t \in VideoPaused ELSE Silent(el.tasks, Telling)
    BY <1>2, <2>1, AgreeTail
  <2> HIDE DEF t
  <2>3. t \in Telling /\ t \in VideoPaused => now
    BY <1>3 DEF VideoPaused
  <2>4. t \notin Telling /\ shown => now
    BY <1>1, <1>3 DEF Telling
  <2> QED
    BY <1>1, <2>1, <2>2, <2>3, <2>4
<1>7. ASSUME ~el.failed, ~el.paused
      PROVE  Agree(new.tasks, Telling, VideoPlays) /\ (Silent(new.tasks, Telling) => ~now)
  <2>1. Agree(el.tasks, Telling, VideoPlays) /\ (Silent(el.tasks, Telling) => ~shown)
    BY <1>2, <1>5, <1>7 DEF VideoOk
  <2>2. /\ Agree(Tail(el.tasks), Telling, VideoPlays)
        /\ Silent(Tail(el.tasks), Telling) =>
              IF t \in Telling THEN t \in VideoPlays ELSE Silent(el.tasks, Telling)
    BY <1>2, <2>1, AgreeTail
  <2> HIDE DEF t
  <2>3. t \in Telling /\ t \in VideoPlays => ~now
    BY <1>1, <1>3 DEF VideoPlays, Telling, Stage!Task
  <2>4. t \notin Telling /\ ~shown => ~now
    BY <1>1, <1>3 DEF Telling
  <2> QED
    BY <1>1, <2>1, <2>2, <2>3, <2>4
<1>8. ~new.autoplay /\ (new.failed => ~new.ready)
  BY <1>1, <1>4, <1>5
<1> QED
  BY <1>1, <1>2, <1>6, <1>7, <1>8 DEF VideoOk, new

LEMMA NothingWaits == {} \in SUBSET Stage!Waiting
OBVIOUS

(* A task that decides what is shown of the video is queued.               *)
LEMMA VideoQueues ==
    ASSUME NEW el \in Stage!Element, NEW new \in Stage!Element, NEW t \in Stage!Task, NEW shown \in BOOLEAN,
           Handles(el, {"video", "all"}), t.settles \subseteq {"video", "all"}, t \in Telling,
           new.waiting = {}, ~new.autoplay, new.failed => ~new.ready,
           new.tasks = Append(el.tasks, t),
           new.paused => t \in VideoPaused, ~new.paused => t \in VideoPlays
    PROVE  VideoOk(new, shown)
<1>1. el.tasks \in Seq(Stage!Task)
  BY DEF Stage!Element
<1>2. Handles(new, {"video", "all"})
  BY <1>1, HandlesMore DEF Handles
<1>3. /\ new.paused => Agree(new.tasks, Telling, VideoPaused)
      /\ ~new.paused => Agree(new.tasks, Telling, VideoPlays)
      /\ ~Silent(new.tasks, Telling)
  BY <1>1, AgreeTold
<1> QED
  BY <1>2, <1>3 DEF VideoOk

LEMMA VideoIsReady ==
    ASSUME NEW el \in Stage!Element, NEW shown \in BOOLEAN, VideoOk(el, shown), ~el.ready, ~el.failed
    PROVE  LET new == [el EXCEPT !.ready = TRUE] IN
           /\ new.paused /\ new.autoplay =>
                VideoOk(Stage!Queued([new EXCEPT !.paused = FALSE, !.autoplay = FALSE], "play", {}, TRUE),
                        shown)
           /\ new.paused /\ ~new.autoplay => VideoOk(new, shown)
           /\ ~new.paused => VideoOk(Stage!Queued([new EXCEPT !.waiting = {}], "playing", new.waiting, TRUE),
                                     shown)
<1> DEFINE new == [el EXCEPT !.ready = TRUE]
           going == [new EXCEPT !.paused = FALSE, !.autoplay = FALSE]
           idle == [new EXCEPT !.waiting = {}]
           own == {"video", "all"}
<1>1. /\ new \in Stage!Element /\ new.paused = el.paused /\ new.ready /\ new.autoplay = el.autoplay
      /\ ~new.failed /\ new.waiting = el.waiting /\ new.tasks = el.tasks
      /\ el.tasks \in Seq(Stage!Task) /\ el.waiting \in SUBSET Stage!Waiting
      /\ el.paused \in BOOLEAN /\ el.autoplay \in BOOLEAN
  BY DEF Stage!Element
<1> HIDE DEF new
<1>2. /\ going \in Stage!Element /\ ~going.paused /\ going.ready /\ ~going.autoplay
      /\ ~going.failed /\ going.waiting = el.waiting /\ going.tasks = el.tasks
  BY <1>1 DEF Stage!Element
<1>3. /\ idle \in Stage!Element /\ idle.paused = el.paused /\ idle.ready /\ idle.autoplay = el.autoplay
      /\ ~idle.failed /\ idle.waiting = {} /\ idle.tasks = el.tasks
  BY <1>1 DEF Stage!Element
<1> HIDE DEF going, idle
<1>4. Handles(el, own) /\ (el.autoplay => el.paused /\ el.tasks = <<>>)
  BY DEF VideoOk
<1>5. ASSUME el.paused, el.autoplay
      PROVE  VideoOk(Stage!Queued(going, "play", {}, TRUE), shown)
  <2> DEFINE q == Stage!Queued(going, "play", {}, TRUE)
             t == Told("play", {}, TRUE)
  <2>1. t \in Stage!Task /\ t.event = "play" /\ t.settles = {}
    BY DEF Told, Stage!Task
  <2>2. /\ q \in Stage!Element /\ q.paused = going.paused /\ q.ready = going.ready
        /\ q.autoplay = going.autoplay /\ q.failed = going.failed /\ q.waiting = going.waiting
        /\ q.tasks = Append(going.tasks, t)
    BY <1>2, QueuedOk, NothingWaits
  <2> HIDE DEF q, t
  <2>3. t \in Telling /\ t \in VideoPlays
    BY <2>1 DEF Telling, VideoPlays
  <2>4. Handles(q, own)
    BY <1>1, <1>2, <1>4, <2>1, <2>2, HandlesMore DEF Handles
  <2>5. Agree(q.tasks, Telling, VideoPlays) /\ ~Silent(q.tasks, Telling)
    BY <1>1, <1>2, <2>1, <2>2, <2>3, AgreeTold
  <2> QED
    BY <1>2, <2>2, <2>4, <2>5 DEF VideoOk, q
<1>6. ASSUME el.paused, ~el.autoplay
      PROVE  VideoOk(new, shown)
  BY <1>1, <1>6 DEF VideoOk, Handles
<1>7. ASSUME ~el.paused
      PROVE  VideoOk(Stage!Queued(idle, "playing", el.waiting, TRUE), shown)
  <2> DEFINE q == Stage!Queued(idle, "playing", el.waiting, TRUE)
             t == Told("playing", el.waiting, TRUE)
  <2>1. t \in Stage!Task /\ t.event = "playing" /\ t.settles = el.waiting
    BY <1>1, ToldIs
  <2>2. /\ q \in Stage!Element /\ q.paused = idle.paused /\ q.ready = idle.ready
        /\ q.autoplay = idle.autoplay /\ q.failed = idle.failed /\ q.waiting = idle.waiting
        /\ q.tasks = Append(idle.tasks, t)
    <3>1. idle \in Stage!Element /\ "playing" \in {"play", "pause", "playing"}
          /\ el.waiting \in SUBSET Stage!Waiting
      BY <1>1, <1>3
    <3> HIDE DEF idle
    <3> QED
      BY <3>1, QueuedOk
  <2> HIDE DEF q, t
  <2>3. t.settles \subseteq own
    BY <1>4, <2>1 DEF Handles
  <2>4. CASE t \in Telling
    <3>1. t \in VideoPlays
      BY <2>1 DEF VideoPlays
    <3>2. ~q.paused
      BY <1>3, <1>7, <2>2
    <3>3. q.tasks = Append(el.tasks, t)
      BY <1>3, <2>2
    <3>4. q.waiting = {} /\ ~q.autoplay /\ ~q.failed
      BY <1>3, <1>4, <1>7, <2>2
    <3>5. VideoOk(q, shown)
      BY <1>4, <2>1, <2>2, <2>3, <2>4, <3>1, <3>2, <3>3, <3>4, VideoQueues
    <3> QED
      BY <3>5 DEF q
  <2>5. CASE t \notin Telling
    <3>1. Agree(el.tasks, Telling, VideoPlays) /\ (Silent(el.tasks, Telling) => shown = FALSE)
      BY <1>1, <1>4, <1>7 DEF VideoOk
    <3>2. Agree(Append(el.tasks, t), Telling, VideoPlays)
          /\ (Silent(Append(el.tasks, t), Telling) => Silent(el.tasks, Telling))
      BY <1>1, <2>1, <2>5, <3>1, AgreeSilent
    <3>3. q.tasks = Append(el.tasks, t) /\ q.paused = FALSE
      BY <1>1, <1>3, <1>7, <2>2
    <3>4. Handles(q, own)
      BY <1>1, <1>3, <1>4, <2>1, <2>2, <2>3, HandlesMore DEF Handles
    <3>5. VideoOk(q, shown)
      BY <1>3, <1>4, <1>7, <2>2, <3>1, <3>2, <3>3, <3>4 DEF VideoOk
    <3> QED
      BY <3>5 DEF q
  <2> QED
    BY <2>4, <2>5
<1> QED
  BY <1>1, <1>5, <1>6, <1>7 DEF new, going, idle

(* The music: the same.                                                    *)
LEMMA AudioIsPlayed ==
    ASSUME NEW el \in Stage!Element, NEW shown \in BOOLEAN, AudioOk(el, shown), ~el.failed
    PROVE  AudioOk(Stage!Playing(el, "audio"), shown)
<1> DEFINE new == Stage!Playing(el, "audio")
           play == Told("play", {}, TRUE)
           settled == Told("playing", el.waiting \cup {"audio"}, TRUE)
           own == {"audio"}
<1>1. /\ new \in Stage!Element
      /\ ~new.paused /\ ~new.autoplay /\ new.ready = el.ready /\ new.failed = el.failed
      /\ new.waiting = IF el.ready THEN {} ELSE el.waiting \cup {"audio"}
      /\ el.paused /\ el.ready => new.tasks = Append(Append(el.tasks, play), settled)
      /\ el.paused /\ ~el.ready => new.tasks = Append(el.tasks, play)
      /\ ~el.paused /\ el.ready => new.tasks = Append(el.tasks, settled)
      /\ ~el.paused /\ ~el.ready => new.tasks = el.tasks
  <2>1. "audio" \in Stage!Waiting
    BY DEF Stage!Waiting
  <2> QED
    BY <2>1, PlayingIs
<1> HIDE DEF new
<1>2. el.waiting \in SUBSET Stage!Waiting /\ el.waiting \subseteq own /\ el.tasks \in Seq(Stage!Task)
      /\ \A n \in 1..Len(el.tasks) : el.tasks[n].settles \subseteq own
  BY DEF Stage!Element, AudioOk, Handles
<1>3. /\ play \in Stage!Task /\ play.event = "play" /\ play.settles = {}
      /\ settled \in Stage!Task /\ settled.event = "playing" /\ settled.ok
      /\ settled.settles = el.waiting \cup {"audio"}
  <2>1. el.waiting \cup {"audio"} \in SUBSET Stage!Waiting /\ {} \in SUBSET Stage!Waiting
    BY <1>2 DEF Stage!Waiting
  <2>2. play \in Stage!Task /\ play.event = "play" /\ play.settles = {}
    BY DEF Told, Stage!Task
  <2>3. settled \in Stage!Task /\ settled.event = "playing" /\ settled.ok
        /\ settled.settles = el.waiting \cup {"audio"}
    BY <2>1 DEF Told, Stage!Task
  <2> QED
    BY <2>2, <2>3
<1> HIDE DEF play, settled
<1>4. play \in Telling /\ settled \in Telling /\ play \in AudioHeard /\ settled \in AudioHeard
  BY <1>3 DEF Telling, AudioHeard
<1>5. Append(el.tasks, play) \in Seq(Stage!Task)
      /\ \A n \in 1..Len(Append(el.tasks, play)) : Append(el.tasks, play)[n].settles \subseteq own
  BY <1>2, <1>3, HandlesMore
<1>6. Handles(new, own)
  <2>1. settled.settles \subseteq own
    BY <1>2, <1>3
  <2> HIDE DEF own
  <2>2. /\ \A n \in 1..Len(Append(el.tasks, settled)) :
              Append(el.tasks, settled)[n].settles \subseteq own
        /\ \A n \in 1..Len(Append(Append(el.tasks, play), settled)) :
              Append(Append(el.tasks, play), settled)[n].settles \subseteq own
    BY <1>2, <1>3, <1>5, <2>1, HandlesMore
  <2>3. \/ new.tasks = Append(Append(el.tasks, play), settled)
        \/ new.tasks = Append(el.tasks, play)
        \/ new.tasks = Append(el.tasks, settled)
        \/ new.tasks = el.tasks
    BY <1>1
  <2>4. \A n \in 1..Len(new.tasks) : new.tasks[n].settles \subseteq own
    BY <1>2, <1>5, <2>2, <2>3
  <2> QED
    BY <1>1, <1>2, <2>4 DEF Handles, own
<1>7. Agree(new.tasks, Telling, AudioHeard) /\ (Silent(new.tasks, Telling) => shown)
  <2>1. CASE el.paused /\ el.ready
    <3>1. Agree(Append(Append(el.tasks, play), settled), Telling, AudioHeard)
          /\ ~Silent(Append(Append(el.tasks, play), settled), Telling)
      BY <1>3, <1>4, <1>5, AgreeTold
    <3>2. new.tasks = Append(Append(el.tasks, play), settled)
      BY <1>1, <2>1
    <3> QED
      BY <3>1, <3>2
  <2>2. CASE el.paused /\ ~el.ready
    <3>1. Agree(Append(el.tasks, play), Telling, AudioHeard)
          /\ ~Silent(Append(el.tasks, play), Telling)
      BY <1>2, <1>3, <1>4, AgreeTold
    <3>2. new.tasks = Append(el.tasks, play)
      BY <1>1, <2>2
    <3> QED
      BY <3>1, <3>2
  <2>3. CASE ~el.paused /\ el.ready
    <3>1. Agree(Append(el.tasks, settled), Telling, AudioHeard)
          /\ ~Silent(Append(el.tasks, settled), Telling)
      BY <1>2, <1>3, <1>4, AgreeTold
    <3>2. new.tasks = Append(el.tasks, settled)
      BY <1>1, <2>3
    <3> QED
      BY <3>1, <3>2
  <2>4. CASE ~el.paused /\ ~el.ready
    BY <1>1, <2>4 DEF AudioOk, Hears
  <2> QED
    BY <2>1, <2>2, <2>3, <2>4
<1>8. Hears(new) = TRUE /\ ~new.failed
  BY <1>1 DEF Hears
<1>9. (Silent(new.tasks, Telling) => shown = Hears(new))
  BY <1>7, <1>8
<1>10. ~new.ready => new.waiting # {}
  BY <1>1
<1> QED
  BY <1>1, <1>6, <1>7, <1>8, <1>9, <1>10 DEF AudioOk, new

LEMMA AudioIsPaused ==
    ASSUME NEW el \in Stage!Element, NEW shown \in BOOLEAN, AudioOk(el, shown)
    PROVE  AudioOk(Stage!Paused(el), FALSE)
<1> DEFINE new == Stage!Paused(el)
           pause == Told("pause", el.waiting, FALSE)
           own == {"audio"}
<1>1. /\ new \in Stage!Element
      /\ new.paused /\ ~new.autoplay /\ new.ready = el.ready /\ new.failed = el.failed
      /\ el.paused => new.waiting = el.waiting /\ new.tasks = el.tasks
      /\ ~el.paused => new.waiting = {} /\ new.tasks = Append(el.tasks, pause)
  BY PausedIs
<1> HIDE DEF new
<1>2. /\ el.waiting \in SUBSET Stage!Waiting /\ el.tasks \in Seq(Stage!Task) /\ el.waiting \subseteq own
      /\ \A n \in 1..Len(el.tasks) : el.tasks[n].settles \subseteq own
  BY DEF Stage!Element, AudioOk, Handles
<1>3. pause \in Stage!Task /\ pause.event = "pause" /\ pause.settles = el.waiting
  BY <1>2, ToldIs
<1> HIDE DEF pause
<1>4. pause \in Telling /\ pause \in AudioPaused
  BY <1>3 DEF Telling, AudioPaused
<1>5. Handles(new, own)
  BY <1>1, <1>2, <1>3, HandlesMore DEF Handles
<1>6. Hears(new) = FALSE
  BY <1>1 DEF Hears
<1>7. Agree(new.tasks, Telling, AudioPaused)
  <2>1. CASE el.paused
    BY <1>1, <2>1 DEF AudioOk
  <2>2. CASE ~el.paused
    <3>1. Agree(Append(el.tasks, pause), Telling, AudioPaused)
      BY <1>2, <1>3, <1>4, AgreeTold
    <3>2. new.tasks = Append(el.tasks, pause)
      BY <1>1, <2>2
    <3> QED
      BY <3>1, <3>2
  <2> QED
    BY <2>1, <2>2
<1>8. new.failed => ~new.ready
  BY <1>1 DEF AudioOk
<1> QED
  BY <1>1, <1>5, <1>6, <1>7, <1>8 DEF AudioOk, new

LEMMA AudioIsTold ==
    ASSUME NEW el \in Stage!Element, NEW shown \in BOOLEAN, AudioOk(el, shown), el.tasks # <<>>,
           NEW now \in BOOLEAN,
           LET t == Head(el.tasks) IN
           now <=> IF "audio" \in t.settles THEN t.ok /\ ~el.paused
                   ELSE IF t.event # "playing" THEN t.event = "play" ELSE shown
    PROVE  AudioOk([el EXCEPT !.tasks = Tail(el.tasks)], now)
<1> DEFINE t == Head(el.tasks)
           new == [el EXCEPT !.tasks = Tail(el.tasks)]
           own == {"audio"}
<1>1. /\ new \in Stage!Element /\ new.tasks = Tail(el.tasks)
      /\ new.paused = el.paused /\ new.ready = el.ready /\ new.autoplay = el.autoplay
      /\ new.failed = el.failed /\ new.waiting = el.waiting /\ Handles(new, own)
      /\ t \in Stage!Task /\ t.settles \subseteq own
  BY TailIs DEF AudioOk
<1>2. el.tasks \in Seq(Stage!Task) /\ el.paused \in BOOLEAN /\ el.failed \in BOOLEAN
  BY DEF Stage!Element
<1>3. now <=> IF t.settles = {} THEN (IF t.event # "playing" THEN t.event = "play" ELSE shown)
              ELSE t.ok /\ ~el.paused
  BY <1>1
<1> HIDE DEF new
<1>4. /\ ~el.autoplay /\ (el.failed => ~el.ready)
      /\ ~el.paused /\ ~el.ready /\ ~el.failed => el.waiting # {}
      /\ Silent(el.tasks, Telling) => (shown <=> Hears(el))
  BY DEF AudioOk
<1>5. ASSUME Hears(el)
      PROVE  Agree(new.tasks, Telling, AudioHeard) /\ (Silent(new.tasks, Telling) => now)
  <2>1. Agree(el.tasks, Telling, AudioHeard) /\ (Silent(el.tasks, Telling) => shown)
    BY <1>4, <1>5 DEF AudioOk
  <2>2. /\ Agree(Tail(el.tasks), Telling, AudioHeard)
        /\ Silent(Tail(el.tasks), Telling) =>
              IF t \in Telling THEN t \in AudioHeard ELSE Silent(el.tasks, Telling)
    BY <1>2, <2>1, AgreeTail
  <2> HIDE DEF t
  <2>3. t \in Telling /\ t \in AudioHeard => now
    BY <1>3, <1>5 DEF AudioHeard, Hears
  <2>4. t \notin Telling /\ shown => now
    BY <1>1, <1>3 DEF Telling
  <2> QED
    BY <1>1, <2>1, <2>2, <2>3, <2>4
<1>6. ASSUME el.paused
      PROVE  Agree(new.tasks, Telling, AudioPaused) /\ (Silent(new.tasks, Telling) => ~now)
  <2>1. Agree(el.tasks, Telling, AudioPaused) /\ (Silent(el.tasks, Telling) => ~shown)
    BY <1>4, <1>6 DEF AudioOk, Hears
  <2>2. /\ Agree(Tail(el.tasks), Telling, AudioPaused)
        /\ Silent(Tail(el.tasks), Telling) =>
              IF t \in Telling THEN t \in AudioPaused ELSE Silent(el.tasks, Telling)
    BY <1>2, <2>1, AgreeTail
  <2> HIDE DEF t
  <2>3. t \in Telling /\ t \in AudioPaused => ~now
    BY <1>3, <1>6 DEF AudioPaused, Telling
  <2>4. t \notin Telling /\ ~shown => ~now
    BY <1>1, <1>3 DEF Telling
  <2> QED
    BY <1>1, <2>1, <2>2, <2>3, <2>4
<1>7. ASSUME el.failed, ~el.paused
      PROVE  Agree(new.tasks, Telling, AudioGone) /\ (Silent(new.tasks, Telling) => ~now)
  <2>1. Agree(el.tasks, Telling, AudioGone) /\ (Silent(el.tasks, Telling) => ~shown)
    BY <1>4, <1>7 DEF AudioOk, Hears
  <2>2. /\ Agree(Tail(el.tasks), Telling, AudioGone)
        /\ Silent(Tail(el.tasks), Telling) =>
              IF t \in Telling THEN t \in AudioGone ELSE Silent(el.tasks, Telling)
    BY <1>2, <2>1, AgreeTail
  <2> HIDE DEF t
  <2>3. t \in Telling /\ t \in AudioGone => ~now
    BY <1>3 DEF AudioGone, Telling
  <2>4. t \notin Telling /\ ~shown => ~now
    BY <1>1, <1>3 DEF Telling
  <2> QED
    BY <1>1, <2>1, <2>2, <2>3, <2>4
<1>8. Hears(new) = Hears(el) /\ (Hears(el) \/ el.paused \/ (el.failed /\ ~el.paused))
      /\ (el.paused => ~Hears(el)) /\ (el.failed => ~Hears(el))
  BY <1>1 DEF Hears
<1>9. Silent(new.tasks, Telling) => now = Hears(new)
  BY <1>5, <1>6, <1>7, <1>8 DEF Hears
<1> QED
  BY <1>1, <1>4, <1>5, <1>6, <1>7, <1>8, <1>9 DEF AudioOk, new

LEMMA AudioIsReady ==
    ASSUME NEW el \in Stage!Element, NEW shown \in BOOLEAN, AudioOk(el, shown),
           ~el.ready, ~el.failed, ~el.paused
    PROVE  AudioOk(Stage!Queued([[el EXCEPT !.ready = TRUE] EXCEPT !.waiting = {}], "playing",
                          [el EXCEPT !.ready = TRUE].waiting, TRUE), shown)
<1> DEFINE idle == [[el EXCEPT !.ready = TRUE] EXCEPT !.waiting = {}]
           q == Stage!Queued(idle, "playing", el.waiting, TRUE)
           t == Told("playing", el.waiting, TRUE)
<1>1. /\ idle \in Stage!Element /\ ~idle.paused /\ idle.ready /\ idle.autoplay = el.autoplay
      /\ ~idle.failed /\ idle.waiting = {} /\ idle.tasks = el.tasks
      /\ el.waiting \in SUBSET Stage!Waiting /\ el.tasks \in Seq(Stage!Task)
      /\ [el EXCEPT !.ready = TRUE].waiting = el.waiting
  BY DEF Stage!Element
<1> HIDE DEF idle
<1>2. t \in Stage!Task /\ t.event = "playing" /\ t.settles = el.waiting /\ t.ok
  BY <1>1, ToldIs
<1>3. /\ q \in Stage!Element /\ q.paused = idle.paused /\ q.ready = idle.ready
      /\ q.autoplay = idle.autoplay /\ q.failed = idle.failed /\ q.waiting = idle.waiting
      /\ q.tasks = Append(idle.tasks, t)
  BY <1>1, QueuedOk
<1> HIDE DEF q, t
<1>4. Handles(el, {"audio"}) /\ ~el.autoplay /\ el.waiting # {}
  BY DEF AudioOk
<1>5. t \in Telling /\ t \in AudioHeard
  BY <1>2, <1>4 DEF Telling, AudioHeard
<1>6. Agree(q.tasks, Telling, AudioHeard) /\ ~Silent(q.tasks, Telling)
  BY <1>1, <1>2, <1>3, <1>5, AgreeTold
<1>7. Handles(q, {"audio"})
  BY <1>1, <1>2, <1>3, <1>4, HandlesMore DEF Handles
<1>8. AudioOk(q, shown)
  BY <1>1, <1>3, <1>4, <1>6, <1>7 DEF AudioOk
<1> QED
  BY <1>1, <1>8 DEF q, idle

-----------------------------------------------------------------------------
(* The actions of the stage.                                               *)
(* What the type gives of the two elements.                                *)
LEMMA StageEl ==
    ASSUME StageTyped
    PROVE  /\ media["video"] \in Stage!Element /\ media["audio"] \in Stage!Element
           /\ DOMAIN media = Stage!Medium /\ "video" \in Stage!Medium /\ "audio" \in Stage!Medium
           /\ videoPaused \in BOOLEAN /\ audioPlaying \in BOOLEAN
           /\ crossed \in BOOLEAN /\ refused \in BOOLEAN
BY DEF StageTyped, Stage!Medium

(* Only one element changes.                                               *)
LEMMA OneChanges ==
    ASSUME NEW els \in [Stage!Medium -> Stage!Element], NEW m \in Stage!Medium, NEW el \in Stage!Element
    PROVE  LET new == [els EXCEPT ![m] = el] IN
           /\ new \in [Stage!Medium -> Stage!Element] /\ new[m] = el
           /\ \A k \in Stage!Medium : k # m => new[k] = els[k]
OBVIOUS

(* PlayAudio: the music is asked to play, or was refused.                  *)
LEMMA AudioPlayed ==
    ASSUME NEW els \in [Stage!Medium -> Stage!Element], NEW playing \in BOOLEAN, NEW denied \in BOOLEAN,
           refused \in BOOLEAN, Stage!PlayAudio(els, playing, denied)
    PROVE  /\ media' \in [Stage!Medium -> Stage!Element] /\ media'["video"] = els["video"]
           /\ audioPlaying' \in BOOLEAN /\ refused' \in BOOLEAN
           /\ ~refused' => /\ ~refused /\ ~denied
                           /\ AudioOk(els["audio"], playing) =>
                                 AudioOk(media'["audio"], audioPlaying')
<1> DEFINE el == els["audio"]
           new == Stage!Playing(el, "audio")
<1>1. el \in Stage!Element /\ "audio" \in Stage!Medium /\ "video" \in Stage!Medium
  BY DEF Stage!Medium
<1>2. new \in Stage!Element
  BY <1>1, PlayingIs DEF Stage!Waiting
<1>3. CASE /\ ~el.failed /\ media' = [els EXCEPT !["audio"] = new]
           /\ audioPlaying' = playing /\ refused' = (refused \/ denied)
  <2>1. AudioOk(el, playing) => AudioOk(new, playing)
    BY <1>1, <1>3, AudioIsPlayed
  <2> HIDE DEF new, el
  <2>2. media' \in [Stage!Medium -> Stage!Element] /\ media'["audio"] = new /\ media'["video"] = els["video"]
    BY <1>1, <1>2, <1>3, OneChanges
  <2>3. refused' \in BOOLEAN /\ (~refused' => ~refused /\ ~denied)
    BY <1>3
  <2> QED
    BY <1>3, <2>1, <2>2, <2>3 DEF el
<1>4. CASE media' = els /\ audioPlaying' = FALSE /\ refused' = TRUE
  BY <1>4
<1> QED
  BY <1>3, <1>4 DEF Stage!PlayAudio

LEMMA StageUnlocks == StageInd /\ Stage!Unlock => StageInd'
<1> SUFFICES ASSUME StageInd, Stage!Unlock PROVE StageInd'
  OBVIOUS
<1>1. StageTyped /\ Stage!PlayAudio(media, audioPlaying, FALSE) /\ UNCHANGED <<videoPaused, crossed>>
  BY DEF StageInd, Stage!Unlock
<1>2. /\ media' \in [Stage!Medium -> Stage!Element] /\ media'["video"] = media["video"]
      /\ audioPlaying' \in BOOLEAN /\ refused' \in BOOLEAN
      /\ ~refused' => /\ ~refused
                      /\ AudioOk(media["audio"], audioPlaying) =>
                            AudioOk(media'["audio"], audioPlaying')
  BY <1>1, AudioPlayed DEF StageTyped
<1> QED
  BY <1>1, <1>2 DEF StageInd, StageTyped

LEMMA VideoPresses ==
    ASSUME StageInd, Stage!PlayVideo \/ Stage!PauseVideo
    PROVE  StageInd'
<1> DEFINE el == media["video"]
<1>1. StageTyped /\ el \in Stage!Element /\ "video" \in Stage!Medium /\ "audio" \in Stage!Medium
      /\ media \in [Stage!Medium -> Stage!Element] /\ videoPaused \in BOOLEAN /\ crossed \in BOOLEAN
      /\ refused \in BOOLEAN /\ audioPlaying \in BOOLEAN
  BY StageEl DEF StageInd, StageTyped
<1>2. CASE Stage!PlayVideo
  <2>1. UNCHANGED <<audioPlaying, crossed>>
    BY <1>2 DEF Stage!PlayVideo
  <2>2. CASE media' = [media EXCEPT !["video"] = Stage!Playing(el, "video")]
             /\ UNCHANGED <<videoPaused, refused>>
    <3> DEFINE new == Stage!Playing(el, "video")
    <3>1. new \in Stage!Element
      BY <1>1, PlayingIs DEF Stage!Waiting
    <3>2. VideoOk(el, videoPaused) => VideoOk(new, videoPaused)
      BY <1>1, VideoIsPlayed
    <3> HIDE DEF new, el
    <3>3. media' \in [Stage!Medium -> Stage!Element] /\ media'["video"] = new /\ media'["audio"] = media["audio"]
      BY <1>1, <2>2, <3>1, OneChanges DEF new
    <3> QED
      BY <1>1, <2>1, <2>2, <3>2, <3>3 DEF StageInd, StageTyped, el
  <2>3. CASE UNCHANGED media /\ videoPaused' = FALSE /\ refused' = TRUE
    BY <1>1, <2>1, <2>3 DEF StageInd, StageTyped
  <2> QED
    BY <1>2, <2>2, <2>3 DEF Stage!PlayVideo
<1>3. CASE Stage!PauseVideo
  <2> DEFINE new == Stage!Paused(el)
  <2>1. /\ media' = [media EXCEPT !["video"] = new] /\ videoPaused' = TRUE
        /\ crossed' = (crossed \/ el.waiting # {}) /\ UNCHANGED <<audioPlaying, refused>>
    BY <1>3 DEF Stage!PauseVideo
  <2>2. new \in Stage!Element
    BY <1>1, PausedIs
  <2>3. el.waiting = {} /\ VideoOk(el, videoPaused) => VideoOk(new, TRUE)
    BY <1>1, VideoIsPaused
  <2> HIDE DEF new, el
  <2>4. media' \in [Stage!Medium -> Stage!Element] /\ media'["video"] = new /\ media'["audio"] = media["audio"]
    BY <1>1, <2>1, <2>2, OneChanges
  <2>5. crossed' \in BOOLEAN /\ (~crossed' => ~crossed /\ el.waiting = {})
    BY <1>1, <2>1
  <2> QED
    BY <1>1, <2>1, <2>3, <2>4, <2>5 DEF StageInd, StageTyped, el
<1> QED
  BY <1>2, <1>3

LEMMA AudioPresses == StageInd /\ Stage!ToggleAudio => StageInd'
<1> SUFFICES ASSUME StageInd, Stage!ToggleAudio PROVE StageInd'
  OBVIOUS
<1> DEFINE el == media["audio"]
<1>1. StageTyped /\ el \in Stage!Element /\ "video" \in Stage!Medium /\ "audio" \in Stage!Medium
      /\ media \in [Stage!Medium -> Stage!Element] /\ videoPaused \in BOOLEAN /\ crossed \in BOOLEAN
      /\ refused \in BOOLEAN /\ audioPlaying \in BOOLEAN /\ UNCHANGED <<videoPaused, crossed>>
  BY StageEl DEF StageInd, StageTyped, Stage!ToggleAudio
<1>2. CASE Stage!PlayAudio(media, audioPlaying, FALSE)
  <2>1. /\ media' \in [Stage!Medium -> Stage!Element] /\ media'["video"] = media["video"]
        /\ audioPlaying' \in BOOLEAN /\ refused' \in BOOLEAN
        /\ ~refused' => /\ ~refused
                        /\ AudioOk(media["audio"], audioPlaying) =>
                              AudioOk(media'["audio"], audioPlaying')
    BY <1>1, <1>2, AudioPlayed
  <2> QED
    BY <1>1, <2>1 DEF StageInd, StageTyped
<1>3. CASE media' = [media EXCEPT !["audio"] = Stage!Paused(el)] /\ audioPlaying' = FALSE
           /\ UNCHANGED refused
  <2> DEFINE new == Stage!Paused(el)
  <2>1. new \in Stage!Element
    BY <1>1, PausedIs
  <2>2. AudioOk(el, audioPlaying) => AudioOk(new, FALSE)
    BY <1>1, AudioIsPaused
  <2> HIDE DEF new, el
  <2>3. media' \in [Stage!Medium -> Stage!Element] /\ media'["audio"] = new /\ media'["video"] = media["video"]
    BY <1>1, <1>3, <2>1, OneChanges DEF new
  <2> QED
    BY <1>1, <1>3, <2>2, <2>3 DEF StageInd, StageTyped, el
<1> QED
  BY <1>2, <1>3 DEF Stage!ToggleAudio

LEMMA AllPause == StageInd /\ Stage!PauseAll => StageInd'
<1> SUFFICES ASSUME StageInd, Stage!PauseAll PROVE StageInd'
  OBVIOUS
<1> DEFINE video == media["video"]
           audio == media["audio"]
           newV == Stage!Paused(video)
           newA == Stage!Paused(audio)
<1>1. StageTyped /\ video \in Stage!Element /\ audio \in Stage!Element /\ Stage!Medium = {"video", "audio"}
      /\ media \in [Stage!Medium -> Stage!Element] /\ videoPaused \in BOOLEAN /\ crossed \in BOOLEAN
      /\ refused \in BOOLEAN /\ audioPlaying \in BOOLEAN
  BY StageEl DEF StageInd, StageTyped, Stage!Medium
<1>2. newV \in Stage!Element /\ newA \in Stage!Element
  BY <1>1, PausedIs
<1>3. /\ media' = [m \in Stage!Medium |-> IF m = "video" /\ media[m].failed THEN media[m]
                                   ELSE Stage!Paused(media[m])]
      /\ videoPaused' = TRUE /\ audioPlaying' = FALSE /\ UNCHANGED refused
      /\ crossed' = (crossed \/ video.waiting # {})
  BY DEF Stage!PauseAll
<1>4. AudioOk(audio, audioPlaying) => AudioOk(newA, FALSE)
  BY <1>1, AudioIsPaused
<1>5. VideoOk(video, videoPaused) /\ video.waiting = {} => VideoOk(newV, TRUE)
  BY <1>1, VideoIsPaused
<1>6. VideoOk(video, videoPaused) /\ video.failed => VideoOk(video, TRUE)
  BY DEF VideoOk
<1>7. /\ media' \in [Stage!Medium -> Stage!Element] /\ media'["audio"] = newA
      /\ media'["video"] = IF video.failed THEN video ELSE newV
  BY <1>1, <1>2, <1>3
<1> HIDE DEF video, audio, newV, newA
<1>8. crossed' \in BOOLEAN /\ (~crossed' => ~crossed /\ video.waiting = {})
  BY <1>1, <1>3
<1> QED
  BY <1>1, <1>3, <1>4, <1>5, <1>6, <1>7, <1>8 DEF StageInd, StageTyped, video, audio

LEMMA AllPlay == StageInd /\ Stage!PlayAll => StageInd'
<1> SUFFICES ASSUME StageInd, Stage!PlayAll PROVE StageInd'
  OBVIOUS
<1> DEFINE el == media["video"]
<1>1. StageTyped /\ el \in Stage!Element /\ "video" \in Stage!Medium /\ "audio" \in Stage!Medium
      /\ media \in [Stage!Medium -> Stage!Element] /\ videoPaused \in BOOLEAN /\ crossed \in BOOLEAN
      /\ refused \in BOOLEAN /\ audioPlaying \in BOOLEAN /\ UNCHANGED crossed
  BY StageEl DEF StageInd, StageTyped, Stage!PlayAll
<1>2. CASE media' = [media EXCEPT !["video"] = Stage!Playing(el, "all")]
           /\ UNCHANGED <<videoPaused, audioPlaying, refused>>
  <2> DEFINE new == Stage!Playing(el, "all")
  <2>1. new \in Stage!Element
    BY <1>1, PlayingIs DEF Stage!Waiting
  <2>2. VideoOk(el, videoPaused) => VideoOk(new, videoPaused)
    BY <1>1, VideoIsPlayed
  <2> HIDE DEF new, el
  <2>3. media' \in [Stage!Medium -> Stage!Element] /\ media'["video"] = new /\ media'["audio"] = media["audio"]
    BY <1>1, <1>2, <2>1, OneChanges DEF new
  <2> QED
    BY <1>1, <1>2, <2>2, <2>3 DEF StageInd, StageTyped, el
<1>3. CASE videoPaused' = FALSE /\ Stage!PlayAudio(media, audioPlaying, TRUE)
  <2>1. /\ media' \in [Stage!Medium -> Stage!Element] /\ audioPlaying' \in BOOLEAN
        /\ refused' \in BOOLEAN /\ refused'
    BY <1>1, <1>3, AudioPlayed
  <2> QED
    BY <1>1, <1>3, <2>1 DEF StageInd, StageTyped
<1>4. CASE UNCHANGED videoPaused /\ Stage!PlayAudio(media, audioPlaying, FALSE)
  <2>1. /\ media' \in [Stage!Medium -> Stage!Element] /\ media'["video"] = media["video"]
        /\ audioPlaying' \in BOOLEAN /\ refused' \in BOOLEAN
        /\ ~refused' => /\ ~refused
                        /\ AudioOk(media["audio"], audioPlaying) =>
                              AudioOk(media'["audio"], audioPlaying')
    BY <1>1, <1>4, AudioPlayed
  <2> QED
    BY <1>1, <1>4, <2>1 DEF StageInd, StageTyped
<1> QED
  BY <1>2, <1>3, <1>4 DEF Stage!PlayAll

(* The page is told of the video, of the music; and keeps its types.       *)
LEMMA VideoTells ==
    ASSUME NEW els \in [Stage!Medium -> Stage!Element], NEW kind, NEW settles, NEW ok \in BOOLEAN,
           videoPaused \in BOOLEAN, audioPlaying \in BOOLEAN, refused \in BOOLEAN,
           Stage!Tell("video", kind, settles, ok, els), settles \subseteq {"video", "all"}
    PROVE  /\ media' \in [Stage!Medium -> Stage!Element] /\ media'["video"] = els["video"]
           /\ audioPlaying' \in BOOLEAN /\ refused' \in BOOLEAN /\ videoPaused' \in BOOLEAN
           /\ videoPaused' <=> /\ IF kind # "playing" THEN kind = "pause" ELSE videoPaused
                               /\ settles \cap {"video", "all"} = {}
           /\ ~refused' => /\ ~refused
                           /\ AudioOk(els["audio"], audioPlaying) =>
                                 AudioOk(media'["audio"], audioPlaying')
<1>1. videoPaused' = ((IF kind # "playing" THEN kind = "pause" ELSE videoPaused)
                      /\ settles \cap {"video", "all"} = {})
  BY DEF Stage!Tell
<1>2. CASE Stage!PlayAudio(els, audioPlaying, FALSE)
  <2>1. /\ media' \in [Stage!Medium -> Stage!Element] /\ media'["video"] = els["video"]
        /\ audioPlaying' \in BOOLEAN /\ refused' \in BOOLEAN
        /\ ~refused' => /\ ~refused
                        /\ AudioOk(els["audio"], audioPlaying) =>
                              AudioOk(media'["audio"], audioPlaying')
    BY <1>2, AudioPlayed
  <2> QED
    BY <1>1, <2>1
<1>3. CASE media' = els /\ UNCHANGED refused /\ audioPlaying' = audioPlaying
  BY <1>1, <1>3
<1>4. \/ Stage!PlayAudio(els, audioPlaying, FALSE)
      \/ media' = els /\ UNCHANGED refused /\ audioPlaying' = audioPlaying
  BY DEF Stage!Tell
<1> QED
  BY <1>2, <1>3, <1>4

LEMMA AudioTells ==
    ASSUME NEW els, NEW kind, NEW settles, NEW ok \in BOOLEAN,
           videoPaused \in BOOLEAN, audioPlaying \in BOOLEAN,
           Stage!Tell("audio", kind, settles, ok, els), settles \subseteq {"audio"}
    PROVE  /\ media' = els /\ UNCHANGED refused /\ videoPaused' = videoPaused
           /\ audioPlaying' <=> IF "audio" \in settles THEN ok /\ ~els["audio"].paused
                                ELSE IF kind # "playing" THEN kind = "play" ELSE audioPlaying
           /\ audioPlaying' \in BOOLEAN
<1>1. settles \cap {"video", "all"} = {} /\ "all" \notin settles
  OBVIOUS
<1>2. videoPaused' = (videoPaused /\ settles \cap {"video", "all"} = {})
  BY DEF Stage!Tell
<1>3. /\ media' = els /\ UNCHANGED refused
      /\ audioPlaying' = IF "audio" \in settles THEN ok /\ ~els["audio"].paused
                         ELSE IF kind # "playing" THEN kind = "play" ELSE audioPlaying
  BY <1>1 DEF Stage!Tell
<1>4. videoPaused' = videoPaused
  BY <1>1, <1>2
<1> QED
  BY <1>3, <1>4

LEMMA TellTyped ==
    ASSUME NEW els \in [Stage!Medium -> Stage!Element], NEW m \in Stage!Medium, NEW kind, NEW settles,
           NEW ok \in BOOLEAN, StageTyped, Stage!Tell(m, kind, settles, ok, els), UNCHANGED crossed
    PROVE  StageTyped' /\ (~refused' => ~refused)
<1>0. videoPaused \in BOOLEAN /\ audioPlaying \in BOOLEAN /\ refused \in BOOLEAN
      /\ crossed \in BOOLEAN /\ "audio" \in Stage!Medium
  BY DEF StageTyped, Stage!Medium
<1> DEFINE audio == IF m = "audio" /\ kind # "playing" THEN kind = "play" ELSE audioPlaying
           video == IF m = "video" /\ kind # "playing" THEN kind = "pause" ELSE videoPaused
<1>1. videoPaused' = (video /\ settles \cap {"video", "all"} = {})
  BY DEF Stage!Tell
<1>2. videoPaused' \in BOOLEAN /\ audio \in BOOLEAN
  BY <1>0, <1>1
<1>3. CASE Stage!PlayAudio(els, audio, FALSE)
  <2> HIDE DEF audio
  <2>1. /\ media' \in [Stage!Medium -> Stage!Element] /\ audioPlaying' \in BOOLEAN /\ refused' \in BOOLEAN
        /\ ~refused' => ~refused
    BY <1>0, <1>2, <1>3, AudioPlayed
  <2> QED
    BY <1>0, <1>2, <2>1 DEF StageTyped
<1>4. CASE /\ media' = els /\ UNCHANGED refused
           /\ audioPlaying' = IF "audio" \in settles THEN ok /\ ~els["audio"].paused ELSE audio
  <2> HIDE DEF audio
  <2>1. audioPlaying' \in BOOLEAN
    BY <1>2, <1>4
  <2> QED
    BY <1>0, <1>2, <1>4, <2>1 DEF StageTyped
<1> QED
  BY <1>3, <1>4 DEF Stage!Tell

LEMMA TaskTold ==
    ASSUME StageInd, NEW m \in Stage!Medium, Stage!RunTask(m)
    PROVE  StageInd'
<1> DEFINE el == media[m]
           task == Head(el.tasks)
           new == [el EXCEPT !.tasks = Tail(el.tasks)]
           els == [media EXCEPT ![m] = new]
<1>1. /\ StageTyped /\ el \in Stage!Element /\ media \in [Stage!Medium -> Stage!Element]
      /\ videoPaused \in BOOLEAN /\ audioPlaying \in BOOLEAN
      /\ crossed \in BOOLEAN /\ refused \in BOOLEAN
      /\ "video" \in Stage!Medium /\ "audio" \in Stage!Medium /\ (m = "video" \/ m = "audio")
  BY StageEl DEF StageInd, StageTyped, Stage!Medium
<1>2. el.tasks # <<>> /\ UNCHANGED crossed /\ Stage!Tell(m, task.event, task.settles, task.ok, els)
  BY DEF Stage!RunTask
<1>3. el.tasks \in Seq(Stage!Task)
  BY <1>1 DEF Stage!Element
<1>4. task \in Stage!Task /\ Tail(el.tasks) \in Seq(Stage!Task)
  BY <1>2, <1>3
<1>5. new \in Stage!Element
  BY <1>1, <1>4 DEF Stage!Element
<1>6. new.paused = el.paused /\ task.ok \in BOOLEAN
  BY <1>1, <1>4 DEF Stage!Element, Stage!Task
<1> HIDE DEF new
<1>7. els \in [Stage!Medium -> Stage!Element] /\ els[m] = new /\ (\A k \in Stage!Medium : k # m => els[k] = media[k])
  BY <1>1, <1>5, OneChanges
<1> HIDE DEF els, task
<1>8. StageTyped' /\ (~refused' => ~refused)
  BY <1>1, <1>2, <1>6, <1>7, TellTyped
<1>9. ASSUME ~crossed', ~refused'
      PROVE  VideoOk(media["video"], videoPaused)' /\ AudioOk(media["audio"], audioPlaying)'
  <2>1. VideoOk(media["video"], videoPaused) /\ AudioOk(media["audio"], audioPlaying)
    BY <1>2, <1>8, <1>9 DEF StageInd
  <2>2. CASE m = "video"
    <3>1. task.settles \subseteq {"video", "all"}
      BY <1>1, <1>2, <2>1, <2>2, TailIs DEF VideoOk, task
    <3>2. /\ media'["video"] = els["video"] /\ videoPaused' \in BOOLEAN
          /\ videoPaused' <=> /\ IF task.event # "playing" THEN task.event = "pause" ELSE videoPaused
                              /\ task.settles \cap {"video", "all"} = {}
          /\ AudioOk(els["audio"], audioPlaying) => AudioOk(media'["audio"], audioPlaying')
      BY <1>1, <1>2, <1>6, <1>7, <1>9, <2>2, <3>1, VideoTells
    <3>3. VideoOk(new, videoPaused')
      <4>1. VideoOk(el, videoPaused)
        BY <2>1, <2>2
      <4> QED
        BY <1>1, <1>2, <3>2, <4>1, VideoIsTold DEF new, task
    <3> QED
      BY <1>1, <1>7, <2>1, <2>2, <3>2, <3>3
  <2>3. CASE m = "audio"
    <3>1. task.settles \subseteq {"audio"}
      BY <1>1, <1>2, <2>1, <2>3, TailIs DEF AudioOk, task
    <3>2. /\ media' = els /\ videoPaused' = videoPaused /\ audioPlaying' \in BOOLEAN
          /\ audioPlaying' <=> IF "audio" \in task.settles THEN task.ok /\ ~els["audio"].paused
                               ELSE IF task.event # "playing" THEN task.event = "play"
                               ELSE audioPlaying
      BY <1>1, <1>2, <1>6, <2>3, <3>1, AudioTells
    <3>3. AudioOk(new, audioPlaying')
      <4>1. AudioOk(el, audioPlaying)
        BY <2>1, <2>3
      <4>2. els["audio"].paused = el.paused
        BY <1>6, <1>7, <2>3
      <4> QED
        BY <1>1, <1>2, <3>2, <4>1, <4>2, AudioIsTold DEF new, task
    <3> QED
      BY <1>1, <1>7, <2>1, <2>3, <3>2, <3>3
  <2> QED
    BY <1>1, <2>2, <2>3
<1> QED
  BY <1>8, <1>9 DEF StageInd

LEMMA StageLoads ==
    ASSUME StageInd, NEW m \in Stage!Medium, Stage!BecomesReady(m)
    PROVE  StageInd'
<1> DEFINE old == media[m]
           el == [old EXCEPT !.ready = TRUE]
           going == Stage!Queued([el EXCEPT !.paused = FALSE, !.autoplay = FALSE], "play", {}, TRUE)
           heard == Stage!Queued([el EXCEPT !.waiting = {}], "playing", el.waiting, TRUE)
<1>1. /\ StageTyped /\ old \in Stage!Element /\ media \in [Stage!Medium -> Stage!Element]
      /\ videoPaused \in BOOLEAN /\ audioPlaying \in BOOLEAN
      /\ crossed \in BOOLEAN /\ refused \in BOOLEAN
      /\ "video" \in Stage!Medium /\ "audio" \in Stage!Medium /\ (m = "video" \/ m = "audio")
  BY StageEl DEF StageInd, StageTyped, Stage!Medium
<1>2. /\ ~old.ready /\ ~old.failed /\ (m = "video" \/ ~old.paused)
      /\ UNCHANGED <<videoPaused, audioPlaying, crossed>>
  BY DEF Stage!BecomesReady, Stage!Loading
<1>3. \/ el.paused /\ el.autoplay /\ media' = [media EXCEPT ![m] = going] /\ UNCHANGED refused
      \/ media' = [media EXCEPT ![m] = el] /\ refused' = TRUE
      \/ el.paused /\ ~el.autoplay /\ media' = [media EXCEPT ![m] = el] /\ UNCHANGED refused
      \/ ~el.paused /\ media' = [media EXCEPT ![m] = heard] /\ UNCHANGED refused
  BY DEF Stage!BecomesReady
<1>4. el \in Stage!Element /\ el.paused = old.paused /\ el.waiting \in SUBSET Stage!Waiting
  BY <1>1 DEF Stage!Element
<1>5. going \in Stage!Element /\ heard \in Stage!Element
  <2>1. [el EXCEPT !.paused = FALSE, !.autoplay = FALSE] \in Stage!Element
        /\ [el EXCEPT !.waiting = {}] \in Stage!Element
    BY <1>4 DEF Stage!Element
  <2> HIDE DEF el
  <2> QED
    BY <1>4, <2>1, QueuedOk, NothingWaits
<1>6. VideoOk(old, videoPaused) =>
          /\ el.paused /\ el.autoplay => VideoOk(going, videoPaused)
          /\ el.paused /\ ~el.autoplay => VideoOk(el, videoPaused)
          /\ ~el.paused => VideoOk(heard, videoPaused)
  BY <1>1, <1>2, VideoIsReady
<1>7. AudioOk(old, audioPlaying) /\ ~el.paused => AudioOk(heard, audioPlaying)
  BY <1>1, <1>2, <1>4, AudioIsReady
<1> HIDE DEF old, el, going, heard
<1>8. PICK new \in {going, el, heard} : media' = [media EXCEPT ![m] = new]
  BY <1>3
<1>9. media' \in [Stage!Medium -> Stage!Element] /\ media'[m] = new
      /\ \A k \in Stage!Medium : k # m => media'[k] = media[k]
  BY <1>1, <1>4, <1>5, <1>8, OneChanges
<1>10. refused' \in BOOLEAN /\ StageTyped'
  BY <1>1, <1>2, <1>3, <1>9 DEF StageTyped
<1>11. ASSUME ~crossed', ~refused'
       PROVE  VideoOk(media["video"], videoPaused)' /\ AudioOk(media["audio"], audioPlaying)'
  <2>1. VideoOk(media["video"], videoPaused) /\ AudioOk(media["audio"], audioPlaying)
    BY <1>2, <1>3, <1>11 DEF StageInd
  <2>2. CASE m = "video"
    <3>1. VideoOk(old, videoPaused)
      BY <2>1, <2>2 DEF old
    <3>2. \/ el.paused /\ el.autoplay /\ media'[m] = going
          \/ el.paused /\ ~el.autoplay /\ media'[m] = el
          \/ ~el.paused /\ media'[m] = heard
      BY <1>1, <1>3, <1>11
    <3>3. VideoOk(media'[m], videoPaused)
      BY <1>6, <3>1, <3>2
    <3> QED
      BY <1>1, <1>2, <1>9, <2>1, <2>2, <3>3
  <2>3. CASE m = "audio"
    <3>1. AudioOk(old, audioPlaying) /\ ~el.paused
      BY <1>2, <1>4, <2>1, <2>3 DEF old
    <3>2. media'[m] = heard
      BY <1>1, <1>3, <1>11, <3>1
    <3> QED
      BY <1>1, <1>2, <1>7, <1>9, <2>1, <2>3, <3>1, <3>2
  <2> QED
    BY <1>1, <2>2, <2>3
<1> QED
  BY <1>10, <1>11 DEF StageInd

LEMMA StageStops ==
    ASSUME StageInd, NEW m \in Stage!Medium, Stage!Ends(m) \/ Stage!SourceFails(m)
    PROVE  StageInd'
<1> DEFINE el == media[m]
           ended == [el EXCEPT !.paused = TRUE]
           gone == [el EXCEPT !.failed = TRUE, !.waiting = {}]
<1>1. /\ StageTyped /\ el \in Stage!Element /\ media \in [Stage!Medium -> Stage!Element]
      /\ videoPaused \in BOOLEAN /\ audioPlaying \in BOOLEAN
      /\ crossed \in BOOLEAN /\ refused \in BOOLEAN
      /\ "video" \in Stage!Medium /\ "audio" \in Stage!Medium /\ (m = "video" \/ m = "audio")
  BY StageEl DEF StageInd, StageTyped, Stage!Medium
<1>2. /\ ended \in Stage!Element /\ gone \in Stage!Element /\ ended.paused /\ gone.failed
      /\ ended.waiting = el.waiting /\ ended.tasks = el.tasks /\ ended.ready = el.ready
      /\ ended.autoplay = el.autoplay /\ ended.failed = el.failed
      /\ gone.waiting = {} /\ gone.tasks = el.tasks /\ gone.ready = el.ready
      /\ gone.autoplay = el.autoplay /\ gone.paused = el.paused
  BY <1>1 DEF Stage!Element
<1> HIDE DEF ended, gone
<1>3. el.tasks = <<>> /\ UNCHANGED crossed
  BY DEF Stage!Ends, Stage!SourceFails
<1>4. PICK settles \in {{}, el.waiting}, kind \in {"pause", "playing"}, new \in {ended, gone} :
         /\ Stage!Tell(m, kind, settles, FALSE, [media EXCEPT ![m] = new])
         /\ \/ kind = "pause" /\ settles = {} /\ new = ended /\ el.ready /\ ~el.paused
            \/ kind = "playing" /\ settles = el.waiting /\ new = gone /\ Stage!Loading(m)
  <2>1. /\ [media EXCEPT ![m].paused = TRUE] = [media EXCEPT ![m] = ended]
        /\ [media EXCEPT ![m].failed = TRUE, ![m].waiting = {}] = [media EXCEPT ![m] = gone]
    BY <1>1 DEF ended, gone
  <2>2. CASE Stage!Ends(m)
    BY <2>1, <2>2 DEF Stage!Ends
  <2>3. CASE Stage!SourceFails(m)
    BY <2>1, <2>3 DEF Stage!SourceFails
  <2> QED
    BY <2>2, <2>3
<1> DEFINE els == [media EXCEPT ![m] = new]
<1>5. els \in [Stage!Medium -> Stage!Element] /\ els[m] = new /\ (\A k \in Stage!Medium : k # m => els[k] = media[k])
  BY <1>1, <1>2, OneChanges
<1>6. Stage!Tell(m, kind, settles, FALSE, els)
  BY <1>4
<1> HIDE DEF els
<1>7. StageTyped' /\ (~refused' => ~refused)
  BY <1>1, <1>3, <1>5, <1>6, TellTyped
<1>8. Silent(<<>>, Telling) /\ \A R : Agree(<<>>, Telling, R)
  BY NothingTold
<1>9. ASSUME ~crossed', ~refused'
      PROVE  VideoOk(media["video"], videoPaused)' /\ AudioOk(media["audio"], audioPlaying)'
  <2>1. VideoOk(media["video"], videoPaused) /\ AudioOk(media["audio"], audioPlaying)
    BY <1>3, <1>7, <1>9 DEF StageInd
  <2>2. CASE m = "video"
    <3>1. VideoOk(el, videoPaused)
      BY <2>1, <2>2
    <3>2. settles \subseteq {"video", "all"}
      BY <1>4, <3>1 DEF VideoOk, Handles
    <3>3. /\ media'["video"] = els["video"] /\ videoPaused' \in BOOLEAN
          /\ videoPaused' <=> /\ IF kind # "playing" THEN kind = "pause" ELSE videoPaused
                              /\ settles \cap {"video", "all"} = {}
          /\ AudioOk(els["audio"], audioPlaying) => AudioOk(media'["audio"], audioPlaying')
      BY <1>1, <1>5, <1>6, <1>9, <2>2, <3>2, VideoTells
    <3>4. CASE kind = "pause" /\ settles = {} /\ new = ended /\ el.ready /\ ~el.paused
      <4>1. videoPaused' = TRUE
        BY <3>3, <3>4
      <4>2. VideoOk(ended, TRUE)
        BY <1>2, <1>3, <1>8, <3>1, <3>4 DEF VideoOk, Handles, Stage!Element
      <4> QED
        BY <1>1, <1>5, <2>1, <2>2, <3>3, <3>4, <4>1, <4>2
    <3>5. CASE kind = "playing" /\ settles = el.waiting /\ new = gone /\ Stage!Loading(m)
      <4>1. VideoOk(gone, videoPaused')
        BY <1>2, <1>3, <3>1, <3>5 DEF VideoOk, Handles, Stage!Loading
      <4> QED
        BY <1>1, <1>5, <2>1, <2>2, <3>3, <3>5, <4>1
    <3> QED
      BY <1>4, <3>4, <3>5
  <2>3. CASE m = "audio"
    <3>1. AudioOk(el, audioPlaying)
      BY <2>1, <2>3
    <3>2. settles \subseteq {"audio"}
      BY <1>4, <3>1 DEF AudioOk, Handles
    <3>3. /\ media' = els /\ videoPaused' = videoPaused
          /\ audioPlaying' <=> IF "audio" \in settles THEN FALSE /\ ~els["audio"].paused
                               ELSE IF kind # "playing" THEN kind = "play" ELSE audioPlaying
          /\ audioPlaying' \in BOOLEAN
      BY <1>1, <1>6, <2>3, <3>2, AudioTells
    <3>4. AudioOk(new, FALSE) /\ audioPlaying' = FALSE
      <4>1. CASE kind = "pause" /\ settles = {} /\ new = ended /\ el.ready /\ ~el.paused
        BY <1>2, <1>3, <1>8, <3>1, <3>3, <4>1 DEF AudioOk, Handles, Hears
      <4>2. CASE kind = "playing" /\ settles = el.waiting /\ new = gone /\ Stage!Loading(m)
        <5>1. ~el.ready /\ ~el.failed /\ ~el.paused
          BY <2>3, <4>2 DEF Stage!Loading
        <5>2. settles = {"audio"}
          BY <3>1, <3>2, <4>2, <5>1 DEF AudioOk
        <5> QED
          BY <1>2, <1>3, <1>8, <3>1, <3>3, <4>2, <5>1, <5>2 DEF AudioOk, Handles, Hears
      <4> QED
        BY <1>4, <4>1, <4>2
    <3> QED
      BY <1>1, <1>5, <2>1, <2>3, <3>3, <3>4
  <2> QED
    BY <1>1, <2>2, <2>3
<1> QED
  BY <1>7, <1>9 DEF StageInd

LEMMA StageInit == Stage!Init => StageInd
<1> SUFFICES ASSUME Stage!Init PROVE StageInd
  OBVIOUS
<1> DEFINE video == media["video"]
           audio == media["audio"]
<1>1. /\ Stage!Fresh(TRUE) \in Stage!Element /\ Stage!Fresh(FALSE) \in Stage!Element
  BY DEF Stage!Fresh, Stage!Element
<1>2. /\ video = Stage!Fresh(TRUE) /\ audio = Stage!Fresh(FALSE) /\ media \in [Stage!Medium -> Stage!Element]
      /\ ~videoPaused /\ ~audioPlaying /\ videoPaused \in BOOLEAN /\ audioPlaying \in BOOLEAN
      /\ crossed \in BOOLEAN /\ refused \in BOOLEAN
  BY <1>1 DEF Stage!Init, Stage!Medium
<1>3. /\ video.paused /\ ~video.ready /\ ~video.failed /\ video.autoplay
      /\ video.waiting = {} /\ video.tasks = <<>>
  BY <1>2 DEF Stage!Fresh
<1>4. /\ audio.paused /\ ~audio.ready /\ ~audio.failed /\ ~audio.autoplay
      /\ audio.waiting = {} /\ audio.tasks = <<>>
  BY <1>2 DEF Stage!Fresh
<1> HIDE DEF video, audio
<1>5. Silent(<<>>, Telling) /\ \A R : Agree(<<>>, Telling, R)
  BY NothingTold
<1>6. VideoOk(video, videoPaused)
  BY <1>3 DEF VideoOk, Handles
<1>7. AudioOk(audio, audioPlaying)
  <2>1. Handles(audio, {"audio"})
    BY <1>4 DEF Handles
  <2>2. audioPlaying = FALSE
    BY DEF Stage!Init
  <2>3. Hears(audio) = FALSE
    BY <1>4 DEF Hears
  <2> QED
    BY <1>4, <1>5, <2>1, <2>2, <2>3 DEF AudioOk
<1> QED
  BY <1>2, <1>6, <1>7 DEF StageInd, StageTyped, video, audio

LEMMA StageStep == StageInd /\ Stage!Next => StageInd'
<1> SUFFICES ASSUME StageInd, Stage!Next PROVE StageInd'
  OBVIOUS
<1>1. CASE Stage!Unlock
  BY <1>1, StageUnlocks
<1>2. CASE Stage!ToggleVideo \/ Stage!ReplayVideo
  BY <1>2, VideoPresses DEF Stage!ToggleVideo, Stage!ReplayVideo
<1>3. CASE Stage!ToggleAudio
  BY <1>3, AudioPresses
<1>4. CASE Stage!ToggleAll
  BY <1>4, AllPause, AllPlay DEF Stage!ToggleAll
<1>5. CASE \E m \in Stage!Medium :
              Stage!RunTask(m) \/ Stage!BecomesReady(m) \/ Stage!Ends(m) \/ Stage!SourceFails(m)
  BY <1>5, TaskTold, StageLoads, StageStops
<1> QED
  BY <1>1, <1>2, <1>3, <1>4, <1>5 DEF Stage!Next

LEMMA StageShows == StageInd => Stage!ControlsShowMedia
<1> SUFFICES ASSUME StageInd, Stage!Settled, ~crossed, ~refused
             PROVE  /\ media["video"].ready => videoPaused = media["video"].paused
                    /\ audioPlaying = Stage!Sounds("audio")
  BY DEF Stage!ControlsShowMedia
<1>1. /\ VideoOk(media["video"], videoPaused) /\ AudioOk(media["audio"], audioPlaying)
      /\ media["video"].tasks = <<>> /\ media["audio"].tasks = <<>>
  BY DEF StageInd, Stage!Settled, Stage!Medium
<1>2. Silent(<<>>, Telling)
  BY NothingTold
<1> QED
  BY <1>1, <1>2 DEF VideoOk, AudioOk, Hears, Stage!Sounds

(* However the controls of the stage are pressed, and whenever the browser *)
(* tells the page of it: once everything is told, the controls show what   *)
(* the video and the music do, unless a play was refused or met a pause.   *)
THEOREM StageShowsMedia == PartsSpec => []ControlsShowMedia
<1>1. PartsInit => StageInd
  BY StageInit DEF PartsInit
<1>2. StageInd /\ [PartsNext]_<<part, vars, drafts, editors, answers, stage, pages>> => StageInd'
  <2>1. StageInd /\ UNCHANGED stage => StageInd'
    BY DEF stage, StageInd, StageTyped
  <2> QED
    BY <2>1, StageStep DEF PartsNext
<1>3. StageInd => ControlsShowMedia
  BY StageShows DEF ControlsShowMedia
<1> QED
  BY <1>1, <1>2, <1>3, PTL DEF PartsSpec
=============================================================================
