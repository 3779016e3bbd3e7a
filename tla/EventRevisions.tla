--------------------------- MODULE EventRevisions ---------------------------
(***************************************************************************)
(* Hosts save the event form: one READ COMMITTED transaction locks the     *)
(* event row, writes it and its localizations, reads everything back and   *)
(* inserts the next revision.  Host pages and public pages meanwhile read  *)
(* the event in several statements that share no transaction.              *)
(***************************************************************************)
EXTENDS Naturals, FiniteSets, FiniteSetsExt

CONSTANTS
    Form,        \* forms a host may submit; each sets every field
    Locale,      \* en-US and es-MX
    Save,        \* update requests in flight at once
    Read,        \* reads in flight at once
    MaxRevision, \* bound: revisions of the event
    None

ASSUME RevisionsAssumption ==
    /\ IsFiniteSet(Save)
    /\ None \notin Form /\ None \notin Nat /\ None \notin [Locale -> Form]
    /\ MaxRevision \in Nat \ {0}

VARIABLES
    event,      \* the committed row of the event: the form that set it
    local,      \* local[l]: the committed localization row of locale l
    revisions,  \* committed event_revisions
    save,       \* save[s]: the transaction of update request s
    read        \* read[r]: what read r has got so far

vars == <<event, local, revisions, save, read>>

Texts == [Locale -> Form]
Content == [event : Form, local : Texts]
Revision == [number : Nat, content : Content]

SavePc == {"idle", "locking", "written", "inserting"}
SaveTx == [pc : SavePc, form : Form \cup {None}, number : Nat,
           snapshot : Content \cup {None}]
NoSave == [pc |-> "idle", form |-> None, number |-> 0, snapshot |-> None]

View == [event : Form \cup {None}, local : Texts \cup {None}, number : Nat \cup {None}]
NoView == [event |-> None, local |-> None, number |-> None]

(* What a form sets: the row of the event and both localizations.          *)
Written(f) == [event |-> f, local |-> [l \in Locale |-> f]]

(* The seed inserts the event, both localizations and revision 1.          *)
Init == \E seed \in Form :
           /\ event = seed
           /\ local = [l \in Locale |-> seed]
           /\ revisions = {[number |-> 1, content |-> [event |-> event, local |-> local]]}
           /\ save = [s \in Save |-> NoSave]
           /\ read = [r \in Read |-> NoView]
-----------------------------------------------------------------------------
Numbers == {v.number : v \in revisions}
LastNumber == Max(Numbers \cup {0})

RowHolders == {s \in Save : save[s].pc \in {"written", "inserting"}}
RowFree_Unlocked == TRUE
RowFree == RowHolders = {}

Room == Cardinality(revisions) + Cardinality({s \in Save : save[s].pc # "idle"}) < MaxRevision

EndSave(s) == save' = [save EXCEPT ![s] = NoSave]

StartSave(s, f) ==
    /\ save[s].pc = "idle" /\ Room
    /\ save' = [save EXCEPT ![s] = [NoSave EXCEPT !.pc = "locking", !.form = f]]
    /\ UNCHANGED <<event, local, revisions, read>>

(* lockById, updateEvent, upsertLocalizations: once the row of the event   *)
(* is locked nothing makes the others wait.                                *)
LockAndWrite(s) ==
    /\ save[s].pc = "locking"
    /\ RowFree
    /\ save' = [save EXCEPT ![s].pc = "written"]
    /\ UNCHANGED <<event, local, revisions, read>>

(* findHostRecordById inside the transaction sees the rows it has written. *)
ReadBack(s) ==
    /\ save[s].pc = "written"
    /\ save' = [save EXCEPT ![s] = [pc |-> "inserting", form |-> save[s].form,
                                    number |-> LastNumber + 1,
                                    snapshot |-> Written(save[s].form)]]
    /\ UNCHANGED <<event, local, revisions, read>>

(* insertRevision and COMMIT, unless event_revisions_event_revision_unique *)
(* fails the insertion.                                                    *)
Clash(s) == save[s].number \in Numbers

InsertRevision(s) ==
    /\ save[s].pc = "inserting"
    /\ IF Clash(s) THEN UNCHANGED <<event, local, revisions>>
       ELSE /\ event' = Written(save[s].form).event
            /\ local' = Written(save[s].form).local
            /\ revisions' = revisions \cup
                   {[number |-> save[s].number, content |-> save[s].snapshot]}
    /\ EndSave(s)
    /\ UNCHANGED read

SaveFails(s) == /\ save[s].pc # "idle"
                /\ EndSave(s)
                /\ UNCHANGED <<event, local, revisions, read>>
-----------------------------------------------------------------------------
(* findHostRecordById outside a transaction: first the row of the event,   *)
(* then the rest, in whatever order the connections of the pool answer.    *)

Keep(r, view) == /\ read' = [read EXCEPT ![r] = view]
                 /\ UNCHANGED <<event, local, revisions, save>>

ReadEvent(r) == /\ read[r].event = None
                /\ Keep(r, [read[r] EXCEPT !.event = event])

MayReadRest(r) == read[r].event # None

ReadTexts(r) == /\ MayReadRest(r) /\ read[r].local = None
                /\ Keep(r, [read[r] EXCEPT !.local = local])

ReadNumber(r) == /\ MayReadRest(r) /\ read[r].number = None
                 /\ Keep(r, [read[r] EXCEPT !.number = LastNumber])

Complete(r) == None \notin {read[r].event, read[r].local, read[r].number}

Answer(r) == Complete(r) /\ Keep(r, NoView)
-----------------------------------------------------------------------------
Next == \/ \E s \in Save : \/ \E f \in Form : StartSave(s, f)
                           \/ LockAndWrite(s) \/ ReadBack(s) \/ InsertRevision(s)
                           \/ SaveFails(s)
        \/ \E r \in Read : ReadEvent(r) \/ ReadTexts(r) \/ ReadNumber(r) \/ Answer(r)

Spec == Init /\ [][Next]_vars
-----------------------------------------------------------------------------
(* Properties                                                              *)

(* Every variable holds what its table, transaction or answer can hold.    *)
TypeOK == /\ event \in Form
          /\ local \in Texts
          /\ revisions \subseteq Revision
          /\ save \in [Save -> SaveTx]
          /\ read \in [Read -> View]

(* "Every successful update and its revision snapshot are committed        *)
(* transactionally": the newest revision is what the event says now,       *)
(* however saves and their failures interleave.                            *)
LastRevisionIsCurrent ==
    \E v \in revisions : /\ v.number = LastNumber
                         /\ v.content = [event |-> event, local |-> local]

(* Saves wait for each other instead of failing each other: no request     *)
(* that got the lock has a number that is taken, and so the numbers leave  *)
(* no gap.                                                                 *)
SavesNeverClash ==
    /\ \A s \in Save : save[s].pc = "inserting" => save[s].number = LastNumber + 1
    /\ Numbers = 1..Cardinality(revisions)

(* A host page mixes revisions when saves commit between its statements,   *)
(* but in one direction only: the revision number it shows, and the texts, *)
(* are never older than the event fields, since those are read first.      *)
ShownNumberNotOlder ==
    \A r \in Read : Complete(r) =>
        /\ \E v \in revisions : /\ v.number <= read[r].number
                                /\ v.content.event = read[r].event
        /\ \E v, w \in revisions : /\ v.number <= w.number
                                   /\ v.content.event = read[r].event
                                   /\ w.content.local = read[r].local

(* The event and its revisions tell the same story to whoever reads them   *)
(* while hosts save.                                                       *)
RevisionsInv == TypeOK /\ LastRevisionIsCurrent /\ SavesNeverClash /\ ShownNumberNotOlder
=============================================================================
