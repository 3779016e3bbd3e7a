---------------------------- MODULE EventEditors ----------------------------
(***************************************************************************)
(* Two ways to edit one event at the same time: the editor's page and the  *)
(* thumbnail dialog of the dashboard, in two tabs.  Both load the whole    *)
(* event and write the whole event back.  The fields are the pictures, on  *)
(* which both work, and the rest, which only the editor changes.           *)
(*                                                                         *)
(* Which forms the server accepts is module EventDraft, and how it keeps   *)
(* the revisions module EventRevisions; here a save is one step.           *)
(***************************************************************************)
EXTENDS Naturals, FiniteSets

CONSTANTS
    Value,       \* what a field can say
    MaxRevision, \* bound: saves
    MaxPatches,  \* bound: updates on their way
    None

EditorsAssumption == /\ MaxRevision \in Nat /\ MaxPatches \in Nat
                     /\ 0 \in Value /\ None \notin Value
                     /\ None \notin Nat /\ None # "saved"
                     /\ None \notin [fields : [pictures : Value, rest : Value], revision : Nat]

VARIABLES
    event,    \* the event and its revision at the server
    editor,   \* HostEventEditor
    preview,  \* the calendar under the form: revision shown, and request
    modal,    \* ThumbnailModal, or None while it is closed
    patches   \* updates on their way, with what their author had loaded

vars == <<event, editor, preview, modal, patches>>

(* A form: the event as loaded, the fields as they are in the form.        *)
Opened(loaded) == [loaded |-> loaded, fields |-> loaded.fields]

NewModal == [form |-> None, saving |-> FALSE]
NewEditor == [form |-> None, dirty |-> FALSE, saving |-> FALSE, message |-> None]
NewPreview == [revision |-> None, asked |-> TRUE, failed |-> FALSE]

(* What the event says first is called 0, in both fields.                  *)
Init == /\ event = [fields |-> [pictures |-> 0, rest |-> 0], revision |-> 0]
        /\ editor = NewEditor
        /\ preview = NewPreview
        /\ modal = None
        /\ patches = {}

(* An update on its way, what its author had edited, and its answer once   *)
(* the server has served it.                                               *)
Patch(author, form, fields) ==
    [author |-> author, base |-> form.loaded, fields |-> fields, answer |-> None,
     edited |-> {f \in {"pictures", "rest"} : form.fields[f] # form.loaded.fields[f]}]

(* The page or the dialog that sent an update is gone.                     *)
Renamed(authors, author) ==
    {IF p.author \in authors THEN [p EXCEPT !.author = author] ELSE p : p \in patches}
-----------------------------------------------------------------------------
(* HostEventEditor                                                         *)

(* The effect of the calendar runs when the form shows another revision,   *)
(* and aborts the request before it.                                       *)
Previewed(form) ==
    IF editor.form = None \/ form.loaded.revision # editor.form.loaded.revision
    THEN [preview EXCEPT !.asked = TRUE, !.failed = FALSE]
    ELSE preview

LoadEditor == /\ editor.form = None /\ editor.message = None
              /\ editor' = [editor EXCEPT !.form = Opened(event)]
              /\ preview' = Previewed(Opened(event))
              /\ UNCHANGED <<event, modal, patches>>
LoadFails == /\ editor.form = None /\ editor.message = None
             /\ editor' = [editor EXCEPT !.message = "error"]
             /\ UNCHANGED <<event, preview, modal, patches>>

(* The host reloads the page, with unsaved edits only after a warning.     *)
ReloadEditor == /\ editor # NewEditor
                /\ editor' = NewEditor /\ preview' = NewPreview
                /\ patches' = Renamed({"editor"}, "gone")
                /\ UNCHANGED <<event, modal>>

(* Nothing stops the host from typing while a save is under way.           *)
Type(field, value) ==
    /\ editor.form # None /\ editor.form.fields[field] # value
    /\ editor' = [editor EXCEPT !.form.fields[field] = value,
                                !.dirty = TRUE, !.message = None]
    /\ UNCHANGED <<event, preview, modal, patches>>

EditorPayload_PicturesOnly(form) ==
    [form.fields EXCEPT !.rest = form.fields.pictures]
EditorPayload(form) == form.fields

SaveEditor ==
    /\ editor.form # None /\ editor.dirty /\ ~editor.saving
    /\ Cardinality(patches) < MaxPatches
    /\ editor' = [editor EXCEPT !.saving = TRUE, !.message = None]
    /\ patches' = patches \cup {Patch("editor", editor.form, EditorPayload(editor.form))}
    /\ UNCHANGED <<event, preview, modal>>

(* The answer replaces the form, whatever was typed meanwhile.             *)
EditorAnswered_KeepsForm(p) ==
    IF p.answer = None
    THEN editor' = [editor EXCEPT !.saving = FALSE, !.message = "error"]
    ELSE editor' = [editor EXCEPT !.saving = FALSE, !.message = "saved", !.dirty = FALSE]
EditorAnswered(p) ==
    IF p.answer = None
    THEN editor' = [editor EXCEPT !.saving = FALSE, !.message = "error"]
    ELSE editor' = [form |-> Opened(p.answer), dirty |-> FALSE, saving |-> FALSE,
                    message |-> "saved"]

EditorAnswer(p) ==
    /\ p \in patches /\ p.author = "editor"
    /\ EditorAnswered(p)
    /\ preview' = IF p.answer = None THEN preview ELSE Previewed(Opened(p.answer))
    /\ patches' = patches \ {p}
    /\ UNCHANGED <<event, modal>>

PreviewArrives == /\ preview.asked
                  /\ preview' = [revision |-> event.revision, asked |-> FALSE, failed |-> FALSE]
                  /\ UNCHANGED <<event, editor, modal, patches>>
PreviewFails == /\ preview.asked
                /\ preview' = [preview EXCEPT !.asked = FALSE, !.failed = TRUE]
                /\ UNCHANGED <<event, editor, modal, patches>>
-----------------------------------------------------------------------------
(* The dashboard and its thumbnail dialog                                  *)

LoadDashboard == /\ modal' = None
                 /\ patches' = Renamed({"modal", "closed modal"}, "gone")
                 /\ UNCHANGED <<event, editor, preview>>

OpenModal == /\ modal = None /\ modal' = NewModal
             /\ UNCHANGED <<event, editor, preview, patches>>
LoadModal == /\ modal # None /\ modal.form = None
             /\ modal' = [modal EXCEPT !.form = Opened(event)]
             /\ UNCHANGED <<event, editor, preview, patches>>
TypeModal(value) == /\ modal # None /\ modal.form # None
                    /\ modal' = [modal EXCEPT !.form.fields.pictures = value]
                    /\ UNCHANGED <<event, editor, preview, patches>>

(* toUpdateInput: every field, as it was loaded.                           *)
SaveModal ==
    /\ modal # None /\ modal.form # None /\ ~modal.saving
    /\ Cardinality(patches) < MaxPatches
    /\ modal' = [modal EXCEPT !.saving = TRUE]
    /\ patches' = patches \cup {Patch("modal", modal.form, modal.form.fields)}
    /\ UNCHANGED <<event, editor, preview>>

(* The dialog can be closed while it saves; the answer still closes a      *)
(* dialog that was opened since.                                           *)
CloseModal == /\ modal # None /\ modal' = None
              /\ patches' = Renamed({"modal"}, "closed modal")
              /\ UNCHANGED <<event, editor, preview>>
ModalSaved(p) ==
    /\ p \in patches /\ p.author \in {"modal", "closed modal"} /\ p.answer # None
    /\ modal' = None
    /\ patches' = Renamed({"modal"}, "closed modal") \ {p, [p EXCEPT !.author = "closed modal"]}
    /\ UNCHANGED <<event, editor, preview>>
ModalRefused(p) ==
    /\ p \in patches /\ p.author = "modal" /\ p.answer = None
    /\ modal' = [modal EXCEPT !.saving = FALSE]
    /\ patches' = patches \ {p}
    /\ UNCHANGED <<event, editor, preview>>
-----------------------------------------------------------------------------
(* The server, and the connection                                          *)

Serve(p) ==
    LET saved == [fields |-> p.fields, revision |-> event.revision + 1] IN
    /\ p \in patches /\ p.answer = None /\ event.revision < MaxRevision
    /\ event' = saved
    /\ patches' = (patches \ {p}) \cup {[p EXCEPT !.answer = saved]}
    /\ UNCHANGED <<editor, preview, modal>>

(* An answer nobody waits for.                                             *)
Dropped(p) == /\ p \in patches
              /\ \/ p.author = "gone"
                 \/ p.author = "closed modal" /\ p.answer = None
              /\ patches' = patches \ {p}
              /\ UNCHANGED <<event, editor, preview, modal>>

Next == \/ LoadEditor \/ LoadFails \/ ReloadEditor \/ SaveEditor
        \/ PreviewArrives \/ PreviewFails
        \/ LoadDashboard \/ OpenModal \/ LoadModal \/ SaveModal \/ CloseModal
        \/ \E value \in Value : \/ Type("pictures", value) \/ Type("rest", value)
                                \/ TypeModal(value)
        \/ \E p \in patches : \/ Serve(p) \/ EditorAnswer(p) \/ Dropped(p)
                              \/ ModalSaved(p) \/ ModalRefused(p)

Spec == Init /\ [][Next]_vars
-----------------------------------------------------------------------------
(* Properties                                                              *)

(* The host is warned on leaving with anything unsaved: a form that says   *)
(* it is saved, or warns of nothing, is the event as the server answered   *)
(* last, also after typing during a save.                                  *)
CleanMeansSaved ==
    editor.form # None /\ (~editor.dirty \/ editor.message = "saved") =>
        editor.form.fields = editor.form.loaded.fields

(* The calendar under the form is not older than the revision the form     *)
(* shows, once its request came back.                                      *)
PreviewFollowsSaves ==
    editor.form # None /\ ~preview.asked /\ ~preview.failed =>
        preview.revision # None /\ preview.revision >= editor.form.loaded.revision

(* A save from an up-to-date form changes what was edited and nothing      *)
(* else, in either form, though both send the whole event.                 *)
FreshSavesStayNarrow ==
    [][\A p \in patches :
          /\ p.answer = None /\ p.base = event
          /\ [p EXCEPT !.answer = event'] \in patches'
          => \A f \in {"pictures", "rest"} \ p.edited :
                 event'.fields[f] = event.fields[f]]_vars

(* The form and the calendar under it are those of the last answer.        *)
EditorsInv == CleanMeansSaved /\ PreviewFollowsSaves
=============================================================================
