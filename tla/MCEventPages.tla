---------------------------- MODULE MCEventPages ----------------------------
(* Small instances, side by side, of the modules about an event and about  *)
(* the page its guests see: EventRevisions, EventDraft, EventEditors,      *)
(* AnswerPanel, MediaStage and InvitationPage.  Each abstracts from what   *)
(* the others are about and they share no state, so a behaviour steps one  *)
(* of them and leaves the others in an initial state.                      *)
EXTENDS EventRevisions, TLC

CONSTANTS MaxHour, Value, MaxSave, MaxPatches, Note, MaxCount, MaxTasks, MaxPicks,
          Parties
VARIABLES part,
          section, draft, typed,
          editorEvent, editor, preview, modal, patches,
          stored, party, shut, live, panel, sent, lost, others,
          unlocked, media, videoPaused, audioPlaying, wanted, crossed, refused,
          page, calendars, cookies, cookie, unsure

drafts == <<section, draft, typed>>
editors == <<editorEvent, editor, preview, modal, patches>>
answers == <<stored, party, shut, live, panel, sent, lost, others>>
stage == <<unlocked, media, videoPaused, audioPlaying, wanted, crossed, refused>>
pages == <<page, calendars, cookies, cookie, unsure>>

(* A party counted by its total and one counted by adults and children.    *)
MCParties == {[mode |-> "TOTAL_ONLY", total |-> 1, adults |-> None, children |-> None],
              [mode |-> "ADULTS_AND_CHILDREN", total |-> 2, adults |-> 1, children |-> 1]}

Draft == INSTANCE EventDraft
Editors == INSTANCE EventEditors WITH event <- editorEvent, MaxRevision <- MaxSave
Panel == INSTANCE AnswerPanelProofs WITH page <- panel
Stage == INSTANCE MediaStage
Shown == INSTANCE InvitationPage
ASSUME PartsAssumption ==
    /\ Draft!DraftAssumption /\ Editors!EditorsAssumption
    /\ Panel!RulesAssumption /\ Panel!PanelAssumption /\ Shown!PageAssumption

Parts == {"revisions", "draft", "editors", "panel", "stage", "page"}

(* The parts that do not step are in one initial state each.               *)
PartsInit == /\ part \in Parts
             /\ Init /\ Draft!Init /\ Editors!Init /\ Panel!Init /\ Stage!Init /\ Shown!Init
             /\ part # "draft" => section = "texts"
             /\ part # "panel" => live /\ party.total = 1
             /\ part # "page" => cookie = None /\ ~page.preview
                                 /\ page.own = CHOOSE l \in Locale : TRUE

PartsNext ==
    /\ UNCHANGED part
    /\ \/ part = "revisions" /\ Next /\ UNCHANGED <<drafts, editors, answers, stage, pages>>
       \/ part = "draft" /\ Draft!Next /\ UNCHANGED <<vars, editors, answers, stage, pages>>
       \/ part = "editors" /\ Editors!Next /\ UNCHANGED <<vars, drafts, answers, stage, pages>>
       \/ part = "panel" /\ Panel!Next /\ UNCHANGED <<vars, drafts, editors, stage, pages>>
       \/ part = "stage" /\ Stage!Next /\ UNCHANGED <<vars, drafts, editors, answers, pages>>
       \/ part = "page" /\ Shown!Next /\ UNCHANGED <<vars, drafts, editors, answers, stage>>

PartsSpec == PartsInit
             /\ [][PartsNext]_<<part, vars, drafts, editors, answers, stage, pages>>

Interchangeable == Permutations(Form)
-----------------------------------------------------------------------------
(* The properties of the form, as stated in EventDraft.                    *)
DraftInv == part = "draft" => Draft!DraftInv
TypedTimeIsShown == part = "draft" => Draft!TypedTimeIsShown

(* The properties of the two editors, as stated in EventEditors.           *)
EditorsInv == part = "editors" => Editors!EditorsInv
FreshSavesStayNarrow == Editors!FreshSavesStayNarrow

(* The properties of the panel that answers, as stated in AnswerPanel.     *)
PanelInv == part = "panel" => Panel!PanelInv
GoodFormsAreAccepted == Panel!GoodFormsAreAccepted

(* The properties of the page around it, as stated in MediaStage and       *)
(* InvitationPage.                                                         *)
ControlsShowMedia == part = "stage" => Stage!ControlsShowMedia
LanguageIsKept == part = "page" => Shown!LanguageIsKept
=============================================================================
