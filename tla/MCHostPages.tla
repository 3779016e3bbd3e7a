---------------------------- MODULE MCHostPages -----------------------------
(* Small instances, side by side, of the modules about the host's page of  *)
(* guests: GuestPanel with every operation on one guest and with the links *)
(* of two, GuestEdits, GuestList and ReadMarks.  Each abstracts from what  *)
(* the others are about and they share no state, so a behaviour steps one  *)
(* of them and leaves the others in an initial state.                      *)
EXTENDS ReadMarks, Integers, TLC

CONSTANTS Sole, Task, Request, Locale, MaxInv, MaxHandlers, MaxPart, MaxTotal, None,
          Typed, Partial, GuestRow
VARIABLES part,
          rows, shown, links, open, busy, selected, task, started, unsure, stale,
          row, req,
          guests, ticked, event

LinkOps == {"generate", "regenerate", "revoke", "bulkRevoke"}
AllOps == LinkOps \cup {"share", "shareAgain", "archive", "restore", "email", "locale",
                        "edit", "add", "addWithLink", "bulkRegenerate", "bulkArchive"}

(* What is typed into the form, and patches that do not come from it.      *)
Typing(c, e, p, m, t, a, k, l) ==
    [channel |-> c, email |-> e, phone |-> p, mode |-> m, total |-> t, adults |-> a,
     children |-> k, locale |-> l]
MCTyped ==
    {Typing(c, e, p, "TOTAL_ONLY", 2, 0, 0, "en") :
        c \in {"EMAIL", "SMS", "BOTH", "MANUAL"}, e \in {"spaced", None}, p \in {"plain", None}}
    \cup {Typing("SMS", None, "short", "TOTAL_ONLY", 2, 0, 0, "en")}
    \cup {Typing("MANUAL", None, None, "TOTAL_ONLY", MaxTotal + 1, 0, 0, "en")}
    \cup {Typing("BOTH", "spaced", "plain", "ADULTS_AND_CHILDREN", 0, a, 1, "es") : a \in {1, 2}}
MCPartial == {[locale |-> "es"], [channel |-> "EMAIL"], [email |-> None],
              [email |-> "spaced"], [mode |-> "TOTAL_ONLY"], [adults |-> 0], [total |-> -1]}

(* Rows of guests: one per invitation and answer that differ in the list.  *)
AnswerOf(s, n) == [status |-> s, attending |-> IF s = "ACCEPTED" THEN 2 ELSE 0, note |-> n,
                   message |-> FALSE]
Link(r, opens, rsvp) == [revoked |-> r, opens |-> opens, rsvp |-> rsvp]
Listed(a, c, i) == [archived |-> a, channel |-> c[1], email |-> c[2], phone |-> c[3],
                    total |-> 2, invitation |-> i]
Mail == <<"EMAIL", TRUE, FALSE>>
MCGuestRow ==
    {Listed(a, Mail, i) : a \in BOOLEAN,
        i \in {None, Link(FALSE, 0, None), Link(FALSE, 1, None), Link(TRUE, 0, None),
               Link(FALSE, 1, AnswerOf("ACCEPTED", TRUE)),
               Link(TRUE, 1, AnswerOf("ACCEPTED", FALSE))}}
    \cup {Listed(FALSE, Mail, Link(FALSE, 1, AnswerOf(s, FALSE))) :
             s \in {"DECLINED", "NOT_SURE", "CANCELLED"}}
    \cup {Listed(FALSE, c, None) :
             c \in {<<"BOTH", TRUE, TRUE>>, <<"MANUAL", FALSE, FALSE>>, <<"SMS", TRUE, TRUE>>}}
-----------------------------------------------------------------------------
panel == <<rows, shown, links, open, busy, selected, task, started, unsure, stale>>
edits == <<row, req>>
table == <<guests, ticked, event>>

OnePanel == INSTANCE GuestPanelProofs WITH Guest <- Sole, Op <- AllOps
TwoPanel == INSTANCE GuestPanelProofs WITH Op <- LinkOps
Edits == INSTANCE GuestEdits
Table == INSTANCE GuestList WITH selected <- ticked
ASSUME PartsAssumption ==
    /\ OnePanel!PanelAssumption /\ TwoPanel!PanelAssumption
    /\ Edits!EditsAssumption /\ Table!ListAssumption

Parts == {"one", "two", "edits", "list", "reads"}

(* The parts that do not step are in one initial state each.               *)
StillPanel == /\ OnePanel!Init
              /\ rows = [g \in Sole |-> None]
              /\ task = [t \in Task |-> IF t = CHOOSE x \in Task : TRUE
                                        THEN [OnePanel!Idle EXCEPT !.pc = "read", !.op = "load"]
                                        ELSE OnePanel!Idle]
StillTable == /\ guests = [g \in Guest |-> Listed(FALSE, Mail, None)] /\ ticked = {}
              /\ event = [published |-> TRUE, provider |-> TRUE]

PartsInit == /\ part \in Parts
             /\ CASE part = "one" -> OnePanel!Init
                  [] part = "two" -> TwoPanel!Init
                  [] OTHER -> StillPanel
             /\ IF part = "list" THEN Table!Init ELSE StillTable
             /\ Edits!Init /\ Init

PartsNext ==
    /\ UNCHANGED part
    /\ \/ part = "one" /\ OnePanel!Next /\ UNCHANGED <<edits, table, vars>>
       \/ part = "two" /\ TwoPanel!Next /\ UNCHANGED <<edits, table, vars>>
       \/ part = "edits" /\ Edits!Next /\ UNCHANGED <<panel, table, vars>>
       \/ part = "list" /\ Table!Next /\ UNCHANGED <<panel, edits, vars>>
       \/ part = "reads" /\ Next /\ UNCHANGED <<panel, edits, table>>

PartsSpec == PartsInit /\ [][PartsNext]_<<part, panel, edits, table, vars>>

Interchangeable == Permutations(Guest) \cup Permutations(Task) \cup Permutations(Request)
                       \cup Permutations(Tab)
-----------------------------------------------------------------------------
(* The properties of the page's handlers, as stated in GuestPanel.         *)
DialogsInv == (part = "one" => OnePanel!DialogsInv) /\ (part = "two" => TwoPanel!DialogsInv)
FreshWhenQuiet == /\ part = "one" => OnePanel!FreshWhenQuiet
                  /\ part = "two" => TwoPanel!FreshWhenQuiet
HeldLinkWorks == /\ part = "one" => OnePanel!HeldLinkWorks
                 /\ part = "two" => TwoPanel!HeldLinkWorks

(* The properties of a guest's row and of what the page shows, as stated   *)
(* in GuestEdits and GuestList; that of the read marks is ReadMarks' own.  *)
EditsInv == part = "edits" => Edits!EditsInv
ListInv == part = "list" => Table!ListInv

(* A step of the host does what the host was shown and asked for: a patch  *)
(* changes what it names, a dialog closes on what it did, a tick on the    *)
(* visible guests leaves the hidden ones alone.                            *)
StepsAsAsked == /\ Edits!PatchesStayNarrow
                /\ OnePanel!ClosedMeansDone
                /\ Table!HiddenTicksStay
=============================================================================
