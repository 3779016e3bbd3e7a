---------------------------- MODULE AnswerPanel ----------------------------
(***************************************************************************)
(* The panel in which a guest answers an invitation, one page on one       *)
(* device, against the answer and the party at the server.  The page keeps *)
(* the answer and the party it was loaded with, picks the method of a      *)
(* request from that answer, and never reads the server again.  Another    *)
(* device of the guest, the host and the network work against it.          *)
(*                                                                         *)
(* The transactions behind one request are module Rsvp.                    *)
(***************************************************************************)
EXTENDS RsvpRules, FiniteSets

CONSTANTS
    Parties   \* parties the host gives the guest

PanelAssumption == Parties \subseteq Party /\ None \notin Answer

VARIABLES
    stored,  \* the answer at the server, or None
    party,   \* the party at the server
    shut,    \* the link is revoked, or its guest archived
    live,    \* responseEnabled: not a preview
    page,    \* what RsvpPanel holds
    sent,    \* requests whose answer the page still waits for
    lost,    \* history: an answer to this page was lost on the way
    others   \* history: another device answered since the page was loaded

vars == <<stored, party, shut, live, page, sent, lost, others>>

Choice == {"ACCEPTED", "DECLINED", "NOT_SURE"}
Page == [response : Answer \cup {None}, party : Parties, editing : BOOLEAN,
         status : Choice, saving : BOOLEAN, error : BOOLEAN,
         confirmed : BOOLEAN, open : BOOLEAN]

(* useState: an invitation without an answer starts with the form.         *)
Mounted(response, p) ==
    [response |-> response, party |-> p, editing |-> response = None,
     status |-> IF response # None /\ response.status \in Choice
                THEN response.status ELSE "ACCEPTED",
     saving |-> FALSE, error |-> FALSE, confirmed |-> FALSE, open |-> FALSE]

Init == /\ stored = None /\ party \in Parties /\ shut = FALSE
        /\ live \in BOOLEAN
        /\ page = Mounted(stored, party)
        /\ sent = {} /\ lost = FALSE /\ others = FALSE

Server == <<stored, party, shut, live>>

(* The page is opened or loaded again, with what the server has now.  What *)
(* the server still makes of a request of the earlier page is a step of    *)
(* another device.                                                         *)
Load == /\ ~shut
        /\ page' = Mounted(stored, party)
        /\ sent' = {} /\ lost' = FALSE /\ others' = FALSE
        /\ UNCHANGED Server
-----------------------------------------------------------------------------
(* What the panel renders                                                  *)

ShowsAnswer == page.open /\ page.response # None /\ ~page.editing
ShowsForm == page.open /\ (page.response = None \/ page.editing) /\ live

Click(new) == page' = new /\ UNCHANGED <<Server, sent, lost, others>>

(* RsvpQuickAction                                                         *)
QuickAction(status) ==
    /\ live
    /\ Click([page EXCEPT !.status = status, !.editing = TRUE,
                          !.confirmed = FALSE, !.open = TRUE])

(* The pencil of the footer, and the two buttons under an answer.          *)
ShowCurrent == /\ live /\ page.response # None
               /\ Click([page EXCEPT !.editing = FALSE, !.open = TRUE])
BeginUpdate == ShowsAnswer /\ Click([page EXCEPT !.editing = TRUE, !.confirmed = FALSE])

PickStatus(status) == ShowsForm /\ Click([page EXCEPT !.status = status])
KeepCurrent == ShowsForm /\ page.response # None /\ Click([page EXCEPT !.editing = FALSE])
ClosePanel == page.open /\ Click([page EXCEPT !.open = FALSE])
-----------------------------------------------------------------------------
(* Requests                                                                *)

(* RsvpNumber: required, between 0 and what was invited.                   *)
Entered == [total : 0..page.party.total, note : OptionalNote,
            adults : IF page.party.adults = None THEN {0} ELSE 0..page.party.adults,
            children : IF page.party.children = None THEN {0} ELSE 0..page.party.children]

(* Only the counts of the party's mode, and of an accepted answer, are     *)
(* sent.                                                                   *)
Payload_AlwaysTotal(form) ==
    LET accepted == page.status = "ACCEPTED"
        parts == accepted /\ page.party.mode = "ADULTS_AND_CHILDREN"
    IN  [status |-> page.status, note |-> form.note,
         total |-> IF accepted THEN form.total ELSE None,
         adults |-> IF parts THEN form.adults ELSE None,
         children |-> IF parts THEN form.children ELSE None]
Payload(form) ==
    LET accepted == page.status = "ACCEPTED"
        total == accepted /\ page.party.mode = "TOTAL_ONLY"
        parts == accepted /\ page.party.mode = "ADULTS_AND_CHILDREN"
    IN  [status |-> page.status, note |-> form.note,
         total |-> IF total THEN form.total ELSE None,
         adults |-> IF parts THEN form.adults ELSE None,
         children |-> IF parts THEN form.children ELSE None]

(* requestRsvp: how the request ends is not known yet.                     *)
Send(op, input) ==
    /\ page' = [page EXCEPT !.saving = TRUE, !.error = FALSE]
    /\ sent' = sent \cup {[op |-> op, input |-> input, result |-> {}, party |-> page.party]}
    /\ UNCHANGED <<Server, lost, others>>

Submit(form) ==
    /\ ShowsForm /\ ~page.saving
    /\ Send(IF page.response = None THEN "create" ELSE "update", Payload(form))

Nothing == [status |-> "NOT_SURE", total |-> None, adults |-> None,
            children |-> None, note |-> None]

Cancel == /\ ShowsAnswer /\ page.response.status = "ACCEPTED" /\ ~page.saving
          /\ Send("cancel", Nothing)

(* What the server makes of a request: an answer, or None for a refusal.   *)
Outcome(op, input) ==
    IF shut \/ ~Permits(op, stored) THEN None
    ELSE IF op = "cancel" THEN Cleared("CANCELLED", stored.note)
    ELSE IF Fits(input, party) THEN Normalized(input, party) ELSE None

Serve(r) ==
    LET answer == Outcome(r.op, r.input) IN
    /\ r \in sent /\ r.result = {}
    /\ stored' = IF answer = None THEN stored ELSE answer
    /\ sent' = (sent \ {r}) \cup {[r EXCEPT !.result = {answer}]}
    /\ UNCHANGED <<party, shut, live, page, lost, others>>

(* After the await: a refusal shows the error and keeps the form.          *)
Settled_KeepsResponse(op, answer) ==
    IF answer = None THEN [page EXCEPT !.saving = FALSE, !.error = TRUE]
    ELSE IF op = "cancel" THEN [page EXCEPT !.saving = FALSE, !.confirmed = TRUE]
    ELSE [page EXCEPT !.saving = FALSE, !.response = answer, !.editing = FALSE,
                      !.confirmed = TRUE, !.open = TRUE]
Settled(op, answer) ==
    IF answer = None THEN [page EXCEPT !.saving = FALSE, !.error = TRUE]
    ELSE IF op = "cancel"
    THEN [page EXCEPT !.saving = FALSE, !.response = answer, !.confirmed = TRUE]
    ELSE [page EXCEPT !.saving = FALSE, !.response = answer, !.editing = FALSE,
                      !.confirmed = TRUE, !.open = TRUE]
Arrive(r) ==
    /\ r \in sent
    /\ \E answer \in r.result : page' = Settled(r.op, answer)
    /\ sent' = sent \ {r}
    /\ UNCHANGED <<Server, lost, others>>

(* The proxy loses the server: the page sees an error, whatever was done.  *)
ProxyFails(r) ==
    /\ r \in sent
    /\ page' = Settled(r.op, None)
    /\ sent' = sent \ {r}
    /\ lost' = (lost \/ r.result # {})
    /\ UNCHANGED <<Server, others>>

(* The connection to the page breaks: fetch throws, and nothing after it   *)
(* in submit or cancel runs.                                               *)
ConnectionBreaks(r) ==
    /\ r \in sent
    /\ sent' = sent \ {r} /\ lost' = TRUE
    /\ UNCHANGED <<Server, page, others>>
-----------------------------------------------------------------------------
(* The others                                                              *)

(* What a page sends, of any party: no counts but with an acceptance.      *)
Sendable == {input \in Input :
                /\ input.status # "ACCEPTED" => {input.total, input.adults, input.children} = {None}
                /\ input.adults = None <=> input.children = None
                /\ input.status = "ACCEPTED" => (input.total = None <=> input.adults # None)}

OtherDevice(op, input) ==
    LET answer == Outcome(op, input) IN
    /\ answer # None /\ answer # stored
    /\ stored' = answer /\ others' = TRUE
    /\ UNCHANGED <<party, shut, live, page, sent, lost>>

HostSetsParty(p) == /\ p # party /\ party' = p
                    /\ UNCHANGED <<stored, shut, live, page, sent, lost, others>>
HostShuts == /\ ~shut /\ shut' = TRUE
             /\ UNCHANGED <<stored, party, live, page, sent, lost, others>>

Next == \/ Load \/ ShowCurrent \/ BeginUpdate \/ KeepCurrent \/ ClosePanel \/ Cancel
        \/ HostShuts
        \/ \E status \in Choice : QuickAction(status) \/ PickStatus(status)
        \/ \E form \in Entered : Submit(form)
        \/ \E r \in sent : Serve(r) \/ Arrive(r) \/ ProxyFails(r) \/ ConnectionBreaks(r)
        \/ \E input \in Sendable : OtherDevice("create", input) \/ OtherDevice("update", input)
        \/ OtherDevice("cancel", Nothing)
        \/ \E p \in Parties : HostSetsParty(p)

Spec == Init /\ [][Next]_vars
-----------------------------------------------------------------------------
(* Properties                                                              *)

(* The page and the server hold what they can hold; every stored answer    *)
(* has sound counts.                                                       *)
TypeOK == /\ page \in Page /\ party \in Parties
          /\ stored \in Answer \cup {None}
          /\ stored # None => SoundCounts(stored)

(* The answer the page shows is the stored one, unless another device      *)
(* answered or an answer to this page was lost; a request that reached     *)
(* the server and has not come back yet is the only other exception.       *)
ShownAnswerIsStored ==
    ~lost /\ ~others /\ (\A r \in sent : r.result \in {{}, {None}}) => page.response = stored

(* However the panel is closed, reopened and clicked while it saves, one   *)
(* request is under way at most, and none in a preview; the buttons stay   *)
(* locked only while it is, or after its connection broke.                 *)
OneRequestAtATime ==
    /\ Cardinality(sent) <= 1
    /\ sent # {} => live /\ page.saving
    /\ page.saving => sent # {} \/ lost

(* The panel and the server agree on the answer, and the panel is locked   *)
(* by its own request and by nothing else.                                 *)
PanelInv == TypeOK /\ ShownAnswerIsStored /\ OneRequestAtATime

(* A form the browser lets through is not refused: but for nobody          *)
(* attending, a closed link, a party changed under the page, or an answer  *)
(* the page does not know of.                                              *)
NobodyComes(r) == r.input.status = "ACCEPTED" /\ r.input.total \in {0, None}
                  /\ r.input.adults \in {0, None} /\ r.input.children \in {0, None}
GoodFormsAreAccepted ==
    [][\A r \in sent : r.result = {} /\ [r EXCEPT !.result = {None}] \in sent' =>
           shut \/ lost \/ others \/ r.party # party \/ NobodyComes(r)]_vars
=============================================================================
