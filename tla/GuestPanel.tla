----------------------------- MODULE GuestPanel -----------------------------
(***************************************************************************)
(* The host's page of guests.  Every button starts a handler that sends    *)
(* requests, waits, changes what the page holds and loads the whole list   *)
(* again; handlers of different buttons overlap, and their answers come    *)
(* in any order, or not at all.  The links of invitations exist only in    *)
(* the page: the server keeps no more than their hashes.                   *)
(*                                                                         *)
(* One page, one host.  What the API does to the rows is atomic here;      *)
(* modules Invitations and EmailDelivery take it apart.                    *)
(***************************************************************************)
EXTENDS Naturals, FiniteSets, Functions

CONSTANTS
    Guest,       \* guests the event may have
    Task,        \* handlers running at once
    Locale,      \* languages of a guest, for every field the form edits
    Op,          \* the operations the host uses
    MaxInv,      \* bound: invitations of a guest
    MaxHandlers, \* bound: handlers started on the page
    None

Bulk == {"bulkArchive", "bulkRevoke", "bulkRegenerate"}
Confirmed == {"regenerate", "revoke", "archive"}
Shares == {"share", "shareAgain"}
AllOps == Bulk \cup Confirmed \cup Shares
              \cup {"load", "generate", "restore", "email", "locale", "edit", "add", "addWithLink"}

VARIABLES
    rows,     \* rows[g]: the guest and its latest invitation at the server
    shown,    \* shown[g]: the same, as the page shows it
    links,    \* links[g]: the invitation whose link the page holds, or 0
    open,     \* the open dialogs, with what they captured
    busy,     \* the dialogs whose action is under way
    selected, \* guests ticked for a bulk action
    task,     \* task[t]: a running handler
    started,  \* handlers started so far
    unsure,   \* history: guests with crossing handlers, a lost answer or an old row
    stale     \* history: the newest list was not the last one applied

page == <<shown, links, open, busy, selected>>
vars == <<rows, page, task, started, unsure, stale>>

(* An invitation is numbered per guest; those before the latest are revoked. *)
Row == [inv : 0..MaxInv, revoked : BOOLEAN, archived : BOOLEAN, locale : Locale]
Active(row) == row # None /\ row.inv # 0 /\ ~row.revoked

Captured == [op : Confirmed \cup {"email", "shareAgain", None}, guest : Guest, inv : 0..MaxInv]
Dialogs == [confirm : Captured \cup {None}, share : Captured \cup {None},
            notify : Captured \cup {None}, bulk : Bulk \cup {None},
            form : Guest \cup {"new", None}, preview : Guest \cup {None}]

PanelAssumption ==
    /\ IsFiniteSet(Guest) /\ IsFiniteSet(Task) /\ Task # {} /\ Locale # {}
    /\ Op \subseteq AllOps
    /\ MaxInv \in Nat \ {0} /\ MaxHandlers \in Nat
    /\ None \notin Guest \cup {"new"} \cup AllOps \cup {"ok", "failed", "rejected"}
    /\ "new" \notin Guest
    /\ None \notin Row /\ None \notin Captured /\ None \notin [Guest -> Row \cup {None}]

NoDialog == [confirm |-> None, share |-> None, notify |-> None, bulk |-> None,
             form |-> None, preview |-> None]

(* The dialog whose buttons an operation keeps disabled.                   *)
Via(op) == CASE op \in Confirmed -> {"confirm"} [] op \in Shares -> {"share"}
             [] op = "email" -> {"notify"} [] op \in Bulk -> {"bulk"} [] OTHER -> {}

Result == {"ok", "failed", "rejected"}
Handler == [pc : {"idle", "serve", "answer", "read", "apply"},
            op : AllOps \cup {None},
            inv : [Guest -> 0..MaxInv],       \* captured invitations
            locale : Locale \cup {None},      \* captured fields
            before : Locale \cup {None},
            todo : SUBSET Guest,              \* requests not yet served
            result : [Guest -> Result \cup {None}],
            link : [Guest -> 0..MaxInv],      \* links in the answers
            reply : Row \cup {None},          \* the saved guest in the answer
            list : [Guest -> Row \cup {None}] \cup {None},
            rank : Nat, superseded : BOOLEAN]
Idle == [pc |-> "idle", op |-> None, inv |-> [g \in Guest |-> 0], locale |-> None,
         before |-> None, todo |-> {}, result |-> [g \in Guest |-> None],
         link |-> [g \in Guest |-> 0], reply |-> None, list |-> None, rank |-> 0, superseded |-> FALSE]

Concerns(t) == {g \in Guest : g \in task[t].todo \/ task[t].result[g] # None}

FirstRows == {None} \cup [inv : {0, 1} \cap 0..MaxInv, revoked : {FALSE},
                          archived : {FALSE}, locale : {CHOOSE l \in Locale : TRUE}]

(* The page opens and loads the list.                                      *)
Init == /\ rows \in [Guest -> FirstRows]
        /\ shown = [g \in Guest |-> None]
        /\ links = [g \in Guest |-> 0]
        /\ open = NoDialog /\ busy = {} /\ selected = {}
        /\ \E first \in Task :
              task = [t \in Task |-> IF t = first
                                     THEN [Idle EXCEPT !.pc = "read", !.op = "load"]
                                     ELSE Idle]
        /\ started = 0 /\ unsure = {} /\ stale = TRUE
-----------------------------------------------------------------------------
(* Starting handlers                                                       *)

ListReachable == open = NoDialog

(* Handlers that run on g at once leave the page unsure about g.           *)
Crossing(gs) == {g \in gs : \E t \in Task : task[t].pc \in {"serve", "answer"} /\ g \in Concerns(t)}

(* So does a language picked on a row that is out of date: it is that row's *)
(* language that comes back when the request fails.                        *)
Outdated(op, gs) == {g \in gs : op = "locale" /\ shown[g].locale # rows[g].locale}

InFlight(g) == Cardinality({t \in Task : g \in task[t].todo})
Room(gs) == /\ started < MaxHandlers
            /\ \A g \in gs : rows[g] # None => rows[g].inv + InFlight(g) < MaxInv

Begin(t, op, gs, inv, locale) ==
    /\ op \in Op /\ task[t].pc = "idle" /\ Room(gs)
    /\ task' = [task EXCEPT ![t] = [Idle EXCEPT
                   !.pc = "serve", !.op = op, !.todo = gs,
                   !.inv = [g \in Guest |-> IF g \in gs THEN inv[g] ELSE 0],
                   !.locale = locale,
                   !.before = IF op = "locale" THEN shown[CHOOSE g \in gs : TRUE].locale
                              ELSE None]]
    /\ started' = started + 1
    /\ unsure' = unsure \cup Crossing(gs) \cup Outdated(op, gs)
    /\ UNCHANGED <<rows, stale>>

ShownInv == [g \in Guest |-> IF shown[g] = None THEN 0 ELSE shown[g].inv]
Listed(g) == ListReachable /\ shown[g] # None

(* What MoreActionsMenu and GuestActions offer for a guest.                *)
Offered(g, op) ==
    /\ op \in Op /\ Listed(g)
    /\ (op = "restore") <=> shown[g].archived
    /\ op = "generate" => shown[g].inv = 0
    /\ op = "regenerate" => shown[g].inv # 0
    /\ op = "revoke" => Active(shown[g])

Generate(t, g) == /\ Offered(g, "generate")
                  /\ Begin(t, "generate", {g}, ShownInv, None)
                  /\ UNCHANGED page
Restore(t, g) == /\ Offered(g, "restore")
                 /\ Begin(t, "restore", {g}, ShownInv, None)
                 /\ UNCHANGED page

(* updateGuestLocale shows the new language before it asks for it.         *)
ChangeLocale(t, g, l) ==
    /\ Listed(g) /\ shown[g].locale # l
    /\ Begin(t, "locale", {g}, ShownInv, l)
    /\ shown' = [shown EXCEPT ![g].locale = l]
    /\ UNCHANGED <<links, open, busy, selected>>

(* shareInvitation: only without a link and an invitation it asks the   *)
(* server at once.                                                         *)
Share(t, g) ==
    /\ Listed(g) /\ ~shown[g].archived /\ links[g] = 0 /\ shown[g].inv = 0
    /\ Begin(t, "share", {g}, ShownInv, None)
    /\ busy' = busy \cup {"share"}
    /\ UNCHANGED <<shown, links, open, selected>>

(* Dialogs capture the guest as it is shown when they open.                *)
Capture(op, g) == [op |-> op, guest |-> g, inv |-> shown[g].inv]

Show(dialogs) == /\ open' = dialogs
                 /\ UNCHANGED <<rows, shown, links, busy, selected, task,
                                started, unsure, stale>>
OpenDialog(g) ==
    \/ \E op \in Confirmed : Offered(g, op) /\ Show([open EXCEPT !.confirm = Capture(op, g)])
    \/ /\ "email" \in Op /\ Listed(g)
       /\ Show([open EXCEPT !.notify =
                   Capture(IF shown[g].archived THEN None ELSE "email", g)])
    \/ /\ "shareAgain" \in Op
       /\ Listed(g) /\ ~shown[g].archived /\ links[g] = 0 /\ shown[g].inv # 0
       /\ Show([open EXCEPT !.share = Capture("shareAgain", g)])
    \/ "edit" \in Op /\ Listed(g) /\ ~shown[g].archived /\ Show([open EXCEPT !.form = g])
    \/ Listed(g) /\ ~shown[g].archived /\ Show([open EXCEPT !.preview = g])
OpenForm == {"add", "addWithLink"} \cap Op # {} /\ ListReachable /\ Show([open EXCEPT !.form = "new"])

Eligible(op, g) == /\ g \in selected /\ shown[g] # None /\ ~shown[g].archived
                   /\ op = "bulkRevoke" => Active(shown[g])
                   /\ op = "bulkRegenerate" => shown[g].inv # 0
EligibleGuests(op) == {g \in Guest : Eligible(op, g)}
OpenBulk(op) == /\ op \in Op /\ ListReachable /\ EligibleGuests(op) # {}
                /\ Show([open EXCEPT !.bulk = op])

(* Cancelling is refused while the dialog's action runs.                   *)
Cancel(d) == /\ open[d] # None /\ d \notin busy
             /\ Show([open EXCEPT ![d] = None])

Toggle(g) == /\ Listed(g) /\ Bulk \cap Op # {}
             /\ selected' = (selected \ {g}) \cup ({g} \ selected)
             /\ UNCHANGED <<rows, shown, links, open, busy, task, started, unsure, stale>>

(* performConfirmedAction, performShareConfirmation                        *)
Confirm(t, d) ==
    /\ d \in {"confirm", "share"} /\ open[d] # None /\ d \notin busy
    /\ Begin(t, open[d].op, {open[d].guest}, [g \in Guest |-> open[d].inv], None)
    /\ busy' = busy \cup {d}
    /\ UNCHANGED <<shown, links, open, selected>>

(* performNotificationRequest, sendEmail: for a guest captured as not      *)
(* eligible nothing happens and the dialog stays.                          *)
SendEmail(t) ==
    /\ open.notify # None /\ "notify" \notin busy
    /\ open.notify.op = "email"
    /\ Begin(t, "email", {open.notify.guest}, [g \in Guest |-> open.notify.inv], None)
    /\ busy' = busy \cup {"notify"}
    /\ UNCHANGED <<shown, links, open, selected>>

ConfirmBulk(t) ==
    /\ open.bulk # None /\ "bulk" \notin busy /\ EligibleGuests(open.bulk) # {}
    /\ Begin(t, open.bulk, EligibleGuests(open.bulk), ShownInv, None)
    /\ busy' = busy \cup {"bulk"}
    /\ UNCHANGED <<shown, links, open, selected>>

(* submit: nothing disables the button while the request is on its way.    *)
Submit(t, g, l) ==
    /\ open.form # None
    /\ IF open.form = "new" THEN rows[g] = None /\ InFlight(g) = 0 ELSE g = open.form
    /\ \E op \in IF open.form = "new" THEN {"add", "addWithLink"} ELSE {"edit"} :
          Begin(t, op, {g}, ShownInv, l)
    /\ UNCHANGED page
-----------------------------------------------------------------------------
(* The server.  A request is served, fails without effect, or its answer   *)
(* is lost, with or without effect.                                        *)

NewLink(row) == [row EXCEPT !.inv = @ + 1, !.revoked = FALSE]

(* What a request makes of the row, or None when it is refused.            *)
Effect(op, row, inv, l) ==
    CASE op \in {"add", "addWithLink"} ->
           [inv |-> IF op = "add" THEN 0 ELSE 1, revoked |-> FALSE, archived |-> FALSE,
            locale |-> l]
      [] op \in {"archive", "bulkArchive"} -> [row EXCEPT !.archived = TRUE]
      [] op = "restore" -> [row EXCEPT !.archived = FALSE]
      [] op \in {"locale", "edit"} -> IF row.archived THEN None ELSE [row EXCEPT !.locale = l]
      [] op \in {"generate", "share"} ->
           IF row.archived \/ Active(row) THEN None ELSE NewLink(row)
      [] op \in {"regenerate", "shareAgain", "bulkRegenerate"} ->
           IF row.archived \/ (Active(row) /\ row.inv # inv) THEN None ELSE NewLink(row)
      [] op \in {"revoke", "bulkRevoke"} ->
           IF row.inv = inv THEN [row EXCEPT !.revoked = TRUE] ELSE row
      [] op = "email" ->
           IF row.archived \/ (row.inv # 0 /\ inv = 0) THEN None ELSE NewLink(row)

GivesLink == {"addWithLink", "generate", "share", "shareAgain", "regenerate",
              "bulkRegenerate", "email"}
Saves == {"add", "addWithLink", "edit"}

Served(t, g, result, link, reply) ==
    task' = [task EXCEPT ![t] = [task[t] EXCEPT
                !.todo = @ \ {g}, !.result[g] = result, !.link[g] = link, !.reply = reply,
                !.pc = IF task[t].todo = {g} THEN "answer" ELSE "serve"]]

Serve(t, g) ==
    LET h == task[t]
        after == Effect(h.op, rows[g], h.inv[g], h.locale)
    IN  /\ h.pc = "serve" /\ g \in h.todo
        /\ \/ /\ after # None
              /\ rows' = [rows EXCEPT ![g] = after]
              /\ Served(t, g, "ok", IF h.op \in GivesLink THEN after.inv ELSE 0,
                        IF h.op \in Saves THEN after ELSE None)
              /\ UNCHANGED unsure
           \/ /\ rows' = rows
              /\ Served(t, g, "failed", 0, None)
              /\ UNCHANGED unsure
           \/ /\ rows' \in {rows} \cup IF after = None THEN {} ELSE {[rows EXCEPT ![g] = after]}
              /\ Served(t, g, "rejected", 0, None)
              /\ unsure' = unsure \cup {g}
        /\ UNCHANGED <<page, started, stale>>
-----------------------------------------------------------------------------
(* The answers                                                             *)

The(t) == CHOOSE g \in Guest : task[t].result[g] # None
Outcome(t) == task[t].result[The(t)]

EndTask(t) == task' = [task EXCEPT ![t] = Idle]
Reload(t) == task' = [task EXCEPT ![t] = [Idle EXCEPT !.pc = "read", !.op = task[t].op]]

(* setLinks: links that came are kept, links of revoked invitations go.    *)
Links_KeepsRevoked(t) ==
    [g \in Guest |-> IF task[t].link[g] # 0 THEN task[t].link[g] ELSE links[g]]
Links(t) ==
    [g \in Guest |->
        IF task[t].result[g] # "ok" THEN links[g]
        ELSE IF task[t].op \in {"revoke", "bulkRevoke"} THEN 0
        ELSE IF task[t].link[g] # 0 THEN task[t].link[g] ELSE links[g]]

(* The dialogs after the answer: a fresh link is shown in the preview, a   *)
(* saved form closes, whichever form is open by now.                       *)
AfterAnswer(t) ==
    CASE task[t].op \in {"generate", "regenerate"} -> [open EXCEPT !.preview = The(t)]
      [] task[t].op \in Saves -> [open EXCEPT !.form = None]
      [] OTHER -> open

ShownAfter(t) ==
    IF task[t].op \in Saves THEN [shown EXCEPT ![The(t)] = task[t].reply] ELSE shown

AnswerOk(t) ==
    /\ task[t].pc = "answer" /\ task[t].op \notin Bulk /\ Outcome(t) = "ok"
    /\ links' = Links(t)
    /\ open' = AfterAnswer(t)
    /\ shown' = ShownAfter(t)
    /\ Reload(t)
    /\ UNCHANGED <<rows, busy, selected, started, unsure, stale>>

(* An answer that is not ok: only generate loads all the same.             *)
Rollback_Forgotten(t) == shown
Rollback(t) == IF task[t].op = "locale" /\ shown[The(t)] # None
               THEN [shown EXCEPT ![The(t)].locale = task[t].before] ELSE shown

(* The finally blocks.                                                     *)
Released_OnlyWhenDone(t) == IF task[t].pc = "apply" THEN busy \ Via(task[t].op) ELSE busy
Released(t) == busy \ Via(task[t].op)

AnswerFailed(t) ==
    /\ task[t].pc = "answer" /\ task[t].op \notin Bulk /\ Outcome(t) = "failed"
    /\ shown' = Rollback(t)
    /\ IF task[t].op = "generate" THEN Reload(t) /\ UNCHANGED busy
       ELSE EndTask(t) /\ busy' = Released(t)
    /\ UNCHANGED <<rows, links, open, selected, started, unsure, stale>>

(* fetch throws: sendEmail and updateGuestLocale catch it, the others only *)
(* release their dialog.                                                   *)
AnswerLost(t) ==
    /\ task[t].pc = "answer" /\ task[t].op \notin Bulk /\ Outcome(t) = "rejected"
    /\ shown' = Rollback(t)
    /\ EndTask(t)
    /\ busy' = Released(t)
    /\ UNCHANGED <<rows, links, open, selected, started, unsure, stale>>

AnswerBulk(t) ==
    /\ task[t].pc = "answer" /\ task[t].op \in Bulk
    /\ links' = Links(t)
    /\ Reload(t)
    /\ UNCHANGED <<rows, shown, open, busy, selected, started, unsure, stale>>
-----------------------------------------------------------------------------
(* load: five requests at once, of which the list of guests matters here.  *)

Loaded == {t \in Task : task[t].pc = "apply" /\ task[t].list # None}

ReadList(t) ==
    /\ task[t].pc = "read"
    /\ task' = [task EXCEPT ![t].pc = "apply", ![t].list = rows,
                            ![t].rank = Cardinality(Loaded) + 1]
    /\ UNCHANGED <<rows, page, started, unsure, stale>>

LoadFails(t) == /\ task[t].pc = "read"
                /\ task' = [task EXCEPT ![t].pc = "apply"]
                /\ UNCHANGED <<rows, page, started, unsure, stale>>

(* Lists read before the one that is applied, or fails, are overtaken.     *)
Overtaken(t) == {u \in Loaded \ {t} : task[t].list = None \/ task[u].rank < task[t].rank}

(* What remains of the handler once load returns.                          *)
Completed(t) == [d \in DOMAIN NoDialog |->
                    IF d \in Via(task[t].op) /\ task[t].op # "share" THEN None ELSE open[d]]

Apply(t) ==
    /\ task[t].pc = "apply"
    /\ shown' = IF task[t].list = None THEN shown ELSE task[t].list
    /\ open' = Completed(t)
    /\ busy' = Released(t)
    /\ selected' = IF task[t].op \in Bulk THEN {} ELSE selected
    /\ stale' = (task[t].list = None \/ task[t].superseded)
    /\ task' = [u \in Task |->
                   IF u = t THEN Idle
                   ELSE [task[u] EXCEPT
                           !.superseded = @ \/ u \in Overtaken(t),
                           !.rank = IF u \in Loaded /\ t \in Loaded /\ @ > task[t].rank
                                    THEN @ - 1 ELSE @]]
    /\ UNCHANGED <<rows, links, started, unsure>>
-----------------------------------------------------------------------------
TaskStep(t) == \/ \E g \in Guest : Serve(t, g)
               \/ AnswerOk(t) \/ AnswerFailed(t) \/ AnswerLost(t) \/ AnswerBulk(t)
               \/ ReadList(t) \/ LoadFails(t) \/ Apply(t)

Start(t) == \/ \E g \in Guest : \/ Generate(t, g) \/ Restore(t, g) \/ Share(t, g)
                                \/ \E l \in Locale : ChangeLocale(t, g, l) \/ Submit(t, g, l)
            \/ \E d \in {"confirm", "share"} : Confirm(t, d)
            \/ SendEmail(t) \/ ConfirmBulk(t)

Press == \/ \E g \in Guest : OpenDialog(g) \/ Toggle(g)
         \/ \E op \in Bulk : OpenBulk(op)
         \/ \E d \in DOMAIN NoDialog : Cancel(d)
         \/ OpenForm

Next == Press \/ \E t \in Task : Start(t) \/ TaskStep(t)

Spec == Init /\ [][Next]_vars

-----------------------------------------------------------------------------
(* Properties                                                              *)

(* Every variable holds what the component's state can hold.               *)
TypeOK == /\ rows \in [Guest -> Row \cup {None}]
          /\ shown \in [Guest -> Row \cup {None}]
          /\ links \in [Guest -> 0..MaxInv]
          /\ stale \in BOOLEAN
          /\ open \in Dialogs
          /\ busy \subseteq {"confirm", "share", "notify", "bulk"}
          /\ selected \subseteq Guest /\ unsure \subseteq Guest
          /\ task \in [Task -> Handler]

Quiet == \A t \in Task : task[t].pc = "idle"
Alone(g) == \A t \in Task : task[t].pc \in {"serve", "answer"} => g \notin Concerns(t)

(* However handlers of several guests and their loads overlap, a page at   *)
(* rest shows what the server has, but for guests whose own handlers       *)
(* crossed or lost an answer or set out from an old row (Outdated), and    *)
(* when an old list came after a newer one.                                *)
FreshWhenQuiet == Quiet /\ ~stale => \A g \in Guest \ unsure : shown[g] = rows[g]

(* A link the page holds is the guest's only link: rotating it anywhere on *)
(* the page replaces it and revoking it removes it.  That of an archived   *)
(* guest opens nothing until the guest is restored.                        *)
HeldLinkWorks == \A g \in Guest \ unsure :
    Alone(g) /\ links[g] # 0 => Active(rows[g]) /\ links[g] = rows[g].inv

(* The buttons of a dialog are disabled only while an action of it runs,   *)
(* so that none stays locked; and always while its action runs, but for    *)
(* the share dialog.  Its flag is one for all guests and for two handlers, *)
(* which may overlap: the first that ends unlocks the others, and a share  *)
(* of one guest locks the dialog of another.                               *)
Running(d) == \E t \in Task : task[t].pc # "idle" /\ d \in Via(task[t].op)
BusyWhileRunning ==
    /\ \A d \in busy : Running(d)
    /\ \A d \in {"confirm", "notify", "bulk"} : Running(d) => d \in busy

(* A confirmation that closes by itself has done at the server what it     *)
(* asked for; a failed one stays open.                                     *)
ClosedMeansDone ==
    [][\A g \in Guest \ unsure :
          LET c == open.confirm IN
          /\ c # None /\ open'.confirm = None /\ "confirm" \in busy /\ c.guest = g
          => CASE c.op = "archive" -> rows[g].archived
               [] c.op = "revoke" -> ~(Active(rows[g]) /\ rows[g].inv = c.inv)
               [] c.op = "regenerate" -> rows[g].inv > c.inv]_vars

(* The component's state is of its type; its dialogs are locked by the     *)
(* handlers that run and by nothing else, and stay locked while they run,  *)
(* but for the share dialog.                                               *)
DialogsInv == TypeOK /\ BusyWhileRunning
=============================================================================
