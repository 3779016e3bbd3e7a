-------------------------- MODULE GuestPanelProofs --------------------------
(***************************************************************************)
(* What the runs check about the handlers of the host's page of guests,    *)
(* for any guests, languages, numbers of handlers and of invitations.      *)
(*                                                                         *)
(* Every action is first shown to be one of a few kinds of steps, with    *)
(* what the invariant needs to know of it; each part of the invariant is   *)
(* then kept by every kind.                                                *)
(***************************************************************************)
EXTENDS GuestPanel, FiniteSetTheorems, TLAPS

-----------------------------------------------------------------------------
(* The invariant.                                                          *)

Asking(t) == task[t].pc \in {"serve", "answer"}
Adds == {"add", "addWithLink"}

(* What a handler holds by the place it has reached: a request for each    *)
(* guest it concerns, or none any more; one guest, but for the bulks.      *)
HandlerShape == \A t \in Task :
    /\ task[t].todo # {} <=> task[t].pc = "serve"
    /\ task[t].pc # "apply" => task[t].list = None
    /\ Asking(t) =>
          /\ Concerns(t) # {}
          /\ task[t].op \in AllOps \ {"load"}
          /\ task[t].op \in Adds \cup {"locale", "edit"} => task[t].locale \in Locale
          /\ task[t].op = "locale" => task[t].before \in Locale
          /\ task[t].op \notin Bulk => \A g, h \in Concerns(t) : g = h
          /\ \A g \in task[t].todo : task[t].result[g] = None
          /\ \A g \in Guest : task[t].result[g] = "rejected" => g \in unsure

(* Numbers of invitations only grow, and nobody forgets a guest.           *)
Known(g, row) == row # None => rows[g] # None /\ row.inv <= rows[g].inv
DialogsKnown ==
    /\ open.confirm # None => rows[open.confirm.guest] # None
                              /\ open.confirm.inv <= rows[open.confirm.guest].inv
    /\ open.share # None => rows[open.share.guest] # None
    /\ open.notify # None => rows[open.notify.guest] # None
    /\ open.form \in Guest => rows[open.form] # None
NeverAhead ==
    /\ \A g \in Guest : Known(g, shown[g])
    /\ \A t \in Task : task[t].list # None => \A g \in Guest : Known(g, task[t].list[g])
    /\ \A t \in Task : Asking(t) => \A g \in Concerns(t) : Known(g, task[t].reply)
    /\ DialogsKnown

(* There are invitations left for the requests on their way, and a guest   *)
(* is added once.                                                          *)
Capacity ==
    /\ \A g \in Guest : rows[g] # None => rows[g].inv + InFlight(g) <= MaxInv
    /\ \A t \in Task : \A g \in task[t].todo :
          IF task[t].op \in Adds
          THEN rows[g] = None /\ \A u \in Task : g \in task[u].todo => u = t
          ELSE rows[g] # None

(* One dialog at a time, but for the preview, and one handler for each.    *)
Exclusive == {"confirm", "share", "notify", "bulk", "form"}
DialogShape ==
    /\ open.confirm # None => open.confirm.op \in Confirmed
    /\ open.share # None => open.share.op = "shareAgain"
    /\ open.notify # None => open.notify.op \in {"email", None}
    /\ \A d, e \in Exclusive : open[d] # None /\ open[e] # None => d = e
OnePerDialog ==
    \A d \in {"confirm", "notify", "bulk"} : \A t, u \in Task :
        task[t].pc # "idle" /\ task[u].pc # "idle" /\ d \in Via(task[t].op) /\ d \in Via(task[u].op)
        => t = u

(* Of a guest nothing crossed: one handler at a time, and the link the     *)
(* page holds, or will hold after the answer, works.                       *)
Works(g, link) == link # 0 => Active(rows[g]) /\ link = rows[g].inv
LinksFollow == \A g \in Guest \ unsure :
    /\ Alone(g) => Works(g, links[g])
    /\ \A t \in Task : Asking(t) /\ g \in Concerns(t) =>
          /\ Works(g, Links(t)[g])
          /\ \A u \in Task : Asking(u) /\ g \in Concerns(u) => u = t

(* A confirmation stays open while its handler runs, and what the handler  *)
(* did stays done.                                                         *)
Done(c) == CASE c.op = "archive" -> rows[c.guest].archived
             [] c.op = "revoke" -> ~(Active(rows[c.guest]) /\ rows[c.guest].inv = c.inv)
             [] c.op = "regenerate" -> rows[c.guest].inv > c.inv
ConfirmationHolds == \A t \in Task :
    task[t].pc # "idle" /\ task[t].op \in Confirmed =>
        LET c == open.confirm IN
        /\ c # None /\ c.op = task[t].op
        /\ Asking(t) => Concerns(t) = {c.guest} /\ task[t].inv[c.guest] = c.inv
        /\ c.guest \notin unsure =>
              IF Asking(t) THEN task[t].result[c.guest] = "ok" => Done(c)
              ELSE Alone(c.guest) /\ Done(c)

(* Lists are ranked in the order they were read.                           *)
Ranked == \A t, u \in Loaded : /\ task[t].rank \in 1..Cardinality(Loaded)
                               /\ task[t].rank = task[u].rank => t = u

(* A guest the page shows as the server has it, or as it will be shown     *)
(* again if the language being changed is refused.                         *)
Restored(g, row) ==
    \/ row = rows[g]
    \/ \E t \in Task : /\ Asking(t) /\ task[t].op = "locale" /\ g \in Concerns(t)
                       /\ row # None /\ [row EXCEPT !.locale = task[t].before] = rows[g]
LocaleKept == \A t \in Task : \A g \in Guest \ unsure :
    Asking(t) /\ task[t].op = "locale" /\ g \in Concerns(t) /\ task[t].result[g] # "ok" =>
        task[t].before = rows[g].locale
Current(u, g) == task[u].list[g] = rows[g]
Upcoming(g) == \/ \E t \in Task : task[t].pc = "read" \/ (task[t].pc = "apply" /\ task[t].list = None)
               \/ \E t \in Task : Asking(t) /\ task[t].result[g] = "ok"
Follows(g) == /\ Restored(g, shown[g]) \/ stale \/ \E u \in Loaded : Current(u, g)
              /\ \A u \in Loaded : ~Current(u, g) =>
                    \/ task[u].superseded
                    \/ \E v \in Loaded : task[v].rank > task[u].rank /\ Current(v, g)
ListsFollow == \A g \in Guest \ unsure : Upcoming(g) \/ Follows(g)

PanelIInv == /\ TypeOK /\ HandlerShape /\ NeverAhead /\ Capacity
             /\ DialogShape /\ BusyWhileRunning /\ OnePerDialog
             /\ LinksFollow /\ ConfirmationHolds /\ Ranked /\ LocaleKept /\ ListsFollow

-----------------------------------------------------------------------------
(* Starting handlers.                                                      *)

(* Every operation starts a handler of this form.                          *)
Begun(t, h) ==
    /\ h \in Handler /\ task[t].pc = "idle" /\ task' = [task EXCEPT ![t] = h]
    /\ h.pc = "serve" /\ h.op \in Op /\ h.op # "load" /\ h.todo # {} /\ Room(h.todo)
    /\ h.result = [g \in Guest |-> None] /\ h.reply = None /\ h.list = None
    /\ h.op \notin Bulk => \E g \in Guest : h.todo = {g}
    /\ IF h.op \in Adds THEN \A g \in h.todo : rows[g] = None /\ InFlight(g) = 0
       ELSE \A g \in h.todo : rows[g] # None
    /\ h.op \in Confirmed => /\ open.confirm # None /\ h.op = open.confirm.op
                             /\ h.todo = {open.confirm.guest}
                             /\ h.inv[open.confirm.guest] = open.confirm.inv
    /\ open.confirm # None => h.op \in Confirmed
    /\ Via(h.op) \cap busy \subseteq {"share"} /\ busy' = busy \cup Via(h.op)
    /\ h.op \in Adds \cup {"locale", "edit"} => h.locale \in Locale
    /\ h.op = "locale" =>
          \E g \in Guest : /\ h.todo = {g} /\ shown[g] # None /\ h.before = shown[g].locale
                           /\ shown' = [shown EXCEPT ![g].locale = h.locale]
    /\ h.op # "locale" => shown' = shown
    /\ unsure' = unsure \cup Crossing(h.todo) \cup Outdated(h.op, h.todo)
    /\ UNCHANGED <<rows, links, open, selected, stale>>

(* A handler that does not run holds nothing.                              *)
LEMMA IdleIs ==
    ASSUME PanelAssumption
    PROVE  /\ Idle \in Handler /\ Idle.pc = "idle" /\ Idle.todo = {} /\ Idle.list = None
           /\ Idle.result = [g \in Guest |-> None] /\ Idle.reply = None /\ Idle.op = None
<1> DEFINE none == [g \in Guest |-> None]
           zero == [g \in Guest |-> 0]
<1>1. 0 \in 0..MaxInv
  BY DEF PanelAssumption
<1>2. none \in [Guest -> Result \cup {None}] /\ zero \in [Guest -> 0..MaxInv]
  BY <1>1
<1>3. Idle = [pc |-> "idle", op |-> None, inv |-> zero, locale |-> None, before |-> None,
              todo |-> {}, result |-> none, link |-> zero, reply |-> None, list |-> None,
              rank |-> 0, superseded |-> FALSE]
  BY DEF Idle
<1> HIDE DEF none, zero
<1>4. Idle \in Handler
  BY <1>2, <1>3 DEF Handler
<1>5. /\ Idle.pc = "idle" /\ Idle.todo = {} /\ Idle.list = None
      /\ Idle.result = none /\ Idle.reply = None /\ Idle.op = None
  BY <1>3
<1> QED
  BY <1>4, <1>5 DEF none

(* What Begin makes of the handler.                                        *)
Begins(t, h, op, gs, inv, l) ==
    /\ task[t].pc = "idle" /\ task' = [task EXCEPT ![t] = h]
    /\ h.pc = "serve" /\ h.op = op /\ op \in Op /\ h.todo = gs /\ Room(gs)
    /\ h.inv = [g \in Guest |-> IF g \in gs THEN inv[g] ELSE 0]
    /\ h.result = [g \in Guest |-> None] /\ h.reply = None /\ h.list = None
    /\ h.locale = l
    /\ h.before = IF op = "locale" THEN shown[CHOOSE g \in gs : TRUE].locale ELSE None
    /\ unsure' = unsure \cup Crossing(gs) \cup Outdated(op, gs)
    /\ UNCHANGED <<rows, stale>>

(* Begin starts such a handler.                                            *)
LEMMA BeginIs ==
    ASSUME PanelAssumption, TypeOK, NEW t \in Task, NEW op \in AllOps \ {"load"},
           NEW gs \in SUBSET Guest, NEW inv \in [Guest -> 0..MaxInv], NEW l \in Locale \cup {None},
           op = "locale" => \E g \in Guest : gs = {g} /\ shown[g] # None,
           Begin(t, op, gs, inv, l)
    PROVE  \E h \in Handler : Begins(t, h, op, gs, inv, l)
<1> DEFINE before == IF op = "locale" THEN shown[CHOOSE g \in gs : TRUE].locale ELSE None
           was == [g \in Guest |-> IF g \in gs THEN inv[g] ELSE 0]
           h == [Idle EXCEPT !.pc = "serve", !.op = op, !.todo = gs, !.inv = was,
                             !.locale = l, !.before = before]
<1>1. before \in Locale \cup {None}
  <2>1. CASE op = "locale"
    <3>1. PICK g \in Guest : gs = {g} /\ shown[g] # None
      BY <2>1
    <3>2. (CHOOSE x \in gs : TRUE) = g
      BY <3>1
    <3>3. shown[g] \in Row
      BY <3>1 DEF TypeOK
    <3>4. shown[g].locale \in Locale
      BY <3>3 DEF Row
    <3> QED
      BY <2>1, <3>2, <3>4
  <2> QED
    BY <2>1
<1>2. 0 \in 0..MaxInv
  BY DEF PanelAssumption
<1>3. was \in [Guest -> 0..MaxInv]
  BY <1>2
<1>4. /\ task' = [task EXCEPT ![t] = h] /\ task[t].pc = "idle" /\ op \in Op /\ Room(gs)
      /\ unsure' = unsure \cup Crossing(gs) \cup Outdated(op, gs) /\ UNCHANGED <<rows, stale>>
  BY DEF Begin
<1> HIDE DEF before, was
<1>5. h \in Handler
  BY <1>1, <1>3, IdleIs DEF Handler
<1>6. /\ h.pc = "serve" /\ h.op = op /\ h.todo = gs /\ h.inv = was /\ h.locale = l
      /\ h.before = before /\ h.result = Idle.result /\ h.reply = Idle.reply /\ h.list = Idle.list
  BY IdleIs DEF Handler
<1> HIDE DEF h
<1> QED
  BY <1>4, <1>5, <1>6, IdleIs DEF before, was, Begins

(* Every guest is shown with a number, or with 0.                          *)
LEMMA ShownInvIs ==
    ASSUME PanelAssumption, TypeOK PROVE ShownInv \in [Guest -> 0..MaxInv]
BY DEF ShownInv, TypeOK, Row, PanelAssumption

(* A handler started on one listed guest, without a dialog.                *)
LEMMA ListedBegin ==
    ASSUME PanelAssumption, TypeOK, NeverAhead, NEW t \in Task, NEW g \in Guest, Listed(g),
           NEW op \in {"generate", "restore", "share", "locale"}, NEW l \in Locale \cup {None},
           Begin(t, op, {g}, ShownInv, l), busy' = busy \cup Via(op),
           IF op = "locale" THEN l \in Locale /\ shown' = [shown EXCEPT ![g].locale = l]
           ELSE shown' = shown,
           UNCHANGED <<links, open, selected>>
    PROVE  \E h \in Handler : Begun(t, h)
<1>1. /\ op \in AllOps \ {"load"} /\ op \notin Bulk /\ op \notin Confirmed /\ op \notin Adds
      /\ Via(op) \subseteq {"share"}
  BY DEF AllOps, Bulk, Confirmed, Shares, Adds, Via
<1>2. shown[g] # None /\ open.confirm = None
  BY DEF Listed, ListReachable, NoDialog
<1>3. rows[g] # None
  BY <1>2 DEF NeverAhead, Known
<1>4. PICK h \in Handler : Begins(t, h, op, {g}, ShownInv, l)
  <2>1. {g} \in SUBSET Guest /\ (op = "locale" => \E x \in Guest : {g} = {x} /\ shown[x] # None)
    BY <1>2
  <2>2. ShownInv \in [Guest -> 0..MaxInv]
    BY ShownInvIs
  <2> QED
    BY <1>1, <2>1, <2>2, BeginIs
<1>5. (CHOOSE x \in {g} : TRUE) = g
  OBVIOUS
<1>6. h.op = "locale" => \E x \in Guest : /\ h.todo = {x} /\ shown[x] # None /\ h.before = shown[x].locale
                                          /\ shown' = [shown EXCEPT ![x].locale = h.locale]
  BY <1>2, <1>4, <1>5 DEF Begins
<1>7. \E x \in Guest : h.todo = {x}
  BY <1>4 DEF Begins
<1>8. /\ task[t].pc = "idle" /\ task' = [task EXCEPT ![t] = h]
      /\ h.pc = "serve" /\ h.op = op /\ op \in Op /\ h.todo = {g} /\ Room(h.todo)
      /\ h.result = [x \in Guest |-> None] /\ h.reply = None /\ h.list = None
      /\ (op = "locale" => h.locale \in Locale) /\ op # "edit"
      /\ unsure' = unsure \cup Crossing(h.todo) \cup Outdated(h.op, h.todo)
      /\ UNCHANGED <<rows, links, open, selected, stale>>
  BY <1>4 DEF Begins
<1>9. h.op # "locale" => shown' = shown
  BY <1>8
<1> QED
  BY <1>1, <1>2, <1>3, <1>6, <1>7, <1>8, <1>9 DEF Begun

(* What a dialog captured.                                                 *)
LEMMA CapturedIs ==
    ASSUME TypeOK, NEW d \in {"confirm", "share", "notify"}, open[d] # None
    PROVE  open[d].guest \in Guest /\ open[d].inv \in 0..MaxInv
<1>1. open.confirm \in Captured \cup {None} /\ open.share \in Captured \cup {None}
      /\ open.notify \in Captured \cup {None}
  BY DEF TypeOK, Dialogs
<1> QED
  BY <1>1 DEF Captured

(* A handler started by the button of a dialog.                            *)
LEMMA DialogBegin ==
    ASSUME PanelAssumption, TypeOK, DialogShape, NEW t \in Task, NEW gs \in SUBSET Guest, gs # {},
           \A g \in gs : rows[g] # None,
           NEW op \in AllOps \ {"load", "locale", "add", "addWithLink"}, NEW l \in Locale \cup {None},
           NEW inv \in [Guest -> 0..MaxInv], op \notin Bulk => \E g \in Guest : gs = {g},
           op \in Confirmed => /\ open.confirm # None /\ op = open.confirm.op
                               /\ gs = {open.confirm.guest}
                               /\ inv[open.confirm.guest] = open.confirm.inv,
           open.confirm # None => op \in Confirmed,
           op = "edit" => l \in Locale, Begin(t, op, gs, inv, l), Via(op) \cap busy \subseteq {"share"}, busy' = busy \cup Via(op),
           UNCHANGED <<shown, links, open, selected>>
    PROVE  \E h \in Handler : Begun(t, h)
<1>1. PICK h \in Handler : Begins(t, h, op, gs, inv, l)
  BY BeginIs
<1>2. h.op \in Confirmed => h.inv[open.confirm.guest] = open.confirm.inv
  BY <1>1, CapturedIs DEF Begins
<1> QED
  BY <1>1, <1>2 DEF Begins, Begun, Adds

(* Every button that starts a handler starts it like this.                 *)
LEMMA StartIsBegun ==
    ASSUME PanelAssumption, TypeOK, NeverAhead, DialogShape, NEW t \in Task, Start(t)
    PROVE  \E h \in Handler : Begun(t, h)
<1> DEFINE G == \E h \in Handler : Begun(t, h)
<1>1. ASSUME NEW g \in Guest, Generate(t, g) \/ Restore(t, g) \/ Share(t, g) PROVE G
  <2>1. PICK op \in {"generate", "restore", "share"} :
          /\ Listed(g) /\ Begin(t, op, {g}, ShownInv, None) /\ busy' = busy \cup Via(op)
          /\ UNCHANGED <<shown, links, open, selected>>
    BY <1>1 DEF Generate, Restore, Share, Offered, page, Via, Confirmed, Shares, Bulk
  <2> QED
    BY <2>1, ListedBegin
<1>2. ASSUME NEW g \in Guest, NEW l \in Locale, ChangeLocale(t, g, l) PROVE G
  <2>1. /\ Listed(g) /\ Begin(t, "locale", {g}, ShownInv, l) /\ busy' = busy \cup Via("locale")
        /\ shown' = [shown EXCEPT ![g].locale = l] /\ UNCHANGED <<links, open, selected>>
    BY <1>2 DEF ChangeLocale, Via, Confirmed, Shares, Bulk
  <2> QED
    BY <2>1, ListedBegin
<1>3. ASSUME Confirm(t, "confirm") PROVE G
  <2> DEFINE c == open.confirm
             inv == [g \in Guest |-> c.inv]
  <2>1. c # None /\ "confirm" \notin busy /\ Begin(t, c.op, {c.guest}, inv, None)
        /\ busy' = busy \cup {"confirm"} /\ UNCHANGED <<shown, links, open, selected>>
    BY <1>3 DEF Confirm
  <2>2. c.guest \in Guest /\ c.inv \in 0..MaxInv /\ c.op \in Confirmed /\ rows[c.guest] # None
    BY <2>1, CapturedIs DEF DialogShape, NeverAhead, DialogsKnown
  <2>3. Via(c.op) = {"confirm"} /\ c.op # "edit" /\ c.op \in AllOps \ {"load", "locale", "add", "addWithLink"}
    BY <2>2 DEF Via, Confirmed, Shares, Bulk, AllOps
  <2>4. inv \in [Guest -> 0..MaxInv] /\ inv[c.guest] = c.inv
    BY <2>2
  <2> QED
    BY <2>1, <2>2, <2>3, <2>4, DialogBegin
<1>4. ASSUME Confirm(t, "share") PROVE G
  <2> DEFINE c == open.share
             inv == [g \in Guest |-> c.inv]
  <2>1. c # None /\ Begin(t, c.op, {c.guest}, inv, None)
        /\ busy' = busy \cup {"share"} /\ UNCHANGED <<shown, links, open, selected>>
    BY <1>4 DEF Confirm
  <2>2. c.guest \in Guest /\ c.inv \in 0..MaxInv /\ c.op = "shareAgain" /\ rows[c.guest] # None
    BY <2>1, CapturedIs DEF DialogShape, NeverAhead, DialogsKnown
  <2>3. Via(c.op) = {"share"} /\ c.op \in AllOps \ {"load", "locale", "add", "addWithLink"}
        /\ c.op \notin Bulk /\ c.op \notin Confirmed
    BY <2>2 DEF Via, Confirmed, AllOps, Shares, Bulk
  <2>4. inv \in [Guest -> 0..MaxInv]
    BY <2>2
  <2>5. open.confirm = None
    BY <2>1 DEF DialogShape, Exclusive
  <2> QED
    BY <2>1, <2>2, <2>3, <2>4, <2>5, DialogBegin
<1>5. ASSUME SendEmail(t) PROVE G
  <2> DEFINE c == open.notify
             inv == [g \in Guest |-> c.inv]
  <2>1. c # None /\ c.op = "email" /\ Begin(t, "email", {c.guest}, inv, None) /\ "notify" \notin busy
        /\ busy' = busy \cup {"notify"} /\ UNCHANGED <<shown, links, open, selected>>
    BY <1>5 DEF SendEmail
  <2>2. c.guest \in Guest /\ c.inv \in 0..MaxInv /\ rows[c.guest] # None
    BY <2>1, CapturedIs DEF NeverAhead, DialogsKnown
  <2>3. Via("email") = {"notify"} /\ "email" \in AllOps \ {"load", "locale", "add", "addWithLink"}
        /\ "email" \notin Bulk /\ "email" \notin Confirmed
    BY DEF Via, Confirmed, AllOps, Shares, Bulk
  <2>4. inv \in [Guest -> 0..MaxInv]
    BY <2>2
  <2>5. open.confirm = None
    BY <2>1 DEF DialogShape, Exclusive
  <2> QED
    BY <2>1, <2>2, <2>3, <2>4, <2>5, DialogBegin
<1>6. ASSUME ConfirmBulk(t) PROVE G
  <2> DEFINE op == open.bulk
             gs == EligibleGuests(op)
  <2>1. op # None /\ gs # {} /\ Begin(t, op, gs, ShownInv, None) /\ "bulk" \notin busy
        /\ busy' = busy \cup {"bulk"} /\ UNCHANGED <<shown, links, open, selected>>
    BY <1>6 DEF ConfirmBulk
  <2>2. op \in Bulk /\ gs \in SUBSET Guest /\ \A g \in gs : shown[g] # None
    BY <2>1 DEF TypeOK, Dialogs, EligibleGuests, Eligible
  <2>3. Via(op) = {"bulk"} /\ op # "edit" /\ op \in AllOps \ {"load", "locale", "add", "addWithLink"}
        /\ op \notin Confirmed
    BY <2>2 DEF Via, Confirmed, AllOps, Shares, Bulk
  <2>4. \A g \in gs : rows[g] # None
    BY <2>2 DEF NeverAhead, Known
  <2>5. open.confirm = None
    BY <2>1 DEF DialogShape, Exclusive
  <2> HIDE DEF op, gs
  <2> QED
    BY <2>1, <2>2, <2>3, <2>4, <2>5, ShownInvIs, DialogBegin
<1>7. ASSUME NEW g \in Guest, NEW l \in Locale, Submit(t, g, l) PROVE G
  <2>1. open.form # None /\ UNCHANGED <<shown, links, open, busy, selected>>
    BY <1>7 DEF Submit, page
  <2>2. open.confirm = None
    BY <2>1 DEF DialogShape, Exclusive
  <2>3. CASE open.form # "new"
    <3>1. g = open.form /\ Begin(t, "edit", {g}, ShownInv, l)
      BY <1>7, <2>3 DEF Submit
    <3>2. rows[g] # None
      BY <3>1 DEF NeverAhead, DialogsKnown
    <3>3. Via("edit") = {} /\ "edit" \in AllOps \ {"load", "locale", "add", "addWithLink"}
          /\ "edit" \notin Bulk /\ "edit" \notin Confirmed
      BY DEF Via, Confirmed, AllOps, Shares, Bulk
    <3> QED
      BY <2>1, <2>2, <3>1, <3>2, <3>3, ShownInvIs, DialogBegin
  <2>4. CASE open.form = "new"
    <3>1. PICK op \in Adds : Begin(t, op, {g}, ShownInv, l)
      BY <1>7, <2>4 DEF Submit, Adds
    <3>2. rows[g] = None /\ InFlight(g) = 0
      BY <1>7, <2>4 DEF Submit
    <3>3. Via(op) = {} /\ op \in AllOps \ {"load"} /\ op # "locale" /\ op \notin Bulk /\ op \notin Confirmed
      BY DEF Via, Confirmed, AllOps, Shares, Bulk, Adds
    <3>4. ShownInv \in [Guest -> 0..MaxInv] /\ {g} \in SUBSET Guest
      BY ShownInvIs
    <3>5. PICK h \in Handler : Begins(t, h, op, {g}, ShownInv, l)
      BY <3>1, <3>3, <3>4, BeginIs
    <3> QED
      BY <2>1, <2>2, <3>2, <3>3, <3>5 DEF Begins, Begun
  <2> QED
    BY <2>3, <2>4
<1> QED
  BY <1>1, <1>2, <1>3, <1>4, <1>5, <1>6, <1>7 DEF Start

-----------------------------------------------------------------------------
(* The kinds of steps.                                                     *)

(* What a button does that starts no handler: a dialog opens over the      *)
(* list, or one that is not busy is cancelled.                             *)
Pressed ==
    /\ UNCHANGED <<rows, shown, links, busy, task, unsure, stale>>
    /\ open' \in Dialogs /\ selected' \subseteq Guest
    /\ DialogShape' /\ DialogsKnown'
    /\ "confirm" \in busy => open'.confirm = open.confirm

(* What the server makes of a handler when it serves or loses a request.   *)
After(t, g) == Effect(task[t].op, rows[g], task[t].inv[g], task[t].locale)
Serves(t, g, h) ==
    /\ task[t].pc = "serve" /\ g \in task[t].todo
    /\ task' = [task EXCEPT ![t] = h]
    /\ h.todo = task[t].todo \ {g} /\ h.pc = IF h.todo = {} THEN "answer" ELSE "serve"
    /\ h.op = task[t].op /\ h.inv = task[t].inv /\ h.before = task[t].before
    /\ h.locale = task[t].locale /\ h.list = task[t].list
    /\ \A x \in Guest \ {g} : h.result[x] = task[t].result[x] /\ h.link[x] = task[t].link[x]
    /\ h.result[g] \in Result
    /\ h.result[g] = "ok" => /\ After(t, g) # None /\ rows' = [rows EXCEPT ![g] = After(t, g)]
                             /\ h.link[g] = IF h.op \in GivesLink THEN After(t, g).inv ELSE 0
    /\ h.reply = None \/ (h.reply = After(t, g) /\ h.result[g] = "ok" /\ h.op \in Saves)
    /\ h.result[g] = "failed" => rows' = rows
    /\ rows' = rows \/ (After(t, g) # None /\ rows' = [rows EXCEPT ![g] = After(t, g)])
    /\ unsure' = IF h.result[g] = "rejected" THEN unsure \cup {g} ELSE unsure
    /\ UNCHANGED <<page, stale>>

(* What an answer does.                                                    *)
Answered(t, h) ==
    /\ task[t].pc = "answer" /\ task' = [task EXCEPT ![t] = h]
    /\ h.pc \in {"idle", "read"} /\ h.todo = {} /\ h.list = None /\ h.reply = None
    /\ h.result = [g \in Guest |-> None]
    /\ h.pc = "read" => h.op = task[t].op
    /\ h.pc = "idle" => \A g \in Guest : task[t].result[g] # "ok"
    /\ h.pc = "read" /\ task[t].op \notin Bulk \cup {"generate"} =>
          \A g \in Concerns(t) : task[t].result[g] = "ok"
    /\ links' \in [Guest -> 0..MaxInv] /\ \A g \in Guest : links'[g] = Links(t)[g]
    /\ busy' = IF h.pc = "idle" THEN busy \ Via(task[t].op) ELSE busy
    /\ open' \in Dialogs /\ open'.form \in {open.form, None}
    /\ \A d \in {"confirm", "share", "notify", "bulk"} : open'[d] = open[d]
    /\ shown' \in [Guest -> Row \cup {None}]
    /\ \A g \in Guest \ Concerns(t) : shown'[g] = shown[g]
    /\ \A g \in Concerns(t) :
          \/ shown'[g] = shown[g]
             /\ (task[t].op = "locale" => task[t].result[g] = "ok" \/ shown[g] = None)
          \/ shown'[g] = task[t].reply /\ task[t].op \in Saves /\ task[t].result[g] = "ok"
          \/ /\ task[t].op = "locale" /\ task[t].result[g] # "ok" /\ shown[g] # None
             /\ shown'[g] = [shown[g] EXCEPT !.locale = task[t].before]
    /\ UNCHANGED <<rows, selected, unsure, stale>>

(* What is left of handlers when one has loaded.                           *)
SameBut(t) ==
    \A u \in Task \ {t} :
        /\ task'[u].pc = task[u].pc /\ task'[u].op = task[u].op /\ task'[u].inv = task[u].inv
        /\ task'[u].locale = task[u].locale /\ task'[u].before = task[u].before
        /\ task'[u].todo = task[u].todo
        /\ task'[u].result = task[u].result /\ task'[u].link = task[u].link
        /\ task'[u].reply = task[u].reply /\ task'[u].list = task[u].list
Applies(t) ==
    /\ task[t].pc = "apply" /\ task' \in [Task -> Handler] /\ SameBut(t)
    /\ \A u \in Task \ {t} :
          /\ task'[u].superseded = (task[u].superseded \/ u \in Overtaken(t))
          /\ task'[u].rank = IF u \in Loaded /\ t \in Loaded /\ task[u].rank > task[t].rank
                             THEN task[u].rank - 1 ELSE task[u].rank
    /\ task'[t].pc = "idle" /\ task'[t].todo = {} /\ task'[t].list = None
    /\ task'[t].result = [g \in Guest |-> None]
    /\ shown' = IF task[t].list = None THEN shown ELSE task[t].list
    /\ open' \in Dialogs /\ open'.form = open.form /\ open'.share \in {open.share, None}
    /\ \A d \in {"confirm", "notify", "bulk"} :
          open'[d] = IF d \in Via(task[t].op) THEN None ELSE open[d]
    /\ busy' = busy \ Via(task[t].op) /\ selected' \subseteq selected
    /\ stale' = (task[t].list = None \/ task[t].superseded)
    /\ UNCHANGED <<rows, links, unsure>>

(* What the server makes of a row is a row, and numbers only grow.         *)
LEMMA EffectIs ==
    ASSUME PanelAssumption, NEW op \in AllOps \ {"load"}, NEW row \in Row \cup {None}, NEW inv \in 0..MaxInv,
           NEW l \in Locale \cup {None}, row # None => row.inv < MaxInv,
           op \in Adds \cup {"locale", "edit"} => l \in Locale,
           op \notin Adds => row # None,
           Effect(op, row, inv, l) # None
    PROVE  /\ Effect(op, row, inv, l) \in Row
           /\ op \notin Adds => row.inv <= Effect(op, row, inv, l).inv
<1>1. CASE op \in Adds
  <2>1. Effect(op, row, inv, l) = [inv |-> IF op = "add" THEN 0 ELSE 1, revoked |-> FALSE,
                                   archived |-> FALSE, locale |-> l]
    BY <1>1 DEF Effect, Adds
  <2> QED
    BY <1>1, <2>1 DEF Row, PanelAssumption
<1>2. CASE op \notin Adds
  <2>1. row \in Row /\ row.inv < MaxInv /\ row.inv \in Nat
    BY <1>2 DEF Row, PanelAssumption
  <2>2. NewLink(row) \in Row /\ row.inv <= NewLink(row).inv
    <3>1. row.inv + 1 \in 0..MaxInv /\ row.inv <= row.inv + 1
      BY <2>1 DEF PanelAssumption
    <3> QED
      BY <2>1, <3>1 DEF NewLink, Row
  <2>3. \A b \in BOOLEAN : /\ [row EXCEPT !.archived = b] \in Row /\ row.inv <= [row EXCEPT !.archived = b].inv
                           /\ [row EXCEPT !.revoked = b] \in Row /\ row.inv <= [row EXCEPT !.revoked = b].inv
    BY <2>1 DEF Row
  <2>4. l \in Locale => [row EXCEPT !.locale = l] \in Row /\ row.inv <= [row EXCEPT !.locale = l].inv
    BY <2>1 DEF Row
  <2>5. row.inv <= row.inv
    BY <2>1
  <2> DEFINE after == Effect(op, row, inv, l)
  <2>6. \/ after = NewLink(row) \/ after = row
        \/ after = [row EXCEPT !.archived = TRUE] \/ after = [row EXCEPT !.archived = FALSE]
        \/ after = [row EXCEPT !.revoked = TRUE]
        \/ l \in Locale /\ after = [row EXCEPT !.locale = l]
    <3>1. CASE op \in {"archive", "bulkArchive", "restore", "locale", "edit"}
      BY <3>1 DEF Effect
    <3>2. CASE op \in {"generate", "share", "regenerate", "shareAgain", "bulkRegenerate"}
      BY <3>2 DEF Effect
    <3>3. CASE op \in {"revoke", "bulkRevoke", "email"}
      BY <3>3 DEF Effect
    <3> QED
      BY <1>2, <3>1, <3>2, <3>3 DEF AllOps, Bulk, Confirmed, Shares, Adds
  <2> HIDE DEF after
  <2> QED
    BY <1>2, <2>1, <2>2, <2>3, <2>4, <2>5, <2>6 DEF after
<1> QED
  BY <1>1, <1>2

(* A request makes one invitation at most.                                 *)
LEMMA GrowsByOne ==
    ASSUME NEW op \in AllOps \ ({"load"} \cup Adds), NEW row \in Row, NEW inv, NEW l,
           Effect(op, row, inv, l) # None, row.inv \in Nat
    PROVE  Effect(op, row, inv, l).inv <= row.inv + 1
<1> DEFINE after == Effect(op, row, inv, l)
<1>1. NewLink(row).inv = row.inv + 1
  BY DEF NewLink, Row
<1>2. after.inv = row.inv \/ after.inv = NewLink(row).inv
  <2>1. CASE op \in {"archive", "bulkArchive", "restore", "locale", "edit"}
    BY <2>1 DEF Effect, Row
  <2>2. CASE op \in {"generate", "share", "regenerate", "shareAgain", "bulkRegenerate"}
    BY <2>2 DEF Effect
  <2>3. CASE op \in {"revoke", "bulkRevoke", "email"}
    BY <2>3 DEF Effect, Row
  <2> QED
    BY <2>1, <2>2, <2>3 DEF AllOps, Bulk, Confirmed, Shares, Adds
<1> HIDE DEF after
<1> QED
  BY <1>1, <1>2 DEF after

(* One dialog opens over the list, of a guest as it is shown.              *)
LEMMA ShowIs ==
    ASSUME PanelAssumption, TypeOK, NeverAhead, open = NoDialog, "confirm" \in busy => open.confirm # None,
           NEW d \in {"confirm", "share", "notify", "bulk", "form", "preview"}, NEW x,
           Show([open EXCEPT ![d] = x]),
           d \in {"confirm", "share", "notify"} =>
              /\ x \in Captured /\ shown[x.guest] # None /\ x.inv = shown[x.guest].inv
              /\ d = "confirm" => x.op \in Confirmed
              /\ d = "share" => x.op = "shareAgain"
              /\ d = "notify" => x.op \in {"email", None},
           d = "bulk" => x \in Bulk,
           d = "form" => x = "new" \/ (x \in Guest /\ shown[x] # None),
           d = "preview" => x \in Guest
    PROVE  Pressed
<1>1. open \in Dialogs /\ \A e \in DOMAIN NoDialog : open[e] = None
  BY DEF TypeOK, NoDialog
<1>2. DOMAIN NoDialog = {"confirm", "share", "notify", "bulk", "form", "preview"}
  BY DEF NoDialog
<1>3. open' = [open EXCEPT ![d] = x] /\ UNCHANGED <<rows, shown, links, busy, selected, task, started, unsure, stale>>
  BY DEF Show
<1>4. open' \in Dialogs
  BY <1>1, <1>3 DEF Dialogs
<1>5. open'[d] = x /\ \A e \in DOMAIN NoDialog \ {d} : open'[e] = None
  BY <1>1, <1>2, <1>3 DEF Dialogs
<1>6. "confirm" \notin busy
  BY <1>1, <1>2
<1>7. d \in {"confirm", "share", "notify"} =>
        /\ x.guest \in Guest /\ rows[x.guest] # None /\ x.inv <= rows[x.guest].inv
  BY DEF Captured, NeverAhead, Known
<1>8. d = "form" => (x \in Guest => rows[x] # None)
  BY DEF NeverAhead, Known, PanelAssumption
<1>9. DialogsKnown'
  BY <1>2, <1>3, <1>5, <1>7, <1>8, PanelAssumption DEF DialogsKnown, PanelAssumption
<1>10. DialogShape'
  BY <1>2, <1>5 DEF DialogShape, Exclusive
<1> QED
  BY <1>3, <1>4, <1>6, <1>9, <1>10 DEF Pressed, TypeOK

(* Every other button does no more than this.                              *)
LEMMA PressIs ==
    ASSUME PanelAssumption, TypeOK, NeverAhead, DialogShape, "confirm" \in busy => open.confirm # None, Press
    PROVE  Pressed
<1>1. ASSUME NEW g \in Guest, OpenDialog(g) PROVE Pressed
  <2>1. Listed(g)
    BY <1>1 DEF OpenDialog, Offered
  <2>2. open = NoDialog /\ shown[g] # None /\ shown[g] \in Row
    BY <2>1 DEF Listed, ListReachable, TypeOK
  <2>3. \A op \in Confirmed \cup {"email", "shareAgain", None} :
            /\ Capture(op, g) \in Captured /\ Capture(op, g).op = op
            /\ Capture(op, g).guest = g /\ Capture(op, g).inv = shown[g].inv
    BY <2>2 DEF Capture, Captured, Row
  <2>4. ASSUME NEW op \in Confirmed, Show([open EXCEPT !.confirm = Capture(op, g)]) PROVE Pressed
    BY <2>2, <2>3, <2>4, ShowIs
  <2>5. ASSUME NEW op \in {"email", None}, Show([open EXCEPT !.notify = Capture(op, g)]) PROVE Pressed
    BY <2>2, <2>3, <2>5, ShowIs
  <2>6. ASSUME Show([open EXCEPT !.share = Capture("shareAgain", g)]) PROVE Pressed
    BY <2>2, <2>3, <2>6, ShowIs
  <2>7. ASSUME Show([open EXCEPT !.form = g]) PROVE Pressed
    BY <2>2, <2>7, ShowIs
  <2>8. ASSUME Show([open EXCEPT !.preview = g]) PROVE Pressed
    BY <2>2, <2>8, ShowIs
  <2> QED
    BY <1>1, <2>4, <2>5, <2>6, <2>7, <2>8 DEF OpenDialog
<1>2. ASSUME NEW g \in Guest, Toggle(g) PROVE Pressed
  <2>1. /\ open' = open /\ selected' \subseteq Guest
        /\ UNCHANGED <<rows, shown, links, busy, task, started, unsure, stale>>
    BY <1>2 DEF Toggle, TypeOK
  <2> QED
    BY <2>1 DEF Pressed, TypeOK, DialogShape, NeverAhead, DialogsKnown
<1>3. ASSUME NEW op \in Bulk, OpenBulk(op) PROVE Pressed
  <2>1. open = NoDialog /\ Show([open EXCEPT !.bulk = op])
    BY <1>3 DEF OpenBulk, ListReachable
  <2> QED
    BY <2>1, ShowIs
<1>4. ASSUME NEW d \in DOMAIN NoDialog, Cancel(d) PROVE Pressed
  <2>1. d \in {"confirm", "share", "notify", "bulk", "form", "preview"}
    BY DEF NoDialog
  <2>2. open' = [open EXCEPT ![d] = None] /\ d \notin busy
        /\ UNCHANGED <<rows, shown, links, busy, selected, task, started, unsure, stale>>
    BY <1>4 DEF Cancel, Show
  <2>3. open' \in Dialogs /\ open'[d] = None
        /\ \A e \in {"confirm", "share", "notify", "bulk", "form", "preview"} \ {d} : open'[e] = open[e]
    BY <2>1, <2>2 DEF TypeOK, Dialogs
  <2>4. DialogShape'
    BY <2>1, <2>3 DEF DialogShape, Exclusive
  <2>5. DialogsKnown'
    BY <2>1, <2>2, <2>3 DEF NeverAhead, DialogsKnown, PanelAssumption
  <2> QED
    BY <2>2, <2>3, <2>4, <2>5 DEF Pressed, TypeOK
<1>5. ASSUME OpenForm PROVE Pressed
  <2>1. open = NoDialog /\ Show([open EXCEPT !.form = "new"])
    BY <1>5 DEF OpenForm, ListReachable
  <2> QED
    BY <2>1, ShowIs
<1> QED
  BY <1>1, <1>2, <1>3, <1>4, <1>5 DEF Press

(* Requests on their way are counted by a number, 0 where there is none.   *)
LEMMA InFlightIs ==
    ASSUME PanelAssumption, NEW g \in Guest
    PROVE  /\ IsFiniteSet({t \in Task : g \in task[t].todo})
           /\ InFlight(g) \in Nat
           /\ InFlight(g) = 0 <=> \A t \in Task : g \notin task[t].todo
<1> DEFINE S == {t \in Task : g \in task[t].todo}
<1>1. S \subseteq Task /\ IsFiniteSet(Task)
  BY DEF PanelAssumption
<1>2. IsFiniteSet(S)
  BY <1>1, FS_Subset
<1>3. Cardinality(S) \in Nat /\ (Cardinality(S) = 0 <=> S = {})
  BY <1>2, FS_CardinalityType, FS_EmptySet
<1> QED
  BY <1>2, <1>3 DEF InFlight

(* What a request makes of its guest is a row with an invitation left.     *)
LEMMA AfterIs ==
    ASSUME PanelAssumption, TypeOK, HandlerShape, Capacity, NEW t \in Task, NEW g \in task[t].todo,
           task[t].pc = "serve"
    PROVE  /\ task[t].op \notin Adds => rows[g] # None
           /\ After(t, g) # None => /\ After(t, g) \in Row
                                    /\ task[t].op \notin Adds => rows[g].inv <= After(t, g).inv
<1>1. /\ task[t] \in Handler /\ g \in Guest
  BY DEF TypeOK, Handler
<1>2. /\ task[t].inv[g] \in 0..MaxInv /\ task[t].locale \in Locale \cup {None}
      /\ rows[g] \in Row \cup {None}
  BY <1>1 DEF TypeOK, Handler
<1>3. /\ task[t].op \in AllOps \ {"load"}
      /\ task[t].op \in Adds \cup {"locale", "edit"} => task[t].locale \in Locale
  BY DEF HandlerShape, Asking
<1>4. task[t].op \notin Adds => rows[g] # None
  BY DEF Capacity
<1>5. rows[g] # None => rows[g].inv < MaxInv
  <2>1. InFlight(g) \in Nat /\ InFlight(g) # 0
    BY <1>1, InFlightIs
  <2>2. rows[g] # None => rows[g].inv + InFlight(g) <= MaxInv /\ rows[g].inv \in Nat
    BY <1>1, <1>2 DEF Capacity, Row
  <2> QED
    BY <2>1, <2>2, PanelAssumption DEF PanelAssumption
<1> QED
  BY <1>2, <1>3, <1>4, <1>5, EffectIs DEF After

(* Serve does this to the handler.                                         *)
LEMMA ServeIs ==
    ASSUME PanelAssumption, TypeOK, HandlerShape, Capacity, NEW t \in Task, NEW g \in Guest, Serve(t, g)
    PROVE  \E h \in Handler : Serves(t, g, h)
<1> DEFINE after == After(t, g)
<1>1. task[t] \in Handler /\ task[t].pc = "serve" /\ g \in task[t].todo
      /\ UNCHANGED <<page, started, stale>>
  BY DEF Serve, TypeOK
<1>2. after # None => after \in Row /\ after.inv \in 0..MaxInv
  BY <1>1, AfterIs DEF Row
<1>3. ASSUME NEW result \in Result, NEW link \in 0..MaxInv, NEW reply \in Row \cup {None},
             Served(t, g, result, link, reply),
             result = "ok" => /\ after # None /\ rows' = [rows EXCEPT ![g] = after]
                              /\ link = IF task[t].op \in GivesLink THEN after.inv ELSE 0,
             reply = None \/ (reply = after /\ result = "ok" /\ task[t].op \in Saves),
             result = "failed" => rows' = rows,
             rows' = rows \/ (after # None /\ rows' = [rows EXCEPT ![g] = after]),
             unsure' = IF result = "rejected" THEN unsure \cup {g} ELSE unsure
      PROVE  \E h \in Handler : Serves(t, g, h)
  <2> DEFINE pc == IF task[t].todo = {g} THEN "answer" ELSE "serve"
             h == [task[t] EXCEPT !.todo = @ \ {g}, !.result[g] = result, !.link[g] = link,
                                  !.reply = reply, !.pc = pc]
  <2>1. task' = [task EXCEPT ![t] = h]
    BY <1>3 DEF Served
  <2>2. /\ pc \in {"idle", "serve", "answer", "read", "apply"} /\ task[t].todo \ {g} \in SUBSET Guest
        /\ [task[t].result EXCEPT ![g] = result] \in [Guest -> Result \cup {None}]
        /\ [task[t].link EXCEPT ![g] = link] \in [Guest -> 0..MaxInv]
    BY <1>1 DEF Handler
  <2>3. h \in Handler
    BY <1>1, <2>2 DEF Handler
  <2>4. /\ h.todo = task[t].todo \ {g} /\ h.pc = pc /\ h.op = task[t].op /\ h.inv = task[t].inv
        /\ h.locale = task[t].locale /\ h.before = task[t].before /\ h.list = task[t].list /\ h.reply = reply
        /\ h.result = [task[t].result EXCEPT ![g] = result] /\ h.link = [task[t].link EXCEPT ![g] = link]
    BY <1>1 DEF Handler
  <2>5. pc = IF task[t].todo \ {g} = {} THEN "answer" ELSE "serve"
    BY <1>1
  <2>6. /\ h.result[g] = result /\ h.link[g] = link
        /\ \A x \in Guest \ {g} : h.result[x] = task[t].result[x] /\ h.link[x] = task[t].link[x]
    BY <1>1, <2>4 DEF Handler
  <2> HIDE DEF h, pc, after
  <2>7. Serves(t, g, h)
    BY <1>1, <1>3, <2>1, <2>4, <2>5, <2>6 DEF Serves, after
  <2> QED
    BY <2>3, <2>7
<1>4. 0 \in 0..MaxInv
  BY DEF PanelAssumption
<1>5. \/ /\ after # None /\ rows' = [rows EXCEPT ![g] = after]
         /\ Served(t, g, "ok", IF task[t].op \in GivesLink THEN after.inv ELSE 0,
                               IF task[t].op \in Saves THEN after ELSE None)
         /\ unsure' = unsure
      \/ rows' = rows /\ Served(t, g, "failed", 0, None) /\ unsure' = unsure
      \/ /\ rows' = rows \/ (after # None /\ rows' = [rows EXCEPT ![g] = after])
         /\ Served(t, g, "rejected", 0, None) /\ unsure' = unsure \cup {g}
  BY DEF Serve, After
<1> HIDE DEF after
<1> QED
  BY <1>2, <1>3, <1>4, <1>5 DEF Result

(* A handler of one guest asks about that guest.                           *)
LEMMA TheIs ==
    ASSUME HandlerShape, NEW t \in Task, task[t].pc = "answer"
    PROVE  /\ task[t].todo = {} /\ The(t) \in Concerns(t) /\ The(t) \in Guest
           /\ task[t].op \notin Bulk => \A g \in Concerns(t) : g = The(t)
           /\ \A g \in Guest : g \in Concerns(t) <=> task[t].result[g] # None
<1>1. task[t].todo = {} /\ Concerns(t) # {}
  BY DEF HandlerShape, Asking
<1>2. \A g \in Guest : g \in Concerns(t) <=> task[t].result[g] # None
  BY <1>1 DEF Concerns
<1>3. The(t) \in Guest /\ task[t].result[The(t)] # None
  <2>1. \E g \in Guest : task[t].result[g] # None
    BY <1>1, <1>2 DEF Concerns
  <2> QED
    BY <2>1 DEF The
<1>4. task[t].op \notin Bulk => \A g \in Concerns(t) : g = The(t)
  BY <1>2, <1>3 DEF HandlerShape, Asking
<1> QED
  BY <1>1, <1>2, <1>3, <1>4

(* A handler that ends, and one that goes on to load the list.             *)
LEMMA NextHandlerIs ==
    ASSUME PanelAssumption, TypeOK, NEW t \in Task
    PROVE  /\ EndTask(t) => \E h \in Handler :
                /\ task' = [task EXCEPT ![t] = h] /\ h.pc = "idle" /\ h.todo = {} /\ h.list = None
                /\ h.reply = None /\ h.result = [g \in Guest |-> None]
           /\ Reload(t) => \E h \in Handler :
                /\ task' = [task EXCEPT ![t] = h] /\ h.pc = "read" /\ h.todo = {} /\ h.list = None
                /\ h.reply = None /\ h.result = [g \in Guest |-> None] /\ h.op = task[t].op
<1> DEFINE h == [Idle EXCEPT !.pc = "read", !.op = task[t].op]
<1>1. task[t].op \in AllOps \cup {None}
  BY DEF TypeOK, Handler
<1>2. h \in Handler
  BY <1>1, IdleIs DEF Handler
<1>3. /\ h.pc = "read" /\ h.todo = Idle.todo /\ h.list = Idle.list /\ h.reply = Idle.reply
      /\ h.result = Idle.result /\ h.op = task[t].op
  BY IdleIs DEF Handler
<1>4. Reload(t) => task' = [task EXCEPT ![t] = h]
  BY DEF Reload
<1> HIDE DEF h
<1> QED
  BY <1>2, <1>3, <1>4, IdleIs DEF EndTask

(* Links stay numbers of invitations.                                      *)
LEMMA LinksIs ==
    ASSUME PanelAssumption, TypeOK, NEW t \in Task
    PROVE  /\ Links(t) \in [Guest -> 0..MaxInv]
           /\ (\A g \in Guest : task[t].result[g] # "ok") => Links(t) = links
<1>1. task[t].link \in [Guest -> 0..MaxInv] /\ links \in [Guest -> 0..MaxInv] /\ 0 \in 0..MaxInv
  BY DEF TypeOK, Handler, PanelAssumption
<1> QED
  BY <1>1 DEF Links

(* Every answer does this to the page.                                     *)
LEMMA AnswerIs ==
    ASSUME PanelAssumption, TypeOK, HandlerShape, NEW t \in Task,
           AnswerOk(t) \/ AnswerFailed(t) \/ AnswerLost(t) \/ AnswerBulk(t)
    PROVE  \E h \in Handler : Answered(t, h)
<1> DEFINE x == The(t)
           G == \E h \in Handler : Answered(t, h)
<1>1. task[t].pc = "answer"
  BY DEF AnswerOk, AnswerFailed, AnswerLost, AnswerBulk
<1>2. /\ task[t].todo = {} /\ x \in Concerns(t) /\ x \in Guest
      /\ task[t].op \notin Bulk => \A g \in Concerns(t) : g = x
      /\ \A g \in Guest : g \in Concerns(t) <=> task[t].result[g] # None
  BY <1>1, TheIs
<1>3. /\ task[t] \in Handler /\ shown \in [Guest -> Row \cup {None}] /\ open \in Dialogs
      /\ task[t].reply \in Row \cup {None}
  BY DEF TypeOK, Handler
<1>4. ASSUME AnswerOk(t) PROVE G
  <2>1. /\ task[t].op \notin Bulk /\ task[t].result[x] = "ok" /\ links' = Links(t)
        /\ open' = AfterAnswer(t) /\ shown' = ShownAfter(t) /\ Reload(t)
        /\ UNCHANGED <<rows, busy, selected, started, unsure, stale>>
    BY <1>4 DEF AnswerOk, Outcome
  <2>2. PICK h \in Handler :
                /\ task' = [task EXCEPT ![t] = h] /\ h.pc = "read" /\ h.todo = {} /\ h.list = None
                /\ h.reply = None /\ h.result = [g \in Guest |-> None] /\ h.op = task[t].op
    BY <2>1, NextHandlerIs
  <2>3. /\ open' \in Dialogs /\ open'.form \in {open.form, None}
        /\ \A d \in {"confirm", "share", "notify", "bulk"} : open'[d] = open[d]
    BY <1>2, <1>3, <2>1 DEF AfterAnswer, Dialogs, Saves
  <2>4. /\ shown' \in [Guest -> Row \cup {None}]
        /\ \A g \in Guest \ Concerns(t) : shown'[g] = shown[g]
        /\ shown'[x] = shown[x] \/ (shown'[x] = task[t].reply /\ task[t].op \in Saves)
    BY <1>2, <1>3, <2>1 DEF ShownAfter
  <2> QED
    BY <1>1, <1>2, <2>1, <2>2, <2>3, <2>4, LinksIs DEF Answered
<1>5. ASSUME AnswerFailed(t) \/ AnswerLost(t) PROVE G
  <2>1. /\ task[t].op \notin Bulk /\ task[t].result[x] # "ok" /\ UNCHANGED links
        /\ UNCHANGED <<rows, open, selected, started, unsure, stale>> /\ shown' = Rollback(t)
        /\ (Reload(t) /\ UNCHANGED busy /\ task[t].op = "generate") \/ (EndTask(t) /\ busy' = busy \ Via(task[t].op))
    BY <1>5 DEF AnswerFailed, AnswerLost, Outcome, Released
  <2>2. \A g \in Guest : task[t].result[g] # "ok"
    BY <1>2, <2>1, PanelAssumption DEF PanelAssumption
  <2>3. Links(t) = links /\ links' \in [Guest -> 0..MaxInv]
    BY <2>1, <2>2, LinksIs DEF TypeOK
  <2>4. /\ shown' \in [Guest -> Row \cup {None}]
        /\ \A g \in Guest \ Concerns(t) : shown'[g] = shown[g]
        /\ IF task[t].op = "locale" /\ shown[x] # None
           THEN shown'[x] = [shown[x] EXCEPT !.locale = task[t].before]
           ELSE shown'[x] = shown[x]
    <3>1. CASE task[t].op = "locale" /\ shown[x] # None
      <4>1. shown[x] \in Row /\ task[t].before \in Locale
        BY <1>1, <1>2, <1>3, <3>1 DEF HandlerShape, Asking
      <4>2. [shown[x] EXCEPT !.locale = task[t].before] \in Row
        BY <4>1 DEF Row
      <4> QED
        BY <1>2, <1>3, <2>1, <3>1, <4>2 DEF Rollback
    <3>2. CASE ~(task[t].op = "locale" /\ shown[x] # None)
      BY <1>2, <1>3, <2>1, <3>2 DEF Rollback
    <3> QED
      BY <3>1, <3>2
  <2>5. PICK h \in Handler :
                /\ task' = [task EXCEPT ![t] = h] /\ h.pc \in {"idle", "read"} /\ h.todo = {}
                /\ h.list = None /\ h.reply = None /\ h.result = [g \in Guest |-> None]
                /\ h.pc = "read" => h.op = task[t].op
                /\ busy' = IF h.pc = "idle" THEN busy \ Via(task[t].op) ELSE busy
                /\ h.pc = "read" => task[t].op = "generate"
    <3>1. CASE Reload(t) /\ UNCHANGED busy /\ task[t].op = "generate"
      BY <3>1, NextHandlerIs
    <3>2. CASE EndTask(t) /\ busy' = busy \ Via(task[t].op)
      BY <3>2, NextHandlerIs
    <3> QED
      BY <2>1, <3>1, <3>2
  <2> QED
    BY <1>1, <1>2, <1>3, <2>1, <2>2, <2>3, <2>4, <2>5 DEF Answered
<1>6. ASSUME AnswerBulk(t) PROVE G
  <2>1. /\ task[t].op \in Bulk /\ links' = Links(t) /\ Reload(t)
        /\ UNCHANGED <<rows, shown, open, busy, selected, started, unsure, stale>>
    BY <1>6 DEF AnswerBulk
  <2>2. PICK h \in Handler :
                /\ task' = [task EXCEPT ![t] = h] /\ h.pc = "read" /\ h.todo = {} /\ h.list = None
                /\ h.reply = None /\ h.result = [g \in Guest |-> None] /\ h.op = task[t].op
    BY <2>1, NextHandlerIs
  <2>3. task[t].op # "locale"
    BY <2>1 DEF Bulk
  <2> QED
    BY <1>1, <1>2, <1>3, <2>1, <2>2, <2>3, LinksIs DEF Answered
<1> QED
  BY <1>4, <1>5, <1>6

(* Every handler ends like this.                                           *)
LEMMA ApplyIs ==
    ASSUME PanelAssumption, TypeOK, NEW t \in Task, Apply(t)
    PROVE  Applies(t)
<1>1. /\ task[t].pc = "apply" /\ shown' = (IF task[t].list = None THEN shown ELSE task[t].list)
      /\ open' = Completed(t) /\ busy' = busy \ Via(task[t].op)
      /\ selected' = (IF task[t].op \in Bulk THEN {} ELSE selected)
      /\ stale' = (task[t].list = None \/ task[t].superseded)
      /\ UNCHANGED <<rows, links, started, unsure>>
  BY DEF Apply, Released
<1> DEFINE other(u) == [task[u] EXCEPT
                           !.superseded = @ \/ u \in Overtaken(t),
                           !.rank = IF u \in Loaded /\ t \in Loaded /\ @ > task[t].rank
                                    THEN @ - 1 ELSE @]
<1>2. task' = [u \in Task |-> IF u = t THEN Idle ELSE other(u)]
  BY DEF Apply
<1>3. ASSUME NEW u \in Task \ {t}
      PROVE  /\ other(u) \in Handler
             /\ other(u).pc = task[u].pc /\ other(u).op = task[u].op /\ other(u).inv = task[u].inv
             /\ other(u).locale = task[u].locale /\ other(u).before = task[u].before /\ other(u).todo = task[u].todo
             /\ other(u).result = task[u].result /\ other(u).link = task[u].link
             /\ other(u).reply = task[u].reply /\ other(u).list = task[u].list
             /\ other(u).superseded = (task[u].superseded \/ u \in Overtaken(t))
             /\ other(u).rank = IF u \in Loaded /\ t \in Loaded /\ task[u].rank > task[t].rank
                                THEN task[u].rank - 1 ELSE task[u].rank
  <2>1. task[u] \in Handler /\ task[t] \in Handler /\ task[u].superseded \in BOOLEAN
        /\ task[u].rank \in Nat /\ task[t].rank \in Nat
    BY DEF TypeOK, Handler
  <2> DEFINE sup == task[u].superseded \/ u \in Overtaken(t)
             rank == IF u \in Loaded /\ t \in Loaded /\ task[u].rank > task[t].rank
                     THEN task[u].rank - 1 ELSE task[u].rank
  <2>2. sup \in BOOLEAN
    BY <2>1
  <2>3. rank \in Nat
    BY <2>1
  <2>4. other(u) = [task[u] EXCEPT !.superseded = sup, !.rank = rank]
    OBVIOUS
  <2> HIDE DEF sup, rank, other
  <2>5. other(u) \in Handler
    BY <2>1, <2>2, <2>3, <2>4 DEF Handler
  <2>6. /\ other(u).pc = task[u].pc /\ other(u).op = task[u].op /\ other(u).inv = task[u].inv
        /\ other(u).locale = task[u].locale /\ other(u).before = task[u].before /\ other(u).todo = task[u].todo
        /\ other(u).result = task[u].result /\ other(u).link = task[u].link
        /\ other(u).reply = task[u].reply /\ other(u).list = task[u].list
    BY <2>1, <2>4 DEF Handler
  <2>7. other(u).superseded = sup /\ other(u).rank = rank
    BY <2>1, <2>4 DEF Handler
  <2> QED
    BY <2>5, <2>6, <2>7 DEF sup, rank
<1> HIDE DEF other
<1>4. task' \in [Task -> Handler] /\ task'[t] = Idle /\ \A u \in Task \ {t} : task'[u] = other(u)
  BY <1>2, <1>3, IdleIs
<1>5. SameBut(t)
  BY <1>3, <1>4 DEF SameBut
<1>6. /\ open' \in Dialogs /\ open'.form = open.form /\ open'.share \in {open.share, None}
      /\ \A d \in {"confirm", "notify", "bulk"} :
            open'[d] = IF d \in Via(task[t].op) THEN None ELSE open[d]
  <2>1. open \in Dialogs
    BY DEF TypeOK
  <2>2. open' = [d \in {"confirm", "share", "notify", "bulk", "form", "preview"} |->
                    IF d \in Via(task[t].op) /\ task[t].op # "share" THEN None ELSE open[d]]
    BY <1>1 DEF Completed, NoDialog
  <2>3. \A d \in {"form", "preview"} : open'[d] = open[d]
    BY <2>2 DEF Via
  <2>4. open' \in Dialogs
    BY <2>1, <2>2, <2>3 DEF Dialogs
  <2>5. open'.share \in {open.share, None}
    BY <2>2
  <2>6. \A d \in {"confirm", "notify", "bulk"} :
            open'[d] = IF d \in Via(task[t].op) THEN None ELSE open[d]
    BY <2>2 DEF Via, Confirmed, Shares, Bulk
  <2> QED
    BY <2>3, <2>4, <2>5, <2>6
<1> QED
  BY <1>1, <1>3, <1>4, <1>5, <1>6, IdleIs DEF Applies

(* What the list does that was asked for, or its loss.                     *)
Loads(t, h) ==
    /\ task[t].pc = "read" /\ task' = [task EXCEPT ![t] = h]
    /\ h.pc = "apply" /\ h.todo = task[t].todo /\ h.result = task[t].result /\ h.op = task[t].op
    /\ \/ h.list = task[t].list
       \/ h.list = rows /\ h.rank = Cardinality(Loaded) + 1
    /\ UNCHANGED <<rows, page, unsure, stale>>

Stepped ==
    \/ Pressed
    \/ \E t \in Task, h \in Handler : \/ Begun(t, h) \/ Answered(t, h) \/ Loads(t, h)
                                      \/ \E g \in Guest : Serves(t, g, h)
    \/ \E t \in Task : Applies(t)

(* The lists that came can be counted.                                     *)
LEMMA LoadedIsFinite ==
    ASSUME PanelAssumption
    PROVE  IsFiniteSet(Loaded) /\ Cardinality(Loaded) \in Nat
<1>1. Loaded \subseteq Task /\ IsFiniteSet(Task)
  BY DEF PanelAssumption, Loaded
<1> QED
  BY <1>1, FS_Subset, FS_CardinalityType

(* A list that comes, or fails to, does this.                              *)
LEMMA LoadIs ==
    ASSUME PanelAssumption, TypeOK, NEW t \in Task, ReadList(t) \/ LoadFails(t)
    PROVE  \E h \in Handler : Loads(t, h)
<1>1. task[t] \in Handler /\ rows \in [Guest -> Row \cup {None}]
      /\ Cardinality(Loaded) + 1 \in Nat
  BY LoadedIsFinite DEF TypeOK
<1>2. CASE ReadList(t)
  <2> DEFINE h == [task[t] EXCEPT !.pc = "apply", !.list = rows, !.rank = Cardinality(Loaded) + 1]
  <2>1. h \in Handler
    BY <1>1 DEF Handler
  <2>2. /\ h.pc = "apply" /\ h.todo = task[t].todo /\ h.result = task[t].result /\ h.op = task[t].op
        /\ h.list = rows /\ h.rank = Cardinality(Loaded) + 1
    BY <1>1 DEF Handler
  <2>3. task[t].pc = "read" /\ task' = [task EXCEPT ![t] = h] /\ UNCHANGED <<rows, page, unsure, stale>>
    BY <1>1, <1>2 DEF ReadList, TypeOK
  <2> HIDE DEF h
  <2> QED
    BY <2>1, <2>2, <2>3 DEF Loads
<1>3. CASE LoadFails(t)
  <2> DEFINE h == [task[t] EXCEPT !.pc = "apply"]
  <2>1. h \in Handler
    BY <1>1 DEF Handler
  <2>2. /\ h.pc = "apply" /\ h.todo = task[t].todo /\ h.result = task[t].result /\ h.op = task[t].op
        /\ h.list = task[t].list
    BY <1>1 DEF Handler
  <2>3. task[t].pc = "read" /\ task' = [task EXCEPT ![t] = h] /\ UNCHANGED <<rows, page, unsure, stale>>
    BY <1>1, <1>3 DEF LoadFails
  <2> HIDE DEF h
  <2> QED
    BY <2>1, <2>2, <2>3 DEF Loads
<1> QED
  BY <1>2, <1>3

(* Every step is of one of these kinds.                                    *)
LEMMA StepIs ==
    ASSUME PanelAssumption, TypeOK, HandlerShape, NeverAhead, Capacity, DialogShape,
           BusyWhileRunning, ConfirmationHolds, Next
    PROVE  Stepped
<1>1. "confirm" \in busy => open.confirm # None
  <2>1. ASSUME "confirm" \in busy PROVE open.confirm # None
    <3>1. PICK t \in Task : task[t].pc # "idle" /\ "confirm" \in Via(task[t].op)
      BY <2>1 DEF BusyWhileRunning, Running
    <3>2. task[t].op \in Confirmed
      BY <3>1 DEF Via
    <3> QED
      BY <3>1, <3>2 DEF ConfirmationHolds
  <2> QED
    BY <2>1
<1>2. Press => Pressed
  BY <1>1, PressIs
<1>3. ASSUME NEW t \in Task, Start(t) PROVE Stepped
  BY <1>3, StartIsBegun DEF Stepped
<1>4. ASSUME NEW t \in Task, TaskStep(t) PROVE Stepped
  BY <1>4, ServeIs, AnswerIs, LoadIs, ApplyIs DEF Stepped, TaskStep
<1> QED
  BY <1>2, <1>3, <1>4 DEF Next, Stepped

(* Every variable keeps its type.                                          *)
LEMMA TypeKept ==
    ASSUME PanelAssumption, TypeOK, HandlerShape, Capacity, Stepped
    PROVE  TypeOK'
<1>1. CASE Pressed
  BY <1>1 DEF Pressed, TypeOK
<1>2. ASSUME NEW t \in Task, NEW h \in Handler, Begun(t, h) PROVE TypeOK'
  <2>1. shown' \in [Guest -> Row \cup {None}]
    <3>1. CASE h.op = "locale"
      <4>1. PICK g \in Guest : shown[g] # None /\ shown' = [shown EXCEPT ![g].locale = h.locale]
        BY <1>2, <3>1 DEF Begun
      <4>2. h.locale \in Locale /\ shown[g] \in Row
        BY <1>2, <3>1, <4>1 DEF Begun, TypeOK
      <4>3. [shown[g] EXCEPT !.locale = h.locale] \in Row
        BY <4>2 DEF Row
      <4> QED
        BY <4>1, <4>3 DEF TypeOK
    <3>2. CASE h.op # "locale"
      BY <1>2, <3>2 DEF Begun, TypeOK
    <3> QED
      BY <3>1, <3>2
  <2>2. Via(h.op) \subseteq {"confirm", "share", "notify", "bulk"}
    BY DEF Via
  <2>3. unsure' \subseteq Guest
    BY <1>2 DEF Begun, TypeOK, Crossing, Outdated, Handler
  <2> QED
    BY <1>2, <2>1, <2>2, <2>3 DEF Begun, TypeOK
<1>3. ASSUME NEW t \in Task, NEW h \in Handler, Answered(t, h) PROVE TypeOK'
  BY <1>3 DEF Answered, TypeOK
<1>4. ASSUME NEW t \in Task, NEW h \in Handler, Loads(t, h) PROVE TypeOK'
  BY <1>4 DEF Loads, TypeOK, page
<1>5. ASSUME NEW t \in Task, NEW h \in Handler, NEW g \in Guest, Serves(t, g, h) PROVE TypeOK'
  <2>1. After(t, g) # None => After(t, g) \in Row
    BY <1>5, AfterIs DEF Serves
  <2>2. rows' \in [Guest -> Row \cup {None}]
    BY <1>5, <2>1 DEF Serves, TypeOK
  <2> QED
    BY <1>5, <2>2 DEF Serves, TypeOK, page
<1>6. ASSUME NEW t \in Task, Applies(t) PROVE TypeOK'
  <2>1. task[t] \in Handler
    BY DEF TypeOK
  <2>2. shown' \in [Guest -> Row \cup {None}] /\ stale' \in BOOLEAN
    BY <1>6, <2>1 DEF Applies, TypeOK, Handler
  <2> QED
    BY <1>6, <2>2 DEF Applies, TypeOK
<1> QED
  BY <1>1, <1>2, <1>3, <1>4, <1>5, <1>6 DEF Stepped

(* Handlers keep the shape of the place they have reached.                 *)
LEMMA HandlersKept ==
    ASSUME PanelAssumption, TypeOK, HandlerShape, Stepped
    PROVE  HandlerShape'
<1> DEFINE Fine(u) ==
             /\ task'[u].todo # {} <=> task'[u].pc = "serve"
             /\ task'[u].pc # "apply" => task'[u].list = None
             /\ task'[u].pc \in {"serve", "answer"} =>
                   /\ Concerns(u)' # {}
                   /\ task'[u].op \in AllOps \ {"load"}
                   /\ task'[u].op \in Adds \cup {"locale", "edit"} => task'[u].locale \in Locale
                   /\ task'[u].op = "locale" => task'[u].before \in Locale
                   /\ task'[u].op \notin Bulk => \A g, h \in Concerns(u)' : g = h
                   /\ \A g \in task'[u].todo : task'[u].result[g] = None
                   /\ \A g \in Guest : task'[u].result[g] = "rejected" => g \in unsure'
<1>0. ASSUME NEW u \in Task, task'[u] = task[u], unsure \subseteq unsure' PROVE Fine(u)
  <2>1. Concerns(u)' = Concerns(u)
    BY <1>0 DEF Concerns
  <2> QED
    BY <1>0, <2>1 DEF HandlerShape, Asking
<1>1. CASE Pressed
  BY <1>0, <1>1 DEF Pressed, HandlerShape, Asking
<1>2. ASSUME NEW t \in Task, NEW h \in Handler, Begun(t, h) PROVE HandlerShape'
  <2>1. task'[t] = h /\ \A u \in Task \ {t} : task'[u] = task[u]
    BY <1>2 DEF Begun, TypeOK
  <2>2. Concerns(t)' = h.todo /\ h.todo \subseteq Guest
    BY <1>2, <2>1 DEF Begun, Concerns, Handler
  <2>3. Fine(t)
    <3>1. h.op \in AllOps \ {"load"}
      BY <1>2 DEF Begun, PanelAssumption
    <3>2. h.op = "locale" => h.before \in Locale
      <4>1. ASSUME h.op = "locale" PROVE h.before \in Locale
        <5>1. PICK g \in Guest : shown[g] # None /\ h.before = shown[g].locale
          BY <1>2, <4>1 DEF Begun
        <5> QED
          BY <5>1 DEF TypeOK, Row
      <4> QED
        BY <4>1
    <3>3. h.op \notin Bulk => \A g, k \in Concerns(t)' : g = k
      BY <1>2, <2>2 DEF Begun
    <3>4. \A g \in Guest : h.result[g] = None /\ h.result[g] # "rejected"
      BY <1>2 DEF Begun, PanelAssumption
    <3> QED
      BY <1>2, <2>1, <2>2, <3>1, <3>2, <3>3, <3>4 DEF Begun
  <2>4. unsure \subseteq unsure'
    BY <1>2 DEF Begun
  <2> QED
    BY <1>0, <2>1, <2>3, <2>4 DEF HandlerShape, Asking
<1>3. ASSUME NEW t \in Task, NEW h \in Handler, Answered(t, h) PROVE HandlerShape'
  <2>1. task'[t] = h /\ (\A u \in Task \ {t} : task'[u] = task[u]) /\ unsure' = unsure
    BY <1>3 DEF Answered, TypeOK
  <2>2. Fine(t)
    BY <1>3, <2>1 DEF Answered
  <2> QED
    BY <1>0, <2>1, <2>2 DEF HandlerShape, Asking
<1>4. ASSUME NEW t \in Task, NEW h \in Handler, Loads(t, h) PROVE HandlerShape'
  <2>1. task'[t] = h /\ (\A u \in Task \ {t} : task'[u] = task[u]) /\ unsure' = unsure
    BY <1>4 DEF Loads, TypeOK
  <2>2. Fine(t)
    BY <1>4, <2>1 DEF Loads, HandlerShape
  <2> QED
    BY <1>0, <2>1, <2>2 DEF HandlerShape, Asking
<1>5. ASSUME NEW t \in Task, NEW h \in Handler, NEW g \in Guest, Serves(t, g, h) PROVE HandlerShape'
  <2>1. task'[t] = h /\ (\A u \in Task \ {t} : task'[u] = task[u]) /\ unsure \subseteq unsure'
    BY <1>5 DEF Serves, TypeOK
  <2>2. Concerns(t)' = Concerns(t) /\ g \in Concerns(t)
    <3>1. h.result[g] # None
      BY <1>5, PanelAssumption DEF Serves, Result, PanelAssumption
    <3> QED
      BY <1>5, <2>1, <3>1 DEF Serves, Concerns
  <2>3. Fine(t)
    <3>1. Asking(t)
      BY <1>5 DEF Serves, Asking
    <3>2. \A x \in Guest : h.result[x] = "rejected" => x \in unsure'
      BY <1>5, <3>1 DEF Serves, HandlerShape
    <3>3. h.list = None /\ (h.todo # {} <=> h.pc = "serve")
      BY <1>5 DEF Serves, HandlerShape
    <3>4. /\ Concerns(t)' # {} /\ h.op \in AllOps \ {"load"}
          /\ h.op \in Adds \cup {"locale", "edit"} => h.locale \in Locale
          /\ h.op = "locale" => h.before \in Locale
          /\ h.op \notin Bulk => \A x, y \in Concerns(t)' : x = y
      BY <1>5, <2>2, <3>1 DEF Serves, HandlerShape
    <3>5. \A x \in h.todo : h.result[x] = None
      <4>1. \A x \in task[t].todo : task[t].result[x] = None /\ x \in Guest
        BY <3>1 DEF HandlerShape, TypeOK, Handler
      <4> QED
        BY <1>5, <4>1 DEF Serves
    <3> QED
      BY <2>1, <3>2, <3>3, <3>4, <3>5
  <2> QED
    BY <1>0, <2>1, <2>3 DEF HandlerShape, Asking
<1>6. ASSUME NEW t \in Task, Applies(t) PROVE HandlerShape'
  <2>1. Fine(t)
    BY <1>6 DEF Applies
  <2>2. ASSUME NEW u \in Task \ {t} PROVE Fine(u)
    <3>1. /\ task'[u].pc = task[u].pc /\ task'[u].op = task[u].op
          /\ task'[u].before = task[u].before /\ task'[u].locale = task[u].locale
          /\ task'[u].todo = task[u].todo /\ task'[u].result = task[u].result /\ task'[u].list = task[u].list
      BY <1>6 DEF Applies, SameBut
    <3>2. Concerns(u)' = Concerns(u) /\ unsure' = unsure
      BY <1>6, <3>1 DEF Applies, Concerns
    <3> QED
      BY <3>1, <3>2 DEF HandlerShape, Asking
  <2> QED
    BY <2>1, <2>2 DEF HandlerShape, Asking
<1> QED
  BY <1>1, <1>2, <1>3, <1>4, <1>5, <1>6 DEF Stepped

-----------------------------------------------------------------------------
(* What is known of the guests.                                            *)

(* Guests stay, and the numbers of their invitations grow.                 *)
RowsGrow == \A g \in Guest : rows[g] # None => rows'[g] # None /\ rows[g].inv <= rows'[g].inv

(* Every step leaves the server with at least what it had.                 *)
LEMMA RowsOnlyGrow ==
    ASSUME PanelAssumption, TypeOK, HandlerShape, Capacity, Stepped
    PROVE  RowsGrow
<1>1. \A g \in Guest : rows[g] # None => rows[g].inv <= rows[g].inv
  BY DEF TypeOK, Row, PanelAssumption
<1>2. CASE rows' = rows
  BY <1>1, <1>2 DEF RowsGrow
<1>3. ASSUME NEW t \in Task, NEW h \in Handler, NEW g \in Guest, Serves(t, g, h) PROVE RowsGrow
  <2>1. CASE rows' # rows
    <3>1. After(t, g) # None /\ rows' = [rows EXCEPT ![g] = After(t, g)]
          /\ g \in task[t].todo /\ task[t].pc = "serve"
      BY <1>3, <2>1 DEF Serves
    <3>2. rows[g] # None => task[t].op \notin Adds
      BY <3>1 DEF Capacity
    <3>3. rows[g] # None => rows[g].inv <= After(t, g).inv
      BY <3>1, <3>2, AfterIs
    <3> QED
      BY <1>1, <3>1, <3>3 DEF RowsGrow, TypeOK
  <2> QED
    BY <1>2, <2>1
<1> QED
  BY <1>2, <1>3 DEF Stepped, Pressed, Begun, Answered, Loads, Applies

(* What was known stays known.                                             *)
LEMMA KnownStays ==
    ASSUME PanelAssumption, TypeOK, TypeOK', RowsGrow, NEW g \in Guest, NEW row \in Row \cup {None}, Known(g, row)
    PROVE  row # None => rows'[g] # None /\ row.inv <= rows'[g].inv
<1>1. ASSUME row # None PROVE rows'[g] # None /\ row.inv <= rows'[g].inv
  <2>1. rows[g] # None /\ row.inv <= rows[g].inv
    BY <1>1 DEF Known
  <2>2. rows'[g] # None /\ rows[g].inv <= rows'[g].inv
    BY <2>1 DEF RowsGrow
  <2>3. row.inv \in Nat /\ rows[g].inv \in Nat /\ rows'[g].inv \in Nat
    BY <1>1, <2>1, <2>2 DEF TypeOK, Row
  <2> QED
    BY <2>1, <2>2, <2>3
<1> QED
  BY <1>1

(* Nothing on the page is ahead of the server.                             *)
LEMMA KnownKept ==
    ASSUME PanelAssumption, TypeOK, TypeOK', HandlerShape, HandlerShape', NeverAhead, Capacity, Stepped
    PROVE  NeverAhead'
<1> DEFINE Now(g, row) == row # None => rows'[g] # None /\ row.inv <= rows'[g].inv
<1>1. RowsGrow
  BY RowsOnlyGrow
<1>2. ASSUME NEW g \in Guest PROVE Now(g, shown[g])
  BY <1>1, <1>2, KnownStays DEF NeverAhead, TypeOK
<1>3. ASSUME NEW u \in Task, task[u].list # None, NEW g \in Guest PROVE Now(g, task[u].list[g])
  <2>1. task[u].list[g] \in Row \cup {None}
    BY <1>3 DEF TypeOK, Handler
  <2> QED
    BY <1>1, <1>3, <2>1, KnownStays DEF NeverAhead
<1>4. ASSUME NEW u \in Task, Asking(u), NEW g \in Concerns(u) PROVE Now(g, task[u].reply)
  <2>1. task[u].reply \in Row \cup {None} /\ g \in Guest
    BY DEF TypeOK, Handler, Concerns
  <2> QED
    BY <1>1, <1>4, <2>1, KnownStays DEF NeverAhead
<1>5. ASSUME NEW u \in Task,
             /\ task'[u].pc = task[u].pc /\ task'[u].list = task[u].list
             /\ task'[u].reply = task[u].reply
             /\ task'[u].todo = task[u].todo /\ task'[u].result = task[u].result
      PROVE  /\ task'[u].list # None => \A g \in Guest : Now(g, task'[u].list[g])
             /\ task'[u].pc \in {"serve", "answer"} => \A g \in Concerns(u)' : Now(g, task'[u].reply)
  <2>1. Concerns(u)' = Concerns(u)
    BY <1>5 DEF Concerns
  <2> QED
    BY <1>3, <1>4, <1>5, <2>1 DEF Asking
<1>6. ASSUME open'.confirm \in {open.confirm, None}, open'.share \in {open.share, None},
             open'.notify \in {open.notify, None}, open'.form \in {open.form, None}
      PROVE  DialogsKnown'
  <2>1. /\ open.confirm # None => open.confirm.guest \in Guest /\ open.confirm.inv \in Nat
        /\ open.share # None => open.share.guest \in Guest
        /\ open.notify # None => open.notify.guest \in Guest
    BY CapturedIs
  <2>2. open.confirm # None => rows'[open.confirm.guest] # None
                               /\ open.confirm.inv <= rows'[open.confirm.guest].inv
    <3>1. ASSUME open.confirm # None
          PROVE  rows'[open.confirm.guest] # None
                 /\ open.confirm.inv <= rows'[open.confirm.guest].inv
      <4>1. PICK g \in Guest, n \in Nat : g = open.confirm.guest /\ n = open.confirm.inv
        BY <2>1, <3>1
      <4>2. rows[g] # None /\ n <= rows[g].inv
        BY <3>1, <4>1 DEF NeverAhead, DialogsKnown
      <4>3. rows'[g] # None /\ rows[g].inv <= rows'[g].inv
        BY <1>1, <4>2 DEF RowsGrow
      <4>4. rows[g].inv \in Nat /\ rows'[g].inv \in Nat
        BY <4>2, <4>3 DEF TypeOK, Row
      <4> QED
        BY <4>1, <4>2, <4>3, <4>4
    <3> QED
      BY <3>1
  <2> QED
    BY <1>1, <1>6, <2>1, <2>2, PanelAssumption DEF NeverAhead, DialogsKnown, RowsGrow, PanelAssumption
<1>7. CASE Pressed
  BY <1>2, <1>5, <1>7 DEF Pressed, NeverAhead, Known, Asking
<1>8. ASSUME NEW t \in Task, NEW h \in Handler, Begun(t, h) PROVE NeverAhead'
  <2>1. task'[t] = h /\ \A u \in Task \ {t} : task'[u] = task[u]
    BY <1>8 DEF Begun, TypeOK
  <2>2. ASSUME NEW g \in Guest PROVE Now(g, shown'[g])
    <3>1. shown'[g] = shown[g] \/ (shown[g] # None /\ shown'[g] = [shown[g] EXCEPT !.locale = h.locale])
      BY <1>8 DEF Begun, TypeOK
    <3>2. shown[g] # None => shown[g] \in Row /\ [shown[g] EXCEPT !.locale = h.locale].inv = shown[g].inv
      BY DEF TypeOK, Row
    <3> QED
      BY <1>2, <3>1, <3>2
  <2>3. h.reply = None /\ h.list = None /\ open' = open
    BY <1>8 DEF Begun
  <2> QED
    BY <1>5, <1>6, <2>1, <2>2, <2>3 DEF NeverAhead, Known, Asking
<1>9. ASSUME NEW t \in Task, NEW h \in Handler, Answered(t, h) PROVE NeverAhead'
  <2>1. task'[t] = h /\ \A u \in Task \ {t} : task'[u] = task[u]
    BY <1>9 DEF Answered, TypeOK
  <2>2. ASSUME NEW g \in Guest PROVE Now(g, shown'[g])
    <3>1. \/ shown'[g] = shown[g]
          \/ shown'[g] = task[t].reply /\ g \in Concerns(t)
          \/ shown[g] # None /\ shown'[g] = [shown[g] EXCEPT !.locale = task[t].before]
      BY <1>9 DEF Answered
    <3>2. shown[g] # None => shown[g] \in Row /\ [shown[g] EXCEPT !.locale = task[t].before].inv = shown[g].inv
      BY DEF TypeOK, Row
    <3>3. Asking(t)
      BY <1>9 DEF Answered, Asking
    <3> QED
      BY <1>2, <1>4, <3>1, <3>2, <3>3
  <2>3. /\ h.reply = None /\ h.list = None /\ open'.form \in {open.form, None}
        /\ open'.confirm = open.confirm /\ open'.share = open.share /\ open'.notify = open.notify
    BY <1>9 DEF Answered
  <2> QED
    BY <1>5, <1>6, <2>1, <2>2, <2>3 DEF NeverAhead, Known, Asking
<1>10. ASSUME NEW t \in Task, NEW h \in Handler, Loads(t, h) PROVE NeverAhead'
  <2>1. task'[t] = h /\ \A u \in Task \ {t} : task'[u] = task[u]
    BY <1>10 DEF Loads, TypeOK
  <2>2. /\ h.list = task[t].list \/ h.list = rows
        /\ rows' = rows /\ shown' = shown /\ open' = open /\ h.pc = "apply"
    BY <1>10 DEF Loads, page
  <2>3. \A g \in Guest : Now(g, rows[g])
    BY <1>1 DEF RowsGrow
  <2> QED
    BY <1>2, <1>3, <1>5, <1>6, <2>1, <2>2, <2>3 DEF NeverAhead, Known, Asking
<1>11. ASSUME NEW t \in Task, NEW h \in Handler, NEW x \in Guest, Serves(t, x, h) PROVE NeverAhead'
  <2>1. task'[t] = h /\ \A u \in Task \ {t} : task'[u] = task[u]
    BY <1>11 DEF Serves, TypeOK
  <2>2. shown' = shown /\ open' = open /\ h.list = task[t].list
    BY <1>11 DEF Serves, page
  <2>3. h.reply # None => \A g \in Concerns(t)' : Now(g, h.reply)
    <3>1. ASSUME h.reply # None, NEW g \in Concerns(t)' PROVE Now(g, h.reply)
      <4>1. h.reply = After(t, x) /\ h.result[x] = "ok" /\ rows' = [rows EXCEPT ![x] = After(t, x)]
            /\ h.op \in Saves /\ h.pc \in {"serve", "answer"}
        BY <1>11, <3>1 DEF Serves
      <4>2. x \in Concerns(t)' /\ h.op \notin Bulk
        BY <2>1, <4>1, PanelAssumption DEF Concerns, Saves, Bulk, PanelAssumption
      <4>3. g = x
        BY <2>1, <3>1, <4>1, <4>2 DEF HandlerShape, Asking
      <4>4. rows'[x] = h.reply /\ h.reply \in Row
        BY <3>1, <4>1 DEF TypeOK, Handler
      <4> QED
        BY <3>1, <4>3, <4>4 DEF Row
    <3> QED
      BY <3>1
  <2> QED
    BY <1>2, <1>3, <1>5, <1>6, <2>1, <2>2, <2>3 DEF NeverAhead, Known, Asking
<1>12. ASSUME NEW t \in Task, Applies(t) PROVE NeverAhead'
  <2>1. \A g \in Guest : Now(g, shown'[g])
    BY <1>2, <1>3, <1>12 DEF Applies
  <2>2. DialogsKnown'
    BY <1>6, <1>12 DEF Applies
  <2>3. task'[t].list = None /\ task'[t].pc = "idle"
    BY <1>12 DEF Applies
  <2>4. ASSUME NEW u \in Task \ {t}
        PROVE  /\ task'[u].list # None => \A g \in Guest : Now(g, task'[u].list[g])
               /\ task'[u].pc \in {"serve", "answer"} => \A g \in Concerns(u)' : Now(g, task'[u].reply)
    BY <1>5, <1>12 DEF Applies, SameBut
  <2> QED
    BY <2>1, <2>2, <2>3, <2>4 DEF NeverAhead, Known, Asking
<1> QED
  BY <1>7, <1>8, <1>9, <1>10, <1>11, <1>12 DEF Stepped

(* The requests on their way stay within the bound, and guests are added   *)
(* once.                                                                   *)
LEMMA CapacityKept ==
    ASSUME PanelAssumption, TypeOK, TypeOK', HandlerShape, Capacity, Stepped
    PROVE  Capacity'
<1> DEFINE On(g) == {u \in Task : g \in task[u].todo}
           After1(g) == {u \in Task : g \in task'[u].todo}
<1>1. ASSUME rows' = rows,
             \A u \in Task : /\ task'[u].todo = task[u].todo
                             /\ task'[u].todo # {} => task'[u].op = task[u].op
      PROVE  Capacity'
  <2>1. \A g \in Guest : InFlight(g)' = InFlight(g)
    BY <1>1 DEF InFlight
  <2> QED
    BY <1>1, <2>1 DEF Capacity
<1>2. CASE Pressed
  BY <1>1, <1>2 DEF Pressed
<1>3. ASSUME NEW t \in Task, NEW h \in Handler, Answered(t, h) PROVE Capacity'
  <2>1. task'[t] = h /\ \A u \in Task \ {t} : task'[u] = task[u]
    BY <1>3 DEF Answered, TypeOK
  <2>2. task[t].todo = {} /\ h.todo = {} /\ rows' = rows
    BY <1>3 DEF Answered, HandlerShape
  <2> QED
    BY <1>1, <2>1, <2>2
<1>4. ASSUME NEW t \in Task, NEW h \in Handler, Loads(t, h) PROVE Capacity'
  <2>1. task'[t] = h /\ \A u \in Task \ {t} : task'[u] = task[u]
    BY <1>4 DEF Loads, TypeOK
  <2>2. task[t].todo = h.todo /\ h.op = task[t].op /\ rows' = rows
    BY <1>4 DEF Loads
  <2> QED
    BY <1>1, <2>1, <2>2
<1>5. ASSUME NEW t \in Task, Applies(t) PROVE Capacity'
  <2>1. task[t].todo = {} /\ task'[t].todo = {} /\ rows' = rows
    BY <1>5 DEF Applies, HandlerShape
  <2>2. \A u \in Task \ {t} : task'[u].todo = task[u].todo /\ task'[u].op = task[u].op
    BY <1>5 DEF Applies, SameBut
  <2> QED
    BY <1>1, <2>1, <2>2
<1>6. ASSUME NEW t \in Task, NEW h \in Handler, Begun(t, h) PROVE Capacity'
  <2>1. task'[t] = h /\ \A u \in Task \ {t} : task'[u] = task[u]
    BY <1>6 DEF Begun, TypeOK
  <2>2. task[t].todo = {} /\ rows' = rows /\ h.todo \subseteq Guest
    BY <1>6 DEF Begun, HandlerShape, Handler
  <2>3. ASSUME NEW g \in Guest, rows[g] # None PROVE rows'[g].inv + InFlight(g)' <= MaxInv
    <3>1. CASE g \in h.todo
      <4>1. rows[g].inv + InFlight(g) < MaxInv
        BY <1>6, <2>3, <3>1 DEF Begun, Room
      <4>2. On(g) \cup {t} = After1(g) /\ t \notin On(g)
        BY <2>1, <2>2, <3>1
      <4>3. IsFiniteSet(On(g)) /\ InFlight(g) \in Nat
        BY InFlightIs
      <4>4. InFlight(g)' = InFlight(g) + 1
        <5>1. Cardinality(On(g) \cup {t}) = Cardinality(On(g)) + 1
          BY <4>2, <4>3, FS_AddElement
        <5> QED
          BY <4>2, <5>1 DEF InFlight
      <4>5. rows[g].inv \in Nat /\ MaxInv \in Nat
        BY <2>3 DEF TypeOK, Row, PanelAssumption
      <4> QED
        BY <2>2, <4>1, <4>3, <4>4, <4>5
    <3>2. CASE g \notin h.todo
      <4>1. On(g) = After1(g)
        BY <2>1, <2>2, <3>2
      <4>2. InFlight(g)' = InFlight(g)
        BY <4>1 DEF InFlight
      <4> QED
        BY <2>2, <2>3, <4>2 DEF Capacity
    <3> QED
      BY <3>1, <3>2
  <2>4. ASSUME NEW u \in Task, NEW g \in task'[u].todo
        PROVE  IF task'[u].op \in Adds
               THEN rows'[g] = None /\ \A v \in Task : g \in task'[v].todo => v = u
               ELSE rows'[g] # None
    <3>1. g \in Guest
      BY DEF TypeOK, Handler
    <3>2. CASE u = t /\ h.op \in Adds
      <4>1. rows[g] = None /\ InFlight(g) = 0
        BY <1>6, <2>1, <2>4, <3>2 DEF Begun
      <4>2. \A v \in Task : g \notin task[v].todo
        BY <3>1, <4>1, InFlightIs
      <4> QED
        BY <2>1, <2>2, <3>2, <4>1, <4>2
    <3>3. CASE u = t /\ h.op \notin Adds
      BY <1>6, <2>1, <2>2, <2>4, <3>3 DEF Begun
    <3>4. CASE u # t
      <4>1. task'[u] = task[u] /\ g \in task[u].todo
        BY <2>1, <2>4, <3>4
      <4>2. CASE task[u].op \in Adds
        <5>1. rows[g] = None /\ \A v \in Task : g \in task[v].todo => v = u
          BY <4>1, <4>2 DEF Capacity
        <5>2. g \notin h.todo
          <6>1. SUFFICES ASSUME g \in h.todo PROVE FALSE
            OBVIOUS
          <6>2. h.op \in Adds /\ InFlight(g) = 0
            BY <1>6, <5>1, <6>1 DEF Begun
          <6>3. g \notin task[u].todo
            BY <3>1, <6>2, InFlightIs
          <6> QED
            BY <4>1, <6>3
        <5> QED
          BY <2>1, <2>2, <4>1, <4>2, <5>1, <5>2
      <4>3. CASE task[u].op \notin Adds
        BY <2>2, <4>1, <4>3 DEF Capacity
      <4> QED
        BY <4>2, <4>3
    <3> QED
      BY <3>2, <3>3, <3>4
  <2> QED
    BY <2>2, <2>3, <2>4 DEF Capacity
<1>7. ASSUME NEW t \in Task, NEW h \in Handler, NEW x \in Guest, Serves(t, x, h) PROVE Capacity'
  <2>1. task'[t] = h /\ \A u \in Task \ {t} : task'[u] = task[u]
    BY <1>7 DEF Serves, TypeOK
  <2>2. /\ x \in task[t].todo /\ h.todo = task[t].todo \ {x} /\ h.op = task[t].op /\ task[t].pc = "serve"
        /\ rows' = rows \/ (After(t, x) # None /\ rows' = [rows EXCEPT ![x] = After(t, x)])
    BY <1>7 DEF Serves
  <2>3. On(x) \ {t} = After1(x) /\ t \in On(x) /\ \A g \in Guest \ {x} : On(g) = After1(g)
    BY <2>1, <2>2
  <2>4. InFlight(x) \in Nat /\ InFlight(x)' = InFlight(x) - 1
    <3>1. IsFiniteSet(On(x)) /\ InFlight(x) \in Nat
      BY InFlightIs
    <3>2. Cardinality(On(x) \ {t}) = Cardinality(On(x)) - 1
      BY <2>3, <3>1, FS_RemoveElement
    <3> QED
      BY <2>3, <3>1, <3>2 DEF InFlight
  <2>5. \A g \in Guest \ {x} : InFlight(g)' = InFlight(g) /\ rows'[g] = rows[g]
    BY <2>2, <2>3 DEF InFlight, TypeOK
  <2>6. rows'[x] # None => rows'[x].inv + InFlight(x)' <= MaxInv
    <3>1. ASSUME rows'[x] # None PROVE rows'[x].inv + InFlight(x)' <= MaxInv
      <4>1. CASE rows[x] = None
        <5>1. task[t].op \in Adds /\ \A u \in Task : x \in task[u].todo => u = t
          BY <2>2, <4>1 DEF Capacity
        <5>2. After1(x) = {}
          BY <2>3, <5>1
        <5>3. InFlight(x)' = 0
          BY <5>2, FS_EmptySet DEF InFlight
        <5>4. rows'[x].inv \in 0..MaxInv
          BY <3>1 DEF TypeOK, Row
        <5> QED
          BY <5>3, <5>4, PanelAssumption DEF PanelAssumption
      <4>2. CASE rows[x] # None
        <5>1. rows[x].inv + InFlight(x) <= MaxInv /\ rows[x].inv \in Nat /\ rows'[x].inv \in Nat
              /\ MaxInv \in Nat
          BY <3>1, <4>2 DEF Capacity, TypeOK, Row, PanelAssumption
        <5>2. rows'[x].inv <= rows[x].inv + 1
          <6>1. CASE rows' = rows
            BY <5>1, <6>1
          <6>2. CASE rows' # rows
            <7>1. After(t, x) # None /\ rows'[x] = After(t, x)
              BY <2>2, <6>2 DEF TypeOK
            <7>2. task[t].op \notin Adds /\ rows[x] \in Row
              BY <2>2, <4>2 DEF Capacity, TypeOK
            <7>3. task[t].op \in AllOps \ {"load"}
              BY <2>2 DEF HandlerShape, Asking
            <7>4. After(t, x).inv <= rows[x].inv + 1
              BY <5>1, <7>1, <7>2, <7>3, GrowsByOne DEF After
            <7> QED
              BY <7>1, <7>4
          <6> QED
            BY <6>1, <6>2
        <5> QED
          BY <2>4, <5>1, <5>2
      <4> QED
        BY <4>1, <4>2
    <3> QED
      BY <3>1
  <2>7. ASSUME NEW u \in Task, NEW g \in task'[u].todo
        PROVE  IF task'[u].op \in Adds
               THEN rows'[g] = None /\ \A v \in Task : g \in task'[v].todo => v = u
               ELSE rows'[g] # None
    <3>1. g \in Guest /\ g \in task[u].todo /\ task'[u].op = task[u].op /\ \A v \in Task : task'[v].todo \subseteq task[v].todo
      BY <2>1, <2>2, <2>7 DEF TypeOK, Handler
    <3>2. CASE g = x
      <4>1. u # t
        BY <2>1, <2>2, <2>7, <3>2
      <4>2. task[u].op \notin Adds
        BY <2>2, <3>1, <3>2, <4>1 DEF Capacity
      <4>3. rows[g] # None
        BY <3>1, <4>2 DEF Capacity
      <4>4. rows'[g] # None
        BY <2>2, <3>2, <4>3 DEF TypeOK
      <4> QED
        BY <3>1, <4>2, <4>4
    <3>3. CASE g # x
      BY <2>5, <3>1, <3>3 DEF Capacity
    <3> QED
      BY <3>2, <3>3
  <2>8. \A g \in Guest : rows'[g] # None => rows'[g].inv + InFlight(g)' <= MaxInv
    BY <2>5, <2>6 DEF Capacity
  <2> QED
    BY <2>7, <2>8 DEF Capacity
<1> QED
  BY <1>2, <1>3, <1>4, <1>5, <1>6, <1>7 DEF Stepped

-----------------------------------------------------------------------------
(* The dialogs.                                                            *)

(* One dialog stays open at a time.                                        *)
LEMMA DialogsKept ==
    ASSUME PanelAssumption, DialogShape, Stepped
    PROVE  DialogShape'
<1>1. ASSUME open'.confirm \in {open.confirm, None}, open'.share \in {open.share, None},
             open'.notify \in {open.notify, None}, open'.bulk \in {open.bulk, None},
             open'.form \in {open.form, None}
      PROVE  DialogShape'
  BY <1>1 DEF DialogShape, Exclusive
<1>2. CASE Pressed
  BY <1>2 DEF Pressed
<1>3. ASSUME NEW t \in Task, NEW h \in Handler, Begun(t, h) \/ Loads(t, h) \/ \E g \in Guest : Serves(t, g, h)
      PROVE  DialogShape'
  <2>1. open' = open
    BY <1>3 DEF Begun, Loads, Serves, page
  <2> QED
    BY <1>1, <2>1
<1>4. ASSUME NEW t \in Task, NEW h \in Handler, Answered(t, h) PROVE DialogShape'
  BY <1>1, <1>4 DEF Answered
<1>5. ASSUME NEW t \in Task, Applies(t) PROVE DialogShape'
  BY <1>1, <1>5 DEF Applies
<1> QED
  BY <1>2, <1>3, <1>4, <1>5 DEF Stepped

Locks == {"confirm", "notify", "bulk"}
Runs(u, d) == task[u].pc # "idle" /\ d \in Via(task[u].op)

(* The dialogs of the handlers that run, and of nobody else, are locked,   *)
(* but for the share dialog.                                               *)
LEMMA LocksKept ==
    ASSUME PanelAssumption, TypeOK, BusyWhileRunning, OnePerDialog, Stepped
    PROVE  /\ OnePerDialog'
           /\ \A d \in Locks : d \in busy' <=> Running(d)'
<1>0. \A d \in Locks : /\ d \in busy <=> \E u \in Task : Runs(u, d)
                       /\ \A u, v \in Task : Runs(u, d) /\ Runs(v, d) => u = v
  BY DEF BusyWhileRunning, Running, OnePerDialog, Locks, Runs
<1>1. SUFFICES \A d \in Locks : /\ d \in busy' <=> \E u \in Task : Runs(u, d)'
                                /\ \A u, v \in Task : Runs(u, d)' /\ Runs(v, d)' => u = v
  BY DEF Running, OnePerDialog, Locks, Runs
<1>2. ASSUME busy' = busy, \A u \in Task : \A d \in Locks : Runs(u, d)' <=> Runs(u, d)
      PROVE  \A d \in Locks : /\ d \in busy' <=> \E u \in Task : Runs(u, d)'
                              /\ \A u, v \in Task : Runs(u, d)' /\ Runs(v, d)' => u = v
  BY <1>0, <1>2
<1>3. CASE Pressed
  BY <1>2, <1>3 DEF Pressed, Runs
<1>4. ASSUME NEW t \in Task, NEW h \in Handler, Begun(t, h)
      PROVE  \A d \in Locks : /\ d \in busy' <=> \E u \in Task : Runs(u, d)'
                              /\ \A u, v \in Task : Runs(u, d)' /\ Runs(v, d)' => u = v
  <2>1. task'[t] = h /\ \A u \in Task \ {t} : task'[u] = task[u]
    BY <1>4 DEF Begun, TypeOK
  <2>2. /\ h.pc = "serve" /\ task[t].pc = "idle" /\ busy' = busy \cup Via(h.op)
        /\ \A d \in Locks : d \in Via(h.op) => d \notin busy
    BY <1>4 DEF Begun, Locks
  <2>3. \A d \in Locks : (Runs(t, d)' <=> d \in Via(h.op)) /\ ~Runs(t, d)
    BY <2>1, <2>2 DEF Runs
  <2>4. \A u \in Task \ {t} : \A d \in Locks : Runs(u, d)' <=> Runs(u, d)
    BY <2>1 DEF Runs
  <2> QED
    BY <1>0, <2>2, <2>3, <2>4
<1>5. ASSUME NEW t \in Task, NEW h \in Handler, Loads(t, h) \/ \E g \in Guest : Serves(t, g, h)
      PROVE  \A d \in Locks : /\ d \in busy' <=> \E u \in Task : Runs(u, d)'
                              /\ \A u, v \in Task : Runs(u, d)' /\ Runs(v, d)' => u = v
  <2>1. /\ task'[t] = h /\ \A u \in Task \ {t} : task'[u] = task[u]
        /\ h.pc # "idle" /\ task[t].pc # "idle" /\ h.op = task[t].op /\ busy' = busy
    BY <1>5 DEF Loads, Serves, TypeOK, page
  <2> QED
    BY <1>2, <2>1 DEF Runs
<1>6. ASSUME NEW t \in Task, busy' = busy \ Via(task[t].op), task[t].pc # "idle", task'[t].pc = "idle",
             \A u \in Task \ {t} : task'[u].pc = task[u].pc /\ task'[u].op = task[u].op
      PROVE  \A d \in Locks : /\ d \in busy' <=> \E u \in Task : Runs(u, d)'
                              /\ \A u, v \in Task : Runs(u, d)' /\ Runs(v, d)' => u = v
  <2>1. \A u \in Task \ {t} : \A d \in Locks : Runs(u, d)' <=> Runs(u, d)
    BY <1>6 DEF Runs
  <2>2. \A d \in Locks : (Runs(t, d) <=> d \in Via(task[t].op)) /\ ~Runs(t, d)'
    BY <1>6 DEF Runs
  <2> QED
    BY <1>0, <1>6, <2>1, <2>2
<1>7. ASSUME NEW t \in Task, NEW h \in Handler, Answered(t, h)
      PROVE  \A d \in Locks : /\ d \in busy' <=> \E u \in Task : Runs(u, d)'
                              /\ \A u, v \in Task : Runs(u, d)' /\ Runs(v, d)' => u = v
  <2>1. task'[t] = h /\ (\A u \in Task \ {t} : task'[u] = task[u]) /\ task[t].pc = "answer"
    BY <1>7 DEF Answered, TypeOK
  <2>2. CASE h.pc = "idle"
    BY <1>6, <1>7, <2>1, <2>2 DEF Answered
  <2>3. CASE h.pc = "read"
    <3>1. h.op = task[t].op /\ busy' = busy
      BY <1>7, <2>3 DEF Answered
    <3> QED
      BY <1>2, <2>1, <2>3, <3>1 DEF Runs
  <2> QED
    BY <1>7, <2>2, <2>3 DEF Answered
<1>8. ASSUME NEW t \in Task, Applies(t)
      PROVE  \A d \in Locks : /\ d \in busy' <=> \E u \in Task : Runs(u, d)'
                              /\ \A u, v \in Task : Runs(u, d)' /\ Runs(v, d)' => u = v
  BY <1>6, <1>8 DEF Applies, SameBut
<1> QED
  BY <1>3, <1>4, <1>5, <1>7, <1>8 DEF Stepped

(* A share that ends unlocks the dialog, whoever else shares; so nobody    *)
(* holds it locked who has ended.                                          *)
LEMMA ShareKept ==
    ASSUME PanelAssumption, TypeOK, BusyWhileRunning, Stepped, "share" \in busy'
    PROVE  Running("share")'
<1>0. "share" \in busy => \E u \in Task : Runs(u, "share")
  BY DEF BusyWhileRunning, Running, Runs
<1>1. SUFFICES \E u \in Task : Runs(u, "share")'
  BY DEF Running, Runs
<1>2. ASSUME busy' = busy, \A u \in Task : Runs(u, "share") => Runs(u, "share")'
      PROVE  \E u \in Task : Runs(u, "share")'
  BY <1>0, <1>2
<1>3. CASE Pressed
  BY <1>2, <1>3 DEF Pressed, Runs
<1>4. ASSUME NEW t \in Task, NEW h \in Handler, Begun(t, h)
      PROVE  \E u \in Task : Runs(u, "share")'
  <2>1. /\ task'[t] = h /\ \A u \in Task \ {t} : task'[u] = task[u]
        /\ h.pc = "serve" /\ task[t].pc = "idle" /\ busy' = busy \cup Via(h.op)
    BY <1>4 DEF Begun, TypeOK
  <2>2. CASE "share" \in Via(h.op)
    BY <2>1, <2>2 DEF Runs
  <2>3. CASE "share" \in busy
    BY <1>0, <2>1, <2>3 DEF Runs
  <2> QED
    BY <2>1, <2>2, <2>3
<1>5. ASSUME NEW t \in Task, NEW h \in Handler, Loads(t, h) \/ \E g \in Guest : Serves(t, g, h)
      PROVE  \E u \in Task : Runs(u, "share")'
  <2>1. /\ task'[t] = h /\ \A u \in Task \ {t} : task'[u] = task[u]
        /\ h.pc # "idle" /\ h.op = task[t].op /\ busy' = busy
    BY <1>5 DEF Loads, Serves, TypeOK, page
  <2> QED
    BY <1>2, <2>1 DEF Runs
<1>6. ASSUME NEW t \in Task, busy' = busy \ Via(task[t].op),
             \A u \in Task \ {t} : task'[u].pc = task[u].pc /\ task'[u].op = task[u].op
      PROVE  \E u \in Task : Runs(u, "share")'
  <2>1. "share" \in busy /\ "share" \notin Via(task[t].op)
    BY <1>6
  <2>2. PICK u \in Task : Runs(u, "share")
    BY <1>0, <2>1
  <2> QED
    BY <1>6, <2>1, <2>2 DEF Runs
<1>7. ASSUME NEW t \in Task, NEW h \in Handler, Answered(t, h)
      PROVE  \E u \in Task : Runs(u, "share")'
  <2>1. task'[t] = h /\ (\A u \in Task \ {t} : task'[u] = task[u]) /\ task[t].pc = "answer"
    BY <1>7 DEF Answered, TypeOK
  <2>2. CASE h.pc = "idle"
    BY <1>6, <1>7, <2>1, <2>2 DEF Answered
  <2>3. CASE h.pc = "read"
    <3>1. h.op = task[t].op /\ busy' = busy
      BY <1>7, <2>3 DEF Answered
    <3> QED
      BY <1>2, <2>1, <2>3, <3>1 DEF Runs
  <2> QED
    BY <1>7, <2>2, <2>3 DEF Answered
<1>8. ASSUME NEW t \in Task, Applies(t) PROVE \E u \in Task : Runs(u, "share")'
  BY <1>6, <1>8 DEF Applies, SameBut
<1> QED
  BY <1>3, <1>4, <1>5, <1>7, <1>8 DEF Stepped

(* Together: what the run checks of the locks.                             *)
LEMMA BusyKept ==
    ASSUME PanelAssumption, TypeOK, TypeOK', BusyWhileRunning, OnePerDialog, Stepped
    PROVE  BusyWhileRunning' /\ OnePerDialog'
<1>1. busy' \subseteq Locks \cup {"share"}
  BY DEF TypeOK, Locks
<1>2. \A d \in busy' : Running(d)'
  BY <1>1, LocksKept, ShareKept
<1> QED
  BY <1>2, LocksKept DEF BusyWhileRunning, Locks

-----------------------------------------------------------------------------
(* The links.                                                              *)

(* A request that gives a link makes it work; one that neither gives nor   *)
(* revokes a link leaves the invitation as it was.                         *)
LEMMA EffectOnLinks ==
    ASSUME PanelAssumption, NEW op \in AllOps \ {"load"}, NEW row \in Row \cup {None}, NEW inv, NEW l,
           Effect(op, row, inv, l) # None, op \notin Adds => row # None
    PROVE  LET after == Effect(op, row, inv, l) IN
           /\ op \in GivesLink => Active(after)
           /\ op \notin GivesLink \cup {"add", "revoke", "bulkRevoke"} =>
                 after.inv = row.inv /\ after.revoked = row.revoked
<1> DEFINE after == Effect(op, row, inv, l)
<1>1. CASE op \in Adds
  <2>1. after.inv = (IF op = "add" THEN 0 ELSE 1) /\ after.revoked = FALSE
    BY <1>1 DEF Effect, Adds
  <2> QED
    BY <1>1, <2>1 DEF Active, GivesLink, Adds
<1>2. CASE op \notin Adds
  <2>1. row \in Row /\ row.inv \in Nat
    BY <1>2 DEF Row, PanelAssumption
  <2>2. NewLink(row).inv = row.inv + 1 /\ NewLink(row).revoked = FALSE
    BY <2>1 DEF NewLink, Row
  <2>3. op \in GivesLink => after = NewLink(row)
    BY <1>2 DEF Effect, GivesLink, Adds
  <2>4. op \in GivesLink => Active(after)
    BY <2>1, <2>2, <2>3 DEF Active
  <2>5. op \notin GivesLink \cup {"add", "revoke", "bulkRevoke"} =>
            op \in {"archive", "bulkArchive", "restore", "locale", "edit"}
    BY <1>2 DEF AllOps, Bulk, Confirmed, Shares, Adds, GivesLink
  <2>6. op \in {"archive", "bulkArchive", "restore", "locale", "edit"} =>
            after.inv = row.inv /\ after.revoked = row.revoked
    BY <2>1 DEF Effect, Row
  <2> QED
    BY <2>4, <2>5, <2>6
<1> QED
  BY <1>1, <1>2

(* A handler that has a request under way about g.                         *)
Asks(u, g) == Asking(u) /\ g \in Concerns(u)

(* Links keep following the server.                                        *)
LEMMA LinksKept ==
    ASSUME PanelAssumption, TypeOK, TypeOK', HandlerShape, Capacity, LinksFollow, Stepped
    PROVE  LinksFollow'
<1> DEFINE Fine(g) ==
              /\ Works(g, links[g])' \/ \E u \in Task : Asks(u, g)'
              /\ \A u \in Task : Asks(u, g)' =>
                    Works(g, Links(u)[g])' /\ \A v \in Task : Asks(v, g)' => v = u
<1>0. ASSUME NEW g \in Guest, g \notin unsure
      PROVE  /\ Works(g, links[g]) \/ \E u \in Task : Asks(u, g)
             /\ \A u \in Task : Asks(u, g) =>
                    Works(g, Links(u)[g]) /\ \A v \in Task : Asks(v, g) => v = u
  BY <1>0 DEF LinksFollow, Alone, Asks, Asking
<1>1. SUFFICES ASSUME NEW g \in Guest, g \notin unsure' PROVE Fine(g)
  BY DEF LinksFollow, Alone, Asks, Asking
<1>2. g \notin unsure
  BY <1>1 DEF Stepped, Pressed, Begun, Answered, Loads, Serves, Applies
(* Nothing that concerns g.                                                *)
<1>3. ASSUME rows'[g] = rows[g], links'[g] = links[g],
             \A u \in Task : Asks(u, g)' <=> Asks(u, g),
             \A u \in Task : Asks(u, g) => /\ (task'[u].result[g] = "ok" <=> task[u].result[g] = "ok")
                                           /\ task'[u].op = task[u].op /\ task'[u].link[g] = task[u].link[g]
      PROVE  Fine(g)
  <2>1. \A u \in Task : Asks(u, g) => Links(u)'[g] = Links(u)[g]
    BY <1>3 DEF Links
  <2> QED
    BY <1>0, <1>2, <1>3, <2>1 DEF Works, Active
<1>4. CASE Pressed
  BY <1>3, <1>4 DEF Pressed, Asks, Asking, Concerns
<1>5. ASSUME NEW t \in Task, NEW h \in Handler, Begun(t, h) PROVE Fine(g)
  <2>1. /\ task'[t] = h /\ (\A u \in Task \ {t} : task'[u] = task[u]) /\ h.todo \subseteq Guest
        /\ h.pc = "serve" /\ task[t].pc = "idle" /\ h.result = [x \in Guest |-> None]
        /\ rows' = rows /\ links' = links
    BY <1>5 DEF Begun, TypeOK, Handler
  <2>2. (Asks(t, g)' <=> g \in h.todo) /\ ~Asks(t, g)
    BY <2>1 DEF Asks, Asking, Concerns
  <2>3. \A u \in Task \ {t} : Asks(u, g)' <=> Asks(u, g)
    BY <2>1 DEF Asks, Asking, Concerns
  <2>4. CASE g \notin h.todo
    BY <1>3, <2>1, <2>2, <2>3, <2>4
  <2>5. CASE g \in h.todo
    <3>1. g \notin Crossing(h.todo)
      BY <1>1, <1>5 DEF Begun
    <3>2. \A u \in Task : ~Asks(u, g)
      BY <2>5, <3>1 DEF Crossing, Asks, Asking
    <3>3. Works(g, links[g])
      BY <1>0, <1>2, <3>2
    <3>4. Links(t)'[g] = links[g]
      BY <2>1, PanelAssumption DEF Links, PanelAssumption
    <3>5. Works(g, Links(t)[g])'
      BY <2>1, <3>3, <3>4 DEF Works, Active
    <3> QED
      BY <2>2, <2>3, <2>5, <3>2, <3>5
  <2> QED
    BY <2>4, <2>5
<1>6. ASSUME NEW t \in Task, NEW h \in Handler, Answered(t, h) PROVE Fine(g)
  <2>1. /\ task'[t] = h /\ (\A u \in Task \ {t} : task'[u] = task[u])
        /\ task[t].pc = "answer" /\ h.pc \notin {"serve", "answer"} /\ rows' = rows
        /\ links'[g] = Links(t)[g]
    BY <1>6 DEF Answered, TypeOK
  <2>2. ~Asks(t, g)' /\ (Asks(t, g) <=> g \in Concerns(t))
    BY <2>1 DEF Asks, Asking
  <2>3. \A u \in Task \ {t} : Asks(u, g)' <=> Asks(u, g)
    BY <2>1 DEF Asks, Asking, Concerns
  <2>4. CASE g \in Concerns(t)
    <3>1. Works(g, Links(t)[g]) /\ \A v \in Task : Asks(v, g) => v = t
      BY <1>0, <1>2, <2>2, <2>4
    <3>2. Works(g, links[g])'
      BY <2>1, <3>1 DEF Works, Active
    <3> QED
      BY <2>2, <2>3, <3>1, <3>2
  <2>5. CASE g \notin Concerns(t)
    <3>1. task[t].result[g] = None
      BY <2>5 DEF Concerns
    <3>2. links'[g] = links[g]
      BY <2>1, <3>1, PanelAssumption DEF Links, PanelAssumption
    <3> QED
      BY <1>3, <2>1, <2>2, <2>3, <2>5, <3>2
  <2> QED
    BY <2>4, <2>5
<1>7. ASSUME NEW t \in Task, NEW h \in Handler, Loads(t, h) PROVE Fine(g)
  <2>1. /\ task'[t] = h /\ (\A u \in Task \ {t} : task'[u] = task[u])
        /\ task[t].pc = "read" /\ h.pc = "apply" /\ rows' = rows /\ links' = links
    BY <1>7 DEF Loads, TypeOK, page
  <2>2. \A u \in Task : Asks(u, g)' <=> Asks(u, g)
    BY <2>1 DEF Asks, Asking, Concerns
  <2>3. ~Asks(t, g)
    BY <2>1 DEF Asks, Asking
  <2> QED
    BY <1>3, <2>1, <2>2, <2>3
<1>8. ASSUME NEW t \in Task, Applies(t) PROVE Fine(g)
  <2>1. /\ task[t].pc = "apply" /\ task'[t].pc = "idle" /\ rows' = rows /\ links' = links
        /\ \A u \in Task \ {t} : /\ task'[u].pc = task[u].pc /\ task'[u].op = task[u].op
                                 /\ task'[u].todo = task[u].todo /\ task'[u].result = task[u].result
                                 /\ task'[u].link = task[u].link
    BY <1>8 DEF Applies, SameBut
  <2>2. \A u \in Task : Asks(u, g)' <=> Asks(u, g)
    BY <2>1 DEF Asks, Asking, Concerns
  <2>3. ~Asks(t, g)
    BY <2>1 DEF Asks, Asking
  <2> QED
    BY <1>3, <2>1, <2>2, <2>3
<1>9. ASSUME NEW t \in Task, NEW h \in Handler, NEW x \in Guest, Serves(t, x, h) PROVE Fine(g)
  <2>1. /\ task'[t] = h /\ (\A u \in Task \ {t} : task'[u] = task[u]) /\ links' = links
        /\ task[t].pc = "serve" /\ h.pc \in {"serve", "answer"} /\ h.op = task[t].op
        /\ x \in task[t].todo /\ h.todo = task[t].todo \ {x}
        /\ \A y \in Guest \ {x} : h.result[y] = task[t].result[y] /\ h.link[y] = task[t].link[y]
        /\ h.result[x] \in Result
    BY <1>9 DEF Serves, TypeOK, page
  <2>2. h.result[x] # None
    BY <2>1, PanelAssumption DEF Result, PanelAssumption
  <2>3. Asks(t, g)' <=> Asks(t, g)
    BY <2>1, <2>2 DEF Asks, Asking, Concerns
  <2>4. \A u \in Task \ {t} : Asks(u, g)' <=> Asks(u, g)
    BY <2>1 DEF Asks, Asking, Concerns
  <2>5. CASE g # x
    <3>1. rows'[g] = rows[g]
      BY <1>9, <2>5 DEF Serves, TypeOK
    <3> QED
      BY <1>3, <2>1, <2>3, <2>4, <2>5, <3>1
  <2>6. CASE g = x
    <3>1. Asks(t, g) /\ task[t].result[g] = None
      BY <2>1, <2>6 DEF Asks, Asking, Concerns, HandlerShape
    <3>2. (\A v \in Task : Asks(v, g) => v = t) /\ Works(g, Links(t)[g])
      BY <1>0, <1>2, <3>1
    <3>3. Works(g, links[g])
      BY <3>1, <3>2, PanelAssumption DEF Links, PanelAssumption
    <3>4. h.result[g] \in {"ok", "failed"}
      BY <1>1, <1>9, <2>1, <2>6 DEF Serves, Result
    <3>5. Works(g, Links(t)[g])'
      <4>1. CASE h.result[g] = "failed"
        <5>1. Links(t)'[g] = links[g] /\ rows' = rows
          BY <1>9, <2>1, <2>6, <4>1 DEF Links, Serves
        <5> QED
          BY <3>3, <5>1 DEF Works, Active
      <4>2. CASE h.result[g] = "ok"
        <5> DEFINE after == After(t, g)
                   op == task[t].op
        <5>1. /\ after # None /\ rows'[g] = after
              /\ h.link[g] = IF op \in GivesLink THEN after.inv ELSE 0
          BY <1>9, <2>1, <2>6, <4>2 DEF Serves, TypeOK
        <5>2. op \in AllOps \ {"load"} /\ (op \notin Adds => rows[g] # None)
              /\ (op \in Adds => rows[g] = None) /\ rows[g] \in Row \cup {None}
          BY <2>1, <2>6 DEF HandlerShape, Asking, Capacity, TypeOK
        <5>3. /\ op \in GivesLink => Active(after)
              /\ op \notin GivesLink \cup {"add", "revoke", "bulkRevoke"} =>
                    after.inv = rows[g].inv /\ after.revoked = rows[g].revoked
          BY <5>1, <5>2, EffectOnLinks DEF After
        <5>4. Links(t)'[g] = IF op \in {"revoke", "bulkRevoke"} THEN 0
                             ELSE IF h.link[g] # 0 THEN h.link[g] ELSE links[g]
          BY <2>1, <4>2 DEF Links
        <5> HIDE DEF after
        <5>5. CASE op \in GivesLink
          <6>1. op \notin {"revoke", "bulkRevoke"} /\ after.inv # 0
            BY <5>3, <5>5 DEF GivesLink, Active
          <6>2. Links(t)'[g] = after.inv
            BY <5>1, <5>4, <5>5, <6>1
          <6> QED
            BY <5>1, <5>3, <5>5, <6>2 DEF Works, Active
        <5>6. CASE op \in {"revoke", "bulkRevoke"}
          BY <5>4, <5>6 DEF Works
        <5>7. CASE op \notin GivesLink \cup {"revoke", "bulkRevoke"}
          <6>1. Links(t)'[g] = links[g]
            BY <5>1, <5>4, <5>7
          <6>2. CASE op = "add"
            <7>1. links[g] = 0
              BY <3>3, <5>2, <6>2 DEF Works, Active, Adds
            <7> QED
              BY <6>1, <7>1 DEF Works
          <6>3. CASE op # "add"
            <7>1. links[g] # 0 => Active(rows[g]) /\ links[g] = rows[g].inv
              BY <3>3 DEF Works
            <7> QED
              BY <5>1, <5>3, <5>7, <6>1, <6>3, <7>1 DEF Works, Active
          <6> QED
            BY <6>2, <6>3
        <5> QED
          BY <5>5, <5>6, <5>7
      <4> QED
        BY <3>4, <4>1, <4>2
    <3> QED
      BY <2>3, <2>4, <3>1, <3>2, <3>5
  <2> QED
    BY <2>5, <2>6
<1> QED
  BY <1>4, <1>5, <1>6, <1>7, <1>8, <1>9 DEF Stepped

-----------------------------------------------------------------------------
(* The confirmations.                                                      *)

(* A confirmed request does what the confirmation says.                    *)
LEMMA EffectOnDone ==
    ASSUME NEW op \in Confirmed, NEW row \in Row, NEW inv, NEW l,
           row.inv \in Nat, inv \in Nat, inv <= row.inv, Effect(op, row, inv, l) # None
    PROVE  LET after == Effect(op, row, inv, l) IN
           /\ op = "archive" => after.archived
           /\ op = "revoke" => ~(Active(after) /\ after.inv = inv)
           /\ op = "regenerate" => after.inv > inv
<1>1. CASE op = "archive"
  BY <1>1 DEF Effect, Row
<1>2. CASE op = "revoke"
  BY <1>2 DEF Effect, Row, Active
<1>3. CASE op = "regenerate"
  <2>1. Effect(op, row, inv, l) = NewLink(row) /\ NewLink(row).inv = row.inv + 1
    BY <1>3 DEF Effect, NewLink, Row
  <2> QED
    BY <1>3, <2>1
<1> QED
  BY <1>1, <1>2, <1>3 DEF Confirmed

(* The confirmation is the dialog of the confirmed operations.             *)
LEMMA ViaConfirm ==
    /\ \A op \in Confirmed : "confirm" \in Via(op)
    /\ \A op : "confirm" \in Via(op) => op \in Confirmed
<1>1. ASSUME NEW op \in Confirmed PROVE "confirm" \in Via(op)
  <2>1. Via(op) = {"confirm"}
    BY DEF Via, Confirmed, Shares, Bulk
  <2> QED
    BY <2>1
<1>2. ASSUME NEW op, op \notin Confirmed PROVE "confirm" \notin Via(op)
  <2>1. CASE op \in Shares
    <3>1. Via(op) = {"share"}
      BY <2>1 DEF Via, Shares, Confirmed, Bulk
    <3> QED
      BY <3>1
  <2>2. CASE op = "email"
    <3>1. Via(op) = {"notify"}
      BY <2>2 DEF Via, Shares, Confirmed, Bulk
    <3> QED
      BY <3>1
  <2>3. CASE op \in Bulk
    <3>1. Via(op) = {"bulk"}
      BY <2>3 DEF Via, Shares, Confirmed, Bulk
    <3> QED
      BY <3>1
  <2>4. CASE op \notin Shares \cup Bulk \cup {"email"}
    <3>1. Via(op) = {}
      BY <1>2, <2>4 DEF Via
    <3> QED
      BY <3>1
  <2> QED
    BY <2>1, <2>2, <2>3, <2>4
<1> QED
  BY <1>1, <1>2

(* What a confirmed handler relies on, spelled out for one handler.        *)
Holds(t) ==
    /\ open.confirm # None /\ open.confirm.op = task[t].op
    /\ Asking(t) => /\ Concerns(t) = {open.confirm.guest}
                    /\ task[t].inv[open.confirm.guest] = open.confirm.inv
    /\ open.confirm.guest \notin unsure =>
          /\ Asking(t) /\ task[t].result[open.confirm.guest] = "ok" => Done(open.confirm)
          /\ ~Asking(t) => Alone(open.confirm.guest) /\ Done(open.confirm)

(* Confirmations stay open, and done, until their handler ends.            *)
LEMMA ConfirmationKept ==
    ASSUME PanelAssumption, TypeOK, TypeOK', HandlerShape, NeverAhead, Capacity, DialogShape,
           BusyWhileRunning, OnePerDialog, LinksFollow, ConfirmationHolds, Stepped
    PROVE  ConfirmationHolds'
<1> DEFINE Confirms(u) == task[u].pc # "idle" /\ task[u].op \in Confirmed
           c == open.confirm
<1>0. \A u \in Task : Confirms(u) => Holds(u)
  BY DEF ConfirmationHolds, Holds
<1>1. SUFFICES ASSUME NEW t \in Task, Confirms(t)' PROVE Holds(t)'
  BY DEF ConfirmationHolds, Holds
<1>2. \A u \in Task : Confirms(u) => "confirm" \in busy
  BY ViaConfirm DEF BusyWhileRunning, Running
<1>3. c # None => c.guest \in Guest /\ c.inv \in Nat /\ c.op \in Confirmed
  BY CapturedIs DEF DialogShape
(* Steps that neither serve c.guest nor ask anything new of it.            *)
<1>4. ASSUME Confirms(t), rows' = rows, unsure' = unsure, open'.confirm = open.confirm,
             Asking(t)' <=> Asking(t), task'[t].op = task[t].op, task'[t].inv = task[t].inv,
             task'[t].result = task[t].result, Concerns(t)' = Concerns(t),
             \A u \in Task : Asking(u)' => Asking(u) /\ Concerns(u)' = Concerns(u)
      PROVE  Holds(t)'
  BY <1>0, <1>4 DEF Holds, Done, Alone, Active, Asking
<1>5. CASE Pressed
  <2>1. task' = task /\ rows' = rows /\ unsure' = unsure
    BY <1>5 DEF Pressed
  <2>2. Confirms(t)
    BY <1>1, <2>1
  <2>3. open'.confirm = open.confirm
    BY <1>2, <1>5, <2>2 DEF Pressed
  <2> QED
    BY <1>4, <2>1, <2>2, <2>3 DEF Asking, Concerns
<1>6. ASSUME NEW u \in Task, NEW h \in Handler, Begun(u, h) PROVE Holds(t)'
  <2>1. /\ task'[u] = h /\ (\A v \in Task \ {u} : task'[v] = task[v]) /\ h.pc = "serve"
        /\ h.todo \subseteq Guest /\ h.result = [x \in Guest |-> None] /\ open' = open
    BY <1>6 DEF Begun, TypeOK, Handler
  <2>2. CASE t = u
    <3>1. /\ c # None /\ h.op = c.op /\ h.todo = {c.guest} /\ h.inv[c.guest] = c.inv
      BY <1>1, <1>6, <2>1, <2>2 DEF Begun
    <3>2. Concerns(t)' = {c.guest}
      BY <2>1, <2>2, <3>1 DEF Concerns
    <3>3. h.result[c.guest] # "ok"
      BY <1>3, <2>1, <3>1, PanelAssumption DEF PanelAssumption
    <3>4. Asking(t)'
      BY <2>1, <2>2 DEF Asking
    <3> QED
      BY <2>1, <2>2, <3>1, <3>2, <3>3, <3>4 DEF Holds
  <2>3. CASE t # u
    <3>1. Confirms(t)
      BY <1>1, <2>1, <2>3
    <3>2. "confirm" \in busy /\ c # None
      BY <1>0, <1>2, <3>1 DEF Holds
    <3>3. h.op \in Confirmed /\ Via(h.op) \cap busy \subseteq {"share"}
      BY <1>6, <3>2 DEF Begun
    <3> QED
      BY <3>2, <3>3, ViaConfirm
  <2> QED
    BY <2>2, <2>3
<1>7. ASSUME NEW u \in Task, NEW h \in Handler, Answered(u, h) PROVE Holds(t)'
  <2>1. /\ task'[u] = h /\ (\A v \in Task \ {u} : task'[v] = task[v]) /\ task[u].pc = "answer"
        /\ h.pc \in {"idle", "read"} /\ rows' = rows /\ unsure' = unsure
        /\ open'.confirm = open.confirm
    BY <1>7 DEF Answered, TypeOK
  <2>2. CASE t = u
    <3>1. h.pc = "read" /\ h.op = task[t].op /\ h.op \in Confirmed
      BY <1>1, <1>7, <2>1, <2>2 DEF Answered
    <3>2. Confirms(t) /\ Asking(t) /\ ~Asking(t)'
      BY <2>1, <2>2, <3>1 DEF Asking
    <3>3. Holds(t)
      BY <1>0, <3>2
    <3>4. c # None /\ c.op = task[t].op /\ Concerns(t) = {c.guest} /\ c.guest \in Guest
      BY <1>3, <3>2, <3>3 DEF Holds
    <3>5. task[t].result[c.guest] = "ok"
      BY <1>7, <2>2, <3>1, <3>4 DEF Answered, Confirmed, Bulk
    <3>6. c.guest \notin unsure => Done(c)
      BY <3>2, <3>3, <3>5 DEF Holds
    <3>7. c.guest \notin unsure => \A v \in Task : Asking(v) /\ c.guest \in Concerns(v) => v = t
      BY <3>2, <3>4 DEF LinksFollow
    <3>8. \A v \in Task \ {t} : (Asking(v)' <=> Asking(v)) /\ Concerns(v)' = Concerns(v)
      BY <2>1, <2>2 DEF Asking, Concerns
    <3>9. c.guest \notin unsure => Alone(c.guest)'
      BY <2>1, <3>2, <3>7, <3>8 DEF Alone, Asking
    <3> QED
      BY <2>1, <2>2, <3>1, <3>2, <3>4, <3>6, <3>9 DEF Holds, Done, Active
  <2>3. CASE t # u
    <3>1. Confirms(t) /\ task'[t] = task[t]
      BY <1>1, <2>1, <2>3
    <3>2. \A v \in Task \ {u} : (Asking(v)' <=> Asking(v)) /\ Concerns(v)' = Concerns(v)
      BY <2>1 DEF Asking, Concerns
    <3>3. ~Asking(u)'
      BY <2>1 DEF Asking
    <3> QED
      BY <1>4, <2>1, <2>3, <3>1, <3>2, <3>3
  <2> QED
    BY <2>2, <2>3
<1>8. ASSUME NEW u \in Task, NEW h \in Handler, Loads(u, h) PROVE Holds(t)'
  <2>1. /\ task'[u] = h /\ (\A v \in Task \ {u} : task'[v] = task[v]) /\ task[u].pc = "read"
        /\ h.pc = "apply" /\ rows' = rows /\ unsure' = unsure /\ open' = open /\ h.op = task[u].op
        /\ h.todo = task[u].todo /\ h.result = task[u].result
    BY <1>8 DEF Loads, TypeOK, page
  <2>2. Confirms(t)
    BY <1>1, <2>1
  <2>3. \A v \in Task : (Asking(v)' <=> Asking(v)) /\ Concerns(v)' = Concerns(v)
    BY <2>1 DEF Asking, Concerns
  <2>4. CASE t # u
    BY <1>4, <2>1, <2>2, <2>3, <2>4
  <2>5. CASE t = u
    <3>1. Holds(t) /\ ~Asking(t)
      BY <1>0, <2>1, <2>2, <2>5 DEF Asking
    <3> QED
      BY <2>1, <2>3, <2>5, <3>1 DEF Holds, Done, Alone, Active, Asking
  <2> QED
    BY <2>4, <2>5
<1>9. ASSUME NEW u \in Task, Applies(u) PROVE Holds(t)'
  <2>1. /\ task[u].pc = "apply" /\ task'[u].pc = "idle" /\ rows' = rows /\ unsure' = unsure
        /\ \A v \in Task \ {u} : /\ task'[v].pc = task[v].pc /\ task'[v].op = task[v].op
                                 /\ task'[v].todo = task[v].todo /\ task'[v].result = task[v].result
                                 /\ task'[v].inv = task[v].inv
    BY <1>9 DEF Applies, SameBut
  <2>2. t # u /\ Confirms(t)
    BY <1>1, <2>1
  <2>3. "confirm" \notin Via(task[u].op)
    BY <2>1, <2>2, ViaConfirm DEF OnePerDialog
  <2>4. open'.confirm = open.confirm
    BY <1>9, <2>3 DEF Applies
  <2>5. \A v \in Task \ {u} : (Asking(v)' <=> Asking(v)) /\ Concerns(v)' = Concerns(v)
    BY <2>1 DEF Asking, Concerns
  <2>6. ~Asking(u)'
    BY <2>1 DEF Asking
  <2> QED
    BY <1>4, <2>1, <2>2, <2>4, <2>5, <2>6
<1>10. ASSUME NEW u \in Task, NEW h \in Handler, NEW x \in Guest, Serves(u, x, h) PROVE Holds(t)'
  <2>1. /\ task'[u] = h /\ (\A v \in Task \ {u} : task'[v] = task[v]) /\ open' = open
        /\ task[u].pc = "serve" /\ h.pc \in {"serve", "answer"} /\ h.op = task[u].op
        /\ h.inv = task[u].inv /\ x \in task[u].todo /\ h.todo = task[u].todo \ {x}
        /\ \A y \in Guest \ {x} : h.result[y] = task[u].result[y]
        /\ h.result[x] \in Result /\ h.result[x] # None /\ unsure \subseteq unsure'
        /\ \A y \in Guest \ {x} : rows'[y] = rows[y]
    BY <1>10, PanelAssumption DEF Serves, TypeOK, page, Result, PanelAssumption
  <2>2. \A v \in Task : (Asking(v)' <=> Asking(v)) /\ Concerns(v)' = Concerns(v)
    BY <2>1 DEF Asking, Concerns
  <2>3. Confirms(t) /\ Holds(t) /\ task'[t].op = task[t].op /\ task'[t].inv = task[t].inv
    BY <1>0, <1>1, <2>1
  <2>4. c # None /\ c.guest \in Guest /\ c.inv \in Nat /\ c.op = task[t].op /\ c.op \in Confirmed
    BY <1>3, <2>3 DEF Holds
  <2>5. c.guest # x => (Done(c)' <=> Done(c))
    BY <2>1, <2>4 DEF Done, Active
  <2>6. x \in Concerns(u) /\ Asking(u)
    BY <2>1 DEF Concerns, Asking
  <2>7. CASE ~Asking(t)
    <3>1. c.guest \notin unsure' => Alone(c.guest) /\ Done(c)
      BY <2>1, <2>3, <2>7 DEF Holds
    <3>2. c.guest \notin unsure' => c.guest # x
      BY <2>6, <3>1 DEF Alone, Asking
    <3>3. c.guest \notin unsure' => Done(c)'
      BY <2>5, <3>1, <3>2
    <3>4. Alone(c.guest) => Alone(c.guest)'
      <4>1. \A v \in Task : Asking(v)' => Asking(v) /\ Concerns(v)' = Concerns(v)
        BY <2>2
      <4>2. Alone(c.guest) => \A v \in Task : Asking(v) => c.guest \notin Concerns(v)
        BY DEF Alone, Asking
      <4>3. (\A v \in Task : Asking(v)' => c.guest \notin Concerns(v)') => Alone(c.guest)'
        BY <2>1 DEF Alone, Asking
      <4> QED
        BY <4>1, <4>2, <4>3
    <3> QED
      BY <2>1, <2>2, <2>3, <2>4, <2>7, <3>1, <3>3, <3>4 DEF Holds
  <2>8. CASE Asking(t) /\ t # u
    <3>1. c.guest \in Concerns(t) /\ task'[t] = task[t]
      BY <2>1, <2>3, <2>8 DEF Holds
    <3>2. c.guest \notin unsure' => c.guest # x
      BY <2>1, <2>4, <2>6, <2>8, <3>1 DEF LinksFollow
    <3>3. c.guest \notin unsure' /\ task'[t].result[c.guest] = "ok" => Done(c)'
      BY <2>1, <2>3, <2>5, <2>8, <3>1, <3>2 DEF Holds
    <3> QED
      BY <2>1, <2>2, <2>3, <2>4, <2>8, <3>3 DEF Holds
  <2>9. CASE t = u
    <3>1. c.guest = x /\ task[t].inv[x] = c.inv
      BY <2>3, <2>6, <2>9 DEF Holds
    <3>2. h.result[x] = "ok" => Done(c)'
      <4>1. ASSUME h.result[x] = "ok" PROVE Done(c)'
        <5>1. After(t, x) # None /\ rows'[x] = After(t, x)
          BY <1>10, <2>9, <4>1 DEF Serves, TypeOK
        <5>2. rows[x] # None /\ c.inv <= rows[x].inv
          BY <2>4, <3>1 DEF NeverAhead, DialogsKnown
        <5>3. rows[x] \in Row /\ rows[x].inv \in Nat
          BY <5>2 DEF TypeOK, Row
        <5>4. /\ c.op = "archive" => rows'[x].archived
              /\ c.op = "revoke" => ~(Active(rows'[x]) /\ rows'[x].inv = c.inv)
              /\ c.op = "regenerate" => rows'[x].inv > c.inv
          BY <2>4, <3>1, <5>1, <5>2, <5>3, EffectOnDone DEF After
        <5> QED
          BY <2>1, <2>4, <3>1, <5>4 DEF Done, Confirmed, Active
      <4> QED
        BY <4>1
    <3> QED
      BY <2>1, <2>2, <2>3, <2>4, <2>6, <2>9, <3>1, <3>2 DEF Holds
  <2> QED
    BY <2>7, <2>8, <2>9
<1> QED
  BY <1>5, <1>6, <1>7, <1>8, <1>9, <1>10 DEF Stepped

-----------------------------------------------------------------------------
(* The lists.                                                              *)

(* The ranks of the lists that came stay those of their reading.           *)
LEMMA RankedKept ==
    ASSUME PanelAssumption, TypeOK, TypeOK', HandlerShape, Ranked, Stepped
    PROVE  Ranked'
<1> DEFINE n == Cardinality(Loaded)
<1>0. IsFiniteSet(Loaded) /\ n \in Nat
  BY LoadedIsFinite
<1>1. \A u, v \in Loaded : /\ task[u].rank \in 1..n
                           /\ task[u].rank = task[v].rank => u = v
  BY DEF Ranked
(* No list came and none was applied.                                      *)
<1>2. ASSUME NEW t \in Task, t \notin Loaded, t \notin Loaded', \A u \in Task \ {t} : task'[u] = task[u]
      PROVE  Ranked'
  <2>1. Loaded' = Loaded
    BY <1>2 DEF Loaded
  <2>2. \A u \in Loaded : task'[u] = task[u]
    BY <1>2 DEF Loaded
  <2>3. Cardinality(Loaded)' = n
    BY <2>1
  <2> HIDE DEF n
  <2> QED
    BY <1>1, <2>1, <2>2, <2>3 DEF Ranked
<1>3. CASE Pressed
  <2>1. task' = task
    BY <1>3 DEF Pressed
  <2>2. Loaded' = Loaded
    BY <2>1 DEF Loaded
  <2> QED
    BY <2>1, <2>2 DEF Ranked
<1>4. ASSUME NEW t \in Task, NEW h \in Handler, Begun(t, h) PROVE Ranked'
  <2>1. /\ task'[t] = h /\ (\A u \in Task \ {t} : task'[u] = task[u])
        /\ task[t].pc = "idle" /\ h.pc = "serve"
    BY <1>4 DEF Begun, TypeOK
  <2> QED
    BY <1>2, <2>1 DEF Loaded
<1>5. ASSUME NEW t \in Task, NEW h \in Handler, Answered(t, h) PROVE Ranked'
  <2>1. /\ task'[t] = h /\ (\A u \in Task \ {t} : task'[u] = task[u])
        /\ task[t].pc = "answer" /\ h.pc \in {"idle", "read"}
    BY <1>5 DEF Answered, TypeOK
  <2> QED
    BY <1>2, <2>1 DEF Loaded
<1>6. ASSUME NEW t \in Task, NEW h \in Handler, NEW g \in Guest, Serves(t, g, h) PROVE Ranked'
  <2>1. /\ task'[t] = h /\ (\A u \in Task \ {t} : task'[u] = task[u])
        /\ task[t].pc = "serve" /\ h.pc \in {"answer", "serve"}
    BY <1>6 DEF Serves, TypeOK
  <2> QED
    BY <1>2, <2>1 DEF Loaded
<1>7. ASSUME NEW t \in Task, NEW h \in Handler, Loads(t, h) PROVE Ranked'
  <2>1. /\ task'[t] = h /\ (\A u \in Task \ {t} : task'[u] = task[u])
        /\ task[t].pc = "read" /\ h.pc = "apply"
        /\ h.list = task[t].list \/ (h.list = rows /\ h.rank = n + 1)
    BY <1>7 DEF Loads, TypeOK
  <2>2. t \notin Loaded /\ task[t].list = None
    BY <2>1 DEF Loaded, HandlerShape
  <2>3. CASE h.list = None
    BY <1>2, <2>1, <2>2, <2>3 DEF Loaded
  <2>4. CASE h.list # None
    <3>1. h.rank = n + 1
      BY <2>1, <2>2, <2>4
    <3>2. Loaded' = Loaded \cup {t}
      BY <2>1, <2>4 DEF Loaded
    <3>3. Cardinality(Loaded)' = n + 1
      BY <1>0, <2>2, <3>2, FS_AddElement
    <3>4. \A u \in Loaded : task'[u] = task[u]
      BY <2>1, <2>2 DEF Loaded
    <3> HIDE DEF n
    <3>5. \A u \in Loaded' : task'[u].rank \in 1..(n + 1)
      BY <1>0, <1>1, <2>1, <3>1, <3>2, <3>4
    <3>6. \A u, v \in Loaded' : task'[u].rank = task'[v].rank => u = v
      BY <1>0, <1>1, <2>1, <3>1, <3>2, <3>4
    <3> QED
      BY <3>3, <3>5, <3>6 DEF Ranked
  <2> QED
    BY <2>3, <2>4
<1>8. ASSUME NEW t \in Task, Applies(t) PROVE Ranked'
  <2>1. /\ task[t].pc = "apply" /\ task'[t].pc = "idle"
        /\ \A u \in Task \ {t} :
              /\ task'[u].pc = task[u].pc /\ task'[u].list = task[u].list
              /\ task'[u].rank = IF u \in Loaded /\ t \in Loaded /\ task[u].rank > task[t].rank
                                 THEN task[u].rank - 1 ELSE task[u].rank
    BY <1>8 DEF Applies, SameBut
  <2>2. Loaded' = Loaded \ {t}
    BY <2>1 DEF Loaded
  <2>3. \A u \in Loaded : u \in Task
    BY DEF Loaded
  <2>4. CASE t \notin Loaded
    <3>1. Loaded' = Loaded /\ Cardinality(Loaded)' = n
      BY <2>2, <2>4
    <3>2. \A u \in Loaded : task'[u].rank = task[u].rank
      BY <2>1, <2>3, <2>4
    <3> HIDE DEF n
    <3> QED
      BY <1>1, <3>1, <3>2 DEF Ranked
  <2>5. CASE t \in Loaded
    <3>1. Cardinality(Loaded)' = n - 1
      BY <1>0, <2>2, <2>5, FS_RemoveElement
    <3>2. \A u \in Loaded' : /\ u \in Loaded /\ u # t
                             /\ task'[u].rank = IF task[u].rank > task[t].rank
                                                THEN task[u].rank - 1 ELSE task[u].rank
      BY <2>1, <2>2, <2>3, <2>5
    <3> HIDE DEF n
    <3>3. task[t].rank \in 1..n /\ \A u \in Loaded' : task[u].rank \in 1..n /\ task[u].rank # task[t].rank
      BY <1>1, <2>5, <3>2
    <3>4. \A u \in Loaded' : task'[u].rank \in 1..(n - 1)
      BY <1>0, <3>2, <3>3
    <3>5. ASSUME NEW u \in Loaded', NEW v \in Loaded', task'[u].rank = task'[v].rank PROVE u = v
      <4>1. task[u].rank = task[v].rank
        BY <1>0, <3>2, <3>3, <3>5
      <4> QED
        BY <1>1, <3>2, <4>1
    <3> QED
      BY <3>1, <3>4, <3>5 DEF Ranked
  <2> QED
    BY <2>4, <2>5
<1> QED
  BY <1>3, <1>4, <1>5, <1>6, <1>7, <1>8 DEF Stepped

(* A refused change of language finds the language it started from.        *)
LEMMA LocaleStays ==
    ASSUME PanelAssumption, TypeOK, TypeOK', HandlerShape, LinksFollow, LocaleKept, Stepped
    PROVE  LocaleKept'
<1> DEFINE Changes(t, g) == Asks(t, g) /\ task[t].op = "locale" /\ task[t].result[g] # "ok"
<1>0. \A t \in Task : \A g \in Guest \ unsure : Changes(t, g) => task[t].before = rows[g].locale
  BY DEF LocaleKept, Asks
<1>1. SUFFICES ASSUME NEW t \in Task, NEW g \in Guest, g \notin unsure', Changes(t, g)'
               PROVE  task'[t].before = rows'[g].locale
  BY DEF LocaleKept, Asks
<1>2. g \notin unsure
  BY <1>1 DEF Stepped, Pressed, Begun, Answered, Loads, Serves, Applies
<1>3. ASSUME rows' = rows, Changes(t, g), task'[t].before = task[t].before
      PROVE  task'[t].before = rows'[g].locale
  BY <1>0, <1>2, <1>3
<1>4. CASE Pressed
  BY <1>1, <1>3, <1>4 DEF Pressed, Asks, Asking, Concerns
<1>5. ASSUME NEW u \in Task, NEW h \in Handler, Begun(u, h) PROVE task'[t].before = rows'[g].locale
  <2>1. /\ task'[u] = h /\ (\A v \in Task \ {u} : task'[v] = task[v]) /\ rows' = rows
        /\ h.result = [x \in Guest |-> None]
    BY <1>5 DEF Begun, TypeOK
  <2>2. CASE t # u
    BY <1>1, <1>3, <2>1, <2>2 DEF Asks, Asking, Concerns
  <2>3. CASE t = u
    <3>1. h.op = "locale" /\ g \in h.todo
      BY <1>1, <2>1, <2>3 DEF Asks, Concerns
    <3>2. h.before = shown[g].locale
      BY <1>5, <3>1 DEF Begun
    <3>3. g \notin Outdated(h.op, h.todo)
      BY <1>1, <1>5 DEF Begun
    <3> QED
      BY <2>1, <2>3, <3>1, <3>2, <3>3 DEF Outdated
  <2> QED
    BY <2>2, <2>3
<1>6. ASSUME NEW u \in Task, NEW h \in Handler, Answered(u, h) PROVE task'[t].before = rows'[g].locale
  <2>1. /\ task'[u] = h /\ (\A v \in Task \ {u} : task'[v] = task[v]) /\ rows' = rows
        /\ h.pc \in {"idle", "read"}
    BY <1>6 DEF Answered, TypeOK
  <2> QED
    BY <1>1, <1>3, <2>1 DEF Asks, Asking, Concerns
<1>7. ASSUME NEW u \in Task, NEW h \in Handler, Loads(u, h) PROVE task'[t].before = rows'[g].locale
  <2>1. /\ task'[u] = h /\ (\A v \in Task \ {u} : task'[v] = task[v]) /\ rows' = rows
        /\ h.pc = "apply"
    BY <1>7 DEF Loads, TypeOK
  <2> QED
    BY <1>1, <1>3, <2>1 DEF Asks, Asking, Concerns
<1>8. ASSUME NEW u \in Task, Applies(u) PROVE task'[t].before = rows'[g].locale
  <2>1. /\ task'[u].pc = "idle" /\ rows' = rows
        /\ \A v \in Task \ {u} : /\ task'[v].pc = task[v].pc /\ task'[v].op = task[v].op
                                 /\ task'[v].todo = task[v].todo /\ task'[v].result = task[v].result
                                 /\ task'[v].before = task[v].before
    BY <1>8 DEF Applies, SameBut
  <2>2. t # u
    BY <1>1, <2>1 DEF Asks, Asking
  <2> QED
    BY <1>1, <1>3, <2>1, <2>2 DEF Asks, Asking, Concerns
<1>9. ASSUME NEW u \in Task, NEW h \in Handler, NEW x \in Guest, Serves(u, x, h)
      PROVE  task'[t].before = rows'[g].locale
  <2>1. /\ task'[u] = h /\ (\A v \in Task \ {u} : task'[v] = task[v])
        /\ task[u].pc = "serve" /\ h.op = task[u].op /\ h.before = task[u].before
        /\ x \in task[u].todo /\ h.todo = task[u].todo \ {x}
        /\ \A y \in Guest \ {x} : h.result[y] = task[u].result[y]
        /\ h.result[x] \in Result /\ h.result[x] # None
        /\ \A y \in Guest \ {x} : rows'[y] = rows[y]
    BY <1>9, PanelAssumption DEF Serves, TypeOK, Result, PanelAssumption
  <2>2. Asks(u, x)
    BY <2>1 DEF Asks, Asking, Concerns
  <2>3. Asks(t, g)
    BY <1>1, <2>1, <2>2 DEF Asks, Asking, Concerns
  <2>4. g = x => t = u
    BY <1>2, <2>2, <2>3 DEF LinksFollow, Asks
  <2>5. CASE g # x
    BY <1>0, <1>1, <1>2, <2>1, <2>3, <2>5
  <2>6. CASE g = x
    <3>1. h.result[x] = "failed"
      BY <1>1, <1>9, <2>1, <2>4, <2>6 DEF Serves, Result
    <3>2. rows' = rows
      BY <1>9, <3>1 DEF Serves
    <3>3. task[u].result[x] # "ok"
      BY <2>1, <2>2, PanelAssumption DEF HandlerShape, Asks, PanelAssumption
    <3> QED
      BY <1>1, <1>3, <2>1, <2>2, <2>4, <2>6, <3>2, <3>3
  <2> QED
    BY <2>5, <2>6
<1> QED
  BY <1>4, <1>5, <1>6, <1>7, <1>8, <1>9 DEF Stepped

(* A language put back makes the row it was taken from.                    *)
LEMMA PutBack ==
    ASSUME NEW row \in Row, NEW l
    PROVE  /\ [[row EXCEPT !.locale = l] EXCEPT !.locale = row.locale] = row
           /\ [row EXCEPT !.locale = row.locale] = row
  BY DEF Row

Newer(u, g) == \E v \in Loaded : task[v].rank > task[u].rank /\ Current(v, g)

(* A page that is not sure of a guest has a newer list on its way.         *)
LEMMA ListsKept ==
    ASSUME PanelAssumption, TypeOK, TypeOK', HandlerShape, LinksFollow, LocaleKept, Ranked,
           ListsFollow, Stepped
    PROVE  ListsFollow'
<1> DEFINE Shows(g) == Restored(g, shown[g]) \/ stale \/ \E u \in Loaded : Current(u, g)
           Covered(g) == \A u \in Loaded : ~Current(u, g) => task[u].superseded \/ Newer(u, g)
<1>0. \A g \in Guest \ unsure : Upcoming(g) \/ (Shows(g) /\ Covered(g))
  BY DEF ListsFollow, Follows, Newer
<1>1. SUFFICES ASSUME NEW g \in Guest, g \notin unsure'
               PROVE  Upcoming(g)' \/ (Shows(g)' /\ Covered(g)')
  BY DEF ListsFollow, Follows, Newer
<1>2. g \notin unsure
  BY <1>1 DEF Stepped, Pressed, Begun, Answered, Loads, Serves, Applies
<1>3. Upcoming(g) \/ (Shows(g) /\ Covered(g))
  BY <1>0, <1>2
(* Lists that are neither read nor applied.                                *)
<1>4. ASSUME NEW t \in Task, t \notin Loaded, t \notin Loaded', rows'[g] = rows[g],
             \A u \in Task \ {t} : task'[u] = task[u]
      PROVE  /\ (\E u \in Loaded : Current(u, g)) => \E u \in Loaded' : Current(u, g)'
             /\ Covered(g) => Covered(g)'
  <2>1. Loaded' = Loaded
    BY <1>4 DEF Loaded
  <2>2. \A u \in Loaded : task'[u] = task[u]
    BY <1>4 DEF Loaded
  <2>3. \A u \in Loaded : Current(u, g)' <=> Current(u, g)
    BY <1>4, <2>2 DEF Current
  <2>4. \A u \in Loaded : Newer(u, g) => Newer(u, g)'
    BY <2>1, <2>2, <2>3 DEF Newer
  <2> QED
    BY <2>1, <2>2, <2>3, <2>4
<1>5. CASE Pressed
  <2>1. /\ task' = task /\ rows' = rows /\ shown' = shown /\ stale' = stale
    BY <1>5 DEF Pressed
  <2>2. Loaded' = Loaded /\ (\A u \in Task : Current(u, g)' <=> Current(u, g))
    BY <2>1 DEF Loaded, Current
  <2>3. (Restored(g, shown[g])' <=> Restored(g, shown[g])) /\ (Upcoming(g)' <=> Upcoming(g))
    BY <2>1 DEF Restored, Upcoming, Asking, Concerns
  <2>4. Covered(g) => Covered(g)'
    BY <2>1, <2>2 DEF Newer, Loaded
  <2>5. Shows(g) => Shows(g)'
    BY <2>1, <2>2, <2>3 DEF Loaded
  <2> QED
    BY <1>3, <2>3, <2>4, <2>5
<1>6. ASSUME NEW t \in Task, NEW h \in Handler, Begun(t, h)
      PROVE  Upcoming(g)' \/ (Shows(g)' /\ Covered(g)')
  <2>1. /\ task'[t] = h /\ (\A u \in Task \ {t} : task'[u] = task[u]) /\ rows' = rows
        /\ h.result = [x \in Guest |-> None] /\ task[t].pc = "idle" /\ h.pc = "serve"
        /\ stale' = stale /\ h.todo \subseteq Guest
    BY <1>6 DEF Begun, TypeOK, Handler
  <2>2. Upcoming(g) => Upcoming(g)'
    BY <2>1 DEF Upcoming, Asking
  <2>3. /\ (\E u \in Loaded : Current(u, g)) => \E u \in Loaded' : Current(u, g)'
        /\ Covered(g) => Covered(g)'
    BY <1>4, <2>1 DEF Loaded
  <2>4. \A u \in Task : Asks(u, g) => u # t /\ task'[u] = task[u] /\ Asks(u, g)'
    BY <2>1 DEF Asks, Asking, Concerns
  <2>5. Restored(g, shown[g]) => Restored(g, shown[g])'
    <3>1. CASE shown'[g] = shown[g]
      BY <2>1, <2>4, <3>1 DEF Restored, Asks
    <3>2. CASE shown'[g] # shown[g]
      <4>1. h.op = "locale"
        BY <1>6, <3>2 DEF Begun
      <4>2. PICK x \in Guest : /\ h.todo = {x} /\ shown[x] # None /\ h.before = shown[x].locale
                               /\ shown' = [shown EXCEPT ![x].locale = h.locale]
        BY <1>6, <4>1 DEF Begun
      <4>3. x = g
        BY <3>2, <4>2 DEF TypeOK
      <4>4. g \notin Crossing(h.todo)
        BY <1>1, <1>6 DEF Begun
      <4>5. \A u \in Task : ~Asks(u, g)
        BY <4>2, <4>3, <4>4 DEF Crossing, Asks, Asking
      <4>6. Restored(g, shown[g]) => shown[g] = rows[g]
        BY <4>5 DEF Restored, Asks
      <4>7. shown[g] \in Row /\ shown'[g] = [shown[g] EXCEPT !.locale = h.locale]
        BY <4>2, <4>3 DEF TypeOK
      <4>8. [shown'[g] EXCEPT !.locale = h.before] = shown[g]
        <5>1. [[shown[g] EXCEPT !.locale = h.locale] EXCEPT !.locale = shown[g].locale] = shown[g]
          BY <4>7, PutBack
        <5>2. h.before = shown[g].locale
          BY <4>2, <4>3
        <5> QED
          BY <4>7, <5>1, <5>2
      <4>9. shown'[g] # None
        <5>1. h.locale \in Locale
          BY <1>6, <4>1 DEF Begun
        <5>2. shown'[g] \in Row
          BY <4>7, <5>1 DEF Row
        <5> QED
          BY <5>2 DEF PanelAssumption
      <4>10. Asks(t, g)'
        BY <2>1, <4>2, <4>3 DEF Asks, Asking, Concerns
      <4> QED
        BY <2>1, <4>1, <4>6, <4>8, <4>9, <4>10 DEF Restored, Asks
    <3> QED
      BY <3>1, <3>2
  <2>6. Shows(g) => Shows(g)'
    BY <2>1, <2>3, <2>5
  <2> QED
    BY <1>3, <2>2, <2>3, <2>6
<1>7. ASSUME NEW t \in Task, NEW h \in Handler, Answered(t, h)
      PROVE  Upcoming(g)' \/ (Shows(g)' /\ Covered(g)')
  <2>1. /\ task'[t] = h /\ (\A u \in Task \ {t} : task'[u] = task[u]) /\ rows' = rows
        /\ task[t].pc = "answer" /\ h.pc \in {"idle", "read"} /\ stale' = stale
    BY <1>7 DEF Answered, TypeOK
  <2>2. CASE h.pc = "read"
    BY <2>1, <2>2 DEF Upcoming
  <2>3. CASE h.pc = "idle"
    <3>1. \A x \in Guest : task[t].result[x] # "ok"
      BY <1>7, <2>3 DEF Answered
    <3>2. Upcoming(g) => Upcoming(g)'
      BY <2>1, <3>1 DEF Upcoming, Asking
    <3>3. /\ (\E u \in Loaded : Current(u, g)) => \E u \in Loaded' : Current(u, g)'
          /\ Covered(g) => Covered(g)'
      BY <1>4, <2>1 DEF Loaded
    <3>4. \A u \in Task \ {t} : Asks(u, g) => Asks(u, g)'
      BY <2>1 DEF Asks, Asking, Concerns
    <3>5. Restored(g, shown[g]) => Restored(g, shown[g])'
      <4>1. CASE ~Asks(t, g)
        <5>1. g \notin Concerns(t)
          BY <2>1, <4>1 DEF Asks, Asking
        <5>2. shown'[g] = shown[g]
          BY <1>7, <5>1 DEF Answered
        <5> QED
          BY <2>1, <3>4, <4>1, <5>2 DEF Restored, Asks
      <4>2. CASE Asks(t, g)
        <5>1. \A u \in Task : Asks(u, g) => u = t
          BY <1>2, <4>2 DEF LinksFollow, Asks
        <5>2. g \in Concerns(t)
          BY <4>2 DEF Asks
        <5>3. \/ shown'[g] = shown[g] /\ (task[t].op = "locale" => shown[g] = None)
              \/ /\ task[t].op = "locale" /\ shown[g] # None
                 /\ shown'[g] = [shown[g] EXCEPT !.locale = task[t].before]
          BY <1>7, <3>1, <5>2 DEF Answered
        <5>4. CASE shown'[g] = shown[g] /\ (task[t].op = "locale" => shown[g] = None)
          BY <2>1, <5>1, <5>4 DEF Restored, Asks
        <5>5. CASE /\ task[t].op = "locale" /\ shown[g] # None
                   /\ shown'[g] = [shown[g] EXCEPT !.locale = task[t].before]
          <6>1. task[t].before = rows[g].locale
            BY <1>2, <3>1, <4>2, <5>5 DEF LocaleKept, Asks
          <6>2. shown[g] = rows[g] => shown'[g] = rows[g]
            <7>1. ASSUME shown[g] = rows[g] PROVE shown'[g] = rows[g]
              <8>1. rows[g] \in Row
                BY <5>5, <7>1 DEF TypeOK
              <8> QED
                BY <5>5, <6>1, <7>1, <8>1, PutBack
            <7> QED
              BY <7>1
          <6> QED
            BY <2>1, <5>1, <5>5, <6>2 DEF Restored, Asks
        <5> QED
          BY <5>3, <5>4, <5>5
      <4> QED
        BY <4>1, <4>2
    <3>6. Shows(g) => Shows(g)'
      BY <2>1, <3>3, <3>5
    <3> QED
      BY <1>3, <3>2, <3>3, <3>6
  <2> QED
    BY <2>1, <2>2, <2>3
<1>8. ASSUME NEW t \in Task, NEW h \in Handler, Loads(t, h)
      PROVE  Upcoming(g)' \/ (Shows(g)' /\ Covered(g)')
  <2>1. /\ task'[t] = h /\ (\A u \in Task \ {t} : task'[u] = task[u]) /\ rows' = rows
        /\ task[t].pc = "read" /\ h.pc = "apply"
        /\ h.list = task[t].list \/ (h.list = rows /\ h.rank = Cardinality(Loaded) + 1)
    BY <1>8 DEF Loads, TypeOK
  <2>2. CASE h.list = None
    BY <2>1, <2>2 DEF Upcoming
  <2>3. CASE h.list # None
    <3>1. h.list = rows /\ h.rank = Cardinality(Loaded) + 1
      BY <2>1, <2>3 DEF HandlerShape
    <3>2. t \in Loaded' /\ Current(t, g)' /\ Loaded' \subseteq Loaded \cup {t}
      BY <2>1, <2>3, <3>1 DEF Loaded, Current
    <3>3. Cardinality(Loaded) \in Nat
      BY LoadedIsFinite
    <3>4. \A u \in Loaded' : u # t => task'[t].rank > task'[u].rank
      BY <2>1, <3>1, <3>2, <3>3 DEF Ranked, Loaded
    <3>5. \A u \in Loaded' : u # t => Newer(u, g)'
      BY <3>2, <3>4 DEF Newer
    <3> QED
      BY <3>2, <3>5
  <2> QED
    BY <2>2, <2>3
<1>9. ASSUME NEW t \in Task, NEW h \in Handler, NEW x \in Guest, Serves(t, x, h)
      PROVE  Upcoming(g)' \/ (Shows(g)' /\ Covered(g)')
  <2>1. /\ task'[t] = h /\ (\A v \in Task \ {t} : task'[v] = task[v])
        /\ task[t].pc = "serve" /\ h.op = task[t].op /\ h.before = task[t].before
        /\ x \in task[t].todo /\ h.todo = task[t].todo \ {x} /\ h.pc \in {"serve", "answer"}
        /\ \A y \in Guest \ {x} : h.result[y] = task[t].result[y]
        /\ h.result[x] \in Result /\ h.result[x] # None
        /\ \A y \in Guest \ {x} : rows'[y] = rows[y]
        /\ shown' = shown /\ stale' = stale
    BY <1>9, PanelAssumption DEF Serves, TypeOK, Result, PanelAssumption, page
  <2>2. CASE x = g /\ h.result[g] = "ok"
    BY <2>1, <2>2 DEF Upcoming, Asking
  <2>3. CASE x # g \/ h.result[g] # "ok"
    <3>1. rows'[g] = rows[g]
      <4>1. CASE x # g
        BY <2>1, <4>1
      <4>2. CASE x = g
        <5>1. h.result[g] = "failed"
          BY <1>1, <1>9, <2>1, <2>3, <4>2 DEF Serves, Result
        <5> QED
          BY <1>9, <4>2, <5>1 DEF Serves
      <4> QED
        BY <4>1, <4>2
    <3>2. Upcoming(g) => Upcoming(g)'
      <4>1. x = g => task[t].result[g] # "ok"
        BY <2>1, PanelAssumption DEF HandlerShape, Asking, PanelAssumption
      <4> QED
        BY <2>1, <4>1 DEF Upcoming, Asking
    <3>3. /\ (\E u \in Loaded : Current(u, g)) => \E u \in Loaded' : Current(u, g)'
          /\ Covered(g) => Covered(g)'
      BY <1>4, <2>1, <3>1 DEF Loaded
    <3>4. \A u \in Task : /\ Asks(u, g) => Asks(u, g)'
                          /\ task'[u].op = task[u].op /\ task'[u].before = task[u].before
      BY <2>1 DEF Asks, Asking, Concerns
    <3>5. Restored(g, shown[g]) => Restored(g, shown[g])'
      BY <2>1, <3>1, <3>4 DEF Restored, Asks
    <3>6. Shows(g) => Shows(g)'
      BY <2>1, <3>3, <3>5
    <3> QED
      BY <1>3, <3>2, <3>3, <3>6
  <2> QED
    BY <2>2, <2>3
<1>10. ASSUME NEW t \in Task, Applies(t)
       PROVE  Upcoming(g)' \/ (Shows(g)' /\ Covered(g)')
  <2>1. /\ task[t].pc = "apply" /\ task'[t].pc = "idle" /\ rows' = rows
        /\ stale' = (task[t].list = None \/ task[t].superseded)
        /\ shown' = IF task[t].list = None THEN shown ELSE task[t].list
        /\ \A u \in Task \ {t} :
              /\ task'[u].pc = task[u].pc /\ task'[u].op = task[u].op /\ task'[u].before = task[u].before
              /\ task'[u].todo = task[u].todo /\ task'[u].result = task[u].result
              /\ task'[u].list = task[u].list
              /\ task'[u].superseded = (task[u].superseded \/ u \in Overtaken(t))
              /\ task'[u].rank = IF u \in Loaded /\ t \in Loaded /\ task[u].rank > task[t].rank
                                 THEN task[u].rank - 1 ELSE task[u].rank
    BY <1>10 DEF Applies, SameBut
  <2>2. Loaded' = Loaded \ {t}
    BY <2>1 DEF Loaded
  <2>3. \A u \in Loaded : u \in Task
    BY DEF Loaded
  <2>4. \A u \in Loaded \ {t} : Current(u, g)' <=> Current(u, g)
    BY <2>1, <2>3 DEF Current
  <2>5. CASE task[t].list = None
    <3>1. \A u \in Loaded' : task'[u].superseded
      BY <2>1, <2>2, <2>3, <2>5 DEF Overtaken
    <3>2. stale'
      BY <2>1, <2>5
    <3> QED
      BY <3>1, <3>2
  <2>6. CASE task[t].list # None
    <3>1. t \in Loaded
      BY <2>1, <2>6 DEF Loaded
    <3>2. Upcoming(g) => Upcoming(g)'
      BY <2>1, <2>6 DEF Upcoming, Asking
    <3>3. \A u, v \in Loaded \ {t} : task[v].rank > task[u].rank => task'[v].rank > task'[u].rank
      <4>1. ASSUME NEW u \in Loaded \ {t}, NEW v \in Loaded \ {t}, task[v].rank > task[u].rank
            PROVE  task'[v].rank > task'[u].rank
        <5>1. /\ task[t].rank \in Nat /\ task[u].rank \in Nat /\ task[v].rank \in Nat
              /\ task[u].rank # task[t].rank /\ task[v].rank # task[t].rank
          BY <3>1, LoadedIsFinite DEF Ranked
        <5>2. \A w \in {u, v} : task'[w].rank = IF task[w].rank > task[t].rank
                                               THEN task[w].rank - 1 ELSE task[w].rank
          BY <2>1, <2>3, <3>1
        <5> QED
          BY <4>1, <5>1, <5>2
      <4> QED
        BY <4>1
    <3>4. \A u \in Loaded \ {t} : task[t].rank > task[u].rank => task'[u].superseded
      BY <2>1, <2>3, <2>6 DEF Overtaken
    <3>5. ASSUME Covered(g) PROVE Covered(g)'
      <4>1. ASSUME NEW u \in Loaded \ {t}, ~Current(u, g)
            PROVE  task'[u].superseded \/ Newer(u, g)'
        <5>1. CASE task[u].superseded
          BY <2>1, <2>3, <5>1
        <5>2. CASE Newer(u, g)
          <6>1. PICK v \in Loaded : task[v].rank > task[u].rank /\ Current(v, g)
            BY <5>2 DEF Newer
          <6>2. CASE v = t
            BY <3>4, <6>1, <6>2
          <6>3. CASE v # t
            <7>1. v \in Loaded' /\ task'[v].rank > task'[u].rank /\ Current(v, g)'
              BY <2>2, <2>4, <3>3, <6>1, <6>3
            <7> QED
              BY <7>1 DEF Newer
          <6> QED
            BY <6>2, <6>3
        <5> QED
          BY <3>5, <4>1, <5>1, <5>2
      <4> QED
        BY <2>2, <2>4, <4>1
    <3>6. ASSUME Covered(g) PROVE Shows(g)'
      <4>1. CASE Current(t, g)
        BY <2>1, <2>6, <4>1 DEF Current, Restored
      <4>2. CASE ~Current(t, g)
        <5>1. CASE task[t].superseded
          BY <2>1, <5>1
        <5>2. CASE Newer(t, g)
          <6>1. PICK v \in Loaded : task[v].rank > task[t].rank /\ Current(v, g)
            BY <5>2 DEF Newer
          <6>2. v # t
            BY <4>2, <6>1
          <6> QED
            BY <2>2, <2>4, <6>1, <6>2
        <5> QED
          BY <3>1, <3>6, <4>2, <5>1, <5>2
      <4> QED
        BY <4>1, <4>2
    <3> QED
      BY <1>3, <3>2, <3>5, <3>6
  <2> QED
    BY <2>5, <2>6
<1> QED
  BY <1>5, <1>6, <1>7, <1>8, <1>9, <1>10 DEF Stepped

-----------------------------------------------------------------------------
(* All together.                                                           *)

(* The page opens with all this.                                           *)
LEMMA InitIInv ==
    ASSUME PanelAssumption, Init
    PROVE  PanelIInv
<1> DEFINE zero == [g \in Guest |-> 0]
           start == [Idle EXCEPT !.pc = "read", !.op = "load"]
<1>1. PICK first \in Task : task = [t \in Task |-> IF t = first THEN start ELSE Idle]
  BY DEF Init
<1>2. /\ start \in Handler /\ start.pc = "read" /\ start.op = "load"
      /\ start.todo = {} /\ start.list = None /\ start.result = [g \in Guest |-> None]
  BY IdleIs DEF Handler, AllOps
<1> HIDE DEF start
<1>3. \A t \in Task : /\ task[t] \in Handler /\ task[t].pc \in {"idle", "read"}
                      /\ task[t].todo = {} /\ task[t].list = None
                      /\ task[t].result = [g \in Guest |-> None]
                      /\ task[t].pc # "idle" => task[t].op = "load"
  BY <1>1, <1>2, IdleIs
<1>4. \A t \in Task : ~Asking(t) /\ t \notin Loaded
  BY <1>3 DEF Asking, Loaded
<1>5. /\ open \in Dialogs /\ open.confirm = None /\ open.share = None /\ open.notify = None
      /\ open.bulk = None /\ open.form = None
  BY DEF Init, NoDialog, Dialogs
<1>6. Via("load") = {}
  BY DEF Via, Confirmed, Shares, Bulk
<1>7. rows \in [Guest -> Row \cup {None}] /\ \A g \in Guest : rows[g] # None => rows[g].inv \in {0, 1}
  <2>1. (CHOOSE l \in Locale : TRUE) \in Locale
    BY DEF PanelAssumption
  <2>2. FirstRows \subseteq Row \cup {None} /\ \A row \in FirstRows : row # None => row.inv \in {0, 1}
    BY <2>1 DEF FirstRows, Row
  <2> QED
    BY <2>2 DEF Init
<1>8. TypeOK
  <2>1. links \in [Guest -> 0..MaxInv]
    BY DEF Init, PanelAssumption
  <2>2. task \in [Task -> Handler]
    BY <1>1, <1>2, IdleIs
  <2> QED
    BY <1>5, <1>7, <2>1, <2>2 DEF TypeOK, Init
<1>9. HandlerShape
  BY <1>3, <1>4 DEF HandlerShape
<1>10. NeverAhead
  <2>1. \A g \in Guest : Known(g, shown[g])
    BY DEF Init, Known
  <2>2. DialogsKnown
    BY <1>5, PanelAssumption DEF DialogsKnown, PanelAssumption
  <2> QED
    BY <1>3, <1>4, <2>1, <2>2 DEF NeverAhead
<1>11. Capacity
  <2>1. \A g \in Guest : InFlight(g) = 0
    BY <1>3, FS_EmptySet DEF InFlight
  <2> QED
    BY <1>3, <1>7, <2>1, PanelAssumption DEF Capacity, PanelAssumption
<1>12. DialogShape
  BY <1>5 DEF DialogShape, Exclusive
<1>13. BusyWhileRunning
  BY <1>3, <1>6 DEF BusyWhileRunning, Running, Init
<1>14. OnePerDialog
  BY <1>3, <1>6 DEF OnePerDialog
<1>15. LinksFollow
  BY <1>4 DEF LinksFollow, Init, Works
<1>16. ConfirmationHolds
  BY <1>3 DEF ConfirmationHolds, Confirmed
<1>17. Ranked /\ LocaleKept
  BY <1>4 DEF Ranked, LocaleKept, Loaded
<1>18. ListsFollow
  BY <1>4 DEF ListsFollow, Follows, Init, Loaded
<1> QED
  BY <1>8, <1>9, <1>10, <1>11, <1>12, <1>13, <1>14, <1>15, <1>16, <1>17, <1>18 DEF PanelIInv

(* The invariant is kept by every step.                                    *)
LEMMA PanelIInvKept ==
    ASSUME PanelAssumption, PanelIInv, [Next]_vars
    PROVE  PanelIInv'
<1>1. /\ TypeOK /\ HandlerShape /\ NeverAhead /\ Capacity /\ DialogShape /\ BusyWhileRunning
      /\ OnePerDialog /\ LinksFollow /\ ConfirmationHolds /\ Ranked /\ LocaleKept /\ ListsFollow
  BY DEF PanelIInv
<1>2. Stepped
  <2>1. CASE Next
    BY <1>1, <2>1, StepIs
  <2>2. CASE UNCHANGED vars
    <3>1. open' = open /\ rows' = rows /\ selected' = selected /\ open \in Dialogs /\ selected \subseteq Guest
      BY <1>1, <2>2 DEF vars, page, TypeOK
    <3>2. DialogShape' /\ DialogsKnown'
      BY <1>1, <3>1 DEF DialogShape, NeverAhead, DialogsKnown
    <3>3. Pressed
      BY <2>2, <3>1, <3>2 DEF vars, page, Pressed
    <3> QED
      BY <3>3 DEF Stepped
  <2> QED
    BY <2>1, <2>2
<1>3. TypeOK' /\ HandlerShape'
  BY <1>1, <1>2, TypeKept, HandlersKept
<1>4. NeverAhead' /\ Capacity'
  BY <1>1, <1>2, <1>3, KnownKept, CapacityKept
<1>5. DialogShape' /\ BusyWhileRunning' /\ OnePerDialog'
  BY <1>1, <1>2, <1>3, DialogsKept, BusyKept
<1>6. LinksFollow' /\ ConfirmationHolds'
  BY <1>1, <1>2, <1>3, LinksKept, ConfirmationKept
<1>7. Ranked' /\ LocaleKept' /\ ListsFollow'
  BY <1>1, <1>2, <1>3, RankedKept, LocaleStays, ListsKept
<1> QED
  BY <1>3, <1>4, <1>5, <1>6, <1>7 DEF PanelIInv

(* What the invariant says of a page at rest and of the links it holds.    *)
LEMMA PanelIInvSays ==
    ASSUME PanelAssumption, PanelIInv
    PROVE  DialogsInv /\ FreshWhenQuiet /\ HeldLinkWorks
<1>1. DialogsInv
  BY DEF PanelIInv, DialogsInv
<1>2. HeldLinkWorks
  BY DEF PanelIInv, LinksFollow, Works, HeldLinkWorks
<1>3. ASSUME Quiet, ~stale, NEW g \in Guest, g \notin unsure PROVE shown[g] = rows[g]
  <2>1. ~Upcoming(g) /\ Loaded = {}
    BY <1>3 DEF Quiet, Upcoming, Asking, Loaded
  <2>2. Restored(g, shown[g])
    BY <1>3, <2>1 DEF PanelIInv, ListsFollow, Follows
  <2> QED
    BY <1>3, <2>2 DEF Quiet, Restored, Asking
<1> QED
  BY <1>1, <1>2, <1>3 DEF FreshWhenQuiet

(* A confirmation that a step closes had been locked by the handler that   *)
(* ends with this step, and nothing else ran on its guest.                 *)
LEMMA ClosesDone ==
    ASSUME PanelAssumption, PanelIInv, Next, NEW g \in Guest \ unsure,
           open.confirm # None, open'.confirm = None, "confirm" \in busy, open.confirm.guest = g
    PROVE  Done(open.confirm)
<1>1. /\ TypeOK /\ HandlerShape /\ NeverAhead /\ Capacity /\ DialogShape /\ BusyWhileRunning
      /\ ConfirmationHolds
  BY DEF PanelIInv
<1>2. Stepped
  BY <1>1, StepIs
<1>3. open'.confirm # open.confirm
  OBVIOUS
<1>4. PICK t \in Task : Applies(t)
  <2>1. ~Pressed
    BY <1>3 DEF Pressed
  <2>2. \A t \in Task, h \in Handler : /\ ~Begun(t, h) /\ ~Answered(t, h) /\ ~Loads(t, h)
                                       /\ \A x \in Guest : ~Serves(t, x, h)
    BY <1>3 DEF Begun, Answered, Loads, Serves, page
  <2> QED
    BY <1>2, <2>1, <2>2 DEF Stepped
<1>5. "confirm" \in Via(task[t].op) /\ task[t].pc = "apply"
  BY <1>3, <1>4 DEF Applies
<1>6. task[t].op \in Confirmed /\ ~Asking(t)
  BY <1>5, ViaConfirm DEF Asking
<1> QED
  BY <1>1, <1>5, <1>6 DEF ConfirmationHolds

LEMMA PanelAlways == ASSUME PanelAssumption PROVE Spec => []PanelIInv
<1>1. PanelIInv /\ [Next]_vars => PanelIInv'
  BY PanelIInvKept
<1> QED
  BY <1>1, InitIInv, PTL DEF Spec

(* However the handlers of the page overlap, and in whatever order their   *)
(* answers and lists come or are lost: no dialog stays locked after its    *)
(* handlers have ended, and those of confirmations, e-mails and bulks are  *)
(* locked until then; a page at rest on which the newest list came last    *)
(* shows what the server has of every guest that is not unsure, and the    *)
(* links it holds of those are their only ones.                            *)
THEOREM PanelIsSound ==
    ASSUME PanelAssumption
    PROVE  Spec => [](DialogsInv /\ FreshWhenQuiet /\ HeldLinkWorks)
<1>1. PanelIInv => DialogsInv /\ FreshWhenQuiet /\ HeldLinkWorks
  BY PanelIInvSays
<1> QED
  BY <1>1, PanelAlways, PTL

(* What a step that closes a confirmation may say of it.                   *)
ClosesRight ==
    \A g \in Guest \ unsure :
        LET c == open.confirm IN
        /\ c # None /\ open'.confirm = None /\ "confirm" \in busy /\ c.guest = g
        => CASE c.op = "archive" -> rows[g].archived
             [] c.op = "revoke" -> ~(Active(rows[g]) /\ rows[g].inv = c.inv)
             [] c.op = "regenerate" -> rows[g].inv > c.inv

LEMMA StepClosesRight ==
    ASSUME PanelAssumption, PanelIInv, [Next]_vars
    PROVE  [ClosesRight]_vars
<1>1. ASSUME Next PROVE ClosesRight
  BY <1>1, ClosesDone DEF ClosesRight, Done
<1> QED
  BY <1>1

(* A confirmation that closes by itself has done what it asked for.        *)
THEOREM ConfirmationsAreDone == ASSUME PanelAssumption PROVE Spec => ClosedMeansDone
<1>1. PanelIInv /\ [Next]_vars => [ClosesRight]_vars
  BY StepClosesRight
<1>2. Spec => [][ClosesRight]_vars
  BY <1>1, PanelAlways, PTL DEF Spec
<1> QED
  BY <1>2 DEF ClosesRight, ClosedMeansDone
=============================================================================
