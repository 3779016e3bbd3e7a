# MateMyParty in TLA+

A verification project for MateMyParty: TLA+ modules translated from the API in
`src/apps/api/src` (with the tables of `src/packages/database` and the contracts
of `src/packages/contracts`) and from the pages in `src/apps/web/components`, TLC
runs on small instances, and theorems checked by TLAPS. Paths below are relative
to `src/`; `api/` abbreviates `apps/api/src/`, `web/` `apps/web/components/`.

    tlc -workers 2 -config InvitationsHosts.cfg MCInvitations.tla
    tlapm InvitationsProofs.tla

## 1. The system

MateMyParty lets a host invite guests to an event through private links. A
Next.js server (`apps/web`) renders pages and forwards requests to a NestJS API
(`apps/api`), which keeps everything in PostgreSQL (`packages/database`).
`packages/contracts` holds the request schemas, `packages/i18n` the texts,
`packages/config` shared compiler and linter settings.

The API is one Node process: JavaScript runs in turns of one event loop, and two
requests interleave wherever one of them awaits. What they share is

- the database. Transactions run at READ COMMITTED (drizzle's default, which the
  code never changes), so every *statement* sees what was committed when it
  started, and only row locks (`FOR UPDATE`, or those an `UPDATE` takes) and
  unique indexes order concurrent requests;
- three objects in memory, lost at a restart: the rate limiters, the e-mail rate
  limiter and the e-mail concurrency gate.

### Inventory

| Component | State | Operations | What makes it correct |
|---|---|---|---|
| Invitation lifecycle (`api/invitations/invitations.{service,repository}.ts`) | `invitations` rows with status, counters and `revoked_at`; `invitation_activities` | create, regenerate, revoke; visit, open; resolve a token or a grant; markSent | one working link per guest; revoked links are frozen; rotation is atomic; log and counters agree |
| Lookup and access grants (`api/invitations/invitation-lookup.service.ts`) | `invitation_access_grants` with expiry | match name and contact, issue and purge grants | a grant opens only a working invitation, and not after revocation or expiry |
| E-mail delivery (`api/email/email-delivery.*`, `email-recovery.service.ts`) | `email_delivery_attempts` | send, recover at start; preview, history, statistics | a guest has one delivery in progress; a key calls the provider once; statuses only advance |
| Concurrency gate, e-mail rate limiter (`api/email/email-rate-limiter.ts`) | `active`, `pending`; timestamps per guest | run; consume | never more than the limit; no lost wake-up; bounded queue |
| RSVP service (`api/rsvp/rsvp.{service,repository}.ts`) | `rsvps`, `rsvp_history` | create, update, cancel; read, statistics | history ends with the current answer; counts add up; revoked links answer no more |
| RSVP and lookup rate limiters (`api/rsvp/rsvp-rate-limiter.ts`, `api/invitations/invitation-lookup-rate-limiter.ts`) | a `Map` of fixed-window buckets | consume, prune | bursts bounded, no false refusal, bounded memory |
| Guests (`api/guests`) | `guests` | create, update, archive, restore, list | archived guests have no working link; the party is consistent |
| Events and revisions (`api/events`) | `events`, `event_localizations`, `event_revisions` | update, host and public reads, share data | the last revision is the event; numbers never clash |
| Calendar and maps (`api/calendar`, `api/events/event-tools.ts`) | none | links, ICS text | all name the same place, text and time |
| Contracts (`packages/contracts`) | none | schemas of guests, events, answers | whatever they let through, the database takes and the form can edit again |
| Host's page of guests (`web/host-guest-panel.tsx`) | the list, links, dialogs, selection, read marks; running handlers | load, add, edit, share, rotate, revoke, archive, e-mail, bulk actions, filters, marks | the page shows what the server has; a link it holds works; dialogs close on what was done |
| Event editor and thumbnail dialog (`web/host-event-editor.tsx`, `web/host-dashboard.tsx`) | a form and the event as loaded, in each tab | type, save, preview the calendar | a form that says it is saved is; a save changes what was edited |
| Guest's page (`web/public-invitation.tsx`) | the answer and party as loaded; the language | answer, change, cancel; pick a language | the answer shown is the stored one; a good form is accepted |
| Media stage (`web/themed-invitation-stage.tsx`) | copies of what two media elements do | open, play, pause, replay | the controls show what plays; pause means quiet |
| Host authentication, errors, configuration (`api/auth`, `api/common`) | none | compare a header, format errors | - |
| Proxy routes, dictionaries, seed, deployment | none, or run once | - | - |

How they interact. An e-mail send uses the invitation service *inside* its own
transaction (rotation), the concurrency gate around the provider call, and the
invitation repository again afterwards (markSent). RSVP requests resolve their
credentials through the invitation service inside their transaction. Guests are
archived and edited by requests that look at none of this. Event saves touch
only the event's tables. The pages know the API by its answers only: each keeps
a copy of what it loaded, lets handlers overlap wherever one awaits, and is
never told of a change. The links of invitations exist only in the answer that
created them: the API stores their hashes, so the host's page holds the only
copy.

The hard behaviours are listed one by one, with their lines, under `hazards` in
`PROJECT.json`. In groups:

- **interleavings of transactions** at READ COMMITTED: find-then-insert
  (`createForGuestInTransaction`), update-then-log (`revokeInTransaction`), rows
  read without a lock (the guest in `context()` of the RSVP service),
  lock-order inversion between visits by grant and revocations;
- **crashes and late answers**: between commit, `markSending`, provider and
  `markSent`; recovery that runs once, at start;
- **event-loop subtleties**: the gate increments `active` a microtask late;
- **boundaries**: windows, a full `Map` whose re-inserted keys keep their place,
  `MAX + 1` numbering, counts that must add up;
- **ordering by `created_at`**, which is the time a transaction *began*;
- **handlers of a page that overlap**: answers in any order, answers lost with
  or without effect, dialogs closed and opened meanwhile, a list loaded before a
  change and applied after it;
- **rules written several times**: the form, the schema and the table check a
  guest each on its own; statistics, filters, badges and offers each count the
  guests; page, calendar and maps each fall back to another text;
- **events and promises of media elements** that arrive after the next press.

## 2. Modules

    InvitationRows ---> Invitations -----> MCInvitations, InvitationsProofs
         |                  |  `---------> MCLiveRequests <--- EmailGate -> EmailGateProofs
         |             LinkLifecycle (abstract, INSTANCEd by Invitations)
         `------------> EmailDelivery ---> MCEmailDelivery, EmailDeliveryProofs
    RsvpRules ---> Rsvp -----------------> MCRsvp
         |          |  `-----------------> MCRsvpRequests <--- WindowLimiter
         |          |                            `-> RsvpProofs
         |     ResponseLog (abstract, INSTANCEd by Rsvp)
         `---> AnswerPanel -> AnswerPanelProofs -.
    EventDraft, EventEditors, MediaStage,        |
    EventRevisions, InvitationPage --------------+-> MCEventPages -> EventPagesProofs
    GuestPanel -> GuestPanelProofs --------------.
    GuestEdits, GuestList, ReadMarks ------------+-> MCHostPages -> HostPagesProofs

Two of the `MC` modules instantiate a proof module (`AnswerPanelProofs`,
`GuestPanelProofs`), so that the theorems about the composition can cite what is
proved of the part.

**Side by side.** Most modules abstract from what the others are about and share
no state with them. The `MC` modules that instantiate several of them check them
side by side: a variable `part` names one, a behaviour steps that one and leaves
the variables of the others in one initial state. This is the union of the
behaviours of the parts, not their product, and nothing is claimed about the
others' variables (an invariant of a part is guarded by `part`; an action property
holds of steps that do not touch it anyway). Where components do interact, the
interaction is in one module: rotation and delivery in `EmailDelivery`, the
rules of an answer in `RsvpRules`, used by the API and by the page.

**Conjunctions.** An invariant such as `AnswersInv` is a conjunction of named
parts, each with its own comment: `TypeOK` first, then what the module is about.

Definitions of the form `Name_Variant` are plausible wrong versions of `Name`.
Nothing uses them; `PROJECT.json` pairs each with the property that would notice
(`mutants`). `map` gives the source lines of every other definition.

### InvitationRows, Invitations

`InvitationRows` is what a row of `invitations` holds that a rule of the code
looks at (guest, status, revocation, two counters) and the four updates of
`invitations.repository.ts`: `SentRow`, `OpenedRow`, `VisitedRow`, `RevokedRow`.
It is shared, so that the e-mail module changes rows the same way.

`Invitations` keeps the *committed* tables in `inv`, `acts`, `grants` and
`archived`, and in `host[h]` and `visitor[v]` one record per request in flight:
the statement it has reached (`pc`), what it remembered from earlier statements,
and what it has written but not committed, with the row locks that implies.

| Code | Actions |
|---|---|
| `createForGuestInTransaction` | `StartCreate` (reads the guest), `FindActive`, `Insert` |
| `regenerateInTransaction` | `StartRegenerate` (findById), `CheckOther`, `RevokeRow`, `CloseGrants`, `ReadGuest`, `FindActive`, `Insert` |
| `revoke` | `StartRevoke`, `RevokeRow`, `CloseAndRevoke` |
| visit / open by token | `StartByToken`, `PublicDetails` (visit only), `StartUpdate`, `Track` |
| visit / open by grant | `StartByGrant`, `MarkGrantUsed`, then the same |
| lookup | `StartLookup`, `IssueGrant` (with the purge) |
| `markSent` | `MarkSent` |
| archive, restore | `Archive`, `Restore` |
| errors, lost connections | `HostFails`, `VisitorFails`: rollback at any statement |
| PostgreSQL's deadlock detector | `BreakDeadlock`: either request is rolled back |

Three places decide how READ COMMITTED is modelled. An `UPDATE .. WHERE` that
must wait for a row judges *that row* anew once it gets it, but not the other
tables of its condition: hence `StartUpdate` (both predicates, as of the start)
and `Track` (only the invitation's). An insertion that meets an index entry of a
row being revoked waits for that transaction (`IndexWait`); one that meets a
live entry fails (`IndexFree`). And a transaction sees its own writes
(`SeenActive`).

`LinkLifecycle` is the promise: a guest's link is issued, rotated in one step,
withdrawn, marked sent, marked opened. `Invitations` implements it
(`LifecycleSpec`), with `link[g]` the one active committed row of `g` and
`state[i]` the status of row `i`.

### EmailDelivery

One action per await of `EmailDeliveryService.send` and `deliver`: `Begin`,
`LockGuest`, `CheckKey` (idempotency key, then rate limit), `CheckProgress`
(latest attempt, eligibility, confirmation), `Queue` (rotation, attempt,
COMMIT); then outside the transaction `MarkSending`, `CallProvider`,
`RecordAnswer`, `MarkInvitationSent`. `Crash` drops every request and the rate
limiter's memory; `Restart` is `onApplicationBootstrap` with `markInterrupted`.
Other requests on the same rows (`HostCreates`, `HostRegenerates`,
`HostRevokes`, `GuestOpens`, `SetArchived`) are one step each, blocked where a
foreign key or an update needs the guest row that a send has locked; what
happens *inside* a rotation is module Invitations. `created_at` is the number
of the transaction's BEGIN (`stamp`), and `Latest` orders by it, as the query
does. The provider is external: it accepts, fails, or is never called because
the gate is full.

### EmailGate

`EmailConcurrencyGate.run` at the grain of event-loop turns: `Enter`, `Wait`,
`Resume` (the continuation of the await, a microtask), `Finish` (the `finally`).
Callers come out of I/O callbacks, and microtasks are drained before the next
one, so `Enter` and `Wait` require that no resumed caller is left (`Drained`).
Without that the gate would let one operation too many run: `active` is not
looked at again after the await.

### RsvpRules, Rsvp

`RsvpRules` holds what is said of an answer without a transaction: parties,
inputs, `Fits` and `Normalized` (`normalize`), `Permits` (the 409 and 404
answers). `Rsvp` runs them, `AnswerPanel` meets them from the other side.

The three mutations as `Start` (resolveAccess), `Lock` (`FOR UPDATE` on the
invitation), `ReadContext` (re-check under the lock, party of the guest),
`ReadCurrent` (409/404 answers) and `Create`, `Update` or `Cancel` with the
history row. The host's `Revoke` waits
for the row lock; `SetArchived` and `SetParty` do not, because no request locks
the guest row. `ResponseLog` is the promise: a log per invitation that only
grows, never repeats its last entry, cancels only an accepted answer, and stops
when the link is revoked.

### WindowLimiter

`consume` and `prune` of both limiters, which differ only in constants
(`Maximum`, `Window`, `PruneFrom`, `MaxBuckets`). `buckets` is the JavaScript
`Map` as a sequence in insertion order, where setting a present key keeps its
place (`PutBucket`). `admitted`, `refused` and `forgotten` are history variables
for the properties. A bucket counts to `Maximum + 1`; counting further refuses
the same. `Prune` says what the map is afterwards instead of deleting one bucket
at a time: the buckets whose window is not over, in order, without the first
ones if they are too many. Only one map is possible (the run has as many states
as with a filter written out), and the form can be reasoned about.

### EventRevisions

`updateHostEvent` as `StartSave`, `LockAndWrite`, `ReadBack`, `InsertRevision`
(with the unique index, and COMMIT), and the reads of `findHostRecordById`
outside a transaction: the event row first, then texts and revision number from
parallel queries in any order. A form is an opaque value that sets every field.

### EventDraft

The form of an event by its sections: what each control does to the draft, what
the contract accepts (`Accepted`), what is written (`Stored`) and loaded again
(`Loaded`), and every reader of it: the presenter and the page's own fallback,
the calendar links and the calendar file, the map links and the map on the page,
the dashboard's readiness, the stage's animation and music. `Instant` is
`localInputToIso`, which corrects a guess three times; times are hours and a zone
may change its clocks once, which is all the correction can tell apart. A
behaviour stays in one section, because no rule refers to fields of two.

### EventEditors

The editor's page and the dashboard's thumbnail dialog in two tabs. Both load the
whole event and send the whole event. `patches` are updates on their way, with
what their author had loaded and edited, served in any order; pages are reloaded
and dialogs closed meanwhile. The calendar under the form is asked for again by
an effect on the revision (`Previewed`).

### GuestPanel

The host's page of guests, with every handler that changes something at the
server. A handler (`task[t]`) starts from a button or a dialog with what it
*captured* (`Begin`), is served guest by guest (`Serve`: done, refused, or the
answer lost with or without effect), takes its answer (`AnswerOk`,
`AnswerFailed`, `AnswerLost`, `AnswerBulk`), and most of them load the list
again (`ReadList`, `LoadFails`, `Apply`). `Effect` is the API's rule in one step.
Handlers of different buttons overlap; the only locks are `busy`, one per dialog.
The one of the share dialog is a flag that two handlers set and clear for all
guests, so overlapping shares unlock each other (section 6), and
`BusyWhileRunning` says of it only that nobody leaves it locked.
`links[g]` is the link the page holds. `unsure` and `stale` are history variables
that name what the page cannot know: guests with crossing handlers, a lost
answer or a language picked on an old row (`Outdated`), and a list overtaken by a
newer one. There is one page and one host: what another host or tab does to a
link while the page holds it is left out. A link of an archived guest counts as
the guest's link, which it is again after a restore. The module is instantiated
twice, with all operations on one guest and with the operations on links for
two.

### GuestEdits

One guest's row through the form (`FormPayload`), the schemas (`FieldOk`,
`Accepted`, `Parsed`, `Transformed`), the merge of a patch with the row that was
read without a lock (`Merged`) and the checks of the table (`ChecksPass`). A
request reads in one step and writes in another. Contacts are classes of strings:
normal, normal after trimming and lower case, too short.

### GuestList

What is counted and shown of the guests: the three statistics of the API, the
page's filters, badges, texts, offers, and the selection under a filter. Rows are
drawn from those that differ in any of these (`GuestRow`).

### ReadMarks

The marks of read messages in two tabs with one `localStorage`, guests who answer
again, details that arrive late.

### AnswerPanel

`RsvpPanel` on one page: what it renders, its clicks, `requestRsvp` with POST or
PATCH chosen by the answer the page holds, and `Settled`, what it does with the
response. A request is served, and its answer arrives, is replaced by the proxy's
error, or never comes. Another device answers, the host changes the party or
shuts the link, the page is loaded again.

### MediaStage

The two media elements are external and do what HTML says: `play()` and `pause()`
act at once, their events and promises are told in a queue of tasks per element
(`Tell`), a source becomes ready, ends or fails, a browser may refuse. The
handlers of the page (`Unlock`, `ToggleVideo`, `ReplayVideo`, `ToggleAudio`,
`ToggleAll`) look at the elements and at what they were told.

### InvitationPage

The language of a guest's page, the calendar fetched in it and the cookie from
which the next load takes it, with answers in any order or lost.

## 3. Runs

| Run | Question | Instance |
|---|---|---|
| `InvitationsHosts` | Do two host requests on one guest keep one working link, a true log, atomic rotations, and implement `LinkLifecycle`? | 2 hosts, 3 invitations, 1 visitor without grants |
| `InvitationsVisitors` | Is anything counted on a link after it stopped working? Do grants in use stay? | 1 host, 2 visitors, 2 invitations, 1 grant, 2 tracked requests per invitation |
| `LiveRequests` | Side by side: is the e-mail gate's limit kept, no wake-up lost, nobody starved? Does every request on a link end in spite of the lock-order inversion? | 6 callers, 2 slots, 3 places; 1 host, 1 visitor, 1 grant; fair |
| `EmailSends` | Do overlapping sends, repeated keys, crashes and other requests leave one delivery, one provider call per key, true statuses? | 2 senders, 2 guests, 2 keys, failures |
| `EmailLive` | Does every queued delivery finish? | 2 senders, 1 guest, fair, no failures |
| `RsvpRequests` | Side by side: do concurrent answers, revocations and party changes make a `ResponseLog`? What do the limiters let through, refuse and remember? | 2 requests, 1 invitation, 3 answers; 3 keys, 2 buckets, 2 calls per window of 2, 4 instants |
| `EventPages` | Side by side: are revisions consistent, and what can a page show? Does what the form saves reach everybody? What do two tabs save over each other? And the page of a guest: its answers, its media, its language | 2 savers, 3 forms, 2 readers, 4 revisions; 8 hours; 2 saves, 1 update on its way; 2 parties; 4 tasks; 3 picks |
| `HostPages` | Side by side: does the page of guests show what the server has, and hold working links? Do form, schema and table agree? Do the numbers? Is anything unread lost? | 2 handlers at a time and in all, 2 invitations; 1 guest with every operation, 2 guests with those on links; 2 requests on a guest; 2 rows of 11 kinds; 2 tabs, 2 guests, 2 answers |
| `EmailSkew`, `EmailStuck`, `RsvpShrunk`, `MediaRace` | Disagreements of code and documents, section 6 | as small as shows them |

The properties that say most, and what would break them:

- `OneActivePerGuest`, `RotationIsAtomic`, `LifecycleSpec` (Invitations): two
  hosts that rotate the same link, one of them after reading it.
- `OneInProgress`, `OneCallPerKey`, `SentWasAccepted`, `AttemptsOnlyAdvance`,
  `NoneQueuedForArchived` (EmailDelivery): a crash and a repeated key between
  commit and provider. `AttemptsInv` adds that attempts are numbered densely.
- `AnswersInv`, `RevokedAnswersFreeze`, `LogSpec` (Rsvp): an answer of a request
  that began before the revocation, or validated against a party since changed.
- `LimiterInv`, `NewestBucketKept` (WindowLimiter): a burst across two windows,
  a key that comes back with its old place in the `Map`.
- `FreshWhenQuiet`, `HeldLinkWorks`, `DialogsInv` and, in `StepsAsAsked`,
  `ClosedMeansDone` (GuestPanel): loads that overtake each other, a link rotated
  by another button, a dialog closed by another's answer.
- `EditsInv` and `PatchesStayNarrow` (GuestEdits): a guest that passed one layer
  and that the next refuses; a patch that resets a field it does not name.
- `ListInv` and `HiddenTicksStay` (GuestList); `NewAnswersAreUnread` (ReadMarks).
- `RevisionsInv` (EventRevisions); `DraftInv`, `TypedTimeIsShown` (EventDraft);
  `EditorsInv`, `FreshSavesStayNarrow` (EventEditors): typing during a save, an
  answer to a dialog that was closed.
- `PanelInv`, `GoodFormsAreAccepted` (AnswerPanel); `ControlsShowMedia`
  (MediaStage); `LanguageIsKept` (InvitationPage).

### Why the bounds are enough

- `Invitations`. Conflicts are between rows of one guest: different guests share
  no row, so one guest is the interesting case. Two hosts need three
  invitations: one old, one inserted by each. Two visitors give a visit against
  an open; the third process is always a host. The grant is one identifier that
  may be issued, used, expired, purged and issued again. `MaxTrack` bounds the
  requests tracked per invitation when they *start*, so the bound never stops a
  request half-way (which would hide a lost update); `InsertRoom` and `GrantRoom`
  do the same for fresh identifiers. A single run with two hosts, two visitors
  and grants is out of proportion; the two runs split by which side is doubled.
- `EmailDelivery`. Two senders show every pairwise overlap of the transaction
  and the delivery; two guests show per-guest numbering and a key sent for the
  wrong guest. `MaxBegins` bounds transactions; `HostRoom` keeps enough
  invitations for the send requests still to come. A guest counts one open per
  invitation, enough for READY, SENT and OPENED in each order.
- `Rsvp`. Two requests show every overlap; `MaxHistory` 3 allows accept, cancel,
  accept. `MaxCount` 1 gives the boundary cases 0 and 1 and, with adults and
  children, the sum 2.
- `WindowLimiter`. A whole window, its boundary and what follows, a limit of two
  so that "one left" and "none left" differ, three keys for two buckets.
  `MaxCalls` caps the admitted calls of a key at twice the limit, which is where
  the property would break.
- `EventRevisions`. Three saves after the seed, two of them at once, and both
  reads open while all of them happen.
- `GuestPanel`. The hazards are crossings of two handlers, so two run and two are
  started, after the load the page begins with. Three at once behave differently
  in one place only, `Outdated`, which the proof found and the run cannot reach;
  the proof covers any number.
  Two invitations give one to be replaced and its replacement. Handlers on two
  guests are only interesting for what the guests share, the lists and the
  dialogs, which the operations on links exercise.
- `GuestEdits`. Two requests overlap; at most one adult and child is enough for
  the counts, whose rules compare with zero, the maximum and the sum; `MCTyped` and
  `MCPartial`, the values of the constants `Typed` and `Partial`, hold an input
  for each branch of the schemas.
- `GuestList`. Two guests: counts 0, 1 and 2, any row against any other. The
  rows are the value `MCGuestRow` of the constant `GuestRow`.
- `ReadMarks`. Two tabs that overwrite each other, a guest who answers again.
- `AnswerPanel`. One request at a time is a property, not a bound. Two parties,
  one of each mode (`MCParties`), may replace each other at any time.
- `EventDraft`. Eight hours with the change of the clocks in the middle.
- `EventEditors`. Two saves, one update on its way: an update that crosses
  another is stale when it is served, and `FreshSavesStayNarrow` leaves it out.
- `MediaStage`. Four tasks per element: a play and a pause, each with its event,
  while earlier ones are still to be told.
- `InvitationPage`. Two languages, as the program has; there and back and there
  again.

Symmetry is declared on sets whose members only identify; the fair runs
(`LiveRequests`, `EmailLive`, `EmailStuck`) declare none. `CHECK_DEADLOCK FALSE`
appears where identifiers, instants, saves, handlers or answers run out: the
parts of `RsvpRequests`, `EventPages` and `HostPages`, and `EmailDelivery` and
`MediaRace`. The models in the invitation runs always have a next step.

### Fairness

- `Invitations!FairSpec`: strong fairness of each request's next statement.
  PostgreSQL serves a lock queue in order, so a statement that is possible again
  and again is executed although other requests keep taking the lock. Weak
  fairness of `BreakDeadlock`: `deadlock_timeout` expires. Nobody is assumed to
  start or fail.
- `EmailDelivery!FairSpec`: weak fairness of the steps of a request, of
  `Restart` (the service manager restarts the process) and of
  `FifteenMinutesPass`. In `EmailLive` the lock of a guest is handed over in
  BEGIN order and transactions are finitely many, so weak fairness is enough.
- `EmailGate!FairSpec`: weak fairness of `Resume` (microtasks run) and `Finish`
  (the provider's timeouts end every operation). `Enter` is not fair.

## 4. What is proved

Every theorem holds for any number of hosts, visitors, invitations, callers,
forms, readers, handlers, tabs, inputs and requests, under the named assumptions
of the modules: the sets that are counted are finite, bounds are natural
numbers, and `None` is no row, no answer and no number. The last is what SQL's
NULL and JavaScript's `null` are. `MCEventPages`, `MCHostPages` and
`MCRsvpRequests` assume of their parts what the parts' modules ask for, so TLC
evaluates it. One theorem has a hypothesis besides, `~BeginSkew`, which is named
with it.

The theorems about the parts of a composition are of its specification
(`PartsSpec`), because that is what the run checks, or of the part's own `Spec`
where the composition extends the part; each rests on an invariant of the part's
own `Next`.

**InvitationsProofs.** `InvitationsInv == TypeOK /\ LocksInv /\ RowsInv`.
`OneActivePerGuest` is not inductive alone: an insertion that commits with a
revocation is only safe because the revoked row is *still* the one its
transaction locked. So `LocksInv` says what a transaction with a pending
revocation holds (`HostShape`: the row is still active, and an activity that is
logged and not committed is of a row revoked by this transaction or before it),
that such locks exclude each other (`RowLocks`), and that a visitor past its
start has an invitation (`VisitorShape`). `RowsInv` adds to
the three stated properties `UnissuedSilent`: no activity of an invitation that
does not exist, without which the first insertion could leave a wrong log.
The step lemma has one lemma per action; all commits go through `CommitRows`,
`CommitActive` and `CommitKeeps`, all single-row updates through
`ActiveRowChanges`. From it: `InvitationsTyped`, `OneLinkPerGuest`,
`OpenedMeansCounted`, `AuditTrailMatches`, and the action property
`RevokedStaysFrozen`. `RegenerationsAreAtomic` (`RotationIsAtomic`) needs no more:
of the steps that end a regenerate request only the INSERT changes rows.
`InvitationsImplementLifecycle` is the refinement. `StepsOnRows` sorts the steps
by what they do to the rows: nothing, one UPDATE of a working row
(`UpdateIsLifecycle`: sent, opened or only counted), or a COMMIT
(`CommitIsLifecycle`: issue, rotate, withdraw or nothing). `OneActivePerGuest`
makes `LinkOf` the working link, whichever `CHOOSE` takes; a COMMIT that
revokes and inserts is a rotation only because both rows are of one guest, which
is the further invariant `OwnGuest`. `GrantsStayUsed` has an invariant of its own, `GrantLocks`:
no transaction closes a grant whose row a visitor holds, and a lookup under way
names no grant; together with `TypeOK` it is inductive.

**RsvpProofs.** `RsvpInv == TypeOK /\ TxShape /\ LockExclusive /\
HistoryEndsWithCurrent /\ CountsAreSound /\ ReadsStayTrue`. `ReadsStayTrue`
needs `LockExclusive` (nobody else can write between a read and the write), and
`CountsAreSound` needs `TxShape` (the party read is a party). `WritesStore`
shows that every write is `Store` of an answer with sound counts;
`AnswersChangeByStore` then gives `RsvpRevokedFreeze` and the refinement
`RsvpImplementsLog`: `Rsvp` implements `ResponseLog`. `RsvpAnswersSound` is the
invariant that the run checks, whole. What `Normalized` returns is a sound
answer for the party that it fits (`NormalizedIsSound`).

The limiter has an invariant of its own. `LimiterInv` bounds what was let
through and says nothing of the buckets it was counted in, so the next call could
find any count. `LimiterInd` relates the two: a bucket whose window is not over
stands for at least as many calls as it counts (`Spent`) and, unless a count of
its key was forgotten, for exactly those, with less than a limit in the window
before it (`Exact`); a key without such a bucket was let through less than a
limit within the last window (`Idle`). `PruneKeeps` is the lemma about the map:
what is kept are old buckets in order, the newest is among them because it was
not expired and the first ones go first, and while the map has room all that
are not expired are. `NewestBucketKept` needs only that. `LimiterTicks` is where a
window ends and its count becomes the count of the window before. For all
limits, windows, keys, instants and sizes: `LimiterIsSound`,
`CallsKeepTheirBucket`.

**EmailGateProofs.** `GateInv == TypeOK /\ QueueOfWaiting /\ SlotsCounted /\
WaitersOnlyWhenFull`. The limit follows from `SlotsCounted` (`active` is the
number of running callers, which with the resumed ones is at most `Limit`);
`QueueOfWaiting` (the queue lists exactly the waiting callers, once each) is
what makes the wake-up of `Finish` wake somebody.

**EmailDeliveryProofs.** `EmailInd == TypeOK /\ SenderShape /\ OneDeliverer /\
KeysDiffer /\ AttemptsIssued /\ CallsCounted /\ SentWasAccepted /\ Numbered`.
`OneCallPerKey` says nothing of the request that is about to call. So
`SenderShape` says what a request knows at each point: its attempt has its key
and the status that belongs to the point, and before the call the key has not
been used. `OneDeliverer` (the unique index on keys makes the attempt its own)
keeps another request from changing that, and `CallsCounted` gives it to a new
attempt. A rotation needs `~archived` until it commits, which the guest lock
gives; nobody delivers while the process is down, so `Restart` fails only
attempts without a deliverer. `RequestKeeps`, `OthersKeep`, `DeliveryKeeps` and
`AgeingKeeps` cover the steps that look alike; `CallProvider` and `Queue` have
lemmas of their own. From it `AttemptsTypedAndDense`, `ProviderCalledOnce`,
`SentIsTrue`, and with `AttemptsEvolve` (every step advances attempts or appends
one) the action properties `AttemptsAdvance` and `ArchivedGetNone`.

`OneDeliveryPerGuest` has the hypothesis `~BeginSkew`, without which `EmailSkew`
refutes it. `OrderInd == LockExclusive /\ StampsOrdered /\ OnlyLatestInProgress
/\ QuietRotation /\ OneInProgress`: the transaction with the lock began before
all that wait for it and after all that have committed for this guest; so the
attempt it finds by `created_at` is the last, and only the last can be in
progress (`NotBusyMeansQuiet`); and what it saw stays true until it queues.

**EventPagesProofs** is about the six parts of `MCEventPages`.
*Revisions.* `RevInv == TypeOK /\ LockExclusive /\ SaveShape /\ Dense
/\ LastRevisionIsCurrent /\ SavesNeverClash /\ ReadsForward`. The row lock makes
the number a transaction computed still the next one when it inserts
(`LockExclusive`), `SaveShape` makes what it inserts what it wrote, and `Dense`
(the numbers are `1..n` for `n` revisions) makes the new one the last.
`ReadsForward` speaks of reads that are not complete: what a read got first was
said by some revision, and what it got later is no older. One lemma covers the
steps of a save before its commit (`SaveKeeps`), one the commit (`InsertKeeps`),
one every step of a read (`ReadKeeps`). From it `RevisionsAgree`, all of
`RevisionsInv`.

*The form.* `DraftInd`: the draft holds what the contract's types allow, and the
time typed last is still what `localInputToIso` made of it. `TimesAreShown` then
is the lemma `InstantIsShown`: of every local time that the zone has, in any
length of day, three corrections find an instant that is shown as it.
`DraftSound` is that the readers' fallbacks agree whatever is typed.

*The editors.* `EditorsInd == EditorsTyped /\ NoneAhead /\ SendsAsLoaded /\
CleanMeansSaved /\ PreviewFollowsSaves`. The two stated parts say nothing of an
update on its way: `SendsAsLoaded` says that it returns as loaded whatever its
author has not edited, also after the dialog was closed or the page reloaded,
and `NoneAhead` that nobody holds a revision the server has not given, so that
equal revisions mean equal events. From it `EditorsSound` and, for the action of
serving an update, `SavesStayNarrow`.

*The panel that answers.* `PanelSound` and `FormsAreAccepted` carry over what
`AnswerPanelProofs` proves.

*The media.* `ControlsShowMedia` speaks of a page at rest. `StageInd` speaks of the
queues: unless presses crossed or a play was refused, the last task queued that
tells the page anything leads it to where the element is (`Agree`), an element
with nothing to tell is shown as it is (`Silent`), and music that is to play and
cannot yet has somebody waiting for it. `autoplay` needs a clause: a video that
starts by itself has told nothing yet. Taking a task from the front keeps `Agree`
because the last one stays, or was this one; appending keeps it because what is
appended is what the element now does. Hence `StageShowsMedia`, for any number
of queued tasks.

*The language.* `PageInd`: the page waits for the calendar of its own language or
for none (`CalendarFollows`), and for the cookie of the language picked last or
for none, unless cookies crossed (`CookieFollows`). `PageLanguage` is for any
number of picks between the two languages of the program, which `PageAssumption`
says of the constant: with three, a calendar that failed could leave one in a
language that is neither the page's nor the rendered one.

**AnswerPanelProofs.** `PanelInd == TypeOK /\ SentShape /\ OnlyOne /\ Locked /\
Agrees`. `PanelInv` says nothing of what a request carries, so its answer could
bring anything: `SentShape` says it was made from the answer and the party the
page holds (`MadeFromPage`), and `Locked` that neither changes while it is under
way. `Agrees` tells what the page shows from what is on its way to it.
`PanelAgrees` is the run's `PanelInv`, and `PanelIsNotRefused` its
`GoodFormsAreAccepted`: for parties and counts of any size, a form the page lets
through fits the party when it is served. Both suppose `PanelAssumption`, which
`MCEventPages` assumes of its instance.

**GuestPanelProofs.** `FreshWhenQuiet`, `HeldLinkWorks` and `DialogsInv` speak of
moments when nothing runs; `PanelIInv` speaks of what runs:

- `TypeOK`, `HandlerShape`: what a handler holds at each place it has reached. One
  that is not a bulk operation concerns one guest, and a request that was lost,
  carried out or not, has made its guest `unsure`.
- `NeverAhead`: no row, list, reply or dialog of the page knows of an invitation
  that the server does not have. Without it a late answer could bring back a
  newer link than the guest's.
- `Capacity`: requests on their way leave identifiers for each other, and a guest
  is added once.
- `DialogShape`, `BusyWhileRunning`, `OnePerDialog`: one dialog is open at a time,
  but for the preview, and one handler runs for each, but for the share dialog;
  of that one `ShareKept` shows that whoever holds it locked still runs.
- `LinksFollow`: of a guest nothing crossed, one handler at a time is under way,
  and the link the page holds, or will hold after the answer, works.
- `ConfirmationHolds`: a confirmation stays open while its handler runs, and what
  the server did stays done.
- `Ranked`, `ListsFollow`: lists are ranked in the order they were read. Of each
  guest a row that follows is on its way, or else what the page shows is the
  server's row, and every older list will be overruled.
- `LocaleKept`: the language to which a refused request returns is the server's.

Every action is first shown to be one of a few kinds of step (a press, a handler
that begins, is served, answered, loads or applies) with what the rest needs to
know of it, `StepIs`; each part of the invariant is then kept by every kind. The
theorems are `PanelIsSound` and the action property `ConfirmationsAreDone`.

The attempt to prove `ListsFollow` found a case that two handlers cannot reach
and the run therefore does not: see `Outdated` in section 6.

**HostPagesProofs** is about the parts of `MCHostPages`.

*Both panels.* `PanelsInd` is `PanelIInv` of the panel that steps: `DialogsSound`,
`PagesAtRestAreFresh`, `HeldLinksWork`.

*Edits.* `EditsInv` speaks of the stored row; an update that has merged its patch
and not yet written must be known too. `EditsInd`: the row passes the checks of
the table, and an update under way holds a guest that passes them and that
differs from the row it was read from only in the fields named, and those they
imply (`Narrow`). `AcceptedIsSound` is the layer between the contract and the
table, `StoredIsAccepted` and `ResentComesBack` the way back into the form.
`EditsSound` covers every input and every patch of the types that the schemas
check, not only the constants of the run.

*The list.* `ListInd`: rows are rows the database took. `FiltersAgree`,
`BadgesAgree`, `TextsFollowBadges`, `OffersAgree` and `ChannelsWork` are the parts
of `ListSound`, for any finite set of guests; they count by `FS_Difference` and
its like.

*Marks.* `MarksWereOpened`: every mark, in a tab or in the storage, was made by
opening that message. It is inductive, and gives `AnswersStayUnread`.

`StepsDoAsAsked` joins the action properties: `ConfirmationsAreDone`,
`PatchesAreNarrow` and `TicksStay`.

## 5. What is only model-checked

Liveness (`RequestsEnd`, `DeliveriesFinish`, `EveryWaiterRuns`): fairness is out
of the prover's reach. The refuted properties of section 6 are TLC's as well.
Every other property of a passing run is a theorem.

No property is about the sums of `GuestList` (`People`), defined by recursion on
the set of guests: what they add up to would need induction.

### Abstractions to know about

- An invitation's token, a name, a form are values that can only be compared.
  Hashing and prefix candidates reduce to "the token names its invitation".
- `revokeAccessGrants` locks its grants in one step, when all are free.
  PostgreSQL takes them one by one; a visitor holds at most one.
- The last write of a transaction is one step with COMMIT: nothing between the
  two can wait, and readers cannot see it.
- A page's request is served in one step, with the rules of the API; modules
  Invitations, Rsvp, EventRevisions and EmailDelivery take the request apart.
- Fields that are only copied are one field: `locale` in GuestPanel and
  GuestEdits, `rest` in EventEditors, the three texts in EventDraft.
- Rows of `EmailDelivery` change by whole requests, see section 2.
- `EmailRateLimiter` is a count of sends within a minute (`spent`) from which
  one drops out at any time; its list of timestamps is in the plan.
- The passing e-mail runs set `BeginSkew = FALSE`: transactions waiting for one
  guest get its lock in BEGIN order. This is the usual case, not a guarantee:
  `EmailSkew` shows what happens otherwise.

## 6. Where code and documents disagree

- `EmailSkew` / `OneInProgress`. `docs/email-delivery.md:38`: a second send is
  blocked "while the latest attempt is queued or sending". The latest attempt is
  found by `created_at`, which PostgreSQL's `now()` sets to the BEGIN of the
  transaction. A request that began first and got the guest lock second inserts
  an attempt that is in progress but not the latest; a third request sees the
  finished one and starts a second delivery.
- `EmailStuck` / `CrashedSendIsRecovered`. `docs/email-delivery.md:38`: startup
  recovery marks stale sending attempts "after 15 minutes". It runs only at
  startup, so an attempt less than 15 minutes old at the restart stays SENDING,
  and the guest's sends stay blocked, until some later restart. (An attempt left
  QUEUED is never recovered; the documents promise nothing for it.)
- `RsvpShrunk` / `AcceptedWithinParty`. `docs/architecture.md:70`: an accepted
  total is "no larger than the invited total". The guest row is not locked, so an
  answer checked against a party that the host shrinks meanwhile is committed.
- `MediaRace` / `PausedStaysQuiet`. `docs/architecture.md:82`: the stage "provides
  playback controls", of which the main one pauses everything. `toggleAllMedia`
  (`web/themed-invitation-stage.tsx:136`) waits for `video.play()` with
  `.catch(() => undefined)` and then starts the music. Pressed again while the
  video still loads, it pauses the video; that rejects the first press's promise,
  whose handler takes it for the end of its wait: the music starts after the
  pause.

Noticed while reading, without a run of their own:

- `docs/architecture.md:104` says an in-progress check keeps a concurrent
  request from rotating a link that is being handed off. Only *send* requests
  make that check: the host's regenerate and revoke do not, and the guest then
  receives a dead link.
- `docs/security.md:17` says creating an invitation for an archived guest is
  rejected. The guest is read before the insertion and not locked, so one
  archived in between gets an invitation (which does not work until a restore).
- `docs/security.md:25` says revoking an invitation revokes its grants. A lookup
  that matched before the revocation inserts its grant after it. The candidate
  query demands an active invitation too, so that grant opens nothing.
- `web/public-invitation.tsx:912` closes the menu through `event.currentTarget`
  after an await, when it is null already: a calendar file that was fetched is
  never saved, and the rejection is not caught.
- The thumbnail dialog and the editor send the whole event as they loaded it, so
  a save from an old copy takes back what another tab saved since. Nothing
  promises otherwise; `FreshSavesStayNarrow` says what does hold.
- `updateGuestLocale` (`web/host-guest-panel.tsx:376`) shows the language at once
  and, if the request fails, puts back the one it captured from the row it was
  pressed on. When another handler's answer was still on its way, or its list
  not yet applied, that row was old: the page then shows a language that nobody
  saved. `FreshWhenQuiet` leaves that guest out (`Outdated`).
- `shareBusy` (`web/host-guest-panel.tsx:601` to `622`) is one flag of
  `shareInvitation` and `performShareConfirmation`. Of two shares that overlap,
  the first to end clears it while the other runs, so its dialog can be
  cancelled or confirmed a second time; and the share of one guest disables the
  dialog of another. `DialogsInv` therefore demands a lock while the action runs
  of the other three dialogs only. Nothing promises otherwise.
- An update of a guest writes the whole row as it was read, so of two hosts that
  edit one guest the later takes back what the earlier changed meanwhile.
  Nothing promises otherwise; `PatchesStayNarrow` compares with the row that was
  read.
- A tab that marks a message as read overwrites the marks of other tabs in
  `localStorage`: those messages are unread again after a reload. Only the other
  direction is a property, `NewAnswersAreUnread`.
- `docs/security.md:83` says every valid private render counts as an open. A
  render counts a visit; an open is counted when the page asks for it.

## 7. What is not modelled

- **E-mail layout, dictionaries, presenters, escaping and folding of ICS**:
  formatting, of which no modelled rule depends.
- **Host authentication, CSRF guard, error envelope, configuration**: stateless,
  one comparison or one translation each. The proxy routes forward; the RSVP
  route's answer to a lost API is part of `AnswerPanel`.
- **Matching a lookup** (`findLookupMatch`): the choice of an invitation by name
  and contact is any choice; the normalisation of contacts is in `GuestEdits`.
- **Views that show what they loaded**: the dashboard but for its thumbnail
  dialog, the preview modal, the history of a guest's e-mails, the copied tick.
- **Of the guest's page**: muting, reduced motion, the download of the calendar
  file, sharing by the browser.
- **Seed and deployment**: run by an operator, idempotent by `ON CONFLICT`.
- **PostgreSQL, browsers and the mail provider** are external: modelled by the
  locks, indexes, events and answers the code relies on.

Hazards seen and left without a property of their own: an invitation created for
a guest who is archived meanwhile, a grant issued by a lookup that matched before
the revocation (both in section 6, both without effect until a restore), the
order of the answers' history by `created_at`, a send counted although it is
refused afterwards, an answer that stays with the revoked invitation after a
rotation, a new guest submitted twice by an impatient host.

## 8. Plan

Done: the API's transactions (InvitationRows, Invitations with LinkLifecycle,
EmailDelivery, EmailGate, Rsvp with ResponseLog, WindowLimiter, EventRevisions),
the rules of guests and events (RsvpRules, GuestEdits, GuestList, EventDraft), the
pages (GuestPanel, ReadMarks, EventEditors, AnswerPanel, MediaStage,
InvitationPage), and the proofs of section 4.

To extend the model:

1. `EmailRateLimiter`'s sliding window with its timestamps.
2. ICS folding and escaping, public event codes and `normalizeLookupName`, each
   against a reference definition.
3. Read models: the order of `rsvp_history` by `created_at` against the commit
   order; a composition of Invitations and Rsvp for the answers that stay with a
   revoked link after a rotation.
4. GuestPanel over the transactions of Invitations instead of atomic requests.

To prove:

5. `FreshWhenQuiet` with the exact guests a crossing spoils, instead of all that
   handlers crossed on.
6. An abstract specification of a delivery (queued, sending, sent or failed, at
   most one call of the provider) that EmailDelivery implements.
7. `AcceptedWithinParty` for behaviours in which no host shrinks a party.
