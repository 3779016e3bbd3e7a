----------------------------- MODULE EventDraft -----------------------------
(***************************************************************************)
(* The form of an event, and what is made of it: which drafts the contract *)
(* accepts, what they become in the database, and what the pages, the maps *)
(* and the calendars of guests show of them.  The database checks and the  *)
(* readers fall back each on its own, so they have to agree.               *)
(*                                                                         *)
(* Times are hours.  A behaviour works in one section of the form, as the  *)
(* rules of one section never refer to another's.  Texts are never blank:  *)
(* the form turns those into null.                                         *)
(***************************************************************************)
EXTENDS Integers

CONSTANTS
    MaxHour,  \* bound: hours around the change of the clocks
    None

DraftAssumption == MaxHour \in Nat /\ None \notin {"configured", "google", "apple"}

VARIABLES
    section,  \* the section of the form the host works in
    draft,    \* the form
    typed     \* the last time typed, until the zone changes, or None

vars == <<section, draft, typed>>

Language == {"en-US", "es-MX"}
Zone == {"fixed", "spring", "fall"}
Text == {"some", None}
Texts == [venue : Text, message : Text, arrival : Text]

(* The moment the clocks change, and what a zone adds to UTC.              *)
Change == 4
Offset(zone, utc) == CASE zone = "fixed" -> -2
                       [] zone = "spring" -> IF utc < Change THEN -2 ELSE -1
                       [] zone = "fall" -> IF utc < Change THEN -1 ELSE -2

(* isoToLocalInput                                                         *)
Shown(utc, zone) == utc + Offset(zone, utc)

(* localInputToIso: the guess moves by what it misses, three times.        *)
Nearer(guess, local, zone) == guess + local - Shown(guess, zone)
Instant_OneStep(local, zone) == Nearer(local, local, zone)
Instant(local, zone) ==
    Nearer(Nearer(Nearer(local, local, zone), local, zone), local, zone)

Hour == 0..MaxHour
Times == {"start", "end", "deadline"}
-----------------------------------------------------------------------------
(* What the contract accepts: updateHostEventInputSchema                   *)

Accepted_LonelyCoordinate(d) ==
    /\ d.end # None => d.end > d.start
    /\ d.deadline # None => d.deadline <= d.start
    /\ d.animated <=> d.animation # "NONE"
    /\ d.music => d.audio # None
Accepted(d) ==
    /\ d.end # None => d.end > d.start
    /\ d.latitude = None <=> d.longitude = None
    /\ d.deadline # None => d.deadline <= d.start
    /\ d.animated <=> d.animation # "NONE"
    /\ d.music => d.audio # None

(* updateEvent, upsertLocalizations: the row of the event also carries the *)
(* texts of its default language.                                          *)
Stored(d) ==
    [row |-> [d EXCEPT !.texts = d.texts[d.locale]], local |-> d.texts]

(* The checks of the table.                                                *)
EventChecks(row) ==
    /\ row.end # None => row.end > row.start
    /\ row.latitude = None <=> row.longitude = None

(* hostEventDetailSchema: the form of a stored event.                      *)
Loaded(s) == [s.row EXCEPT !.texts = s.local]
-----------------------------------------------------------------------------
(* What is shown of a stored event                                         *)

Or(text, fallback) == IF text # None THEN text ELSE fallback

(* localization of the presenter, then PublicInvitation's own fallback to  *)
(* the default language; there an arrival text falls back as well.         *)
Presented(s, l) ==
    [venue |-> Or(s.local[l].venue, s.row.texts.venue),
     message |-> Or(s.local[l].message, s.row.texts.message),
     arrival |-> s.local[l].arrival]
PageTexts(s, l) ==
    LET own == Presented(s, l)
        default == Presented(s, s.row.locale)
    IN  [venue |-> Or(own.venue, default.venue),
         message |-> Or(own.message, default.message),
         arrival |-> Or(own.arrival, default.arrival)]

(* buildCalendarEvent, createIcs                                           *)
CalendarTexts(s, l) ==
    [venue |-> Or(s.local[l].venue, s.row.texts.venue),
     message |-> Or(s.local[l].message, s.row.texts.message),
     arrival |-> s.local[l].arrival]
IcsTexts(s, l) == CalendarTexts(s, l)
ProviderEnd(row) == IF row.end # None THEN row.end ELSE row.start + 2

(* buildMapLinks, as the kinds of link it offers; {} for null.             *)
Coordinates(row) == row.latitude # None /\ row.longitude # None
MapLinks(row) ==
    (IF row.maps # None THEN {"configured"} ELSE {})
    \cup (IF Coordinates(row) \/ row.address = "complete" THEN {"google", "apple"} ELSE {})

(* MapActions, EmbeddedMap: the first link of the three.                   *)
PrimaryLink(links) ==
    IF "configured" \in links THEN "configured"
    ELSE IF "google" \in links THEN "google"
    ELSE IF "apple" \in links THEN "apple" ELSE None
ProviderMenu(links) == links \cap {"google", "apple"}
EmbedsMap(row) == MapLinks(row) # {} /\ row.address # None

(* toHostSummary *)
Readiness(row) ==
    [location |-> Coordinates(row) \/ row.address = "complete",
     schedule |-> TRUE]

(* presentInvitationPresentation                                           *)
Presentation(row) ==
    [animated |-> row.animated /\ row.animation # "NONE",
     audio |-> IF row.music THEN row.audio ELSE None]
-----------------------------------------------------------------------------
(* The host at the form                                                    *)

NewDraft == [start |-> 3, end |-> None, deadline |-> None, zone |-> "fixed",
             locale |-> "en-US",
             texts |-> [l \in Language |-> [venue |-> None, message |-> None, arrival |-> None]],
             address |-> None, latitude |-> None, longitude |-> None, maps |-> None,
             animated |-> FALSE, animation |-> "NONE", music |-> FALSE, audio |-> None]

Init == /\ section \in {"texts", "times", "place", "template"}
        /\ draft = NewDraft
        /\ typed = None

In(s) == section = s /\ UNCHANGED section
Edit(new) == draft' = new
Keep == UNCHANGED typed

TypeTime(field, local) ==
    /\ In("times")
    /\ Edit([draft EXCEPT ![field] = Instant(local, draft.zone)])
    /\ typed' = [field |-> field, local |-> local]
ClearTime(field) ==
    /\ In("times") /\ field # "start"
    /\ Edit([draft EXCEPT ![field] = None])
    /\ typed' = None
TypeZone(zone) ==
    /\ In("times")
    /\ Edit([draft EXCEPT !.zone = zone])
    /\ typed' = None

TypeText(l, kind, text) ==
    /\ In("texts")
    /\ Edit([draft EXCEPT !.texts[l] = [@ EXCEPT ![kind] = text]])
    /\ Keep
PickLocale(l) == In("texts") /\ Edit([draft EXCEPT !.locale = l]) /\ Keep

(* The address fields, complete with a street, a city and a country.       *)
TypeAddress(address) ==
    In("place") /\ Edit([draft EXCEPT !.address = address]) /\ Keep
TypeCoordinate(field, value) ==
    In("place") /\ Edit([draft EXCEPT ![field] = value]) /\ Keep
TypeMapsUrl(url) == In("place") /\ Edit([draft EXCEPT !.maps = url]) /\ Keep

ToggleAnimation ==
    /\ In("template")
    /\ Edit([draft EXCEPT
            !.animated = ~@,
            !.animation = IF draft.animated THEN "NONE"
                          ELSE IF @ = "NONE" THEN "SUBTLE" ELSE @])
    /\ Keep
PickAnimation(mode) ==
    In("template") /\ Edit([draft EXCEPT !.animation = mode]) /\ Keep
ToggleMusic == In("template") /\ Edit([draft EXCEPT !.music = ~@]) /\ Keep
TypeAudio(audio) == In("template") /\ Edit([draft EXCEPT !.audio = audio]) /\ Keep

(* A save that is accepted, and the form it comes back as.                 *)
SaveForm == /\ Accepted(draft)
            /\ draft' = Loaded(Stored(draft))
            /\ UNCHANGED <<section, typed>>

Next == \/ \E field \in Times : ClearTime(field) \/ \E local \in Hour : TypeTime(field, local)
        \/ \E zone \in Zone : TypeZone(zone)
        \/ \E l \in Language, text \in Text :
             \E kind \in {"venue", "message", "arrival"} : TypeText(l, kind, text)
        \/ \E l \in Language : PickLocale(l)
        \/ \E address \in {None, "partial", "complete"} : TypeAddress(address)
        \/ \E value \in Text :
             \/ TypeCoordinate("latitude", value) \/ TypeCoordinate("longitude", value)
             \/ TypeMapsUrl(value) \/ TypeAudio(value)
        \/ \E mode \in {"NONE", "SUBTLE", "IMMERSIVE"} : PickAnimation(mode)
        \/ ToggleAnimation \/ ToggleMusic \/ SaveForm

Spec == Init /\ [][Next]_vars
-----------------------------------------------------------------------------
(* Properties                                                              *)

(* An update the contract accepts never fails a check of the table, and    *)
(* providers that need an end never get one before the start.              *)
EventChecksNeverFire ==
    Accepted(draft) => LET row == Stored(draft).row
                       IN  EventChecks(row) /\ ProviderEnd(row) > row.start

(* Any local time that exists in the zone is stored as an instant that is  *)
(* shown as that time again, on both sides of a change of the clocks.      *)
Exists(local, zone) == \E utc \in -4..(MaxHour + 4) : Shown(utc, zone) = local
TypedTimeIsShown ==
    typed # None /\ Exists(typed.local, draft.zone) =>
        Shown(draft[typed.field], draft.zone) = typed.local

(* The page of a guest, the calendar links and the calendar file name the  *)
(* same venue and message in every language, though each has a fallback of *)
(* its own; and the form is loaded again as it was saved.                  *)
TextsAgree ==
    Accepted(draft) =>
        LET s == Stored(draft) IN
        \A l \in Language :
            /\ PageTexts(s, l).venue = CalendarTexts(s, l).venue
            /\ PageTexts(s, l).message = CalendarTexts(s, l).message
            /\ IcsTexts(s, l) = CalendarTexts(s, l)
            /\ Loaded(s) = draft

(* "Location complete" on the dashboard is exactly when guests get links   *)
(* to map providers, and whoever gets any link gets a primary one.         *)
PlacesAgree ==
    Accepted(draft) =>
        LET row == Stored(draft).row
            links == MapLinks(row)
        IN  /\ Readiness(row).location <=> ProviderMenu(links) # {}
            /\ links # {} => PrimaryLink(links) # None
            /\ EmbedsMap(row) => PrimaryLink(links) # None

(* A saved form that says the invitation moves, or has music, is what      *)
(* guests get, whichever switches and modes were picked before.            *)
SwitchesReachGuests ==
    Accepted(draft) => /\ Presentation(draft).animated = draft.animated
                       /\ draft.music => Presentation(draft).audio # None

(* What the host saves in the form is accepted by the database and told to *)
(* guests alike by everything that reads it.                               *)
DraftInv == EventChecksNeverFire /\ TextsAgree /\ PlacesAgree /\ SwitchesReachGuests
=============================================================================
