----------------------------- MODULE GuestList ------------------------------
(***************************************************************************)
(* What the host reads off the page of guests.  The server counts guests,  *)
(* answers and e-mails with queries of its own; the page filters, badges   *)
(* and selects the guests it loaded.  Nothing but care keeps them equal.   *)
(***************************************************************************)
EXTENDS Naturals, FiniteSets

CONSTANTS
    Guest,    \* guests of the event
    GuestRow, \* the rows a guest may have, each one the database accepts
    None

VARIABLES
    guests,   \* guests[g]: the loaded row, with its latest invitation
    selected, \* guests ticked for a bulk action
    event     \* what the e-mails depend on: the event and the provider

vars == <<guests, selected, event>>

(* A row: archived, channel, email, phone (has one), total (invited), and    *)
(* the latest invitation, or None: revoked, opens and its answer, or None.   *)
Channel == {"EMAIL", "SMS", "BOTH", "MANUAL"}
Status == {"ACCEPTED", "DECLINED", "NOT_SURE", "CANCELLED"}
Rsvp == [status : Status, attending : Nat, note : BOOLEAN, message : BOOLEAN]
Invitation == [revoked : BOOLEAN, opens : Nat, rsvp : Rsvp \cup {None}]
Row == [archived : BOOLEAN, channel : Channel, email : BOOLEAN, phone : BOOLEAN, total : Nat,
        invitation : Invitation \cup {None}]

(* guests_preferred_channel_contact_check                                  *)
ContactsFit(row) == CASE row.channel = "EMAIL" -> row.email
                      [] row.channel = "SMS" -> row.phone
                      [] row.channel = "BOTH" -> row.email /\ row.phone
                      [] row.channel = "MANUAL" -> ~row.email /\ ~row.phone

ListAssumption == /\ IsFiniteSet(Guest)
                  /\ GuestRow \subseteq Row
                  /\ \A row \in GuestRow : ContactsFit(row)

HasRsvp(row) == row.invitation # None /\ row.invitation.rsvp # None
Answered(row, status) == HasRsvp(row) /\ row.invitation.rsvp.status = status
Live(row) == row.invitation # None /\ ~row.invitation.revoked
-----------------------------------------------------------------------------
(* The server: notificationEligibilityForGuest, emailEligibility           *)
CanNotify(row) == \/ row.channel = "EMAIL" /\ row.email
                  \/ row.channel = "SMS" /\ row.phone
                  \/ row.channel = "BOTH" /\ row.email /\ row.phone
NotifyReason(row) == IF CanNotify(row) THEN "ELIGIBLE"
                     ELSE IF row.email \/ row.phone THEN "NOT_CONFIGURED" ELSE "NO_CONTACT"

EmailEligible(row, invitation, ev) ==
    /\ ~row.archived /\ row.email /\ row.channel \in {"EMAIL", "BOTH"}
    /\ ev.published /\ ev.provider

(* findActiveByGuest: the statistics look at the active invitation, the    *)
(* list at the latest one.                                                 *)
ActiveInvitation(row) == IF Live(row) THEN row.invitation ELSE None

HowMany(S, P(_)) == Cardinality({g \in S : P(g)})
People(S, size) == LET Up[T \in SUBSET S] ==
                           IF T = {} THEN 0
                           ELSE LET g == CHOOSE x \in T : TRUE IN size[g] + Up[T \ {g}]
                   IN  Up[S]

(* calculateGuestInvitationStatistics                                      *)
Statistics ==
    LET Present == {g \in Guest : ~guests[g].archived}
        Has(g) == Live(guests[g])
    IN  [totalGuests |-> Cardinality(Present),
         totalPeopleInvited |-> People(Present, [g \in Present |-> guests[g].total]),
         generated |-> HowMany(Present, Has),
         notGenerated |-> Cardinality(Present) - HowMany(Present, Has),
         opened |-> HowMany(Present, LAMBDA g : Has(g) /\ guests[g].invitation.opens > 0),
         notOpened |-> HowMany(Present, LAMBDA g : Has(g) /\ guests[g].invitation.opens = 0),
         revoked |-> HowMany(Present, LAMBDA g : guests[g].invitation # None /\ ~Has(g)),
         notContactable |-> HowMany(Present, LAMBDA g : ~CanNotify(guests[g]))]

(* eventResponses: an inner join of invitations and guests                 *)
EventResponses == {g \in Guest : Live(guests[g]) /\ ~guests[g].archived}

(* RsvpService.statistics                                                  *)
RsvpStatistics ==
    LET Count(status) == HowMany(EventResponses, LAMBDA g : Answered(guests[g], status)) IN
    [pending |-> HowMany(EventResponses, LAMBDA g : ~HasRsvp(guests[g])),
     accepted |-> Count("ACCEPTED"), declined |-> Count("DECLINED"),
     notSure |-> Count("NOT_SURE"), cancelled |-> Count("CANCELLED"),
     confirmedTotal |-> LET Coming == {g \in EventResponses : Answered(guests[g], "ACCEPTED")} IN
                        People(Coming, [g \in Coming |-> guests[g].invitation.rsvp.attending])]

(* EmailDeliveryService.statistics                                         *)
EligibleGuests ==
    HowMany(Guest, LAMBDA g : EmailEligible(guests[g], ActiveInvitation(guests[g]), event))
-----------------------------------------------------------------------------
(* The page: filters, badges and buttons                                   *)

Matches(filter, row) ==
    CASE filter = "without" -> ~row.archived /\ ~Live(row)
      [] filter = "notOpened" -> ~row.archived /\ Live(row) /\ row.invitation.opens = 0
      [] filter = "opened" ->
           ~row.archived /\ row.invitation # None /\ ~row.invitation.revoked
              /\ row.invitation.opens > 0
      [] filter = "cannotNotify" -> ~row.archived /\ ~CanNotify(row)
      [] filter = "pending" -> Live(row) /\ ~HasRsvp(row)
      [] filter = "accepted" -> Answered(row, "ACCEPTED")
      [] filter = "declined" -> Answered(row, "DECLINED")
      [] filter = "notSure" -> Answered(row, "NOT_SURE")
      [] filter = "cancelled" -> Answered(row, "CANCELLED")
      [] filter = "dietaryNotes" -> HasRsvp(row) /\ row.invitation.rsvp.note
      [] filter = "guestMessage" -> HasRsvp(row) /\ row.invitation.rsvp.message
      [] filter = "archived" -> row.archived
      [] filter = "all" -> ~row.archived
Filter == {"all", "without", "notOpened", "opened", "cannotNotify", "pending", "accepted",
           "declined", "notSure", "cancelled", "dietaryNotes", "guestMessage", "archived"}
Filtered(filter) == {g \in Guest : Matches(filter, guests[g])}

StatusBadge_AnswerFirst(row) ==
    IF row.archived THEN "archived"
    ELSE IF HasRsvp(row) THEN row.invitation.rsvp.status
    ELSE IF row.invitation = None THEN "notCreated"
    ELSE IF row.invitation.revoked THEN "revoked"
    ELSE IF row.invitation.opens > 0 THEN "opened" ELSE "ready"
StatusBadge(row) ==
    IF row.archived THEN "archived"
    ELSE IF row.invitation = None THEN "notCreated"
    ELSE IF row.invitation.revoked THEN "revoked"
    ELSE IF HasRsvp(row) THEN row.invitation.rsvp.status
    ELSE IF row.invitation.opens > 0 THEN "opened" ELSE "ready"

(* guestStatusText, the same in the summary of the edit form               *)
GuestStatusText(row) ==
    CASE row.archived -> "archived"
      [] ~row.archived /\ row.invitation # None /\ row.invitation.revoked -> "revoked"
      [] ~row.archived /\ Live(row) /\ HasRsvp(row) -> row.invitation.rsvp.status
      [] ~row.archived /\ Live(row) /\ ~HasRsvp(row) ->
           IF row.invitation.opens > 0 THEN "opened" ELSE "ready"
      [] OTHER -> "notCreated"

(* The eighth box of StatisticsGrid turns red.                             *)
StatisticsGrid == [numbers |-> Statistics, alarm |-> Statistics.notContactable > 0]

(* ContactDeliverySummary: which channel buttons are lit, and which work.  *)
Preferred(row) == (IF row.channel \in {"EMAIL", "BOTH"} THEN {"email"} ELSE {})
                      \cup IF row.channel \in {"SMS", "BOTH"} THEN {"phone"} ELSE {}
Available(row) == (IF row.email THEN {"email"} ELSE {})
                      \cup IF row.phone THEN {"phone"} ELSE {}

(* GuestEditSummary and GuestCard show the same row.                       *)
Shown(row) == [badge |-> StatusBadge(row), text |-> GuestStatusText(row)]
-----------------------------------------------------------------------------
Init == /\ guests \in [Guest -> GuestRow]
        /\ selected = {}
        /\ event \in [published : BOOLEAN, provider : BOOLEAN]

(* load: the rows are replaced, the ticks stay.                            *)
Load(g, row) == guests' = [guests EXCEPT ![g] = row] /\ UNCHANGED <<selected, event>>

ToggleGuest(g, filter) ==
    /\ g \in Filtered(filter)
    /\ selected' = (selected \ {g}) \cup ({g} \ selected)
    /\ UNCHANGED <<guests, event>>

AllVisibleSelected(filter) == Filtered(filter) # {} /\ Filtered(filter) \subseteq selected

ToggleVisible(filter) ==
    /\ selected' = IF AllVisibleSelected(filter) THEN selected \ Filtered(filter)
                   ELSE selected \cup Filtered(filter)
    /\ UNCHANGED <<guests, event>>

ClearSelection == selected # {} /\ selected' = {} /\ UNCHANGED <<guests, event>>

Next == \/ \E g \in Guest, row \in GuestRow : Load(g, row)
        \/ \E filter \in Filter : ToggleVisible(filter) \/ \E g \in Guest : ToggleGuest(g, filter)
        \/ ClearSelection

Spec == Init /\ [][Next]_vars
-----------------------------------------------------------------------------
(* Properties                                                              *)

(* The numbers the server counts are those of the page's filters, and its  *)
(* three invitation filters split the guests that are not archived.        *)
StatisticsMatchFilters ==
    /\ Statistics.totalGuests = Cardinality(Filtered("all"))
    /\ Statistics.notGenerated = Cardinality(Filtered("without"))
    /\ Statistics.opened = Cardinality(Filtered("opened"))
    /\ Statistics.notOpened = Cardinality(Filtered("notOpened"))
    /\ StatisticsGrid.alarm <=> Filtered("cannotNotify") # {}
    /\ Filtered("all") = Filtered("without") \cup Filtered("opened") \cup Filtered("notOpened")

(* The counts of answers are those of the badges: archived guests and      *)
(* revoked invitations take no part in either.                             *)
AnswersMatchBadges ==
    LET Badges(labels) == HowMany(Guest, LAMBDA g : StatusBadge(guests[g]) \in labels) IN
    /\ RsvpStatistics.accepted = Badges({"ACCEPTED"})
    /\ RsvpStatistics.declined = Badges({"DECLINED"})
    /\ RsvpStatistics.notSure = Badges({"NOT_SURE"})
    /\ RsvpStatistics.cancelled = Badges({"CANCELLED"})
    /\ RsvpStatistics.pending = Badges({"opened", "ready"})
    /\ Statistics.revoked = Badges({"revoked"})

(* The list and the form say the same of a guest.                          *)
BadgeMatchesText == \A g \in Guest : Shown(guests[g]).badge = Shown(guests[g]).text

(* As many guests are counted as eligible as the list offers an e-mail to. *)
EligibleAsOffered ==
    EligibleGuests
        = HowMany(Guest, LAMBDA g : EmailEligible(guests[g], guests[g].invitation, event))

(* Of a guest the database accepted, every preferred channel works, and    *)
(* only guests without any contact cannot be notified.                     *)
PreferredChannelsWork ==
    \A g \in Guest : /\ Preferred(guests[g]) \subseteq Available(guests[g])
                     /\ CanNotify(guests[g]) <=> Preferred(guests[g]) # {}
                     /\ NotifyReason(guests[g]) # "NOT_CONFIGURED"

(* Ticking or clearing the visible guests leaves the ticks of guests that  *)
(* the filter hides, which a bulk action would still reach.                *)
HiddenTicksStay ==
    [][selected' # selected =>
          \A filter \in Filter :
             ToggleVisible(filter) => selected' \ Filtered(filter) = selected \ Filtered(filter)]_vars

(* The server's numbers, the filters, the badges and the offers, each      *)
(* computed by code of its own, agree about the same guests.               *)
ListInv == /\ StatisticsMatchFilters /\ AnswersMatchBadges /\ BadgeMatchesText
           /\ EligibleAsOffered /\ PreferredChannelsWork
=============================================================================
