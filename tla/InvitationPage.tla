--------------------------- MODULE InvitationPage ---------------------------
(***************************************************************************)
(* A guest's page in two languages.  Picking one changes the page at once, *)
(* asks for the calendar in it and, on its own, for a cookie from which    *)
(* the next load of the page takes its language.  Answers come in any      *)
(* order, or not at all.                                                   *)
(***************************************************************************)
EXTENDS Naturals

CONSTANTS
    Locale,     \* languages of the texts
    MaxPicks,   \* bound: languages picked on one page
    None

(* en-US and es-MX: of any three languages two are the same.               *)
PageAssumption == /\ MaxPicks \in Nat /\ None \notin Locale
                  /\ \A a, b, c \in Locale : a = b \/ a = c \/ b = c

VARIABLES
    page,      \* PublicInvitation
    calendars, \* calendars the page waits for, by language
    cookies,   \* cookies asked for and not set yet, by language
    cookie,    \* the cookie of the browser, or None
    unsure     \* history: two cookies were on their way, or one was lost

vars == <<page, calendars, cookies, cookie, unsure>>

(* own is the language of the guest, in which the calendar is rendered.    *)
Page == [own : Locale, locale : Locale, calendar : Locale, failed : BOOLEAN,
         phase : {"closed", "summary", "full"}, preview : BOOLEAN,
         tracked : BOOLEAN, picks : 0..MaxPicks]

(* resolveLocalePreference: the cookie, or the language of the guest, who  *)
(* always has one.  A host's preview starts in the language it was         *)
(* rendered for.                                                           *)
Resolved(own) == IF cookie # None THEN cookie ELSE own
Rendered(own, preview) ==
    [own |-> own, locale |-> IF preview THEN own ELSE Resolved(own), calendar |-> own,
     failed |-> FALSE, phase |-> "closed", preview |-> preview, tracked |-> FALSE, picks |-> 0]

(* useEffect: the rendered calendar serves its language and the preview;   *)
(* another one is fetched.                                                 *)
OwnCalendar(locale) == page.preview \/ locale = page.own
Wanted(locale, own, preview) == IF preview \/ locale = own THEN {} ELSE {locale}

Init == /\ cookie \in Locale \cup {None}
        /\ \E own \in Locale, preview \in BOOLEAN : page = Rendered(own, preview)
        /\ calendars = Wanted(page.locale, page.own, page.preview)
        /\ cookies = {} /\ unsure = FALSE

(* The page is loaded again, with the cookie the browser has by then.      *)
Load == /\ page' = Rendered(page.own, page.preview)
        /\ calendars' = Wanted(page'.locale, page.own, page.preview)
        /\ UNCHANGED <<cookies, cookie, unsure>>
-----------------------------------------------------------------------------
(* The effect's cleanup aborts what it asked for before.                   *)
Aborted_Never(waiting) == waiting
Aborted(waiting) == {}

(* selectLocale, and the effect on the language.                           *)
SelectLocale(locale) ==
    /\ locale # page.locale /\ page.picks < MaxPicks
    /\ page' = [page EXCEPT !.locale = locale, !.failed = FALSE, !.picks = @ + 1,
                            !.calendar = IF OwnCalendar(locale) THEN page.own ELSE @]
    /\ calendars' = Aborted(calendars) \cup Wanted(locale, page.own, page.preview)
    /\ cookies' = cookies \cup {locale}
    /\ unsure' = (unsure \/ cookies # {})
    /\ UNCHANGED cookie

CalendarArrives(locale) == /\ locale \in calendars
                           /\ page' = [page EXCEPT !.calendar = locale]
                           /\ calendars' = calendars \ {locale}
                           /\ UNCHANGED <<cookies, cookie, unsure>>
CalendarFails(locale) == /\ locale \in calendars
                         /\ page' = [page EXCEPT !.failed = TRUE]
                         /\ calendars' = calendars \ {locale}
                         /\ UNCHANGED <<cookies, cookie, unsure>>

(* The route that sets the cookie.                                         *)
CookieSet(locale) == /\ locale \in cookies
                     /\ cookie' = locale /\ cookies' = cookies \ {locale}
                     /\ UNCHANGED <<page, calendars, unsure>>
CookieLost(locale) == /\ locale \in cookies
                      /\ cookies' = cookies \ {locale} /\ unsure' = TRUE
                      /\ UNCHANGED <<page, calendars, cookie>>

(* revealInvitation counts the opening once, and never a preview.          *)
RevealInvitation ==
    /\ page.phase = "closed"
    /\ page' = [page EXCEPT !.phase = "summary", !.tracked = ~page.preview]
    /\ UNCHANGED <<calendars, cookies, cookie, unsure>>
Turn == /\ page.phase # "closed"
        /\ page' = [page EXCEPT !.phase = IF @ = "full" THEN "summary" ELSE "full"]
        /\ UNCHANGED <<calendars, cookies, cookie, unsure>>

Next == \/ Load \/ RevealInvitation \/ Turn
        \/ \E locale \in Locale : \/ SelectLocale(locale)
                                  \/ CalendarArrives(locale) \/ CalendarFails(locale)
                                  \/ CookieSet(locale) \/ CookieLost(locale)

Spec == Init /\ [][Next]_vars
-----------------------------------------------------------------------------
(* Properties                                                              *)

(* At rest the calendar is in the language of the page, however often it   *)
(* was changed and whatever came late, or as rendered when its request     *)
(* failed; and unless cookies crossed or were lost, the next load of the   *)
(* page is in the language the guest picked last.                          *)
LanguageIsKept ==
    /\ calendars = {} /\ ~page.preview =>
           page.calendar = IF page.failed THEN page.own ELSE page.locale
    /\ cookies = {} /\ ~unsure /\ ~page.preview /\ page.picks > 0 => Resolved(page.own) = page.locale
=============================================================================
