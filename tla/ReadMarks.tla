----------------------------- MODULE ReadMarks ------------------------------
(***************************************************************************)
(* Which of the guests' messages the host has read.  The marks live in the *)
(* browser: each tab of the page keeps a set and writes it to the storage  *)
(* the tabs share.  A mark names the guest and the moment of the answer.   *)
(***************************************************************************)
EXTENDS Naturals

CONSTANTS
    Guest,    \* guests with an invitation
    Tab,      \* tabs with the page open
    MaxAnswer \* bound: answers a guest sends

VARIABLES
    answer,   \* answer[g]: the number of g's newest answer at the server, 0 for none
    list,     \* list[t][g]: the answer the tab loaded
    marks,    \* marks[t]: the marks the tab holds
    storage,  \* the marks in localStorage
    asked,    \* asked[t]: details on their way
    detail,   \* detail[t]: the guest and answer of the open dialog, or {}
    opened    \* history: the messages the host ever opened

vars == <<answer, list, marks, storage, asked, detail, opened>>

Mark == Guest \X (1..MaxAnswer)

(* rsvpReadKey, rsvpUnread                                                 *)
ReadKey_GuestOnly(t, g) == <<g, 1>>
ReadKey(t, g) == <<g, list[t][g]>>
Unread(t, g) == list[t][g] # 0 /\ ReadKey(t, g) \notin marks[t]

Init == /\ answer = [g \in Guest |-> 0]
        /\ list = [t \in Tab |-> answer]
        /\ marks = [t \in Tab |-> {}] /\ storage = {}
        /\ asked = [t \in Tab |-> {}] /\ detail = [t \in Tab |-> {}]
        /\ opened = {}

(* A guest answers, with a message, as RsvpService stores it.              *)
Answer(g) == /\ answer[g] < MaxAnswer
             /\ answer' = [answer EXCEPT ![g] = @ + 1]
             /\ UNCHANGED <<list, marks, storage, asked, detail, opened>>

(* The page is opened or loaded again; opening it reads the storage.       *)
Load(t) == /\ list' = [list EXCEPT ![t] = answer]
           /\ UNCHANGED <<answer, marks, storage, asked, detail, opened>>
Reopen(t) == /\ list' = [list EXCEPT ![t] = answer]
             /\ marks' = [marks EXCEPT ![t] = storage]
             /\ asked' = [asked EXCEPT ![t] = {}] /\ detail' = [detail EXCEPT ![t] = {}]
             /\ UNCHANGED <<answer, storage, opened>>

(* openGuestMessage: marked at once, before the detail is there; writing   *)
(* the tab's marks drops those another tab wrote since.                    *)
OpenMessage(t, g) ==
    /\ detail[t] = {} /\ list[t][g] # 0
    /\ marks' = [marks EXCEPT ![t] = @ \cup {ReadKey(t, g)}]
    /\ storage' = marks[t] \cup {ReadKey(t, g)}
    /\ asked' = [asked EXCEPT ![t] = @ \cup {g}]
    /\ opened' = opened \cup {<<g, list[t][g]>>}
    /\ UNCHANGED <<answer, list, detail>>

(* showRsvp: the newest answer, or a failure; the last to arrive is shown. *)
ShowDetail(t, g) == /\ g \in asked[t]
                    /\ asked' = [asked EXCEPT ![t] = @ \ {g}]
                    /\ detail' = [detail EXCEPT ![t] = {<<g, answer[g]>>}]
                    /\ UNCHANGED <<answer, list, marks, storage, opened>>
DetailFails(t, g) == /\ g \in asked[t]
                     /\ asked' = [asked EXCEPT ![t] = @ \ {g}]
                     /\ UNCHANGED <<answer, list, marks, storage, detail, opened>>
CloseDetail(t) == /\ detail[t] # {}
                  /\ detail' = [detail EXCEPT ![t] = {}]
                  /\ UNCHANGED <<answer, list, marks, storage, asked, opened>>

Next == \/ \E g \in Guest : Answer(g)
        \/ \E t \in Tab : \/ Load(t) \/ Reopen(t) \/ CloseDetail(t)
                          \/ \E g \in Guest : \/ OpenMessage(t, g) \/ ShowDetail(t, g)
                                              \/ DetailFails(t, g)

Spec == Init /\ [][Next]_vars
-----------------------------------------------------------------------------
(* Properties                                                              *)

(* An answer nobody opened is shown as unread in every tab that lists it,  *)
(* also when an earlier answer of the guest was read, and whatever the     *)
(* tabs wrote over each other.                                             *)
NewAnswersAreUnread ==
    \A t \in Tab, g \in Guest :
        list[t][g] # 0 /\ <<g, list[t][g]>> \notin opened => Unread(t, g)
=============================================================================
