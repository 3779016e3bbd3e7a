---------------------------- MODULE MediaStage -----------------------------
(***************************************************************************)
(* The video and the music behind a private invitation.  The browser plays *)
(* and pauses the two elements and tells the page by events and by the     *)
(* promises that play() returned, in tasks of their own, one queue for     *)
(* each element.  What the controls show is a copy the handlers keep.      *)
(*                                                                         *)
(* The elements are external: they do what HTML says of play() and         *)
(* pause().  Muting and where the video stands change nothing here.        *)
(***************************************************************************)
EXTENDS Naturals, Sequences

CONSTANTS
    MaxTasks  \* bound: tasks an element has queued

VARIABLES
    unlocked,     \* mediaUnlocked: the guest has opened the invitation
    media,        \* media[m]: the element, as the browser has it
    videoPaused,  \* what the page shows
    audioPlaying,
    wanted,       \* history: "pause" since the main control paused everything
    crossed,      \* history: the video was paused while its play() was pending
    refused       \* history: the browser refused, or a source failed

vars == <<unlocked, media, videoPaused, audioPlaying, wanted, crossed, refused>>

Medium == {"video", "audio"}

(* What waits for a play(): toggleVideo and replayVideo, toggleAllMedia,   *)
(* playAudio.                                                              *)
Waiting == {"video", "all", "audio"}
Task == [event : {"play", "pause", "playing"}, settles : SUBSET Waiting, ok : BOOLEAN]

(* autoplay is the element's autoplaying flag; waiting, its pending play   *)
(* promises.                                                               *)
Element == [paused : BOOLEAN, ready : BOOLEAN, autoplay : BOOLEAN, failed : BOOLEAN,
            waiting : SUBSET Waiting, tasks : Seq(Task)]

Fresh(autoplay) == [paused |-> TRUE, ready |-> FALSE, autoplay |-> autoplay,
                    failed |-> FALSE, waiting |-> {}, tasks |-> <<>>]

Init == /\ unlocked = FALSE
        /\ media = [m \in Medium |-> Fresh(m = "video")]
        /\ videoPaused = FALSE /\ audioPlaying = FALSE
        /\ wanted = "play" /\ crossed = FALSE /\ refused = FALSE
-----------------------------------------------------------------------------
(* The elements                                                            *)

Queued(el, event, settles, ok) ==
    [el EXCEPT !.tasks = Append(@, [event |-> event, settles |-> settles, ok |-> ok])]

(* play() waits until it plays; a browser may refuse it, which changes      *)
(* nothing, unless the element plays already.                              *)
Playing(el, handler) ==
    LET called == [el EXCEPT !.paused = FALSE, !.autoplay = FALSE,
                             !.waiting = @ \cup {handler}]
        told == IF el.paused THEN Queued(called, "play", {}, TRUE) ELSE called
    IN IF el.ready THEN Queued([told EXCEPT !.waiting = {}], "playing", told.waiting, TRUE)
       ELSE told

(* pause() rejects what waits, together with the event.                    *)
Paused(el) ==
    IF el.paused THEN [el EXCEPT !.autoplay = FALSE]
    ELSE Queued([el EXCEPT !.paused = TRUE, !.autoplay = FALSE, !.waiting = {}],
                "pause", el.waiting, FALSE)

Room(m) == Len(media[m].tasks) + 2 <= MaxTasks
Sounds(m) == ~media[m].paused /\ ~media[m].failed
-----------------------------------------------------------------------------
(* ThemedInvitationStage                                                   *)

(* playAudio, with the elements as els; playing is what the page shows,    *)
(* and denied whether the video was refused before.                        *)
PlayAudio(els, playing, denied) ==
    \/ /\ ~els["audio"].failed
       /\ media' = [els EXCEPT !["audio"] = Playing(@, "audio")]
       /\ audioPlaying' = playing /\ refused' = (refused \/ denied)
    \/ /\ els["audio"].failed \/ els["audio"].paused
       /\ media' = els /\ audioPlaying' = FALSE /\ refused' = TRUE

(* revealInvitation unlocks the music with the gesture that opens, and the *)
(* controls appear.                                                        *)
Unlock == /\ ~unlocked /\ Room("audio") /\ unlocked' = TRUE
          /\ PlayAudio(media, audioPlaying, FALSE)
          /\ UNCHANGED <<videoPaused, wanted, crossed>>

(* video.play() of toggleVideo and replayVideo: refused or not, they go on *)
(* to say that it plays.                                                   *)
PlayVideo ==
    /\ wanted' = "play"
    /\ \/ /\ media' = [media EXCEPT !["video"] = Playing(@, "video")]
          /\ UNCHANGED <<videoPaused, refused>>
       \/ /\ media["video"].paused /\ UNCHANGED media
          /\ videoPaused' = FALSE /\ refused' = TRUE
    /\ UNCHANGED <<audioPlaying, crossed>>

PauseVideo == /\ media' = [media EXCEPT !["video"] = Paused(@)]
              /\ videoPaused' = TRUE
              /\ crossed' = (crossed \/ media["video"].waiting # {})
              /\ UNCHANGED <<audioPlaying, wanted, refused>>

ToggleVideo == /\ unlocked /\ ~media["video"].failed /\ Room("video")
               /\ IF media["video"].paused THEN PlayVideo ELSE PauseVideo
               /\ UNCHANGED unlocked

ReplayVideo == /\ unlocked /\ ~media["video"].failed /\ Room("video")
               /\ PlayVideo
               /\ UNCHANGED unlocked

ToggleAudio ==
    /\ unlocked /\ Room("audio")
    /\ \/ media["audio"].paused /\ PlayAudio(media, audioPlaying, FALSE) /\ wanted' = "play"
       \/ /\ ~media["audio"].paused
          /\ media' = [media EXCEPT !["audio"] = Paused(@)]
          /\ audioPlaying' = FALSE /\ UNCHANGED <<wanted, refused>>
    /\ UNCHANGED <<unlocked, videoPaused, crossed>>

(* toggleAllMedia: a video that failed is no longer rendered.              *)
AnyPlays == Sounds("video") \/ ~media["audio"].paused

PauseAll == /\ media' = [m \in Medium |-> IF m = "video" /\ media[m].failed THEN media[m]
                                          ELSE Paused(media[m])]
            /\ videoPaused' = TRUE /\ audioPlaying' = FALSE /\ wanted' = "pause"
            /\ crossed' = (crossed \/ media["video"].waiting # {})
            /\ UNCHANGED refused

PlayAll ==
    /\ wanted' = "play" /\ UNCHANGED crossed
    /\ \/ /\ ~media["video"].failed
          /\ media' = [media EXCEPT !["video"] = Playing(@, "all")]
          /\ UNCHANGED <<videoPaused, audioPlaying, refused>>
       \/ /\ ~media["video"].failed /\ videoPaused' = FALSE
          /\ PlayAudio(media, audioPlaying, TRUE)
       \/ /\ media["video"].failed /\ UNCHANGED videoPaused
          /\ PlayAudio(media, audioPlaying, FALSE)

ToggleAll == /\ unlocked /\ \A m \in Medium : Room(m)
             /\ IF AnyPlays THEN PauseAll ELSE PlayAll
             /\ UNCHANGED unlocked
-----------------------------------------------------------------------------
(* The browser                                                             *)

(* A task: onPlay or onPause, then whoever waited for the promises.        *)
Tell_NoOnPause(m, event, settles, ok, els) ==
    LET video == IF m = "video" /\ event = "play" THEN FALSE ELSE videoPaused
        audio == IF m = "audio" /\ event # "playing" THEN event = "play" ELSE audioPlaying
    IN /\ videoPaused' = (video /\ settles \cap {"video", "all"} = {})
       /\ \/ "all" \in settles /\ Room("audio") /\ PlayAudio(els, audio, FALSE)
          \/ /\ "all" \notin settles /\ media' = els /\ UNCHANGED refused
             /\ audioPlaying' = IF "audio" \in settles THEN ok /\ ~els["audio"].paused ELSE audio
Tell(m, event, settles, ok, els) ==
    LET video == IF m = "video" /\ event # "playing" THEN event = "pause" ELSE videoPaused
        audio == IF m = "audio" /\ event # "playing" THEN event = "play" ELSE audioPlaying
    IN /\ videoPaused' = (video /\ settles \cap {"video", "all"} = {})
       /\ \/ "all" \in settles /\ Room("audio") /\ PlayAudio(els, audio, FALSE)
          \/ /\ "all" \notin settles /\ media' = els /\ UNCHANGED refused
             /\ audioPlaying' = IF "audio" \in settles THEN ok /\ ~els["audio"].paused ELSE audio

RunTask(m) ==
    /\ media[m].tasks # <<>>
    /\ LET task == Head(media[m].tasks) IN
       Tell(m, task.event, task.settles, task.ok, [media EXCEPT ![m].tasks = Tail(@)])
    /\ UNCHANGED <<unlocked, wanted, crossed>>

(* Enough is loaded; music is not before it is asked for (preload="none"). *)
Loading(m) == ~media[m].ready /\ ~media[m].failed /\ (m = "video" \/ ~media[m].paused)

BecomesReady(m) ==
    LET el == [media[m] EXCEPT !.ready = TRUE] IN
    /\ Loading(m) /\ Room(m)
    /\ \/ /\ el.paused /\ el.autoplay
          /\ media' = [media EXCEPT ![m] = Queued([el EXCEPT !.paused = FALSE, !.autoplay = FALSE],
                                                  "play", {}, TRUE)]
          /\ UNCHANGED refused
       \/ /\ el.paused /\ el.autoplay
          /\ media' = [media EXCEPT ![m] = el] /\ refused' = TRUE
       \/ /\ el.paused /\ ~el.autoplay
          /\ media' = [media EXCEPT ![m] = el] /\ UNCHANGED refused
       \/ /\ ~el.paused
          /\ media' = [media EXCEPT ![m] = Queued([el EXCEPT !.waiting = {}], "playing",
                                                  el.waiting, TRUE)]
          /\ UNCHANGED refused
    /\ UNCHANGED <<unlocked, videoPaused, audioPlaying, wanted, crossed>>

(* The end is reached: pause and ended; nothing loops.                     *)
Ends(m) == /\ media[m].ready /\ ~media[m].paused /\ media[m].tasks = <<>>
           /\ Tell(m, "pause", {}, FALSE, [media EXCEPT ![m].paused = TRUE])
           /\ UNCHANGED <<unlocked, wanted, crossed>>

(* The source cannot be loaded: what waits is rejected, and onError takes  *)
(* the video away.                                                         *)
SourceFails(m) ==
    /\ Loading(m) /\ media[m].tasks = <<>>
    /\ Tell(m, "playing", media[m].waiting, FALSE,
            [media EXCEPT ![m].failed = TRUE, ![m].waiting = {}])
    /\ UNCHANGED <<unlocked, wanted, crossed>>

Next == \/ Unlock \/ ToggleVideo \/ ReplayVideo \/ ToggleAudio \/ ToggleAll
        \/ \E m \in Medium : RunTask(m) \/ BecomesReady(m) \/ Ends(m) \/ SourceFails(m)

Spec == Init /\ [][Next]_vars
-----------------------------------------------------------------------------
(* Properties                                                              *)

Settled == \A m \in Medium : media[m].tasks = <<>> /\ media[m].waiting = {}

(* The controls show what plays, once the browser has told the page, but   *)
(* after a refused play and a pause that met a play of the video.          *)
ControlsShowMedia ==
    Settled /\ ~crossed /\ ~refused =>
        /\ media["video"].ready => videoPaused = media["video"].paused
        /\ audioPlaying = Sounds("audio")

(* The main control pauses everything: nothing plays until the guest asks  *)
(* for it again.                                                           *)
PausedStaysQuiet ==
    wanted = "pause" /\ Settled => \A m \in Medium : ~Sounds(m)
=============================================================================
