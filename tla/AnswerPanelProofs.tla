-------------------------- MODULE AnswerPanelProofs -------------------------
(***************************************************************************)
(* For any parties, notes and counts: the panel of a guest shows the       *)
(* stored answer, has one request under way, and is only refused for the   *)
(* reasons listed, whatever is clicked, lost or answered elsewhere.        *)
(***************************************************************************)
EXTENDS AnswerPanel, FiniteSetTheorems, TLAPS

(* What normalize returns for a party that the attendance fits.            *)
LEMMA NormalizedIsSound ==
    ASSUME NEW input \in Input, NEW p \in Party, Fits(input, p)
    PROVE  /\ Normalized(input, p) \in Answer
           /\ SoundCounts(Normalized(input, p))
           /\ Normalized(input, p).status # "CANCELLED"
<1>1. MaxCount \in Nat /\ None \notin Nat
  BY RulesAssumption
<1>2. /\ input.status \in {"ACCEPTED", "DECLINED", "NOT_SURE"}
      /\ input.total \in OptionalCount /\ input.adults \in OptionalCount
      /\ input.children \in OptionalCount /\ input.note \in OptionalNote
  BY DEF Input
<1>3. CASE input.status # "ACCEPTED"
  BY <1>2, <1>3 DEF Normalized, Cleared, Answer, Status, SoundCounts, OptionalCount
<1>4. CASE input.status = "ACCEPTED" /\ p.mode = "TOTAL_ONLY"
  <2>1. /\ input.total # None /\ input.total \in 1..p.total
        /\ input.adults = None /\ input.children = None
    BY <1>4 DEF Fits
  <2>2. input.total \in Nat /\ input.total >= 1 /\ input.total \in Total
    BY <1>1, <1>2, <2>1 DEF OptionalCount, Count, Total
  <2> QED
    BY <1>1, <1>2, <1>4, <2>1, <2>2 DEF Normalized, Answer, Status, SoundCounts
<1>5. CASE input.status = "ACCEPTED" /\ p.mode = "ADULTS_AND_CHILDREN"
  <2>1. /\ input.adults # None /\ input.children # None
        /\ input.adults + input.children >= 1
    BY <1>5 DEF Fits
  <2>2. input.adults \in Count /\ input.children \in Count
    BY <1>2, <2>1 DEF OptionalCount
  <2>3. /\ input.adults + input.children \in Total
        /\ input.adults + input.children \in Nat
    BY <1>1, <2>2 DEF Count, Total
  <2> QED
    BY <1>1, <1>2, <1>5, <2>1, <2>3 DEF Normalized, Answer, Status, SoundCounts
<1>6. p.mode \in {"TOTAL_ONLY", "ADULTS_AND_CHILDREN"}
  BY DEF Party
<1> QED
  BY <1>3, <1>4, <1>5, <1>6

(* What cancelling leaves of an answer.                                    *)
LEMMA ClearedIsSound ==
    ASSUME NEW a \in Answer
    PROVE  /\ Cleared("CANCELLED", a.note) \in Answer
           /\ SoundCounts(Cleared("CANCELLED", a.note))
BY DEF Cleared, Answer, Status, SoundCounts, OptionalCount

Operation == {"create", "update", "cancel"}
PanelRequest == [op : Operation, input : Input, result : SUBSET (Answer \cup {None}),
                 party : Parties]

(* What the page holds while a request is under way is what the request    *)
(* was made from: its method fits the answer, its counts the party.        *)
MadeFromPage(r) ==
    /\ r \in PanelRequest /\ r.party = page.party
    /\ r.result = {} \/ \E answer \in Answer \cup {None} : r.result = {answer}
    /\ r.op = "create" <=> page.response = None
    /\ r.op = "cancel" => page.response.status = "ACCEPTED"
    /\ r.op # "cancel" => Fits(r.input, r.party) \/ NobodyComes(r)
SentShape == \A r \in sent : MadeFromPage(r)

OnlyOne == \A r, q \in sent : r = q
Locked == /\ page.open => live
          /\ sent # {} => live /\ page.saving
          /\ page.saving => sent # {} \/ lost

(* The page has the stored answer, or the request under way brings it.     *)
Agrees == ~lost /\ ~others =>
              IF \A r \in sent : r.result \in {{}, {None}} THEN page.response = stored
              ELSE \A r \in sent : r.result = {stored}

(* PanelInv says nothing of what requests carry, so a late answer could    *)
(* bring anything; and a request could have been made of another answer.   *)
PanelInd == TypeOK /\ SentShape /\ OnlyOne /\ Locked /\ Agrees

LEMMA MountedIsPage ==
    ASSUME NEW response \in Answer \cup {None}, NEW p \in Parties
    PROVE  /\ Mounted(response, p) \in Page
           /\ Mounted(response, p).response = response
           /\ Mounted(response, p).party = p
           /\ Mounted(response, p).saving = FALSE /\ Mounted(response, p).open = FALSE
<1>1. (IF response # None /\ response.status \in Choice THEN response.status ELSE "ACCEPTED")
      \in Choice
  BY DEF Choice
<1> QED
  BY <1>1 DEF Mounted, Page

LEMMA PanelInit == Init => PanelInd
<1> SUFFICES ASSUME Init PROVE PanelInd
  OBVIOUS
<1>1. TypeOK /\ page.response = stored /\ page.saving = FALSE /\ page.open = FALSE
  BY MountedIsPage DEF Init, TypeOK
<1> QED
  BY <1>1 DEF Init, PanelInd, SentShape, OnlyOne, Locked, Agrees

(* A step of the page that neither sends nor receives.                     *)
LEMMA ClickKeeps ==
    ASSUME PanelInd, NEW new \in Page, Click(new), new.response = page.response,
           new.party = page.party, new.saving = page.saving, new.open => live
    PROVE  PanelInd'
<1> USE DEF PanelInd, Click, Server
<1>1. TypeOK'
  BY DEF TypeOK
<1>2. SentShape' /\ OnlyOne'
  BY DEF SentShape, OnlyOne, MadeFromPage, NobodyComes
<1>3. Locked' /\ Agrees'
  BY DEF Locked, Agrees
<1> QED
  BY <1>1, <1>2, <1>3

LEMMA ClicksKeep ==
    ASSUME PanelInd,
           \/ ShowCurrent \/ BeginUpdate \/ KeepCurrent \/ ClosePanel
           \/ \E status \in Choice : QuickAction(status) \/ PickStatus(status)
    PROVE  PanelInd'
<1>1. page \in Page
  BY DEF PanelInd, TypeOK
<1>2. PICK new : /\ Click(new)
                 /\ \/ live /\ new = [page EXCEPT !.editing = FALSE, !.open = TRUE]
                    \/ new = [page EXCEPT !.editing = TRUE, !.confirmed = FALSE]
                    \/ new = [page EXCEPT !.editing = FALSE]
                    \/ new = [page EXCEPT !.open = FALSE]
                    \/ \E status \in Choice :
                          \/ live /\ new = [page EXCEPT !.status = status, !.editing = TRUE,
                                                        !.confirmed = FALSE, !.open = TRUE]
                          \/ new = [page EXCEPT !.status = status]
  BY DEF ShowCurrent, BeginUpdate, KeepCurrent, ClosePanel, QuickAction, PickStatus
<1>3. /\ new \in Page /\ new.response = page.response
      /\ new.party = page.party /\ new.saving = page.saving
  BY <1>1, <1>2 DEF Page
<1>4. new.open => page.open \/ live
  BY <1>1, <1>2 DEF Page
<1> QED
  BY <1>2, <1>3, <1>4, ClickKeeps DEF PanelInd, Locked

LEMMA LoadKeeps == ASSUME PanelInd, Load PROVE PanelInd'
<1>1. page' \in Page /\ page'.response = stored /\ page'.saving = FALSE /\ page'.open = FALSE
  BY MountedIsPage DEF PanelInd, TypeOK, Load
<1> QED
  BY <1>1 DEF Load, Server, PanelInd, TypeOK, SentShape, OnlyOne, Locked, Agrees

(* What the form enters fits the party the page knows, or nobody comes.    *)
LEMMA PayloadFits ==
    ASSUME PanelAssumption, page \in Page, NEW form \in Entered
    PROVE  /\ Payload(form) \in Input
           /\ \/ Fits(Payload(form), page.party)
              \/ /\ Payload(form).status = "ACCEPTED"
                 /\ Payload(form).total \in {0, None} /\ Payload(form).adults \in {0, None}
                 /\ Payload(form).children \in {0, None}
<1> DEFINE p == page.party
<1>1. MaxCount \in Nat /\ None \notin Nat
  BY RulesAssumption
<1>2. p \in Party /\ page.status \in Choice
  BY DEF PanelAssumption, Page
<1>3. /\ form.note \in OptionalNote /\ form.total \in 0..p.total
      /\ form.adults \in IF p.adults = None THEN {0} ELSE 0..p.adults
      /\ form.children \in IF p.children = None THEN {0} ELSE 0..p.children
  BY DEF Entered
<1>4. CASE page.status # "ACCEPTED"
  BY <1>2, <1>3, <1>4 DEF Payload, Input, Choice, OptionalCount, Fits
<1>5. CASE page.status = "ACCEPTED" /\ p.mode = "TOTAL_ONLY"
  <2>1. p.total \in Count /\ form.total \in Count
    BY <1>1, <1>2, <1>3, <1>5 DEF Party, Count
  <2>2. Payload(form) = [status |-> "ACCEPTED", note |-> form.note, total |-> form.total,
                         adults |-> None, children |-> None]
    BY <1>5 DEF Payload
  <2>3. Payload(form) \in Input
    BY <1>3, <2>1, <2>2 DEF Input, OptionalCount
  <2>4. form.total # 0 => Fits(Payload(form), p)
    BY <1>1, <1>3, <1>5, <2>1, <2>2 DEF Fits, Count
  <2> QED
    BY <2>2, <2>3, <2>4
<1>6. CASE page.status = "ACCEPTED" /\ p.mode = "ADULTS_AND_CHILDREN"
  <2>1. p.adults \in Count /\ p.children \in Count /\ p.adults # None /\ p.children # None
    BY <1>1, <1>2, <1>6 DEF Party, Count
  <2>2. form.adults \in 0..p.adults /\ form.children \in 0..p.children
    BY <1>3, <2>1
  <2>3. form.adults \in Count /\ form.children \in Count
    BY <1>1, <2>1, <2>2 DEF Count
  <2>4. Payload(form) = [status |-> "ACCEPTED", note |-> form.note, total |-> None,
                         adults |-> form.adults, children |-> form.children]
    BY <1>6 DEF Payload
  <2>5. Payload(form) \in Input
    BY <1>3, <2>3, <2>4 DEF Input, OptionalCount
  <2>6. ~(form.adults = 0 /\ form.children = 0) => Fits(Payload(form), p)
    BY <1>1, <1>6, <2>1, <2>2, <2>3, <2>4 DEF Fits, Count
  <2> QED
    BY <2>4, <2>5, <2>6
<1>7. p.mode \in {"TOTAL_ONLY", "ADULTS_AND_CHILDREN"}
  BY <1>2 DEF Party
<1> QED
  BY <1>4, <1>5, <1>6, <1>7

LEMMA SendKeeps ==
    ASSUME PanelInd, NEW op \in Operation, NEW input \in Input, Send(op, input),
           ~page.saving, live,
           op = "create" <=> page.response = None,
           op = "cancel" => page.response.status = "ACCEPTED",
           op # "cancel" => \/ Fits(input, page.party)
                            \/ /\ input.status = "ACCEPTED" /\ input.total \in {0, None}
                               /\ input.adults \in {0, None} /\ input.children \in {0, None}
    PROVE  PanelInd'
<1> DEFINE new == [op |-> op, input |-> input, result |-> {}, party |-> page.party]
           after == [page EXCEPT !.saving = TRUE, !.error = FALSE]
<1>1. sent = {} /\ page \in Page
  BY DEF PanelInd, Locked, TypeOK
<1>2. page' = after /\ sent' = {new} /\ UNCHANGED <<stored, party, shut, live, lost, others>>
  BY <1>1 DEF Send, Server
<1>3. /\ after \in Page /\ after.response = page.response /\ after.party = page.party
      /\ after.saving = TRUE /\ after.open = page.open
  BY <1>1 DEF Page
<1>4. new \in PanelRequest /\ new.result = {}
  BY <1>1 DEF PanelRequest, Page
<1> HIDE DEF after
<1>5. SentShape'
  BY <1>2, <1>3, <1>4 DEF SentShape, MadeFromPage, NobodyComes
<1> HIDE DEF new
<1>6. TypeOK' /\ OnlyOne' /\ Locked' /\ Agrees'
  BY <1>1, <1>2, <1>3, <1>4 DEF PanelInd, TypeOK, OnlyOne, Locked, Agrees
<1> QED
  BY <1>5, <1>6 DEF PanelInd

LEMMA SubmitKeeps ==
    ASSUME PanelAssumption, PanelInd, NEW form \in Entered, Submit(form)
    PROVE  PanelInd'
<1> DEFINE op == IF page.response = None THEN "create" ELSE "update"
<1>1. page \in Page
  BY DEF PanelInd, TypeOK
<1>2. Send(op, Payload(form)) /\ ~page.saving /\ live
  BY DEF Submit, ShowsForm
<1>3. op \in Operation /\ op # "cancel" /\ (op = "create" <=> page.response = None)
  BY DEF Operation
<1> HIDE DEF op
<1> QED
  BY <1>1, <1>2, <1>3, PayloadFits, SendKeeps

LEMMA CancelKeeps == ASSUME PanelInd, Cancel PROVE PanelInd'
<1>1. Nothing \in Input
  BY DEF Nothing, Input, OptionalCount, OptionalNote
<1>2. "cancel" \in Operation
  BY DEF Operation
<1>3. live
  BY DEF PanelInd, Locked, Cancel, ShowsAnswer
<1> QED
  BY <1>1, <1>2, <1>3, SendKeeps DEF Cancel, ShowsAnswer

(* What the server makes of a request is a sound answer or a refusal.      *)
LEMMA OutcomeIsSound ==
    ASSUME PanelAssumption, TypeOK, NEW op \in Operation, NEW input \in Input
    PROVE  /\ Outcome(op, input) \in Answer \cup {None}
           /\ Outcome(op, input) # None => SoundCounts(Outcome(op, input))
<1>1. party \in Party
  BY DEF TypeOK, PanelAssumption
<1>2. CASE shut \/ ~Permits(op, stored)
  BY <1>2 DEF Outcome
<1>3. CASE ~shut /\ Permits(op, stored) /\ op = "cancel"
  <2>1. stored \in Answer
    BY <1>3 DEF Permits, TypeOK
  <2> QED
    BY <1>3, <2>1, ClearedIsSound DEF Outcome
<1>4. CASE ~shut /\ Permits(op, stored) /\ op # "cancel" /\ Fits(input, party)
  BY <1>1, <1>4, NormalizedIsSound DEF Outcome
<1>5. CASE op # "cancel" /\ ~Fits(input, party)
  BY <1>5 DEF Outcome
<1> QED
  BY <1>2, <1>3, <1>4, <1>5

LEMMA ServeKeeps ==
    ASSUME PanelAssumption, PanelInd, NEW r \in sent, Serve(r)
    PROVE  PanelInd'
<1> DEFINE answer == Outcome(r.op, r.input)
           new == [r EXCEPT !.result = {answer}]
<1>1. r \in PanelRequest /\ MadeFromPage(r)
  BY DEF PanelInd, SentShape, MadeFromPage
<1>2. answer \in Answer \cup {None} /\ (answer # None => SoundCounts(answer))
  BY <1>1, OutcomeIsSound DEF PanelInd, PanelRequest
<1>3. /\ sent' = {new} /\ stored' = (IF answer = None THEN stored ELSE answer)
      /\ r.result = {} /\ UNCHANGED <<party, shut, live, page, lost, others>>
  BY DEF Serve, PanelInd, OnlyOne
<1> HIDE DEF answer
<1>4. /\ new \in PanelRequest /\ new.result = {answer} /\ new.op = r.op
      /\ new.input = r.input /\ new.party = r.party
  BY <1>1, <1>2 DEF PanelRequest
<1> HIDE DEF new
<1>5. TypeOK'
  BY <1>2, <1>3 DEF PanelInd, TypeOK
<1>6. SentShape'
  BY <1>1, <1>2, <1>3, <1>4 DEF SentShape, MadeFromPage, NobodyComes
<1>7. OnlyOne' /\ Locked'
  BY <1>3 DEF PanelInd, OnlyOne, Locked
<1>8. ~lost /\ ~others => page.response = stored
  BY <1>3 DEF PanelInd, Agrees, OnlyOne
<1>9. Agrees'
  BY <1>3, <1>4, <1>8 DEF Agrees
<1> QED
  BY <1>5, <1>6, <1>7, <1>9 DEF PanelInd

(* The page after an answer, or an error instead of it.                    *)
LEMMA SettledIsPage ==
    ASSUME page \in Page, NEW op \in Operation, NEW answer \in Answer \cup {None}
    PROVE  /\ Settled(op, answer) \in Page
           /\ Settled(op, answer).saving = FALSE
           /\ Settled(op, answer).response = IF answer = None THEN page.response ELSE answer
<1>1. CASE answer = None
  BY <1>1 DEF Settled, Page
<1>2. CASE answer # None /\ op = "cancel"
  BY <1>2 DEF Settled, Page
<1>3. CASE answer # None /\ op # "cancel"
  BY <1>3 DEF Settled, Page
<1> QED
  BY <1>1, <1>2, <1>3

LEMMA AnswersKeep ==
    ASSUME PanelAssumption, PanelInd, NEW r \in sent,
           Arrive(r) \/ ProxyFails(r) \/ ConnectionBreaks(r)
    PROVE  PanelInd'
<1>1. MadeFromPage(r) /\ r.op \in Operation /\ live /\ page \in Page
  BY DEF PanelInd, SentShape, MadeFromPage, PanelRequest, Locked, TypeOK
<1>2. sent' = {} /\ UNCHANGED <<stored, party, shut, live, others>>
  BY DEF PanelInd, OnlyOne, Arrive, ProxyFails, ConnectionBreaks, Server
<1>3. SentShape' /\ OnlyOne'
  BY <1>2 DEF SentShape, OnlyOne
<1>4. CASE Arrive(r)
  <2>1. PICK answer \in Answer \cup {None} : r.result = {answer} /\ page' = Settled(r.op, answer)
    BY <1>1, <1>4 DEF Arrive, MadeFromPage
  <2>2. /\ page' \in Page /\ page'.saving = FALSE
        /\ page'.response = IF answer = None THEN page.response ELSE answer
    BY <1>1, <2>1, SettledIsPage
  <2>3. UNCHANGED lost
    BY <1>4 DEF Arrive
  <2>4. TypeOK' /\ Locked'
    BY <1>1, <1>2, <2>2 DEF PanelInd, TypeOK, Locked
  <2>5. Agrees'
    BY <1>2, <2>1, <2>2, <2>3 DEF PanelInd, Agrees, OnlyOne
  <2> QED
    BY <1>3, <2>4, <2>5 DEF PanelInd
<1>5. CASE ProxyFails(r)
  <2>1. page' \in Page /\ page'.saving = FALSE /\ page'.response = page.response
    BY <1>1, <1>5, SettledIsPage DEF ProxyFails
  <2>2. lost' = (lost \/ r.result # {})
    BY <1>5 DEF ProxyFails
  <2>3. TypeOK' /\ Locked'
    BY <1>1, <1>2, <2>1 DEF PanelInd, TypeOK, Locked
  <2>4. Agrees'
    BY <1>2, <2>1, <2>2 DEF PanelInd, Agrees, OnlyOne
  <2> QED
    BY <1>3, <2>3, <2>4 DEF PanelInd
<1>6. CASE ConnectionBreaks(r)
  <2>1. UNCHANGED page /\ lost'
    BY <1>6 DEF ConnectionBreaks
  <2>2. TypeOK' /\ Locked' /\ Agrees'
    BY <1>1, <1>2, <2>1 DEF PanelInd, TypeOK, Locked, Agrees
  <2> QED
    BY <1>3, <2>2 DEF PanelInd
<1> QED
  BY <1>4, <1>5, <1>6

LEMMA OthersKeep ==
    ASSUME PanelAssumption, PanelInd,
           \/ \E op \in Operation, input \in Input : OtherDevice(op, input)
           \/ HostShuts \/ \E p \in Parties : HostSetsParty(p)
    PROVE  PanelInd'
<1>1. CASE \E op \in Operation, input \in Input : OtherDevice(op, input)
  <2>1. PICK op \in Operation, input \in Input : OtherDevice(op, input)
    BY <1>1
  <2>2. stored' \in Answer /\ SoundCounts(stored')
    BY <2>1, OutcomeIsSound DEF OtherDevice, PanelInd
  <2>3. UNCHANGED <<party, shut, live, page, sent, lost>> /\ others'
    BY <2>1 DEF OtherDevice
  <2> QED
    BY <2>2, <2>3 DEF PanelInd, TypeOK, SentShape, MadeFromPage, NobodyComes, OnlyOne,
                      Locked, Agrees
<1>2. CASE HostShuts \/ \E p \in Parties : HostSetsParty(p)
  BY <1>2 DEF HostShuts, HostSetsParty, PanelInd, TypeOK, SentShape, MadeFromPage,
              NobodyComes, OnlyOne, Locked, Agrees
<1> QED
  BY <1>1, <1>2

LEMMA PanelStep == ASSUME PanelAssumption, PanelInd, [Next]_vars PROVE PanelInd'
<1>1. CASE ShowCurrent \/ BeginUpdate \/ KeepCurrent \/ ClosePanel
           \/ \E status \in Choice : QuickAction(status) \/ PickStatus(status)
  BY <1>1, ClicksKeep
<1>2. CASE Load
  BY <1>2, LoadKeeps
<1>3. CASE Cancel \/ \E form \in Entered : Submit(form)
  BY <1>3, CancelKeeps, SubmitKeeps
<1>4. CASE \E r \in sent : Serve(r) \/ Arrive(r) \/ ProxyFails(r) \/ ConnectionBreaks(r)
  BY <1>4, ServeKeeps, AnswersKeep
<1>5. CASE \/ \E input \in Sendable : OtherDevice("create", input) \/ OtherDevice("update", input)
           \/ OtherDevice("cancel", Nothing)
           \/ HostShuts \/ \E p \in Parties : HostSetsParty(p)
  <2>1. Sendable \subseteq Input /\ Nothing \in Input
    BY DEF Sendable, Nothing, Input, OptionalCount, OptionalNote
  <2>2. {"create", "update", "cancel"} = Operation
    BY DEF Operation
  <2> QED
    BY <1>5, <2>1, <2>2, OthersKeep
<1>6. CASE UNCHANGED vars
  BY <1>6 DEF vars, PanelInd, TypeOK, SentShape, MadeFromPage, NobodyComes, OnlyOne, Locked, Agrees
<1> QED
  BY <1>1, <1>2, <1>3, <1>4, <1>5, <1>6 DEF Next

LEMMA PanelImplies == PanelInd => PanelInv
<1> SUFFICES ASSUME PanelInd PROVE ShownAnswerIsStored /\ OneRequestAtATime
  BY DEF PanelInd, PanelInv
<1>1. Cardinality(sent) <= 1
  <2>1. CASE sent = {}
    BY <2>1, FS_EmptySet
  <2>2. CASE sent # {}
    <3>1. PICK r \in sent : TRUE
      BY <2>2
    <3>2. sent = {r}
      BY DEF PanelInd, OnlyOne
    <3> QED
      BY <3>2, FS_Singleton
  <2> QED
    BY <2>1, <2>2
<1> QED
  BY <1>1 DEF PanelInd, Agrees, Locked, ShownAnswerIsStored, OneRequestAtATime

(* A panel closed, reopened and clicked while it saves, with answers late  *)
(* or lost, has one request under way, and once that is over it shows the  *)
(* stored answer, whose counts are sound.                                  *)
THEOREM PanelAgrees == ASSUME PanelAssumption PROVE Spec => []PanelInv
<1>1. PanelInd /\ [Next]_vars => PanelInd'
  BY PanelStep
<1> QED
  BY <1>1, PanelInit, PanelImplies, PTL DEF Spec

(* Only the server refuses; and of a request that was made from the stored *)
(* answer, only for the link or the attendance.                            *)
LEMMA RefusalStep ==
    ASSUME PanelAssumption, PanelInd, [Next]_vars, NEW r \in sent, r.result = {},
           [r EXCEPT !.result = {None}] \in sent'
    PROVE  shut \/ lost \/ others \/ r.party # party \/ NobodyComes(r)
<1> DEFINE refused == [r EXCEPT !.result = {None}]
<1>1. r \in PanelRequest /\ MadeFromPage(r) /\ \A q \in sent : q = r
  BY DEF PanelInd, SentShape, MadeFromPage, OnlyOne
<1>2. refused.result = {None} /\ refused.result # {} /\ refused \notin sent
  BY <1>1 DEF PanelRequest
<1> HIDE DEF refused
<1>3. ~(sent' \subseteq sent)
  BY <1>2 DEF refused
<1>4. ASSUME NEW op, NEW input, Send(op, input) PROVE FALSE
  <2>1. refused \in sent' \ sent
    BY <1>2 DEF refused
  <2> QED
    BY <1>2, <1>4, <2>1 DEF Send
<1>5. Serve(r)
  BY <1>1, <1>3, <1>4 DEF Next, vars, Load, ShowCurrent, BeginUpdate, KeepCurrent, ClosePanel,
         Cancel, HostShuts, QuickAction, PickStatus, Submit, Arrive, ProxyFails,
         ConnectionBreaks, OtherDevice, HostSetsParty, Click
<1>6. Outcome(r.op, r.input) = None
  <2> DEFINE answer == Outcome(r.op, r.input)
             served == [r EXCEPT !.result = {answer}]
  <2>1. served.result = {answer}
    BY <1>1 DEF PanelRequest
  <2>2. sent' = {served}
    BY <1>1, <1>5 DEF Serve
  <2>3. refused = served
    BY <2>2 DEF refused
  <2> HIDE DEF answer, served
  <2>4. answer = None
    BY <1>2, <2>1, <2>3
  <2> QED
    BY <2>4 DEF answer
<1>7. ASSUME ~shut, ~lost, ~others, r.party = party, ~NobodyComes(r) PROVE FALSE
  <2>1. page.response = stored
    BY <1>1, <1>7 DEF PanelInd, Agrees
  <2>2. Permits(r.op, stored)
    BY <1>1, <2>1 DEF MadeFromPage, PanelRequest, Operation, Permits
  <2>3. CASE r.op = "cancel"
    <3>1. stored \in Answer
      BY <1>1, <2>1, <2>3 DEF PanelInd, TypeOK, MadeFromPage
    <3>2. Cleared("CANCELLED", stored.note) \in Answer
      BY <3>1, ClearedIsSound
    <3> QED
      BY <1>6, <1>7, <2>2, <2>3, <3>2 DEF Outcome, PanelAssumption
  <2>4. CASE r.op # "cancel"
    <3>1. Fits(r.input, party)
      BY <1>1, <1>7, <2>4 DEF MadeFromPage
    <3>2. Normalized(r.input, party) \in Answer
      BY <1>1, <3>1, NormalizedIsSound DEF PanelRequest, PanelInd, TypeOK, PanelAssumption
    <3> QED
      BY <1>6, <1>7, <2>2, <2>4, <3>1, <3>2 DEF Outcome, PanelAssumption
  <2> QED
    BY <2>3, <2>4
<1> QED
  BY <1>7

(* A form that the browser lets through is only refused for nobody coming, *)
(* a closed link, or what changed behind the page.                         *)
THEOREM PanelIsNotRefused == ASSUME PanelAssumption PROVE Spec => GoodFormsAreAccepted
<1> DEFINE A == \A r \in sent : r.result = {} /\ [r EXCEPT !.result = {None}] \in sent' =>
                    shut \/ lost \/ others \/ r.party # party \/ NobodyComes(r)
<1>1. PanelInd /\ [Next]_vars => PanelInd'
  BY PanelStep
<1>2. PanelInd /\ [Next]_vars => A
  BY RefusalStep
<1> HIDE DEF A
<1>3. Spec => [][A]_vars
  BY <1>1, <1>2, PanelInit, PTL DEF Spec
<1> QED
  BY <1>3 DEF A, GoodFormsAreAccepted
=============================================================================
