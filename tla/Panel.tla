--------------------------------- MODULE Panel ---------------------------------
(***************************************************************************)
(* The decisions of one profile from the watcher on its host to the panel   *)
(* of the operator and back: the WatcherPoller, the DecisionResponder with  *)
(* its confirmation tokens, the decisions messages of the WebSocket and     *)
(* useWatcher.  The watcher daemon and the session that gets the answers    *)
(* are modelled as far as the commands see them.                            *)
(* A query of the host is asked, run and answered in three steps.  What the *)
(* server sends a page is shown at once: the delay of the socket is all on  *)
(* the way to the server, which gives the same orders of events.            *)
(***************************************************************************)
EXTENDS Integers, FiniteSets, FiniteSetsExt

CONSTANTS
    Texts,          \* what the operator may answer
    MaxPolls,       \* bound: polls armed or in flight at once, one of them after a PATCH
    MaxClicks,      \* bound: clicks of the operator
    MaxEvents,      \* bound: those clicks and the faults around them, together
    NoText          \* no text

ASSUME PanelAssumption ==
    /\ MaxPolls \in Nat \ {0}
    /\ {MaxClicks, MaxEvents} \subseteq Nat
    /\ NoText \notin Texts

Polls == 1..MaxPolls
Clicks == 1..MaxClicks

VARIABLES
    risk,      \* the risk of the decision in the watcher
    watcher,   \* the daemon: whether it answers, and the status of the decision
    session,   \* the session of the decision lives
    link,      \* the connections of the profile
    poll,      \* polls: the state of the profile, if polling
    rounds,    \* the timers and the queries of the poller
    tokens,    \* pendingTokens: those that are left, and what each is for
    asks,      \* what each click asked, and how far it is
    typed,     \* the clicks whose text was typed into the session
    page,      \* useWatcher of the page that is open
    overlap,   \* history: polling was started beside a poll that was still out
    events     \* clicks and faults so far

panelVars == <<risk, watcher, session, link, poll, rounds, tokens, asks, typed, page,
               overlap, events>>

Status == {"none", "pending", "seen", "dismissed", "answered"}
Open == {"pending", "seen"}

(* A snapshot: the watcher answered or not, and the decision if it is open. *)
Snapshot == [available: BOOLEAN, queue: Open \cup {"none"}]
Unavailable == [available |-> FALSE, queue |-> "none"]
NoSnapshot == [available |-> TRUE, queue |-> "none"]

(* available: what the poller last told; unset: nothing yet.                *)
Poll == [on: BOOLEAN, polling: BOOLEAN, timer: 0..MaxPolls,
         available: {"unset", "yes", "no"}, last: Snapshot]
Off == [on |-> FALSE, polling |-> FALSE, timer |-> 0, available |-> "unset", last |-> NoSnapshot]
Fresh == [Off EXCEPT !.on = TRUE]

(* chain: arms the timer when it ends.  mine: of the ProfilePollState that  *)
(* polls holds; was: available of the one it is of, when that was dropped.  *)
Round == [step: {"off", "armed", "asked", "ran"}, chain: BOOLEAN, mine: BOOLEAN,
          was: {"unset", "yes", "no"}, seen: Snapshot]
NoRound == [step |-> "off", chain |-> FALSE, mine |-> FALSE, was |-> "unset", seen |-> NoSnapshot]
Asked(chain) == [NoRound EXCEPT !.step = "asked", !.chain = chain, !.mine = TRUE]
Timer == [NoRound EXCEPT !.step = "armed", !.chain = TRUE]

(* token: the one sent along, 0 for none.  confirms: the text of the        *)
(* command that the operator saw and confirmed.  told: what the page got.   *)
Kind == {"none", "answer", "seen", "dismissed"}
Progress == {"none", "sent", "typing", "patching", "auditing", "done"}
Ask == [kind: Kind, step: Progress, text: Texts \cup {NoText}, token: 0..MaxClicks,
        confirms: Texts \cup {NoText}, gate: {"none", "low", "high"},
        ran: {"no", "ok", "failed"}, open: BOOLEAN,
        told: {"nothing", "challenge", "success", "failure"}]
NoAsk == [kind |-> "none", step |-> "none", text |-> NoText, token |-> 0,
          confirms |-> NoText, gate |-> "none", ran |-> "no", open |-> TRUE, told |-> "nothing"]

(* The token minted for the n-th click has number n.                        *)
Token == [text: Texts \cup {NoText}, expired: BOOLEAN]
NoToken == [text |-> NoText, expired |-> FALSE]

(* challenge: the command shown is of text shown, the confirmation sends    *)
(* text.                                                                    *)
Challenge == [token: 0..MaxClicks, shown: Texts \cup {NoText}, text: Texts \cup {NoText}]
NoChallenge == [token |-> 0, shown |-> NoText, text |-> NoText]
Page == [view: Snapshot, pendingText: Texts \cup {NoText}, challenge: Challenge]
NewPage == [view |-> NoSnapshot, pendingText |-> NoText, challenge |-> NoChallenge]

PanelTypeOK ==
    /\ risk \in {"low", "high"}
    /\ watcher \in [up: BOOLEAN, status: Status]
    /\ session \in BOOLEAN
    /\ link \in {"up", "retrying", "failed"}
    /\ poll \in Poll
    /\ rounds \in [Polls -> Round]
    /\ tokens \in [Clicks -> Token]
    /\ asks \in [Clicks -> Ask]
    /\ typed \in SUBSET Clicks
    /\ page \in Page
    /\ overlap \in BOOLEAN
    /\ events \in 0..MaxEvents

PanelInit ==
    /\ risk \in {"low", "high"}
    /\ watcher = [up |-> TRUE, status |-> "none"]
    /\ session = TRUE
    /\ link = "retrying"
    /\ poll = Off
    /\ rounds = [p \in Polls |-> NoRound]
    /\ tokens = [k \in Clicks |-> NoToken]
    /\ asks = [k \in Clicks |-> NoAsk]
    /\ typed = {}
    /\ page = NewPage
    /\ overlap = FALSE
    /\ events = 0

Event == events < MaxEvents /\ events' = events + 1

(* A query that is out ends without an answer when it times out; once the   *)
(* connections have failed, openChannel throws instead of asking.           *)
Unheard == \/ link # "up" /\ UNCHANGED events
           \/ link = "up" /\ Event
Heard == link = "up" /\ UNCHANGED events

FreeRounds == {p \in Polls : rounds[p].step = "off"}

(***************************************************************************)
(* The poller.                                                              *)
(***************************************************************************)
(* Faulty variant: the timer is armed for a profile that is not polled.     *)
ArmsAlways(state, chain) == chain

(* arm: a timer, if the profile is polled by now; it takes the place of the *)
(* one that the state kept, which still fires.                              *)
Arms(state, chain) == chain /\ state.on

(* pollOnce up to its await: nothing if a poll is in flight.                *)
pollOnce(p, state, all, chain) ==
    IF state.on /\ ~state.polling
    THEN /\ poll' = [state EXCEPT !.polling = TRUE]
         /\ rounds' = [all EXCEPT ![p] = Asked(chain)]
    ELSE /\ poll' = IF Arms(state, chain) THEN [state EXCEPT !.timer = p] ELSE state
         /\ rounds' = [all EXCEPT ![p] = IF Arms(state, chain) THEN Timer ELSE NoRound]

(* A connection of the pool is ready: the poll starts at once, unless the   *)
(* profile is polled.                                                       *)
startPolling ==
    /\ link # "up" \/ (link = "up" /\ ~poll.on)
    /\ link' = "up"
    /\ IF poll.on THEN UNCHANGED <<poll, rounds>>
       ELSE /\ Cardinality(FreeRounds) > 1
            /\ pollOnce(Min(FreeRounds), Fresh, rounds, TRUE)
    /\ overlap' = \/ overlap
                  \/ ~poll.on /\ \E p \in Polls : rounds[p].step \in {"asked", "ran"}
    /\ UNCHANGED <<risk, watcher, session, tokens, asks, typed, page, events>>

(* The state is dropped with the timer it keeps; a query in flight goes on  *)
(* with the state it holds.                                                 *)
stopPolling ==
    /\ poll' = Off
    /\ rounds' = [p \in Polls |->
                    CASE p = poll.timer /\ rounds[p].step = "armed" -> NoRound
                      [] rounds[p].step \in {"asked", "ran"} /\ rounds[p].mine ->
                            [rounds[p] EXCEPT !.mine = FALSE, !.was = poll.available]
                      [] OTHER -> rounds[p]]

(* A connection is lost and redials; one gives up, or is closed, whether    *)
(* another is up or not.                                                    *)
LinkLost ==
    /\ link = "up" /\ Event
    /\ link' = "retrying"
    /\ UNCHANGED <<risk, watcher, session, poll, rounds, tokens, asks, typed, page, overlap>>

LinkError ==
    /\ poll.on /\ Event
    /\ link' = IF link = "up" THEN "up" ELSE "failed"
    /\ stopPolling
    /\ UNCHANGED <<risk, watcher, session, tokens, asks, typed, page, overlap>>

TimerFires(p) ==
    /\ rounds[p].step = "armed"
    /\ pollOnce(p, poll, rounds, TRUE)
    /\ UNCHANGED <<risk, watcher, session, link, tokens, asks, typed, page, overlap, events>>

(* Faulty variant: a decision is listed whatever its status.                *)
RawState ==
    IF ~watcher.up THEN Unavailable ELSE [available |-> TRUE, queue |-> watcher.status]

(* GET /state: what is open, or nothing that parses from a dead daemon.     *)
parseStateOutput ==
    IF ~watcher.up THEN Unavailable
    ELSE [available |-> TRUE, queue |-> IF watcher.status \in Open THEN watcher.status ELSE "none"]

HostAnswersPoll(p) ==
    /\ link = "up" /\ rounds[p].step = "asked"
    /\ rounds' = [rounds EXCEPT ![p].step = "ran", ![p].seen = parseStateOutput]
    /\ UNCHANGED <<risk, watcher, session, link, poll, tokens, asks, typed, page, overlap, events>>

(* Faulty variant: only the first unavailable of a server is told.          *)
QuietForGood(p, view) ==
    LET known == IF rounds[p].mine THEN poll.available ELSE rounds[p].was
        told == view.available /\ known # "no"
    IN
    /\ poll' = [poll EXCEPT
                  !.timer = IF Arms(poll, rounds[p].chain) THEN p ELSE @,
                  !.polling = IF rounds[p].mine THEN FALSE ELSE @,
                  !.available = IF rounds[p].mine THEN IF view.available THEN "yes" ELSE "no" ELSE @,
                  !.last = IF rounds[p].mine /\ told THEN view ELSE @]
    /\ rounds' = [rounds EXCEPT ![p] = IF Arms(poll, rounds[p].chain) THEN Timer ELSE NoRound]
    /\ page' = IF told THEN [page EXCEPT !.view = view] ELSE page

(* The rest of pollOnce and the arming of the next: a watcher that does not *)
(* answer is told once.  A state that was dropped meanwhile tells as well.  *)
EndPoll(p, view) ==
    LET known == IF rounds[p].mine THEN poll.available ELSE rounds[p].was
        told == view.available \/ known # "no"
    IN
    /\ poll' = [poll EXCEPT
                  !.timer = IF Arms(poll, rounds[p].chain) THEN p ELSE @,
                  !.polling = IF rounds[p].mine THEN FALSE ELSE @,
                  !.available = IF rounds[p].mine THEN IF view.available THEN "yes" ELSE "no" ELSE @,
                  !.last = IF rounds[p].mine /\ told THEN view ELSE @]
    /\ rounds' = [rounds EXCEPT ![p] = IF Arms(poll, rounds[p].chain) THEN Timer ELSE NoRound]
    /\ page' = IF told THEN [page EXCEPT !.view = view] ELSE page

PollEnds(p) ==
    /\ \/ rounds[p].step = "ran" /\ Heard /\ EndPoll(p, rounds[p].seen)
       \/ rounds[p].step \in {"asked", "ran"} /\ Unheard /\ EndPoll(p, Unavailable)
    /\ UNCHANGED <<risk, watcher, session, link, tokens, asks, typed, overlap>>

(***************************************************************************)
(* The operator, who sees the decision while the page lists it.             *)
(***************************************************************************)
NextClick(k) == asks[k].kind = "none" /\ \A j \in 1..(k - 1) : asks[j].kind # "none"
Listed == page.view.queue # "none"

AnswerClick(k, text) ==
    /\ NextClick(k) /\ Listed /\ Event
    /\ asks' = [asks EXCEPT ![k] = [NoAsk EXCEPT !.kind = "answer", !.step = "sent", !.text = text]]
    /\ page' = [page EXCEPT !.pendingText = text]
    /\ UNCHANGED <<risk, watcher, session, link, poll, rounds, tokens, typed, overlap>>

(* The confirmation sends the text that the page kept, and the token.       *)
ConfirmClick(k) ==
    /\ NextClick(k) /\ Listed /\ Event
    /\ page.challenge.token # 0
    /\ asks' = [asks EXCEPT ![k] =
                   [NoAsk EXCEPT !.kind = "answer", !.step = "sent", !.text = page.challenge.text,
                                 !.token = page.challenge.token, !.confirms = page.challenge.shown]]
    /\ page' = [page EXCEPT !.pendingText = page.challenge.text]
    /\ UNCHANGED <<risk, watcher, session, link, poll, rounds, tokens, typed, overlap>>

CancelClick ==
    /\ Listed /\ page.challenge # NoChallenge
    /\ page' = [page EXCEPT !.challenge = NoChallenge]
    /\ UNCHANGED <<risk, watcher, session, link, poll, rounds, tokens, asks, typed, overlap, events>>

(* vista, of a pending decision, and descartar.                             *)
ActionClick(k, kind) ==
    /\ NextClick(k) /\ Listed /\ Event
    /\ kind = "seen" => page.view.queue = "pending"
    /\ asks' = [asks EXCEPT ![k] = [NoAsk EXCEPT !.kind = kind, !.step = "sent"]]
    /\ UNCHANGED <<risk, watcher, session, link, poll, rounds, tokens, typed, page, overlap>>

(* The page is loaded again: what it asked is handled, what comes back of   *)
(* it has nowhere to go.  The new socket gets the last snapshot.            *)
Reload ==
    /\ Event
    /\ page' = [NewPage EXCEPT !.view = IF poll.on THEN poll.last ELSE NoSnapshot]
    /\ asks' = [k \in Clicks |-> IF asks[k].step \in {"none", "done"} THEN asks[k]
                                 ELSE [asks[k] EXCEPT !.open = FALSE]]
    /\ UNCHANGED <<risk, watcher, session, link, poll, rounds, tokens, typed, overlap>>

(***************************************************************************)
(* The server: messages in their order, and the responder.                  *)
(***************************************************************************)
Arrives(k) == asks[k].step = "sent" /\ \A j \in 1..(k - 1) : asks[j].step # "sent"

(* findDecision: a decision that the last snapshot does not hold is high.   *)
GateOf == IF poll.on /\ poll.last.queue # "none" THEN risk ELSE "high"

(* Faulty variant: any token that was minted and not used lets any text by. *)
consumeAnyText(k) ==
    LET t == asks[k].token IN t # 0 /\ tokens[t].text # NoText /\ ~tokens[t].expired

(* The token is for this very text and has not expired; it is used up       *)
(* whether it is good or not, see Consumed.                                 *)
consumeToken(k) ==
    LET t == asks[k].token IN
    t # 0 /\ tokens[t].text = asks[k].text /\ asks[k].text # NoText /\ ~tokens[t].expired

(* Faulty variant: a token that was good stays.                             *)
KeptToken(k) ==
    IF asks[k].token = 0 \/ consumeToken(k) THEN tokens
    ELSE [tokens EXCEPT ![asks[k].token] = NoToken]

Consumed(k) ==
    IF asks[k].token = 0 THEN tokens ELSE [tokens EXCEPT ![asks[k].token] = NoToken]

(* The outcome of click k reaches the page that made it; a result takes the *)
(* challenge away.                                                          *)
Outcome(k, told) ==
    /\ asks' = [asks EXCEPT ![k].step = "done", ![k].told = told]
    /\ page' = IF asks[k].open /\ asks[k].kind = "answer"
               THEN [page EXCEPT !.challenge = NoChallenge]
               ELSE page

(* An answer that needs a confirmation comes back as a challenge: the       *)
(* command of its text, beside the text that the page sent last.            *)
Challenged(k) ==
    /\ asks[k].kind = "answer"
    /\ Arrives(k)
    /\ GateOf = "high" /\ ~consumeToken(k)
    /\ tokens' = [Consumed(k) EXCEPT ![k] = [text |-> asks[k].text, expired |-> FALSE]]
    /\ asks' = [asks EXCEPT ![k].step = "done", ![k].told = "challenge", ![k].gate = "high"]
    /\ page' = IF asks[k].open
               THEN [page EXCEPT !.challenge = [token |-> k, shown |-> asks[k].text,
                                                text |-> page.pendingText]]
               ELSE page
    /\ UNCHANGED <<risk, watcher, session, link, poll, rounds, typed, overlap, events>>

(* send up to its await.  On failed connections the query throws.           *)
Responds(k) ==
    /\ asks[k].kind = "answer"
    /\ Arrives(k)
    /\ GateOf = "high" => consumeToken(k)
    /\ tokens' = IF GateOf = "high" THEN Consumed(k) ELSE tokens
    /\ IF link = "failed" THEN Outcome(k, "failure")
       ELSE /\ asks' = [asks EXCEPT ![k].step = "typing", ![k].gate = GateOf]
            /\ UNCHANGED page
    /\ UNCHANGED <<risk, watcher, session, link, poll, rounds, typed, overlap, events>>

(* decisions:action goes to patchDecision at once.                          *)
ActionArrives(k) ==
    /\ asks[k].kind \in {"seen", "dismissed"}
    /\ Arrives(k)
    /\ IF link = "failed" THEN Outcome(k, "failure")
       ELSE asks' = [asks EXCEPT ![k].step = "patching"] /\ UNCHANGED page
    /\ UNCHANGED <<risk, watcher, session, link, poll, rounds, tokens, typed, overlap, events>>

TokenExpires(k) ==
    /\ tokens[k].text # NoText /\ ~tokens[k].expired
    /\ Event
    /\ tokens' = [tokens EXCEPT ![k].expired = TRUE]
    /\ UNCHANGED <<risk, watcher, session, link, poll, rounds, asks, typed, page, overlap>>

(* send-keys: typed into a session that lives, else without the marker.     *)
HostTypes(k) ==
    /\ link = "up" /\ asks[k].step = "typing" /\ asks[k].ran = "no"
    /\ typed' = IF session THEN typed \cup {k} ELSE typed
    /\ asks' = [asks EXCEPT ![k].ran = IF session THEN "ok" ELSE "failed"]
    /\ UNCHANGED <<risk, watcher, session, link, poll, rounds, tokens, page, overlap, events>>

(* Faulty variant: the answer is patched whatever became of the send-keys.  *)
SentAnyway(k) ==
    /\ asks[k].step = "typing"
    /\ \/ Heard /\ asks[k].ran # "no"
       \/ Unheard
    /\ asks' = [asks EXCEPT ![k].step = "patching", ![k].ran = "no"] /\ UNCHANGED page
    /\ UNCHANGED <<risk, watcher, session, link, poll, rounds, tokens, typed, overlap>>

(* Only the marker makes it sent; anything else is a failure, not retried.  *)
(* A channel that cannot be opened for the PATCH makes respond reject: the  *)
(* page is told of a failure, of a text that was typed and without an audit *)
(* (the last disjunct, whatever the host has run).                          *)
SendKeysEnds(k) ==
    /\ asks[k].step = "typing"
    /\ \/ /\ Heard /\ asks[k].ran = "ok"
          /\ asks' = [asks EXCEPT ![k].step = "patching", ![k].ran = "no"]
          /\ UNCHANGED page
       \/ Heard /\ asks[k].ran = "failed" /\ Outcome(k, "failure")
       \/ Unheard /\ Outcome(k, "failure")
    /\ UNCHANGED <<risk, watcher, session, link, poll, rounds, tokens, typed, overlap>>

(* PATCH writes the status over any other.                                  *)
HostPatches(k) ==
    /\ link = "up" /\ asks[k].step = "patching" /\ asks[k].ran = "no"
    /\ watcher' = IF ~watcher.up THEN watcher
                  ELSE [watcher EXCEPT !.status =
                           IF asks[k].kind = "answer" THEN "answered" ELSE asks[k].kind]
    /\ asks' = [asks EXCEPT ![k].ran = IF watcher.up THEN "ok" ELSE "failed"]
    /\ UNCHANGED <<risk, session, link, poll, rounds, tokens, typed, page, overlap, events>>

(* After the PATCH: an action is done, an answer goes to its audit; without *)
(* the echo of the status a failure of the action, a note of the answer.    *)
AfterPatch(k, ok) ==
    IF asks[k].kind = "answer"
    THEN asks' = [asks EXCEPT ![k].step = "auditing"] /\ UNCHANGED page
    ELSE Outcome(k, IF ok THEN "success" ELSE "failure")

patchDecision(k) ==
    /\ asks[k].step = "patching"
    /\ \/ /\ Heard /\ asks[k].ran = "ok"
          /\ AfterPatch(k, TRUE)
          /\ IF FreeRounds = {} THEN UNCHANGED <<poll, rounds>>
             ELSE pollOnce(Min(FreeRounds), poll, rounds, FALSE)
       \/ Heard /\ asks[k].ran = "failed" /\ AfterPatch(k, FALSE) /\ UNCHANGED <<poll, rounds>>
       \/ Unheard /\ AfterPatch(k, FALSE) /\ UNCHANGED <<poll, rounds>>
    /\ UNCHANGED <<risk, watcher, session, link, tokens, typed, overlap>>

(* Faulty variant: an audit that fails takes the outcome with it.           *)
LoudAudit(k) ==
    /\ asks[k].step = "auditing"
    /\ \/ Heard /\ Outcome(k, "success")
       \/ Unheard /\ asks' = [asks EXCEPT ![k].step = "done"] /\ UNCHANGED page
    /\ UNCHANGED <<risk, watcher, session, link, poll, rounds, tokens, typed, overlap>>

(* The audit changes nothing here, and its failure is swallowed.            *)
audit(k) ==
    /\ asks[k].step = "auditing"
    /\ Heard \/ Unheard
    /\ Outcome(k, "success")
    /\ UNCHANGED <<risk, watcher, session, link, poll, rounds, tokens, typed, overlap>>

(***************************************************************************)
(* The host by itself.                                                      *)
(***************************************************************************)
WatcherAsks ==
    /\ watcher.up /\ watcher.status = "none"
    /\ watcher' = [watcher EXCEPT !.status = "pending"]
    /\ UNCHANGED <<risk, session, link, poll, rounds, tokens, asks, typed, page, overlap, events>>

WatcherStops ==
    /\ watcher.up /\ Event
    /\ watcher' = [watcher EXCEPT !.up = FALSE]
    /\ UNCHANGED <<risk, session, link, poll, rounds, tokens, asks, typed, page, overlap>>

WatcherReturns ==
    /\ ~watcher.up
    /\ watcher' = [watcher EXCEPT !.up = TRUE]
    /\ UNCHANGED <<risk, session, link, poll, rounds, tokens, asks, typed, page, overlap, events>>

SessionDies ==
    /\ session /\ Event
    /\ session' = FALSE
    /\ UNCHANGED <<risk, watcher, link, poll, rounds, tokens, asks, typed, page, overlap>>

PanelNext ==
    \/ startPolling \/ LinkLost \/ LinkError
    \/ \E p \in Polls : TimerFires(p) \/ HostAnswersPoll(p) \/ PollEnds(p)
    \/ \E k \in Clicks :
          \/ \E text \in Texts : AnswerClick(k, text)
          \/ ConfirmClick(k)
          \/ \E kind \in {"seen", "dismissed"} : ActionClick(k, kind)
          \/ Challenged(k) \/ Responds(k) \/ ActionArrives(k) \/ TokenExpires(k)
          \/ HostTypes(k) \/ SendKeysEnds(k) \/ HostPatches(k) \/ patchDecision(k) \/ audit(k)
    \/ CancelClick \/ Reload
    \/ WatcherAsks \/ WatcherStops \/ WatcherReturns \/ SessionDies

(* Timers fire, a host that is connected runs what it is sent, messages     *)
(* arrive, and an answer or its timeout is handled.                         *)
PanelFairness ==
    /\ \A p \in Polls : /\ WF_panelVars(TimerFires(p))
                        /\ WF_panelVars(HostAnswersPoll(p))
                        /\ WF_panelVars(PollEnds(p))
    /\ \A k \in Clicks : /\ WF_panelVars(Challenged(k) \/ Responds(k) \/ ActionArrives(k))
                         /\ WF_panelVars(HostTypes(k) \/ SendKeysEnds(k))
                         /\ WF_panelVars(HostPatches(k) \/ patchDecision(k))
                         /\ WF_panelVars(audit(k))

PanelSpec == PanelInit /\ [][PanelNext]_panelVars /\ PanelFairness

(***************************************************************************)
(* Properties.                                                              *)
(***************************************************************************)
(* What is typed as an answer of high risk is the text of the command that  *)
(* the operator saw and confirmed (respond, consumeToken), whatever was     *)
(* answered, confirmed twice or challenged meanwhile.                       *)
ConfirmedIsTyped == \A k \in typed : asks[k].gate = "high" => asks[k].confirms = asks[k].text

(* A challenge lets one answer by (consumeToken): the same token, confirmed *)
(* twice before the first answer is back, types once.                       *)
OneTypingPerChallenge ==
    \A j, k \in typed :
       asks[j].gate = "high" /\ asks[k].gate = "high" /\ asks[j].token = asks[k].token => j = k

(* The watcher is told that a decision is answered, and the page that an    *)
(* answer was sent, only when the text was typed (send): a send-keys that   *)
(* timed out or found no session leaves the decision open.                  *)
ReportedIsTyped ==
    /\ watcher.status = "answered" => typed # {}
    /\ \A k \in Clicks : asks[k].kind = "answer" /\ asks[k].told = "success" => k \in typed

(* Every answer gets an outcome on the page that sent it, with the          *)
(* connection down, the watcher dead or the session gone.                   *)
EveryAnswerIsTold ==
    <>[](\A k \in Clicks : asks[k].kind # "none" => asks[k].told # "nothing" \/ ~asks[k].open)

(* While the profile is polled the page ends up showing what the watcher    *)
(* says, or that it does not answer (pollOnce), unless polling was started  *)
(* again beside a poll that was still out.                                  *)
PageFollowsWatcher ==
    <>[](link = "up" /\ poll.on /\ ~overlap) => <>[](page.view = parseStateOutput)

(* Polling that was stopped ends: no query and no timer is left of it.      *)
StoppedPollEnds == <>[](~poll.on) => <>[](\A p \in Polls : rounds[p].step = "off")

================================================================================
