------------------------------- MODULE Watcher --------------------------------
(***************************************************************************)
(* The watcher daemon: its store, its three layers of detection and its     *)
(* notifier on one event loop, with the world around it: agents that POST   *)
(* hooks, terminals that write logs, an operator who PATCHes decisions, an  *)
(* LLM, Telegram, and a process that may die and be started again.          *)
(***************************************************************************)
EXTENDS Scanner

CONSTANTS
    PatchStatuses,  \* the statuses the cockpit's server asks for (VALID_ACTIONS)
    MaxCrashes      \* bound: restarts of the daemon

ASSUME WatcherAssumption ==
    /\ PatchStatuses \subseteq ValidStatus \ {"pending"}
    /\ MaxCrashes \in Nat

VARIABLE crashes  \* restarts so far

allVars == <<vars, crashes>>

TypeOK ==
    /\ StoreTypeOK
    /\ ClassifierTypeOK
    /\ NotifierTypeOK
    /\ ScannerTypeOK
    /\ crashes \in Nat

Init ==
    /\ StoreInit
    /\ ClassifierInit
    /\ NotifierInit
    /\ ScannerInit
    /\ crashes = 0

-------------------------------------------------------------------------------

Tick ==
    /\ now < MaxTime
    /\ now' = now + 1
    /\ UNCHANGED <<states, decisions, lastId, dedup, shown, classifierVars, notifierVars,
                   scannerVars, crashes>>

(* The process ends (SIGTERM, a crash, a reboot) and systemd starts it      *)
(* again: the SQLite file is all that is left.                              *)
Restart ==
    /\ crashes < MaxCrashes
    /\ crashes' = crashes + 1
    /\ requests' = [s \in Sessions |-> NoRequest]
    /\ sending' = [d \in Ids |-> Idle]
    /\ fileStates' = [s \in Sessions |-> Forgotten]
    /\ unread' = [s \in Sessions |-> Nothing]
    /\ scanning' = {}
    /\ asOf' = 0
    /\ UNCHANGED <<storeVars, callsToday, delivered, lost, logs>>

(* What each handler of the event loop and each actor outside leaves alone. *)
HandleHook(s, p) == LoopFree /\ Hook(s, p) /\ UNCHANGED <<scannerVars, crashes>>
HandlePatch(d, status) == LoopFree /\ Patch(d, status) /\ UNCHANGED <<scannerVars, crashes>>

ScanStep ==
    /\ ScanBegins \/ \E s \in Sessions : ScanFile(s)
    /\ UNCHANGED crashes

ClassifierStep(s) ==
    /\ LoopFree
    /\ \/ ClassifyFails(s)
       \/ \E state \in ValidStates, risk \in ValidRisks : ClassifyAnswers(s, state, risk)
    /\ UNCHANGED <<now, lastId, dedup, shown, notifierVars, scannerVars, crashes>>

DayEnds ==
    /\ Midnight
    /\ UNCHANGED <<storeVars, notifierVars, scannerVars, crashes>>

NotifierFrame == UNCHANGED <<now, states, lastId, dedup, shown, classifierVars,
                             scannerVars, crashes>>
Sweep(d) == LoopFree /\ SweepNotifies(d) /\ NotifierFrame
Accept(d) == TelegramAccepts(d) /\ NotifierFrame
Succeed(d) == LoopFree /\ SendSucceeds(d) /\ NotifierFrame
Fail(d) == LoopFree /\ SendFails(d) /\ NotifierFrame
Retry(d) == LoopFree /\ SendRetries(d) /\ NotifierFrame

TerminalStep(s) ==
    /\ (\E o \in Outputs[s] : Write(s, o)) \/ Repaint(s) \/ LogRemoved(s)
    /\ UNCHANGED crashes

Next ==
    \/ \E s \in Sessions, p \in Payloads : HandleHook(s, p)
    \/ \E d \in Ids, status \in PatchStatuses : HandlePatch(d, status)
    \/ ScanStep
    \/ \E s \in Sessions : ClassifierStep(s)
    \/ DayEnds
    \/ \E d \in Ids : Sweep(d) \/ Accept(d) \/ Succeed(d) \/ Fail(d) \/ Retry(d)
    \/ \E s \in Sessions : TerminalStep(s)
    \/ Tick
    \/ Restart

Spec == Init /\ [][Next]_allVars

(* The event loop comes to every timer and every answer that is due, also   *)
(* between two passes of the scanner, so the sweep's and the sends' steps   *)
(* are strongly fair; Telegram is not out of reach for ever.                *)
Fairness ==
    /\ WF_allVars(ScanStep)
    /\ \A d \in Ids :
         /\ SF_allVars(Sweep(d))
         /\ SF_allVars(Retry(d))
         /\ SF_allVars(Accept(d))
         /\ SF_allVars(Succeed(d))

FairSpec == Spec /\ Fairness

-------------------------------------------------------------------------------
(* Safety.                                                                  *)

(* A session never has two decisions the operator has not looked at: a      *)
(* second candidate is absorbed by the first, whichever layer, restart or   *)
(* stale click comes in between (findOpenDecision in ingestCandidate).      *)
OnePendingPerSession ==
    \A d, e \in Ids :
        decisions[d].status = "pending" /\ decisions[e].status = "pending"
            /\ decisions[d].session = decisions[e].session => d = e

(* While a hook vouches for a session that works or rests, the queue holds  *)
(* nothing unread of it: no ghost question outlives the evidence that the   *)
(* agent went on (answerOpenDecisions in POST /hook).                       *)
CalmMeansNothingPending ==
    \A s \in Sessions :
        states[s].source = "hook" /\ states[s].state # "waiting_for_input" =>
            \A d \in Ids : decisions[d].status = "pending" => decisions[d].session # s

(* A session that the heuristics say is waiting has had a decision in the   *)
(* queue: suppressing a repeated screen never swallows the only report of   *)
(* it (raiseCandidate and checkAndRecordDedup).                             *)
WaitingHasDecision ==
    \A s \in Sessions :
        states[s].state = "waiting_for_input" /\ states[s].source = "heuristic" =>
            \E d \in 1..lastId : decisions[d].session = s

(* The operator gets a second copy of a message only for an answer that was *)
(* lost or a restart: neither the sweep, nor the retries, nor the immediate *)
(* send add one of their own (inFlight and notified_at in telegram.mjs).    *)
DuplicatesAccounted ==
    \A d \in Ids : delivered[d] <= 1 + lost[d] + crashes

(* Calls counted today and calls in flight stay within the cap plus one     *)
(* call for each other session: the cap reads ended calls only, but a       *)
(* session has one call at a time (maybeClassify).                          *)
InFlight == {s \in Sessions : requests[s].active}
CapOvershootBounded ==
    callsToday + Cardinality(InFlight) + 1 <= DailyCap + Cardinality(Sessions)

(* What has left the queue is final: a late LLM answer, a touch by the      *)
(* scanner or a structured hook never rewrites what the operator or the     *)
(* agent has settled (applyClassification, findOpenDecision).               *)
SettledIsFrozen ==
    \A d \in Ids :
        decisions[d].status \in ClosedStatus =>
            /\ decisions'[d].summary = decisions[d].summary
            /\ decisions'[d].risk = decisions[d].risk
            /\ decisions'[d].session = decisions[d].session
SettledStaysFrozen == [][SettledIsFrozen]_allVars

(* The heuristics never talk a hook's state down: when a session that a     *)
(* hook wrote passes to the heuristics, it keeps its state or is said to    *)
(* wait (applyHeuristicState, releaseStateLock, ingestCandidate).           *)
HookOutranks ==
    \A s \in Sessions :
        states[s].source = "hook" /\ states'[s].source = "heuristic" =>
            states'[s].state \in {states[s].state, "waiting_for_input"}
HookNeverDemoted == [][HookOutranks]_allVars

(* A question of one line that the scanner has not read, on a screen that   *)
(* was not seen within the window when the pass that reads it began, does   *)
(* not get lost: it is put to the operator with its own text, whatever was  *)
(* written behind it and whatever decisions the session had before, unless  *)
(* the log goes or the daemon restarts (processFile, raiseCandidate,        *)
(* checkAndRecordDedup).                                                    *)
Waits(s, q) == fileStates[s].known /\ unread[s].kind = "lines" /\ unread[s].match = q
PassBegan(s) == IF s \in scanning THEN asOf ELSE now
Repeats(s) ==
    LET row == dedup[unread[s].screen]
    IN  row.seen /\ PassBegan(s) - row.at <= DedupWindow
Questioned(s, q) ==
    \E d \in Ids : decisions[d].status \in OpenStatus /\ decisions[d].session = s
                     /\ decisions[d].summary = q
FreshQuestionIsKept ==
    \A s \in Sessions : \A q \in Questions \ LongQuestions :
        Waits(s, q) /\ ~Repeats(s) =>
            Waits(s, q)' \/ Questioned(s, q)' \/ s \notin logs' \/ ~fileStates'[s].known
FreshQuestionIsAsked == [][FreshQuestionIsKept]_allVars

-------------------------------------------------------------------------------
(* Liveness.                                                                *)

(* A decision that stays pending is notified in the end, also when the      *)
(* daemon died between writing it and sending it, or gave up after its      *)
(* attempts (sweepUnnotified).                                              *)
EventuallyNotified ==
    \A d \in Ids : decisions[d].status = "pending" ~>
                     (decisions[d].status # "pending" \/ decisions[d].notified)

-------------------------------------------------------------------------------
(* What the documentation says and the code does not do.                    *)

(* The lock of a hook's state is released by another hook or by the         *)
(* operator's answer or dismissal only (docs/adr/002-layer-precedence.md).  *)
LockReleasedByHookOrOperator ==
    [][\A s \in Sessions :
         states[s].source = "hook" /\ states'[s].source = "heuristic" =>
            \E d \in Ids, status \in ClosedStatus : HandlePatch(d, status)]_allVars

(* When in doubt the risk is high: a question that is not harmless is never *)
(* in the queue as low risk (watcher.mjs, invariants of the header).        *)
LowRiskIsHarmless ==
    \A d \in 1..lastId : decisions[d].status \in OpenStatus /\ decisions[d].risk = "low" =>
                            decisions[d].summary \in Harmless

===============================================================================
