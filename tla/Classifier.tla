------------------------------ MODULE Classifier ------------------------------
(***************************************************************************)
(* Layer 3, watcher/classifier.mjs: one LLM call per new decision, at most  *)
(* one in flight per session, a daily cap counted when a call ends, an      *)
(* answer applied only while the decision is still pending.                 *)
(***************************************************************************)
EXTENDS WatcherStore

CONSTANTS
    ClassifierEnabled,  \* the three AZURE_OPENAI_* variables are set
    DailyCap,           \* WATCHER_LLM_DAILY_CAP
    Harmless            \* the screens the LLM may call low risk

ASSUME ClassifierAssumption ==
    /\ ClassifierEnabled \in BOOLEAN
    /\ DailyCap \in Nat
    /\ Harmless \subseteq Screens

VARIABLES
    requests,   \* the call in flight of each session
    callsToday  \* events of source classifier with an outcome, dated today

classifierVars == <<requests, callsToday>>

NoRequest == [active |-> FALSE]
Request == [active: {TRUE}, decision: Ids, startedAt: Nat, saw: Screens]

ClassifierTypeOK ==
    /\ requests \in [Sessions -> Request \cup {NoRequest}]
    /\ callsToday \in Nat

ClassifierInit ==
    /\ requests = [s \in Sessions |-> NoRequest]
    /\ callsToday = 0

(* Faulty variant: no cap.                                                  *)
MaybeClassifyUncapped(s, d) ==
    IF ClassifierEnabled /\ ~requests[s].active
      THEN requests' = [requests EXCEPT
             ![s] = [active |-> TRUE, decision |-> d, startedAt |-> now, saw |-> shown[s]]]
      ELSE UNCHANGED requests

(* maybeClassify up to its first await.  A call refused by the cap leaves   *)
(* an event that the cap does not count.                                    *)
MaybeClassify(s, d) ==
    IF ClassifierEnabled /\ ~requests[s].active /\ callsToday < DailyCap
      THEN requests' = [requests EXCEPT
             ![s] = [active |-> TRUE, decision |-> d, startedAt |-> now, saw |-> shown[s]]]
      ELSE UNCHANGED requests

(* The end of a call, common to every outcome: the event that counts it and *)
(* the finally that frees the session.                                      *)
CallEnds(s) ==
    /\ requests[s].active
    /\ requests' = [requests EXCEPT ![s] = NoRequest]
    /\ callsToday' = callsToday + 1

(* The HTTP error, the timeout and the answer of the wrong shape.           *)
ClassifyFails(s) ==
    /\ CallEnds(s)
    /\ UNCHANGED <<states, decisions>>

(* Faulty variant: the answer is applied whatever became of the decision.   *)
ClassifyAnswersLate(s, state, risk) ==
    LET r == requests[s] IN
    /\ CallEnds(s)
    /\ risk = "low" => r.saw \in Harmless
    /\ decisions' = [decisions EXCEPT ![r.decision].summary = r.saw,
                                      ![r.decision].risk = risk]
    /\ states' = [states EXCEPT ![s] = Heuristic(@, state, r.startedAt)]

(* applyClassification: the decision takes the LLM's view of the tail it    *)
(* was given; the session's state goes through the heuristic guard, with    *)
(* the start of the call as the age of the observation.                     *)
ClassifyAnswers(s, state, risk) ==
    LET r == requests[s] IN
    /\ CallEnds(s)
    /\ risk = "low" => r.saw \in Harmless
    /\ IF decisions[r.decision].status = "pending"
         THEN /\ decisions' = [decisions EXCEPT ![r.decision].summary = r.saw,
                                                ![r.decision].risk = risk]
              /\ states' = [states EXCEPT ![s] = Heuristic(@, state, r.startedAt)]
         ELSE UNCHANGED <<states, decisions>>

(* date('now') moves on: yesterday's events stop counting.                  *)
Midnight ==
    /\ callsToday > 0
    /\ callsToday' = 0
    /\ UNCHANGED requests

===============================================================================
