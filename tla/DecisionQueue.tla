---------------------------- MODULE DecisionQueue -----------------------------
(***************************************************************************)
(* The write paths of watcher/watcher.mjs that a request or the scanner     *)
(* takes: ingestCandidate, POST /hook and PATCH /decisions/:id.  Each       *)
(* handler runs to its end on the event loop before another starts, so each *)
(* is one step.                                                             *)
(***************************************************************************)
EXTENDS Classifier, Notifier

CONSTANT Payloads  \* the bodies the hook scripts of this host POST

HookEventState ==
    [notification       |-> "waiting_for_input",
     permission_request |-> "waiting_for_input",
     user_prompt_submit |-> "thinking",
     pre_tool_use       |-> "thinking",
     post_tool_use      |-> "thinking",
     stop               |-> "idle"]

HookEvents == DOMAIN HookEventState

(* Faulty variant: the end of a turn does not count as going on.            *)
ResumeWithoutStop == {"user_prompt_submit", "pre_tool_use", "post_tool_use"}

HookResumeEvents == HookEvents \ {"notification", "permission_request"}

(* structured: the body carries a decision object with a summary.  question *)
(* is that summary, or else the text hookSummary finds in the raw payload.  *)
Payload == [state: ValidStates \cup {"none"}, event: HookEvents \cup {"none"},
            structured: BOOLEAN, question: Questions, risk: {"low", "high", "absent"}]

ASSUME PayloadAssumption == Payloads \subseteq Payload

queueVars == <<storeVars, classifierVars, notifierVars>>

-------------------------------------------------------------------------------

NewDecision(s, summary, risk) ==
    [session |-> s, summary |-> summary, risk |-> NormalizedRisk(risk),
     status |-> "pending", notified |-> FALSE]

(* Faulty variant: every candidate is a decision of its own.                *)
IngestAlwaysNew(ds, row, s, summary, risk, replaceMetadata, automate, stateSource) ==
    /\ states' = [states EXCEPT ![s] = Upserted(row, "waiting_for_input", stateSource)]
    /\ lastId < MaxDecisions
    /\ lastId' = lastId + 1
    /\ decisions' = [ds EXCEPT ![lastId + 1] = NewDecision(s, summary, risk)]
    /\ IF automate
         THEN MaybeClassify(s, lastId + 1) /\ MaybeNotify(lastId + 1)
         ELSE UNCHANGED <<requests, sending>>
    /\ UNCHANGED <<now, shown, callsToday, delivered, lost>>

(* ingestCandidate.  ds and row are the table and the session's row as the  *)
(* caller has left them.  An open decision of the session absorbs the       *)
(* candidate: a structured hook replaces its metadata, any other candidate  *)
(* only its text.  The session then waits, whoever asked.  A decision that  *)
(* is new starts the two automations, unless the caller wants none.         *)
IngestCandidate(ds, row, s, summary, risk, replaceMetadata, automate, stateSource) ==
    /\ states' = [states EXCEPT ![s] = Upserted(row, "waiting_for_input", stateSource)]
    /\ \/ \E d \in Ids :
            /\ IsLatestOpen(ds, d, s)
            /\ decisions' = [ds EXCEPT ![d] =
                  IF replaceMetadata
                    THEN [@ EXCEPT !.summary = summary, !.risk = NormalizedRisk(risk)]
                    ELSE [@ EXCEPT !.summary = summary]]
            /\ UNCHANGED <<lastId, requests, sending>>
       \/ /\ OpenIn(ds, s) = {}
          /\ lastId < MaxDecisions
          /\ lastId' = lastId + 1
          /\ decisions' = [ds EXCEPT ![lastId + 1] = NewDecision(s, summary, risk)]
          /\ IF automate
               THEN MaybeClassify(s, lastId + 1) /\ MaybeNotify(lastId + 1)
               ELSE UNCHANGED <<requests, sending>>
    /\ UNCHANGED <<now, shown, callsToday, delivered, lost>>

(* POST /hook for a session of the allowlist: the declared state, then the  *)
(* state of the event, then the drain of the queue when the event proves    *)
(* that the agent went on, then the candidate, structured or synthesised.   *)
Hook(s, p) ==
    LET mapped == IF p.event = "none" THEN "none" ELSE HookEventState[p.event]
        row1 == IF p.state = "none" THEN states[s] ELSE Upserted(states[s], p.state, "hook")
        row2 == IF mapped = "none" THEN row1 ELSE Upserted(row1, mapped, "hook")
        ds == IF p.event \in HookResumeEvents THEN Drained(decisions, s) ELSE decisions
    IN  /\ IF p.structured
             THEN IngestCandidate(ds, row2, s, p.question, p.risk, TRUE, FALSE, "hook")
             ELSE IF mapped = "waiting_for_input"
               THEN IngestCandidate(ds, row2, s, p.question, "high", FALSE, TRUE, "hook")
               ELSE /\ states' = [states EXCEPT ![s] = row2]
                    /\ decisions' = ds
                    /\ UNCHANGED <<now, shown, lastId, classifierVars, notifierVars>>
        /\ UNCHANGED dedup

(* PATCH /decisions/:id.  Any valid status is written over any other; an    *)
(* operator's answer or dismissal gives the session back to the heuristics  *)
(* when no open decision of it is left.                                     *)
Patch(d, status) ==
    /\ d <= lastId
    /\ decisions' = [decisions EXCEPT ![d].status = status]
    /\ LET s == decisions[d].session IN
       states' = IF status \in ClosedStatus /\ OpenIn(decisions', s) = {}
                   THEN [states EXCEPT ![s] = Released(@)]
                   ELSE states
    /\ UNCHANGED <<now, lastId, dedup, shown, classifierVars, notifierVars>>

===============================================================================
