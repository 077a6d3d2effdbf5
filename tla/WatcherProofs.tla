---------------------------- MODULE WatcherProofs -----------------------------
(***************************************************************************)
(* Theorems about the watcher for every number of sessions, screens,        *)
(* decisions, retries, restarts and lost answers, and for every length of   *)
(* the windows.                                                             *)
(***************************************************************************)
EXTENDS Watcher, TLAPS

-------------------------------------------------------------------------------
(* The operators on rows.                                                   *)

LEMMA UpsertedType ==
    ASSUME now \in Nat, NEW row \in StateRow, NEW state \in ValidStates,
           NEW source \in {"hook", "heuristic"}
    PROVE  Upserted(row, state, source) \in StateRow
BY DEF Upserted, StateRow

LEMMA HeuristicType ==
    ASSUME now \in Nat, NEW row \in StateRow, NEW state \in ValidStates, NEW olderThan \in Nat
    PROVE  Heuristic(row, state, olderThan) \in StateRow
BY UpsertedType DEF Heuristic

LEMMA ReleasedType ==
    ASSUME NEW row \in StateRow
    PROVE  Released(row) \in StateRow
BY DEF Released, StateRow

LEMMA RiskType == \A risk : NormalizedRisk(risk) \in ValidRisks
BY DEF NormalizedRisk, ValidRisks

(* A table with the rows of the ids given out so far, and no other.         *)
IsTable(ds) ==
    /\ ds \in [Ids -> Decision \cup {NoDecision}]
    /\ \A d \in Ids : ds[d] \in Decision <=> d <= lastId

LEMMA NoDecisionIsNoRow ==
    /\ NoDecision \notin Decision
    /\ NoDecision.status \notin ValidStatus
BY DEF NoDecision, Decision, ValidStatus, OpenStatus, ClosedStatus

LEMMA RowsHaveStatus ==
    ASSUME NEW ds, IsTable(ds), NEW d \in Ids
    PROVE  ds[d].status \in ValidStatus <=> d <= lastId
BY NoDecisionIsNoRow DEF IsTable, Decision

LEMMA DrainedTable ==
    ASSUME NEW ds, IsTable(ds), NEW s \in Sessions
    PROVE  IsTable(Drained(ds, s))
<1>1. ASSUME NEW d \in OpenIn(ds, s)
      PROVE  d \in Ids /\ ds[d] \in Decision /\ [ds[d] EXCEPT !.status = "answered"] \in Decision
  BY <1>1, RowsHaveStatus DEF OpenIn, IsTable, Decision, ValidStatus, OpenStatus, ClosedStatus
<1>2. QED
  BY <1>1 DEF Drained, IsTable

-------------------------------------------------------------------------------
(* Type correctness.                                                        *)

LEMMA InitType == Init => TypeOK
BY StoreAssumption, ClassifierAssumption, NotifierAssumption
   DEF Init, TypeOK, StoreInit, StoreTypeOK, DecisionsOK, ClassifierInit, ClassifierTypeOK,
       NotifierInit, NotifierTypeOK, ScannerInit, ScannerTypeOK, NoState, StateRow, DedupRow,
       Ids, NoDecision, Decision, Idle, Sending, Unread, ValidStatus, OpenStatus, ClosedStatus

LEMMA MaybeClassifyType ==
    ASSUME StoreTypeOK, ClassifierTypeOK, NEW s \in Sessions, NEW d \in Ids, MaybeClassify(s, d)
    PROVE  requests' \in [Sessions -> Request \cup {NoRequest}]
<1>1. [active |-> TRUE, decision |-> d, startedAt |-> now, saw |-> shown[s]] \in Request
  BY DEF StoreTypeOK, Request
<1>2. QED
  BY <1>1 DEF MaybeClassify, ClassifierTypeOK

LEMMA MaybeNotifyType ==
    ASSUME NotifierTypeOK, NEW d \in Ids, MaybeNotify(d)
    PROVE  sending' \in [Ids -> Sending]
BY NotifierAssumption DEF MaybeNotify, NotifierTypeOK, Sending

(* The statement of the common part of the hook's and the scanner's writes. *)
LEMMA IngestType ==
    ASSUME TypeOK, NEW ds, IsTable(ds), NEW row \in StateRow, NEW s \in Sessions,
           NEW summary \in Screens, NEW risk, NEW replaceMetadata \in BOOLEAN,
           NEW automate \in BOOLEAN, NEW stateSource \in {"hook", "heuristic"},
           IngestCandidate(ds, row, s, summary, risk, replaceMetadata, automate, stateSource)
    PROVE  /\ now' \in Nat
           /\ states' \in [Sessions -> StateRow]
           /\ DecisionsOK'
           /\ shown' \in [Sessions -> Screens]
           /\ ClassifierTypeOK'
           /\ NotifierTypeOK'
<1>1. states' \in [Sessions -> StateRow] /\ now' \in Nat /\ shown' \in [Sessions -> Screens]
  <2>1. Upserted(row, "waiting_for_input", stateSource) \in StateRow
    BY UpsertedType DEF TypeOK, StoreTypeOK, ValidStates
  <2>2. QED
    BY <2>1 DEF IngestCandidate, TypeOK, StoreTypeOK
<1>2. ASSUME NEW d \in Ids, IsLatestOpen(ds, d, s),
             decisions' = [ds EXCEPT ![d] =
                  IF replaceMetadata
                    THEN [@ EXCEPT !.summary = summary, !.risk = NormalizedRisk(risk)]
                    ELSE [@ EXCEPT !.summary = summary]],
             UNCHANGED <<lastId, requests, sending>>
      PROVE  DecisionsOK' /\ requests' \in [Sessions -> Request \cup {NoRequest}]
                /\ sending' \in [Ids -> Sending]
  <2>1. ds[d] \in Decision
    BY <1>2, RowsHaveStatus DEF IsLatestOpen, OpenIn, ValidStatus, IsTable
  <2>2. [ds[d] EXCEPT !.summary = summary, !.risk = NormalizedRisk(risk)] \in Decision
    BY <2>1, RiskType DEF Decision
  <2>3. [ds[d] EXCEPT !.summary = summary] \in Decision
    BY <2>1 DEF Decision
  <2>4. IsTable(decisions')
    BY <1>2, <2>1, <2>2, <2>3 DEF IsTable
  <2>5. QED
    BY <1>2, <2>4 DEF IsTable, DecisionsOK, TypeOK, StoreTypeOK, ClassifierTypeOK, NotifierTypeOK
<1>3. ASSUME lastId < MaxDecisions, lastId' = lastId + 1,
             decisions' = [ds EXCEPT ![lastId + 1] = NewDecision(s, summary, risk)],
             IF automate
               THEN MaybeClassify(s, lastId + 1) /\ MaybeNotify(lastId + 1)
               ELSE UNCHANGED <<requests, sending>>
      PROVE  DecisionsOK' /\ requests' \in [Sessions -> Request \cup {NoRequest}]
                /\ sending' \in [Ids -> Sending]
  <2>1. lastId \in Nat /\ lastId + 1 \in Ids /\ lastId' \in 0..MaxDecisions
    BY <1>3, StoreAssumption DEF TypeOK, StoreTypeOK, DecisionsOK, Ids
  <2>2. NewDecision(s, summary, risk) \in Decision
    BY RiskType DEF NewDecision, Decision, ValidStatus, OpenStatus
  <2>3. \A d \in Ids : decisions'[d] \in Decision <=> d <= lastId'
    BY <1>3, <2>1, <2>2 DEF IsTable, Ids
  <2>4. decisions' \in [Ids -> Decision \cup {NoDecision}]
    BY <1>3, <2>1, <2>2 DEF IsTable
  <2>5. requests' \in [Sessions -> Request \cup {NoRequest}] /\ sending' \in [Ids -> Sending]
    BY <1>3, <2>1, MaybeClassifyType, MaybeNotifyType
       DEF TypeOK, ClassifierTypeOK, NotifierTypeOK
  <2>6. QED
    BY <2>1, <2>3, <2>4, <2>5 DEF DecisionsOK
<1>4. QED
  BY <1>1, <1>2, <1>3 DEF IngestCandidate, TypeOK, ClassifierTypeOK, NotifierTypeOK

QueueTypeOK == StoreTypeOK /\ ClassifierTypeOK /\ NotifierTypeOK

LEMMA OpenTable == ASSUME TypeOK PROVE IsTable(decisions)
BY DEF TypeOK, StoreTypeOK, DecisionsOK, IsTable

LEMMA PayloadType ==
    ASSUME NEW p \in Payloads
    PROVE  /\ p.state \in ValidStates \cup {"none"}
           /\ p.event \in HookEvents \cup {"none"}
           /\ p.event # "none" => HookEventState[p.event] \in ValidStates
           /\ p.question \in Screens
BY PayloadAssumption, StoreAssumption
   DEF Payload, HookEvents, HookEventState, ValidStates

LEMMA HookType ==
    ASSUME TypeOK, NEW s \in Sessions, NEW p \in Payloads, Hook(s, p)
    PROVE  QueueTypeOK'
<1> DEFINE mapped == IF p.event = "none" THEN "none" ELSE HookEventState[p.event]
           row1 == IF p.state = "none" THEN states[s] ELSE Upserted(states[s], p.state, "hook")
           row2 == IF mapped = "none" THEN row1 ELSE Upserted(row1, mapped, "hook")
           ds == IF p.event \in HookResumeEvents THEN Drained(decisions, s) ELSE decisions
<1>1. row1 \in StateRow
  BY PayloadType, UpsertedType DEF TypeOK, StoreTypeOK
<1>2. row2 \in StateRow
  <2>1. CASE mapped = "none"
    BY <2>1, <1>1
  <2>2. CASE mapped # "none"
    <3>1. mapped \in ValidStates
      BY <2>2, PayloadType
    <3>2. QED
      BY <2>2, <3>1, <1>1, UpsertedType DEF TypeOK, StoreTypeOK
  <2>3. QED
    BY <2>1, <2>2
<1>3. IsTable(ds)
  BY OpenTable, DrainedTable
<1>4. dedup' \in [Screens -> DedupRow]
  BY DEF Hook, TypeOK, StoreTypeOK
<1>5. CASE p.structured
  <2>1. IngestCandidate(ds, row2, s, p.question, p.risk, TRUE, FALSE, "hook")
    BY <1>5 DEF Hook
  <2>2. QED
    BY <2>1, <1>2, <1>3, <1>4, PayloadType, IngestType DEF QueueTypeOK, StoreTypeOK
<1>6. CASE ~p.structured /\ mapped = "waiting_for_input"
  <2>1. IngestCandidate(ds, row2, s, p.question, "high", FALSE, TRUE, "hook")
    BY <1>6 DEF Hook
  <2>2. QED
    BY <2>1, <1>2, <1>3, <1>4, PayloadType, IngestType DEF QueueTypeOK, StoreTypeOK
<1>7. CASE ~p.structured /\ mapped # "waiting_for_input"
  <2>1. /\ states' = [states EXCEPT ![s] = row2]
        /\ decisions' = ds
        /\ UNCHANGED <<now, shown, lastId, classifierVars, notifierVars>>
    BY <1>7 DEF Hook
  <2>2. states' \in [Sessions -> StateRow]
    BY <2>1, <1>2 DEF TypeOK, StoreTypeOK
  <2>3. DecisionsOK'
    BY <2>1, <1>3 DEF TypeOK, StoreTypeOK, DecisionsOK, IsTable
  <2>4. QED
    BY <2>1, <2>2, <2>3, <1>4
       DEF QueueTypeOK, TypeOK, StoreTypeOK, ClassifierTypeOK, NotifierTypeOK,
           classifierVars, notifierVars
<1>8. QED
  BY <1>5, <1>6, <1>7

LEMMA PatchType ==
    ASSUME TypeOK, NEW d \in Ids, NEW status \in PatchStatuses, Patch(d, status)
    PROVE  QueueTypeOK'
<1>1. status \in ValidStatus
  BY WatcherAssumption
<1>2. decisions[d] \in Decision /\ [decisions[d] EXCEPT !.status = status] \in Decision
  BY <1>1 DEF Patch, TypeOK, StoreTypeOK, DecisionsOK, Decision
<1>3. DecisionsOK'
  BY <1>2 DEF Patch, TypeOK, StoreTypeOK, DecisionsOK
<1>4. states' \in [Sessions -> StateRow]
  <2>1. decisions[d].session \in Sessions
    BY <1>2 DEF Decision
  <2>2. Released(states[decisions[d].session]) \in StateRow
    BY <2>1, ReleasedType DEF TypeOK, StoreTypeOK
  <2>3. QED
    BY <2>1, <2>2 DEF Patch, TypeOK, StoreTypeOK
<1>5. QED
  BY <1>3, <1>4 DEF Patch, QueueTypeOK, TypeOK, StoreTypeOK, ClassifierTypeOK, NotifierTypeOK,
                    classifierVars, notifierVars

LEMMA CallsType ==
    ASSUME TypeOK, NEW s \in Sessions, CallEnds(s)
    PROVE  /\ requests' \in [Sessions -> Request \cup {NoRequest}]
           /\ callsToday' \in Nat
           /\ requests[s] \in Request
BY DEF CallEnds, TypeOK, ClassifierTypeOK, NoRequest

LEMMA ClassifierStepType ==
    ASSUME TypeOK, NEW s \in Sessions, ClassifierStep(s)
    PROVE  TypeOK'
<1>1. UNCHANGED <<now, lastId, dedup, shown, notifierVars, scannerVars, crashes>>
  BY DEF ClassifierStep
<1>2. CASE ClassifyFails(s)
  BY <1>1, <1>2, CallsType
     DEF ClassifyFails, TypeOK, StoreTypeOK, DecisionsOK, ClassifierTypeOK, NotifierTypeOK,
         ScannerTypeOK, notifierVars, scannerVars
<1>3. ASSUME NEW state \in ValidStates, NEW risk \in ValidRisks, ClassifyAnswers(s, state, risk)
      PROVE  TypeOK'
  <2> DEFINE r == requests[s]
  <2>1. r \in Request
    BY <1>3, CallsType DEF ClassifyAnswers
  <2>2. CASE decisions[r.decision].status = "pending"
    <3>1. decisions[r.decision] \in Decision
      BY <2>1, <2>2, OpenTable, RowsHaveStatus
         DEF Request, IsTable, ValidStatus, OpenStatus
    <3>2. [decisions[r.decision] EXCEPT !.summary = r.saw, !.risk = risk] \in Decision
      BY <2>1, <3>1 DEF Request, Decision
    <3>3. decisions' = [decisions EXCEPT ![r.decision] = [@ EXCEPT !.summary = r.saw, !.risk = risk]]
      BY <1>3, <2>1, <2>2, <3>1, OpenTable DEF ClassifyAnswers, IsTable, Request
    <3>4. DecisionsOK'
      BY <1>1, <2>1, <3>1, <3>2, <3>3 DEF TypeOK, StoreTypeOK, DecisionsOK, Request
    <3>5. Heuristic(states[s], state, r.startedAt) \in StateRow
      BY <2>1, HeuristicType DEF TypeOK, StoreTypeOK, Request
    <3>6. states' \in [Sessions -> StateRow]
      BY <1>3, <2>2, <3>5 DEF ClassifyAnswers, TypeOK, StoreTypeOK
    <3>7. QED
      BY <1>1, <1>3, <3>4, <3>6, CallsType
         DEF ClassifyAnswers, TypeOK, StoreTypeOK, ClassifierTypeOK, NotifierTypeOK,
             ScannerTypeOK, notifierVars, scannerVars
  <2>3. CASE decisions[r.decision].status # "pending"
    BY <1>1, <1>3, <2>3, CallsType
       DEF ClassifyAnswers, TypeOK, StoreTypeOK, DecisionsOK, ClassifierTypeOK, NotifierTypeOK,
           ScannerTypeOK, notifierVars, scannerVars
  <2>4. QED
    BY <2>2, <2>3
<1>4. QED
  BY <1>2, <1>3 DEF ClassifierStep

(* A send that pauses has an attempt left, and only a row that is in the    *)
(* table and not marked as notified is being sent.                          *)
SendsOK ==
    \A d \in Ids :
        /\ sending[d].phase = "backoff" => sending[d].attempt < MaxAttempts
        /\ sending[d].phase # "idle" => d <= lastId /\ ~decisions[d].notified

LEMMA SendingTypes ==
    ASSUME NEW r \in Sending
    PROVE  /\ Idle \in Sending
           /\ [phase |-> "calling", attempt |-> 1] \in Sending
           /\ [r EXCEPT !.phase = "accepted"] \in Sending
           /\ [r EXCEPT !.phase = "backoff"] \in Sending
           /\ r.attempt < MaxAttempts => [phase |-> "calling", attempt |-> r.attempt + 1] \in Sending
BY NotifierAssumption DEF Sending, Idle

LEMMA NotifierStepType ==
    ASSUME TypeOK, SendsOK, NEW d \in Ids,
           Sweep(d) \/ Accept(d) \/ Succeed(d) \/ Fail(d) \/ Retry(d)
    PROVE  TypeOK'
<1>1. NotifierFrame
  BY DEF Sweep, Accept, Succeed, Fail, Retry
<1>2. /\ sending \in [Ids -> Sending] /\ delivered \in [Ids -> Nat] /\ lost \in [Ids -> Nat]
      /\ decisions \in [Ids -> Decision \cup {NoDecision}]
  BY DEF TypeOK, NotifierTypeOK, StoreTypeOK, DecisionsOK
<1>3. ASSUME NEW r \in Sending, sending' = [sending EXCEPT ![d] = r]
      PROVE  sending' \in [Ids -> Sending]
  BY <1>2, <1>3
<1>4. SUFFICES /\ \E r \in Sending : sending' = [sending EXCEPT ![d] = r]
               /\ delivered' \in [Ids -> Nat] /\ lost' \in [Ids -> Nat]
               /\ DecisionsOK'
  BY <1>1, <1>3 DEF NotifierFrame, TypeOK, StoreTypeOK, ClassifierTypeOK, ScannerTypeOK,
                    NotifierTypeOK, classifierVars, scannerVars
<1>5. decisions' = decisions => DecisionsOK'
  BY <1>1 DEF NotifierFrame, TypeOK, StoreTypeOK, DecisionsOK
<1>6. CASE Sweep(d)
  BY <1>2, <1>5, <1>6, SendingTypes DEF Sweep, SweepNotifies
<1>7. CASE Accept(d)
  <2>1. sending' = [sending EXCEPT ![d] = [sending[d] EXCEPT !.phase = "accepted"]]
    BY <1>2, <1>7 DEF Accept, TelegramAccepts
  <2>2. delivered' \in [Ids -> Nat] /\ lost' = lost /\ decisions' = decisions
    BY <1>2, <1>7 DEF Accept, TelegramAccepts
  <2>3. QED
    BY <1>2, <1>5, <2>1, <2>2, SendingTypes
<1>8. CASE Succeed(d)
  <2>1. decisions[d] \in Decision
    BY <1>8 DEF Succeed, SendSucceeds, SendsOK, TypeOK, StoreTypeOK, DecisionsOK
  <2>2. [decisions[d] EXCEPT !.notified = TRUE] \in Decision
    BY <2>1 DEF Decision
  <2>3. DecisionsOK'
    BY <1>1, <1>8, <2>1, <2>2
       DEF Succeed, SendSucceeds, NotifierFrame, TypeOK, StoreTypeOK, DecisionsOK
  <2>4. QED
    BY <1>2, <1>8, <2>3, SendingTypes DEF Succeed, SendSucceeds
<1>9. CASE Fail(d)
  <2>1. lost' \in [Ids -> Nat] /\ delivered' = delivered /\ decisions' = decisions
    BY <1>2, <1>9 DEF Fail, SendFails
  <2>2. CASE sending[d].attempt < MaxAttempts
    <3>1. sending' = [sending EXCEPT ![d] = [sending[d] EXCEPT !.phase = "backoff"]]
      BY <1>2, <1>9, <2>2 DEF Fail, SendFails
    <3>2. QED
      BY <1>2, <1>5, <2>1, <3>1, SendingTypes
  <2>3. CASE ~(sending[d].attempt < MaxAttempts)
    <3>1. sending' = [sending EXCEPT ![d] = Idle]
      BY <1>2, <1>9, <2>3 DEF Fail, SendFails
    <3>2. QED
      BY <1>2, <1>5, <2>1, <3>1, SendingTypes
  <2>4. QED
    BY <2>2, <2>3
<1>10. CASE Retry(d)
  <2>1. sending[d].attempt < MaxAttempts
    BY <1>10 DEF Retry, SendRetries, SendsOK
  <2>2. sending' = [sending EXCEPT ![d] = [phase |-> "calling", attempt |-> sending[d].attempt + 1]]
    BY <1>10 DEF Retry, SendRetries
  <2>3. QED
    BY <1>2, <1>5, <1>10, <2>1, <2>2, SendingTypes DEF Retry, SendRetries
<1>11. QED
  BY <1>6, <1>7, <1>8, <1>9, <1>10

LEMMA RaiseCandidateType ==
    ASSUME TypeOK, NEW s \in Sessions, NEW summary \in Screens, NEW tail \in Screens,
           NEW boundary \in Nat, RaiseCandidate(s, summary, tail, boundary)
    PROVE  QueueTypeOK'
<1>1. dedup' \in [Screens -> DedupRow]
  BY DEF RaiseCandidate, RecordDedup, TypeOK, StoreTypeOK, DedupRow
<1>2. CASE IsDuplicate(tail, asOf)
  <2>1. Heuristic(states[s], "waiting_for_input", boundary) \in StateRow
    BY HeuristicType DEF TypeOK, StoreTypeOK, ValidStates
  <2>2. QED
    BY <1>1, <1>2, <2>1
       DEF RaiseCandidate, QueueTypeOK, TypeOK, StoreTypeOK, DecisionsOK, ClassifierTypeOK,
           NotifierTypeOK, classifierVars, notifierVars
<1>3. CASE ~IsDuplicate(tail, asOf)
  <2>1. IngestCandidate(decisions, states[s], s, summary, "high", FALSE, TRUE, "heuristic")
    BY <1>3 DEF RaiseCandidate
  <2>2. states[s] \in StateRow
    BY DEF TypeOK, StoreTypeOK
  <2>3. QED
    BY <1>1, <2>1, <2>2, OpenTable, IngestType DEF QueueTypeOK, StoreTypeOK
<1>4. QED
  BY <1>2, <1>3

LEMMA QueueUnchanged == TypeOK /\ UNCHANGED queueVars => QueueTypeOK'
BY DEF QueueTypeOK, TypeOK, StoreTypeOK, DecisionsOK, ClassifierTypeOK, NotifierTypeOK,
       queueVars, storeVars, classifierVars, notifierVars

LEMMA UnreadType ==
    ASSUME NEW u \in Unread, u.kind = "lines"
    PROVE  u.match \in Questions \cup {NoMatch} /\ u.screen \in Screens
BY DEF Unread, Nothing, Partial, Lines, Output

LEMMA ScanSilentType ==
    ASSUME TypeOK, NEW s \in Sessions, NEW st \in FileState, ScanSilent(s, st)
    PROVE  QueueTypeOK'
<1>1. st.tail \in Screens /\ st.boundary \in Nat
  BY DEF FileState
<1>2. CASE now < st.lastDeltaAt + StallTime
  BY <1>2, QueueUnchanged DEF ScanSilent
<1>3. CASE ~(now < st.lastDeltaAt + StallTime) /\ st.tail \in Questions
  BY <1>1, <1>3, RaiseCandidateType DEF ScanSilent
<1>4. CASE ~(now < st.lastDeltaAt + StallTime) /\ st.tail \notin Questions
  <2>1. Heuristic(states[s], "idle", st.boundary) \in StateRow
    BY <1>1, HeuristicType DEF TypeOK, StoreTypeOK, ValidStates
  <2>2. QED
    BY <1>4, <2>1
       DEF ScanSilent, QueueTypeOK, TypeOK, StoreTypeOK, DecisionsOK, ClassifierTypeOK,
           NotifierTypeOK, classifierVars, notifierVars
<1>5. QED
  BY <1>2, <1>3, <1>4

LEMMA ScanFileType ==
    ASSUME TypeOK, NEW s \in Sessions, ScanFile(s)
    PROVE  QueueTypeOK' /\ ScannerTypeOK'
<1> DEFINE st == fileStates[s]
           delta == unread[s]
<1>1. now \in Nat /\ asOf \in Nat /\ delta \in Unread
  BY DEF TypeOK, StoreTypeOK, ScannerTypeOK
<1>2. logs' \subseteq Sessions /\ scanning' \subseteq Sessions /\ asOf' \in Nat
  BY DEF ScanFile, TypeOK, ScannerTypeOK
<1>3. CASE s \notin logs
  <2>1. fileStates' = [fileStates EXCEPT ![s] = Forgotten] /\ UNCHANGED <<queueVars, unread>>
    BY <1>3 DEF ScanFile
  <2>2. QED
    BY <1>2, <2>1, QueueUnchanged DEF TypeOK, ScannerTypeOK
<1>4. CASE s \in logs
  <2>1. unread' \in [Sessions -> Unread]
    BY <1>4 DEF ScanFile, TypeOK, ScannerTypeOK, Unread
  <2>2. CASE ~st.known
    <3>1. [known |-> TRUE, tail |-> Blank, lastDeltaAt |-> now, boundary |-> asOf] \in FileState
      BY <1>1, StoreAssumption DEF FileState
    <3>2. fileStates' \in [Sessions -> FileState \cup {Forgotten}] /\ UNCHANGED queueVars
      BY <1>4, <2>2, <3>1 DEF ScanFile, TypeOK, ScannerTypeOK
    <3>3. QED
      BY <1>2, <2>1, <3>2, QueueUnchanged DEF ScannerTypeOK
  <2>3. CASE st.known
    <3> DEFINE after == [st EXCEPT !.boundary = now]
    <3>1. st \in FileState
      BY <2>3 DEF TypeOK, ScannerTypeOK, Forgotten
    <3>2. after \in FileState
      BY <1>1, <3>1 DEF FileState
    <3>3. CASE delta.kind = "lines"
      <4> DEFINE seen == [after EXCEPT !.tail = delta.screen, !.lastDeltaAt = now]
      <4>1. delta.match \in Questions \cup {NoMatch} /\ delta.screen \in Screens
        BY <1>1, <3>3, UnreadType
      <4>2. seen \in FileState
        BY <1>1, <3>2, <4>1 DEF FileState
      <4>3. /\ fileStates' = [fileStates EXCEPT ![s] = seen]
            /\ \/ delta.match = NoMatch /\ UNCHANGED queueVars
               \/ delta.match # NoMatch
                    /\ RaiseCandidate(s, delta.match, delta.screen, st.boundary)
        BY <1>4, <2>3, <3>3 DEF ScanFile
      <4>4. QueueTypeOK'
        <5>1. CASE delta.match = NoMatch /\ UNCHANGED queueVars
          BY <5>1, QueueUnchanged
        <5>2. CASE delta.match # NoMatch
                     /\ RaiseCandidate(s, delta.match, delta.screen, st.boundary)
          <6>1. delta.match \in Screens /\ st.boundary \in Nat
            BY <3>1, <4>1, <5>2, StoreAssumption DEF FileState
          <6>2. QED
            BY <4>1, <5>2, <6>1, RaiseCandidateType
        <5>3. QED
          BY <4>3, <5>1, <5>2
      <4>5. QED
        BY <1>2, <2>1, <4>2, <4>3, <4>4 DEF TypeOK, ScannerTypeOK
    <3>4. CASE delta.kind # "lines"
      <4>1. /\ fileStates' = [fileStates EXCEPT ![s] = after]
            /\ UNCHANGED queueVars \/ ScanSilent(s, st)
        BY <1>4, <2>3, <3>4 DEF ScanFile
      <4>2. QED
        BY <1>2, <2>1, <3>1, <3>2, <4>1, QueueUnchanged, ScanSilentType DEF TypeOK, ScannerTypeOK
    <3>5. QED
      BY <3>3, <3>4
  <2>4. QED
    BY <2>2, <2>3
<1>5. QED
  BY <1>3, <1>4

LEMMA TerminalStepType ==
    ASSUME TypeOK, NEW s \in Sessions, TerminalStep(s)
    PROVE  TypeOK'
<1>1. ASSUME NEW o \in Outputs[s], Write(s, o)
      PROVE  TypeOK'
  <2>1. o \in Output
    BY ScannerAssumption
  <2>2. unread[s] \in Unread /\ unread \in [Sessions -> Unread]
    BY DEF TypeOK, ScannerTypeOK
  <2> DEFINE q == [o EXCEPT !.match = FirstMatch(unread[s], o.match)]
  <2>3. q \in Output
    BY <2>1, <2>2 DEF Output, FirstMatch
  <2>4. Lines(q) \in Unread /\ Nothing \in Unread
    BY <2>3 DEF Unread
  <2>5. unread' = [unread EXCEPT ![s] = IF fileStates[s].known THEN Lines(q) ELSE Nothing]
    BY <1>1, <2>1 DEF Write, Output
  <2>6. unread' \in [Sessions -> Unread]
    BY <2>2, <2>4, <2>5
  <2>7. logs' \subseteq Sessions /\ shown' \in [Sessions -> Screens]
    BY <1>1, <2>1 DEF Write, TypeOK, StoreTypeOK, ScannerTypeOK, Output
  <2>8. QED
    BY <1>1, <2>6, <2>7
       DEF Write, TerminalStep, TypeOK, StoreTypeOK, DecisionsOK, ClassifierTypeOK,
           NotifierTypeOK, ScannerTypeOK, classifierVars, notifierVars
<1>2. CASE Repaint(s)
  <2>1. unread' \in [Sessions -> Unread]
    BY <1>2 DEF Repaint, TypeOK, ScannerTypeOK, Unread
  <2>2. QED
    BY <1>2, <2>1, QueueUnchanged
       DEF Repaint, TerminalStep, TypeOK, QueueTypeOK, ScannerTypeOK
<1>3. CASE LogRemoved(s)
  <2>1. /\ unread' \in [Sessions -> Unread] /\ logs' \subseteq Sessions
        /\ shown' \in [Sessions -> Screens]
    BY <1>3, StoreAssumption DEF LogRemoved, TypeOK, StoreTypeOK, ScannerTypeOK, Unread
  <2>2. QED
    BY <1>3, <2>1
       DEF LogRemoved, TerminalStep, TypeOK, StoreTypeOK, DecisionsOK, ClassifierTypeOK,
           NotifierTypeOK, ScannerTypeOK, classifierVars, notifierVars
<1>4. QED
  BY <1>1, <1>2, <1>3 DEF TerminalStep

-------------------------------------------------------------------------------
(* Notifications.                                                           *)

(* Each copy beyond the one that led to notified_at, or that is about to,   *)
(* is paid for by a lost answer or by a restart.                            *)
CopiesCounted ==
    \A d \in Ids :
        delivered[d] <= lost[d] + crashes
            + IF d <= lastId /\ (decisions[d].notified \/ sending[d].phase = "accepted")
                THEN 1 ELSE 0

(* The inductive invariant of the notifier.                                 *)
NotifierInv == TypeOK /\ SendsOK /\ CopiesCounted

(* What every step outside of the notifier does to its state: rows keep     *)
(* their mark, and a new row may start its first call.                      *)
KeepsMarks(ds) == \A d \in Ids : d <= lastId => ds[d].notified = decisions[d].notified

KeepsSends ==
    /\ lastId <= lastId'
    /\ UNCHANGED <<delivered, lost>>
    /\ KeepsMarks(decisions')
    /\ \A d \in Ids :
         \/ sending'[d] = sending[d]
         \/ lastId < d /\ d <= lastId' /\ sending'[d] = [phase |-> "calling", attempt |-> 1]
    /\ \A d \in Ids : lastId < d /\ d <= lastId' => ~decisions'[d].notified

LEMMA KeepsSendsKeepsInv ==
    ASSUME NotifierInv, TypeOK', KeepsSends, UNCHANGED crashes
    PROVE  NotifierInv'
<1>1. \A d \in Ids : d \in Nat
  BY DEF Ids
<1>2. lastId \in Nat /\ lastId' \in Nat
  BY DEF NotifierInv, TypeOK, StoreTypeOK, DecisionsOK
<1>3. SendsOK'
  BY <1>1, <1>2 DEF NotifierInv, SendsOK, KeepsSends, KeepsMarks
<1>4. ASSUME NEW d \in Ids
      PROVE  delivered'[d] <= lost'[d] + crashes'
               + IF d <= lastId' /\ (decisions'[d].notified \/ sending'[d].phase = "accepted")
                   THEN 1 ELSE 0
  <2>1. delivered[d] \in Nat /\ lost[d] \in Nat /\ crashes \in Nat /\ d \in Nat
    BY DEF NotifierInv, TypeOK, NotifierTypeOK, Ids
  <2>2. delivered'[d] = delivered[d] /\ lost'[d] = lost[d] /\ crashes' = crashes
    BY DEF KeepsSends
  <2>3. CASE d <= lastId
    <3>1. sending'[d] = sending[d] /\ decisions'[d].notified = decisions[d].notified /\ d <= lastId'
      BY <1>2, <2>1, <2>3 DEF KeepsSends, KeepsMarks
    <3>2. QED
      BY <2>1, <2>2, <2>3, <3>1 DEF NotifierInv, CopiesCounted
  <2>4. CASE ~(d <= lastId)
    BY <2>1, <2>2, <2>4 DEF NotifierInv, CopiesCounted
  <2>5. QED
    BY <2>3, <2>4
<1>5. QED
  BY <1>3, <1>4 DEF NotifierInv, CopiesCounted

LEMMA DrainKeepsMarks == ASSUME NEW s \in Sessions, TypeOK PROVE KeepsMarks(Drained(decisions, s))
<1>1. ASSUME NEW d \in Ids, d <= lastId
      PROVE  Drained(decisions, s)[d].notified = decisions[d].notified
  BY <1>1 DEF Drained, TypeOK, StoreTypeOK, DecisionsOK, Decision
<1>2. QED
  BY <1>1 DEF KeepsMarks

LEMMA IngestKeepsSends ==
    ASSUME TypeOK, NEW ds, IsTable(ds), KeepsMarks(ds), NEW row, NEW s \in Sessions,
           NEW summary, NEW risk, NEW replaceMetadata \in BOOLEAN,
           NEW automate \in BOOLEAN, NEW stateSource,
           IngestCandidate(ds, row, s, summary, risk, replaceMetadata, automate, stateSource)
    PROVE  KeepsSends
<1>1. lastId \in Nat /\ sending \in [Ids -> Sending]
  BY DEF TypeOK, StoreTypeOK, DecisionsOK, NotifierTypeOK
<1>2. UNCHANGED <<delivered, lost>>
  BY DEF IngestCandidate
<1>3. ASSUME NEW d \in Ids, IsLatestOpen(ds, d, s),
             decisions' = [ds EXCEPT ![d] =
                  IF replaceMetadata
                    THEN [@ EXCEPT !.summary = summary, !.risk = NormalizedRisk(risk)]
                    ELSE [@ EXCEPT !.summary = summary]],
             UNCHANGED <<lastId, requests, sending>>
      PROVE  KeepsSends
  <2>1. ds[d] \in Decision
    BY <1>3, RowsHaveStatus DEF IsLatestOpen, OpenIn, ValidStatus, IsTable
  <2>2. /\ [ds[d] EXCEPT !.summary = summary, !.risk = NormalizedRisk(risk)].notified = ds[d].notified
        /\ [ds[d] EXCEPT !.summary = summary].notified = ds[d].notified
    BY <2>1 DEF Decision
  <2>3. \A e \in Ids : decisions'[e].notified = ds[e].notified
    BY <1>3, <2>2 DEF IsTable
  <2>4. QED
    BY <1>1, <1>2, <1>3, <2>3 DEF KeepsSends, KeepsMarks, Ids
<1>4. ASSUME lastId < MaxDecisions, lastId' = lastId + 1,
             decisions' = [ds EXCEPT ![lastId + 1] = NewDecision(s, summary, risk)],
             IF automate
               THEN MaybeClassify(s, lastId + 1) /\ MaybeNotify(lastId + 1)
               ELSE UNCHANGED <<requests, sending>>
      PROVE  KeepsSends
  <2>1. lastId + 1 \in Ids
    BY <1>1, <1>4, StoreAssumption DEF Ids
  <2>2. decisions'[lastId + 1].notified = FALSE
    BY <1>4, <2>1 DEF IsTable, NewDecision
  <2>3. \A d \in Ids : d <= lastId => decisions'[d] = ds[d]
    BY <1>1, <1>4, <2>1 DEF IsTable, Ids
  <2>4. \A d \in Ids :
          \/ sending'[d] = sending[d]
          \/ d = lastId + 1 /\ sending'[d] = [phase |-> "calling", attempt |-> 1]
    BY <1>1, <1>4, <2>1 DEF MaybeNotify
  <2>5. QED
    BY <1>1, <1>2, <1>4, <2>2, <2>3, <2>4 DEF KeepsSends, KeepsMarks, Ids
<1>5. QED
  BY <1>3, <1>4 DEF IngestCandidate

LEMMA UnchangedKeepsSends ==
    ASSUME TypeOK, UNCHANGED <<lastId, decisions, notifierVars>> PROVE KeepsSends
BY DEF KeepsSends, KeepsMarks, notifierVars, TypeOK, StoreTypeOK, DecisionsOK, Ids

LEMMA HookKeepsSends ==
    ASSUME TypeOK, NEW s \in Sessions, NEW p \in Payloads, Hook(s, p)
    PROVE  KeepsSends
<1> DEFINE mapped == IF p.event = "none" THEN "none" ELSE HookEventState[p.event]
           row1 == IF p.state = "none" THEN states[s] ELSE Upserted(states[s], p.state, "hook")
           row2 == IF mapped = "none" THEN row1 ELSE Upserted(row1, mapped, "hook")
           ds == IF p.event \in HookResumeEvents THEN Drained(decisions, s) ELSE decisions
<1>1. IsTable(ds) /\ KeepsMarks(ds)
  BY OpenTable, DrainedTable, DrainKeepsMarks DEF KeepsMarks
<1>2. CASE IngestCandidate(ds, row2, s, p.question, p.risk, TRUE, FALSE, "hook")
  BY <1>1, <1>2, IngestKeepsSends
<1>3. CASE IngestCandidate(ds, row2, s, p.question, "high", FALSE, TRUE, "hook")
  BY <1>1, <1>3, IngestKeepsSends
<1>4. CASE decisions' = ds /\ UNCHANGED <<lastId, notifierVars>>
  BY <1>1, <1>4 DEF KeepsSends, KeepsMarks, notifierVars, TypeOK, StoreTypeOK, DecisionsOK, Ids
<1>5. QED
  BY <1>2, <1>3, <1>4 DEF Hook

LEMMA PatchKeepsSends ==
    ASSUME TypeOK, NEW d \in Ids, NEW status, Patch(d, status)
    PROVE  KeepsSends
<1>1. decisions[d] \in Decision
  BY DEF Patch, TypeOK, StoreTypeOK, DecisionsOK
<1>2. [decisions[d] EXCEPT !.status = status].notified = decisions[d].notified
  BY <1>1 DEF Decision
<1>3. KeepsMarks(decisions')
  BY <1>2 DEF Patch, KeepsMarks, TypeOK, StoreTypeOK, DecisionsOK
<1>4. UNCHANGED <<lastId, sending, delivered, lost>>
  BY DEF Patch, notifierVars
<1>5. QED
  BY <1>3, <1>4 DEF KeepsSends, TypeOK, StoreTypeOK, DecisionsOK, Ids

LEMMA ClassifierKeepsSends ==
    ASSUME TypeOK, NEW s \in Sessions, ClassifierStep(s)
    PROVE  KeepsSends
<1>1. UNCHANGED <<lastId, notifierVars>>
  BY DEF ClassifierStep
<1>2. CASE UNCHANGED decisions
  BY <1>1, <1>2, UnchangedKeepsSends
<1>3. ASSUME NEW state \in ValidStates, NEW risk \in ValidRisks, ClassifyAnswers(s, state, risk),
             decisions[requests[s].decision].status = "pending"
      PROVE  KeepsSends
  <2> DEFINE r == requests[s]
  <2>1. r \in Request
    BY <1>3, CallsType DEF ClassifyAnswers
  <2>2. decisions[r.decision] \in Decision
    BY <1>3, <2>1, OpenTable, RowsHaveStatus DEF Request, IsTable, ValidStatus, OpenStatus
  <2>3. [decisions[r.decision] EXCEPT !.summary = r.saw, !.risk = risk].notified
            = decisions[r.decision].notified
    BY <2>2 DEF Decision
  <2>4. decisions' = [decisions EXCEPT ![r.decision] = [@ EXCEPT !.summary = r.saw, !.risk = risk]]
    BY <1>3, <2>1, <2>2, OpenTable DEF ClassifyAnswers, IsTable, Request
  <2>5. KeepsMarks(decisions')
    BY <2>1, <2>3, <2>4, OpenTable DEF KeepsMarks, IsTable
  <2>6. QED
    BY <1>1, <2>5 DEF KeepsSends, notifierVars, TypeOK, StoreTypeOK, DecisionsOK, Ids
<1>4. QED
  BY <1>2, <1>3 DEF ClassifierStep, ClassifyFails, ClassifyAnswers

LEMMA RaiseKeepsSends ==
    ASSUME TypeOK, NEW s \in Sessions, NEW summary, NEW tail, NEW boundary,
           RaiseCandidate(s, summary, tail, boundary)
    PROVE  KeepsSends
<1>1. CASE IsDuplicate(tail, asOf)
  BY <1>1, UnchangedKeepsSends DEF RaiseCandidate
<1>2. CASE ~IsDuplicate(tail, asOf)
  <2>1. KeepsMarks(decisions)
    BY DEF KeepsMarks
  <2>2. IngestCandidate(decisions, states[s], s, summary, "high", FALSE, TRUE, "heuristic")
    BY <1>2 DEF RaiseCandidate
  <2>3. QED
    BY <2>1, <2>2, OpenTable, IngestKeepsSends
<1>3. QED
  BY <1>1, <1>2

LEMMA ScanFileKeepsSends ==
    ASSUME TypeOK, NEW s \in Sessions, ScanFile(s)
    PROVE  KeepsSends
<1>1. CASE UNCHANGED queueVars
  BY <1>1, UnchangedKeepsSends DEF queueVars, storeVars
<1>2. CASE RaiseCandidate(s, unread[s].match, unread[s].screen, fileStates[s].boundary)
  BY <1>2, RaiseKeepsSends
<1>3. CASE ScanSilent(s, fileStates[s])
  <2>1. CASE RaiseCandidate(s, fileStates[s].tail, fileStates[s].tail, fileStates[s].boundary)
    BY <2>1, RaiseKeepsSends
  <2>2. CASE UNCHANGED <<lastId, decisions, notifierVars>>
    BY <2>2, UnchangedKeepsSends
  <2>3. QED
    BY <1>1, <1>3, <2>1, <2>2 DEF ScanSilent
<1>4. QED
  BY <1>1, <1>2, <1>3 DEF ScanFile

(* The steps of the notifier itself, one decision at a time.                *)
LEMMA NotifierStepKeepsInv ==
    ASSUME NotifierInv, NEW d \in Ids,
           Sweep(d) \/ Accept(d) \/ Succeed(d) \/ Fail(d) \/ Retry(d)
    PROVE  SendsOK' /\ CopiesCounted'
<1>1. NotifierFrame
  BY DEF Sweep, Accept, Succeed, Fail, Retry
<1>2. UNCHANGED <<lastId, crashes>>
  BY <1>1 DEF NotifierFrame
<1>3. /\ sending \in [Ids -> Sending] /\ delivered \in [Ids -> Nat] /\ lost \in [Ids -> Nat]
      /\ decisions \in [Ids -> Decision \cup {NoDecision}]
      /\ \A e \in Ids : decisions[e] \in Decision <=> e <= lastId
      /\ crashes \in Nat
  BY DEF NotifierInv, TypeOK, NotifierTypeOK, StoreTypeOK, DecisionsOK
<1>4. \A e \in Ids \ {d} : /\ sending'[e] = sending[e] /\ delivered'[e] = delivered[e]
                           /\ lost'[e] = lost[e] /\ decisions'[e] = decisions[e]
  BY <1>3 DEF Sweep, SweepNotifies, Accept, TelegramAccepts, Succeed, SendSucceeds,
              Fail, SendFails, Retry, SendRetries
<1> DEFINE Sends(e) ==
               /\ sending[e].phase = "backoff" => sending[e].attempt < MaxAttempts
               /\ sending[e].phase # "idle" => e <= lastId /\ ~decisions[e].notified
           Copies(e) ==
               delivered[e] <= lost[e] + crashes
                 + IF e <= lastId /\ (decisions[e].notified \/ sending[e].phase = "accepted")
                     THEN 1 ELSE 0
<1>5. Sends(d) /\ Copies(d)
  BY DEF NotifierInv, SendsOK, CopiesCounted
<1>6. SUFFICES Sends(d)' /\ Copies(d)'
  BY <1>2, <1>4 DEF NotifierInv, SendsOK, CopiesCounted
<1>7. decisions[d] \in Decision => decisions[d].notified \in BOOLEAN
  BY DEF Decision
<1>8. sending[d] \in Sending /\ delivered[d] \in Nat /\ lost[d] \in Nat
  BY <1>3
<1>9. CASE Sweep(d)
  <2>1. sending'[d] = [phase |-> "calling", attempt |-> 1]
    BY <1>3, <1>9 DEF Sweep, SweepNotifies
  <2>2. /\ d <= lastId /\ ~decisions[d].notified
        /\ UNCHANGED <<decisions, delivered, lost>> /\ sending[d].phase = "idle"
    BY <1>3, <1>9, OpenTable, RowsHaveStatus
       DEF Sweep, SweepNotifies, NotifierInv, ValidStatus, OpenStatus
  <2>3. QED
    BY <1>2, <1>5, <1>8, <2>1, <2>2
<1>10. CASE Accept(d)
  <2>1. /\ sending'[d].phase = "accepted"
        /\ delivered'[d] = delivered[d] + 1
        /\ UNCHANGED <<decisions, lost>> /\ sending[d].phase = "calling"
    BY <1>3, <1>8, <1>10 DEF Accept, TelegramAccepts, Sending
  <2>2. QED
    BY <1>2, <1>3, <1>5, <1>8, <2>1
<1>11. CASE Succeed(d)
  <2>1. /\ sending'[d] = Idle /\ sending[d].phase = "accepted"
        /\ UNCHANGED <<delivered, lost>>
    BY <1>3, <1>11 DEF Succeed, SendSucceeds
  <2>2. decisions'[d].notified
    BY <1>3, <1>5, <1>11, <2>1 DEF Succeed, SendSucceeds, Decision
  <2>3. QED
    BY <1>2, <1>5, <1>8, <2>1, <2>2 DEF Idle
<1>12. CASE Fail(d)
  <2>1. sending'[d] = IF sending[d].attempt < MaxAttempts
                        THEN [sending[d] EXCEPT !.phase = "backoff"] ELSE Idle
    BY <1>3, <1>12 DEF Fail, SendFails
  <2>2. /\ sending'[d].phase \in {"backoff", "idle"}
        /\ sending'[d].phase = "backoff" => sending'[d].attempt < MaxAttempts
    BY <1>8, <2>1 DEF Sending, Idle
  <2>3. /\ sending[d].phase \in {"calling", "accepted"}
        /\ UNCHANGED <<decisions, delivered>>
        /\ lost'[d] = lost[d] + IF sending[d].phase = "accepted" THEN 1 ELSE 0
    BY <1>3, <1>8, <1>12 DEF Fail, SendFails
  <2>4. QED
    BY <1>2, <1>3, <1>5, <1>8, <2>2, <2>3
<1>13. CASE Retry(d)
  <2>1. sending'[d].phase = "calling" /\ sending[d].phase = "backoff"
    BY <1>3, <1>13 DEF Retry, SendRetries
  <2>2. UNCHANGED <<decisions, delivered, lost>>
    BY <1>13 DEF Retry, SendRetries
  <2>3. QED
    BY <1>2, <1>5, <1>8, <2>1, <2>2
<1>14. QED
  BY <1>9, <1>10, <1>11, <1>12, <1>13

LEMMA OtherSteps ==
    ASSUME NotifierInv,
           DayEnds \/ Tick \/ (ScanBegins /\ UNCHANGED crashes) \/ UNCHANGED allVars
    PROVE  TypeOK' /\ KeepsSends /\ UNCHANGED crashes
<1>1. TypeOK
  BY DEF NotifierInv
<1>2. UNCHANGED <<lastId, decisions, notifierVars, crashes>>
  BY DEF DayEnds, Midnight, Tick, ScanBegins, allVars, vars, queueVars, storeVars
<1>3. SUFFICES TypeOK'
  BY <1>1, <1>2, UnchangedKeepsSends
<1>4. CASE DayEnds
  BY <1>1, <1>4 DEF DayEnds, Midnight, TypeOK, StoreTypeOK, DecisionsOK, ClassifierTypeOK,
        NotifierTypeOK, ScannerTypeOK, storeVars, notifierVars, scannerVars
<1>5. CASE Tick
  BY <1>1, <1>5 DEF Tick, TypeOK, StoreTypeOK, DecisionsOK, ClassifierTypeOK,
        NotifierTypeOK, ScannerTypeOK, classifierVars, notifierVars, scannerVars
<1>6. CASE ScanBegins /\ UNCHANGED crashes
  <2>1. ScannerTypeOK'
    BY <1>1, <1>6 DEF ScanBegins, TypeOK, ScannerTypeOK, queueVars, storeVars, StoreTypeOK
  <2>2. QueueTypeOK'
    BY <1>1, <1>6, QueueUnchanged DEF ScanBegins
  <2>3. QED
    BY <1>1, <1>6, <2>1, <2>2 DEF TypeOK, QueueTypeOK
<1>7. CASE UNCHANGED allVars
  <2>1. QueueTypeOK'
    BY <1>1, <1>7, QueueUnchanged DEF allVars, vars
  <2>2. ScannerTypeOK' /\ crashes' \in Nat
    BY <1>1, <1>7 DEF allVars, vars, scannerVars, TypeOK, ScannerTypeOK
  <2>3. QED
    BY <2>1, <2>2 DEF TypeOK, QueueTypeOK
<1>8. QED
  BY <1>4, <1>5, <1>6, <1>7

LEMMA RestartKeepsInv ==
    ASSUME NotifierInv, Restart
    PROVE  NotifierInv'
<1>1. TypeOK'
  BY NotifierAssumption
     DEF NotifierInv, Restart, TypeOK, StoreTypeOK, DecisionsOK, ClassifierTypeOK,
         NotifierTypeOK, ScannerTypeOK, storeVars, Idle, Sending, Unread
<1>2. SendsOK'
  BY DEF Restart, SendsOK, Idle
<1>3. ASSUME NEW d \in Ids
      PROVE  delivered'[d] <= lost'[d] + crashes'
               + IF d <= lastId' /\ (decisions'[d].notified \/ sending'[d].phase = "accepted")
                   THEN 1 ELSE 0
  <2>1. delivered[d] \in Nat /\ lost[d] \in Nat /\ crashes \in Nat
    BY DEF NotifierInv, TypeOK, NotifierTypeOK
  <2>2. delivered'[d] = delivered[d] /\ lost'[d] = lost[d] /\ crashes' = crashes + 1
    BY DEF Restart
  <2>3. delivered[d] <= lost[d] + crashes + 1
    BY <2>1 DEF NotifierInv, CopiesCounted
  <2>4. QED
    BY <2>1, <2>2, <2>3
<1>4. QED
  BY <1>1, <1>2, <1>3 DEF NotifierInv, CopiesCounted

LEMMA NotifierInvInit == Init => NotifierInv
<1> SUFFICES ASSUME Init PROVE NotifierInv
  OBVIOUS
<1>2. SendsOK
  BY DEF Init, NotifierInit, SendsOK, Idle
<1>3. CopiesCounted
  BY DEF Init, NotifierInit, CopiesCounted
<1>4. QED
  BY <1>2, <1>3, InitType DEF NotifierInv

LEMMA NotifierInvStep == NotifierInv /\ [Next]_allVars => NotifierInv'
<1> SUFFICES ASSUME NotifierInv, [Next]_allVars
             PROVE  NotifierInv'
  OBVIOUS
<1>2. TypeOK /\ SendsOK
  BY DEF NotifierInv
<1>3. ASSUME NEW s \in Sessions, NEW p \in Payloads, HandleHook(s, p)
      PROVE  NotifierInv'
  <2>1. TypeOK'
    BY <1>2, <1>3, HookType DEF HandleHook, TypeOK, QueueTypeOK, ScannerTypeOK, scannerVars
  <2>2. QED
    BY <1>2, <1>3, <2>1, HookKeepsSends, KeepsSendsKeepsInv DEF HandleHook
<1>4. ASSUME NEW d \in Ids, NEW status \in PatchStatuses, HandlePatch(d, status)
      PROVE  NotifierInv'
  <2>1. TypeOK'
    BY <1>2, <1>4, PatchType DEF HandlePatch, TypeOK, QueueTypeOK, ScannerTypeOK, scannerVars
  <2>2. QED
    BY <1>2, <1>4, <2>1, PatchKeepsSends, KeepsSendsKeepsInv DEF HandlePatch
<1>5. ASSUME NEW s \in Sessions, ScanFile(s), UNCHANGED crashes
      PROVE  NotifierInv'
  <2>1. TypeOK'
    BY <1>2, <1>5, ScanFileType DEF TypeOK, QueueTypeOK
  <2>2. QED
    BY <1>2, <1>5, <2>1, ScanFileKeepsSends, KeepsSendsKeepsInv
<1>6. ASSUME NEW s \in Sessions, ClassifierStep(s)
      PROVE  NotifierInv'
  BY <1>2, <1>6, ClassifierStepType, ClassifierKeepsSends, KeepsSendsKeepsInv DEF ClassifierStep
<1>7. ASSUME NEW d \in Ids, Sweep(d) \/ Accept(d) \/ Succeed(d) \/ Fail(d) \/ Retry(d)
      PROVE  NotifierInv'
  BY <1>2, <1>7, NotifierStepType, NotifierStepKeepsInv DEF NotifierInv
<1>8. ASSUME NEW s \in Sessions, TerminalStep(s)
      PROVE  NotifierInv'
  <2>1. KeepsSends /\ UNCHANGED crashes
    BY <1>2, <1>8, UnchangedKeepsSends
       DEF TerminalStep, Write, Repaint, LogRemoved, queueVars, storeVars
  <2>2. QED
    BY <1>2, <1>8, <2>1, TerminalStepType, KeepsSendsKeepsInv
<1>9. CASE DayEnds \/ Tick \/ (ScanBegins /\ UNCHANGED crashes) \/ UNCHANGED allVars
  BY <1>9, OtherSteps, KeepsSendsKeepsInv
<1>10. CASE Restart
  BY <1>10, RestartKeepsInv
<1>11. QED
  BY <1>3, <1>4, <1>5, <1>6, <1>7, <1>8, <1>9, <1>10 DEF Next, ScanStep

LEMMA NotifierInvAlways == Spec => []NotifierInv
BY NotifierInvInit, NotifierInvStep, PTL DEF Spec

(* The state of the watcher keeps its shape in every behaviour: every row,  *)
(* every call in flight and every remembered file.                          *)
THEOREM TypeCorrect == Spec => []TypeOK
<1>1. NotifierInv => TypeOK
  BY DEF NotifierInv
<1>2. QED
  BY <1>1, NotifierInvAlways, PTL

(* No decision's message reaches the operator more often than once, once    *)
(* for each lost answer and once for each restart: the notifier adds no     *)
(* copy of its own, however sweep, retries and sends interleave.            *)
THEOREM DuplicatesBounded == Spec => []DuplicatesAccounted
<1>1. NotifierInv => DuplicatesAccounted
  <2> SUFFICES ASSUME NotifierInv, NEW d \in Ids
               PROVE  delivered[d] <= 1 + lost[d] + crashes
    BY DEF DuplicatesAccounted
  <2>2. delivered[d] \in Nat /\ lost[d] \in Nat /\ crashes \in Nat
    BY DEF NotifierInv, TypeOK, NotifierTypeOK
  <2>3. QED
    BY <2>2 DEF NotifierInv, CopiesCounted
<1>2. QED
  BY <1>1, NotifierInvAlways, PTL

===============================================================================
