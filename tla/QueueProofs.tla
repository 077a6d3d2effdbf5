------------------------------ MODULE QueueProofs -----------------------------
(***************************************************************************)
(* Theorems about the decision queue and the session states: what the       *)
(* handlers guarantee together, in any order, for every instance.           *)
(***************************************************************************)
EXTENDS WatcherProofs, FiniteSetTheorems

-------------------------------------------------------------------------------
(* The shape of a handler's effect on the decisions table.                  *)

(* Row e of ds is row e of the table, or that row settled by a hook.        *)
KeptOrDrained(ds) ==
    \A e \in Ids : \/ ds[e] = decisions[e]
                   \/ /\ decisions[e].status \in OpenStatus
                      /\ ds[e] = [decisions[e] EXCEPT !.status = "answered"]

LEMMA DrainedShape ==
    ASSUME NEW s \in Sessions PROVE KeptOrDrained(Drained(decisions, s))
BY DEF KeptOrDrained, Drained, OpenIn

LEMMA SameShape == KeptOrDrained(decisions)
BY DEF KeptOrDrained

(* What ingestCandidate leaves behind in the table.                         *)
Absorbed(ds, s) ==
    \E d \in OpenIn(ds, s) :
        /\ decisions'[d].status = ds[d].status
        /\ decisions'[d].session = s
        /\ \A e \in Ids \ {d} : decisions'[e] = ds[e]

Created(ds, s) ==
    /\ OpenIn(ds, s) = {}
    /\ \E d \in Ids :
         /\ d = lastId + 1
         /\ ds[d].status \notin ValidStatus
         /\ decisions'[d].status = "pending"
         /\ decisions'[d].session = s
         /\ \A e \in Ids \ {d} : decisions'[e] = ds[e]

LEMMA IngestShape ==
    ASSUME TypeOK, NEW ds, IsTable(ds), NEW row, NEW s \in Sessions, NEW summary, NEW risk,
           NEW replaceMetadata \in BOOLEAN, NEW automate \in BOOLEAN, NEW stateSource,
           IngestCandidate(ds, row, s, summary, risk, replaceMetadata, automate, stateSource)
    PROVE  Absorbed(ds, s) \/ Created(ds, s)
<1>1. lastId \in Nat /\ MaxDecisions \in Nat
  BY StoreAssumption DEF TypeOK, StoreTypeOK, DecisionsOK
<1>2. ASSUME NEW d \in Ids, IsLatestOpen(ds, d, s),
             decisions' = [ds EXCEPT ![d] =
                  IF replaceMetadata
                    THEN [@ EXCEPT !.summary = summary, !.risk = NormalizedRisk(risk)]
                    ELSE [@ EXCEPT !.summary = summary]]
      PROVE  Absorbed(ds, s)
  <2>1. d \in OpenIn(ds, s) /\ ds[d].session = s
    BY <1>2 DEF IsLatestOpen, OpenIn
  <2>2. ds[d] \in Decision
    BY <2>1, RowsHaveStatus DEF OpenIn, ValidStatus, IsTable
  <2>3. /\ [ds[d] EXCEPT !.summary = summary, !.risk = NormalizedRisk(risk)].status = ds[d].status
        /\ [ds[d] EXCEPT !.summary = summary, !.risk = NormalizedRisk(risk)].session = ds[d].session
        /\ [ds[d] EXCEPT !.summary = summary].status = ds[d].status
        /\ [ds[d] EXCEPT !.summary = summary].session = ds[d].session
    BY <2>2 DEF Decision
  <2>4. decisions'[d].status = ds[d].status /\ decisions'[d].session = ds[d].session
    BY <1>2, <2>3 DEF IsTable
  <2>5. \A e \in Ids \ {d} : decisions'[e] = ds[e]
    BY <1>2 DEF IsTable
  <2>6. QED
    BY <2>1, <2>4, <2>5 DEF Absorbed
<1>3. ASSUME OpenIn(ds, s) = {}, lastId < MaxDecisions,
             decisions' = [ds EXCEPT ![lastId + 1] = NewDecision(s, summary, risk)]
      PROVE  Created(ds, s)
  <2>1. lastId + 1 \in Ids /\ ~(lastId + 1 <= lastId)
    BY <1>1, <1>3 DEF Ids
  <2>2. ds[lastId + 1].status \notin ValidStatus
    BY <2>1, RowsHaveStatus
  <2>3. decisions'[lastId + 1] = NewDecision(s, summary, risk)
    BY <1>3, <2>1 DEF IsTable
  <2>4. decisions'[lastId + 1].status = "pending" /\ decisions'[lastId + 1].session = s
    BY <2>3 DEF NewDecision
  <2>5. \A e \in Ids \ {lastId + 1} : decisions'[e] = ds[e]
    BY <1>3 DEF IsTable
  <2>6. QED
    BY <1>3, <2>1, <2>2, <2>4, <2>5 DEF Created
<1>4. QED
  BY <1>2, <1>3 DEF IngestCandidate

(* What a PATCH and an LLM answer leave of a row.                           *)
Relabelled ==
    \E d \in Ids, status \in ValidStatus \ {"pending"} :
        decisions' = [decisions EXCEPT ![d] = [@ EXCEPT !.status = status]] /\ d <= lastId

Reworded ==
    \E d \in Ids, summary \in Screens, risk \in ValidRisks :
        /\ decisions[d].status = "pending"
        /\ decisions' = [decisions EXCEPT ![d] = [@ EXCEPT !.summary = summary, !.risk = risk]]

Marked ==
    \E d \in Ids :
        d <= lastId /\ decisions' = [decisions EXCEPT ![d] = [@ EXCEPT !.notified = TRUE]]

(* Every step does one of these to the table.                               *)
TableStep ==
    \/ KeptOrDrained(decisions')
    \/ Relabelled
    \/ Reworded
    \/ Marked
    \/ \E s \in Sessions : \E ds : /\ IsTable(ds) /\ KeptOrDrained(ds)
                                   /\ Absorbed(ds, s) \/ Created(ds, s)

LEMMA HookTable ==
    ASSUME TypeOK, NEW s \in Sessions, NEW p \in Payloads, Hook(s, p)
    PROVE  TableStep
<1> DEFINE mapped == IF p.event = "none" THEN "none" ELSE HookEventState[p.event]
           row1 == IF p.state = "none" THEN states[s] ELSE Upserted(states[s], p.state, "hook")
           row2 == IF mapped = "none" THEN row1 ELSE Upserted(row1, mapped, "hook")
           ds == IF p.event \in HookResumeEvents THEN Drained(decisions, s) ELSE decisions
<1>1. IsTable(ds)
  BY OpenTable, DrainedTable
<1>2. KeptOrDrained(ds)
  BY DrainedShape, SameShape
<1>3. CASE IngestCandidate(ds, row2, s, p.question, p.risk, TRUE, FALSE, "hook")
  <2>1. Absorbed(ds, s) \/ Created(ds, s)
    BY <1>1, <1>3, IngestShape
  <2>2. QED
    BY <1>1, <1>2, <2>1 DEF TableStep
<1>4. CASE IngestCandidate(ds, row2, s, p.question, "high", FALSE, TRUE, "hook")
  <2>1. Absorbed(ds, s) \/ Created(ds, s)
    BY <1>1, <1>4, IngestShape
  <2>2. QED
    BY <1>1, <1>2, <2>1 DEF TableStep
<1>5. CASE decisions' = ds
  BY <1>2, <1>5 DEF TableStep
<1>6. QED
  BY <1>3, <1>4, <1>5 DEF Hook

LEMMA PatchTable ==
    ASSUME TypeOK, NEW d \in Ids, NEW status \in PatchStatuses, Patch(d, status)
    PROVE  Relabelled
<1>1. status \in ValidStatus \ {"pending"}
  BY WatcherAssumption
<1>2. d <= lastId /\ decisions' = [decisions EXCEPT ![d] = [@ EXCEPT !.status = status]]
  BY DEF Patch, TypeOK, StoreTypeOK, DecisionsOK
<1>3. QED
  BY <1>1, <1>2 DEF Relabelled

LEMMA ClassifierRewords ==
    ASSUME TypeOK, NEW s \in Sessions, NEW state \in ValidStates, NEW risk \in ValidRisks,
           ClassifyAnswers(s, state, risk), decisions[requests[s].decision].status = "pending"
    PROVE  Reworded
<1>1. requests[s] \in Request
  BY CallsType DEF ClassifyAnswers
<1>2. requests[s].decision \in Ids /\ requests[s].saw \in Screens
  BY <1>1 DEF Request
<1>3. decisions' = [decisions EXCEPT ![requests[s].decision] =
                       [@ EXCEPT !.summary = requests[s].saw, !.risk = risk]]
  BY <1>2, OpenTable DEF ClassifyAnswers, IsTable
<1>4. QED
  BY <1>2, <1>3 DEF Reworded

LEMMA ClassifierTable ==
    ASSUME TypeOK, NEW s \in Sessions, ClassifierStep(s)
    PROVE  TableStep
<1>1. CASE UNCHANGED decisions
  BY <1>1, SameShape DEF TableStep
<1>2. ASSUME NEW state \in ValidStates, NEW risk \in ValidRisks, ClassifyAnswers(s, state, risk),
             decisions[requests[s].decision].status = "pending"
      PROVE  Reworded
  BY <1>2, ClassifierRewords
<1>3. QED
  BY <1>1, <1>2 DEF ClassifierStep, ClassifyFails, ClassifyAnswers, TableStep

LEMMA RaiseTable ==
    ASSUME TypeOK, NEW s \in Sessions, NEW summary, NEW tail, NEW boundary,
           RaiseCandidate(s, summary, tail, boundary)
    PROVE  TableStep
<1>1. CASE IsDuplicate(tail, asOf)
  BY <1>1, SameShape DEF RaiseCandidate, TableStep
<1>2. CASE ~IsDuplicate(tail, asOf)
  <2>1. IngestCandidate(decisions, states[s], s, summary, "high", FALSE, TRUE, "heuristic")
    BY <1>2 DEF RaiseCandidate
  <2>2. Absorbed(decisions, s) \/ Created(decisions, s)
    BY <2>1, OpenTable, IngestShape
  <2>3. QED
    BY <2>2, OpenTable, SameShape DEF TableStep
<1>3. QED
  BY <1>1, <1>2

LEMMA ScanFileTable ==
    ASSUME TypeOK, NEW s \in Sessions, ScanFile(s)
    PROVE  TableStep
<1>1. CASE UNCHANGED decisions
  BY <1>1, SameShape DEF TableStep
<1>2. CASE RaiseCandidate(s, unread[s].match, unread[s].screen, fileStates[s].boundary)
  BY <1>2, RaiseTable
<1>3. CASE RaiseCandidate(s, fileStates[s].tail, fileStates[s].tail, fileStates[s].boundary)
  BY <1>3, RaiseTable
<1>4. QED
  BY <1>1, <1>2, <1>3 DEF ScanFile, ScanSilent, queueVars, storeVars

LEMMA NotifierMarks ==
    ASSUME NotifierInv, NEW d \in Ids, Sweep(d) \/ Accept(d) \/ Succeed(d) \/ Fail(d) \/ Retry(d)
    PROVE  Marked \/ UNCHANGED decisions
<1>1. CASE Succeed(d)
  <2>1. d <= lastId
    BY <1>1 DEF Succeed, SendSucceeds, NotifierInv, SendsOK
  <2>2. decisions' = [decisions EXCEPT ![d] = [@ EXCEPT !.notified = TRUE]]
    BY <1>1, <2>1, OpenTable DEF Succeed, SendSucceeds, IsTable, NotifierInv
  <2>3. QED
    BY <2>1, <2>2 DEF Marked
<1>2. CASE Sweep(d) \/ Accept(d) \/ Fail(d) \/ Retry(d)
  BY <1>2 DEF Sweep, SweepNotifies, Accept, TelegramAccepts, Fail, SendFails, Retry, SendRetries
<1>3. QED
  BY <1>1, <1>2

LEMMA NotifierTable ==
    ASSUME NotifierInv, NEW d \in Ids, Sweep(d) \/ Accept(d) \/ Succeed(d) \/ Fail(d) \/ Retry(d)
    PROVE  TableStep
BY NotifierMarks, SameShape DEF TableStep

LEMMA EveryStepTable ==
    ASSUME NotifierInv, [Next]_allVars
    PROVE  TableStep
<1>1. TypeOK
  BY DEF NotifierInv
<1>2. ASSUME NEW s \in Sessions, NEW p \in Payloads, HandleHook(s, p)
      PROVE  TableStep
  BY <1>1, <1>2, HookTable DEF HandleHook
<1>3. ASSUME NEW d \in Ids, NEW status \in PatchStatuses, HandlePatch(d, status)
      PROVE  TableStep
  BY <1>1, <1>3, PatchTable DEF HandlePatch, TableStep
<1>4. ASSUME NEW s \in Sessions, ScanFile(s)
      PROVE  TableStep
  BY <1>1, <1>4, ScanFileTable
<1>5. ASSUME NEW s \in Sessions, ClassifierStep(s)
      PROVE  TableStep
  BY <1>1, <1>5, ClassifierTable
<1>6. ASSUME NEW d \in Ids, Sweep(d) \/ Accept(d) \/ Succeed(d) \/ Fail(d) \/ Retry(d)
      PROVE  TableStep
  BY <1>6, NotifierTable
<1>7. CASE UNCHANGED decisions
  BY <1>7, SameShape DEF TableStep
<1>8. DayEnds \/ Tick \/ Restart \/ ScanBegins \/ UNCHANGED allVars => UNCHANGED decisions
  BY DEF DayEnds, Tick, Restart, ScanBegins, allVars, vars, queueVars, storeVars
<1>9. ASSUME NEW s \in Sessions, TerminalStep(s)
      PROVE  UNCHANGED decisions
  BY <1>9 DEF TerminalStep, Write, Repaint, LogRemoved, queueVars, storeVars
<1>10. QED
  BY <1>2, <1>3, <1>4, <1>5, <1>6, <1>7, <1>8, <1>9 DEF Next, ScanStep

-------------------------------------------------------------------------------
(* One pending decision for each session.                                   *)

(* No row of ds is pending that was not.                                    *)
NoneNew(ds) ==
    \A e \in Ids : ds[e].status = "pending" =>
        decisions[e].status = "pending" /\ ds[e].session = decisions[e].session

LEMMA ShapeNoneNew ==
    ASSUME TypeOK, NEW ds, KeptOrDrained(ds) PROVE NoneNew(ds)
<1>1. ASSUME NEW e \in Ids, decisions[e].status \in OpenStatus
      PROVE  [decisions[e] EXCEPT !.status = "answered"].status = "answered"
  <2>1. decisions[e] \in Decision
    BY <1>1, OpenTable, RowsHaveStatus DEF IsTable, ValidStatus
  <2>2. QED
    BY <2>1 DEF Decision
<1>2. QED
  BY <1>1 DEF KeptOrDrained, NoneNew

LEMMA NoneNewKeepsOne ==
    ASSUME OnePendingPerSession, NoneNew(decisions') PROVE OnePendingPerSession'
BY DEF OnePendingPerSession, NoneNew

LEMMA OnePendingStep ==
    ASSUME TypeOK, OnePendingPerSession, TableStep
    PROVE  OnePendingPerSession'
<1>1. CASE KeptOrDrained(decisions')
  BY <1>1, ShapeNoneNew, NoneNewKeepsOne
<1>2. CASE Relabelled
  <2>1. PICK d \in Ids, status \in ValidStatus \ {"pending"} :
          decisions' = [decisions EXCEPT ![d] = [@ EXCEPT !.status = status]] /\ d <= lastId
    BY <1>2 DEF Relabelled
  <2>2. decisions[d] \in Decision
    BY <2>1, OpenTable DEF IsTable
  <2>3. [decisions[d] EXCEPT !.status = status].status = status
    BY <2>2 DEF Decision
  <2>4. NoneNew(decisions')
    BY <2>1, <2>3, OpenTable DEF NoneNew, IsTable
  <2>5. QED
    BY <2>4, NoneNewKeepsOne
<1>3. CASE Reworded
  <2>1. PICK d \in Ids, summary \in Screens, risk \in ValidRisks :
          /\ decisions[d].status = "pending"
          /\ decisions' = [decisions EXCEPT ![d] = [@ EXCEPT !.summary = summary, !.risk = risk]]
    BY <1>3 DEF Reworded
  <2>2. decisions[d] \in Decision
    BY <2>1, OpenTable, RowsHaveStatus DEF IsTable, ValidStatus, OpenStatus
  <2>3. [decisions[d] EXCEPT !.summary = summary, !.risk = risk].session = decisions[d].session
    BY <2>2 DEF Decision
  <2>4. NoneNew(decisions')
    BY <2>1, <2>3, OpenTable DEF NoneNew, IsTable
  <2>5. QED
    BY <2>4, NoneNewKeepsOne
<1>4. CASE Marked
  <2>1. PICK d \in Ids :
          d <= lastId /\ decisions' = [decisions EXCEPT ![d] = [@ EXCEPT !.notified = TRUE]]
    BY <1>4 DEF Marked
  <2>2. decisions[d] \in Decision
    BY <2>1, OpenTable DEF IsTable
  <2>3. /\ [decisions[d] EXCEPT !.notified = TRUE].status = decisions[d].status
        /\ [decisions[d] EXCEPT !.notified = TRUE].session = decisions[d].session
    BY <2>2 DEF Decision
  <2>4. NoneNew(decisions')
    BY <2>1, <2>3, OpenTable DEF NoneNew, IsTable
  <2>5. QED
    BY <2>4, NoneNewKeepsOne
<1>5. ASSUME NEW s \in Sessions, NEW ds, IsTable(ds), KeptOrDrained(ds), Absorbed(ds, s)
      PROVE  OnePendingPerSession'
  <2>1. PICK d \in OpenIn(ds, s) : /\ decisions'[d].status = ds[d].status
                                   /\ decisions'[d].session = s
                                   /\ \A e \in Ids \ {d} : decisions'[e] = ds[e]
    BY <1>5 DEF Absorbed
  <2>2. d \in Ids /\ ds[d].session = s
    BY DEF OpenIn
  <2>3. NoneNew(ds)
    BY <1>5, ShapeNoneNew
  <2>4. NoneNew(decisions')
    BY <2>1, <2>2, <2>3 DEF NoneNew
  <2>5. QED
    BY <2>4, NoneNewKeepsOne
<1>6. ASSUME NEW s \in Sessions, NEW ds, IsTable(ds), KeptOrDrained(ds), Created(ds, s)
      PROVE  OnePendingPerSession'
  <2>1. PICK d \in Ids : /\ decisions'[d].status = "pending"
                         /\ decisions'[d].session = s
                         /\ \A e \in Ids \ {d} : decisions'[e] = ds[e]
    BY <1>6 DEF Created
  <2>2. NoneNew(ds)
    BY <1>6, ShapeNoneNew
  <2>3. ASSUME NEW e \in Ids \ {d}, decisions'[e].status = "pending"
        PROVE  /\ decisions[e].status = "pending"
               /\ decisions'[e].session = decisions[e].session
               /\ decisions'[e].session # s
    <3>1. ds[e].status = "pending" /\ decisions'[e] = ds[e]
      BY <2>1, <2>3
    <3>2. ds[e].session # s
      BY <1>6, <3>1 DEF Created, OpenIn, OpenStatus
    <3>3. QED
      BY <2>2, <3>1, <3>2 DEF NoneNew
  <2>4. QED
    BY <2>1, <2>3 DEF OnePendingPerSession
<1>7. QED
  BY <1>1, <1>2, <1>3, <1>4, <1>5, <1>6 DEF TableStep

(* A session never has two decisions the operator has not looked at: for    *)
(* any number of sessions and decisions, whatever hook, scan, restart or    *)
(* stale click comes in between.                                            *)
THEOREM OnePending == Spec => []OnePendingPerSession
<1>1. Init => OnePendingPerSession
  BY DEF Init, StoreInit, OnePendingPerSession, NoDecision
<1>2. OnePendingPerSession /\ NotifierInv /\ [Next]_allVars => OnePendingPerSession'
  BY EveryStepTable, OnePendingStep DEF NotifierInv
<1>3. QED
  BY <1>1, <1>2, NotifierInvAlways, PTL DEF Spec

-------------------------------------------------------------------------------
(* Settled decisions.                                                       *)

LEMMA ShapeKeepsSettled ==
    ASSUME NEW ds, KeptOrDrained(ds), NEW e \in Ids, decisions[e].status \in ClosedStatus
    PROVE  ds[e] = decisions[e] /\ \A s \in Sessions : e \notin OpenIn(ds, s)
BY DEF KeptOrDrained, OpenIn, OpenStatus, ClosedStatus

LEMMA SettledStep ==
    ASSUME TypeOK, TableStep
    PROVE  SettledIsFrozen
<1> SUFFICES ASSUME NEW e \in Ids, decisions[e].status \in ClosedStatus
             PROVE  /\ decisions'[e].summary = decisions[e].summary
                    /\ decisions'[e].risk = decisions[e].risk
                    /\ decisions'[e].session = decisions[e].session
  BY DEF SettledIsFrozen
<1>1. decisions[e] \in Decision /\ decisions[e].status # "pending"
  BY OpenTable, RowsHaveStatus DEF IsTable, ValidStatus, ClosedStatus
<1>2. CASE KeptOrDrained(decisions')
  BY <1>2, ShapeKeepsSettled
<1>3. CASE Relabelled
  <2>1. PICK d \in Ids, status \in ValidStatus \ {"pending"} :
          decisions' = [decisions EXCEPT ![d] = [@ EXCEPT !.status = status]] /\ d <= lastId
    BY <1>3 DEF Relabelled
  <2>2. decisions'[e] \in {decisions[e], [decisions[e] EXCEPT !.status = status]}
    BY <2>1, OpenTable DEF IsTable
  <2>3. QED
    BY <1>1, <2>2 DEF Decision
<1>4. CASE Reworded
  <2>1. decisions'[e] = decisions[e]
    BY <1>1, <1>4, OpenTable DEF Reworded, IsTable
  <2>2. QED
    BY <2>1
<1>5. CASE Marked
  <2>1. decisions'[e] \in {decisions[e], [decisions[e] EXCEPT !.notified = TRUE]}
    BY <1>5, OpenTable DEF Marked, IsTable
  <2>2. QED
    BY <1>1, <2>1 DEF Decision
<1>6. ASSUME NEW s \in Sessions, NEW ds, KeptOrDrained(ds), Absorbed(ds, s) \/ Created(ds, s)
      PROVE  decisions'[e] = decisions[e]
  <2>1. ds[e] = decisions[e] /\ e \notin OpenIn(ds, s)
    BY <1>6, ShapeKeepsSettled
  <2>2. ds[e].status \in ValidStatus
    BY <2>1 DEF ValidStatus
  <2>3. QED
    BY <1>6, <2>1, <2>2 DEF Absorbed, Created, OpenIn
<1>7. QED
  BY <1>2, <1>3, <1>4, <1>5, <1>6 DEF TableStep

(* No step of the daemon, late or out of order, rewrites the question, the  *)
(* risk or the session of a decision that is answered or dismissed.         *)
THEOREM SettledForGood == Spec => SettledStaysFrozen
<1>1. NotifierInv /\ [Next]_allVars => [SettledIsFrozen]_allVars
  BY EveryStepTable, SettledStep DEF NotifierInv
<1>2. QED
  BY <1>1, NotifierInvAlways, PTL DEF Spec, SettledStaysFrozen

-------------------------------------------------------------------------------
(* Session states.                                                          *)

(* A row that a hook wrote says something.                                  *)
HookRowsExist == \A s \in Sessions : states[s].source = "hook" => states[s].state # "none"

(* What a step may do to the row of a session.                              *)
RowStep(old, new) ==
    \/ new = old
    \/ new = Released(old)
    \/ new.source = "hook" /\ new.state \in ValidStates
    \/ new.state = "waiting_for_input"
    \/ new.source = "heuristic" /\ (old.source # "hook" \/ old.state = "none")

StatesStep == \A s \in Sessions : RowStep(states[s], states'[s])

LEMMA UpsertedRow ==
    ASSUME NEW row, NEW state, NEW source
    PROVE  Upserted(row, state, source).state = state /\ Upserted(row, state, source).source = source
BY DEF Upserted

LEMMA HeuristicRow ==
    ASSUME NEW row, NEW state, NEW olderThan
    PROVE  RowStep(row, Heuristic(row, state, olderThan))
BY UpsertedRow DEF RowStep, Heuristic

LEMMA OneRow ==
    ASSUME TypeOK, NEW s \in Sessions, NEW new, states' = [states EXCEPT ![s] = new],
           RowStep(states[s], new)
    PROVE  StatesStep
BY DEF StatesStep, RowStep, TypeOK, StoreTypeOK

LEMMA IngestRow ==
    ASSUME TypeOK, NEW ds, NEW row, NEW s \in Sessions, NEW summary, NEW risk,
           NEW replaceMetadata, NEW automate, NEW stateSource,
           IngestCandidate(ds, row, s, summary, risk, replaceMetadata, automate, stateSource)
    PROVE  /\ states'[s].state = "waiting_for_input"
           /\ \A t \in Sessions \ {s} : states'[t] = states[t]
           /\ StatesStep
<1>1. states' = [states EXCEPT ![s] = Upserted(row, "waiting_for_input", stateSource)]
  BY DEF IngestCandidate
<1>2. Upserted(row, "waiting_for_input", stateSource).state = "waiting_for_input"
  BY UpsertedRow
<1>3. StatesStep
  BY <1>1, <1>2, OneRow DEF RowStep
<1>4. QED
  BY <1>1, <1>2, <1>3 DEF TypeOK, StoreTypeOK

LEMMA HookRow ==
    ASSUME TypeOK, NEW s \in Sessions, NEW p \in Payloads, Hook(s, p)
    PROVE  StatesStep
<1> DEFINE mapped == IF p.event = "none" THEN "none" ELSE HookEventState[p.event]
           row1 == IF p.state = "none" THEN states[s] ELSE Upserted(states[s], p.state, "hook")
           row2 == IF mapped = "none" THEN row1 ELSE Upserted(row1, mapped, "hook")
           ds == IF p.event \in HookResumeEvents THEN Drained(decisions, s) ELSE decisions
<1>1. RowStep(states[s], row1)
  BY PayloadType, UpsertedRow DEF RowStep
<1>2. RowStep(states[s], row2)
  BY <1>1, PayloadType, UpsertedRow DEF RowStep
<1>3. CASE IngestCandidate(ds, row2, s, p.question, p.risk, TRUE, FALSE, "hook")
  BY <1>3, IngestRow
<1>4. CASE IngestCandidate(ds, row2, s, p.question, "high", FALSE, TRUE, "hook")
  BY <1>4, IngestRow
<1>5. CASE states' = [states EXCEPT ![s] = row2]
  BY <1>2, <1>5, OneRow
<1>6. QED
  BY <1>3, <1>4, <1>5 DEF Hook

LEMMA PatchRow ==
    ASSUME TypeOK, NEW d \in Ids, NEW status, Patch(d, status)
    PROVE  StatesStep
<1>1. decisions[d].session \in Sessions
  BY OpenTable DEF Patch, IsTable, Decision
<1>2. CASE states' = [states EXCEPT ![decisions[d].session] = Released(@)]
  BY <1>1, <1>2, OneRow DEF RowStep, TypeOK, StoreTypeOK
<1>3. CASE states' = states
  BY <1>3 DEF StatesStep, RowStep
<1>4. QED
  BY <1>2, <1>3 DEF Patch

LEMMA RaiseRow ==
    ASSUME TypeOK, NEW s \in Sessions, NEW summary, NEW tail, NEW boundary,
           RaiseCandidate(s, summary, tail, boundary)
    PROVE  StatesStep
<1>1. CASE IsDuplicate(tail, asOf)
  <2>1. states' = [states EXCEPT ![s] = Heuristic(states[s], "waiting_for_input", boundary)]
    BY <1>1 DEF RaiseCandidate
  <2>2. QED
    BY <2>1, HeuristicRow, OneRow
<1>2. CASE ~IsDuplicate(tail, asOf)
  <2>1. IngestCandidate(decisions, states[s], s, summary, "high", FALSE, TRUE, "heuristic")
    BY <1>2 DEF RaiseCandidate
  <2>2. QED
    BY <2>1, IngestRow
<1>3. QED
  BY <1>1, <1>2

LEMMA ScanFileRow ==
    ASSUME TypeOK, NEW s \in Sessions, ScanFile(s)
    PROVE  StatesStep
<1> DEFINE st == fileStates[s]
<1>1. CASE UNCHANGED states
  BY <1>1 DEF StatesStep, RowStep
<1>2. CASE RaiseCandidate(s, unread[s].match, unread[s].screen, st.boundary)
  BY <1>2, RaiseRow
<1>3. CASE RaiseCandidate(s, st.tail, st.tail, st.boundary)
  BY <1>3, RaiseRow
<1>4. CASE states' = [states EXCEPT ![s] = Heuristic(states[s], "idle", st.boundary)]
  BY <1>4, HeuristicRow, OneRow
<1>5. QED
  BY <1>1, <1>2, <1>3, <1>4 DEF ScanFile, ScanSilent, queueVars, storeVars

LEMMA ClassifierRow ==
    ASSUME TypeOK, NEW s \in Sessions, ClassifierStep(s)
    PROVE  StatesStep
<1>1. CASE UNCHANGED states
  BY <1>1 DEF StatesStep, RowStep
<1>2. ASSUME NEW state, states' = [states EXCEPT ![s] =
                          Heuristic(states[s], state, requests[s].startedAt)]
      PROVE  StatesStep
  BY <1>2, HeuristicRow, OneRow
<1>3. QED
  BY <1>1, <1>2 DEF ClassifierStep, ClassifyFails, ClassifyAnswers

LEMMA EveryStepRow ==
    ASSUME TypeOK, [Next]_allVars
    PROVE  StatesStep
<1>1. CASE UNCHANGED states
  BY <1>1 DEF StatesStep, RowStep
<1>2. ASSUME NEW s \in Sessions, NEW p \in Payloads, HandleHook(s, p)
      PROVE  StatesStep
  BY <1>2, HookRow DEF HandleHook
<1>3. ASSUME NEW d \in Ids, NEW status \in PatchStatuses, HandlePatch(d, status)
      PROVE  StatesStep
  BY <1>3, PatchRow DEF HandlePatch
<1>4. ASSUME NEW s \in Sessions, ScanFile(s)
      PROVE  StatesStep
  BY <1>4, ScanFileRow
<1>5. ASSUME NEW s \in Sessions, ClassifierStep(s)
      PROVE  StatesStep
  BY <1>5, ClassifierRow
<1>6. ASSUME NEW d \in Ids, Sweep(d) \/ Accept(d) \/ Succeed(d) \/ Fail(d) \/ Retry(d)
      PROVE  UNCHANGED states
  BY <1>6 DEF Sweep, Accept, Succeed, Fail, Retry, NotifierFrame
<1>7. DayEnds \/ Tick \/ Restart \/ ScanBegins \/ UNCHANGED allVars => UNCHANGED states
  BY DEF DayEnds, Tick, Restart, ScanBegins, allVars, vars, queueVars, storeVars
<1>8. ASSUME NEW s \in Sessions, TerminalStep(s)
      PROVE  UNCHANGED states
  BY <1>8 DEF TerminalStep, Write, Repaint, LogRemoved, queueVars, storeVars
<1>9. QED
  BY <1>1, <1>2, <1>3, <1>4, <1>5, <1>6, <1>7, <1>8 DEF Next, ScanStep

LEMMA StatesStepOutranks ==
    ASSUME TypeOK, HookRowsExist, StatesStep
    PROVE  HookRowsExist' /\ HookOutranks
<1> SUFFICES ASSUME NEW s \in Sessions
             PROVE  /\ states'[s].source = "hook" => states'[s].state # "none"
                    /\ states[s].source = "hook" /\ states'[s].source = "heuristic" =>
                          states'[s].state \in {states[s].state, "waiting_for_input"}
  BY DEF HookRowsExist, HookOutranks
<1>1. RowStep(states[s], states'[s]) /\ states[s] \in StateRow
  BY DEF StatesStep, TypeOK, StoreTypeOK
<1>2. Released(states[s]).source = "heuristic" /\ Released(states[s]).state = states[s].state
  BY <1>1 DEF Released, StateRow
<1>3. QED
  BY <1>1, <1>2 DEF RowStep, HookRowsExist, ValidStates

(* No heuristic, however late its observation, talks the state of a hook    *)
(* down: when the row passes to the heuristics the state stays, or becomes  *)
(* waiting.                                                                 *)
THEOREM HooksOutrank == Spec => HookNeverDemoted
<1>1. Init => HookRowsExist
  BY DEF Init, StoreInit, HookRowsExist, NoState
<1>2. HookRowsExist /\ NotifierInv /\ [Next]_allVars => HookRowsExist' /\ [HookOutranks]_allVars
  BY EveryStepRow, StatesStepOutranks DEF NotifierInv
<1>3. QED
  BY <1>1, <1>2, NotifierInvAlways, PTL DEF Spec, HookNeverDemoted

-------------------------------------------------------------------------------
(* No ghost questions.                                                      *)

(* For every session: the step leaves no claim that it is calm, or leaves   *)
(* its row and brings no unread question, or leaves no unread question.     *)
CalmStep ==
    \A t \in Sessions :
        \/ states'[t].source # "hook"
        \/ states'[t].state = "waiting_for_input"
        \/ /\ states'[t] = states[t]
           /\ \A d \in Ids : decisions'[d].status = "pending" /\ decisions'[d].session = t =>
                                decisions[d].status = "pending" /\ decisions[d].session = t
        \/ \A d \in Ids : decisions'[d].status = "pending" => decisions'[d].session # t

LEMMA CalmStepKeepsCalm ==
    ASSUME CalmMeansNothingPending, CalmStep PROVE CalmMeansNothingPending'
BY DEF CalmMeansNothingPending, CalmStep

LEMMA QuietCalm ==
    ASSUME NoneNew(decisions'),
           \A t \in Sessions : states'[t] = states[t] \/ states'[t].source # "hook"
                                 \/ states'[t].state = "waiting_for_input"
    PROVE  CalmStep
BY DEF NoneNew, CalmStep

LEMMA IngestCalm ==
    ASSUME TypeOK, NEW ds, IsTable(ds), KeptOrDrained(ds), NEW row, NEW s \in Sessions,
           NEW summary, NEW risk, NEW replaceMetadata \in BOOLEAN, NEW automate \in BOOLEAN,
           NEW stateSource,
           IngestCandidate(ds, row, s, summary, risk, replaceMetadata, automate, stateSource)
    PROVE  CalmStep
<1>1. /\ states'[s].state = "waiting_for_input"
      /\ \A t \in Sessions \ {s} : states'[t] = states[t]
  BY IngestRow
<1>2. Absorbed(ds, s) \/ Created(ds, s)
  BY IngestShape
<1>3. NoneNew(ds)
  BY ShapeNoneNew
<1>4. ASSUME NEW t \in Sessions \ {s}, NEW d \in Ids,
             decisions'[d].status = "pending", decisions'[d].session = t
      PROVE  decisions[d].status = "pending" /\ decisions[d].session = t
  <2>1. decisions'[d] = ds[d]
    BY <1>2, <1>4 DEF Absorbed, Created
  <2>2. QED
    BY <1>3, <1>4, <2>1 DEF NoneNew
<1>5. QED
  BY <1>1, <1>4 DEF CalmStep

(* What a hook without a declared state does, ingestion aside.              *)
LEMMA HookCalm ==
    ASSUME TypeOK, \A q \in Payloads : q.state = "none",
           NEW s \in Sessions, NEW p \in Payloads, Hook(s, p)
    PROVE  CalmStep
<1> DEFINE mapped == IF p.event = "none" THEN "none" ELSE HookEventState[p.event]
           row1 == IF p.state = "none" THEN states[s] ELSE Upserted(states[s], p.state, "hook")
           row2 == IF mapped = "none" THEN row1 ELSE Upserted(row1, mapped, "hook")
           ds == IF p.event \in HookResumeEvents THEN Drained(decisions, s) ELSE decisions
<1>1. IsTable(ds) /\ KeptOrDrained(ds)
  BY OpenTable, DrainedTable, DrainedShape, SameShape
<1>2. CASE IngestCandidate(ds, row2, s, p.question, p.risk, TRUE, FALSE, "hook")
  BY <1>1, <1>2, IngestCalm
<1>3. CASE IngestCandidate(ds, row2, s, p.question, "high", FALSE, TRUE, "hook")
  BY <1>1, <1>3, IngestCalm
<1>4. CASE states' = [states EXCEPT ![s] = row2] /\ decisions' = ds
  <2>1. NoneNew(decisions')
    BY <1>1, <1>4, ShapeNoneNew
  <2>2. states'[s] = row2 /\ \A t \in Sessions \ {s} : states'[t] = states[t]
    BY <1>4 DEF TypeOK, StoreTypeOK
  <2>3. CASE p.event = "none"
    BY <2>1, <2>2, <2>3, QuietCalm
  <2>4. CASE p.event \in HookResumeEvents
    <3>1. ASSUME NEW d \in Ids, decisions'[d].status = "pending"
          PROVE  decisions'[d].session # s
      <4>1. decisions'[d] = IF d \in OpenIn(decisions, s)
                              THEN [decisions[d] EXCEPT !.status = "answered"] ELSE decisions[d]
        BY <1>4, <2>4 DEF Drained
      <4>2. decisions[d].status = "pending" /\ decisions'[d].session = decisions[d].session
        BY <2>1, <3>1 DEF NoneNew
      <4>3. decisions[d] \in Decision
        BY <4>2, OpenTable, RowsHaveStatus DEF IsTable, ValidStatus, OpenStatus
      <4>4. [decisions[d] EXCEPT !.status = "answered"].status = "answered"
        BY <4>3 DEF Decision
      <4>5. d \notin OpenIn(decisions, s)
        BY <3>1, <4>1, <4>4
      <4>6. QED
        BY <4>2, <4>5 DEF OpenIn, OpenStatus
    <3>2. QED
      BY <2>1, <2>2, <3>1 DEF NoneNew, CalmStep
  <2>5. CASE p.event \in {"notification", "permission_request"}
    <3>1. mapped = "waiting_for_input"
      BY <2>5 DEF HookEventState
    <3>2. states'[s].state = "waiting_for_input"
      BY <2>2, <3>1, UpsertedRow
    <3>3. QED
      BY <2>1, <2>2, <3>2, QuietCalm
  <2>6. p.event \in HookEvents \cup {"none"}
    BY PayloadType
  <2>7. QED
    BY <2>3, <2>4, <2>5, <2>6 DEF HookResumeEvents
<1>5. QED
  BY <1>2, <1>3, <1>4 DEF Hook

LEMMA RelabelledNoneNew ==
    ASSUME TypeOK, Relabelled \/ Reworded \/ Marked
    PROVE  NoneNew(decisions')
<1>1. ASSUME NEW d \in Ids, d <= lastId
      PROVE  decisions[d] \in Decision
  BY <1>1 DEF TypeOK, StoreTypeOK, DecisionsOK
<1>2. CASE Relabelled
  BY <1>1, <1>2, OpenTable DEF Relabelled, NoneNew, IsTable, Decision
<1>3. ASSUME NEW d \in Ids, NEW summary, NEW risk, decisions[d].status = "pending",
             decisions' = [decisions EXCEPT ![d] = [@ EXCEPT !.summary = summary, !.risk = risk]]
      PROVE  NoneNew(decisions')
  <2>1. decisions[d] \in Decision
    BY <1>3, OpenTable, RowsHaveStatus DEF IsTable, ValidStatus, OpenStatus
  <2>2. [decisions[d] EXCEPT !.summary = summary, !.risk = risk].session = decisions[d].session
    BY <2>1 DEF Decision
  <2>3. decisions'[d].session = decisions[d].session
    BY <1>3, <2>2, OpenTable DEF IsTable
  <2>4. \A e \in Ids \ {d} : decisions'[e] = decisions[e]
    BY <1>3, OpenTable DEF IsTable
  <2>5. QED
    BY <1>3, <2>3, <2>4 DEF NoneNew
<1>4. CASE Marked
  BY <1>1, <1>4, OpenTable DEF Marked, NoneNew, IsTable, Decision
<1>5. QED
  BY <1>2, <1>3, <1>4 DEF Reworded

(* The row of one session changes, by a heuristic, or to say that it waits. *)
LEMMA OneRowQuiet ==
    ASSUME TypeOK, NoneNew(decisions'), NEW s \in Sessions, NEW new,
           states' = [states EXCEPT ![s] = new],
           new = states[s] \/ new.source # "hook"
    PROVE  CalmStep
<1>1. states'[s] = new /\ \A t \in Sessions \ {s} : states'[t] = states[t]
  BY DEF TypeOK, StoreTypeOK
<1>2. QED
  BY <1>1, QuietCalm

LEMMA HeuristicQuiet ==
    ASSUME NEW row, NEW state, NEW olderThan
    PROVE  Heuristic(row, state, olderThan) = row
             \/ Heuristic(row, state, olderThan).source # "hook"
BY UpsertedRow DEF Heuristic

LEMMA UnchangedNoneNew == UNCHANGED decisions => NoneNew(decisions')
BY DEF NoneNew

LEMMA PatchCalm ==
    ASSUME TypeOK, NEW d \in Ids, NEW status \in PatchStatuses, Patch(d, status)
    PROVE  CalmStep
<1>1. NoneNew(decisions')
  BY PatchTable, RelabelledNoneNew
<1>2. decisions[d].session \in Sessions
  BY OpenTable DEF Patch, IsTable, Decision
<1>3. CASE states' = [states EXCEPT ![decisions[d].session] = Released(@)]
  <2>1. states[decisions[d].session] \in StateRow
    BY <1>2 DEF TypeOK, StoreTypeOK
  <2>2. Released(states[decisions[d].session]).source # "hook"
    BY <2>1 DEF Released, StateRow
  <2>3. states' = [states EXCEPT ![decisions[d].session] = Released(states[decisions[d].session])]
    BY <1>3
  <2>4. QED
    BY <1>1, <1>2, <2>2, <2>3, OneRowQuiet
<1>4. CASE states' = states
  BY <1>1, <1>4, QuietCalm
<1>5. QED
  BY <1>3, <1>4 DEF Patch

LEMMA RaiseCalm ==
    ASSUME TypeOK, NEW s \in Sessions, NEW summary, NEW tail, NEW boundary,
           RaiseCandidate(s, summary, tail, boundary)
    PROVE  CalmStep
<1>1. CASE IsDuplicate(tail, asOf)
  <2>1. /\ states' = [states EXCEPT ![s] = Heuristic(states[s], "waiting_for_input", boundary)]
        /\ UNCHANGED decisions
    BY <1>1 DEF RaiseCandidate
  <2>2. QED
    BY <2>1, UnchangedNoneNew, HeuristicQuiet, OneRowQuiet
<1>2. CASE ~IsDuplicate(tail, asOf)
  <2>1. IngestCandidate(decisions, states[s], s, summary, "high", FALSE, TRUE, "heuristic")
    BY <1>2 DEF RaiseCandidate
  <2>2. QED
    BY <2>1, OpenTable, SameShape, IngestCalm
<1>3. QED
  BY <1>1, <1>2

LEMMA ScanFileCalm ==
    ASSUME TypeOK, NEW s \in Sessions, ScanFile(s)
    PROVE  CalmStep
<1> DEFINE st == fileStates[s]
<1>1. CASE UNCHANGED <<states, decisions>>
  BY <1>1, UnchangedNoneNew, QuietCalm
<1>2. CASE RaiseCandidate(s, unread[s].match, unread[s].screen, st.boundary)
  BY <1>2, RaiseCalm
<1>3. CASE RaiseCandidate(s, st.tail, st.tail, st.boundary)
  BY <1>3, RaiseCalm
<1>4. CASE /\ states' = [states EXCEPT ![s] = Heuristic(states[s], "idle", st.boundary)]
           /\ UNCHANGED decisions
  BY <1>4, UnchangedNoneNew, HeuristicQuiet, OneRowQuiet
<1>5. QED
  BY <1>1, <1>2, <1>3, <1>4 DEF ScanFile, ScanSilent, queueVars, storeVars

LEMMA ClassifierCalm ==
    ASSUME TypeOK, NEW s \in Sessions, ClassifierStep(s)
    PROVE  CalmStep
<1>1. CASE UNCHANGED <<states, decisions>>
  BY <1>1, UnchangedNoneNew, QuietCalm
<1>2. ASSUME NEW state \in ValidStates, NEW risk \in ValidRisks, ClassifyAnswers(s, state, risk),
             decisions[requests[s].decision].status = "pending"
      PROVE  CalmStep
  <2>1. NoneNew(decisions')
    BY <1>2, ClassifierRewords, RelabelledNoneNew
  <2>2. states' = [states EXCEPT ![s] = Heuristic(states[s], state, requests[s].startedAt)]
    BY <1>2 DEF ClassifyAnswers
  <2>3. QED
    BY <2>1, <2>2, HeuristicQuiet, OneRowQuiet
<1>3. QED
  BY <1>1, <1>2 DEF ClassifierStep, ClassifyFails, ClassifyAnswers

LEMMA NotifierCalm ==
    ASSUME NotifierInv, NEW d \in Ids, Sweep(d) \/ Accept(d) \/ Succeed(d) \/ Fail(d) \/ Retry(d)
    PROVE  CalmStep
<1>1. UNCHANGED states
  BY DEF Sweep, Accept, Succeed, Fail, Retry, NotifierFrame
<1>2. NoneNew(decisions')
  BY NotifierMarks, UnchangedNoneNew, RelabelledNoneNew DEF NotifierInv
<1>3. QED
  BY <1>1, <1>2, QuietCalm

LEMMA EveryStepCalm ==
    ASSUME NotifierInv, \A q \in Payloads : q.state = "none", [Next]_allVars
    PROVE  CalmStep
<1>1. TypeOK
  BY DEF NotifierInv
<1>2. ASSUME NEW s \in Sessions, NEW p \in Payloads, HandleHook(s, p)
      PROVE  CalmStep
  BY <1>1, <1>2, HookCalm DEF HandleHook
<1>3. ASSUME NEW d \in Ids, NEW status \in PatchStatuses, HandlePatch(d, status)
      PROVE  CalmStep
  BY <1>1, <1>3, PatchCalm DEF HandlePatch
<1>4. ASSUME NEW s \in Sessions, ScanFile(s)
      PROVE  CalmStep
  BY <1>1, <1>4, ScanFileCalm
<1>5. ASSUME NEW s \in Sessions, ClassifierStep(s)
      PROVE  CalmStep
  BY <1>1, <1>5, ClassifierCalm
<1>6. ASSUME NEW d \in Ids, Sweep(d) \/ Accept(d) \/ Succeed(d) \/ Fail(d) \/ Retry(d)
      PROVE  CalmStep
  BY <1>6, NotifierCalm
<1>7. CASE UNCHANGED <<states, decisions>>
  BY <1>7, UnchangedNoneNew, QuietCalm
<1>8. DayEnds \/ Tick \/ Restart \/ ScanBegins \/ UNCHANGED allVars
        => UNCHANGED <<states, decisions>>
  BY DEF DayEnds, Tick, Restart, ScanBegins, allVars, vars, queueVars, storeVars
<1>9. ASSUME NEW s \in Sessions, TerminalStep(s)
      PROVE  UNCHANGED <<states, decisions>>
  BY <1>9 DEF TerminalStep, Write, Repaint, LogRemoved, queueVars, storeVars
<1>10. QED
  BY <1>2, <1>3, <1>4, <1>5, <1>6, <1>7, <1>8, <1>9 DEF Next, ScanStep

(* When no hook script declares a state of its own, and those this          *)
(* repository installs do not, the queue holds nothing unread of a session  *)
(* that a hook says is working or at rest.                                  *)
THEOREM NoGhostQuestions ==
    ASSUME \A q \in Payloads : q.state = "none"
    PROVE  Spec => []CalmMeansNothingPending
<1>1. Init => CalmMeansNothingPending
  BY DEF Init, StoreInit, CalmMeansNothingPending, NoState
<1>2. CalmMeansNothingPending /\ NotifierInv /\ [Next]_allVars => CalmMeansNothingPending'
  BY EveryStepCalm, CalmStepKeepsCalm
<1>3. QED
  BY <1>1, <1>2, NotifierInvAlways, PTL DEF Spec

-------------------------------------------------------------------------------
(* The daily cap.                                                           *)

(* What a step may do to the calls: none begins; some begin below the cap;  *)
(* one ends, and is counted.                                                *)
CallsStep ==
    \/ callsToday' <= callsToday /\ InFlight' \subseteq InFlight
    \/ callsToday < DailyCap /\ callsToday' = callsToday
    \/ \E s \in InFlight : InFlight' = InFlight \ {s} /\ callsToday' = callsToday + 1

LEMMA CallsStepKeepsBound ==
    ASSUME IsFiniteSet(Sessions), TypeOK, TypeOK', CapOvershootBounded, CallsStep
    PROVE  CapOvershootBounded'
<1>1. /\ IsFiniteSet(InFlight) /\ Cardinality(InFlight) <= Cardinality(Sessions)
      /\ IsFiniteSet(InFlight') /\ Cardinality(InFlight') <= Cardinality(Sessions)
  BY FS_Subset DEF InFlight
<1>2. /\ Cardinality(InFlight) \in Nat /\ Cardinality(InFlight') \in Nat
      /\ Cardinality(Sessions) \in Nat
      /\ callsToday \in Nat /\ callsToday' \in Nat /\ DailyCap \in Nat
  BY <1>1, FS_CardinalityType, ClassifierAssumption DEF TypeOK, ClassifierTypeOK
<1>3. CASE callsToday' <= callsToday /\ InFlight' \subseteq InFlight
  <2>1. Cardinality(InFlight') <= Cardinality(InFlight)
    BY <1>1, <1>3, FS_Subset
  <2>2. QED
    BY <1>2, <1>3, <2>1 DEF CapOvershootBounded
<1>4. CASE callsToday < DailyCap /\ callsToday' = callsToday
  BY <1>1, <1>2, <1>4 DEF CapOvershootBounded
<1>5. ASSUME NEW s \in InFlight, InFlight' = InFlight \ {s}, callsToday' = callsToday + 1
      PROVE  CapOvershootBounded'
  <2>1. Cardinality(InFlight') = Cardinality(InFlight) - 1
    BY <1>1, <1>5, FS_RemoveElement
  <2>2. QED
    BY <1>2, <1>5, <2>1 DEF CapOvershootBounded
<1>6. QED
  BY <1>3, <1>4, <1>5 DEF CallsStep

LEMMA MaybeClassifyCalls ==
    ASSUME NEW s, NEW d, MaybeClassify(s, d), UNCHANGED callsToday, callsToday \in Nat
    PROVE  CallsStep
BY DEF MaybeClassify, CallsStep, InFlight

LEMMA NoCalls ==
    ASSUME TypeOK, UNCHANGED classifierVars PROVE CallsStep
BY DEF classifierVars, CallsStep, InFlight, TypeOK, ClassifierTypeOK

LEMMA IngestCalls ==
    ASSUME TypeOK, NEW ds, NEW row, NEW s, NEW summary, NEW risk, NEW replaceMetadata,
           NEW automate, NEW stateSource,
           IngestCandidate(ds, row, s, summary, risk, replaceMetadata, automate, stateSource)
    PROVE  CallsStep
<1>1. UNCHANGED callsToday /\ callsToday \in Nat
  BY DEF IngestCandidate, TypeOK, ClassifierTypeOK
<1>2. UNCHANGED requests \/ MaybeClassify(s, lastId + 1)
  BY DEF IngestCandidate
<1>3. QED
  BY <1>1, <1>2, MaybeClassifyCalls, NoCalls DEF classifierVars

LEMMA CallEndsCalls ==
    ASSUME TypeOK, NEW s \in Sessions, CallEnds(s) PROVE CallsStep
<1>1. /\ s \in InFlight /\ callsToday' = callsToday + 1
      /\ \A t \in Sessions : requests'[t] = IF t = s THEN NoRequest ELSE requests[t]
  BY DEF CallEnds, InFlight, TypeOK, ClassifierTypeOK
<1>2. InFlight' = InFlight \ {s}
  BY <1>1 DEF InFlight, NoRequest
<1>3. QED
  BY <1>1, <1>2 DEF CallsStep

LEMMA RaiseCalls ==
    ASSUME TypeOK, NEW s \in Sessions, NEW summary, NEW tail, NEW boundary,
           RaiseCandidate(s, summary, tail, boundary)
    PROVE  CallsStep
BY NoCalls, IngestCalls DEF RaiseCandidate

LEMMA EveryStepCalls ==
    ASSUME TypeOK, [Next]_allVars
    PROVE  CallsStep
<1>1. CASE UNCHANGED classifierVars
  BY <1>1, NoCalls
<1>2. ASSUME NEW s \in Sessions, NEW p \in Payloads, HandleHook(s, p)
      PROVE  CallsStep
  BY <1>2, IngestCalls, NoCalls DEF HandleHook, Hook
<1>3. ASSUME NEW d \in Ids, NEW status \in PatchStatuses, HandlePatch(d, status)
      PROVE  UNCHANGED classifierVars
  BY <1>3 DEF HandlePatch, Patch
<1>4. ASSUME NEW s \in Sessions, ScanFile(s)
      PROVE  CallsStep
  BY <1>4, RaiseCalls, NoCalls DEF ScanFile, ScanSilent, queueVars
<1>5. ASSUME NEW s \in Sessions, ClassifierStep(s)
      PROVE  CallsStep
  BY <1>5, CallEndsCalls DEF ClassifierStep, ClassifyFails, ClassifyAnswers
<1>6. ASSUME NEW d \in Ids, Sweep(d) \/ Accept(d) \/ Succeed(d) \/ Fail(d) \/ Retry(d)
      PROVE  UNCHANGED classifierVars
  BY <1>6 DEF Sweep, Accept, Succeed, Fail, Retry, NotifierFrame
<1>7. Tick \/ ScanBegins \/ UNCHANGED allVars => UNCHANGED classifierVars
  BY DEF Tick, ScanBegins, allVars, vars, queueVars
<1>8. ASSUME NEW s \in Sessions, TerminalStep(s)
      PROVE  UNCHANGED classifierVars
  BY <1>8 DEF TerminalStep, Write, Repaint, LogRemoved, queueVars
<1>9. CASE DayEnds
  BY <1>9 DEF DayEnds, Midnight, CallsStep, InFlight, TypeOK, ClassifierTypeOK
<1>10. CASE Restart
  <2>1. InFlight' = {}
    BY <1>10 DEF Restart, InFlight, NoRequest
  <2>2. QED
    BY <1>10, <2>1 DEF Restart, CallsStep, TypeOK, ClassifierTypeOK
<1>11. QED
  BY <1>1, <1>2, <1>3, <1>4, <1>5, <1>6, <1>7, <1>8, <1>9, <1>10 DEF Next, ScanStep

(* Where there are finitely many sessions, and one at least, calls counted  *)
(* and calls in flight exceed the cap by fewer than there are sessions.     *)
THEOREM CapHolds ==
    ASSUME IsFiniteSet(Sessions), Sessions # {}
    PROVE  Spec => []CapOvershootBounded
<1>1. Init => CapOvershootBounded
  <2>1. SUFFICES ASSUME Init PROVE CapOvershootBounded
    OBVIOUS
  <2>2. InFlight = {} /\ callsToday = 0
    BY <2>1 DEF Init, ClassifierInit, InFlight, NoRequest
  <2>3. Cardinality(InFlight) = 0
    BY <2>2, FS_EmptySet
  <2>4. Cardinality(Sessions) \in Nat /\ Cardinality(Sessions) # 0
    BY FS_CardinalityType, FS_EmptySet
  <2>5. QED
    BY <2>2, <2>3, <2>4, ClassifierAssumption DEF CapOvershootBounded
<1>2. CapOvershootBounded /\ TypeOK /\ TypeOK' /\ [Next]_allVars => CapOvershootBounded'
  BY EveryStepCalls, CallsStepKeepsBound
<1>3. QED
  BY <1>1, <1>2, TypeCorrect, PTL DEF Spec

-------------------------------------------------------------------------------
(* A session that waits has a decision.                                     *)

(* The session has a row in the table.                                      *)
HasRow(s) == \E d \in Ids : decisions[d].status \in ValidStatus /\ decisions[d].session = s

(* What a terminal may show when a scan ends.                               *)
Prints(s, h) == \E o \in Outputs[s] : o.screen = h

(* No two terminals show the same last lines.  The dedup table is keyed by  *)
(* those lines alone, so that nothing less will do.                         *)
OwnScreens ==
    \A s, t \in Sessions, h \in Screens : Prints(s, h) /\ Prints(t, h) => s = t

(* A screen is recorded when its session has just been given a decision.    *)
DedupOK == \A h \in Screens : dedup[h].seen => \E s \in Sessions : Prints(s, h) /\ HasRow(s)

CallsOK == \A s \in Sessions : requests[s].active => HasRow(s)

(* The scanner looks at screens of the session's own terminal.              *)
TailsOK ==
    \A s \in Sessions :
        /\ fileStates[s].known => fileStates[s].tail = Blank \/ Prints(s, fileStates[s].tail)
        /\ unread[s].kind = "lines" => Prints(s, unread[s].screen)

SaysWaiting(row) == row.state = "waiting_for_input" /\ row.source = "heuristic"
WaitsOK == \A s \in Sessions : SaysWaiting(states[s]) => HasRow(s)

(* The inductive invariant of WaitingHasDecision.                           *)
WaitInv == DedupOK /\ CallsOK /\ TailsOK /\ WaitsOK

LEMMA RowsStay ==
    ASSUME TypeOK, TableStep
    PROVE  \A s \in Sessions : HasRow(s) => HasRow(s)'
<1> SUFFICES ASSUME NEW e \in Ids, decisions[e].status \in ValidStatus
             PROVE  /\ decisions'[e].status \in ValidStatus
                    /\ decisions'[e].session = decisions[e].session
  BY DEF HasRow
<1>1. decisions[e] \in Decision
  BY OpenTable, RowsHaveStatus DEF IsTable
<1>2. \A x \in ValidStatus : /\ [decisions[e] EXCEPT !.status = x].status = x
                             /\ [decisions[e] EXCEPT !.status = x].session = decisions[e].session
  BY <1>1 DEF Decision
<1>3. ASSUME NEW ds, KeptOrDrained(ds)
      PROVE  ds[e].status \in ValidStatus /\ ds[e].session = decisions[e].session
  BY <1>2, <1>3 DEF KeptOrDrained, ValidStatus, ClosedStatus
<1>4. CASE KeptOrDrained(decisions')
  BY <1>3, <1>4
<1>5. CASE Relabelled
  <2>1. PICK d \in Ids, status \in ValidStatus \ {"pending"} :
          decisions' = [decisions EXCEPT ![d] = [@ EXCEPT !.status = status]] /\ d <= lastId
    BY <1>5 DEF Relabelled
  <2>2. decisions'[e] \in {decisions[e], [decisions[e] EXCEPT !.status = status]}
    BY <2>1, OpenTable DEF IsTable
  <2> QED
    BY <1>2, <2>1, <2>2
<1>6. CASE Reworded
  <2>1. PICK d \in Ids, summary \in Screens, risk \in ValidRisks :
          decisions' = [decisions EXCEPT ![d] = [@ EXCEPT !.summary = summary, !.risk = risk]]
    BY <1>6 DEF Reworded
  <2>2. decisions'[e] \in {decisions[e], [decisions[e] EXCEPT !.summary = summary, !.risk = risk]}
    BY <2>1, OpenTable DEF IsTable
  <2> QED
    BY <1>1, <2>2 DEF Decision
<1>7. CASE Marked
  <2>1. decisions'[e] \in {decisions[e], [decisions[e] EXCEPT !.notified = TRUE]}
    BY <1>7, OpenTable DEF Marked, IsTable
  <2> QED
    BY <1>1, <2>1 DEF Decision
<1>8. ASSUME NEW s \in Sessions, NEW ds, KeptOrDrained(ds), Absorbed(ds, s) \/ Created(ds, s)
      PROVE  /\ decisions'[e].status \in ValidStatus
             /\ decisions'[e].session = decisions[e].session
  <2>1. ds[e].status \in ValidStatus /\ ds[e].session = decisions[e].session
    BY <1>3, <1>8
  <2>2. CASE Absorbed(ds, s)
    BY <2>1, <2>2 DEF Absorbed, OpenIn
  <2>3. CASE Created(ds, s)
    BY <2>1, <2>3 DEF Created
  <2> QED
    BY <1>8, <2>2, <2>3
<1> QED
  BY <1>4, <1>5, <1>6, <1>7, <1>8 DEF TableStep

LEMMA IngestGivesRow ==
    ASSUME TypeOK, NEW ds, IsTable(ds), NEW row, NEW s \in Sessions, NEW summary, NEW risk,
           NEW replaceMetadata \in BOOLEAN, NEW automate \in BOOLEAN, NEW stateSource,
           IngestCandidate(ds, row, s, summary, risk, replaceMetadata, automate, stateSource)
    PROVE  HasRow(s)'
<1>1. CASE Absorbed(ds, s)
  BY <1>1 DEF Absorbed, OpenIn, HasRow, ValidStatus
<1>2. CASE Created(ds, s)
  BY <1>2 DEF Created, HasRow, ValidStatus, OpenStatus
<1> QED
  BY <1>1, <1>2, IngestShape

(* What a step says of a session is backed by a row, or was said before.    *)
Backed ==
    /\ \A t \in Sessions : SaysWaiting(states'[t]) => SaysWaiting(states[t]) \/ HasRow(t)'
    /\ \A t \in Sessions : requests'[t].active => requests[t].active \/ HasRow(t)'
    /\ \A h \in Screens : dedup'[h].seen =>
          dedup[h].seen \/ \E t \in Sessions : Prints(t, h) /\ HasRow(t)'

LEMMA BackedKeeps ==
    ASSUME TypeOK, TableStep, Backed, DedupOK, CallsOK, WaitsOK
    PROVE  DedupOK' /\ CallsOK' /\ WaitsOK'
BY RowsStay DEF Backed, DedupOK, CallsOK, WaitsOK, Prints

LEMMA QuietBacked ==
    ASSUME UNCHANGED <<states, requests, dedup>> PROVE Backed
BY DEF Backed

LEMMA IngestBacked ==
    ASSUME TypeOK, NEW ds, IsTable(ds), NEW row, NEW s \in Sessions, NEW summary, NEW risk,
           NEW replaceMetadata \in BOOLEAN, NEW automate \in BOOLEAN, NEW stateSource,
           IngestCandidate(ds, row, s, summary, risk, replaceMetadata, automate, stateSource),
           \A h \in Screens : dedup'[h].seen => dedup[h].seen \/ Prints(s, h)
    PROVE  Backed
<1>1. HasRow(s)'
  BY IngestGivesRow
<1>2. \A t \in Sessions \ {s} : states'[t] = states[t]
  BY DEF IngestCandidate, TypeOK, StoreTypeOK
<1>3. \A t \in Sessions \ {s} : requests'[t] = requests[t]
  BY DEF IngestCandidate, MaybeClassify, TypeOK, ClassifierTypeOK
<1> QED
  BY <1>1, <1>2, <1>3 DEF Backed

LEMMA HookBacked ==
    ASSUME TypeOK, NEW s \in Sessions, NEW p \in Payloads, Hook(s, p)
    PROVE  Backed
<1> DEFINE mapped == IF p.event = "none" THEN "none" ELSE HookEventState[p.event]
           row1 == IF p.state = "none" THEN states[s] ELSE Upserted(states[s], p.state, "hook")
           row2 == IF mapped = "none" THEN row1 ELSE Upserted(row1, mapped, "hook")
           ds == IF p.event \in HookResumeEvents THEN Drained(decisions, s) ELSE decisions
<1>1. IsTable(ds)
  BY OpenTable, DrainedTable
<1>2. UNCHANGED dedup
  BY DEF Hook
<1>3. CASE IngestCandidate(ds, row2, s, p.question, p.risk, TRUE, FALSE, "hook")
  BY <1>1, <1>2, <1>3, IngestBacked
<1>4. CASE IngestCandidate(ds, row2, s, p.question, "high", FALSE, TRUE, "hook")
  BY <1>1, <1>2, <1>4, IngestBacked
<1>5. CASE states' = [states EXCEPT ![s] = row2] /\ UNCHANGED classifierVars
  <2>1. row1 = states[s] \/ row1.source = "hook"
    BY UpsertedRow
  <2>2. row2 = states[s] \/ row2.source = "hook"
    BY <2>1, UpsertedRow
  <2> HIDE DEF row2
  <2>3. \A t \in Sessions : states'[t] = states[t] \/ states'[t].source = "hook"
    BY <1>5, <2>2 DEF TypeOK, StoreTypeOK
  <2> QED
    BY <1>2, <1>5, <2>3 DEF Backed, SaysWaiting, classifierVars
<1> QED
  BY <1>3, <1>4, <1>5 DEF Hook

LEMMA PatchBacked ==
    ASSUME TypeOK, TableStep, NEW d \in Ids, NEW status, Patch(d, status)
    PROVE  Backed
<1>1. decisions[d] \in Decision
  BY OpenTable DEF Patch, IsTable
<1>2. PICK s \in Sessions : s = decisions[d].session
  BY <1>1 DEF Decision
<1>3. HasRow(s)
  BY <1>1, <1>2 DEF HasRow, Decision
<1>4. HasRow(s)'
  BY <1>3, RowsStay
<1>5. \A t \in Sessions \ {s} : states'[t] = states[t]
  BY <1>2 DEF Patch, TypeOK, StoreTypeOK
<1>6. UNCHANGED <<requests, dedup>>
  BY DEF Patch, classifierVars
<1> QED
  BY <1>4, <1>5, <1>6 DEF Backed

LEMMA ClassifierBacked ==
    ASSUME TypeOK, TableStep, CallsOK, NEW s \in Sessions, ClassifierStep(s)
    PROVE  Backed
<1>1. requests[s].active /\ UNCHANGED dedup
  BY DEF ClassifierStep, ClassifyFails, ClassifyAnswers, CallEnds
<1>2. HasRow(s)'
  BY <1>1, RowsStay DEF CallsOK
<1>3. \A t \in Sessions \ {s} : states'[t] = states[t] /\ requests'[t] = requests[t]
  BY DEF ClassifierStep, ClassifyFails, ClassifyAnswers, CallEnds, TypeOK, StoreTypeOK,
         ClassifierTypeOK
<1> QED
  BY <1>1, <1>2, <1>3 DEF Backed

LEMMA RaiseBacked ==
    ASSUME OwnScreens, TypeOK, TableStep, DedupOK, NEW s \in Sessions, NEW summary,
           NEW tail \in Screens, Prints(s, tail), NEW boundary,
           RaiseCandidate(s, summary, tail, boundary)
    PROVE  Backed
<1>1. \A h \in Screens \ {tail} : dedup'[h] = dedup[h]
  BY DEF RaiseCandidate, RecordDedup, TypeOK, StoreTypeOK
<1>2. CASE IsDuplicate(tail, asOf)
  <2>1. HasRow(s)
    BY <1>2 DEF IsDuplicate, DedupOK, OwnScreens
  <2>2. HasRow(s)'
    BY <2>1, RowsStay
  <2>3. \A t \in Sessions \ {s} : states'[t] = states[t]
    BY <1>2 DEF RaiseCandidate, TypeOK, StoreTypeOK
  <2>4. UNCHANGED requests
    BY <1>2 DEF RaiseCandidate, classifierVars
  <2> QED
    BY <1>1, <2>2, <2>3, <2>4 DEF Backed
<1>3. CASE ~IsDuplicate(tail, asOf)
  <2>1. IngestCandidate(decisions, states[s], s, summary, "high", FALSE, TRUE, "heuristic")
    BY <1>3 DEF RaiseCandidate
  <2>2. \A h \in Screens : dedup'[h].seen => dedup[h].seen \/ Prints(s, h)
    BY <1>1
  <2> QED
    BY <2>1, <2>2, OpenTable, IngestBacked
<1> QED
  BY <1>2, <1>3

LEMMA ScanFileBacked ==
    ASSUME OwnScreens, TypeOK, TableStep, DedupOK, TailsOK, NEW s \in Sessions, ScanFile(s)
    PROVE  Backed
<1> DEFINE st == fileStates[s]
<1>1. CASE UNCHANGED queueVars
  BY <1>1, QuietBacked DEF queueVars, storeVars, classifierVars
<1>2. CASE unread[s].kind = "lines"
           /\ RaiseCandidate(s, unread[s].match, unread[s].screen, st.boundary)
  <2>1. unread[s].screen \in Screens
    BY <1>2, UnreadType DEF TypeOK, ScannerTypeOK
  <2>2. Prints(s, unread[s].screen)
    BY <1>2 DEF TailsOK
  <2> QED
    BY <1>2, <2>1, <2>2, RaiseBacked
<1>3. CASE st.known /\ ScanSilent(s, st)
  <2>1. CASE UNCHANGED queueVars
    BY <2>1, <1>1
  <2>2. CASE st.tail \in Questions /\ RaiseCandidate(s, st.tail, st.tail, st.boundary)
    <3>1. st.tail \in Screens /\ st.tail # Blank
      BY <2>2, StoreAssumption
    <3>2. Prints(s, st.tail)
      BY <1>3, <3>1 DEF TailsOK
    <3> QED
      BY <2>2, <3>1, <3>2, RaiseBacked
  <2>3. CASE /\ states' = [states EXCEPT ![s] = Heuristic(states[s], "idle", st.boundary)]
             /\ UNCHANGED <<dedup, classifierVars>>
    <3>1. \/ Heuristic(states[s], "idle", st.boundary) = states[s]
          \/ Heuristic(states[s], "idle", st.boundary).state = "idle"
      BY UpsertedRow DEF Heuristic
    <3>2. \A t \in Sessions : states'[t] = states[t] \/ states'[t].state = "idle"
      BY <2>3, <3>1 DEF TypeOK, StoreTypeOK
    <3> QED
      BY <2>3, <3>2 DEF Backed, SaysWaiting, classifierVars
  <2> QED
    BY <1>3, <2>1, <2>2, <2>3 DEF ScanSilent
<1> QED
  BY <1>1, <1>2, <1>3 DEF ScanFile

LEMMA EveryStepBacked ==
    ASSUME OwnScreens, NotifierInv, WaitInv, [Next]_allVars
    PROVE  Backed
<1>1. TypeOK /\ TableStep
  BY EveryStepTable DEF NotifierInv
<1>2. ASSUME NEW s \in Sessions, NEW p \in Payloads, HandleHook(s, p)
      PROVE  Backed
  BY <1>1, <1>2, HookBacked DEF HandleHook
<1>3. ASSUME NEW d \in Ids, NEW status \in PatchStatuses, HandlePatch(d, status)
      PROVE  Backed
  BY <1>1, <1>3, PatchBacked DEF HandlePatch
<1>4. ASSUME NEW s \in Sessions, ScanFile(s)
      PROVE  Backed
  BY <1>1, <1>4, ScanFileBacked DEF WaitInv
<1>5. ASSUME NEW s \in Sessions, ClassifierStep(s)
      PROVE  Backed
  BY <1>1, <1>5, ClassifierBacked DEF WaitInv
<1>6. ASSUME NEW d \in Ids, Sweep(d) \/ Accept(d) \/ Succeed(d) \/ Fail(d) \/ Retry(d)
      PROVE  UNCHANGED <<states, requests, dedup>>
  BY <1>6 DEF Sweep, Accept, Succeed, Fail, Retry, NotifierFrame, classifierVars
<1>7. DayEnds \/ Tick \/ ScanBegins \/ UNCHANGED allVars => UNCHANGED <<states, requests, dedup>>
  BY DEF DayEnds, Midnight, Tick, ScanBegins, allVars, vars, queueVars, storeVars, classifierVars
<1>8. ASSUME NEW s \in Sessions, TerminalStep(s)
      PROVE  UNCHANGED <<states, requests, dedup>>
  BY <1>8 DEF TerminalStep, Write, Repaint, LogRemoved, queueVars, storeVars, classifierVars
<1>9. CASE Restart
  BY <1>9 DEF Restart, Backed, NoRequest, storeVars
<1> QED
  BY <1>2, <1>3, <1>4, <1>5, <1>6, <1>7, <1>8, <1>9, QuietBacked DEF Next, ScanStep

LEMMA WriteTails ==
    ASSUME TypeOK, TailsOK, NEW s \in Sessions, NEW o \in Outputs[s], Write(s, o)
    PROVE  TailsOK'
<1>1. o \in Output
  BY ScannerAssumption
<1>2. PICK m : unread' = [unread EXCEPT ![s] =
                   IF fileStates[s].known THEN Lines([o EXCEPT !.match = m]) ELSE Nothing]
  BY DEF Write
<1>3. [o EXCEPT !.match = m].screen = o.screen
  BY <1>1 DEF Output
<1>4. unread'[s].kind = "lines" => unread'[s].screen = o.screen
  BY <1>2, <1>3 DEF Lines, Nothing, TypeOK, ScannerTypeOK
<1>5. \A t \in Sessions \ {s} : unread'[t] = unread[t]
  BY <1>2 DEF TypeOK, ScannerTypeOK
<1>6. UNCHANGED fileStates
  BY DEF Write
<1> QED
  BY <1>4, <1>5, <1>6 DEF TailsOK, Prints

LEMMA ScanFileTails ==
    ASSUME TypeOK, TailsOK, NEW s \in Sessions, ScanFile(s)
    PROVE  TailsOK'
<1> DEFINE st == fileStates[s]
<1>1. /\ \A t \in Sessions \ {s} : unread'[t] = unread[t] /\ fileStates'[t] = fileStates[t]
      /\ unread'[s] \in {unread[s], Nothing}
  BY DEF ScanFile, TypeOK, ScannerTypeOK
<1>2. CASE ~fileStates'[s].known
  BY <1>1, <1>2 DEF TailsOK, Nothing, Prints
<1>3. ASSUME NEW tail, fileStates'[s].tail = tail, tail = Blank \/ Prints(s, tail)
      PROVE  TailsOK'
  <2>1. \A t \in Sessions \ {s} :
          fileStates'[t].known => fileStates'[t].tail = Blank \/ Prints(t, fileStates'[t].tail)
    BY <1>1 DEF TailsOK
  <2>2. fileStates'[s].tail = Blank \/ Prints(s, fileStates'[s].tail)
    BY <1>3
  <2>3. \A t \in Sessions : unread'[t].kind = "lines" => Prints(t, unread'[t].screen)
    BY <1>1 DEF TailsOK, Nothing
  <2> QED
    BY <2>1, <2>2, <2>3 DEF TailsOK, Prints
<1>4. ASSUME st.known, fileStates'[s] = [st EXCEPT !.boundary = now]
      PROVE  TailsOK'
  <2>1. st \in FileState
    BY <1>4 DEF TypeOK, ScannerTypeOK, Forgotten
  <2>2. fileStates'[s].tail = st.tail
    BY <1>4, <2>1 DEF FileState
  <2> QED
    BY <1>3, <1>4, <2>2 DEF TailsOK
<1>5. ASSUME st.known, unread[s].kind = "lines",
             fileStates'[s] = [[st EXCEPT !.boundary = now] EXCEPT !.tail = unread[s].screen,
                                                                   !.lastDeltaAt = now]
      PROVE  TailsOK'
  <2>1. st \in FileState
    BY <1>5 DEF TypeOK, ScannerTypeOK, Forgotten
  <2>2. fileStates'[s].tail = unread[s].screen
    BY <1>5, <2>1 DEF FileState
  <2> QED
    BY <1>3, <1>5, <2>2 DEF TailsOK
<1>6. CASE s \notin logs
  BY <1>2, <1>6 DEF ScanFile, TypeOK, ScannerTypeOK, Forgotten
<1>7. CASE s \in logs /\ ~st.known
  <2>1. fileStates'[s] = [known |-> TRUE, tail |-> Blank, lastDeltaAt |-> now, boundary |-> asOf]
    BY <1>7 DEF ScanFile, TypeOK, ScannerTypeOK
  <2> QED
    BY <1>3, <2>1
<1>8. CASE s \in logs /\ st.known
  BY <1>4, <1>5, <1>8 DEF ScanFile, TypeOK, ScannerTypeOK
<1> QED
  BY <1>6, <1>7, <1>8

LEMMA EveryStepTails ==
    ASSUME TypeOK, TailsOK, [Next]_allVars
    PROVE  TailsOK'
<1>1. CASE UNCHANGED <<fileStates, unread>>
  BY <1>1 DEF TailsOK, Prints
<1>2. ASSUME NEW s \in Sessions, TerminalStep(s)
      PROVE  TailsOK'
  <2>1. CASE Repaint(s) \/ LogRemoved(s)
    BY <2>1 DEF Repaint, LogRemoved, TailsOK, Prints, Partial, Nothing, TypeOK, ScannerTypeOK
  <2> QED
    BY <1>2, <2>1, WriteTails DEF TerminalStep
<1>3. ASSUME NEW s \in Sessions, ScanFile(s)
      PROVE  TailsOK'
  BY <1>3, ScanFileTails
<1>4. CASE ScanBegins \/ Restart
  <2>1. \A s \in Sessions : /\ fileStates'[s] \in {fileStates[s], Forgotten}
                            /\ unread'[s] \in {unread[s], Nothing}
    BY <1>4 DEF ScanBegins, Restart
  <2> QED
    BY <2>1 DEF TailsOK, Prints, Forgotten, Nothing
<1>5. ASSUME NEW s \in Sessions, NEW p \in Payloads, HandleHook(s, p)
      PROVE  UNCHANGED scannerVars
  BY <1>5 DEF HandleHook
<1>6. ASSUME NEW d \in Ids, NEW status \in PatchStatuses, HandlePatch(d, status)
      PROVE  UNCHANGED scannerVars
  BY <1>6 DEF HandlePatch
<1>7. ASSUME NEW s \in Sessions, ClassifierStep(s)
      PROVE  UNCHANGED scannerVars
  BY <1>7 DEF ClassifierStep
<1>8. ASSUME NEW d \in Ids, Sweep(d) \/ Accept(d) \/ Succeed(d) \/ Fail(d) \/ Retry(d)
      PROVE  UNCHANGED scannerVars
  BY <1>8 DEF Sweep, Accept, Succeed, Fail, Retry, NotifierFrame
<1>9. DayEnds \/ Tick \/ UNCHANGED allVars => UNCHANGED scannerVars
  BY DEF DayEnds, Tick, allVars, vars
<1> QED
  BY <1>1, <1>2, <1>3, <1>4, <1>5, <1>6, <1>7, <1>8, <1>9 DEF Next, ScanStep, scannerVars

(* Where no two terminals show the same last lines, suppressing a repeated  *)
(* screen never hides a session that waits: whatever hooks, clicks, LLM     *)
(* answers and restarts come in between, it has had a decision.             *)
THEOREM WaitersAreQueued ==
    ASSUME OwnScreens
    PROVE  Spec => []WaitingHasDecision
<1>1. Init => WaitInv
  BY DEF Init, StoreInit, ClassifierInit, ScannerInit, NoState, NoRequest, Nothing, Forgotten,
         WaitInv, DedupOK, CallsOK, TailsOK, WaitsOK, SaysWaiting
<1>2. NotifierInv /\ WaitInv /\ [Next]_allVars => WaitInv'
  BY EveryStepBacked, EveryStepTable, EveryStepTails, BackedKeeps DEF NotifierInv, WaitInv
<1>3. NotifierInv /\ WaitInv => WaitingHasDecision
  <2> SUFFICES ASSUME NotifierInv, WaitInv, NEW s \in Sessions, SaysWaiting(states[s])
               PROVE  \E d \in 1..lastId : decisions[d].session = s
    BY DEF WaitingHasDecision, SaysWaiting
  <2>1. PICK d \in Ids : decisions[d].status \in ValidStatus /\ decisions[d].session = s
    BY DEF WaitInv, WaitsOK, HasRow
  <2>2. d <= lastId /\ lastId \in Nat
    BY <2>1, OpenTable, RowsHaveStatus DEF NotifierInv, TypeOK, StoreTypeOK, DecisionsOK
  <2> QED
    BY <2>1, <2>2 DEF Ids
<1> QED
  BY <1>1, <1>2, <1>3, NotifierInvAlways, PTL DEF Spec

-------------------------------------------------------------------------------
(* A question in the log reaches the queue.                                 *)

(* What ingestCandidate does with a new text leaves it with the session.    *)
LEMMA IngestQuestions ==
    ASSUME TypeOK, NEW row, NEW s \in Sessions, NEW q, NEW risk, NEW automate \in BOOLEAN, NEW source,
           IngestCandidate(decisions, row, s, q, risk, FALSE, automate, source)
    PROVE  Questioned(s, q)'
<1>1. IsTable(decisions) /\ lastId \in Nat /\ MaxDecisions \in Nat
  BY OpenTable, StoreAssumption DEF TypeOK, StoreTypeOK, DecisionsOK
<1>2. ASSUME NEW d \in Ids, IsLatestOpen(decisions, d, s),
             decisions' = [decisions EXCEPT ![d] = [@ EXCEPT !.summary = q]]
      PROVE  Questioned(s, q)'
  <2>1. decisions[d].status \in OpenStatus /\ decisions[d].session = s
    BY <1>2 DEF IsLatestOpen, OpenIn
  <2>2. decisions[d] \in Decision
    BY <1>1, <2>1, RowsHaveStatus DEF ValidStatus, IsTable
  <2>3. decisions'[d] = [decisions[d] EXCEPT !.summary = q]
    BY <1>1, <1>2 DEF IsTable
  <2>4. /\ decisions'[d].status \in OpenStatus /\ decisions'[d].session = s
        /\ decisions'[d].summary = q
    BY <2>1, <2>2, <2>3 DEF Decision
  <2>5. QED
    BY <2>4 DEF Questioned
<1>3. ASSUME lastId < MaxDecisions,
             decisions' = [decisions EXCEPT ![lastId + 1] = NewDecision(s, q, risk)]
      PROVE  Questioned(s, q)'
  <2>1. lastId + 1 \in Ids
    BY <1>1, <1>3 DEF Ids
  <2>2. decisions'[lastId + 1] = NewDecision(s, q, risk)
    BY <1>1, <1>3, <2>1 DEF IsTable
  <2>3. QED
    BY <2>1, <2>2 DEF Questioned, NewDecision, OpenStatus
<1>4. QED
  BY <1>2, <1>3 DEF IngestCandidate

(* The pass that comes to the question raises it.                           *)
LEMMA ScanFileQuestions ==
    ASSUME TypeOK, NEW s \in Sessions, NEW q \in Questions, Waits(s, q), ~Repeats(s), ScanFile(s)
    PROVE  Questioned(s, q)' \/ s \notin logs'
<1>1. /\ fileStates[s].known /\ unread[s].kind = "lines" /\ unread[s].match = q
      /\ q # NoMatch /\ s \in scanning
  BY ScannerAssumption DEF Waits, ScanFile
<1>2. logs' = logs
  BY DEF ScanFile
<1>3. ASSUME s \in logs
      PROVE  RaiseCandidate(s, q, unread[s].screen, fileStates[s].boundary)
  BY <1>1, <1>3 DEF ScanFile
<1>4. ~IsDuplicate(unread[s].screen, asOf)
  <2>1. unread[s] \in Unread /\ asOf \in Nat /\ DedupWindow \in Nat
        /\ dedup \in [Screens -> DedupRow]
    BY StoreAssumption DEF TypeOK, ScannerTypeOK, StoreTypeOK
  <2>2. dedup[unread[s].screen] \in DedupRow
    BY <1>1, <2>1, UnreadType
  <2>3. dedup[unread[s].screen].at \in Nat
    BY <2>2 DEF DedupRow
  <2>4. QED
    BY <1>1, <2>1, <2>3 DEF Repeats, PassBegan, IsDuplicate
<1>5. ASSUME s \in logs
      PROVE  IngestCandidate(decisions, states[s], s, q, "high", FALSE, TRUE, "heuristic")
  BY <1>3, <1>4, <1>5 DEF RaiseCandidate
<1>6. QED
  BY <1>2, <1>5, IngestQuestions

(* Output behind the question does not hide it: the first match counts.     *)
LEMMA WriteKeepsQuestion ==
    ASSUME TypeOK, NEW t \in Sessions, NEW o \in Outputs[t], Write(t, o),
           NEW s \in Sessions, NEW q \in Questions \ LongQuestions, Waits(s, q)
    PROVE  Waits(s, q)'
<1>1. o \in Output /\ unread \in [Sessions -> Unread]
  BY ScannerAssumption DEF TypeOK, ScannerTypeOK
<1>2. fileStates' = fileStates
  BY DEF Write
<1>3. unread' = [unread EXCEPT ![t] =
          IF fileStates[t].known THEN Lines([o EXCEPT !.match = FirstMatch(unread[t], o.match)])
                                 ELSE Nothing]
  BY <1>1 DEF Write, Output
<1>4. CASE s = t
  <2>1. unread'[s] = Lines([o EXCEPT !.match = q])
    BY <1>1, <1>3, <1>4 DEF Waits, FirstMatch
  <2>2. unread'[s].kind = "lines" /\ unread'[s].match = q
    BY <1>1, <2>1 DEF Lines, Output
  <2>3. QED
    BY <1>2, <2>2 DEF Waits
<1>5. CASE s # t
  BY <1>1, <1>2, <1>3, <1>5 DEF Waits
<1>6. QED
  BY <1>4, <1>5

LEMMA EveryStepKeepsQuestions ==
    ASSUME TypeOK, [Next]_allVars
    PROVE  FreshQuestionIsKept
<1> SUFFICES ASSUME NEW s \in Sessions, NEW q \in Questions \ LongQuestions,
                    Waits(s, q), ~Repeats(s)
             PROVE  Waits(s, q)' \/ Questioned(s, q)' \/ s \notin logs' \/ ~fileStates'[s].known
  BY DEF FreshQuestionIsKept
<1>a. unread \in [Sessions -> Unread]
  BY DEF TypeOK, ScannerTypeOK
<1>1. CASE UNCHANGED <<unread, fileStates>>
  BY <1>1 DEF Waits
<1>2. ASSUME NEW t \in Sessions, ScanFile(t)
      PROVE  Waits(s, q)' \/ Questioned(s, q)' \/ s \notin logs'
  <2>1. CASE t = s
    BY <1>2, <2>1, ScanFileQuestions
  <2>2. CASE t # s
    <3>1. unread'[s] = unread[s]
      BY <1>2, <1>a, <2>2 DEF ScanFile
    <3>2. fileStates'[s] = fileStates[s]
      BY <1>2, <2>2 DEF ScanFile, TypeOK, ScannerTypeOK
    <3>3. QED
      BY <3>1, <3>2 DEF Waits
  <2>3. QED
    BY <2>1, <2>2
<1>3. CASE ScanBegins
  BY <1>3 DEF ScanBegins, Waits, Forgotten
<1>4. CASE Restart
  BY <1>4 DEF Restart, Forgotten
<1>5. ASSUME NEW t \in Sessions, TerminalStep(t)
      PROVE  Waits(s, q)' \/ s \notin logs'
  <2>1. ASSUME NEW o \in Outputs[t], Write(t, o) PROVE Waits(s, q)'
    BY <2>1, WriteKeepsQuestion
  <2>2. CASE Repaint(t)
    BY <1>a, <2>2 DEF Repaint, Waits, Nothing
  <2>3. CASE LogRemoved(t)
    BY <1>a, <2>3 DEF LogRemoved, Waits
  <2>4. QED
    BY <1>5, <2>1, <2>2, <2>3 DEF TerminalStep
<1>6. ASSUME NEW t \in Sessions, NEW p \in Payloads, HandleHook(t, p)
      PROVE  UNCHANGED <<unread, fileStates>>
  BY <1>6 DEF HandleHook, scannerVars
<1>7. ASSUME NEW d \in Ids, NEW status \in PatchStatuses, HandlePatch(d, status)
      PROVE  UNCHANGED <<unread, fileStates>>
  BY <1>7 DEF HandlePatch, scannerVars
<1>8. ASSUME NEW t \in Sessions, ClassifierStep(t)
      PROVE  UNCHANGED <<unread, fileStates>>
  BY <1>8 DEF ClassifierStep, scannerVars
<1>9. ASSUME NEW d \in Ids, Sweep(d) \/ Accept(d) \/ Succeed(d) \/ Fail(d) \/ Retry(d)
      PROVE  UNCHANGED <<unread, fileStates>>
  BY <1>9 DEF Sweep, Accept, Succeed, Fail, Retry, NotifierFrame, scannerVars
<1>10. DayEnds \/ Tick \/ UNCHANGED allVars => UNCHANGED <<unread, fileStates>>
  BY DEF DayEnds, Tick, allVars, vars, scannerVars
<1>11. QED
  BY <1>1, <1>2, <1>3, <1>4, <1>5, <1>6, <1>7, <1>8, <1>9, <1>10 DEF Next, ScanStep

(* A question of one line, on a screen that was not seen within the window, *)
(* is put to the operator with its own text by the pass that reads it, and  *)
(* nothing that is written or that happens before the pass takes it away    *)
(* but the loss of the log and a restart.                                   *)
THEOREM FreshQuestionsAreAsked == Spec => FreshQuestionIsAsked
<1>1. NotifierInv /\ [Next]_allVars => [FreshQuestionIsKept]_allVars
  BY EveryStepKeepsQuestions DEF NotifierInv
<1>2. QED
  BY <1>1, NotifierInvAlways, PTL DEF Spec, FreshQuestionIsAsked

===============================================================================
