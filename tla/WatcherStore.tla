----------------------------- MODULE WatcherStore -----------------------------
(***************************************************************************)
(* The durable state of the watcher daemon (watcher/watcher.mjs): the       *)
(* session_state, decisions and dedup tables of its SQLite file, with the   *)
(* statements every layer of detection writes them through.  A statement    *)
(* that computes a row is an operator from the old row to the new one; the  *)
(* handlers of the other modules put them together.                         *)
(*                                                                          *)
(* Only sessions that pass isCkptSession are members of Sessions: a hook    *)
(* from any other session is written to the audit table and stops there.    *)
(* A question and the text a human reads about it are one value; the last   *)
(* lines of a terminal are one value too, a Screen.                         *)
(***************************************************************************)
EXTENDS Naturals, FiniteSets

CONSTANTS
    Sessions,      \* the ckpt- sessions of this host
    Screens,       \* what the last lines of a terminal log can be
    Questions,     \* the screens whose last line matches a decision pattern
    Blank,         \* the screen of an empty log
    DedupWindow,   \* WATCHER_DEDUP_WINDOW_MS, in ticks
    MaxDecisions,  \* bound: rows the decisions table can reach
    MaxTime        \* bound: the last tick of the clock

ASSUME StoreAssumption ==
    /\ Questions \subseteq Screens
    /\ Blank \in Screens \ Questions
    /\ DedupWindow \in Nat
    /\ MaxDecisions \in Nat
    /\ MaxTime \in Nat

VARIABLES
    now,        \* the clock every strftime(...,'now') reads
    states,     \* session_state, one row per session
    decisions,  \* the decisions table, by id
    lastId,     \* the last id AUTOINCREMENT gave out
    dedup,      \* the dedup table, by hash of the last lines
    shown       \* the last lines of each session's log file

storeVars == <<now, states, decisions, lastId, dedup, shown>>

-------------------------------------------------------------------------------

ValidStates == {"thinking", "waiting_for_input", "idle", "error"}
ValidRisks == {"low", "high"}
OpenStatus == {"pending", "seen"}
ClosedStatus == {"answered", "dismissed"}
ValidStatus == OpenStatus \cup ClosedStatus
Ids == 1..MaxDecisions

StateRow == [state: ValidStates \cup {"none"}, updated: Nat, since: Nat,
             source: {"hook", "heuristic"}]
NoState == [state |-> "none", updated |-> 0, since |-> 0, source |-> "heuristic"]

Decision == [session: Sessions, summary: Screens, risk: ValidRisks,
             status: ValidStatus, notified: BOOLEAN]
NoDecision == [status |-> "absent"]

DedupRow == [seen: BOOLEAN, at: Nat]

(* An id beyond the last one given out has no row: DecisionsOK is what      *)
(* AUTOINCREMENT and the absence of any DELETE guarantee.                   *)
DecisionsOK ==
    /\ lastId \in 0..MaxDecisions
    /\ decisions \in [Ids -> Decision \cup {NoDecision}]
    /\ \A d \in Ids : decisions[d] \in Decision <=> d <= lastId

StoreTypeOK ==
    /\ now \in Nat
    /\ states \in [Sessions -> StateRow]
    /\ DecisionsOK
    /\ dedup \in [Screens -> DedupRow]
    /\ shown \in [Sessions -> Screens]

StoreInit ==
    /\ now = 0
    /\ states = [s \in Sessions |-> NoState]
    /\ decisions = [d \in Ids |-> NoDecision]
    /\ lastId = 0
    /\ dedup = [h \in Screens |-> [seen |-> FALSE, at |-> 0]]
    /\ shown = [s \in Sessions |-> Blank]

-------------------------------------------------------------------------------

(* upsertState: updated is a heartbeat, since moves only when the state     *)
(* changes, the layer that wrote last owns the row.                         *)
Upserted(row, state, source) ==
    [state   |-> state,
     updated |-> now,
     since   |-> IF row.state = state THEN row.since ELSE now,
     source  |-> source]

(* Faulty variant: the guard as it was before ADR 002, age only.            *)
HeuristicByAgeOnly(row, state, olderThan) ==
    IF row.state # "none" /\ row.updated > olderThan
      THEN row
      ELSE Upserted(row, state, "heuristic")

(* applyHeuristicState: a state newer than the caller's observation, or one *)
(* a hook wrote, stays as it is.                                            *)
Heuristic(row, state, olderThan) ==
    IF row.state # "none" /\ (row.updated > olderThan \/ row.source = "hook")
      THEN row
      ELSE Upserted(row, state, "heuristic")

(* releaseStateLock: the row keeps its state and both its clocks.           *)
Released(row) == [row EXCEPT !.source = "heuristic"]

(* Faulty variant: the declared risk is stored as it comes.                 *)
RiskAsDeclared(risk) == risk

(* normalizeRisk: when in doubt, high.                                      *)
NormalizedRisk(risk) == IF risk \in ValidRisks THEN risk ELSE "high"

-------------------------------------------------------------------------------

(* Faulty variant: no condition on the status.                              *)
AnyStatusIn(ds, s) ==
    {d \in Ids : ds[d].status \in ValidStatus /\ ds[d].session = s}

(* The decisions of session s that are still in the visible queue.          *)
OpenIn(ds, s) ==
    {d \in Ids : ds[d].status \in OpenStatus /\ ds[d].session = s}

(* findOpenDecision: ORDER BY id DESC LIMIT 1.                              *)
IsLatestOpen(ds, d, s) ==
    /\ d \in OpenIn(ds, s)
    /\ \A e \in OpenIn(ds, s) : e <= d

(* answerOpenDecisions                                                      *)
Drained(ds, s) ==
    [d \in Ids |-> IF d \in OpenIn(ds, s) THEN [ds[d] EXCEPT !.status = "answered"]
                                          ELSE ds[d]]

(* Faulty variant: a missing row taken for one of the epoch.                *)
IsDuplicateOfNothing(h, asOf) == asOf <= dedup[h].at + DedupWindow

(* Faulty variant: the window is one tick too wide.                         *)
IsDuplicateStill(h, asOf) == dedup[h].seen /\ asOf <= dedup[h].at + DedupWindow + 1

(* checkAndRecordDedup: the answer, and the row it leaves behind.           *)
IsDuplicate(h, asOf) == dedup[h].seen /\ asOf <= dedup[h].at + DedupWindow
RecordDedup(h) == dedup' = [dedup EXCEPT ![h] = [seen |-> TRUE, at |-> now]]

===============================================================================
