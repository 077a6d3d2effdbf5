------------------------------- MODULE Scanner --------------------------------
(***************************************************************************)
(* Layer 2, watcher/scanner.mjs: every few seconds one synchronous pass     *)
(* over the pipe-pane log of each session.  What the daemon remembers of a  *)
(* file (fileStates) is memory: a restart loses it and starts at the end    *)
(* of the file.                                                             *)
(***************************************************************************)
EXTENDS DecisionQueue

CONSTANTS
    StallTime,      \* WATCHER_STALL_MS, in ticks
    LongQuestions,  \* the questions only matchLongQuestion recognises
    Outputs         \* for each session, what its terminal may write between scans

NoMatch == "no match"

(* Complete lines: match is the first line among them with a decision       *)
(* pattern (the long question at the end counts), screen is what the last   *)
(* lines of the file are then.                                              *)
Output == [match: Questions \cup {NoMatch}, screen: Screens]

ASSUME ScannerAssumption ==
    /\ StallTime \in Nat
    /\ LongQuestions \subseteq Questions
    /\ Outputs \in [Sessions -> SUBSET Output]
    /\ NoMatch \notin Questions

VARIABLES
    logs,        \* the sessions that have a log file
    unread,      \* what each file has gained past the scanner's offset, if it has one
    fileStates,  \* what the scanner knows of each file
    scanning,    \* the files this pass has not come to yet
    asOf         \* the instant this pass began; 0 between passes

scannerVars == <<logs, unread, fileStates, scanning, asOf>>
vars == <<queueVars, scannerVars>>

Nothing == [kind |-> "nothing"]
Partial == [kind |-> "partial"]  \* bytes without a newline: repaint of a TUI
Lines(o) == [kind |-> "lines", match |-> o.match, screen |-> o.screen]
Unread == {Nothing, Partial} \cup {Lines(o) : o \in Output}

Forgotten == [known |-> FALSE]
FileState == [known: {TRUE}, tail: Screens, lastDeltaAt: Nat, boundary: Nat]

ScannerTypeOK ==
    /\ logs \subseteq Sessions
    /\ unread \in [Sessions -> Unread]
    /\ fileStates \in [Sessions -> FileState \cup {Forgotten}]
    /\ scanning \subseteq Sessions
    /\ asOf \in Nat

ScannerInit ==
    /\ logs = {}
    /\ unread = [s \in Sessions |-> Nothing]
    /\ fileStates = [s \in Sessions |-> Forgotten]
    /\ scanning = {}
    /\ asOf = 0

(* A pass is one callback of the event loop: no request, timer or answer is *)
(* handled until it is over.                                                *)
LoopFree == scanning = {}

-------------------------------------------------------------------------------
(* The terminal, outside of the daemon.                                     *)

(* Faulty variant: only the end of the delta is looked at.                  *)
LastMatch(delta, match) == match

(* The match of a delta that grows: every line is looked at, and the first  *)
(* match counts; a long question is looked for at the end only.             *)
FirstMatch(delta, match) ==
    IF delta.kind = "lines" /\ delta.match \in Questions \ LongQuestions THEN delta.match ELSE match

Write(s, o) ==
    /\ logs' = logs \cup {s}
    /\ shown' = [shown EXCEPT ![s] = o.screen]
    /\ unread' = [unread EXCEPT ![s] =
          IF fileStates[s].known THEN Lines([o EXCEPT !.match = FirstMatch(unread[s], @)]) ELSE Nothing]
    /\ UNCHANGED <<now, states, decisions, lastId, dedup, classifierVars, notifierVars,
                   fileStates, scanning, asOf>>

Repaint(s) ==
    /\ s \in logs
    /\ fileStates[s].known
    /\ unread[s] = Nothing
    /\ unread' = [unread EXCEPT ![s] = Partial]
    /\ UNCHANGED <<queueVars, logs, fileStates, scanning, asOf>>

LogRemoved(s) ==
    /\ s \in logs
    /\ logs' = logs \ {s}
    /\ shown' = [shown EXCEPT ![s] = Blank]
    /\ unread' = [unread EXCEPT ![s] = Nothing]
    /\ UNCHANGED <<now, states, decisions, lastId, dedup, classifierVars, notifierVars,
                   fileStates, scanning, asOf>>

-------------------------------------------------------------------------------
(* The pass.                                                                *)

(* scanOnce: files that vanished are forgotten, the rest are processed one  *)
(* by one.                                                                  *)
ScanBegins ==
    /\ LoopFree
    /\ scanning' = logs
    /\ asOf' = IF logs = {} THEN 0 ELSE now
    /\ fileStates' = [s \in Sessions |-> IF s \in logs THEN fileStates[s] ELSE Forgotten]
    /\ UNCHANGED <<queueVars, logs, unread>>

(* raiseCandidate: a screen not seen within the window becomes a candidate; *)
(* a repeated one only says that the session waits.                         *)
RaiseCandidate(s, summary, tail, boundary) ==
    /\ RecordDedup(tail)
    /\ IF IsDuplicate(tail, asOf)
         THEN /\ states' = [states EXCEPT ![s] = Heuristic(@, "waiting_for_input", boundary)]
              /\ UNCHANGED <<now, decisions, lastId, shown, classifierVars, notifierVars>>
         ELSE IngestCandidate(decisions, states[s], s, summary, "high", FALSE, TRUE, "heuristic")

(* No new byte: after StallTime of silence the last line decides.           *)
ScanSilent(s, st) ==
    IF now < st.lastDeltaAt + StallTime
      THEN UNCHANGED queueVars
      ELSE IF st.tail \in Questions
        THEN RaiseCandidate(s, st.tail, st.tail, st.boundary)
        ELSE /\ states' = [states EXCEPT ![s] = Heuristic(@, "idle", st.boundary)]
             /\ UNCHANGED <<now, decisions, lastId, dedup, shown, classifierVars, notifierVars>>

(* processFile.  The first sight of a file takes its end as the offset.     *)
(* Repaints refresh nothing but the boundary.                               *)
ScanFile(s) ==
    LET st == fileStates[s]
        delta == unread[s]
        after == [st EXCEPT !.boundary = now]
    IN  /\ s \in scanning
        /\ scanning' = scanning \ {s}
        /\ asOf' = IF scanning' = {} THEN 0 ELSE asOf
        /\ IF s \notin logs
             THEN /\ fileStates' = [fileStates EXCEPT ![s] = Forgotten]
                  /\ UNCHANGED <<queueVars, unread>>
             ELSE /\ unread' = [unread EXCEPT ![s] = Nothing]
                  /\ IF ~st.known
                       THEN /\ fileStates' = [fileStates EXCEPT ![s] =
                                 [known |-> TRUE, tail |-> Blank,
                                  lastDeltaAt |-> now, boundary |-> asOf]]
                            /\ UNCHANGED queueVars
                       ELSE CASE delta.kind = "lines" ->
                                   /\ fileStates' = [fileStates EXCEPT ![s] =
                                        [after EXCEPT !.tail = delta.screen, !.lastDeltaAt = now]]
                                   /\ IF delta.match = NoMatch
                                        THEN UNCHANGED queueVars
                                        ELSE RaiseCandidate(s, delta.match, delta.screen, st.boundary)
                              [] delta.kind = "partial" ->
                                   /\ fileStates' = [fileStates EXCEPT ![s] = after]
                                   /\ UNCHANGED queueVars
                              [] OTHER ->
                                   /\ fileStates' = [fileStates EXCEPT ![s] = after]
                                   /\ ScanSilent(s, st)
        /\ UNCHANGED logs

===============================================================================
