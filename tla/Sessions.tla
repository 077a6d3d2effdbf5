-------------------------------- MODULE Sessions --------------------------------
(***************************************************************************)
(* The tmux sessions of one profile as the server keeps them: the           *)
(* TmuxSessionManager, the rows of session_metadata, the delete route and   *)
(* the wiring that starts and stops the reconciliation with the connection. *)
(* The host is modelled as far as the commands see it: the sessions that    *)
(* live, the pipe-pane of each, its agent and the hooks of the profile.     *)
(* A query (runQuery) is asked, run by the host and answered, in three      *)
(* steps; a query that times out answers null, run or not.                  *)
(***************************************************************************)
EXTENDS Integers, FiniteSets, FiniteSetsExt

CONSTANTS
    MaxSessions,    \* bound: names of sessions, in the order of their rows
    MaxChains,      \* bound: reconciliation loops alive at once
    MaxConnections, \* bound: connections of the pool of the profile
    MaxRearms,      \* maxPipeRearmAttempts
    MaxHostEvents,  \* bound: what happens on the host by itself
    MaxLinkEvents,  \* bound: connections lost or given up, and queries that time out
    MaxOrders       \* bound: sessions opened or deleted by the operator

ASSUME SessionsAssumption ==
    /\ {MaxSessions, MaxChains, MaxConnections, MaxRearms} \subseteq Nat \ {0}
    /\ {MaxHostEvents, MaxLinkEvents, MaxOrders} \subseteq Nat

Names == 1..MaxSessions
Chains == 1..MaxChains
Connections == 0..MaxConnections

(* The others that ask the host: the adoption on connect, and the delete    *)
(* route.                                                                   *)
Adopter == MaxChains + 1
Killer == MaxChains + 2
Askers == 1..Killer

VARIABLES
    rows,      \* session_metadata: the status of the row of each name
    rearms,    \* pipeRearmAttempts; 0: no entry
    hookless,  \* hookless of the profile
    foreign,   \* hooksUnsupported of the profile
    handle,    \* reconcileTimers: the chain whose timer is kept; 0: no entry
    tasks,     \* the chains and the other askers: what each awaits
    up,        \* the connections of the pool that are connected
    host,      \* the host: sessions and hooks
    opened,    \* sessions that the operator has opened: they may have a channel
    births,    \* sessions whose attach command is on its way
    deaths,    \* sessions whose kill-session is on its way
    budget     \* what happened so far, of each bounded kind

sessionsVars == <<rows, rearms, hookless, foreign, handle, tasks, up, host,
                  opened, births, deaths, budget>>

RowStatus == {"none", "active", "error"}
(* before: an agent that reads the hooks, started before they were          *)
(* installed; after: started since; other: an agent that does not read them.*)
AgentKind == {"shell", "before", "after", "other"}
Pane == [alive: BOOLEAN, piped: BOOLEAN, agent: AgentKind]
NoPane == [alive |-> FALSE, piped |-> FALSE, agent |-> "shell"]
Host == [panes: [Names -> Pane], hooks: BOOLEAN]

(* What the output of a query says of one session.                          *)
Sighting == {"absent", "live", "piped", "unpiped", "quiet", "hookless", "unsupported"}
NothingSeen == [n \in Names |-> "absent"]

(* armed: the timer runs; then the awaits of a tick, in their order.  list  *)
(* and kill are also the steps of the other askers.                         *)
Step == {"off", "armed", "list", "pipes", "rearm", "hooks", "kill"}
Task == [step: Step, ran: BOOLEAN, seen: [Names -> Sighting],
         todo: SUBSET Names, target: 0..MaxSessions]
Idle == [step |-> "off", ran |-> FALSE, seen |-> NothingSeen, todo |-> {}, target |-> 0]
Armed == [Idle EXCEPT !.step = "armed"]
Asking(step, todo, target) ==
    [Idle EXCEPT !.step = step, !.todo = todo, !.target = target]

Budget == [host: 0..MaxHostEvents, link: 0..MaxLinkEvents, orders: 0..MaxOrders]

SessionsTypeOK ==
    /\ rows \in [Names -> RowStatus]
    /\ rearms \in [Names -> 0..MaxRearms]
    /\ hookless \in SUBSET Names
    /\ foreign \in SUBSET Names
    /\ handle \in 0..MaxChains
    /\ tasks \in [Askers -> Task]
    /\ up \in Connections
    /\ host \in Host
    /\ opened \in SUBSET Names
    /\ births \in SUBSET Names
    /\ deaths \in SUBSET Names
    /\ budget \in Budget

(* The server starts with the rows of its database, here of the sessions    *)
(* that the host runs or of none.                                           *)
SessionsInit ==
    /\ rows \in {[n \in Names |-> "none"], [n \in Names |-> "active"]}
    /\ rearms = [n \in Names |-> 0]
    /\ hookless = {}
    /\ foreign = {}
    /\ handle = 0
    /\ tasks = [p \in Askers |-> Idle]
    /\ up = 0
    /\ \E h \in BOOLEAN :
          host = [panes |-> [n \in Names |-> [NoPane EXCEPT !.alive = TRUE]], hooks |-> h]
    /\ opened = {}
    /\ births = {}
    /\ deaths = {}
    /\ budget = [host |-> 0, link |-> 0, orders |-> 0]

Alive(n) == host.panes[n].alive
ActiveRows == {n \in Names : rows[n] = "active"}

(***************************************************************************)
(* Queries.  The parsers keep one line per session: parseSessionList names  *)
(* it, parsePipeStates gives its flag, parseHookCoverage judges its agent   *)
(* by what is installed and by when the agent started.                      *)
(***************************************************************************)
parseSessionList(h) ==
    [n \in Names |-> IF h.panes[n].alive THEN "live" ELSE "absent"]

parsePipeStates(h) ==
    [n \in Names |-> CASE ~h.panes[n].alive -> "absent"
                       [] h.panes[n].piped -> "piped"
                       [] OTHER -> "unpiped"]

parseHookCoverage(h) ==
    [n \in Names |->
        LET a == h.panes[n].agent IN
        CASE ~h.panes[n].alive -> "absent"
          [] a = "shell" -> "quiet"
          [] a = "other" \/ ~h.hooks -> "unsupported"
          [] a = "before" -> "hookless"
          [] OTHER -> "quiet"]

(* The host runs the command of a query: what it prints, and what it        *)
(* changes.  A pipe that is reset is alive unless it jams again.            *)
HostRuns(p) ==
    /\ up > 0
    /\ tasks[p].step \in {"list", "pipes", "rearm", "hooks"}
    /\ ~tasks[p].ran
    /\ LET t == tasks[p]
           Ran(seen) == tasks' = [tasks EXCEPT ![p].ran = TRUE, ![p].seen = seen]
       IN
       \/ t.step = "list" /\ Ran(parseSessionList(host)) /\ UNCHANGED <<host, budget>>
       \/ t.step = "pipes" /\ Ran(parsePipeStates(host)) /\ UNCHANGED <<host, budget>>
       \/ t.step = "hooks" /\ Ran(parseHookCoverage(host)) /\ UNCHANGED <<host, budget>>
       \/ /\ t.step = "rearm"
          /\ Ran(t.seen)
          /\ host' = [host EXCEPT !.panes[t.target].piped = Alive(t.target)]
          /\ UNCHANGED budget
       \/ /\ t.step = "rearm"
          /\ budget.host < MaxHostEvents
          /\ Ran(t.seen)
          /\ host' = [host EXCEPT !.panes[t.target].piped = FALSE]
          /\ budget' = [budget EXCEPT !.host = @ + 1]
    /\ UNCHANGED <<rows, rearms, hookless, foreign, handle, up, births, deaths, opened>>

HostKills(n) ==
    /\ up > 0
    /\ n \in deaths
    /\ deaths' = deaths \ {n}
    /\ host' = [host EXCEPT !.panes[n] = NoPane]
    /\ tasks' = IF tasks[Killer].step = "kill" /\ tasks[Killer].target = n
                THEN [tasks EXCEPT ![Killer].ran = TRUE]
                ELSE tasks
    /\ UNCHANGED <<rows, rearms, hookless, foreign, handle, up, births, budget, opened>>

(* tmux new-session -A with pipe-pane -o: a session is created with a pipe, *)
(* or attached and given one if it has none.                                *)
HostAttaches(n) ==
    /\ up > 0
    /\ n \in births
    /\ births' = births \ {n}
    /\ host' = [host EXCEPT !.panes[n].alive = TRUE, !.panes[n].piped = TRUE]
    /\ UNCHANGED <<rows, rearms, hookless, foreign, handle, tasks, up, deaths, budget, opened>>

(* Answered: the output came back.  Refused: openChannel threw, the         *)
(* connection is down or the query timed out: null.                         *)
Answered(p) == tasks[p].ran /\ up > 0 /\ UNCHANGED budget
Unanswered(p) ==
    \/ up = 0 /\ UNCHANGED budget
    \/ up > 0 /\ budget.link < MaxLinkEvents /\ budget' = [budget EXCEPT !.link = @ + 1]

(***************************************************************************)
(* The tick of a chain: reconcileOnce, rearmDeadPipes, refreshHookCoverage, *)
(* and the timer again if the profile still has one.                        *)
(***************************************************************************)
Fires(c) ==
    /\ tasks[c].step = "armed"
    /\ tasks' = [tasks EXCEPT ![c] = Asking("list", {}, 0)]
    /\ UNCHANGED <<rows, rearms, hookless, foreign, handle, up, host, births, deaths, budget, opened>>

(* rearmDeadPipes takes the rows that are active when it starts; without    *)
(* any it asks nothing.                                                     *)
AfterList(active) == IF active = {} THEN Asking("hooks", {}, 0) ELSE Asking("pipes", active, 0)

(* The statuses after a list of the live sessions.                          *)
Swept(seen) ==
    [n \in Names |-> CASE rows[n] = "active" /\ seen[n] = "absent" -> "error"
                       [] rows[n] = "error" /\ seen[n] = "live" -> "active"
                       [] OTHER -> rows[n]]

(* Faulty variant: a query without an answer counts as an empty list.       *)
NullIsEmptyOnce(c) ==
    /\ tasks[c].step = "list"
    /\ \/ Answered(c) /\ rows' = Swept(tasks[c].seen)
       \/ Unanswered(c) /\ rows' = Swept(NothingSeen)
    /\ tasks' = [tasks EXCEPT ![c] = AfterList({n \in Names : rows'[n] = "active"})]
    /\ UNCHANGED <<rearms, hookless, foreign, handle, up, host, births, deaths, opened>>

(* Faulty variant: a session that is back keeps its error.                  *)
NeverRestoredOnce(c) ==
    /\ tasks[c].step = "list"
    /\ \/ /\ Answered(c)
          /\ rows' = [n \in Names |-> IF rows[n] = "error" THEN "error"
                                      ELSE Swept(tasks[c].seen)[n]]
       \/ Unanswered(c) /\ UNCHANGED rows
    /\ tasks' = [tasks EXCEPT ![c] = AfterList({n \in Names : rows'[n] = "active"})]
    /\ UNCHANGED <<rearms, hookless, foreign, handle, up, host, births, deaths, opened>>

reconcileOnce(c) ==
    /\ tasks[c].step = "list"
    /\ \/ Answered(c) /\ rows' = Swept(tasks[c].seen)
       \/ Unanswered(c) /\ UNCHANGED rows
    /\ tasks' = [tasks EXCEPT ![c] = AfterList({n \in Names : rows'[n] = "active"})]
    /\ UNCHANGED <<rearms, hookless, foreign, handle, up, host, births, deaths, opened>>

(* Faulty variant: the attempts are not counted against a limit.            *)
UnpipedForEver(c, todo) == {n \in todo : tasks[c].seen[n] = "unpiped"}

(* The sessions whose pipe has to be rearmed, up to a limit of attempts.    *)
Unpiped(c, todo) == {n \in todo : tasks[c].seen[n] = "unpiped" /\ rearms[n] < MaxRearms}

(* Faulty variant: a pipe that is alive again keeps its count.              *)
NeverForgottenRearm(c, todo) ==
    LET dead == Unpiped(c, todo)
        stop == IF dead = {} THEN MaxSessions + 1 ELSE Min(dead)
    IN
    /\ rearms' = [n \in Names |-> IF n = stop THEN rearms[n] + 1 ELSE rearms[n]]
    /\ tasks' = [tasks EXCEPT ![c] =
                    IF dead = {} THEN Asking("hooks", {}, 0)
                    ELSE [@ EXCEPT !.step = "rearm", !.ran = FALSE, !.target = stop,
                                   !.todo = {n \in todo : n > stop}]]

(* The loop of rearmDeadPipes from one await to the next: the sessions of   *)
(* todo in order, up to the first whose pipe has to be rearmed.             *)
RearmNext(c, todo) ==
    LET dead == Unpiped(c, todo)
        stop == IF dead = {} THEN MaxSessions + 1 ELSE Min(dead)
    IN
    /\ rearms' = [n \in Names |->
                    CASE n = stop -> rearms[n] + 1
                      [] n \in todo /\ n < stop /\ tasks[c].seen[n] = "piped" -> 0
                      [] OTHER -> rearms[n]]
    /\ tasks' = [tasks EXCEPT ![c] =
                    IF dead = {} THEN Asking("hooks", {}, 0)
                    ELSE [@ EXCEPT !.step = "rearm", !.ran = FALSE, !.target = stop,
                                   !.todo = {n \in todo : n > stop}]]

listPipeStates(c) ==
    /\ tasks[c].step = "pipes"
    /\ \/ Answered(c) /\ RearmNext(c, tasks[c].todo)
       \/ Unanswered(c) /\ tasks' = [tasks EXCEPT ![c] = Asking("hooks", {}, 0)]
                        /\ UNCHANGED rearms
    /\ UNCHANGED <<rows, hookless, foreign, handle, up, host, births, deaths, opened>>

(* rearmPipe returns nothing: answered or not, the loop goes on.            *)
rearmPipe(c) ==
    /\ tasks[c].step = "rearm"
    /\ Answered(c) \/ Unanswered(c)
    /\ RearmNext(c, tasks[c].todo)
    /\ UNCHANGED <<rows, hookless, foreign, handle, up, host, births, deaths, opened>>

(* Faulty variant: the timer of a stopped profile is armed, though not kept.*)
RearmedAnyway(c) ==
    /\ tasks' = [tasks EXCEPT ![c] = Armed]
    /\ handle' = IF handle = 0 THEN 0 ELSE c

FinallyRearm(c) ==
    IF handle = 0 THEN tasks' = [tasks EXCEPT ![c] = Idle] /\ UNCHANGED handle
    ELSE tasks' = [tasks EXCEPT ![c] = Armed] /\ handle' = c

(* Faulty variant: a query without an answer clears what was known.         *)
NullCoverage(c) ==
    /\ tasks[c].step = "hooks"
    /\ \/ /\ Answered(c)
          /\ hookless' = hookless \cup {n \in Names : tasks[c].seen[n] = "hookless"}
          /\ foreign' = foreign \cup {n \in Names : tasks[c].seen[n] = "unsupported"}
       \/ Unanswered(c) /\ UNCHANGED <<hookless, foreign>>
    /\ FinallyRearm(c)
    /\ UNCHANGED <<rows, rearms, up, host, births, deaths, opened>>

refreshHookCoverage(c) ==
    /\ tasks[c].step = "hooks"
    /\ \/ /\ Answered(c)
          /\ hookless' = {n \in Names : tasks[c].seen[n] = "hookless"}
          /\ foreign' = {n \in Names : tasks[c].seen[n] = "unsupported"}
       \/ Unanswered(c) /\ UNCHANGED <<hookless, foreign>>
    /\ FinallyRearm(c)
    /\ UNCHANGED <<rows, rearms, up, host, births, deaths, opened>>

(***************************************************************************)
(* start and stop, and the wiring that calls them.                          *)
(***************************************************************************)
FreeChains == {c \in Chains : tasks[c].step = "off"}

(* A new chain unless the profile has a timer; adoption next to it.         *)
startReconciliation(adoption) ==
    IF handle = 0
    THEN /\ FreeChains # {}
         /\ handle' = Min(FreeChains)
         /\ tasks' = [adoption EXCEPT ![Min(FreeChains)] = Armed]
    ELSE tasks' = adoption /\ UNCHANGED handle

(* Faulty variant: the timer is cleared, its entry stays.                   *)
ClearsTimerOnly ==
    /\ UNCHANGED handle
    /\ tasks' = IF handle # 0 /\ tasks[handle].step = "armed"
                THEN [tasks EXCEPT ![handle] = Idle]
                ELSE tasks

(* Cancels the timer that is kept: of a chain in its tick, it has fired.    *)
stopReconciliation ==
    /\ handle' = 0
    /\ tasks' = IF handle # 0 /\ tasks[handle].step = "armed"
                THEN [tasks EXCEPT ![handle] = Idle]
                ELSE tasks

(* A connection of the pool is ready: the terminals whose channels are on   *)
(* it, whichever, type their attach command again.  One adoption at a time  *)
(* here.                                                                    *)
Connected ==
    /\ up < MaxConnections
    /\ up' = up + 1
    /\ tasks[Adopter].step = "off"
    /\ startReconciliation([tasks EXCEPT ![Adopter] = Asking("list", {}, 0)])
    /\ \E replayed \in SUBSET opened : births' = births \cup replayed
    /\ UNCHANGED <<rows, rearms, hookless, foreign, host, opened, deaths, budget>>

(* A connection is lost and redials: the loop keeps running.                *)
Reconnecting ==
    /\ up > 0
    /\ budget.link < MaxLinkEvents
    /\ up' = up - 1
    /\ budget' = [budget EXCEPT !.link = @ + 1]
    /\ UNCHANGED <<rows, rearms, hookless, foreign, handle, tasks, host, births, deaths, opened>>

(* One that is not up gives up, or is closed: the loop stops, whatever the  *)
(* others do.  With no other, the attaches that waited for it are lost.     *)
ClosedOrError ==
    /\ up < MaxConnections
    /\ budget.link < MaxLinkEvents
    /\ budget' = [budget EXCEPT !.link = @ + 1]
    /\ stopReconciliation
    /\ births' = IF up = 0 THEN {} ELSE births
    /\ UNCHANGED <<rows, rearms, hookless, foreign, up, host, deaths, opened>>

(* What a list still says when its answer is handled becomes rows.          *)
adoptExistingSessions ==
    /\ tasks[Adopter].step = "list"
    /\ \/ /\ Answered(Adopter)
          /\ rows' = [n \in Names |->
                        IF rows[n] = "none" /\ tasks[Adopter].seen[n] = "live"
                        THEN "active" ELSE rows[n]]
       \/ Unanswered(Adopter) /\ UNCHANGED rows
    /\ tasks' = [tasks EXCEPT ![Adopter] = Idle]
    /\ UNCHANGED <<rearms, hookless, foreign, handle, up, host, births, deaths, opened>>

(***************************************************************************)
(* The operator: opens a session and deletes one.                           *)
(***************************************************************************)
Orders == budget.orders < MaxOrders /\ budget' = [budget EXCEPT !.orders = @ + 1]

(* The row is active before the host has seen the attach command.           *)
createOrAttach(n) ==
    /\ Orders
    /\ births' = births \cup {n}
    /\ opened' = opened \cup {n}
    /\ rows' = [rows EXCEPT ![n] = "active"]
    /\ UNCHANGED <<rearms, hookless, foreign, handle, tasks, up, host, deaths>>

(* The delete route asks for the kill of the session of a row.  Without any *)
(* connection openChannel may throw, which leaves all as it was.            *)
DeleteSession(n) ==
    /\ rows[n] # "none"
    /\ tasks[Killer].step = "off"
    /\ Orders
    /\ deaths' = deaths \cup {n}
    /\ tasks' = [tasks EXCEPT ![Killer] = Asking("kill", {}, n)]
    /\ UNCHANGED <<rows, rearms, hookless, foreign, handle, up, host, births, opened>>

(* The row goes whether the host answered or not.  A command that was not   *)
(* answered may be lost with its channel, or still run.                     *)
killSession ==
    LET n == tasks[Killer].target IN
    /\ tasks[Killer].step = "kill"
    /\ \/ Answered(Killer) /\ UNCHANGED deaths
       \/ Unanswered(Killer) /\ deaths' \in {deaths, deaths \ {n}}
    /\ rows' = [rows EXCEPT ![n] = "none"]
    /\ tasks' = [tasks EXCEPT ![Killer] = Idle]
    /\ UNCHANGED <<rearms, hookless, foreign, handle, up, host, births, opened>>

(***************************************************************************)
(* The host by itself.                                                      *)
(***************************************************************************)
HostEvent == budget.host < MaxHostEvents /\ budget' = [budget EXCEPT !.host = @ + 1]

(* A session ends, its pipe dies, an agent is started in it or left, or the *)
(* hooks are installed for the agents that start from now on.               *)
SessionEnds(n) ==
    /\ Alive(n) /\ HostEvent
    /\ host' = [host EXCEPT !.panes[n] = NoPane]
    /\ UNCHANGED <<rows, rearms, hookless, foreign, handle, tasks, up, births, deaths, opened>>

PipeDies(n) ==
    /\ Alive(n) /\ host.panes[n].piped /\ HostEvent
    /\ host' = [host EXCEPT !.panes[n].piped = FALSE]
    /\ UNCHANGED <<rows, rearms, hookless, foreign, handle, tasks, up, births, deaths, opened>>

AgentStarts(n) ==
    /\ Alive(n) /\ HostEvent
    /\ \E a \in {"shell", "other", IF host.hooks THEN "after" ELSE "before"} :
          host' = [host EXCEPT !.panes[n].agent = a]
    /\ UNCHANGED <<rows, rearms, hookless, foreign, handle, tasks, up, births, deaths, opened>>

HooksInstalled ==
    /\ ~host.hooks /\ HostEvent
    /\ host' = [host EXCEPT !.hooks = TRUE]
    /\ UNCHANGED <<rows, rearms, hookless, foreign, handle, tasks, up, births, deaths, opened>>

SessionsNext ==
    \/ \E c \in Chains : \/ Fires(c) \/ reconcileOnce(c) \/ listPipeStates(c)
                         \/ rearmPipe(c) \/ refreshHookCoverage(c)
    \/ \E p \in Askers : HostRuns(p)
    \/ \E n \in Names : HostKills(n) \/ HostAttaches(n)
    \/ Connected \/ Reconnecting \/ ClosedOrError
    \/ adoptExistingSessions
    \/ \E n \in Names : createOrAttach(n) \/ DeleteSession(n)
    \/ killSession
    \/ \E n \in Names : SessionEnds(n) \/ PipeDies(n) \/ AgentStarts(n)
    \/ HooksInstalled

(* The timers fire, a host that is connected runs what it is sent, and an   *)
(* answer or its timeout is handled.                                        *)
SessionsFairness ==
    /\ \A c \in Chains : /\ WF_sessionsVars(Fires(c))
                         /\ WF_sessionsVars(reconcileOnce(c))
                         /\ WF_sessionsVars(listPipeStates(c))
                         /\ WF_sessionsVars(rearmPipe(c))
                         /\ WF_sessionsVars(refreshHookCoverage(c))
    /\ \A p \in Askers : WF_sessionsVars(HostRuns(p))
    /\ \A n \in Names : WF_sessionsVars(HostKills(n)) /\ WF_sessionsVars(HostAttaches(n))
    /\ WF_sessionsVars(adoptExistingSessions)
    /\ WF_sessionsVars(killSession)

SessionsSpec == SessionsInit /\ [][SessionsNext]_sessionsVars /\ SessionsFairness

(***************************************************************************)
(* Properties.                                                              *)
(***************************************************************************)
(* A profile that has an entry in reconcileTimers has a loop: the entry of  *)
(* a loop that is over would keep startReconciliation from starting another,*)
(* and the rows of the profile would never be looked at again.              *)
EntryHasALoop == handle # 0 => tasks[handle].step # "off"

(* A row turns to error only because a list that the host answered did not  *)
(* hold the session (reconcileOnce, SMK-004): a list that timed out or whose*)
(* channel died is never taken for a host without sessions.                 *)
ErrorNeedsAList ==
    [][\A n \in Names :
          rows[n] = "active" /\ rows'[n] = "error" =>
             \E c \in Chains : /\ tasks[c].step = "list" /\ tasks[c].ran
                               /\ tasks[c].seen[n] = "absent"
                               /\ tasks'[c].step # "list"]_sessionsVars

(* The rows end up telling the truth about the host while the loop runs on  *)
(* a connected profile: whatever stale list, early row or late kill wrote,  *)
(* a session that is dead is not left active, nor a live one in error.      *)
RowsTellTheTruth ==
    <>[](handle # 0 /\ up > 0) =>
        <>[](\A n \in Names : rows[n] # "none" => (rows[n] = "active" <=> Alive(n)))

(* Pipes that die are opened again (rearmDeadPipes), and a count never      *)
(* stays on a pipe that is alive: no session is shown as unrecoverable for  *)
(* good when its pipe came back.                                            *)
PipesAreHealed ==
    <>[](handle # 0 /\ up > 0) =>
        <>[](\A n \in Names : rows[n] = "active" =>
                IF host.panes[n].piped THEN rearms[n] = 0 ELSE rearms[n] = MaxRearms)

(* What the panel says of the hooks of a session ends up being what the     *)
(* host says of it, also when its agent was restarted or the hooks came.    *)
HooksTellTheTruth ==
    <>[](handle # 0 /\ up > 0) =>
        <>[](\A n \in Names :
                /\ (n \in hookless) = (parseHookCoverage(host)[n] = "hookless")
                /\ (n \in foreign) = (parseHookCoverage(host)[n] = "unsupported"))

(* A profile whose loop is stopped stops being asked: every chain ends at   *)
(* the tick it is in, or at the one its forgotten timer still starts.       *)
StoppedLoopEnds == <>[](handle = 0) => <>[](\A c \in Chains : tasks[c].step = "off")

================================================================================
