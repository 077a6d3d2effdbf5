----------------------------- MODULE SessionsProofs -----------------------------
(***************************************************************************)
(* Theorems about the sessions of a profile, for any number of sessions,    *)
(* loops, connections and attempts: types with the timer that is kept, and  *)
(* what it takes to turn a row to error.                                    *)
(***************************************************************************)
EXTENDS Sessions, WellFoundedInduction, TLAPS

-------------------------------------------------------------------------------
(* The least of some numbers is one of them.                                *)
LEMMA MinIsLeast ==
    ASSUME NEW S \in SUBSET Nat, S # {}
    PROVE  Min(S) \in S /\ \A n \in S : Min(S) <= n
<1>1. PICK x \in S : \A y \in S : ~(<<y, x>> \in OpToRel(<, Nat))
  BY NatLessThanWellFounded, WFMin
<1>2. \A y \in S : x <= y
  <2>1. ASSUME NEW y \in S, ~(x <= y) PROVE FALSE
    <3>1. y < x /\ y \in Nat /\ x \in Nat
      BY <2>1
    <3>2. <<y, x>> \in OpToRel(<, Nat)
      BY <3>1 DEF OpToRel
    <3> QED
      BY <1>1, <3>2
  <2> QED
    BY <2>1
<1> QED
  BY <1>2 DEF Min

LEMMA Bounds ==
    /\ MaxSessions \in Nat \ {0} /\ MaxChains \in Nat \ {0} /\ MaxConnections \in Nat \ {0}
    /\ MaxRearms \in Nat \ {0}
    /\ MaxHostEvents \in Nat /\ MaxLinkEvents \in Nat /\ MaxOrders \in Nat
    /\ Names \in SUBSET Nat /\ Chains \in SUBSET Nat /\ Chains \subseteq Askers
    /\ Adopter \in Askers /\ Killer \in Askers
    /\ 0 \notin Names /\ 0 \notin Chains
<1>1. /\ MaxSessions \in Nat \ {0} /\ MaxChains \in Nat \ {0} /\ MaxConnections \in Nat \ {0}
      /\ MaxRearms \in Nat \ {0}
      /\ MaxHostEvents \in Nat /\ MaxLinkEvents \in Nat /\ MaxOrders \in Nat
  BY SessionsAssumption
<1> QED
  BY <1>1 DEF Names, Chains, Askers, Adopter, Killer

-------------------------------------------------------------------------------
(* Tasks.                                                                   *)
LEMMA SeenTypes ==
    /\ NothingSeen \in [Names -> Sighting]
    /\ \A h : /\ parseSessionList(h) \in [Names -> Sighting]
              /\ parsePipeStates(h) \in [Names -> Sighting]
              /\ parseHookCoverage(h) \in [Names -> Sighting]
  BY DEF NothingSeen, parseSessionList, parsePipeStates, parseHookCoverage, Sighting

LEMMA TaskTypes ==
    /\ Idle \in Task /\ Idle.step = "off"
    /\ Armed \in Task /\ Armed.step = "armed"
    /\ \A step \in Step, todo \in SUBSET Names, target \in 0..MaxSessions :
          Asking(step, todo, target) \in Task /\ Asking(step, todo, target).step = step
<1>1. NothingSeen \in [Names -> Sighting] /\ 0 \in 0..MaxSessions
  BY SeenTypes, Bounds
<1>2. Idle \in Task /\ Idle.step = "off"
  BY <1>1 DEF Idle, Task, Step
<1>3. Armed \in Task /\ Armed.step = "armed"
  BY <1>1 DEF Armed, Idle, Task, Step
<1>4. ASSUME NEW step \in Step, NEW todo \in SUBSET Names, NEW target \in 0..MaxSessions
      PROVE  Asking(step, todo, target) \in Task /\ Asking(step, todo, target).step = step
  BY <1>1 DEF Asking, Idle, Task, Step
<1> QED
  BY <1>2, <1>3, <1>4

LEMMA TaskRuns ==
    ASSUME NEW t \in Task, NEW seen \in [Names -> Sighting]
    PROVE  /\ [t EXCEPT !.ran = TRUE, !.seen = seen] \in Task
           /\ [t EXCEPT !.ran = TRUE] \in Task
           /\ [t EXCEPT !.ran = TRUE, !.seen = seen].step = t.step
           /\ [t EXCEPT !.ran = TRUE].step = t.step
           /\ t.seen \in [Names -> Sighting] /\ t.todo \in SUBSET Names /\ t.step \in Step
           /\ t.target \in 0..MaxSessions
  BY DEF Task

LEMMA TaskRearms ==
    ASSUME NEW t \in Task, NEW todo \in SUBSET Names, NEW target \in 0..MaxSessions
    PROVE  [t EXCEPT !.step = "rearm", !.ran = FALSE, !.target = target, !.todo = todo] \in Task
  BY DEF Task, Step

(* The host.                                                                *)
LEMMA PaneTypes ==
    ASSUME NEW q \in Pane, NEW b \in BOOLEAN, NEW a \in AgentKind
    PROVE  /\ [q EXCEPT !.piped = b] \in Pane /\ [q EXCEPT !.agent = a] \in Pane
           /\ [q EXCEPT !.alive = TRUE, !.piped = TRUE] \in Pane
           /\ NoPane \in Pane /\ q.alive \in BOOLEAN
  BY DEF Pane, NoPane, AgentKind

LEMMA HostTypes ==
    ASSUME NEW h \in Host, NEW n \in Names, NEW q \in Pane
    PROVE  /\ [h EXCEPT !.panes[n] = q] \in Host /\ [h EXCEPT !.hooks = TRUE] \in Host
           /\ h.panes[n] \in Pane
  BY DEF Host

-------------------------------------------------------------------------------
(* The inductive invariant: the types, and the loop of the entry.           *)
SessionsInv == SessionsTypeOK /\ EntryHasALoop

LEMMA InvStarts == SessionsInit => SessionsInv
<1> SUFFICES ASSUME SessionsInit PROVE SessionsInv
  OBVIOUS
<1>1. rows \in [Names -> RowStatus]
  BY DEF SessionsInit, RowStatus
<1>2. tasks \in [Askers -> Task]
  BY TaskTypes DEF SessionsInit
<1>3. host \in Host
  <2>1. [NoPane EXCEPT !.alive = TRUE] \in Pane
    BY DEF NoPane, Pane, AgentKind
  <2>2. [n \in Names |-> [NoPane EXCEPT !.alive = TRUE]] \in [Names -> Pane]
    BY <2>1
  <2>3. PICK h \in BOOLEAN :
           host = [panes |-> [n \in Names |-> [NoPane EXCEPT !.alive = TRUE]], hooks |-> h]
    BY DEF SessionsInit
  <2> QED
    BY <2>2, <2>3 DEF Host
<1>4. budget \in Budget /\ up \in Connections /\ handle = 0 /\ handle \in 0..MaxChains
  BY Bounds DEF SessionsInit, Budget, Connections
<1>5. rearms \in [Names -> 0..MaxRearms]
  BY Bounds DEF SessionsInit
<1> QED
  BY <1>1, <1>2, <1>3, <1>4, <1>5 DEF SessionsInit, SessionsInv, SessionsTypeOK, EntryHasALoop

(* What is counted stays within its bounds.                                 *)
LEMMA BudgetTypes ==
    ASSUME budget \in Budget
    PROVE  /\ budget.host < MaxHostEvents => [budget EXCEPT !.host = @ + 1] \in Budget
           /\ budget.link < MaxLinkEvents => [budget EXCEPT !.link = @ + 1] \in Budget
           /\ budget.orders < MaxOrders => [budget EXCEPT !.orders = @ + 1] \in Budget
  BY Bounds DEF Budget

LEMMA EventTypes ==
    ASSUME budget \in Budget
    PROVE  /\ \A p \in Askers : Answered(p) \/ Unanswered(p) => budget' \in Budget
           /\ Orders \/ HostEvent => budget' \in Budget
  BY BudgetTypes DEF Answered, Unanswered, Orders, HostEvent

(* A task that goes on, of an asker that does not stop.                     *)
LEMMA TaskGoesOn ==
    ASSUME SessionsInv, NEW p \in Askers, NEW t \in Task, p \in Chains => t.step # "off",
           tasks' = [tasks EXCEPT ![p] = t], handle' = handle
    PROVE  tasks' \in [Askers -> Task] /\ EntryHasALoop'
  BY Bounds DEF SessionsInv, SessionsTypeOK, EntryHasALoop, Chains

(* The loop over the pipes counts an attempt for a session that has one     *)
(* left, and stops there.                                                   *)
LEMMA RearmTypes ==
    ASSUME SessionsInv, NEW c \in Chains, NEW todo \in SUBSET Names, RearmNext(c, todo),
           handle' = handle
    PROVE  rearms' \in [Names -> 0..MaxRearms] /\ tasks' \in [Askers -> Task] /\ EntryHasALoop'
<1> DEFINE dead == Unpiped(c, todo)
           stop == IF dead = {} THEN MaxSessions + 1 ELSE Min(dead)
           next == IF dead = {} THEN Asking("hooks", {}, 0)
                   ELSE [tasks[c] EXCEPT !.step = "rearm", !.ran = FALSE, !.target = stop,
                                         !.todo = {n \in todo : n > stop}]
<1>1. /\ rearms \in [Names -> 0..MaxRearms] /\ tasks \in [Askers -> Task] /\ c \in Askers
      /\ dead \in SUBSET Nat /\ dead \subseteq todo /\ \A n \in dead : rearms[n] < MaxRearms
  BY Bounds DEF SessionsInv, SessionsTypeOK, Unpiped
<1>2. dead # {} => stop \in dead
  BY <1>1, MinIsLeast
<1>3. \A n \in Names : n = stop => rearms[n] < MaxRearms
  <2>1. MaxSessions + 1 \notin Names
    BY Bounds DEF Names
  <2> QED
    BY <1>1, <1>2, <2>1
<1>4. rearms' \in [Names -> 0..MaxRearms]
  <2>1. rearms' = [n \in Names |->
                    CASE n = stop -> rearms[n] + 1
                      [] n \in todo /\ n < stop /\ tasks[c].seen[n] = "piped" -> 0
                      [] OTHER -> rearms[n]]
    BY DEF RearmNext
  <2>2. \A n \in Names : rearms'[n] \in {rearms[n], 0} \/ (n = stop /\ rearms'[n] = rearms[n] + 1)
    <3> HIDE DEF stop
    <3> QED
      BY <2>1
  <2>3. \A n \in Names : rearms'[n] \in 0..MaxRearms
    <3> HIDE DEF stop
    <3> QED
      BY <1>1, <1>3, <2>2, Bounds
  <2>4. rearms' = [n \in Names |-> rearms'[n]]
    BY <2>1
  <2> QED
    BY <2>3, <2>4
<1>5. next \in Task /\ next.step # "off"
  <2>1. CASE dead = {}
    BY <2>1, TaskTypes, Bounds DEF Step
  <2>2. CASE dead # {}
    <3>1. stop \in 0..MaxSessions /\ {n \in todo : n > stop} \in SUBSET Names /\ tasks[c] \in Task
      <4>1. stop \in Names
        BY <1>1, <1>2, <2>2
      <4> HIDE DEF stop
      <4>2. stop \in 0..MaxSessions
        BY <4>1, Bounds DEF Names
      <4> QED
        BY <1>1, <4>2
    <3>2. next = [tasks[c] EXCEPT !.step = "rearm", !.ran = FALSE, !.target = stop,
                                  !.todo = {n \in todo : n > stop}]
      BY <2>2
    <3> HIDE DEF stop, next
    <3>3. next \in Task
      BY <3>1, <3>2, TaskRearms
    <3>4. next.step = "rearm"
      BY <3>1, <3>2 DEF Task
    <3> QED
      BY <3>3, <3>4
  <2> QED
    BY <2>1, <2>2
<1>6. tasks' = [tasks EXCEPT ![c] = next]
  BY DEF RearmNext
<1> QED
  <2> HIDE DEF next
  <2> QED
    BY <1>1, <1>4, <1>5, <1>6, TaskGoesOn

(* The end of a tick.                                                       *)
LEMMA FinallyTypes ==
    ASSUME SessionsInv, NEW c \in Chains, FinallyRearm(c)
    PROVE  tasks' \in [Askers -> Task] /\ handle' \in 0..MaxChains /\ EntryHasALoop'
<1>1. tasks \in [Askers -> Task] /\ handle \in 0..MaxChains /\ c \in Askers /\ c \in 0..MaxChains
  BY Bounds DEF SessionsInv, SessionsTypeOK, Chains
<1>2. CASE handle = 0
  BY <1>1, <1>2, TaskTypes DEF FinallyRearm, EntryHasALoop
<1>3. CASE handle # 0
  BY <1>1, <1>3, TaskTypes DEF FinallyRearm, EntryHasALoop
<1> QED
  BY <1>2, <1>3

LEMMA StopTypes ==
    ASSUME SessionsInv, stopReconciliation
    PROVE  tasks' \in [Askers -> Task] /\ handle' \in 0..MaxChains /\ EntryHasALoop'
<1>1. handle' = 0 /\ 0 \in 0..MaxChains
  BY Bounds DEF stopReconciliation
<1>2. tasks \in [Askers -> Task]
  BY DEF SessionsInv, SessionsTypeOK
<1>3. tasks' \in {tasks, [tasks EXCEPT ![handle] = Idle]}
  BY DEF stopReconciliation
<1>4. tasks' \in [Askers -> Task]
  BY <1>2, <1>3, TaskTypes
<1> QED
  BY <1>1, <1>4 DEF EntryHasALoop

LEMMA StartTypes ==
    ASSUME SessionsInv, startReconciliation([tasks EXCEPT ![Adopter] = Asking("list", {}, 0)])
    PROVE  tasks' \in [Askers -> Task] /\ handle' \in 0..MaxChains /\ EntryHasALoop'
<1> DEFINE adoption == [tasks EXCEPT ![Adopter] = Asking("list", {}, 0)]
           c == Min(FreeChains)
<1>1. Asking("list", {}, 0) \in Task /\ Armed \in Task /\ Armed.step = "armed"
  BY TaskTypes, Bounds DEF Step
<1>2. tasks \in [Askers -> Task] /\ handle \in 0..MaxChains /\ Adopter \notin Chains
  BY Bounds DEF SessionsInv, SessionsTypeOK, Chains, Adopter
<1>3. adoption \in [Askers -> Task] /\ \A p \in Chains : adoption[p] = tasks[p]
  BY <1>1, <1>2, Bounds
<1> HIDE DEF adoption
<1>4. CASE handle = 0
  <2>1. FreeChains # {} /\ FreeChains \in SUBSET Nat /\ FreeChains \subseteq Chains
    BY <1>4, Bounds DEF startReconciliation, FreeChains
  <2>2. c \in Chains
    BY <2>1, MinIsLeast
  <2>3. handle' = c /\ tasks' = [adoption EXCEPT ![c] = Armed]
    BY <1>4 DEF startReconciliation, adoption
  <2> HIDE DEF c
  <2>4. c \in Askers /\ c \in 0..MaxChains
    BY <2>2, Bounds DEF Chains
  <2> QED
    BY <1>1, <1>3, <2>3, <2>4 DEF EntryHasALoop
<1>5. CASE handle # 0
  <2>1. tasks' = adoption /\ handle' = handle
    BY <1>5 DEF startReconciliation, adoption
  <2>2. handle \in Chains
    BY <1>2, <1>5, Bounds DEF Chains
  <2> QED
    BY <1>2, <1>3, <2>1, <2>2 DEF EntryHasALoop, SessionsInv
<1> QED
  BY <1>4, <1>5

(* The host runs what a query asks.                                         *)
LEMMA HostRunsTypes ==
    ASSUME SessionsInv, NEW p \in Askers, HostRuns(p)
    PROVE  /\ tasks' \in [Askers -> Task] /\ EntryHasALoop' /\ host' \in Host /\ budget' \in Budget
<1>1. /\ tasks \in [Askers -> Task] /\ host \in Host /\ budget \in Budget /\ tasks[p] \in Task
      /\ tasks[p].step # "off" /\ handle' = handle
  BY DEF SessionsInv, SessionsTypeOK, HostRuns
<1>2. PICK seen \in [Names -> Sighting] : tasks' = [tasks EXCEPT ![p].ran = TRUE, ![p].seen = seen]
  BY <1>1, SeenTypes, TaskRuns DEF HostRuns
<1>3. tasks' = [tasks EXCEPT ![p] = [tasks[p] EXCEPT !.ran = TRUE, !.seen = seen]]
  BY <1>1, <1>2
<1>4. tasks' \in [Askers -> Task] /\ EntryHasALoop'
  <2> DEFINE t == [tasks[p] EXCEPT !.ran = TRUE, !.seen = seen]
  <2>1. t \in Task /\ t.step = tasks[p].step
    BY <1>1, <1>2 DEF Task
  <2> HIDE DEF t
  <2> QED
    BY <1>1, <1>3, <2>1, TaskGoesOn DEF t
<1>5. budget' \in Budget
  BY <1>1, BudgetTypes DEF HostRuns
<1>6. host' \in Host
  <2> DEFINE n == tasks[p].target
  <2>1. \/ host' = host
        \/ host' = [host EXCEPT !.panes[n].piped = Alive(n)]
        \/ host' = [host EXCEPT !.panes[n].piped = FALSE]
    BY DEF HostRuns
  <2>2. CASE n \in Names
    <3>1. host.panes[n] \in Pane /\ Alive(n) \in BOOLEAN
      <4>1. host.panes[n] \in Pane
        BY <1>1, <2>2 DEF Host
      <4> QED
        BY <4>1 DEF Alive, Pane
    <3>2. /\ [host.panes[n] EXCEPT !.piped = Alive(n)] \in Pane
          /\ [host.panes[n] EXCEPT !.piped = FALSE] \in Pane
      BY <3>1 DEF Pane
    <3>3. \/ host' = host
          \/ host' = [host EXCEPT !.panes[n] = [host.panes[n] EXCEPT !.piped = Alive(n)]]
          \/ host' = [host EXCEPT !.panes[n] = [host.panes[n] EXCEPT !.piped = FALSE]]
      BY <1>1, <2>1
    <3>4. \A q \in Pane : [host EXCEPT !.panes[n] = q] \in Host
      BY <1>1, <2>2, HostTypes
    <3> QED
      BY <1>1, <3>2, <3>3, <3>4
  <2>3. CASE n \notin Names
    <3>1. host' = host
      BY <1>1, <2>1, <2>3 DEF Host
    <3> QED
      BY <1>1, <3>1
  <2> QED
    BY <2>2, <2>3
<1> QED
  BY <1>4, <1>5, <1>6

-------------------------------------------------------------------------------
LEMMA SweptTypes ==
    ASSUME rows \in [Names -> RowStatus], NEW seen
    PROVE  Swept(seen) \in [Names -> RowStatus]
  BY DEF Swept, RowStatus

LEMMA AfterListTypes ==
    ASSUME NEW active \in SUBSET Names
    PROVE  AfterList(active) \in Task /\ AfterList(active).step \in {"hooks", "pipes"}
  BY TaskTypes, Bounds DEF AfterList, Step

(* Nothing but the host and what happened so far changes.                   *)
LEMMA OnlyHost ==
    ASSUME SessionsInv, host' \in Host, budget' \in Budget,
           UNCHANGED <<rows, rearms, hookless, foreign, handle, tasks, up, opened, births, deaths>>
    PROVE  SessionsInv'
  BY DEF SessionsInv, SessionsTypeOK, EntryHasALoop

LEMMA InvStep ==
    ASSUME SessionsInv, [SessionsNext]_sessionsVars
    PROVE  SessionsInv'
<1>1. SessionsTypeOK /\ EntryHasALoop
  BY DEF SessionsInv
<1>2. /\ budget \in Budget /\ host \in Host /\ tasks \in [Askers -> Task]
      /\ rows \in [Names -> RowStatus] /\ up \in Connections /\ handle \in 0..MaxChains
      /\ \A p \in Askers : tasks[p] \in Task
  BY <1>1 DEF SessionsTypeOK
<1>3. ASSUME NEW c \in Chains, Fires(c) PROVE SessionsInv'
  <2>1. Asking("list", {}, 0) \in Task /\ Asking("list", {}, 0).step # "off" /\ c \in Askers
    BY TaskTypes, Bounds DEF Step
  <2>2. tasks' \in [Askers -> Task] /\ EntryHasALoop'
    BY <1>3, <2>1, TaskGoesOn DEF Fires
  <2> QED
    BY <1>1, <1>3, <2>2 DEF Fires, SessionsInv, SessionsTypeOK
<1>4. ASSUME NEW c \in Chains, reconcileOnce(c) PROVE SessionsInv'
  <2>1. rows' \in [Names -> RowStatus]
    BY <1>2, <1>4, SweptTypes DEF reconcileOnce
  <2> DEFINE t == AfterList({n \in Names : rows'[n] = "active"})
  <2>2. t \in Task /\ t.step # "off" /\ c \in Askers
    BY AfterListTypes, Bounds
  <2>3. tasks' = [tasks EXCEPT ![c] = t]
    BY <1>4 DEF reconcileOnce
  <2> HIDE DEF t
  <2>4. tasks' \in [Askers -> Task] /\ EntryHasALoop'
    BY <1>4, <2>2, <2>3, TaskGoesOn DEF reconcileOnce
  <2>5. budget' \in Budget
    BY <1>2, <1>4, <2>2, EventTypes DEF reconcileOnce
  <2> QED
    BY <1>1, <1>4, <2>1, <2>4, <2>5 DEF reconcileOnce, SessionsInv, SessionsTypeOK
<1>5. ASSUME NEW c \in Chains, listPipeStates(c) \/ rearmPipe(c) PROVE SessionsInv'
  <2>1. c \in Askers /\ tasks[c].todo \in SUBSET Names
    BY <1>2, Bounds DEF Task
  <2>2. budget' \in Budget
    BY <1>2, <1>5, <2>1, EventTypes DEF listPipeStates, rearmPipe
  <2>3. rearms' \in [Names -> 0..MaxRearms] /\ tasks' \in [Askers -> Task] /\ EntryHasALoop'
    <3>1. handle' = handle
      BY <1>5 DEF listPipeStates, rearmPipe
    <3>2. CASE RearmNext(c, tasks[c].todo)
      BY <2>1, <3>1, <3>2, RearmTypes
    <3>3. CASE tasks' = [tasks EXCEPT ![c] = Asking("hooks", {}, 0)] /\ rearms' = rearms
      <4>1. Asking("hooks", {}, 0) \in Task /\ Asking("hooks", {}, 0).step # "off"
        BY TaskTypes, Bounds DEF Step
      <4>2. tasks' \in [Askers -> Task] /\ EntryHasALoop'
        BY <2>1, <3>1, <3>3, <4>1, TaskGoesOn
      <4> QED
        BY <1>1, <3>3, <4>2 DEF SessionsTypeOK
    <3> QED
      BY <1>5, <3>2, <3>3 DEF listPipeStates, rearmPipe
  <2> QED
    BY <1>1, <1>5, <2>2, <2>3 DEF listPipeStates, rearmPipe, SessionsInv, SessionsTypeOK
<1>6. ASSUME NEW c \in Chains, refreshHookCoverage(c) PROVE SessionsInv'
  <2>1. tasks' \in [Askers -> Task] /\ handle' \in 0..MaxChains /\ EntryHasALoop'
    BY <1>6, FinallyTypes DEF refreshHookCoverage
  <2>2. budget' \in Budget
    BY <1>2, <1>6, EventTypes, Bounds DEF refreshHookCoverage
  <2>3. hookless' \in SUBSET Names /\ foreign' \in SUBSET Names
    BY <1>1, <1>6 DEF refreshHookCoverage, SessionsTypeOK
  <2> QED
    BY <1>1, <1>6, <2>1, <2>2, <2>3 DEF refreshHookCoverage, SessionsInv, SessionsTypeOK
<1>7. ASSUME NEW p \in Askers, HostRuns(p) PROVE SessionsInv'
  <2>1. /\ tasks' \in [Askers -> Task] /\ EntryHasALoop' /\ host' \in Host /\ budget' \in Budget
    BY <1>7, HostRunsTypes
  <2> QED
    BY <1>1, <1>7, <2>1 DEF HostRuns, SessionsInv, SessionsTypeOK
<1>8. ASSUME NEW n \in Names, HostKills(n) PROVE SessionsInv'
  <2>1. host' \in Host
    <3>1. NoPane \in Pane
      BY DEF NoPane, Pane, AgentKind
    <3>2. host' = [host EXCEPT !.panes[n] = NoPane]
      BY <1>8 DEF HostKills
    <3> QED
      BY <1>2, <1>8, <3>1, <3>2, HostTypes
  <2>2. tasks' \in [Askers -> Task] /\ EntryHasALoop'
    <3>1. CASE tasks' = tasks
      BY <1>1, <1>8, <3>1 DEF HostKills, EntryHasALoop, SessionsTypeOK
    <3>2. CASE tasks' = [tasks EXCEPT ![Killer].ran = TRUE]
      <4>1. tasks[Killer] \in Task /\ Killer \in Askers /\ Killer \notin Chains
        BY <1>2, Bounds DEF Killer, Chains
      <4>2. [tasks[Killer] EXCEPT !.ran = TRUE] \in Task
        BY <4>1 DEF Task
      <4>3. tasks' = [tasks EXCEPT ![Killer] = [tasks[Killer] EXCEPT !.ran = TRUE]]
        BY <1>2, <3>2
      <4> QED
        BY <1>8, <4>1, <4>2, <4>3, TaskGoesOn DEF HostKills
    <3> QED
      BY <1>8, <3>1, <3>2 DEF HostKills
  <2> QED
    BY <1>1, <1>8, <2>1, <2>2 DEF HostKills, SessionsInv, SessionsTypeOK
<1>9. ASSUME NEW n \in Names, HostAttaches(n) PROVE SessionsInv'
  <2>1. host.panes[n] \in Pane
    BY <1>2, <1>9 DEF Host
  <2>2. [host.panes[n] EXCEPT !.alive = TRUE, !.piped = TRUE] \in Pane
    BY <2>1 DEF Pane
  <2>3. host' = [host EXCEPT !.panes[n] = [host.panes[n] EXCEPT !.alive = TRUE, !.piped = TRUE]]
    BY <1>2, <1>9 DEF HostAttaches, Host
  <2>4. host' \in Host
    BY <1>2, <2>2, <2>3, HostTypes
  <2> QED
    BY <1>1, <1>9, <2>4 DEF HostAttaches, SessionsInv, SessionsTypeOK, EntryHasALoop
<1>10. CASE Connected
  <2>1. tasks' \in [Askers -> Task] /\ handle' \in 0..MaxChains /\ EntryHasALoop'
    BY <1>10, StartTypes DEF Connected
  <2>2. up' \in Connections
    BY <1>2, <1>10, Bounds DEF Connected, Connections
  <2> QED
    BY <1>1, <1>10, <2>1, <2>2 DEF Connected, SessionsInv, SessionsTypeOK
<1>11. CASE Reconnecting
  <2>1. up' \in Connections
    BY <1>2, <1>11, Bounds DEF Reconnecting, Connections
  <2>2. budget' \in Budget
    BY <1>2, <1>11, BudgetTypes DEF Reconnecting
  <2> QED
    BY <1>1, <1>11, <2>1, <2>2 DEF Reconnecting, SessionsInv, SessionsTypeOK, EntryHasALoop
<1>12. CASE ClosedOrError
  <2>1. tasks' \in [Askers -> Task] /\ handle' \in 0..MaxChains /\ EntryHasALoop'
    BY <1>12, StopTypes DEF ClosedOrError
  <2>2. budget' \in Budget
    BY <1>2, <1>12, BudgetTypes DEF ClosedOrError
  <2> QED
    BY <1>1, <1>12, <2>1, <2>2 DEF ClosedOrError, SessionsInv, SessionsTypeOK
<1>13. CASE adoptExistingSessions
  <2>1. rows' \in [Names -> RowStatus]
    BY <1>2, <1>13 DEF adoptExistingSessions, RowStatus
  <2>2. tasks' \in [Askers -> Task] /\ EntryHasALoop'
    <3>1. Adopter \in Askers /\ Adopter \notin Chains /\ Idle \in Task
      BY Bounds, TaskTypes DEF Adopter, Chains
    <3> QED
      BY <1>13, <3>1, TaskGoesOn DEF adoptExistingSessions
  <2>3. budget' \in Budget
    BY <1>2, <1>13, EventTypes, Bounds DEF adoptExistingSessions
  <2> QED
    BY <1>1, <1>13, <2>1, <2>2, <2>3 DEF adoptExistingSessions, SessionsInv, SessionsTypeOK
<1>14. ASSUME NEW n \in Names, createOrAttach(n) PROVE SessionsInv'
  <2>1. rows' \in [Names -> RowStatus] /\ births' \in SUBSET Names
    BY <1>1, <1>14 DEF createOrAttach, RowStatus, SessionsTypeOK
  <2>2. budget' \in Budget
    BY <1>2, <1>14, EventTypes DEF createOrAttach
  <2> QED
    BY <1>1, <1>14, <2>1, <2>2 DEF createOrAttach, SessionsInv, SessionsTypeOK, EntryHasALoop
<1>15. ASSUME NEW n \in Names, DeleteSession(n) PROVE SessionsInv'
  <2>1. Asking("kill", {}, n) \in Task
    BY TaskTypes, Bounds DEF Step, Names
  <2>2. Killer \in Askers /\ Killer \notin Chains
    BY Bounds DEF Killer, Chains
  <2>3. tasks' \in [Askers -> Task] /\ EntryHasALoop'
    BY <1>15, <2>1, <2>2, TaskGoesOn DEF DeleteSession
  <2>4. budget' \in Budget
    BY <1>2, <1>15, EventTypes DEF DeleteSession
  <2> QED
    BY <1>1, <1>15, <2>3, <2>4 DEF DeleteSession, SessionsInv, SessionsTypeOK
<1>16. CASE killSession
  <2>1. rows' \in [Names -> RowStatus]
    BY <1>2, <1>16 DEF killSession, RowStatus
  <2>2. Killer \in Askers /\ Killer \notin Chains /\ Idle \in Task
    BY Bounds, TaskTypes DEF Killer, Chains
  <2>3. tasks' \in [Askers -> Task] /\ EntryHasALoop'
    BY <1>16, <2>2, TaskGoesOn DEF killSession
  <2>4. budget' \in Budget /\ deaths' \in SUBSET Names
    BY <1>1, <1>2, <1>16, <2>2, EventTypes DEF killSession, SessionsTypeOK
  <2> QED
    BY <1>1, <1>16, <2>1, <2>3, <2>4 DEF killSession, SessionsInv, SessionsTypeOK
<1>17. ASSUME NEW n \in Names, SessionEnds(n) \/ PipeDies(n) \/ AgentStarts(n) PROVE SessionsInv'
  <2>1. host.panes[n] \in Pane
    BY <1>2, <1>17 DEF Host
  <2>2. PICK q \in Pane : host' = [host EXCEPT !.panes[n] = q]
    <3>1. CASE SessionEnds(n)
      BY <2>1, <3>1, PaneTypes DEF SessionEnds, AgentKind
    <3>2. CASE PipeDies(n)
      <4>1. [host.panes[n] EXCEPT !.piped = FALSE] \in Pane
        BY <2>1 DEF Pane
      <4>2. host' = [host EXCEPT !.panes[n] = [host.panes[n] EXCEPT !.piped = FALSE]]
        BY <1>2, <3>2 DEF PipeDies, Host
      <4> QED
        BY <4>1, <4>2
    <3>3. CASE AgentStarts(n)
      <4>1. PICK a \in AgentKind : host' = [host EXCEPT !.panes[n].agent = a]
        BY <3>3 DEF AgentStarts, AgentKind
      <4>2. [host.panes[n] EXCEPT !.agent = a] \in Pane
        BY <2>1 DEF Pane
      <4>3. host' = [host EXCEPT !.panes[n] = [host.panes[n] EXCEPT !.agent = a]]
        BY <1>2, <4>1 DEF Host
      <4> QED
        BY <4>2, <4>3
    <3> QED
      BY <1>17, <3>1, <3>2, <3>3
  <2>3. host' \in Host
    BY <1>2, <2>2, HostTypes
  <2>4. budget' \in Budget
    BY <1>2, <1>17, EventTypes DEF SessionEnds, PipeDies, AgentStarts
  <2> QED
    BY <1>17, <2>3, <2>4, OnlyHost DEF SessionEnds, PipeDies, AgentStarts
<1>18. CASE HooksInstalled
  <2>1. host' \in Host
    BY <1>2, <1>18 DEF HooksInstalled, Host
  <2>2. budget' \in Budget
    BY <1>2, <1>18, EventTypes DEF HooksInstalled
  <2> QED
    BY <1>18, <2>1, <2>2, OnlyHost DEF HooksInstalled
<1>19. CASE Reconnecting \/ UNCHANGED sessionsVars
  BY <1>1, <1>11, <1>19 DEF sessionsVars, SessionsInv, SessionsTypeOK, EntryHasALoop
<1> QED
  BY <1>3, <1>4, <1>5, <1>6, <1>7, <1>8, <1>9, <1>10, <1>11, <1>12, <1>13, <1>14, <1>15, <1>16,
     <1>17, <1>18, <1>19 DEF SessionsNext

(* The types, and that the entry is of a loop that runs, are an invariant.  *)
THEOREM SessionsKeepInv == SessionsSpec => []SessionsInv
<1> QED
  BY InvStarts, InvStep, PTL DEF SessionsSpec

(* The manager, the rows and the host keep their types: no session is       *)
(* rearmed more often than maxPipeRearmAttempts, by any number of loops.    *)
THEOREM SessionTypes == SessionsSpec => []SessionsTypeOK
<1>1. SessionsInv => SessionsTypeOK
  BY DEF SessionsInv
<1> QED
  BY <1>1, SessionsKeepInv, PTL

(* An entry in reconcileTimers is of a loop that runs, in whatever order    *)
(* the connections start and stop the loops and the ticks end.              *)
THEOREM NoDeadEntry == SessionsSpec => []EntryHasALoop
<1>1. SessionsInv => EntryHasALoop
  BY DEF SessionsInv
<1> QED
  BY <1>1, SessionsKeepInv, PTL

-------------------------------------------------------------------------------
LEMMA ErrorsStep ==
    ASSUME SessionsInv, [SessionsNext]_sessionsVars, NEW n \in Names,
           rows[n] = "active", rows'[n] = "error"
    PROVE  \E c \in Chains : /\ tasks[c].step = "list" /\ tasks[c].ran
                             /\ tasks[c].seen[n] = "absent"
                             /\ tasks'[c].step # "list"
<1>1. tasks \in [Askers -> Task] /\ rows \in [Names -> RowStatus]
  BY DEF SessionsInv, SessionsTypeOK
<1>2. rows' # rows
  OBVIOUS
<1>3. ~adoptExistingSessions /\ ~killSession /\ \A m \in Names : ~createOrAttach(m)
  BY <1>1 DEF adoptExistingSessions, killSession, createOrAttach
<1>4. PICK c \in Chains : reconcileOnce(c)
  BY <1>2, <1>3 DEF SessionsNext, sessionsVars, Fires, listPipeStates, rearmPipe,
     refreshHookCoverage, HostRuns, HostKills, HostAttaches, Connected, Reconnecting,
     ClosedOrError, DeleteSession, SessionEnds, PipeDies, AgentStarts, HooksInstalled
<1>5. tasks[c].step = "list" /\ tasks[c].ran /\ rows' = Swept(tasks[c].seen)
  BY <1>2, <1>4 DEF reconcileOnce, Answered
<1>6. tasks[c].seen[n] = "absent"
  BY <1>5 DEF Swept
<1>7. tasks'[c].step # "list"
  <2> DEFINE t == AfterList({m \in Names : rows'[m] = "active"})
  <2>1. t.step # "list" /\ c \in Askers
    BY AfterListTypes, Bounds
  <2>2. tasks' = [tasks EXCEPT ![c] = t]
    BY <1>4 DEF reconcileOnce
  <2> HIDE DEF t
  <2> QED
    BY <1>1, <2>1, <2>2
<1> QED
  BY <1>5, <1>6, <1>7

(* A row turns to error only by the handling of a list that the host        *)
(* answered without the session: no time-out, refusal, kill, adoption or    *)
(* order does it (reconcileOnce of session-manager.ts).                     *)
THEOREM ErrorsAreSeen == SessionsSpec => ErrorNeedsAList
<1>1. SessionsInv /\ [SessionsNext]_sessionsVars =>
        [\A n \in Names :
            rows[n] = "active" /\ rows'[n] = "error" =>
               \E c \in Chains : /\ tasks[c].step = "list" /\ tasks[c].ran
                                 /\ tasks[c].seen[n] = "absent"
                                 /\ tasks'[c].step # "list"]_sessionsVars
  BY ErrorsStep
<1> QED
  BY <1>1, SessionsKeepInv, PTL DEF SessionsSpec, ErrorNeedsAList
===============================================================================
