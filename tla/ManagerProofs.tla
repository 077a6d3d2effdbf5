----------------------------- MODULE ManagerProofs -----------------------------
(***************************************************************************)
(* Theorems about the SSH transport, for any number of connections,         *)
(* Clients and channels: its types, the growth of a pool, what a session is *)
(* sent first, and, as long as a Client that failed is closed before the    *)
(* next one dials, who holds a shell, a timer and a connection.             *)
(***************************************************************************)
EXTENDS ConnectionManager, FiniteSetTheorems, TLAPS

-------------------------------------------------------------------------------
(* The inductive invariants.                                                *)

(* The rows and the Clients of the pool point at each other.                *)
Served ==
    \A k \in ClientIds : clients[k].phase # "none" =>
        clients[k].conn \in ConnIds /\ Made(clients[k].conn)

Staffed ==
    \A c \in ConnIds : Made(c) =>
        /\ conns[c].client \in ClientIds
        /\ clients[conns[c].client].conn = c
        /\ clients[conns[c].client].phase # "none"

Untouched == \A c \in ConnIds : ~Made(c) => conns[c] = NoConn /\ timers[c] = 0

NetTypes ==
    /\ conns \in [ConnIds -> Conn]
    /\ timers \in [ConnIds -> Nat]
    /\ clients \in [ClientIds -> Client]

NetCore == NetTypes /\ Served /\ Staffed /\ Untouched

(* A channel is that of a connection that was made, and asks once it exists. *)
Housed == \A ch \in ChannelIds : channels[ch].home # 0 => Made(channels[ch].home)

Blank == \A ch \in ChannelIds : channels[ch].kind = "none" => channels[ch] = NoChannel

AskedByName == \A k \in ClientIds, ch \in ChannelIds :
    <<k, ch>> \in requests => channels[ch].kind # "none"

ChannelTypes ==
    /\ channels \in [ChannelIds -> Channel]
    /\ requests \subseteq ClientIds \X ChannelIds

ChannelCore == ChannelTypes /\ Housed /\ Blank /\ AskedByName

RestTypes ==
    /\ shells \in [ClientIds \X ChannelIds -> ShellMode]
    /\ faults \in 0..MaxFaults

(* One connection, until a refusal.                                         *)
Grown == ceiling = 0 => \A c \in Pool : \A d \in Pool : c = d

CeilingCore == ceiling \in 0..MaxChannels /\ Grown

(* The event in course, and what is out or runs twice.                      *)
EventCore ==
    /\ announcing # 0 => announcing \in ConnIds /\ Made(announcing)
    /\ again \subseteq requests
    /\ strays \subseteq ClientIds \X ChannelIds

BaseCore == NetCore /\ ChannelCore /\ RestTypes /\ CeilingCore
CoreInv == BaseCore /\ EventCore

-------------------------------------------------------------------------------
LEMMA Bounds ==
    /\ MaxConns \in Nat /\ MaxClients \in Nat /\ MaxChannels \in Nat
    /\ MaxFaults \in Nat /\ MaxReconnectAttempts \in Nat
    /\ ControlReserve \in Nat /\ MaxRelocations \in Nat
    /\ Kinds \subseteq ChannelKind
<1>1. /\ MaxConns \in Nat /\ MaxClients \in Nat /\ MaxChannels \in Nat
      /\ MaxFaults \in Nat /\ MaxReconnectAttempts \in Nat
  BY ManagerAssumption
<1> QED
  BY <1>1, ManagerAssumption

LEMMA Ids ==
    /\ ConnIds \subseteq Nat /\ 0 \notin ConnIds /\ ConnIds \subseteq 0..MaxConns
    /\ ClientIds \subseteq Nat /\ 0 \notin ClientIds /\ ClientIds \subseteq 0..MaxClients
    /\ 0 \in 0..MaxConns /\ 0 \in 0..MaxClients
    /\ 0..MaxConns = ConnIds \cup {0} /\ 0..MaxClients = ClientIds \cup {0}
    /\ 0 \in 0..MaxReconnectAttempts /\ 0 \in 0..MaxRelocations
  BY Bounds DEF ConnIds, ClientIds

-------------------------------------------------------------------------------
(* What a step does to the net: row q, timers l and Client cl.              *)
Wired(c, k, q, cl, l) ==
    /\ conns' = [conns EXCEPT ![c] = q]
    /\ clients' = [clients EXCEPT ![k] = cl]
    /\ timers' = [timers EXCEPT ![c] = l]

(* A row that is made after the step.                                       *)
Lives(c) == conns'[c].state # "none"

(* A row that was made stays made, with its disposal.                       *)
Lasting == \A d \in ConnIds : Made(d) => Lives(d) /\ conns'[d].disposed = conns[d].disposed

LEMMA RescheduledRow ==
    ASSUME NEW row \in Conn, row.state # "none"
    PROVE  /\ Rescheduled(row) \in Conn
           /\ Rescheduled(row).client = row.client
           /\ Rescheduled(row).disposed = row.disposed
           /\ Rescheduled(row).state # "none"
           /\ Skips(row) => Rescheduled(row) = row
           /\ ~Skips(row) => /\ Rescheduled(row).state \in {"error", "reconnecting"}
                             /\ Rescheduled(row).reconnecting = Schedules(row)
                             /\ Schedules(row) => Rescheduled(row).state = "reconnecting"
<1>1. CASE Skips(row)
  BY <1>1 DEF Rescheduled
<1>2. CASE ~Skips(row) /\ row.attempts >= MaxReconnectAttempts
  BY <1>2, Bounds DEF Rescheduled, Conn, ConnState, Skips, Schedules
<1>3. CASE ~Skips(row) /\ ~(row.attempts >= MaxReconnectAttempts)
  <2>1. row.attempts \in Nat /\ row.attempts + 1 \in 0..MaxReconnectAttempts
        /\ row.attempts < MaxReconnectAttempts
    BY <1>3, Bounds DEF Conn
  <2>2. Rescheduled(row) = [row EXCEPT !.reconnecting = TRUE, !.state = "reconnecting",
                                       !.attempts = row.attempts + 1]
    BY <1>3 DEF Rescheduled
  <2>3. Schedules(row)
    BY <1>3, <2>1 DEF Schedules
  <2> QED
    BY <1>3, <2>1, <2>2, <2>3 DEF Conn, ConnState
<1> QED
  BY <1>1, <1>2, <1>3

(* A dial makes a Client; if it fails the row has been rescheduled or is in *)
(* error.                                                                   *)
Dials(c, k, q, cl, l, row, left) ==
    /\ clients[k].phase = "none"
    /\ Wired(c, k, q, cl, l)
    /\ cl.conn = c /\ cl.phase \in {"dialing", "closed"}
    /\ q.client = k /\ q.state # "none" /\ ~q.disposed
    /\ q.reconnecting => q.state = "reconnecting" /\ cl.phase = "closed"
    /\ l = IF q.reconnecting THEN left + 1 ELSE left
    /\ q.state = "connected" => row.state = "connected"

LEMMA ConnectDials ==
    ASSUME NetTypes, faults \in 0..MaxFaults, NEW c \in ConnIds, NEW row \in Conn, NEW left \in Nat,
           row.state # "none", ~row.disposed, ~row.reconnecting, Connect(c, row, left)
    PROVE  /\ \E k \in ClientIds, q \in Conn, cl \in Client, l \in Nat :
                Dials(c, k, q, cl, l, row, left)
           /\ faults' \in 0..MaxFaults
<1>1. PICK k \in ClientIds :
        /\ clients[k].phase = "none"
        /\ \/ /\ clients' = [clients EXCEPT ![k] = [conn |-> c, phase |-> "dialing"]]
              /\ conns' = [conns EXCEPT ![c] = [row EXCEPT !.client = k]]
              /\ timers' = [timers EXCEPT ![c] = left]
              /\ UNCHANGED faults
           \/ /\ Trouble
              /\ clients' = [clients EXCEPT ![k] = [conn |-> c, phase |-> "closed"]]
              /\ \/ /\ conns' = [conns EXCEPT ![c] = Rescheduled([row EXCEPT !.client = k])]
                    /\ timers' = [timers EXCEPT ![c] = IF Schedules(row) THEN left + 1 ELSE left]
                 \/ /\ conns' = [conns EXCEPT ![c] = [row EXCEPT !.client = k, !.state = "error"]]
                    /\ timers' = [timers EXCEPT ![c] = left]
  BY DEF Connect, IsFirst
<1> DEFINE cd == [conn |-> c, phase |-> "dialing"]
           cc == [conn |-> c, phase |-> "closed"]
           r == [row EXCEPT !.client = k]
           e == [row EXCEPT !.client = k, !.state = "error"]
<1>2. cd \in Client /\ cc \in Client /\ cd.conn = c /\ cc.conn = c
      /\ cd.phase = "dialing" /\ cc.phase = "closed"
  BY Ids DEF Client
<1>3. r \in Conn /\ r.client = k /\ r.state = row.state /\ ~r.disposed /\ ~r.reconnecting
      /\ r.attempts = row.attempts
  BY Ids DEF Conn
<1>4. e \in Conn /\ e.client = k /\ e.state = "error" /\ ~e.disposed /\ ~e.reconnecting
  BY Ids DEF Conn, ConnState
<1>5. Schedules(r) = Schedules(row) /\ ~Skips(r)
  BY <1>3 DEF Schedules, Skips
<1>6. faults' \in 0..MaxFaults
  BY <1>1, Bounds DEF Trouble
<1> HIDE DEF cd, cc, r, e
<1>7. CASE /\ clients' = [clients EXCEPT ![k] = cd]
           /\ conns' = [conns EXCEPT ![c] = r] /\ timers' = [timers EXCEPT ![c] = left]
  <2>1. Dials(c, k, r, cd, left, row, left)
    BY <1>1, <1>2, <1>3, <1>7 DEF Dials, Wired
  <2> QED
    BY <1>2, <1>3, <1>6, <2>1
<1>8. CASE /\ clients' = [clients EXCEPT ![k] = cc]
           /\ conns' = [conns EXCEPT ![c] = Rescheduled(r)]
           /\ timers' = [timers EXCEPT ![c] = IF Schedules(row) THEN left + 1 ELSE left]
  <2> DEFINE l == IF Schedules(row) THEN left + 1 ELSE left
  <2>1. /\ Rescheduled(r) \in Conn /\ Rescheduled(r).client = k /\ ~Rescheduled(r).disposed
        /\ Rescheduled(r).state \in {"error", "reconnecting"}
        /\ Rescheduled(r).reconnecting = Schedules(row)
        /\ Schedules(row) => Rescheduled(r).state = "reconnecting"
    BY <1>3, <1>5, RescheduledRow
  <2>2. l \in Nat
    OBVIOUS
  <2>3. Dials(c, k, Rescheduled(r), cc, l, row, left)
    BY <1>1, <1>2, <1>8, <2>1 DEF Dials, Wired
  <2> HIDE DEF l
  <2> QED
    BY <1>2, <1>6, <2>1, <2>2, <2>3
<1>9. CASE /\ clients' = [clients EXCEPT ![k] = cc]
           /\ conns' = [conns EXCEPT ![c] = e] /\ timers' = [timers EXCEPT ![c] = left]
  <2>1. Dials(c, k, e, cc, left, row, left)
    BY <1>1, <1>2, <1>4, <1>9 DEF Dials, Wired
  <2> QED
    BY <1>2, <1>4, <1>6, <2>1
<1> QED
  BY <1>1, <1>7, <1>8, <1>9 DEF cd, cc, r, e

(* The net after such a step.                                               *)
LEMMA NetGoesOn ==
    ASSUME NetCore, NEW c \in ConnIds, NEW k \in ClientIds,
           NEW q \in Conn, NEW cl \in Client, NEW l \in Nat,
           cl.conn = c, cl.phase # "none", q.state # "none",
           clients[k].phase = "none" \/ clients[k].conn = c,
           q.client = k \/ (Made(c) /\ q.client = conns[c].client),
           Made(c) => q.disposed = conns[c].disposed,
           Wired(c, k, q, cl, l)
    PROVE  NetCore' /\ Lasting
<1>1. /\ conns' \in [ConnIds -> Conn] /\ conns'[c] = q
      /\ \A d \in ConnIds \ {c} : conns'[d] = conns[d]
      /\ timers' \in [ConnIds -> Nat] /\ timers'[c] = l
      /\ \A d \in ConnIds \ {c} : timers'[d] = timers[d]
      /\ clients' \in [ClientIds -> Client] /\ clients'[k] = cl
      /\ \A j \in ClientIds \ {k} : clients'[j] = clients[j]
  BY DEF NetCore, NetTypes, Wired
<1>2. Lasting
  BY <1>1 DEF Lasting, Made, Lives
<1>3. Lives(c)
  BY <1>1 DEF Made, Lives
<1>4. Served'
  BY <1>1, <1>2, <1>3 DEF NetCore, Served, Lasting, Made, Lives
<1>5. Staffed'
  <2> SUFFICES ASSUME NEW d \in ConnIds, Made(d)'
               PROVE  /\ conns'[d].client \in ClientIds
                      /\ clients'[conns'[d].client].conn = d
                      /\ clients'[conns'[d].client].phase # "none"
    BY DEF Staffed
  <2>1. CASE d # c
    BY <1>1, <2>1 DEF NetCore, Staffed, Made, Lives
  <2>2. CASE d = c
    BY <1>1, <2>2 DEF NetCore, Staffed
  <2> QED
    BY <2>1, <2>2
<1>6. Untouched'
  BY <1>1, <1>3 DEF NetCore, Untouched, Made, Lives
<1> QED
  BY <1>1, <1>2, <1>4, <1>5, <1>6 DEF NetCore, NetTypes

(* 'ready'.                                                                 *)
Readies(c, k, q, cl) ==
    /\ Wired(c, k, q, cl, timers[c])
    /\ cl.conn = c /\ cl.phase = "ready"
    /\ q.client = conns[c].client /\ q.disposed = conns[c].disposed
    /\ q.state = "connected" /\ ~q.reconnecting

LEMMA ReadyWires ==
    ASSUME NetCore, NEW k \in ClientIds, Ready(k)
    PROVE  /\ clients[k].conn \in ConnIds /\ Made(clients[k].conn)
           /\ \E q \in Conn, cl \in Client : Readies(clients[k].conn, k, q, cl)
<1> DEFINE c == clients[k].conn
           q == [conns[c] EXCEPT !.attempts = 0, !.reconnecting = FALSE, !.state = "connected"]
           cl == [clients[k] EXCEPT !.phase = "ready"]
<1>1. c \in ConnIds /\ Made(c) /\ conns[c] \in Conn /\ clients[k] \in Client
  BY DEF Ready, NetCore, NetTypes, Served
<1>2. /\ q \in Conn /\ q.client = conns[c].client /\ q.disposed = conns[c].disposed
      /\ q.state = "connected" /\ ~q.reconnecting
  BY <1>1, Ids DEF Conn, ConnState
<1>3. cl \in Client /\ cl.conn = c /\ cl.phase = "ready"
  BY <1>1 DEF Client
<1>4. conns' = [conns EXCEPT ![c] = q] /\ clients' = [clients EXCEPT ![k] = cl]
  BY <1>1 DEF Ready, NetCore, NetTypes
<1>5. timers' = [timers EXCEPT ![c] = timers[c]]
  BY <1>1 DEF Ready, NetCore, NetTypes
<1> HIDE DEF q, cl
<1>6. Readies(c, k, q, cl)
  BY <1>2, <1>3, <1>4, <1>5 DEF Readies, Wired
<1> QED
  BY <1>1, <1>2, <1>3, <1>6

(* A Client that fails or closes reschedules its connection.                *)
Falls(c, k, q, cl, l, phase) ==
    /\ Wired(c, k, q, cl, l)
    /\ cl.conn = c /\ cl.phase = phase
    /\ q = Rescheduled(conns[c])
    /\ l = IF Schedules(conns[c]) THEN timers[c] + 1 ELSE timers[c]

LEMMA FallWires ==
    ASSUME NetCore, NEW k \in ClientIds, clients[k].phase # "none",
           NEW phase \in {"failed", "closed"},
           clients' = [clients EXCEPT ![k].phase = phase],
           ScheduleReconnect(clients[k].conn)
    PROVE  /\ clients[k].conn \in ConnIds /\ Made(clients[k].conn)
           /\ \E q \in Conn, cl \in Client, l \in Nat :
                 Falls(clients[k].conn, k, q, cl, l, phase)
<1> DEFINE c == clients[k].conn
           q == Rescheduled(conns[c])
           l == IF Schedules(conns[c]) THEN timers[c] + 1 ELSE timers[c]
           cl == [clients[k] EXCEPT !.phase = phase]
<1>1. c \in ConnIds /\ Made(c) /\ conns[c] \in Conn /\ clients[k] \in Client /\ timers[c] \in Nat
  BY DEF NetCore, NetTypes, Served
<1>2. q \in Conn /\ l \in Nat
  BY <1>1, RescheduledRow DEF Made, Lives
<1>3. cl \in Client /\ cl.conn = c /\ cl.phase = phase
  BY <1>1 DEF Client
<1>4. clients' = [clients EXCEPT ![k] = cl]
  BY <1>1 DEF NetCore, NetTypes
<1>5. conns' = [conns EXCEPT ![c] = q] /\ timers' = [timers EXCEPT ![c] = l]
  BY <1>1 DEF ScheduleReconnect, NetCore, NetTypes
<1>6. Falls(c, k, q, cl, l, phase)
  BY <1>3, <1>4, <1>5 DEF Falls, Wired
<1> HIDE DEF q, cl, l
<1> QED
  BY <1>1, <1>2, <1>3, <1>6

(* The timer of a connection that is not disposed of dials for it.          *)
Redials(c, k, q, cl, l) ==
    Dials(c, k, q, cl, l, [conns[c] EXCEPT !.reconnecting = FALSE], timers[c] - 1)

LEMMA TimerDials ==
    ASSUME NetCore, faults \in 0..MaxFaults, NEW c \in ConnIds, TimerFires(c), ~conns[c].disposed
    PROVE  /\ Made(c) /\ timers[c] \in Nat \ {0}
           /\ \E k \in ClientIds, q \in Conn, cl \in Client, l \in Nat : Redials(c, k, q, cl, l)
           /\ faults' \in 0..MaxFaults
<1> DEFINE row == [conns[c] EXCEPT !.reconnecting = FALSE]
<1>1. conns[c] \in Conn /\ timers[c] \in Nat \ {0} /\ timers[c] - 1 \in Nat /\ NetTypes
  BY DEF NetCore, NetTypes, TimerFires
<1>2. Made(c)
  BY <1>1 DEF NetCore, Untouched
<1>3. row \in Conn /\ row.state # "none" /\ ~row.disposed /\ ~row.reconnecting
  BY <1>1, <1>2 DEF Conn, Made, Lives
<1>4. Connect(c, row, timers[c] - 1)
  BY DEF TimerFires
<1> HIDE DEF row
<1>5. /\ \E k \in ClientIds, q \in Conn, cl \in Client, l \in Nat :
              Dials(c, k, q, cl, l, row, timers[c] - 1)
      /\ faults' \in 0..MaxFaults
  BY <1>1, <1>3, <1>4, ConnectDials
<1> QED
  BY <1>1, <1>2, <1>5 DEF Redials, row

(* Another connection of the pool.                                          *)
Spawns(c, k, q, cl, l) == Dials(c, k, q, cl, l, [NoConn EXCEPT !.state = "connecting"], 0)

LEMMA SpawnDials ==
    ASSUME NetCore, faults \in 0..MaxFaults, NEW c \in ConnIds, Spawn(c)
    PROVE  /\ ~Made(c)
           /\ \E k \in ClientIds, q \in Conn, cl \in Client, l \in Nat : Spawns(c, k, q, cl, l)
           /\ faults' \in 0..MaxFaults
<1> DEFINE row == [NoConn EXCEPT !.state = "connecting"]
           left == 0
<1>1. row \in Conn /\ row.state # "none" /\ ~row.disposed /\ ~row.reconnecting
  BY Bounds, Ids DEF Conn, ConnState, NoConn
<1>2. Connect(c, row, left) /\ ~Made(c) /\ NetTypes /\ left \in Nat
  BY DEF Spawn, IsFirst, NetCore
<1> HIDE DEF row, left
<1>3. /\ \E k \in ClientIds, q \in Conn, cl \in Client, l \in Nat : Dials(c, k, q, cl, l, row, left)
      /\ faults' \in 0..MaxFaults
  BY <1>1, <1>2, ConnectDials
<1> QED
  BY <1>2, <1>3 DEF Spawns, row, left

-------------------------------------------------------------------------------
(* The net and the pool after each step.  Kept: no connection enters.       *)
Kept == Pool' \subseteq Pool

LEMMA RowKeepsPool ==
    ASSUME NetCore, NEW c \in ConnIds, NEW q, Made(c), q.disposed = conns[c].disposed,
           conns' = [conns EXCEPT ![c] = q]
    PROVE  Kept
<1>1. \A d \in ConnIds : d # c => conns'[d] = conns[d]
  BY DEF NetCore, NetTypes
<1>2. conns'[c] = q
  BY DEF NetCore, NetTypes
<1> QED
  BY <1>1, <1>2 DEF Kept, Pool, Made, Lives

LEMMA ReadyNet ==
    ASSUME NetCore, NEW k \in ClientIds, Ready(k)
    PROVE  NetCore' /\ Lasting /\ Kept
<1> DEFINE c == clients[k].conn
<1>1. c \in ConnIds /\ Made(c) /\ timers[c] \in Nat
  BY ReadyWires DEF NetCore, NetTypes
<1>2. PICK q \in Conn, cl \in Client : Readies(c, k, q, cl)
  BY ReadyWires
<1> HIDE DEF c
<1>3. NetCore' /\ Lasting
  BY <1>1, <1>2, NetGoesOn DEF Readies, c
<1> QED
  BY <1>1, <1>2, <1>3, RowKeepsPool DEF Readies, Wired

LEMMA FallNet ==
    ASSUME NetCore, NEW k \in ClientIds, clients[k].phase # "none",
           NEW phase \in {"failed", "closed"},
           clients' = [clients EXCEPT ![k].phase = phase],
           ScheduleReconnect(clients[k].conn)
    PROVE  NetCore' /\ Lasting /\ Kept
<1> DEFINE c == clients[k].conn
<1>1. c \in ConnIds /\ Made(c) /\ conns[c] \in Conn
  BY FallWires DEF NetCore, NetTypes
<1>2. PICK q \in Conn, cl \in Client, l \in Nat : Falls(c, k, q, cl, l, phase)
  BY FallWires
<1>3. q.client = conns[c].client /\ q.disposed = conns[c].disposed /\ q.state # "none"
  BY <1>1, <1>2, RescheduledRow DEF Falls, Made, Lives
<1> HIDE DEF c
<1>4. NetCore' /\ Lasting
  BY <1>1, <1>2, <1>3, NetGoesOn DEF Falls, c
<1> QED
  BY <1>1, <1>2, <1>3, <1>4, RowKeepsPool DEF Falls, Wired

LEMMA TimerNet ==
    ASSUME NetCore, faults \in 0..MaxFaults, NEW c \in ConnIds, TimerFires(c)
    PROVE  NetCore' /\ Lasting /\ Kept /\ faults' \in 0..MaxFaults
<1>1. CASE conns[c].disposed
  <2>1. /\ timers' = [timers EXCEPT ![c] = @ - 1] /\ timers[c] > 0
        /\ UNCHANGED <<conns, clients, faults>>
    BY <1>1 DEF TimerFires
  <2>2. Made(c)
    BY <1>1 DEF NetCore, Untouched, NoConn
  <2>3. timers' \in [ConnIds -> Nat] /\ \A d \in ConnIds \ {c} : timers'[d] = timers[d]
    BY <2>1 DEF NetCore, NetTypes
  <2>4. NetCore'
    BY <2>1, <2>2, <2>3 DEF NetCore, NetTypes, Served, Staffed, Untouched, Made, Lives
  <2> QED
    BY <2>1, <2>4 DEF Lasting, Kept, Made, Lives, Pool
<1>2. CASE ~conns[c].disposed
  <2>1. Made(c) /\ faults' \in 0..MaxFaults
    BY <1>2, TimerDials
  <2>2. PICK k \in ClientIds, q \in Conn, cl \in Client, l \in Nat : Redials(c, k, q, cl, l)
    BY <1>2, TimerDials
  <2>3. conns[c] \in Conn
    BY DEF NetCore, NetTypes
  <2>4. NetCore' /\ Lasting
    BY <1>2, <2>1, <2>2, <2>3, NetGoesOn DEF Redials, Dials, Conn
  <2> QED
    BY <1>2, <2>1, <2>2, <2>3, <2>4, RowKeepsPool DEF Redials, Dials, Wired, Conn
<1> QED
  BY <1>1, <1>2

LEMMA SpawnNet ==
    ASSUME NetCore, faults \in 0..MaxFaults, NEW c \in ConnIds, Spawn(c)
    PROVE  /\ NetCore' /\ Lasting /\ faults' \in 0..MaxFaults
           /\ ~Made(c) /\ Lives(c) /\ Pool' \subseteq Pool \cup {c}
<1>1. ~Made(c) /\ faults' \in 0..MaxFaults
  BY SpawnDials
<1>2. PICK k \in ClientIds, q \in Conn, cl \in Client, l \in Nat : Spawns(c, k, q, cl, l)
  BY SpawnDials
<1>3. NetCore' /\ Lasting
  BY <1>1, <1>2, NetGoesOn DEF Spawns, Dials
<1>4. Lives(c)
  BY <1>2 DEF Spawns, Dials, Wired, NetCore, NetTypes, Made, Lives
<1>5. \A d \in ConnIds \ {c} : conns'[d] = conns[d]
  BY <1>2 DEF Spawns, Dials, Wired, NetCore, NetTypes
<1> QED
  BY <1>1, <1>3, <1>4, <1>5 DEF Pool, Made, Lives

(* Disconnect: what becomes of each row and Client.                         *)
LEMMA DisconnectRows ==
    ASSUME NetCore, Disconnect
    PROVE  /\ \A c \in ConnIds :
                 /\ conns'[c] \in Conn
                 /\ conns'[c].client = conns[c].client
                 /\ c \in Pool => conns'[c].disposed /\ conns'[c].state = "closed"
                 /\ c \notin Pool => conns'[c] = conns[c]
           /\ \A k \in ClientIds :
                 /\ clients'[k] \in Client
                 /\ clients'[k].conn = clients[k].conn
                 /\ clients'[k].phase = clients[k].phase
                      \/ /\ clients'[k].phase = "ending" /\ clients[k].phase \notin {"closed", "none"}
                         /\ \E c \in Pool : k = conns[c].client
           /\ \A c \in Pool : clients'[conns[c].client].phase \in {"ending", "closed"}
           /\ conns' \in [ConnIds -> Conn] /\ clients' \in [ClientIds -> Client]
<1> DEFINE shut(c) == [conns[c] EXCEPT !.disposed = TRUE, !.state = "closed"]
           ending(k) == [clients[k] EXCEPT !.phase = "ending"]
           ended == {conns[c].client : c \in Pool}
<1>1. \A c \in ConnIds : conns[c] \in Conn /\ shut(c) \in Conn /\ shut(c).client = conns[c].client
         /\ shut(c).state = "closed" /\ shut(c).disposed
  BY DEF NetCore, NetTypes, Conn, ConnState
<1>2. \A k \in ClientIds : clients[k] \in Client /\ ending(k) \in Client
         /\ ending(k).conn = clients[k].conn /\ ending(k).phase = "ending"
  BY DEF NetCore, NetTypes, Client
<1>3. conns' = [c \in ConnIds |-> IF c \in Pool THEN shut(c) ELSE conns[c]]
  BY DEF Disconnect
<1>4. clients' = [k \in ClientIds |->
          IF k \in ended /\ clients[k].phase # "closed" THEN ending(k) ELSE clients[k]]
  BY DEF Disconnect
<1>5. \A c \in Pool : c \in ConnIds /\ conns[c].client \in ClientIds
                        /\ clients[conns[c].client].phase # "none"
  BY DEF Pool, NetCore, Staffed
<1> HIDE DEF shut, ending
<1>6. conns' \in [ConnIds -> Conn]
  BY <1>1, <1>3
<1>7. clients' \in [ClientIds -> Client]
  BY <1>2, <1>4
<1>8. ASSUME NEW c \in ConnIds
      PROVE  /\ conns'[c] \in Conn
             /\ conns'[c].client = conns[c].client
             /\ c \in Pool => conns'[c].disposed /\ conns'[c].state = "closed"
             /\ c \notin Pool => conns'[c] = conns[c]
  BY <1>1, <1>3
<1>9. ASSUME NEW k \in ClientIds
      PROVE  /\ clients'[k] \in Client
             /\ clients'[k].conn = clients[k].conn
             /\ clients'[k].phase = clients[k].phase
                  \/ /\ clients'[k].phase = "ending" /\ clients[k].phase \notin {"closed", "none"}
                     /\ \E c \in Pool : k = conns[c].client
  BY <1>2, <1>4, <1>5
<1>10. ASSUME NEW c \in Pool PROVE clients'[conns[c].client].phase \in {"ending", "closed"}
  <2>1. conns[c].client \in ended /\ conns[c].client \in ClientIds
    BY <1>5
  <2> HIDE DEF ended
  <2> QED
    BY <1>2, <1>4, <2>1
<1> QED
  BY <1>6, <1>7, <1>8, <1>9, <1>10

LEMMA DisconnectNet ==
    ASSUME NetCore, Disconnect
    PROVE  NetCore' /\ Pool' = {} /\ \A c \in ConnIds : Made(c) => Lives(c)
<1>1. \A c \in ConnIds : Lives(c) <=> Made(c)
  BY DisconnectRows DEF Made, Lives, Pool
<1>2. Pool' = {}
  BY <1>1, DisconnectRows DEF Pool, Made, Lives
<1>3. Served'
  BY <1>1, DisconnectRows DEF Served, NetCore, Made, Lives
<1>4. Staffed'
  BY <1>1, DisconnectRows DEF Staffed, NetCore, Made, Lives
<1>5. timers' = timers
  BY DEF Disconnect
<1>6. Untouched'
  BY <1>1, <1>5, DisconnectRows DEF Untouched, NetCore, Pool, Made, Lives
<1>7. NetTypes'
  BY <1>5, DisconnectRows DEF NetTypes, NetCore
<1> QED
  BY <1>1, <1>2, <1>3, <1>4, <1>6, <1>7 DEF NetCore

-------------------------------------------------------------------------------
(* The channels after each step.                                            *)
Persisting == \A c \in ConnIds : Made(c) => Lives(c)

LEMMA ChannelMoves ==
    ASSUME ChannelCore, Persisting, NEW ch \in ChannelIds, NEW r \in Channel,
           r.kind # "none", r.home # 0 => Lives(r.home),
           channels' = [channels EXCEPT ![ch] = r],
           requests' \subseteq requests \cup (ClientIds \X {ch})
    PROVE  ChannelCore'
<1>1. /\ channels' \in [ChannelIds -> Channel] /\ channels'[ch] = r
      /\ \A x \in ChannelIds \ {ch} : channels'[x] = channels[x]
  BY DEF ChannelCore, ChannelTypes
<1>2. \A x \in ChannelIds : channels[x].home # 0 => channels[x].home \in ConnIds
  BY Ids DEF ChannelCore, ChannelTypes, Channel
<1>3. Housed'
  BY <1>1, <1>2 DEF ChannelCore, Housed, Persisting, Made, Lives
<1>4. Blank'
  BY <1>1 DEF ChannelCore, Blank
<1>5. AskedByName'
  BY <1>1 DEF ChannelCore, AskedByName
<1>6. requests' \subseteq ClientIds \X ChannelIds
  BY DEF ChannelCore, ChannelTypes
<1> QED
  BY <1>1, <1>3, <1>4, <1>5, <1>6 DEF ChannelCore, ChannelTypes

(* Steps that forget channels, or what they wait for, and name no new one.  *)
LEMMA ChannelsFade ==
    ASSUME ChannelCore, Persisting, channels' \in [ChannelIds -> Channel],
           \A ch \in ChannelIds :
              /\ channels'[ch].kind = channels[ch].kind
              /\ channels'[ch].home \in {0, channels[ch].home}
              /\ channels[ch].kind = "none" => channels'[ch] = channels[ch],
           requests' \subseteq requests
    PROVE  ChannelCore'
<1>1. \A x \in ChannelIds : channels[x].home # 0 => channels[x].home \in ConnIds
  BY Ids DEF ChannelCore, ChannelTypes, Channel
<1>2. Housed'
  BY <1>1 DEF ChannelCore, Housed, Persisting, Made, Lives
<1>3. Blank' /\ AskedByName'
  BY DEF ChannelCore, Blank, AskedByName
<1>4. requests' \subseteq ClientIds \X ChannelIds
  BY DEF ChannelCore, ChannelTypes
<1> QED
  BY <1>2, <1>3, <1>4 DEF ChannelCore, ChannelTypes

LEMMA HomeLasts ==
    ASSUME ChannelCore, Persisting, NEW ch \in ChannelIds, channels[ch].home # 0
    PROVE  Lives(channels[ch].home)
<1>1. channels[ch] \in Channel
  BY DEF ChannelCore, ChannelTypes
<1>2. channels[ch].home \in ConnIds
  BY <1>1, Ids DEF Channel
<1>3. Made(channels[ch].home)
  BY DEF ChannelCore, Housed
<1> QED
  BY <1>2, <1>3 DEF Persisting, Made, Lives

LEMMA UnopenedTypes ==
    ASSUME NEW r \in Channel, NEW c
    PROVE  /\ Unopened(r, c) \in Channel
           /\ Unopened(r, c).kind = r.kind
           /\ Unopened(r, c).home = IF r.kind = "query" /\ r.home = c THEN 0 ELSE r.home
           /\ Unopened(r, c).stream = r.stream
           /\ Unopened(r, c).everOpened = r.everOpened
           /\ Unopened(r, c).pending = r.pending
           /\ Unopened(r, c).relocations = r.relocations
           /\ Unopened(r, c).closed = r.closed
           /\ Unopened(r, c).announced = r.announced
  BY Ids DEF Unopened, Channel

LEMMA OpenedTypes ==
    ASSUME NEW r \in Channel, NEW k \in ClientIds
    PROVE  /\ Opened(r, k) \in Channel
           /\ Opened(r, k).kind = r.kind /\ Opened(r, k).home = r.home
           /\ Opened(r, k).stream = k /\ Opened(r, k).everOpened
           /\ Opened(r, k).pending = <<>> /\ Opened(r, k).closed = r.closed
           /\ Opened(r, k).relocations = r.relocations
           /\ Opened(r, k).announced = r.announced
<1>1. <<>> \in Seq({"init", "input"}) /\ k \in 0..MaxClients
  BY Ids
<1> QED
  BY <1>1 DEF Opened, Channel

LEMMA ClosedTypes ==
    ASSUME NEW r \in Channel
    PROVE  /\ Closed(r) \in Channel
           /\ Closed(r).kind = r.kind /\ Closed(r).home = 0 /\ Closed(r).stream = 0
           /\ Closed(r).everOpened = r.everOpened
           /\ Closed(r).pending = <<>> /\ Closed(r).closed
           /\ Closed(r).relocations = r.relocations
           /\ Closed(r).announced = r.announced
<1>1. <<>> \in Seq({"init", "input"})
  OBVIOUS
<1> QED
  BY <1>1, Ids DEF Closed, Channel

LEMMA RoomIsPool ==
    ASSUME NEW chs, NEW kind, NEW ceil
    PROVE  WithRoom(chs, kind, ceil) \subseteq Pool /\ Pool \subseteq ConnIds
           /\ \A c \in Pool : Made(c)
  BY DEF WithRoom, Pool

LEMMA AskedTypes ==
    ASSUME NetCore, NEW c \in ConnIds, NEW ch \in ChannelIds
    PROVE  Asked(c, ch) \subseteq ClientIds \X {ch}
  BY DEF Asked, NetCore, Staffed, Made, Lives

LEMMA ReopensChannels ==
    ASSUME NetCore, ChannelCore, NEW c \in ConnIds, Reopens(c), Made(c), Persisting
    PROVE  ChannelCore'
<1>1. conns[c].client \in ClientIds
  BY DEF NetCore, Staffed
<1>2. channels' = channels /\ requests' = requests \cup ({conns[c].client} \X Registered(channels, c))
  BY DEF Reopens
<1>3. \A ch \in Registered(channels, c) : ch \in ChannelIds /\ channels[ch].kind # "none"
  BY <1>1, Ids DEF Registered, ChannelCore, Blank, NoChannel
<1>4. AskedByName' /\ requests' \subseteq ClientIds \X ChannelIds
  BY <1>1, <1>2, <1>3 DEF ChannelCore, ChannelTypes, AskedByName
<1>5. \A x \in ChannelIds : channels[x].home # 0 => channels[x].home \in ConnIds
  BY Ids DEF ChannelCore, ChannelTypes, Channel
<1>6. Housed' /\ Blank'
  BY <1>2, <1>5 DEF ChannelCore, Housed, Blank, Persisting, Made, Lives
<1> QED
  BY <1>2, <1>4, <1>6 DEF ChannelCore, ChannelTypes

(* What 'close' leaves of a channel.                                        *)
Abandoned(k, ch) ==
    IF <<k, ch>> \in requests THEN Unopened(channels[ch], clients[k].conn) ELSE channels[ch]

LEMMA CloseLeaves ==
    ASSUME NetTypes, ChannelTypes, NEW k \in ClientIds, ClientCloses(k)
    PROVE  /\ channels' \in [ChannelIds -> Channel]
           /\ \A ch \in ChannelIds :
                 /\ Abandoned(k, ch) \in Channel
                 /\ channels'[ch].kind = channels[ch].kind
                 /\ channels'[ch].home = Abandoned(k, ch).home
                 /\ channels'[ch].stream = IF Abandoned(k, ch).home = clients[k].conn THEN 0
                                                                      ELSE channels[ch].stream
                 /\ channels'[ch].everOpened = channels[ch].everOpened
                 /\ channels'[ch].pending = channels[ch].pending
                 /\ channels'[ch].relocations = channels[ch].relocations
                 /\ channels'[ch].closed = channels[ch].closed
                 /\ channels'[ch].announced = channels[ch].announced
                 /\ Abandoned(k, ch).home = channels[ch].home
                      \/ /\ Abandoned(k, ch).home = 0 /\ channels[ch].kind = "query"
                         /\ channels[ch].home = clients[k].conn /\ <<k, ch>> \in requests
<1> DEFINE c == clients[k].conn
           cut(ch) == [Abandoned(k, ch) EXCEPT !.stream = 0]
<1>1. channels' = [ch \in ChannelIds |->
          IF Abandoned(k, ch).home = c THEN cut(ch) ELSE Abandoned(k, ch)]
  BY DEF ClientCloses, Abandoned
<1>2. ASSUME NEW ch \in ChannelIds
      PROVE  /\ Abandoned(k, ch) \in Channel
             /\ Abandoned(k, ch).kind = channels[ch].kind
             /\ Abandoned(k, ch).stream = channels[ch].stream
             /\ Abandoned(k, ch).everOpened = channels[ch].everOpened
             /\ Abandoned(k, ch).pending = channels[ch].pending
             /\ Abandoned(k, ch).relocations = channels[ch].relocations
             /\ Abandoned(k, ch).closed = channels[ch].closed
             /\ Abandoned(k, ch).announced = channels[ch].announced
             /\ Abandoned(k, ch).home = channels[ch].home
                  \/ /\ Abandoned(k, ch).home = 0 /\ channels[ch].kind = "query"
                     /\ channels[ch].home = clients[k].conn /\ <<k, ch>> \in requests
  BY UnopenedTypes DEF Abandoned, ChannelTypes
<1>3. ASSUME NEW ch \in ChannelIds
      PROVE  /\ cut(ch) \in Channel /\ cut(ch).stream = 0
             /\ cut(ch).home = Abandoned(k, ch).home /\ cut(ch).kind = Abandoned(k, ch).kind
             /\ cut(ch).everOpened = Abandoned(k, ch).everOpened
             /\ cut(ch).pending = Abandoned(k, ch).pending
             /\ cut(ch).relocations = Abandoned(k, ch).relocations
             /\ cut(ch).closed = Abandoned(k, ch).closed
             /\ cut(ch).announced = Abandoned(k, ch).announced
  <2> DEFINE a == Abandoned(k, ch)
  <2>1. a \in Channel
    BY <1>2
  <2> HIDE DEF a
  <2>2. [a EXCEPT !.stream = 0] \in Channel
    BY <2>1, Ids DEF Channel
  <2> QED
    BY <2>1, <2>2 DEF a, Channel
<1> HIDE DEF c, cut
<1>4. channels' \in [ChannelIds -> Channel]
  BY <1>1, <1>2, <1>3
<1>5. ASSUME NEW ch \in ChannelIds
      PROVE  channels'[ch] = IF Abandoned(k, ch).home = c THEN cut(ch) ELSE Abandoned(k, ch)
  BY <1>1
<1> QED
  BY <1>2, <1>3, <1>4, <1>5 DEF c

LEMMA CloseChannels ==
    ASSUME NetCore, ChannelCore, NEW k \in ClientIds, clients[k].phase # "none",
           ClientCloses(k), Persisting
    PROVE  ChannelCore'
<1>1. NetTypes /\ ChannelTypes /\ clients[k].conn # 0
  BY Ids DEF NetCore, ChannelCore, Served
<1>2. requests' \subseteq requests
  BY DEF ClientCloses
<1>3. ASSUME NEW ch \in ChannelIds, channels[ch].kind = "none" PROVE channels'[ch] = channels[ch]
  <2>1. channels[ch] = NoChannel /\ <<k, ch>> \notin requests
    BY <1>3 DEF ChannelCore, Blank, AskedByName
  <2>2. channels'[ch] = Abandoned(k, ch)
    BY <1>1, <2>1 DEF ClientCloses, Abandoned, NoChannel
  <2> QED
    BY <2>1, <2>2 DEF Abandoned
<1> QED
  BY <1>1, <1>2, <1>3, CloseLeaves, ChannelsFade

(* openChannel registers a record, on a connection that has room or on one  *)
(* made for it.                                                             *)
Record(kind, c) ==
    [NoChannel EXCEPT !.kind = kind, !.home = c,
                      !.pending = IF kind = "shell" THEN <<>> ELSE <<"init">>,
                      !.announced = announcing # 0]

LEMMA RecordTypes ==
    ASSUME NEW kind \in Kinds, NEW c \in ConnIds
    PROVE  /\ Record(kind, c) \in Channel
           /\ Record(kind, c).kind = kind /\ kind # "none"
           /\ Record(kind, c).home = c /\ Record(kind, c).stream = 0
           /\ ~Record(kind, c).everOpened /\ ~Record(kind, c).closed
           /\ Record(kind, c).pending = IF kind = "shell" THEN <<>> ELSE <<"init">>
           /\ Record(kind, c).relocations = 0
           /\ Record(kind, c).announced = (announcing # 0)
<1>1. kind \in ChannelKind
  BY Bounds
<1>2. <<>> \in Seq({"init", "input"}) /\ <<"init">> \in Seq({"init", "input"})
  OBVIOUS
<1> QED
  BY <1>1, <1>2, Ids DEF Record, NoChannel, Channel, ChannelKind

LEMMA OpenChannelOpens ==
    ASSUME NEW kind \in Kinds, OpenChannel(kind)
    PROVE  \E ch \in ChannelIds, c \in ConnIds :
              /\ channels[ch].kind = "none"
              /\ channels' = [channels EXCEPT ![ch] = Record(kind, c)]
              /\ UNCHANGED <<announcing, again, shells, strays, ceiling>>
              /\ \/ /\ c \in WithRoom(channels, kind, ceiling)
                    /\ requests' = requests \cup Asked(c, ch)
                    /\ UNCHANGED <<conns, timers, clients, faults>>
                 \/ /\ WithRoom(channels, kind, ceiling) = {}
                    /\ Spawn(c)
                    /\ UNCHANGED requests
<1> DEFINE pend == IF kind = "shell" THEN <<>> ELSE <<"init">>
           record == [NoChannel EXCEPT !.kind = kind, !.pending = pend,
                                       !.announced = announcing # 0]
<1>1. \A c : [record EXCEPT !.home = c] = Record(kind, c)
  BY DEF Record, NoChannel
<1>2. PICK ch \in ChannelIds :
        /\ channels[ch].kind = "none"
        /\ UNCHANGED <<announcing, again, shells, strays, ceiling>>
        /\ \/ \E c \in ConnIds :
                /\ c \in WithRoom(channels, kind, ceiling)
                /\ channels' = [channels EXCEPT ![ch] = [record EXCEPT !.home = c]]
                /\ requests' = requests \cup Asked(c, ch)
                /\ UNCHANGED <<conns, timers, clients, faults>>
           \/ /\ WithRoom(channels, kind, ceiling) = {}
              /\ \E c \in ConnIds :
                   /\ Spawn(c)
                   /\ channels' = [channels EXCEPT ![ch] = [record EXCEPT !.home = c]]
              /\ UNCHANGED requests
  BY DEF OpenChannel, IsFirst
<1> HIDE DEF record
<1> QED
  BY <1>1, <1>2

(* A refusal that is taken over: the record leaves its connection c for t,  *)
(* which has room or is made for it; if t is c it stays unopened.           *)
Rehomed(ch, t) ==
    [channels[ch] EXCEPT !.home = t, !.relocations = channels[ch].relocations + 1]

MovedAway(ch) == [channels EXCEPT ![ch].home = 0, ![ch].relocations = @ + 1]

RoomFor(ch, c) == WithRoom(MovedAway(ch), channels[ch].kind, Learned(c))

Relocates(k, ch, t) ==
    LET c == clients[k].conn IN
    \/ /\ t = c /\ t \in RoomFor(ch, c)
       /\ channels' = [channels EXCEPT ![ch] = Unopened(Rehomed(ch, c), c)]
       /\ requests' = Left(k, ch)
       /\ UNCHANGED <<conns, timers, clients, faults>>
    \/ /\ t # c /\ t \in RoomFor(ch, c)
       /\ channels' = [channels EXCEPT ![ch] = Rehomed(ch, t)]
       /\ requests' = Left(k, ch) \cup Asked(t, ch)
       /\ UNCHANGED <<conns, timers, clients, faults>>
    \/ /\ RoomFor(ch, c) = {} /\ Spawn(t)
       /\ channels' = [channels EXCEPT ![ch] = Rehomed(ch, t)]
       /\ requests' = Left(k, ch)

LEMMA RefusalRelocates ==
    ASSUME ChannelTypes, NEW k \in ClientIds, NEW ch \in ChannelIds,
           ShellRefused(k, ch), Relocatable(clients[k].conn, channels[ch])
    PROVE  \E t \in ConnIds : Relocates(k, ch, t)
<1> DEFINE c == clients[k].conn
           gone == [channels[ch] EXCEPT !.home = 0, !.relocations = channels[ch].relocations + 1]
<1>1. channels \in [ChannelIds -> Channel] /\ channels[ch] \in Channel
  BY DEF ChannelTypes
<1>2. \A t : [gone EXCEPT !.home = t] = Rehomed(ch, t)
  BY <1>1 DEF Rehomed, Channel
<1>3. MovedAway(ch) = [channels EXCEPT ![ch] = gone] /\ MovedAway(ch)[ch] = gone
  BY <1>1 DEF MovedAway
<1> HIDE DEF gone
<1>4. \A r : [MovedAway(ch) EXCEPT ![ch] = r] = [channels EXCEPT ![ch] = r]
  BY <1>1, <1>3
<1>5. \/ \E t \in ConnIds :
            /\ t \in RoomFor(ch, c)
            /\ channels' = [MovedAway(ch) EXCEPT ![ch] =
                              IF t = c THEN Unopened([MovedAway(ch)[ch] EXCEPT !.home = c], c)
                                       ELSE [MovedAway(ch)[ch] EXCEPT !.home = t]]
            /\ requests' = IF t = c THEN Left(k, ch)
                                    ELSE Left(k, ch) \cup Asked(t, ch)
            /\ UNCHANGED <<conns, timers, clients, faults>>
      \/ /\ RoomFor(ch, c) = {}
         /\ \E t \in ConnIds :
              /\ Spawn(t)
              /\ channels' = [MovedAway(ch) EXCEPT ![ch].home = t]
         /\ requests' = Left(k, ch)
  BY DEF ShellRefused, Answered, IsFirst, MovedAway, RoomFor
<1>6. CASE \E t \in ConnIds :
            /\ t \in RoomFor(ch, c)
            /\ channels' = [MovedAway(ch) EXCEPT ![ch] =
                              IF t = c THEN Unopened([MovedAway(ch)[ch] EXCEPT !.home = c], c)
                                       ELSE [MovedAway(ch)[ch] EXCEPT !.home = t]]
            /\ requests' = IF t = c THEN Left(k, ch)
                                    ELSE Left(k, ch) \cup Asked(t, ch)
            /\ UNCHANGED <<conns, timers, clients, faults>>
  BY <1>2, <1>3, <1>4, <1>6 DEF Relocates
<1>7. CASE /\ RoomFor(ch, c) = {}
           /\ \E t \in ConnIds :
                /\ Spawn(t)
                /\ channels' = [MovedAway(ch) EXCEPT ![ch].home = t]
           /\ requests' = Left(k, ch)
  <2>1. PICK t \in ConnIds : Spawn(t) /\ channels' = [MovedAway(ch) EXCEPT ![ch].home = t]
    BY <1>7
  <2>2. [MovedAway(ch) EXCEPT ![ch].home = t] = [MovedAway(ch) EXCEPT ![ch] = [gone EXCEPT !.home = t]]
    BY <1>1, <1>3
  <2>3. channels' = [channels EXCEPT ![ch] = Rehomed(ch, t)]
    BY <1>2, <1>4, <2>1, <2>2
  <2> QED
    BY <1>7, <2>1, <2>3 DEF Relocates
<1> QED
  BY <1>5, <1>6, <1>7

LEMMA RehomedTypes ==
    ASSUME ChannelTypes, NEW ch \in ChannelIds, NEW c, NEW t \in ConnIds,
           Relocatable(c, channels[ch])
    PROVE  /\ Rehomed(ch, t) \in Channel
           /\ Rehomed(ch, t).kind = channels[ch].kind /\ Rehomed(ch, t).home = t
           /\ Rehomed(ch, t).stream = channels[ch].stream
           /\ Rehomed(ch, t).everOpened = channels[ch].everOpened
           /\ Rehomed(ch, t).pending = channels[ch].pending
           /\ Rehomed(ch, t).closed = channels[ch].closed
           /\ Rehomed(ch, t).relocations = channels[ch].relocations + 1
           /\ Rehomed(ch, t).announced = channels[ch].announced
<1>1. channels[ch] \in Channel /\ channels[ch].relocations < MaxRelocations
  BY DEF ChannelTypes, Relocatable
<1>2. channels[ch].relocations + 1 \in 0..MaxRelocations
  BY <1>1, Bounds DEF Channel
<1> QED
  BY <1>1, <1>2, Ids DEF Rehomed, Channel

(* What is learned from a refusal: as many streams as are live, at most.    *)
LEMMA LearnedIsLive ==
    ASSUME ceiling \in 0..MaxChannels, NEW c, Live(c) # {}
    PROVE  /\ Learned(c) \in 1..MaxChannels
           /\ Learned(c) <= Cardinality(Live(c))
<1>1. /\ IsFiniteSet(ChannelIds) /\ Cardinality(ChannelIds) = MaxChannels
  BY Bounds, FS_Interval DEF ChannelIds
<1>2. Live(c) \subseteq ChannelIds
  BY DEF Live, Registered
<1>3. IsFiniteSet(Live(c)) /\ Cardinality(Live(c)) <= MaxChannels
  BY <1>1, <1>2, FS_Subset
<1>4. Cardinality(Live(c)) \in Nat /\ Cardinality(Live(c)) # 0
  BY <1>3, FS_CardinalityType, FS_EmptySet
<1> QED
  BY <1>3, <1>4, Bounds DEF Learned, Min2

LEMMA RefusedRest ==
    ASSUME NEW k, NEW ch, ShellRefused(k, ch)
    PROVE  /\ UNCHANGED <<announcing, shells, strays>> /\ again' = again \ {<<k, ch>>}
           /\ ~Relocatable(clients[k].conn, channels[ch]) =>
                 /\ channels' = [channels EXCEPT ![ch] = Unopened(@, clients[k].conn)]
                 /\ requests' = Left(k, ch)
                 /\ UNCHANGED <<conns, timers, clients, ceiling, faults>>
           /\ Relocatable(clients[k].conn, channels[ch]) => ceiling' = Learned(clients[k].conn)
           /\ <<k, ch>> \in requests /\ clients[k].phase \in {"ready", "ending"}
  BY DEF ShellRefused, Answered

LEMMA LeftTypes ==
    ASSUME NEW k, NEW ch
    PROVE  /\ Left(k, ch) \subseteq requests /\ requests \ {<<k, ch>>} \subseteq Left(k, ch)
           /\ <<k, ch>> \notin again => Left(k, ch) = requests \ {<<k, ch>>}
  BY DEF Left

-------------------------------------------------------------------------------
(* The types are invariant, whatever the Clients do.                        *)
LEMMA CeilingStays ==
    ASSUME CeilingCore, Kept, UNCHANGED ceiling
    PROVE  CeilingCore'
  BY DEF CeilingCore, Grown, Kept

LEMMA NetStays ==
    ASSUME NetCore, UNCHANGED <<conns, timers, clients>>
    PROVE  NetCore' /\ Persisting /\ Kept
  BY DEF NetCore, NetTypes, Served, Staffed, Untouched, Made, Lives, Pool, Persisting, Kept

LEMMA ChannelsStay ==
    ASSUME ChannelCore, Persisting, UNCHANGED <<channels, requests>>
    PROVE  ChannelCore'
  BY ChannelsFade DEF ChannelCore, ChannelTypes

LEMMA ModeTypes == \A w : ModeOf(w) \in ShellMode \ {"none"}
  BY DEF ModeOf, ShellMode

LEMMA CoreInvInit == Init => CoreInv
<1> SUFFICES ASSUME Init PROVE CoreInv
  OBVIOUS
<1>1. NoConn \in Conn /\ NoClient \in Client
  BY Ids DEF NoConn, Conn, ConnState, NoClient, Client
<1>2. NoChannel \in Channel
  BY Ids DEF NoChannel, Channel
<1>3. NetCore
  BY <1>1 DEF Init, NetCore, NetTypes, Served, Staffed, Untouched, Made, Lives, NoConn, NoClient
<1>4. ChannelCore
  BY <1>2 DEF Init, ChannelCore, ChannelTypes, Housed, Blank, AskedByName, NoChannel
<1>5. RestTypes /\ 0 \in 0..MaxChannels
  BY Bounds DEF Init, RestTypes, ShellMode
<1>6. Grown
  BY DEF Init, Grown, Pool, Made, Lives, NoConn
<1> QED
  BY <1>3, <1>4, <1>5, <1>6 DEF Init, CoreInv, BaseCore, CeilingCore, EventCore

LEMMA OpenChannelCore ==
    ASSUME CoreInv, NEW kind \in Kinds, OpenChannel(kind)
    PROVE  BaseCore'
<1>1. PICK ch \in ChannelIds, c \in ConnIds :
        /\ channels[ch].kind = "none"
        /\ channels' = [channels EXCEPT ![ch] = Record(kind, c)]
        /\ UNCHANGED <<shells, ceiling>>
        /\ \/ /\ c \in WithRoom(channels, kind, ceiling)
              /\ requests' = requests \cup Asked(c, ch)
              /\ UNCHANGED <<conns, timers, clients, faults>>
           \/ /\ WithRoom(channels, kind, ceiling) = {}
              /\ Spawn(c)
              /\ UNCHANGED requests
  BY OpenChannelOpens
<1>2. Record(kind, c) \in Channel /\ Record(kind, c).kind # "none" /\ Record(kind, c).home = c
  BY RecordTypes
<1>3. CASE /\ c \in WithRoom(channels, kind, ceiling)
           /\ requests' = requests \cup Asked(c, ch)
           /\ UNCHANGED <<conns, timers, clients, faults>>
  <2>1. NetCore' /\ Persisting /\ Kept
    BY <1>3, NetStays DEF CoreInv, BaseCore
  <2>2. Lives(c)
    BY <1>3, <2>1, RoomIsPool DEF Persisting
  <2>3. requests' \subseteq requests \cup (ClientIds \X {ch})
    BY <1>3, AskedTypes DEF CoreInv, BaseCore
  <2>4. ChannelCore'
    BY <1>1, <1>2, <2>1, <2>2, <2>3, ChannelMoves DEF CoreInv, BaseCore
  <2> QED
    BY <1>1, <1>3, <2>1, <2>4, CeilingStays DEF CoreInv, BaseCore, RestTypes
<1>4. CASE /\ WithRoom(channels, kind, ceiling) = {}
           /\ Spawn(c)
           /\ UNCHANGED requests
  <2>1. /\ NetCore' /\ Lasting /\ faults' \in 0..MaxFaults
        /\ Lives(c) /\ Pool' \subseteq Pool \cup {c}
    BY <1>4, SpawnNet DEF CoreInv, BaseCore, RestTypes
  <2>2. Persisting
    BY <2>1 DEF Lasting, Persisting
  <2>3. ChannelCore'
    BY <1>1, <1>2, <1>4, <2>1, <2>2, ChannelMoves DEF CoreInv, BaseCore
  <2>4. ceiling = 0 => Pool = {}
    BY <1>4 DEF WithRoom
  <2>5. CeilingCore'
    BY <1>1, <2>1, <2>4 DEF CoreInv, BaseCore, CeilingCore, Grown
  <2> QED
    BY <1>1, <2>1, <2>3, <2>5 DEF CoreInv, BaseCore, RestTypes
<1> QED
  BY <1>1, <1>3, <1>4

LEMMA SendDataCore ==
    ASSUME CoreInv, NEW ch \in ChannelIds, SendData(ch)
    PROVE  BaseCore'
<1>1. channels[ch] \in Channel /\ ChannelTypes
  BY DEF CoreInv, BaseCore, ChannelCore, ChannelTypes
<1>2. NetCore' /\ Persisting /\ Kept
  BY NetStays DEF CoreInv, BaseCore, SendData
<1>3. CASE channels' = channels
  BY <1>2, <1>3, ChannelsStay, CeilingStays DEF CoreInv, BaseCore, RestTypes, SendData, ShellMode
<1>4. CASE channels' # channels
  <2> DEFINE r == [channels[ch] EXCEPT !.pending = Append(channels[ch].pending, "input")]
  <2>1. channels' = [channels EXCEPT ![ch] = r] /\ UNCHANGED shells
    BY <1>1, <1>4 DEF SendData, ChannelTypes
  <2>2. Append(channels[ch].pending, "input") \in Seq({"init", "input"})
    BY <1>1 DEF Channel
  <2>3. r \in Channel /\ r.kind = channels[ch].kind /\ r.home = channels[ch].home
    BY <1>1, <2>2 DEF Channel
  <2>4. channels[ch].kind # "none"
    BY DEF SendData, CoreInv, BaseCore, ChannelCore, Blank, NoChannel
  <2> HIDE DEF r
  <2>5. r.home # 0 => Lives(r.home)
    <3>1. channels[ch].home # 0 => Lives(channels[ch].home)
      BY <1>2, HomeLasts DEF CoreInv, BaseCore
    <3> QED
      BY <2>3, <3>1 DEF Made, Lives
  <2>6. ChannelCore'
    BY <1>2, <2>1, <2>3, <2>4, <2>5, ChannelMoves DEF CoreInv, BaseCore, SendData
  <2> QED
    BY <1>2, <2>1, <2>6, CeilingStays DEF CoreInv, BaseCore, RestTypes, SendData
<1> QED
  BY <1>3, <1>4

LEMMA CloseChannelCore ==
    ASSUME CoreInv, NEW ch \in ChannelIds, CloseChannel(ch)
    PROVE  BaseCore'
<1>1. channels[ch] \in Channel /\ channels[ch].kind # "none"
  BY DEF CoreInv, BaseCore, ChannelCore, ChannelTypes, CloseChannel, Blank, NoChannel
<1>2. NetCore' /\ Persisting /\ Kept
  BY NetStays DEF CoreInv, BaseCore, CloseChannel
<1>3. channels' = [channels EXCEPT ![ch] = Closed(channels[ch])]
  BY <1>1 DEF CloseChannel, CoreInv, BaseCore, ChannelCore, ChannelTypes
<1>4. ChannelCore'
  BY <1>1, <1>2, <1>3, ClosedTypes, ChannelMoves DEF CoreInv, BaseCore, CloseChannel
<1>5. shells' \in [ClientIds \X ChannelIds -> ShellMode]
  BY DEF CloseChannel, CoreInv, BaseCore, RestTypes, ShellMode
<1> QED
  BY <1>2, <1>4, <1>5, CeilingStays DEF CoreInv, BaseCore, RestTypes, CloseChannel

(* What disconnect leaves of a channel.                                     *)
LEMMA DisconnectChannels ==
    ASSUME ChannelTypes, Disconnect
    PROVE  /\ channels' \in [ChannelIds -> Channel]
           /\ \A ch \in ChannelIds :
                /\ channels[ch].home \in Pool => channels'[ch] = Closed(channels[ch])
                /\ channels[ch].home \notin Pool => channels'[ch] = channels[ch]
<1>1. \A ch \in ChannelIds : channels[ch] \in Channel /\ Closed(channels[ch]) \in Channel
  BY ClosedTypes DEF ChannelTypes
<1>2. channels' = [ch \in ChannelIds |->
          IF channels[ch].home \in Pool THEN Closed(channels[ch]) ELSE channels[ch]]
  BY DEF Disconnect
<1> QED
  BY <1>1, <1>2

LEMMA DisconnectCore ==
    ASSUME CoreInv, Disconnect
    PROVE  BaseCore'
<1>1. NetCore' /\ Pool' = {} /\ Persisting
  BY DisconnectNet DEF CoreInv, BaseCore, Persisting
<1>2. ChannelTypes
  BY DEF CoreInv, BaseCore, ChannelCore
<1>3. ASSUME NEW ch \in ChannelIds
      PROVE  /\ channels'[ch].kind = channels[ch].kind
             /\ channels'[ch].home \in {0, channels[ch].home}
             /\ channels[ch].kind = "none" => channels'[ch] = channels[ch]
  <2>1. channels[ch] \in Channel /\ (channels[ch].kind = "none" => channels[ch].home \notin Pool)
    BY Ids DEF CoreInv, BaseCore, ChannelCore, ChannelTypes, Blank, NoChannel, Pool
  <2> QED
    BY <1>2, <2>1, DisconnectChannels, ClosedTypes
<1>4. ChannelCore'
  <2>1. channels' \in [ChannelIds -> Channel] /\ ChannelCore
    BY <1>2, DisconnectChannels DEF CoreInv, BaseCore
  <2>2. requests' \subseteq requests
    BY DEF Disconnect
  <2> QED
    BY <1>1, <1>3, <2>1, <2>2, ChannelsFade
<1>5. CeilingCore'
  <2>1. ceiling' = 0
    BY DEF Disconnect
  <2>2. ceiling' \in 0..MaxChannels
    BY <2>1, Bounds
  <2> QED
    BY <1>1, <2>2 DEF CeilingCore, Grown
<1>6. RestTypes'
  BY DEF Disconnect, CoreInv, BaseCore, RestTypes, ShellMode
<1> QED
  BY <1>1, <1>4, <1>5, <1>6 DEF CoreInv, BaseCore

LEMMA ClientCore ==
    ASSUME CoreInv, NEW k \in ClientIds, Ready(k) \/ HandshakeFails(k) \/ Closes(k) \/ Drops(k)
    PROVE  BaseCore'
<1>1. CASE Ready(k)
  <2>1. NetCore' /\ Lasting /\ Kept
    BY <1>1, ReadyNet DEF CoreInv, BaseCore
  <2>2. ChannelCore'
    BY <1>1, <2>1, ChannelsStay DEF CoreInv, BaseCore, Lasting, Persisting, Ready
  <2> QED
    BY <1>1, <2>1, <2>2, CeilingStays DEF CoreInv, BaseCore, RestTypes, Ready
<1>2. CASE HandshakeFails(k)
  <2>1. NetCore' /\ Lasting /\ Kept
    BY <1>2, FallNet DEF CoreInv, BaseCore, HandshakeFails
  <2>2. ChannelCore'
    BY <1>2, <2>1, ChannelsStay DEF CoreInv, BaseCore, Lasting, Persisting, HandshakeFails
  <2>3. faults' \in 0..MaxFaults
    BY <1>2, Bounds DEF HandshakeFails, Trouble, CoreInv, BaseCore, RestTypes
  <2> QED
    BY <1>2, <2>1, <2>2, <2>3, CeilingStays DEF CoreInv, BaseCore, RestTypes, HandshakeFails
<1>3. CASE Closes(k) \/ Drops(k)
  <2>1. ClientCloses(k) /\ clients[k].phase # "none"
    BY <1>3 DEF Closes, Drops
  <2>2. NetCore' /\ Lasting /\ Kept
    BY <2>1, FallNet DEF CoreInv, BaseCore, ClientCloses
  <2>3. ChannelCore'
    BY <2>1, <2>2, CloseChannels DEF CoreInv, BaseCore, Lasting, Persisting
  <2>4. faults' \in 0..MaxFaults
    BY <1>3, Bounds DEF Closes, Drops, Trouble, CoreInv, BaseCore, RestTypes
  <2>5. RestTypes'
    BY <2>1, <2>4 DEF ClientCloses, CoreInv, BaseCore, RestTypes, ShellMode
  <2> QED
    BY <2>1, <2>2, <2>3, <2>5, CeilingStays DEF CoreInv, BaseCore, ClientCloses
<1> QED
  BY <1>1, <1>2, <1>3

LEMMA TimerCore ==
    ASSUME CoreInv, NEW c \in ConnIds, TimerFires(c)
    PROVE  BaseCore'
<1>1. NetCore' /\ Lasting /\ Kept /\ faults' \in 0..MaxFaults
  BY TimerNet DEF CoreInv, BaseCore, RestTypes
<1>2. ChannelCore'
  BY <1>1, ChannelsStay DEF CoreInv, BaseCore, Lasting, Persisting, TimerFires
<1> QED
  BY <1>1, <1>2, CeilingStays DEF CoreInv, BaseCore, RestTypes, TimerFires

(* The answers to shell(), but for a refusal, and the end of a shell.       *)
LEMMA ShellCore ==
    ASSUME CoreInv, NEW k \in ClientIds, NEW ch \in ChannelIds,
           ShellOpens(k, ch) \/ ShellFails(k, ch) \/ RemoteCloses(k, ch)
    PROVE  BaseCore'
<1>1. NetCore' /\ Persisting /\ Kept
  BY NetStays DEF CoreInv, BaseCore, ShellOpens, ShellFails, RemoteCloses
<1>2. channels[ch] \in Channel /\ channels \in [ChannelIds -> Channel]
  BY DEF CoreInv, BaseCore, ChannelCore, ChannelTypes
<1>3. requests' \subseteq requests
  BY DEF ShellOpens, ShellFails, RemoteCloses, Answers, Answered, Left
<1>4. ASSUME channels' = channels PROVE ChannelCore'
  <2>1. channels' \in [ChannelIds -> Channel] /\ ChannelCore
    BY <1>2, <1>4 DEF CoreInv, BaseCore
  <2>2. \A x \in ChannelIds :
           /\ channels'[x].kind = channels[x].kind
           /\ channels'[x].home \in {0, channels[x].home}
           /\ channels[x].kind = "none" => channels'[x] = channels[x]
    BY <1>4
  <2> QED
    BY <1>1, <1>3, <2>1, <2>2, ChannelsFade
<1>5. ASSUME channels' # channels PROVE ChannelCore'
  <2>1. \E r \in Channel : /\ channels' = [channels EXCEPT ![ch] = r]
                           /\ r.kind = channels[ch].kind /\ r.home \in {0, channels[ch].home}
    <3>1. CASE ShellOpens(k, ch)
      <4>1. channels' = [channels EXCEPT ![ch] = Opened(channels[ch], k)]
        BY <1>2, <1>5, <3>1 DEF ShellOpens
      <4>2. /\ Opened(channels[ch], k) \in Channel
            /\ Opened(channels[ch], k).kind = channels[ch].kind
            /\ Opened(channels[ch], k).home = channels[ch].home
        BY <1>2, OpenedTypes
      <4> HIDE DEF Opened
      <4> QED
        BY <4>1, <4>2
    <3>2. CASE ShellFails(k, ch)
      <4>1. channels' = [channels EXCEPT ![ch] = Unopened(channels[ch], clients[k].conn)]
        BY <1>2, <3>2 DEF ShellFails
      <4> DEFINE r == Unopened(channels[ch], clients[k].conn)
      <4>2. r \in Channel /\ r.kind = channels[ch].kind /\ r.home \in {0, channels[ch].home}
        BY <1>2, UnopenedTypes
      <4> HIDE DEF r
      <4> QED
        BY <4>1, <4>2 DEF r
    <3>3. CASE RemoteCloses(k, ch)
      <4>1. [channels[ch] EXCEPT !.stream = 0] \in Channel
        BY <1>2, Ids DEF Channel
      <4>2. channels' = [channels EXCEPT ![ch] = [channels[ch] EXCEPT !.stream = 0]]
        BY <1>2, <1>5, <3>3 DEF RemoteCloses
      <4> QED
        BY <1>2, <4>1, <4>2 DEF Channel
    <3> QED
      BY <3>1, <3>2, <3>3
  <2>2. channels[ch].kind # "none"
    <3>1. CASE ShellOpens(k, ch) \/ ShellFails(k, ch)
      BY <3>1 DEF ShellOpens, ShellFails, Answers, Answered, CoreInv, BaseCore, ChannelCore, AskedByName
    <3>2. CASE RemoteCloses(k, ch)
      <4>1. channels[ch].stream = k /\ k # 0
        BY <1>5, <3>2, Ids DEF RemoteCloses
      <4>2. channels[ch].kind = "none" => channels[ch] = NoChannel
        BY DEF CoreInv, BaseCore, ChannelCore, Blank
      <4> QED
        BY <4>1, <4>2 DEF NoChannel
    <3> QED
      BY <3>1, <3>2
  <2>3. channels[ch].home # 0 => Lives(channels[ch].home)
    BY <1>1, HomeLasts DEF CoreInv, BaseCore
  <2>4. PICK r \in Channel :
           /\ channels' = [channels EXCEPT ![ch] = r]
           /\ r.kind = channels[ch].kind /\ r.home \in {0, channels[ch].home}
    BY <2>1
  <2>5. r.home # 0 => Lives(r.home)
    BY <2>3, <2>4 DEF Made, Lives
  <2>6. requests' \subseteq requests \cup (ClientIds \X {ch})
    BY <1>3
  <2>7. ChannelCore /\ Persisting /\ r.kind # "none"
    BY <1>1, <2>2, <2>4 DEF CoreInv, BaseCore
  <2> QED
    BY <2>4, <2>5, <2>6, <2>7, ChannelMoves
<1>6. shells' \in [ClientIds \X ChannelIds -> ShellMode]
  BY ModeTypes DEF ShellOpens, ShellFails, RemoteCloses, CoreInv, BaseCore, RestTypes, ShellMode
<1> QED
  BY <1>1, <1>4, <1>5, <1>6, CeilingStays
     DEF CoreInv, BaseCore, RestTypes, ShellOpens, ShellFails, RemoteCloses

LEMMA RefusedCore ==
    ASSUME CoreInv, NEW k \in ClientIds, NEW ch \in ChannelIds, ShellRefused(k, ch)
    PROVE  BaseCore'
<1> DEFINE c == clients[k].conn
<1>1. channels[ch] \in Channel /\ ChannelTypes /\ <<k, ch>> \in requests /\ UNCHANGED shells
  BY RefusedRest DEF CoreInv, BaseCore, ChannelCore, ChannelTypes
<1>2. channels[ch].kind # "none"
  BY <1>1 DEF CoreInv, BaseCore, ChannelCore, AskedByName
<1>4. CASE ~Relocatable(c, channels[ch])
  <2>1. /\ channels' = [channels EXCEPT ![ch] = Unopened(channels[ch], c)]
        /\ requests' \subseteq requests /\ UNCHANGED <<conns, timers, clients, ceiling, faults>>
    BY <1>1, <1>4, RefusedRest, LeftTypes DEF ChannelTypes
  <2>2. NetCore' /\ Persisting /\ Kept
    BY <2>1, NetStays DEF CoreInv, BaseCore
  <2> DEFINE r == Unopened(channels[ch], c)
  <2>3. r \in Channel /\ r.kind # "none" /\ r.home \in {0, channels[ch].home}
    BY <1>1, <1>2, UnopenedTypes
  <2>4. channels[ch].home # 0 => Lives(channels[ch].home)
    BY <2>2, HomeLasts DEF CoreInv, BaseCore
  <2>5. channels' = [channels EXCEPT ![ch] = r] /\ requests' \subseteq requests \cup (ClientIds \X {ch})
    BY <2>1
  <2> HIDE DEF r
  <2>6. r.home # 0 => Lives(r.home)
    BY <2>3, <2>4 DEF Made, Lives
  <2>7. ChannelCore'
    BY <2>2, <2>3, <2>5, <2>6, ChannelMoves DEF CoreInv, BaseCore
  <2> QED
    BY <1>1, <2>1, <2>2, <2>7, CeilingStays DEF CoreInv, BaseCore, RestTypes
<1>5. CASE Relocatable(c, channels[ch])
  <2>1. PICK t \in ConnIds : Relocates(k, ch, t)
    BY <1>1, <1>5, RefusalRelocates
  <2>2. ceiling' \in 1..MaxChannels
    BY <1>5, RefusedRest, LearnedIsLive DEF Relocatable, CoreInv, BaseCore, CeilingCore
  <2>3. CeilingCore'
    BY <2>2, Bounds DEF CeilingCore, Grown
  <2>4. /\ Rehomed(ch, t) \in Channel /\ Rehomed(ch, t).kind # "none" /\ Rehomed(ch, t).home = t
    BY <1>1, <1>2, <1>5, RehomedTypes
  <2>5. CASE /\ t \in RoomFor(ch, c)
             /\ \/ channels' = [channels EXCEPT ![ch] = Unopened(Rehomed(ch, t), c)]
                \/ channels' = [channels EXCEPT ![ch] = Rehomed(ch, t)]
             /\ requests' \subseteq requests \cup Asked(t, ch)
             /\ UNCHANGED <<conns, timers, clients, faults>>
    <3>1. NetCore' /\ Persisting
      BY <2>5, NetStays DEF CoreInv, BaseCore
    <3>2. Lives(t)
      BY <2>5, <3>1, RoomIsPool DEF RoomFor, Persisting
    <3>3. requests' \subseteq requests \cup (ClientIds \X {ch})
      BY <2>5, AskedTypes DEF CoreInv, BaseCore
    <3>4. ChannelCore'
      BY <2>4, <2>5, <3>1, <3>2, <3>3, UnopenedTypes, ChannelMoves DEF CoreInv, BaseCore
    <3> QED
      BY <1>1, <2>3, <2>5, <3>1, <3>4 DEF CoreInv, BaseCore, RestTypes
  <2>6. CASE /\ Spawn(t)
             /\ channels' = [channels EXCEPT ![ch] = Rehomed(ch, t)]
             /\ requests' \subseteq requests
    <3>1. NetCore' /\ Lasting /\ Lives(t) /\ faults' \in 0..MaxFaults
      BY <2>6, SpawnNet DEF CoreInv, BaseCore, RestTypes
    <3>2. ChannelCore'
      BY <2>4, <2>6, <3>1, ChannelMoves DEF CoreInv, BaseCore, Lasting, Persisting
    <3> QED
      BY <1>1, <2>3, <3>1, <3>2 DEF CoreInv, BaseCore, RestTypes
  <2> QED
    BY <2>1, <2>5, <2>6, LeftTypes DEF Relocates
<1> QED
  BY <1>4, <1>5

LEMMA ReopensCore ==
    ASSUME CoreInv, NEW c \in ConnIds, Reopens(c)
    PROVE  BaseCore'
<1>1. NetCore' /\ Persisting /\ Kept
  BY NetStays DEF CoreInv, BaseCore, Reopens
<1>2. Made(c)
  BY Ids DEF Reopens, CoreInv, EventCore
<1>3. ChannelCore'
  BY <1>1, <1>2, ReopensChannels DEF CoreInv, BaseCore
<1> QED
  BY <1>1, <1>3, CeilingStays DEF CoreInv, BaseCore, RestTypes, Reopens

(* No row is ever unmade.                                                   *)
LEMMA RowsLast ==
    ASSUME CoreInv, Next
    PROVE  Persisting
<1>1. NetCore /\ faults \in 0..MaxFaults
  BY DEF CoreInv, BaseCore, RestTypes
<1>2. ASSUME UNCHANGED <<conns, timers, clients>> PROVE Persisting
  BY <1>1, <1>2, NetStays
<1>3. ASSUME NEW c \in ConnIds, Spawn(c) PROVE Persisting
  BY <1>1, <1>3, SpawnNet DEF Lasting, Persisting
<1>4. ASSUME NEW kind \in Kinds, OpenChannel(kind) PROVE Persisting
  BY <1>2, <1>3, <1>4, OpenChannelOpens
<1>5. CASE Disconnect
  BY <1>1, <1>5, DisconnectNet DEF Persisting
<1>6. ASSUME NEW c \in ConnIds, TimerFires(c) PROVE Persisting
  BY <1>1, <1>6, TimerNet DEF Lasting, Persisting
<1>7. ASSUME NEW k \in ClientIds, Ready(k) PROVE Persisting
  BY <1>1, <1>7, ReadyNet DEF Lasting, Persisting
<1>8. ASSUME NEW k \in ClientIds, HandshakeFails(k) PROVE Persisting
  BY <1>1, <1>8, FallNet DEF Lasting, Persisting, HandshakeFails
<1>9. ASSUME NEW k \in ClientIds, Closes(k) \/ Drops(k) PROVE Persisting
  <2>1. ClientCloses(k) /\ clients[k].phase # "none"
    BY <1>9 DEF Closes, Drops
  <2> QED
    BY <1>1, <2>1, FallNet DEF Lasting, Persisting, ClientCloses
<1>10. ASSUME NEW k \in ClientIds, NEW ch \in ChannelIds, ShellRefused(k, ch) PROVE Persisting
  <2>1. CASE ~Relocatable(clients[k].conn, channels[ch])
    BY <1>2, <1>10, <2>1, RefusedRest
  <2>2. CASE Relocatable(clients[k].conn, channels[ch])
    <3>1. PICK t \in ConnIds : Relocates(k, ch, t)
      BY <1>10, <2>2, RefusalRelocates DEF CoreInv, BaseCore, ChannelCore
    <3> QED
      BY <1>2, <1>3, <3>1 DEF Relocates
  <2> QED
    BY <2>1, <2>2
<1>11. CASE \/ \E ch \in ChannelIds : CloseChannel(ch) \/ SendData(ch)
            \/ \E c \in ConnIds : Reopens(c)
            \/ \E k \in ClientIds, ch \in ChannelIds :
                 ShellOpens(k, ch) \/ ShellFails(k, ch) \/ RemoteCloses(k, ch)
  BY <1>2, <1>11 DEF CloseChannel, SendData, Reopens, ShellOpens, ShellFails, RemoteCloses
<1> QED
  BY <1>4, <1>5, <1>6, <1>7, <1>8, <1>9, <1>10, <1>11 DEF Next

(* The event and what is out twice.                                         *)
LEMMA EventStays ==
    ASSUME EventCore, Persisting, announcing' = announcing,
           again' \subseteq requests', strays' \subseteq ClientIds \X ChannelIds
    PROVE  EventCore'
  BY DEF EventCore, Persisting, Made, Lives

LEMMA EventNext ==
    ASSUME CoreInv, Next, Persisting
    PROVE  EventCore'
<1>1. EventCore /\ NetCore /\ ChannelTypes
  BY DEF CoreInv, BaseCore, ChannelCore
<1>2. ASSUME NEW kind \in Kinds, OpenChannel(kind) PROVE EventCore'
  BY <1>1, <1>2, OpenChannelOpens, EventStays DEF EventCore
<1>3. ASSUME NEW ch \in ChannelIds, SendData(ch) \/ CloseChannel(ch) PROVE EventCore'
  BY <1>1, <1>3, EventStays DEF EventCore, SendData, CloseChannel
<1>4. CASE Disconnect
  BY <1>1, <1>4, EventStays DEF EventCore, Disconnect
<1>5. ASSUME NEW c \in ConnIds, TimerFires(c) PROVE EventCore'
  BY <1>1, <1>5, EventStays DEF EventCore, TimerFires
<1>6. ASSUME NEW c \in ConnIds, Reopens(c) PROVE EventCore'
  BY <1>1, <1>6 DEF EventCore, Reopens
<1>7. ASSUME NEW k \in ClientIds, Ready(k) PROVE EventCore'
  <2>1. clients[k].conn \in ConnIds /\ Made(clients[k].conn)
    BY <1>1, <1>7, ReadyWires
  <2> QED
    BY <1>1, <1>7, <2>1 DEF EventCore, Ready, Persisting, Made, Lives
<1>8. ASSUME NEW k \in ClientIds, HandshakeFails(k) PROVE EventCore'
  BY <1>1, <1>8, EventStays DEF EventCore, HandshakeFails
<1>9. ASSUME NEW k \in ClientIds, Closes(k) \/ Drops(k) PROVE EventCore'
  BY <1>1, <1>9, EventStays DEF EventCore, Closes, Drops, ClientCloses
<1>10. ASSUME NEW k \in ClientIds, NEW ch \in ChannelIds, ShellOpens(k, ch) PROVE EventCore'
  <2>1. again' \subseteq requests' /\ announcing' = announcing
    BY <1>1, <1>10, LeftTypes DEF EventCore, ShellOpens, Answers, Answered
  <2>2. strays' \subseteq ClientIds \X ChannelIds
    BY <1>1, <1>10 DEF EventCore, ShellOpens
  <2> QED
    BY <1>1, <2>1, <2>2, EventStays
<1>11. ASSUME NEW k \in ClientIds, NEW ch \in ChannelIds, ShellFails(k, ch) PROVE EventCore'
  BY <1>1, <1>11, EventStays, LeftTypes DEF EventCore, ShellFails, Answers, Answered
<1>12. ASSUME NEW k \in ClientIds, NEW ch \in ChannelIds, ShellRefused(k, ch) PROVE EventCore'
  <2>1. UNCHANGED <<announcing, strays>> /\ again' = again \ {<<k, ch>>}
    BY <1>12, RefusedRest
  <2>2. Left(k, ch) \subseteq requests'
    BY <1>1, <1>12, RefusedRest, RefusalRelocates DEF Relocates
  <2> QED
    BY <1>1, <2>1, <2>2, EventStays, LeftTypes DEF EventCore
<1>13. ASSUME NEW k \in ClientIds, NEW ch \in ChannelIds, RemoteCloses(k, ch) PROVE EventCore'
  BY <1>1, <1>13, EventStays DEF EventCore, RemoteCloses
<1> QED
  BY <1>2, <1>3, <1>4, <1>5, <1>6, <1>7, <1>8, <1>9, <1>10, <1>11, <1>12, <1>13 DEF Next

LEMMA CoreInvNext == CoreInv /\ [Next]_vars => CoreInv'
<1> SUFFICES ASSUME CoreInv, [Next]_vars PROVE CoreInv'
  OBVIOUS
<1>1. CASE UNCHANGED vars
  <2>1. NetCore' /\ Persisting /\ Kept
    BY <1>1, NetStays DEF CoreInv, BaseCore, vars
  <2>2. BaseCore'
    BY <1>1, <2>1, ChannelsStay, CeilingStays DEF CoreInv, BaseCore, RestTypes, vars
  <2>3. EventCore'
    BY <1>1, <2>1, EventStays DEF CoreInv, EventCore, vars
  <2> QED
    BY <2>2, <2>3 DEF CoreInv
<1>2. CASE Next
  <2>1. BaseCore'
    BY <1>2, OpenChannelCore, SendDataCore, CloseChannelCore, DisconnectCore, ClientCore,
       TimerCore, ShellCore, RefusedCore, ReopensCore DEF Next
  <2>2. Persisting
    BY <1>2, RowsLast DEF CoreInv, BaseCore
  <2> QED
    BY <1>2, <2>1, <2>2, EventNext DEF CoreInv
<1> QED
  BY <1>1, <1>2

(* The types, and who serves whom, are an invariant of the transport.       *)
THEOREM ManagerKeepsCore == Spec => []CoreInv
<1> QED
  BY CoreInvInit, CoreInvNext, PTL DEF Spec

(* The transport's variables keep their types, whatever drops, is refused   *)
(* or comes late.                                                           *)
THEOREM ManagerTypes == Spec => []TypeOK
<1>1. CoreInv => TypeOK
  BY Ids DEF CoreInv, BaseCore, EventCore, NetCore, NetTypes, ChannelCore, ChannelTypes, RestTypes,
             CeilingCore, TypeOK
<1> QED
  BY <1>1, ManagerKeepsCore, PTL

(* A second connection needs a refusal: the pool of one profile grows only  *)
(* under a ceiling that a server has taught (pickConnection,                *)
(* relocateRefusedChannel).                                                 *)
THEOREM GrowsOnRefusal == Spec => []PoolGrowsUnderRefusal
<1>1. CoreInv => PoolGrowsUnderRefusal
  <2> SUFFICES ASSUME CoreInv, ceiling = 0 PROVE ~(Cardinality(Pool) > 1)
    BY DEF PoolGrowsUnderRefusal
  <2>1. CASE Pool = {}
    BY <2>1, FS_EmptySet
  <2>2. CASE Pool # {}
    <3>1. PICK c \in Pool : TRUE
      BY <2>2
    <3>2. \A d \in Pool : d = c
      BY <3>1 DEF CoreInv, BaseCore, CeilingCore, Grown
    <3>3. Pool = {c}
      BY <3>1, <3>2
    <3>4. Cardinality({c}) = 1
      BY FS_Singleton
    <3> QED
      BY <3>3, <3>4
  <2> QED
    BY <2>1, <2>2
<1> QED
  BY <1>1, ManagerKeepsCore, PTL

-------------------------------------------------------------------------------
(* The connections, when a Client that failed is closed before the next one *)
(* dials.                                                                   *)

(* A Client that is not over is the one its connection has now.             *)
Current == \A k \in ClientIds : clients[k].phase \notin {"none", "closed"} =>
    /\ conns[clients[k].conn].client = k
    /\ clients[k].phase = "ending" => conns[clients[k].conn].disposed

(* A timer runs only over a Client that is gone.                            *)
OneTimer == \A c \in Pool :
    /\ timers[c] = IF conns[c].reconnecting THEN 1 ELSE 0
    /\ conns[c].reconnecting =>
          conns[c].state = "reconnecting" /\ clients[conns[c].client].phase \in {"failed", "closed"}

Ended == \A c \in ConnIds :
    conns[c].disposed => clients[conns[c].client].phase \in {"ending", "closed"}

Up == \A c \in ConnIds : conns[c].state = "connected" => clients[conns[c].client].phase = "ready"

NetOK == Current /\ OneTimer /\ Ended /\ Up

(* Whose Client is k: that of row c, or a new one over the others of c.     *)
Succeeds(c, k) ==
    \/ clients[k].phase # "none" /\ clients[k].conn = c /\ conns[c].client = k
    \/ /\ clients[k].phase = "none"
       /\ \A j \in ClientIds : clients[j].conn = c => clients[j].phase \in {"none", "closed"}

LEMMA NetKeepsOK ==
    ASSUME NetCore, NetOK, NEW c \in ConnIds, NEW k \in ClientIds,
           NEW q \in Conn, NEW cl \in Client, NEW l \in Nat,
           Wired(c, k, q, cl, l), Succeeds(c, k),
           cl.conn = c, cl.phase \in {"dialing", "ready", "failed", "closed"}, q.client = k,
           ~q.disposed => /\ l = IF q.reconnecting THEN 1 ELSE 0
                          /\ q.reconnecting => /\ q.state = "reconnecting"
                                               /\ cl.phase \in {"failed", "closed"},
           q.disposed => cl.phase = "closed",
           q.state = "connected" => cl.phase = "ready"
    PROVE  NetOK'
<1>1. /\ conns'[c] = q /\ \A d \in ConnIds \ {c} : conns'[d] = conns[d]
      /\ timers'[c] = l /\ \A d \in ConnIds \ {c} : timers'[d] = timers[d]
      /\ clients'[k] = cl /\ \A j \in ClientIds \ {k} : clients'[j] = clients[j]
  BY DEF NetCore, NetTypes, Wired
<1>2. \A d \in ConnIds \ {c} : Made(d) =>
         conns[d].client \in ClientIds /\ conns[d].client # k
  BY DEF NetCore, Staffed, Succeeds
<1>3. \A d \in ConnIds : ~Made(d) => ~conns[d].disposed /\ conns[d].state # "connected"
  BY DEF NetCore, Untouched, NoConn, Made
<1>4. Current'
  <2> SUFFICES ASSUME NEW j \in ClientIds, clients'[j].phase \notin {"none", "closed"}
               PROVE  /\ conns'[clients'[j].conn].client = j
                      /\ clients'[j].phase = "ending" => conns'[clients'[j].conn].disposed
    BY DEF Current
  <2>1. CASE j = k
    BY <1>1, <2>1
  <2>2. CASE j # k
    <3>1. clients'[j] = clients[j] /\ clients[j].conn \in ConnIds
      BY <1>1, <2>2 DEF NetCore, Served
    <3>2. conns[clients[j].conn].client = j
      BY <3>1 DEF NetOK, Current
    <3>3. clients[j].conn # c
      BY <2>2, <3>1, <3>2 DEF Succeeds
    <3> QED
      BY <1>1, <3>1, <3>3 DEF NetOK, Current
  <2> QED
    BY <2>1, <2>2
<1>5. OneTimer'
  <2> SUFFICES ASSUME NEW d \in ConnIds, Made(d)', ~conns'[d].disposed
               PROVE  /\ timers'[d] = IF conns'[d].reconnecting THEN 1 ELSE 0
                      /\ conns'[d].reconnecting =>
                            /\ conns'[d].state = "reconnecting"
                            /\ clients'[conns'[d].client].phase \in {"failed", "closed"}
    BY DEF OneTimer, Pool, Made
  <2>1. CASE d = c
    BY <1>1, <2>1
  <2>2. CASE d # c
    BY <1>1, <1>2, <2>2 DEF NetOK, OneTimer, Pool, Made
  <2> QED
    BY <2>1, <2>2
<1>6. Ended'
  BY <1>1, <1>2, <1>3 DEF NetOK, Ended
<1>7. Up'
  BY <1>1, <1>2, <1>3 DEF NetOK, Up
<1> QED
  BY <1>4, <1>5, <1>6, <1>7 DEF NetOK

LEMMA ReadyKeepsOK ==
    ASSUME NetCore, NetOK, NEW k \in ClientIds, Ready(k)
    PROVE  NetOK'
<1> DEFINE c == clients[k].conn
<1>1. c \in ConnIds /\ Made(c) /\ timers[c] \in Nat
  BY ReadyWires DEF NetCore, NetTypes
<1>2. PICK q \in Conn, cl \in Client : Readies(c, k, q, cl)
  BY ReadyWires
<1>3. clients[k].phase = "dialing"
  BY DEF Ready
<1>4. conns[c].client = k /\ Succeeds(c, k)
  BY <1>3 DEF NetOK, Current, Succeeds
<1>5. ~conns[c].disposed
  BY <1>1, <1>3, <1>4 DEF NetOK, Ended
<1>6. timers[c] = 0
  BY <1>1, <1>3, <1>4, <1>5 DEF NetOK, OneTimer, Pool
<1> HIDE DEF c
<1> QED
  BY <1>1, <1>2, <1>4, <1>5, <1>6, NetKeepsOK DEF Readies

LEMMA FallKeepsOK ==
    ASSUME NetCore, NetOK, NEW k \in ClientIds, clients[k].phase \notin {"none", "closed"},
           NEW phase \in {"failed", "closed"},
           phase = "failed" => clients[k].phase = "dialing",
           clients' = [clients EXCEPT ![k].phase = phase],
           ScheduleReconnect(clients[k].conn)
    PROVE  NetOK'
<1> DEFINE c == clients[k].conn
<1>1. c \in ConnIds /\ Made(c) /\ conns[c] \in Conn
  BY FallWires DEF NetCore, NetTypes
<1>2. PICK q \in Conn, cl \in Client, l \in Nat : Falls(c, k, q, cl, l, phase)
  BY FallWires
<1>3. conns[c].client = k /\ Succeeds(c, k)
  BY DEF NetOK, Current, Succeeds
<1>4. conns[c].disposed => phase = "closed"
  BY <1>1, <1>3 DEF NetOK, Ended
<1>5. /\ q.client = k /\ q.disposed = conns[c].disposed
      /\ Skips(conns[c]) => q = conns[c] /\ l = timers[c]
      /\ ~Skips(conns[c]) => /\ q.state \in {"error", "reconnecting"}
                             /\ q.reconnecting => q.state = "reconnecting"
                             /\ q.reconnecting = Schedules(conns[c])
                             /\ l = IF q.reconnecting THEN timers[c] + 1 ELSE timers[c]
  BY <1>1, <1>2, <1>3, RescheduledRow DEF Falls, Made, Schedules
<1>6. ~conns[c].disposed => /\ timers[c] = IF conns[c].reconnecting THEN 1 ELSE 0
                            /\ conns[c].reconnecting => conns[c].state = "reconnecting"
  BY <1>1 DEF NetOK, OneTimer, Pool
<1>7. q.state # "connected"
  <2>1. conns[c].disposed => conns[c].state # "connected"
    BY <1>1 DEF NetOK, Ended, Up
  <2> QED
    BY <1>5, <1>6, <2>1 DEF Skips
<1>8. ~q.disposed => /\ l = IF q.reconnecting THEN 1 ELSE 0
                     /\ q.reconnecting => q.state = "reconnecting"
  BY <1>5, <1>6 DEF Skips
<1> HIDE DEF c
<1> QED
  BY <1>1, <1>2, <1>3, <1>4, <1>5, <1>7, <1>8, NetKeepsOK DEF Falls

LEMMA SpawnKeepsOK ==
    ASSUME NetCore, NetOK, faults \in 0..MaxFaults, NEW c \in ConnIds, Spawn(c)
    PROVE  NetOK'
<1>1. ~Made(c)
  BY SpawnDials
<1>2. PICK k \in ClientIds, q \in Conn, cl \in Client, l \in Nat : Spawns(c, k, q, cl, l)
  BY SpawnDials
<1>3. Succeeds(c, k)
  BY <1>1, <1>2 DEF Spawns, Dials, Succeeds, NetCore, Served
<1>4. /\ Wired(c, k, q, cl, l)
      /\ cl.conn = c /\ cl.phase \in {"dialing", "closed"}
      /\ q.client = k /\ ~q.disposed
      /\ q.reconnecting => q.state = "reconnecting" /\ cl.phase = "closed"
      /\ l = IF q.reconnecting THEN 1 ELSE 0
      /\ q.state # "connected"
  BY <1>2 DEF Spawns, Dials, NoConn
<1> QED
  BY <1>3, <1>4, NetKeepsOK

(* The guard of the backoff is needed here: the old Client is over.         *)
LEMMA TimerKeepsOK ==
    ASSUME ~CloseLags, NetCore, NetOK, faults \in 0..MaxFaults, NEW c \in ConnIds, TimerFires(c)
    PROVE  NetOK'
<1>1. CASE conns[c].disposed
  <2>1. timers' = [timers EXCEPT ![c] = @ - 1] /\ UNCHANGED <<conns, clients>>
    BY <1>1 DEF TimerFires
  <2>2. \A d \in Pool : timers'[d] = timers[d]
    BY <1>1, <2>1 DEF NetCore, NetTypes, Pool
  <2> QED
    BY <2>1, <2>2 DEF NetOK, Current, OneTimer, Ended, Up, Pool, Made
<1>2. CASE ~conns[c].disposed
  <2>1. Made(c) /\ timers[c] \in Nat \ {0} /\ conns[c] \in Conn
    BY <1>2, TimerDials DEF NetCore, NetTypes
  <2>2. PICK k \in ClientIds, q \in Conn, cl \in Client, l \in Nat : Redials(c, k, q, cl, l)
    BY <1>2, TimerDials
  <2>3. timers[c] = 1 /\ conns[c].state = "reconnecting"
    BY <1>2, <2>1 DEF NetOK, OneTimer, Pool
  <2>4. clients[conns[c].client].phase \in {"failed", "closed"}
    BY <1>2, <2>1, <2>3 DEF NetOK, OneTimer, Pool
  <2>5. \A j \in ClientIds : clients[j].conn = c => clients[j].phase # "failed"
    BY DEF TimerFires
  <2>6. ASSUME NEW j \in ClientIds, clients[j].conn = c PROVE clients[j].phase \in {"none", "closed"}
    <3>1. clients[j].phase \notin {"none", "closed"} => conns[c].client = j
      BY <2>6 DEF NetOK, Current
    <3> QED
      BY <2>4, <2>5, <2>6, <3>1
  <2>7. Succeeds(c, k)
    BY <2>2, <2>6 DEF Redials, Dials, Succeeds
  <2>8. [conns[c] EXCEPT !.reconnecting = FALSE].state = "reconnecting"
    BY <2>1, <2>3 DEF Conn
  <2>9. /\ Wired(c, k, q, cl, l)
        /\ cl.conn = c /\ cl.phase \in {"dialing", "closed"}
        /\ q.client = k /\ ~q.disposed
        /\ q.reconnecting => q.state = "reconnecting" /\ cl.phase = "closed"
        /\ l = IF q.reconnecting THEN 1 ELSE 0
        /\ q.state # "connected"
    BY <2>2, <2>3, <2>8 DEF Redials, Dials
  <2> QED
    BY <2>7, <2>9, NetKeepsOK
<1> QED
  BY <1>1, <1>2

LEMMA DisconnectKeepsOK ==
    ASSUME NetCore, NetOK, Disconnect
    PROVE  NetOK'
<1>1. Pool' = {}
  BY DisconnectNet
<1>2. Current'
  <2> SUFFICES ASSUME NEW k \in ClientIds, clients'[k].phase \notin {"none", "closed"}
               PROVE  /\ conns'[clients'[k].conn].client = k
                      /\ clients'[k].phase = "ending" => conns'[clients'[k].conn].disposed
    BY DEF Current
  <2>1. /\ clients'[k].conn = clients[k].conn
        /\ clients[k].phase \notin {"none", "closed"}
        /\ clients'[k].phase = clients[k].phase \/ \E c \in Pool : k = conns[c].client
    BY DisconnectRows
  <2>2. clients[k].conn \in ConnIds /\ Made(clients[k].conn)
    BY <2>1 DEF NetCore, Served
  <2>3. conns[clients[k].conn].client = k
    BY <2>1 DEF NetOK, Current
  <2>4. conns'[clients[k].conn].client = k
    BY <2>2, <2>3, DisconnectRows
  <2>5. conns'[clients[k].conn].disposed
    BY <2>2, DisconnectRows DEF Pool
  <2> QED
    BY <2>1, <2>4, <2>5
<1>3. OneTimer'
  BY <1>1 DEF OneTimer
<1>4. Ended'
  <2> SUFFICES ASSUME NEW c \in ConnIds, conns'[c].disposed
               PROVE  clients'[conns'[c].client].phase \in {"ending", "closed"}
    BY DEF Ended
  <2>1. CASE c \in Pool
    BY <2>1, DisconnectRows
  <2>2. CASE c \notin Pool
    <3>1. conns'[c] = conns[c] /\ Made(c)
      BY <2>2, DisconnectRows DEF NetCore, Untouched, NoConn
    <3>2. conns[c].client \in ClientIds /\ clients[conns[c].client].phase \in {"ending", "closed"}
      BY <3>1 DEF NetOK, Ended, NetCore, Staffed
    <3> QED
      BY <3>1, <3>2, DisconnectRows
  <2> QED
    BY <2>1, <2>2
<1>5. Up'
  <2> SUFFICES ASSUME NEW c \in ConnIds PROVE conns'[c].state # "connected"
    BY DEF Up
  <2>1. CASE c \in Pool
    BY <2>1, DisconnectRows
  <2>2. CASE c \notin Pool
    <3>1. conns'[c] = conns[c]
      BY <2>2, DisconnectRows
    <3>2. Made(c) => conns[c].disposed
      BY <2>2 DEF Pool
    <3> QED
      BY <3>1, <3>2 DEF NetOK, Ended, Up, Made
  <2> QED
    BY <2>1, <2>2
<1> QED
  BY <1>2, <1>3, <1>4, <1>5 DEF NetOK

-------------------------------------------------------------------------------
(* Channel ch, whose record is r, under the requests, shells and Clients:   *)
(* who asks for its shell, who holds it, and what was typed first.          *)
AsksFit(r, ch, reqs, cls) ==
    \A k \in ClientIds : <<k, ch>> \in reqs =>
        /\ cls[k].phase \in {"ready", "ending"}
        /\ r.stream = 0
        /\ r.home = cls[k].conn \/ r.closed

StreamFits(r, cls) ==
    r.stream # 0 => cls[r.stream].phase = "ready" /\ cls[r.stream].conn = r.home /\ r.pending = <<>>

ShellsFit(r, ch, run) ==
    \A k \in ClientIds : run[<<k, ch>>] # "none" =>
        r.stream = k /\ (r.kind = "session" => run[<<k, ch>>] = "attached")

TypedFits(r) ==
    r.kind = "session" =>
        /\ r.everOpened => \A i \in DOMAIN r.pending : r.pending[i] = "input"
        /\ ~r.everOpened /\ ~r.closed =>
              /\ r.pending # <<>> /\ r.pending[1] = "init"
              /\ \A i \in DOMAIN r.pending : i # 1 => r.pending[i] = "input"

Fits(r, ch, reqs, run, cls) ==
    AsksFit(r, ch, reqs, cls) /\ StreamFits(r, cls) /\ ShellsFit(r, ch, run) /\ TypedFits(r)

(* So it is with every channel but those that a listener of 'connected'     *)
(* opened, which may have asked twice.                                      *)
ChannelsOK == \A ch \in ChannelIds :
    ~channels[ch].announced => Fits(channels[ch], ch, requests, shells, clients)
FitsNext(ch) ==
    ~channels'[ch].announced => Fits(channels'[ch], ch, requests', shells', clients')

SingleOK == \A ch \in ChannelIds : ~channels[ch].announced =>
    \A k \in ClientIds : <<k, ch>> \notin again /\ <<k, ch>> \notin strays

(* While 'connected' is told, the channels that were there before have not  *)
(* asked for their shells yet.                                              *)
Hushed == announcing # 0 =>
    /\ conns[announcing].state = "connected"
    /\ \A ch \in ChannelIds : ~channels[ch].announced /\ channels[ch].home = announcing =>
          channels[ch].stream = 0 /\ <<conns[announcing].client, ch>> \notin requests

ManagerInv == CoreInv /\ NetOK /\ ChannelsOK /\ SingleOK /\ Hushed

(* The Clients that answer are left alone.                                  *)
Steady == \A j \in ClientIds : clients[j].phase \in {"ready", "ending"} => clients'[j] = clients[j]

LEMMA StreamIsClient ==
    ASSUME ChannelTypes, NEW ch \in ChannelIds, channels[ch].stream # 0
    PROVE  channels[ch].stream \in ClientIds
<1>1. channels[ch] \in Channel
  BY DEF ChannelTypes
<1> QED
  BY <1>1, Ids DEF Channel

(* A channel that no step touches.                                          *)
LEMMA FitsStays ==
    ASSUME ChannelTypes, ChannelsOK, Steady, NEW ch \in ChannelIds, channels'[ch] = channels[ch],
           \A k \in ClientIds : <<k, ch>> \in requests' => <<k, ch>> \in requests,
           \A k \in ClientIds : shells'[<<k, ch>>] = shells[<<k, ch>>]
    PROVE  FitsNext(ch)
<1> SUFFICES ASSUME ~channels[ch].announced
             PROVE  Fits(channels'[ch], ch, requests', shells', clients')
  BY DEF FitsNext
<1>1. Fits(channels[ch], ch, requests, shells, clients)
  BY DEF ChannelsOK
<1>2. AsksFit(channels'[ch], ch, requests', clients')
  BY <1>1 DEF Fits, AsksFit, Steady
<1>3. StreamFits(channels'[ch], clients')
  BY <1>1, StreamIsClient DEF Fits, StreamFits, Steady
<1>4. ShellsFit(channels'[ch], ch, shells')
  BY <1>1 DEF Fits, ShellsFit
<1>5. TypedFits(channels'[ch])
  BY <1>1 DEF Fits
<1> QED
  BY <1>2, <1>3, <1>4, <1>5 DEF Fits

(* The other channels of a step that takes one.                             *)
LEMMA OthersFit ==
    ASSUME ChannelTypes, ChannelsOK, Steady, NEW ch \in ChannelIds, NEW r, NEW run,
           channels' = [channels EXCEPT ![ch] = r],
           \A x \in ChannelIds \ {ch} : \A k \in ClientIds :
               <<k, x>> \in requests' => <<k, x>> \in requests,
           shells \in [ClientIds \X ChannelIds -> ShellMode],
           shells' = shells \/ \E k \in ClientIds : shells' = [shells EXCEPT ![<<k, ch>>] = run],
           FitsNext(ch)
    PROVE  ChannelsOK'
<1> SUFFICES ASSUME NEW x \in ChannelIds PROVE FitsNext(x)
  BY DEF ChannelsOK, FitsNext
<1>1. CASE x = ch
  BY <1>1
<1>2. CASE x # ch
  <2>1. channels'[x] = channels[x]
    BY <1>2 DEF ChannelTypes
  <2>2. \A k \in ClientIds : shells'[<<k, x>>] = shells[<<k, x>>]
    BY <1>2
  <2>3. \A k \in ClientIds : <<k, x>> \in requests' => <<k, x>> \in requests
    BY <1>2
  <2> QED
    BY <2>1, <2>2, <2>3, FitsStays
<1> QED
  BY <1>1, <1>2

LEMMA AllFitStill ==
    ASSUME ChannelTypes, ChannelsOK, Steady, UNCHANGED <<channels, shells>>,
           requests' \subseteq requests
    PROVE  ChannelsOK'
<1>1. \A ch \in ChannelIds : FitsNext(ch)
  BY FitsStays
<1> QED
  BY <1>1 DEF ChannelsOK, FitsNext

(* Only the Client a connection has now may ask for, or hold, its channels. *)
LEMMA OneAsks ==
    ASSUME NetCore, NetOK, ChannelsOK, NEW ch \in ChannelIds, ~channels[ch].closed,
           ~channels[ch].announced, NEW j \in ClientIds, NEW k \in ClientIds,
           <<j, ch>> \in requests, <<k, ch>> \in requests
    PROVE  j = k
<1>1. /\ clients[j].phase \in {"ready", "ending"} /\ clients[j].conn = channels[ch].home
      /\ clients[k].phase \in {"ready", "ending"} /\ clients[k].conn = channels[ch].home
  BY DEF ChannelsOK, Fits, AsksFit
<1> QED
  BY <1>1 DEF NetOK, Current

LEMMA Quiet ==
    ASSUME ChannelsOK, NEW ch \in ChannelIds, ~channels[ch].announced, channels[ch].stream = 0,
           NEW k \in ClientIds
    PROVE  shells[<<k, ch>>] = "none"
  BY Ids DEF ChannelsOK, Fits, ShellsFit

(* A record that asks nothing but of its own Client.                        *)
LEMMA AskedFits ==
    ASSUME NetCore, NetOK, NEW c \in ConnIds, NEW ch \in ChannelIds, Made(c),
           NEW k \in ClientIds, <<k, ch>> \in Asked(c, ch)
    PROVE  clients[k].phase = "ready" /\ clients[k].conn = c
  BY DEF Asked, NetCore, Staffed, NetOK, Up

LEMMA DialIsSteady ==
    ASSUME NetCore, NEW c, NEW k \in ClientIds, NEW q, NEW cl, NEW l, NEW row, NEW left,
           Dials(c, k, q, cl, l, row, left)
    PROVE  Steady
  BY DEF Dials, Wired, Steady, NetCore, NetTypes

LEMMA SpawnIsSteady ==
    ASSUME NetCore, faults \in 0..MaxFaults, NEW c \in ConnIds, Spawn(c)
    PROVE  Steady
  BY SpawnDials, DialIsSteady DEF Spawns

(* The steps that take one channel.                                         *)
TakesOne(k, ch) ==
    \/ SendData(ch) \/ CloseChannel(ch) \/ ShellOpens(k, ch) \/ ShellFails(k, ch)
    \/ RemoteCloses(k, ch) \/ ShellRefused(k, ch)

LEMMA TakenRecord ==
    ASSUME CoreInv, NEW k \in ClientIds, NEW ch \in ChannelIds, TakesOne(k, ch)
    PROVE  \E r \in Channel : /\ channels' = [channels EXCEPT ![ch] = r]
                              /\ r.announced = channels[ch].announced
<1>1. ChannelTypes /\ channels[ch] \in Channel /\ channels \in [ChannelIds -> Channel]
  BY DEF CoreInv, BaseCore, ChannelCore, ChannelTypes
<1>2. CASE channels' = channels
  BY <1>1, <1>2
<1>3. CASE SendData(ch) /\ channels' # channels
  <2> DEFINE r == [channels[ch] EXCEPT !.pending = Append(channels[ch].pending, "input")]
  <2>1. channels' = [channels EXCEPT ![ch] = r]
    BY <1>1, <1>3 DEF SendData
  <2>2. channels[ch].pending \in Seq({"init", "input"})
    BY <1>1 DEF Channel
  <2>3. Append(channels[ch].pending, "input") \in Seq({"init", "input"})
    BY <2>2
  <2>4. r \in Channel /\ r.announced = channels[ch].announced
    BY <1>1, <2>3 DEF Channel
  <2> HIDE DEF r
  <2> QED
    BY <2>1, <2>4
<1>4. CASE CloseChannel(ch)
  <2> DEFINE r == Closed(channels[ch])
  <2>1. channels' = [channels EXCEPT ![ch] = r]
    BY <1>1, <1>4 DEF CloseChannel
  <2>2. r \in Channel /\ r.announced = channels[ch].announced
    BY <1>1, ClosedTypes
  <2> HIDE DEF r
  <2> QED
    BY <2>1, <2>2
<1>5. CASE ShellOpens(k, ch) /\ channels' # channels
  <2> DEFINE r == Opened(channels[ch], k)
  <2>1. channels' = [channels EXCEPT ![ch] = r]
    BY <1>1, <1>5 DEF ShellOpens
  <2>2. r \in Channel /\ r.announced = channels[ch].announced
    BY <1>1, OpenedTypes
  <2> HIDE DEF r
  <2> QED
    BY <2>1, <2>2
<1>6. CASE ShellFails(k, ch)
  <2> DEFINE r == Unopened(channels[ch], clients[k].conn)
  <2>1. channels' = [channels EXCEPT ![ch] = r]
    BY <1>1, <1>6 DEF ShellFails
  <2>2. r \in Channel /\ r.announced = channels[ch].announced
    BY <1>1, UnopenedTypes
  <2> HIDE DEF r
  <2> QED
    BY <2>1, <2>2
<1>7. CASE RemoteCloses(k, ch) /\ channels' # channels
  <2> DEFINE r == [channels[ch] EXCEPT !.stream = 0]
  <2>1. channels' = [channels EXCEPT ![ch] = r]
    BY <1>1, <1>7 DEF RemoteCloses
  <2>2. r \in Channel /\ r.announced = channels[ch].announced
    BY <1>1, Ids DEF Channel
  <2> HIDE DEF r
  <2> QED
    BY <2>1, <2>2
<1>8. CASE ShellRefused(k, ch)
  <2> DEFINE c == clients[k].conn
  <2>1. CASE ~Relocatable(c, channels[ch])
    <3>1. channels' = [channels EXCEPT ![ch] = Unopened(channels[ch], c)]
      BY <1>1, <1>8, <2>1, RefusedRest
    <3>2. /\ Unopened(channels[ch], c) \in Channel
          /\ Unopened(channels[ch], c).announced = channels[ch].announced
      BY <1>1, UnopenedTypes
    <3> QED
      BY <3>1, <3>2
  <2>2. CASE Relocatable(c, channels[ch])
    <3>1. PICK t \in ConnIds : Relocates(k, ch, t)
      BY <1>1, <1>8, <2>2, RefusalRelocates
    <3> DEFINE h == Rehomed(ch, t)
    <3>2. h \in Channel /\ h.announced = channels[ch].announced
      BY <1>1, <2>2, RehomedTypes
    <3>3. \/ channels' = [channels EXCEPT ![ch] = h]
          \/ channels' = [channels EXCEPT ![ch] = Unopened(h, c)]
      BY <3>1 DEF Relocates
    <3> HIDE DEF h
    <3>4. Unopened(h, c) \in Channel /\ Unopened(h, c).announced = h.announced
      BY <3>2, UnopenedTypes
    <3> QED
      BY <3>2, <3>3, <3>4
  <2> QED
    BY <2>1, <2>2
<1> QED
  BY <1>2, <1>3, <1>4, <1>5, <1>6, <1>7, <1>8 DEF TakesOne

(* The others keep what they ask for and hold.                              *)
LEMMA OthersKeep ==
    ASSUME CoreInv, NEW k \in ClientIds, NEW ch \in ChannelIds, TakesOne(k, ch),
           NEW x \in ChannelIds \ {ch}, NEW j \in ClientIds
    PROVE  /\ <<j, x>> \in requests' => <<j, x>> \in requests
           /\ shells'[<<j, x>>] = shells[<<j, x>>]
<1>1. ChannelTypes /\ shells \in [ClientIds \X ChannelIds -> ShellMode]
  BY DEF CoreInv, BaseCore, ChannelCore, RestTypes
<1>2. CASE SendData(ch) \/ CloseChannel(ch)
  BY <1>1, <1>2 DEF SendData, CloseChannel
<1>3. CASE ShellOpens(k, ch) \/ ShellFails(k, ch) \/ RemoteCloses(k, ch)
  BY <1>1, <1>3, LeftTypes DEF ShellOpens, ShellFails, RemoteCloses, Answers
<1>4. CASE ShellRefused(k, ch)
  <2>1. CASE ~Relocatable(clients[k].conn, channels[ch])
    <3>1. requests' = Left(k, ch) /\ shells' = shells
      BY <1>4, <2>1, RefusedRest
    <3> QED
      BY <3>1, LeftTypes
  <2>2. CASE Relocatable(clients[k].conn, channels[ch])
    <3>1. PICK t \in ConnIds : Relocates(k, ch, t)
      BY <1>1, <1>4, <2>2, RefusalRelocates
    <3> QED
      BY <1>4, <3>1, RefusedRest, LeftTypes DEF Relocates, Asked
  <2> QED
    BY <2>1, <2>2
<1> QED
  BY <1>2, <1>3, <1>4 DEF TakesOne

LEMMA TakenIsSteady ==
    ASSUME CoreInv, NEW k \in ClientIds, NEW ch \in ChannelIds, TakesOne(k, ch)
    PROVE  Steady
<1>1. CASE ShellRefused(k, ch)
  <2>1. CASE ~Relocatable(clients[k].conn, channels[ch])
    BY <1>1, <2>1, RefusedRest DEF Steady
  <2>2. CASE Relocatable(clients[k].conn, channels[ch])
    <3>1. PICK t \in ConnIds : Relocates(k, ch, t)
      BY <1>1, <2>2, RefusalRelocates DEF CoreInv, BaseCore, ChannelCore
    <3> QED
      BY <3>1, SpawnIsSteady DEF Relocates, CoreInv, BaseCore, RestTypes, Steady
  <2> QED
    BY <2>1, <2>2
<1> QED
  BY <1>1 DEF TakesOne, SendData, CloseChannel, ShellOpens, ShellFails, RemoteCloses, Steady

(* A step that takes a channel of the listeners leaves the others as they   *)
(* fit.                                                                     *)
LEMMA AnnouncedFits ==
    ASSUME ManagerInv, NEW k \in ClientIds, NEW ch \in ChannelIds, TakesOne(k, ch),
           channels[ch].announced
    PROVE  ChannelsOK'
<1>1. ChannelTypes /\ ChannelsOK /\ CoreInv
  BY DEF ManagerInv, CoreInv, BaseCore, ChannelCore
<1>2. PICK r \in Channel : channels' = [channels EXCEPT ![ch] = r] /\ r.announced
  BY <1>1, TakenRecord
<1> SUFFICES ASSUME NEW x \in ChannelIds PROVE FitsNext(x)
  BY DEF ChannelsOK, FitsNext
<1>3. CASE x = ch
  BY <1>1, <1>2, <1>3 DEF FitsNext, ChannelTypes
<1>4. CASE x # ch
  <2>1. channels'[x] = channels[x]
    BY <1>1, <1>2, <1>4 DEF ChannelTypes
  <2>2. \A j \in ClientIds : <<j, x>> \in requests' => <<j, x>> \in requests
    BY <1>1, <1>4, OthersKeep
  <2>3. \A j \in ClientIds : shells'[<<j, x>>] = shells[<<j, x>>]
    BY <1>1, <1>4, OthersKeep
  <2> QED
    BY <1>1, <2>1, <2>2, <2>3, TakenIsSteady, FitsStays
<1> QED
  BY <1>3, <1>4

-------------------------------------------------------------------------------
(* The channels after each step.                                            *)
LEMMA OpenChannelFits ==
    ASSUME ManagerInv, NEW kind \in Kinds, OpenChannel(kind)
    PROVE  ChannelsOK'
<1>1. PICK ch \in ChannelIds, c \in ConnIds :
        /\ channels[ch].kind = "none"
        /\ channels' = [channels EXCEPT ![ch] = Record(kind, c)]
        /\ UNCHANGED <<shells, ceiling>>
        /\ \/ /\ c \in WithRoom(channels, kind, ceiling)
              /\ requests' = requests \cup Asked(c, ch)
              /\ UNCHANGED <<conns, timers, clients, faults>>
           \/ /\ WithRoom(channels, kind, ceiling) = {}
              /\ Spawn(c)
              /\ UNCHANGED requests
  BY OpenChannelOpens
<1>2. NetCore /\ NetOK /\ ChannelTypes /\ ChannelsOK /\ RestTypes
  BY DEF ManagerInv, CoreInv, BaseCore, ChannelCore
<1>3. /\ channels[ch].stream = 0 /\ ~channels[ch].announced
      /\ \A k \in ClientIds : <<k, ch>> \notin requests
  BY <1>1 DEF ManagerInv, CoreInv, BaseCore, ChannelCore, Blank, AskedByName, NoChannel
<1>4. \A k \in ClientIds : shells[<<k, ch>>] = "none"
  BY <1>2, <1>3, Quiet
<1>5. Steady
  BY <1>1, <1>2, SpawnIsSteady DEF RestTypes, Steady
<1>6. AsksFit(Record(kind, c), ch, requests', clients')
  <2>1. CASE UNCHANGED requests
    BY <1>3, <2>1 DEF AsksFit
  <2>2. CASE /\ c \in WithRoom(channels, kind, ceiling)
             /\ requests' = requests \cup Asked(c, ch) /\ UNCHANGED clients
    <3>1. Made(c)
      BY <2>2, RoomIsPool
    <3>2. \A k \in ClientIds : <<k, ch>> \in requests' =>
             clients[k].phase = "ready" /\ clients[k].conn = c
      BY <1>2, <1>3, <2>2, <3>1, AskedFits
    <3> QED
      BY <2>2, <3>2, RecordTypes DEF AsksFit
  <2> QED
    BY <1>1, <2>1, <2>2
<1>7. TypedFits(Record(kind, c))
  <2> DEFINE r == Record(kind, c)
  <2>1. ~r.everOpened /\ r.kind = kind /\ (r.kind = "session" => r.pending = <<"init">>)
    BY RecordTypes
  <2> HIDE DEF r
  <2>2. TypedFits(r)
    BY <2>1 DEF TypedFits
  <2> QED
    BY <2>2 DEF r
<1>8. FitsNext(ch)
  <2>1. channels'[ch] = Record(kind, c)
    BY <1>1, <1>2 DEF ChannelTypes
  <2>2. StreamFits(Record(kind, c), clients') /\ ShellsFit(Record(kind, c), ch, shells')
    BY <1>1, <1>4, RecordTypes DEF StreamFits, ShellsFit
  <2> QED
    BY <1>6, <1>7, <2>1, <2>2 DEF FitsNext, Fits
<1>9. \A x \in ChannelIds \ {ch} : \A k \in ClientIds :
         <<k, x>> \in requests' => <<k, x>> \in requests
  BY <1>1 DEF Asked
<1> QED
  BY <1>1, <1>2, <1>5, <1>8, <1>9, OthersFit DEF RestTypes

LEMMA SendDataFits ==
    ASSUME ManagerInv, NEW any \in ClientIds, NEW ch \in ChannelIds, SendData(ch)
    PROVE  ChannelsOK'
<1> SUFFICES ASSUME ~channels[ch].announced PROVE ChannelsOK'
  BY AnnouncedFits DEF TakesOne
<1>1. ChannelTypes /\ ChannelsOK /\ RestTypes /\ channels[ch] \in Channel
  BY DEF ManagerInv, CoreInv, BaseCore, ChannelCore, ChannelTypes
<1>2. Steady /\ clients' = clients /\ requests' = requests
  BY DEF Steady, SendData
<1>3. Fits(channels[ch], ch, requests, shells, clients)
  BY <1>1 DEF ChannelsOK
<1>4. CASE channels[ch].stream # 0
  <2> DEFINE k == channels[ch].stream
             run == IF shells[<<k, ch>>] = "fresh" THEN "bare" ELSE shells[<<k, ch>>]
  <2>1. k \in ClientIds
    BY <1>1, <1>4, StreamIsClient
  <2>2. channels' = channels /\ shells' = [shells EXCEPT ![<<k, ch>>] = run]
    BY <1>4 DEF SendData
  <2>3. ShellsFit(channels[ch], ch, shells')
    BY <1>1, <1>3, <2>1, <2>2 DEF Fits, ShellsFit, RestTypes
  <2>4. FitsNext(ch)
    BY <1>2, <1>3, <2>2, <2>3 DEF FitsNext, Fits
  <2>5. channels' = [channels EXCEPT ![ch] = channels[ch]]
    BY <1>1, <2>2 DEF ChannelTypes
  <2> HIDE DEF run, k
  <2> QED
    BY <1>1, <1>2, <2>1, <2>2, <2>4, <2>5, OthersFit DEF RestTypes
<1>5. CASE channels[ch].stream = 0
  <2> DEFINE w == Append(channels[ch].pending, "input")
             r == [channels[ch] EXCEPT !.pending = w]
  <2>1. channels' = [channels EXCEPT ![ch] = r] /\ shells' = shells
    BY <1>1, <1>5 DEF SendData, ChannelTypes
  <2>2. channels[ch].pending \in Seq({"init", "input"})
    BY <1>1 DEF Channel
  <2>3. /\ w # <<>> /\ DOMAIN w = 1..(Len(channels[ch].pending) + 1)
        /\ \A i \in DOMAIN w : \/ i \in DOMAIN channels[ch].pending /\ w[i] = channels[ch].pending[i]
                               \/ w[i] = "input" /\ i = Len(channels[ch].pending) + 1
    BY <2>2
  <2>4. channels[ch].pending # <<>> => 1 \in DOMAIN channels[ch].pending /\ w[1] = channels[ch].pending[1]
    BY <2>2
  <2> HIDE DEF w
  <2>5. /\ r.pending = w /\ r.stream = 0 /\ r.home = channels[ch].home /\ r.kind = channels[ch].kind
        /\ r.everOpened = channels[ch].everOpened /\ r.closed = channels[ch].closed
    BY <1>1, <1>5 DEF Channel
  <2> HIDE DEF r
  <2>6. TypedFits(r)
    BY <1>3, <2>3, <2>4, <2>5 DEF Fits, TypedFits
  <2>7. channels'[ch] = r
    BY <1>1, <2>1 DEF ChannelTypes
  <2>8. FitsNext(ch)
    BY <1>2, <1>3, <1>5, <2>1, <2>5, <2>6, <2>7 DEF FitsNext, Fits, AsksFit, StreamFits, ShellsFit
  <2> QED
    BY <1>1, <1>2, <2>1, <2>8, OthersFit DEF RestTypes
<1> QED
  BY <1>4, <1>5

LEMMA CloseChannelFits ==
    ASSUME ManagerInv, NEW any \in ClientIds, NEW ch \in ChannelIds, CloseChannel(ch)
    PROVE  ChannelsOK'
<1> SUFFICES ASSUME ~channels[ch].announced PROVE ChannelsOK'
  BY AnnouncedFits DEF TakesOne
<1>1. ChannelTypes /\ ChannelsOK /\ RestTypes /\ channels[ch] \in Channel
  BY DEF ManagerInv, CoreInv, BaseCore, ChannelCore, ChannelTypes
<1>2. Steady /\ clients' = clients /\ requests' = requests
  BY DEF Steady, CloseChannel
<1>3. Fits(channels[ch], ch, requests, shells, clients)
  BY <1>1 DEF ChannelsOK
<1>4. channels' = [channels EXCEPT ![ch] = Closed(channels[ch])]
  BY <1>1 DEF CloseChannel, ChannelTypes
<1>5. shells' = shells \/ \E k \in ClientIds : shells' = [shells EXCEPT ![<<k, ch>>] = "none"]
  BY <1>1, StreamIsClient DEF CloseChannel
<1>6. \A k \in ClientIds : shells'[<<k, ch>>] = "none"
  <2>1. CASE channels[ch].stream = 0
    BY <1>1, <2>1, Quiet DEF CloseChannel
  <2>2. CASE channels[ch].stream # 0
    <3>1. /\ channels[ch].stream \in ClientIds
          /\ shells' = [shells EXCEPT ![<<channels[ch].stream, ch>>] = "none"]
      BY <1>1, <2>2, StreamIsClient DEF CloseChannel
    <3> QED
      BY <1>1, <1>3, <3>1 DEF RestTypes, Fits, ShellsFit
  <2> QED
    BY <2>1, <2>2
<1>7. FitsNext(ch)
  <2>1. channels'[ch] = Closed(channels[ch])
    BY <1>1, <1>4 DEF ChannelTypes
  <2>2. AsksFit(Closed(channels[ch]), ch, requests', clients')
    BY <1>1, <1>2, <1>3, ClosedTypes DEF Fits, AsksFit
  <2>3. StreamFits(Closed(channels[ch]), clients') /\ TypedFits(Closed(channels[ch]))
    BY <1>1, ClosedTypes DEF StreamFits, TypedFits
  <2>4. ShellsFit(Closed(channels[ch]), ch, shells')
    BY <1>6 DEF ShellsFit
  <2> QED
    BY <2>1, <2>2, <2>3, <2>4 DEF FitsNext, Fits
<1> QED
  BY <1>1, <1>2, <1>4, <1>5, <1>7, OthersFit DEF RestTypes

LEMMA DisconnectFits ==
    ASSUME ManagerInv, Disconnect
    PROVE  ChannelsOK'
<1>1. NetCore /\ NetOK /\ ChannelCore /\ ChannelTypes /\ ChannelsOK /\ RestTypes
  BY DEF ManagerInv, CoreInv, BaseCore, ChannelCore
<1>2. \A k \in ClientIds : /\ clients'[k].conn = clients[k].conn
                           /\ clients[k].phase \in {"ready", "ending"} =>
                                clients'[k].phase \in {"ready", "ending"}
  BY <1>1, DisconnectRows
<1>3. requests' = requests
  BY DEF Disconnect
<1> SUFFICES ASSUME NEW ch \in ChannelIds PROVE FitsNext(ch)
  BY DEF ChannelsOK, FitsNext
<1> SUFFICES ASSUME ~channels[ch].announced PROVE FitsNext(ch)
  <2>1. channels[ch] \in Channel /\ channels'[ch] \in {channels[ch], Closed(channels[ch])}
    BY <1>1, DisconnectChannels DEF ChannelTypes
  <2> QED
    BY <2>1, ClosedTypes DEF FitsNext
<1>4. Fits(channels[ch], ch, requests, shells, clients) /\ channels[ch] \in Channel
  BY <1>1 DEF ChannelsOK, ChannelTypes
<1>5. \A k \in ClientIds : shells'[<<k, ch>>] =
         IF channels[ch].home \in Pool /\ channels[ch].stream = k THEN "none" ELSE shells[<<k, ch>>]
  BY DEF Disconnect
<1>6. CASE channels[ch].home \in Pool
  <2>1. channels'[ch] = Closed(channels[ch])
    BY <1>1, <1>6, DisconnectChannels
  <2>2. AsksFit(Closed(channels[ch]), ch, requests', clients')
    BY <1>2, <1>3, <1>4, ClosedTypes DEF Fits, AsksFit
  <2>3. StreamFits(Closed(channels[ch]), clients') /\ TypedFits(Closed(channels[ch]))
    BY <1>4, ClosedTypes DEF StreamFits, TypedFits
  <2>4. ShellsFit(Closed(channels[ch]), ch, shells')
    BY <1>4, <1>5, <1>6 DEF Fits, ShellsFit
  <2> QED
    BY <2>1, <2>2, <2>3, <2>4 DEF FitsNext, Fits
<1>7. CASE channels[ch].home \notin Pool
  <2>1. channels'[ch] = channels[ch]
    BY <1>1, <1>7, DisconnectChannels
  <2>2. channels[ch].stream = 0
    <3> SUFFICES ASSUME channels[ch].stream # 0 PROVE FALSE
      OBVIOUS
    <3>1. /\ channels[ch].stream \in ClientIds
          /\ clients[channels[ch].stream].phase = "ready"
          /\ clients[channels[ch].stream].conn = channels[ch].home
      BY <1>1, <1>4, StreamIsClient DEF Fits, StreamFits
    <3>2. channels[ch].home \in ConnIds /\ Made(channels[ch].home)
      BY <1>1, <3>1 DEF NetCore, Served
    <3>3. conns[channels[ch].home].disposed
      BY <1>7, <3>2 DEF Pool
    <3>4. conns[channels[ch].home].client = channels[ch].stream
      BY <1>1, <3>1 DEF NetOK, Current
    <3> QED
      BY <1>1, <3>1, <3>2, <3>3, <3>4 DEF NetOK, Ended
  <2>3. AsksFit(channels[ch], ch, requests', clients')
    BY <1>2, <1>3, <1>4 DEF Fits, AsksFit
  <2>4. StreamFits(channels[ch], clients') /\ ShellsFit(channels[ch], ch, shells')
    BY <1>4, <1>5, <1>7, <2>2 DEF StreamFits, Fits, ShellsFit
  <2> QED
    BY <1>4, <2>1, <2>3, <2>4 DEF FitsNext, Fits
<1> QED
  BY <1>6, <1>7

(* A Client that was dialling has no stream and no request: at its 'ready'  *)
(* the channels of its connection wait.                                     *)
LEMMA ReadyFits ==
    ASSUME ManagerInv, NEW k \in ClientIds, Ready(k)
    PROVE  ChannelsOK' /\ Hushed'
<1>1. NetCore /\ NetOK /\ ChannelTypes /\ ChannelsOK
  BY DEF ManagerInv, CoreInv, BaseCore, ChannelCore
<1> DEFINE c == clients[k].conn
<1>2. c \in ConnIds /\ Made(c)
  BY <1>1, ReadyWires
<1>3. clients[k].phase = "dialing" /\ conns[c].client = k
  BY <1>1 DEF Ready, NetOK, Current
<1>4. \A j \in ClientIds \ {k} : clients'[j] = clients[j]
  BY <1>1 DEF Ready, NetCore, NetTypes
<1>5. Steady
  BY <1>3, <1>4 DEF Steady
<1>6. announcing' = c /\ UNCHANGED <<channels, requests, shells>>
  BY DEF Ready
<1>7. ChannelsOK'
  BY <1>1, <1>5, <1>6, AllFitStill
<1>8. conns'[c].state = "connected" /\ conns'[c].client = k
  BY <1>1, <1>2, <1>3 DEF Ready, NetCore, NetTypes, Conn
<1>9. ASSUME NEW ch \in ChannelIds, ~channels[ch].announced, channels[ch].home = c
      PROVE  channels[ch].stream = 0 /\ <<k, ch>> \notin requests
  <2>1. Fits(channels[ch], ch, requests, shells, clients)
    BY <1>1, <1>9 DEF ChannelsOK
  <2>2. <<k, ch>> \notin requests
    BY <1>3, <2>1 DEF Fits, AsksFit
  <2>3. ASSUME channels[ch].stream # 0 PROVE FALSE
    <3>1. /\ channels[ch].stream \in ClientIds
          /\ clients[channels[ch].stream].phase = "ready"
          /\ clients[channels[ch].stream].conn = c
      BY <1>1, <1>9, <2>1, <2>3, StreamIsClient DEF Fits, StreamFits
    <3>2. conns[c].client = channels[ch].stream
      BY <1>1, <3>1 DEF NetOK, Current
    <3> QED
      BY <1>3, <3>1, <3>2
  <2> QED
    BY <2>2, <2>3
<1> HIDE DEF c
<1>10. Hushed'
  BY <1>6, <1>8, <1>9 DEF Hushed
<1> QED
  BY <1>7, <1>10

(* The loop: the channels that waited ask now, of a Client that is up.      *)
LEMMA ReopensFits ==
    ASSUME ManagerInv, NEW c \in ConnIds, Reopens(c)
    PROVE  ChannelsOK' /\ SingleOK'
<1>1. NetCore /\ NetOK /\ ChannelTypes /\ ChannelsOK /\ SingleOK /\ Made(c)
  BY Ids DEF ManagerInv, CoreInv, BaseCore, ChannelCore, EventCore, Reopens
<1> DEFINE k == conns[c].client
           asks == {k} \X Registered(channels, c)
<1>2. /\ UNCHANGED <<clients, channels, shells, strays>>
      /\ requests' = requests \cup asks /\ again' = again \cup (asks \cap requests)
  BY DEF Reopens
<1>3. k \in ClientIds /\ clients[k].conn = c /\ clients[k].phase = "ready"
  BY <1>1, Ids DEF NetCore, Staffed, NetOK, Up, ManagerInv, Hushed, Reopens
<1>4. ASSUME NEW ch \in ChannelIds, ~channels[ch].announced, channels[ch].home = c
      PROVE  channels[ch].stream = 0 /\ <<k, ch>> \notin requests
  BY <1>4, Ids DEF ManagerInv, Hushed, Reopens
<1>5. Steady
  BY <1>2 DEF Steady
<1>6. ASSUME NEW ch \in ChannelIds, NEW j \in ClientIds, <<j, ch>> \in asks
      PROVE  j = k /\ channels[ch].home = c
  BY <1>6 DEF Registered
<1> HIDE DEF asks, k
<1>7. ASSUME NEW ch \in ChannelIds PROVE FitsNext(ch)
  <2> SUFFICES ASSUME ~channels[ch].announced
               PROVE  Fits(channels[ch], ch, requests', shells, clients)
    BY <1>2 DEF FitsNext
  <2>1. Fits(channels[ch], ch, requests, shells, clients)
    BY <1>1 DEF ChannelsOK
  <2>2. AsksFit(channels[ch], ch, requests', clients)
    BY <1>2, <1>3, <1>4, <1>6, <2>1 DEF Fits, AsksFit
  <2> QED
    BY <2>1, <2>2 DEF Fits
<1>8. SingleOK'
  BY <1>1, <1>2, <1>4, <1>6 DEF SingleOK
<1> QED
  BY <1>7, <1>8 DEF ChannelsOK, FitsNext

LEMMA CloseFits ==
    ASSUME ManagerInv, NEW k \in ClientIds, clients[k].phase \notin {"none", "closed"},
           ClientCloses(k)
    PROVE  ChannelsOK'
<1>1. NetCore /\ NetTypes /\ NetOK /\ ChannelTypes /\ ChannelsOK /\ RestTypes
  BY DEF ManagerInv, CoreInv, BaseCore, ChannelCore, NetCore
<1> DEFINE c == clients[k].conn
<1>2. c \in ConnIds /\ conns[c].client = k
  BY <1>1 DEF NetCore, Served, NetOK, Current
<1>3. /\ \A j \in ClientIds \ {k} : clients'[j] = clients[j]
      /\ requests' = requests \ ({k} \X ChannelIds)
  BY <1>1 DEF ClientCloses, NetTypes
<1>4. \A j \in ClientIds, x \in ChannelIds :
         shells'[<<j, x>>] = IF j = k THEN "none" ELSE shells[<<j, x>>]
  BY DEF ClientCloses
<1>5. \A j \in ClientIds :
         clients[j].phase \in {"ready", "ending"} /\ clients[j].conn = c => j = k
  BY <1>1, <1>2 DEF NetOK, Current
<1> SUFFICES ASSUME NEW ch \in ChannelIds PROVE FitsNext(ch)
  BY DEF ChannelsOK, FitsNext
<1> SUFFICES ASSUME ~channels[ch].announced PROVE FitsNext(ch)
  BY <1>1, CloseLeaves DEF FitsNext
<1>6. Fits(channels[ch], ch, requests, shells, clients) /\ channels[ch] \in Channel
  BY <1>1 DEF ChannelsOK, ChannelTypes
<1>7. /\ channels'[ch].kind = channels[ch].kind
      /\ channels'[ch].stream = IF channels'[ch].home = c THEN 0 ELSE channels[ch].stream
      /\ channels'[ch].everOpened = channels[ch].everOpened
      /\ channels'[ch].pending = channels[ch].pending
      /\ channels'[ch].closed = channels[ch].closed
      /\ channels'[ch].home = channels[ch].home
           \/ /\ channels'[ch].home = 0
              /\ channels[ch].home = c /\ <<k, ch>> \in requests
  <2>1. /\ channels'[ch].kind = channels[ch].kind
        /\ channels'[ch].home = Abandoned(k, ch).home
        /\ channels'[ch].stream = IF Abandoned(k, ch).home = clients[k].conn THEN 0
                                                             ELSE channels[ch].stream
        /\ channels'[ch].everOpened = channels[ch].everOpened
        /\ channels'[ch].pending = channels[ch].pending
        /\ channels'[ch].closed = channels[ch].closed
    BY <1>1, CloseLeaves
  <2>2. Abandoned(k, ch).home = channels[ch].home
          \/ /\ Abandoned(k, ch).home = 0
             /\ channels[ch].home = clients[k].conn /\ <<k, ch>> \in requests
    BY <1>1, CloseLeaves
  <2> QED
    BY <2>1, <2>2
<1>8. channels[ch].stream # 0 /\ channels'[ch].stream # 0 =>
         /\ channels[ch].stream \in ClientIds \ {k} /\ channels'[ch].home = channels[ch].home
  <2> SUFFICES ASSUME channels[ch].stream # 0, channels'[ch].stream # 0
               PROVE  channels[ch].stream \in ClientIds \ {k} /\ channels'[ch].home = channels[ch].home
    OBVIOUS
  <2>1. channels[ch].stream \in ClientIds /\ clients[channels[ch].stream].conn = channels[ch].home
    BY <1>1, <1>6, StreamIsClient DEF Fits, StreamFits
  <2>2. channels'[ch].home = channels[ch].home
    BY <1>6, <1>7 DEF Fits, AsksFit
  <2> QED
    BY <1>7, <2>1, <2>2
<1>9. AsksFit(channels'[ch], ch, requests', clients')
  <2> SUFFICES ASSUME NEW j \in ClientIds, <<j, ch>> \in requests'
               PROVE  /\ clients'[j].phase \in {"ready", "ending"}
                      /\ channels'[ch].stream = 0
                      /\ channels'[ch].home = clients'[j].conn \/ channels'[ch].closed
    BY DEF AsksFit
  <2>1. j # k /\ <<j, ch>> \in requests /\ clients'[j] = clients[j]
    BY <1>3
  <2>2. /\ clients[j].phase \in {"ready", "ending"} /\ channels[ch].stream = 0
        /\ channels[ch].home = clients[j].conn \/ channels[ch].closed
    BY <1>6, <2>1 DEF Fits, AsksFit
  <2> QED
    BY <1>5, <1>7, <2>1, <2>2
<1>10. StreamFits(channels'[ch], clients')
  BY <1>3, <1>6, <1>7, <1>8 DEF Fits, StreamFits
<1>11. ShellsFit(channels'[ch], ch, shells')
  <2> SUFFICES ASSUME NEW j \in ClientIds, shells'[<<j, ch>>] # "none"
               PROVE  /\ channels'[ch].stream = j
                      /\ channels'[ch].kind = "session" => shells'[<<j, ch>>] = "attached"
    BY DEF ShellsFit
  <2>1. j # k /\ shells'[<<j, ch>>] = shells[<<j, ch>>] /\ channels[ch].stream = j /\ j # 0
        /\ (channels[ch].kind = "session" => shells[<<j, ch>>] = "attached")
    BY <1>4, <1>6, Ids DEF Fits, ShellsFit
  <2>2. clients[j].phase = "ready" /\ clients[j].conn = channels[ch].home
    BY <1>6, <2>1 DEF Fits, StreamFits
  <2>3. channels'[ch].home # c
    BY <1>2, <1>5, <1>7, <2>1, <2>2, Ids
  <2> QED
    BY <1>7, <2>1, <2>3
<1>12. TypedFits(channels'[ch])
  BY <1>6, <1>7 DEF Fits, TypedFits
<1> QED
  BY <1>9, <1>10, <1>11, <1>12 DEF FitsNext, Fits

(* What an opening types into the shell of a session: its attach command,   *)
(* and it alone of its kind.                                                *)
LEMMA SessionIsAttached ==
    ASSUME NEW r \in Channel, r.kind = "session", ~r.closed, TypedFits(r)
    PROVE  ModeOf(Replayed(r) \o r.pending) = "attached"
<1>1. r.pending \in Seq({"init", "input"})
  BY DEF Channel
<1>2. CASE r.everOpened
  <2> DEFINE w == <<"init">> \o r.pending
  <2>1. Replayed(r) \o r.pending = w
    BY <1>2 DEF Replayed
  <2>2. /\ w # <<>> /\ w[1] = "init" /\ Len(w) = Len(r.pending) + 1
        /\ \A i \in 2..Len(w) : i - 1 \in DOMAIN r.pending /\ w[i] = r.pending[i - 1]
    BY <1>1
  <2>3. \A i \in 2..Len(w) : w[i] # "init"
    BY <1>2, <2>2 DEF TypedFits
  <2> HIDE DEF w
  <2> QED
    BY <2>1, <2>2, <2>3 DEF ModeOf
<1>3. CASE ~r.everOpened
  <2>1. Replayed(r) \o r.pending = r.pending
    BY <1>1, <1>3 DEF Replayed
  <2>2. r.pending # <<>> /\ r.pending[1] = "init"
    BY <1>3 DEF TypedFits
  <2>3. \A i \in 2..Len(r.pending) : r.pending[i] # "init"
    BY <1>1, <1>3 DEF TypedFits
  <2> QED
    BY <2>1, <2>2, <2>3 DEF ModeOf
<1> QED
  BY <1>2, <1>3

LEMMA ShellOpensFits ==
    ASSUME ManagerInv, NEW k \in ClientIds, NEW ch \in ChannelIds, ShellOpens(k, ch)
    PROVE  ChannelsOK'
<1> SUFFICES ASSUME ~channels[ch].announced PROVE ChannelsOK'
  BY AnnouncedFits DEF TakesOne
<1>1. NetCore /\ NetOK /\ ChannelTypes /\ ChannelsOK /\ RestTypes /\ channels[ch] \in Channel
  BY DEF ManagerInv, CoreInv, BaseCore, ChannelCore, ChannelTypes
<1> DEFINE c == clients[k].conn
           record == channels[ch]
           run == ModeOf(Replayed(record) \o record.pending)
<1>2. Steady /\ clients' = clients /\ requests' = requests \ {<<k, ch>>} /\ <<k, ch>> \in requests
  BY LeftTypes DEF Steady, ShellOpens, Answers, Answered, ManagerInv, SingleOK
<1>3. CASE record.closed \/ conns[c].disposed \/ record.home # c
  BY <1>1, <1>2, <1>3, AllFitStill DEF ShellOpens
<1>4. CASE ~record.closed /\ ~conns[c].disposed /\ record.home = c
  <2>1. channels' = [channels EXCEPT ![ch] = Opened(record, k)]
        /\ shells' = [shells EXCEPT ![<<k, ch>>] = run]
    BY <1>1, <1>4 DEF ShellOpens
  <2>2. Fits(record, ch, requests, shells, clients)
    BY <1>1 DEF ChannelsOK
  <2>3. clients[k].phase \in {"ready", "ending"} /\ record.stream = 0
    BY <1>2, <2>2 DEF Fits, AsksFit
  <2>4. clients[k].phase = "ready"
    BY <1>1, <1>4, <2>3 DEF NetOK, Current
  <2>5. \A j \in ClientIds : <<j, ch>> \notin requests'
    BY <1>1, <1>2, <1>4, OneAsks
  <2>6. \A j \in ClientIds \ {k} : shells'[<<j, ch>>] = "none"
    BY <1>1, <2>1, <2>3, Quiet
  <2>7. record.kind = "session" => run = "attached"
    BY <1>1, <1>4, <2>2, SessionIsAttached DEF Fits
  <2>8. shells'[<<k, ch>>] = run
    BY <1>1, <2>1 DEF RestTypes
  <2> HIDE DEF run
  <2>9. channels'[ch] = Opened(record, k)
    BY <1>1, <2>1 DEF ChannelTypes
  <2> DEFINE r == Opened(record, k)
  <2>10. /\ r.kind = record.kind /\ r.home = c /\ r.stream = k /\ r.everOpened
         /\ r.pending = <<>> /\ r.closed = record.closed
    BY <1>1, <1>4, OpenedTypes
  <2> HIDE DEF r
  <2>11. AsksFit(r, ch, requests', clients')
    BY <2>5 DEF AsksFit
  <2>12. StreamFits(r, clients') /\ ShellsFit(r, ch, shells') /\ TypedFits(r)
    BY <1>2, <2>4, <2>6, <2>7, <2>8, <2>10 DEF StreamFits, ShellsFit, TypedFits
  <2>13. FitsNext(ch)
    BY <2>9, <2>11, <2>12 DEF FitsNext, Fits, r
  <2> QED
    BY <1>1, <1>2, <2>1, <2>13, OthersFit DEF RestTypes
<1> QED
  BY <1>3, <1>4

(* A channel that does not open: a query is forgotten.                      *)
LEMMA UnopenedFits ==
    ASSUME ManagerInv, NEW k \in ClientIds, NEW ch \in ChannelIds, ~channels[ch].announced,
           <<k, ch>> \in requests, requests' = requests \ {<<k, ch>>},
           channels' = [channels EXCEPT ![ch] = Unopened(channels[ch], clients[k].conn)],
           UNCHANGED <<clients, shells>>
    PROVE  ChannelsOK'
<1>1. NetCore /\ NetOK /\ ChannelTypes /\ ChannelsOK /\ RestTypes /\ channels[ch] \in Channel
  BY DEF ManagerInv, CoreInv, BaseCore, ChannelCore, ChannelTypes
<1>2. Steady
  BY DEF Steady
<1>3. Fits(channels[ch], ch, requests, shells, clients)
  BY <1>1 DEF ChannelsOK
<1> DEFINE r == Unopened(channels[ch], clients[k].conn)
<1>4. /\ r.kind = channels[ch].kind /\ r.stream = 0 /\ channels[ch].stream = 0
      /\ r.everOpened = channels[ch].everOpened /\ r.pending = channels[ch].pending
      /\ r.closed = channels[ch].closed
  BY <1>1, <1>3, UnopenedTypes DEF Fits, AsksFit
<1>5. channels'[ch] = r
  BY <1>1 DEF ChannelTypes
<1>6. AsksFit(r, ch, requests', clients')
  <2>1. CASE channels[ch].closed
    BY <1>3, <1>4, <2>1 DEF Fits, AsksFit
  <2>2. CASE ~channels[ch].closed
    <3>1. \A j \in ClientIds : <<j, ch>> \notin requests'
      BY <1>1, <2>2, OneAsks
    <3> QED
      BY <3>1 DEF AsksFit
  <2> QED
    BY <2>1, <2>2
<1> HIDE DEF r
<1>7. StreamFits(r, clients') /\ ShellsFit(r, ch, shells') /\ TypedFits(r)
  BY <1>3, <1>4 DEF Fits, StreamFits, ShellsFit, TypedFits
<1>8. FitsNext(ch)
  BY <1>5, <1>6, <1>7 DEF FitsNext, Fits
<1> QED
  BY <1>1, <1>2, <1>8, OthersFit DEF RestTypes, r

LEMMA RemoteClosesFits ==
    ASSUME ManagerInv, NEW k \in ClientIds, NEW ch \in ChannelIds, RemoteCloses(k, ch)
    PROVE  ChannelsOK'
<1> SUFFICES ASSUME ~channels[ch].announced PROVE ChannelsOK'
  BY AnnouncedFits DEF TakesOne
<1>1. ChannelTypes /\ ChannelsOK /\ RestTypes /\ channels[ch] \in Channel
  BY DEF ManagerInv, CoreInv, BaseCore, ChannelCore, ChannelTypes
<1>2. Steady /\ clients' = clients /\ requests' = requests
      /\ shells' = [shells EXCEPT ![<<k, ch>>] = "none"] /\ shells[<<k, ch>>] # "none"
  BY DEF Steady, RemoteCloses
<1>3. Fits(channels[ch], ch, requests, shells, clients)
  BY <1>1 DEF ChannelsOK
<1>4. channels[ch].stream = k /\ k # 0 /\ channels[ch].home = clients[k].conn
  BY <1>2, <1>3, Ids DEF Fits, ShellsFit, StreamFits
<1> DEFINE r == [channels[ch] EXCEPT !.stream = 0]
<1>5. channels' = [channels EXCEPT ![ch] = r]
  BY <1>1, <1>4 DEF RemoteCloses, ChannelTypes
<1>6. /\ r.kind = channels[ch].kind /\ r.stream = 0
      /\ r.everOpened = channels[ch].everOpened /\ r.pending = channels[ch].pending
      /\ r.closed = channels[ch].closed
  BY <1>1 DEF Channel
<1> HIDE DEF r
<1>7. \A j \in ClientIds : <<j, ch>> \notin requests
  BY <1>3, <1>4 DEF Fits, AsksFit
<1>8. \A j \in ClientIds : shells'[<<j, ch>>] = "none"
  BY <1>1, <1>2, <1>3, <1>4 DEF RestTypes, Fits, ShellsFit
<1>9. /\ AsksFit(r, ch, requests', clients') /\ StreamFits(r, clients')
      /\ ShellsFit(r, ch, shells') /\ TypedFits(r)
  BY <1>2, <1>3, <1>6, <1>7, <1>8 DEF AsksFit, Fits, StreamFits, ShellsFit, TypedFits
<1>10. channels'[ch] = r
  BY <1>1, <1>5 DEF ChannelTypes
<1>11. FitsNext(ch)
  BY <1>9, <1>10 DEF FitsNext, Fits
<1> QED
  BY <1>1, <1>2, <1>5, <1>11, OthersFit DEF RestTypes

LEMMA RefusedFits ==
    ASSUME ManagerInv, NEW k \in ClientIds, NEW ch \in ChannelIds, ShellRefused(k, ch)
    PROVE  ChannelsOK'
<1> SUFFICES ASSUME ~channels[ch].announced PROVE ChannelsOK'
  BY AnnouncedFits DEF TakesOne
<1>1. NetCore /\ NetOK /\ ChannelTypes /\ ChannelsOK /\ RestTypes /\ channels[ch] \in Channel
  BY DEF ManagerInv, CoreInv, BaseCore, ChannelCore, ChannelTypes
<1> DEFINE c == clients[k].conn
<1>2. <<k, ch>> \in requests /\ UNCHANGED shells /\ Left(k, ch) = requests \ {<<k, ch>>}
  BY RefusedRest, LeftTypes DEF ManagerInv, SingleOK
<1>3. CASE ~Relocatable(c, channels[ch])
  <2>1. /\ channels' = [channels EXCEPT ![ch] = Unopened(channels[ch], c)]
        /\ requests' = requests \ {<<k, ch>>} /\ UNCHANGED clients
    BY <1>1, <1>2, <1>3, RefusedRest DEF ChannelTypes
  <2> QED
    BY <1>2, <2>1, UnopenedFits
<1>4. CASE Relocatable(c, channels[ch])
  <2>1. PICK t \in ConnIds : Relocates(k, ch, t)
    BY <1>1, <1>4, RefusalRelocates
  <2>2. Fits(channels[ch], ch, requests, shells, clients)
    BY <1>1 DEF ChannelsOK
  <2>3. channels[ch].stream = 0 /\ ~channels[ch].closed
    BY <1>2, <1>4, <2>2 DEF Fits, AsksFit, Relocatable
  <2>4. \A j \in ClientIds : <<j, ch>> \in requests => j = k
    BY <1>1, <1>2, <2>3, OneAsks
  <2>5. Steady
    BY <1>1, <2>1, SpawnIsSteady DEF Relocates, RestTypes, Steady
  <2> DEFINE r == channels'[ch]
  <2>6. /\ channels' = [channels EXCEPT ![ch] = r]
        /\ r.kind = channels[ch].kind /\ r.stream = 0
        /\ r.everOpened = channels[ch].everOpened /\ r.pending = channels[ch].pending
        /\ r.closed = channels[ch].closed
        /\ t # c => r.home = t
    <3> DEFINE h == Rehomed(ch, t)
    <3>1. /\ h \in Channel
          /\ h.kind = channels[ch].kind /\ h.home = t /\ h.stream = 0
          /\ h.everOpened = channels[ch].everOpened /\ h.pending = channels[ch].pending
          /\ h.closed = channels[ch].closed
      BY <1>1, <1>4, <2>3, RehomedTypes
    <3>2. \/ channels' = [channels EXCEPT ![ch] = h]
          \/ t = c /\ channels' = [channels EXCEPT ![ch] = Unopened(h, c)]
      BY <2>1 DEF Relocates
    <3> HIDE DEF h
    <3>3. CASE channels' = [channels EXCEPT ![ch] = h]
      BY <1>1, <3>1, <3>3 DEF ChannelTypes
    <3>4. CASE t = c /\ channels' = [channels EXCEPT ![ch] = Unopened(h, c)]
      <4>1. r = Unopened(h, c)
        BY <1>1, <3>4 DEF ChannelTypes
      <4>2. /\ Unopened(h, c).kind = h.kind /\ Unopened(h, c).stream = h.stream
            /\ Unopened(h, c).everOpened = h.everOpened /\ Unopened(h, c).pending = h.pending
            /\ Unopened(h, c).closed = h.closed
        BY <3>1, UnopenedTypes
      <4> QED
        BY <3>1, <3>4, <4>1, <4>2
    <3> QED
      BY <3>2, <3>3, <3>4
  <2>7. AsksFit(r, ch, requests', clients')
    <3>1. CASE requests' = requests \ {<<k, ch>>}
      BY <2>4, <3>1 DEF AsksFit
    <3>2. CASE /\ t # c /\ t \in RoomFor(ch, c) /\ UNCHANGED clients
               /\ requests' = (requests \ {<<k, ch>>}) \cup Asked(t, ch)
      <4>1. Made(t)
        BY <3>2, RoomIsPool DEF RoomFor
      <4>2. \A j \in ClientIds : <<j, ch>> \in requests' =>
               clients[j].phase = "ready" /\ clients[j].conn = t
        BY <1>1, <2>4, <3>2, <4>1, AskedFits
      <4> QED
        BY <2>6, <3>2, <4>2 DEF AsksFit
    <3> QED
      BY <1>2, <2>1, <3>1, <3>2 DEF Relocates
  <2>8. \A x \in ChannelIds \ {ch} : \A j \in ClientIds :
           <<j, x>> \in requests' => <<j, x>> \in requests
    BY <1>2, <2>1 DEF Relocates, Asked
  <2>9. StreamFits(r, clients') /\ ShellsFit(r, ch, shells') /\ TypedFits(r)
    BY <1>2, <2>2, <2>3, <2>6 DEF Fits, StreamFits, ShellsFit, TypedFits
  <2>10. FitsNext(ch)
    BY <2>7, <2>9 DEF FitsNext, Fits
  <2> HIDE DEF r
  <2> QED
    BY <1>1, <1>2, <2>5, <2>6, <2>8, <2>10, OthersFit DEF RestTypes
<1> QED
  BY <1>3, <1>4

-------------------------------------------------------------------------------
(* Who asks twice, and what waits for the end of the event.                 *)

(* Records keep their mark, and a new one was blank.                        *)
LEMMA MarksLast ==
    ASSUME CoreInv, Next, NEW ch \in ChannelIds, ~channels'[ch].announced
    PROVE  ~channels[ch].announced
<1>1. NetTypes /\ ChannelTypes /\ channels \in [ChannelIds -> Channel] /\ channels[ch] \in Channel
  BY DEF CoreInv, BaseCore, NetCore, ChannelCore, ChannelTypes
<1>2. CASE channels' = channels
  BY <1>2
<1>3. ASSUME NEW kind \in Kinds, OpenChannel(kind) PROVE ~channels[ch].announced
  <2>1. PICK x \in ChannelIds, c \in ConnIds :
           channels[x].kind = "none" /\ channels' = [channels EXCEPT ![x] = Record(kind, c)]
    BY <1>3, OpenChannelOpens
  <2>2. ~channels[x].announced
    BY <2>1 DEF CoreInv, BaseCore, ChannelCore, Blank, NoChannel
  <2> QED
    BY <1>1, <2>1, <2>2
<1>4. ASSUME NEW k \in ClientIds, NEW x \in ChannelIds, TakesOne(k, x) PROVE ~channels[ch].announced
  BY <1>1, <1>4, TakenRecord
<1>5. ASSUME NEW x \in ChannelIds, SendData(x) \/ CloseChannel(x) PROVE ~channels[ch].announced
  <2>1. channels[x] \in Channel /\ channels[x].home # 0
    BY <1>1, <1>5 DEF SendData, CloseChannel
  <2>2. channels[x].home \in ConnIds /\ Made(channels[x].home)
    BY <2>1, Ids DEF Channel, CoreInv, BaseCore, ChannelCore, Housed
  <2>3. conns[channels[x].home].client \in ClientIds
    BY <2>2 DEF CoreInv, BaseCore, NetCore, Staffed
  <2> QED
    BY <1>4, <1>5, <2>3 DEF TakesOne
<1>6. CASE Disconnect
  BY <1>1, <1>6, DisconnectChannels, ClosedTypes
<1>7. ASSUME NEW k \in ClientIds, Closes(k) \/ Drops(k) PROVE ~channels[ch].announced
  BY <1>1, <1>7, CloseLeaves DEF Closes, Drops
<1>8. ASSUME NEW k \in ClientIds, Ready(k) \/ HandshakeFails(k) PROVE channels' = channels
  BY <1>8 DEF Ready, HandshakeFails
<1>9. ASSUME NEW c \in ConnIds, TimerFires(c) \/ Reopens(c) PROVE channels' = channels
  BY <1>9 DEF TimerFires, Reopens
<1> QED
  BY <1>2, <1>3, <1>4, <1>5, <1>6, <1>7, <1>8, <1>9 DEF Next, TakesOne

(* No step but the loop, and the opening of a shell, adds to them.          *)
LEMMA SingleStays ==
    ASSUME SingleOK, CoreInv, Next, again' \subseteq again,
           \A ch \in ChannelIds, k \in ClientIds :
              ~channels[ch].announced /\ <<k, ch>> \in strays' => <<k, ch>> \in strays
    PROVE  SingleOK'
  BY MarksLast DEF SingleOK

LEMMA SingleNext ==
    ASSUME ManagerInv, Next
    PROVE  SingleOK'
<1>1. SingleOK /\ CoreInv /\ ChannelsOK
  BY DEF ManagerInv
<1>2. ASSUME again' \subseteq again, strays' \subseteq strays PROVE SingleOK'
  BY <1>1, <1>2, SingleStays
<1>3. ASSUME NEW kind \in Kinds, OpenChannel(kind) PROVE SingleOK'
  BY <1>2, <1>3, OpenChannelOpens
<1>4. ASSUME NEW k \in ClientIds, NEW ch \in ChannelIds, ShellOpens(k, ch) PROVE SingleOK'
  <2>1. again' \subseteq again /\ <<k, ch>> \in requests
    BY <1>4 DEF ShellOpens, Answers, Answered
  <2>2. ASSUME ~channels[ch].announced PROVE shells[<<k, ch>>] = "none"
    BY <1>1, <2>1, <2>2, Ids DEF ChannelsOK, Fits, AsksFit, ShellsFit
  <2>3. ASSUME NEW x \in ChannelIds, NEW j \in ClientIds,
               ~channels[x].announced, <<j, x>> \in strays'
        PROVE  <<j, x>> \in strays
    BY <1>4, <2>2, <2>3 DEF ShellOpens
  <2> QED
    BY <1>1, <2>1, <2>3, SingleStays
<1>5. ASSUME NEW c \in ConnIds, Reopens(c) PROVE SingleOK'
  BY <1>5, ReopensFits
<1>6. ASSUME NEW k \in ClientIds, NEW ch \in ChannelIds, ShellRefused(k, ch) PROVE SingleOK'
  BY <1>2, <1>6, RefusedRest
<1>7. ASSUME NEW k \in ClientIds, Ready(k) \/ HandshakeFails(k) \/ Closes(k) \/ Drops(k) PROVE SingleOK'
  BY <1>2, <1>7 DEF Ready, HandshakeFails, Closes, Drops, ClientCloses
<1>8. ASSUME NEW k \in ClientIds, NEW ch \in ChannelIds, ShellFails(k, ch) \/ RemoteCloses(k, ch)
      PROVE  SingleOK'
  BY <1>2, <1>8 DEF ShellFails, RemoteCloses, Answers, Answered
<1>9. ASSUME NEW ch \in ChannelIds, SendData(ch) \/ CloseChannel(ch) PROVE SingleOK'
  BY <1>2, <1>9 DEF SendData, CloseChannel
<1>10. CASE Disconnect \/ \E c \in ConnIds : TimerFires(c)
  BY <1>2, <1>10 DEF Disconnect, TimerFires
<1> QED
  BY <1>3, <1>4, <1>5, <1>6, <1>7, <1>8, <1>9, <1>10 DEF Next

(* The event is over, or its listeners open and close channels.             *)
LEMMA HushedNext ==
    ASSUME ManagerInv, Next
    PROVE  Hushed'
<1>1. Hushed /\ NetCore /\ ChannelCore /\ ChannelTypes /\ EventCore /\ RestTypes
  BY DEF ManagerInv, CoreInv, BaseCore, ChannelCore
<1>2. CASE announcing' = 0
  BY <1>2 DEF Hushed
<1>3. ASSUME NEW k \in ClientIds, Ready(k) PROVE Hushed'
  BY <1>3, ReadyFits
<1>4. ASSUME NEW ch \in ChannelIds, CloseChannel(ch) PROVE Hushed'
  <2>1. UNCHANGED <<announcing, conns, requests>> /\ channels' = [channels EXCEPT ![ch] = Closed(channels[ch])]
    BY <1>1, <1>4 DEF CloseChannel, ChannelTypes
  <2>2. channels'[ch].home = 0 /\ \A x \in ChannelIds \ {ch} : channels'[x] = channels[x]
    BY <1>1, <2>1, ClosedTypes DEF ChannelTypes
  <2> QED
    BY <1>1, <2>1, <2>2 DEF Hushed
<1>5. ASSUME NEW kind \in Kinds, OpenChannel(kind), announcing # 0 PROVE Hushed'
  <2>1. PICK ch \in ChannelIds, c \in ConnIds :
        /\ channels' = [channels EXCEPT ![ch] = Record(kind, c)]
        /\ UNCHANGED announcing
        /\ \/ /\ requests' = requests \cup Asked(c, ch)
              /\ UNCHANGED <<conns, timers, clients, faults>>
           \/ Spawn(c) /\ UNCHANGED requests
    BY <1>5, OpenChannelOpens
  <2>2. channels'[ch].announced /\ \A x \in ChannelIds \ {ch} : channels'[x] = channels[x]
    BY <1>1, <1>5, <2>1, RecordTypes DEF ChannelTypes
  <2>3. announcing \in ConnIds /\ Made(announcing)
    BY <1>1, <1>5 DEF EventCore
  <2>4. conns'[announcing] = conns[announcing]
    <3>1. CASE Spawn(c)
      <4>1. ~Made(c)
        BY <1>1, <3>1, SpawnDials DEF RestTypes
      <4>2. \A d \in ConnIds \ {c} : conns'[d] = conns[d]
        BY <1>1, <3>1, SpawnDials DEF Spawns, Dials, Wired, NetCore, NetTypes, RestTypes
      <4> QED
        BY <2>3, <4>1, <4>2
    <3> QED
      BY <2>1, <3>1
  <2>5. \A k \in ClientIds, x \in ChannelIds \ {ch} : <<k, x>> \in requests' => <<k, x>> \in requests
    BY <2>1 DEF Asked
  <2>6. conns[announcing].client \in ClientIds
    BY <1>1, <2>3 DEF NetCore, Staffed
  <2> QED
    BY <1>1, <1>5, <2>1, <2>2, <2>4, <2>5, <2>6 DEF Hushed
<1>6. ASSUME NEW kind \in Kinds, OpenChannel(kind), announcing = 0 PROVE announcing' = 0
  BY <1>6, OpenChannelOpens
<1>7. ASSUME NEW k \in ClientIds, NEW ch \in ChannelIds,
             ShellOpens(k, ch) \/ ShellFails(k, ch) \/ ShellRefused(k, ch) \/ RemoteCloses(k, ch)
      PROVE  announcing' = 0
  BY <1>7, RefusedRest DEF ShellOpens, ShellFails, ShellRefused, RemoteCloses, Answers, Answered, Settled
<1>8. ASSUME NEW k \in ClientIds, HandshakeFails(k) \/ Closes(k) \/ Drops(k) PROVE announcing' = 0
  BY <1>8 DEF HandshakeFails, Closes, Drops, ClientCloses, Settled
<1>9. ASSUME NEW ch \in ChannelIds, SendData(ch) PROVE announcing' = 0
  BY <1>9 DEF SendData, Settled
<1>10. ASSUME Disconnect \/ \E c \in ConnIds : TimerFires(c) \/ Reopens(c) PROVE announcing' = 0
  BY <1>10 DEF Disconnect, TimerFires, Reopens, Settled
<1> QED
  BY <1>2, <1>3, <1>4, <1>5, <1>6, <1>7, <1>8, <1>9, <1>10 DEF Next

-------------------------------------------------------------------------------
(* The invariant of the transport.                                          *)
LEMMA ManagerInvInit == Init => ManagerInv
<1> SUFFICES ASSUME Init PROVE ManagerInv
  OBVIOUS
<1>1. NetOK
  BY DEF Init, NetOK, Current, OneTimer, Ended, Up, Pool, Made, NoConn, NoClient
<1>2. ASSUME NEW ch \in ChannelIds PROVE Fits(channels[ch], ch, requests, shells, clients)
  <2>1. channels[ch] = NoChannel /\ requests = {} /\ \A k \in ClientIds : shells[<<k, ch>>] = "none"
    BY DEF Init
  <2> QED
    BY <2>1 DEF Fits, AsksFit, StreamFits, ShellsFit, TypedFits, NoChannel
<1>3. SingleOK /\ Hushed
  BY DEF Init, SingleOK, Hushed
<1> QED
  BY <1>1, <1>2, <1>3, CoreInvInit DEF ManagerInv, ChannelsOK

(* One step for each action; the types come from the first invariant.       *)
LEMMA ManagerInvNext == ~CloseLags /\ ManagerInv /\ [Next]_vars => ManagerInv'
<1> SUFFICES ASSUME ~CloseLags, ManagerInv, [Next]_vars PROVE ManagerInv'
  OBVIOUS
<1>1. NetCore /\ NetOK /\ ChannelTypes /\ ChannelsOK /\ faults \in 0..MaxFaults /\ CoreInv'
  BY CoreInvNext DEF ManagerInv, CoreInv, BaseCore, ChannelCore, RestTypes
<1>0. SingleOK' /\ Hushed'
  <2>1. CASE UNCHANGED vars
    BY <2>1 DEF ManagerInv, SingleOK, Hushed, vars
  <2> QED
    BY <2>1, SingleNext, HushedNext
<1> SUFFICES NetOK' /\ ChannelsOK'
  BY <1>0, <1>1 DEF ManagerInv
<1>2. UNCHANGED <<conns, timers, clients>> => NetOK'
  BY <1>1 DEF NetOK, Current, OneTimer, Ended, Up, Pool, Made
<1>3. CASE UNCHANGED vars
  BY <1>1, <1>2, <1>3, AllFitStill DEF vars, Steady
<1>4. ASSUME NEW kind \in Kinds, OpenChannel(kind) PROVE NetOK' /\ ChannelsOK'
  <2>1. UNCHANGED <<conns, timers, clients>> \/ \E c \in ConnIds : Spawn(c)
    BY <1>4, OpenChannelOpens
  <2>2. NetOK'
    BY <1>1, <1>2, <2>1, SpawnKeepsOK
  <2> QED
    BY <1>4, <2>2, OpenChannelFits
<1>5. ASSUME NEW ch \in ChannelIds, SendData(ch) \/ CloseChannel(ch) PROVE NetOK' /\ ChannelsOK'
  <2>1. UNCHANGED <<conns, timers, clients>> /\ channels[ch].home # 0
    BY <1>5 DEF SendData, CloseChannel
  <2>2. PICK any \in ClientIds : TRUE
    <3>1. channels[ch].home \in ConnIds /\ Made(channels[ch].home)
      BY <1>1, <2>1, Ids DEF ManagerInv, CoreInv, BaseCore, ChannelCore, ChannelTypes, Channel, Housed
    <3> QED
      BY <1>1, <3>1 DEF NetCore, Staffed
  <2> QED
    BY <1>2, <1>5, <2>1, <2>2, SendDataFits, CloseChannelFits
<1>6. CASE Disconnect
  BY <1>1, <1>6, DisconnectKeepsOK, DisconnectFits
<1>7. ASSUME NEW c \in ConnIds, TimerFires(c) PROVE NetOK' /\ ChannelsOK'
  <2>1. Steady
    <3>1. CASE conns[c].disposed
      BY <1>7, <3>1 DEF TimerFires, Steady
    <3>2. CASE ~conns[c].disposed
      BY <1>1, <1>7, <3>2, TimerDials, DialIsSteady DEF Redials
    <3> QED
      BY <3>1, <3>2
  <2>2. UNCHANGED <<channels, requests, shells>>
    BY <1>7 DEF TimerFires
  <2> QED
    BY <1>1, <1>7, <2>1, <2>2, TimerKeepsOK, AllFitStill
<1>8. ASSUME NEW k \in ClientIds, Ready(k) PROVE NetOK' /\ ChannelsOK'
  BY <1>1, <1>8, ReadyKeepsOK, ReadyFits
<1>14. ASSUME NEW c \in ConnIds, Reopens(c) PROVE NetOK' /\ ChannelsOK'
  BY <1>1, <1>2, <1>14, ReopensFits DEF Reopens
<1>9. ASSUME NEW k \in ClientIds, HandshakeFails(k) PROVE NetOK' /\ ChannelsOK'
  <2>1. /\ clients[k].phase = "dialing" /\ clients' = [clients EXCEPT ![k].phase = "failed"]
        /\ ScheduleReconnect(clients[k].conn) /\ UNCHANGED <<channels, requests, shells>>
    BY <1>9 DEF HandshakeFails
  <2>2. NetOK'
    BY <1>1, <2>1, FallKeepsOK
  <2>3. Steady
    BY <1>1, <2>1 DEF Steady, NetCore, NetTypes
  <2> QED
    BY <1>1, <2>1, <2>2, <2>3, AllFitStill
<1>10. ASSUME NEW k \in ClientIds, Closes(k) \/ Drops(k) PROVE NetOK' /\ ChannelsOK'
  <2>1. clients[k].phase \notin {"none", "closed"} /\ ClientCloses(k)
    BY <1>10 DEF Closes, Drops
  <2>2. clients' = [clients EXCEPT ![k].phase = "closed"] /\ ScheduleReconnect(clients[k].conn)
    BY <2>1 DEF ClientCloses
  <2>3. NetOK'
    BY <1>1, <2>1, <2>2, FallKeepsOK
  <2> QED
    BY <2>1, <2>3, CloseFits
<1>11. ASSUME NEW k \in ClientIds, NEW ch \in ChannelIds,
              ShellOpens(k, ch) \/ ShellFails(k, ch) \/ RemoteCloses(k, ch)
       PROVE  NetOK' /\ ChannelsOK'
  <2>1. UNCHANGED <<conns, timers, clients>>
    BY <1>11 DEF ShellOpens, ShellFails, RemoteCloses
  <2>2. ShellFails(k, ch) => ChannelsOK'
    <3> SUFFICES ASSUME ShellFails(k, ch), ~channels[ch].announced PROVE ChannelsOK'
      BY AnnouncedFits DEF TakesOne
    <3>1. /\ <<k, ch>> \in requests /\ requests' = requests \ {<<k, ch>>}
          /\ channels' = [channels EXCEPT ![ch] = Unopened(channels[ch], clients[k].conn)]
          /\ UNCHANGED <<clients, shells>>
      BY <1>1, LeftTypes DEF ShellFails, Answers, Answered, ChannelTypes, ManagerInv, SingleOK
    <3> QED
      BY <3>1, UnopenedFits
  <2> QED
    BY <1>2, <1>11, <2>1, <2>2, ShellOpensFits, RemoteClosesFits
<1>12. ASSUME NEW k \in ClientIds, NEW ch \in ChannelIds, ShellRefused(k, ch)
       PROVE  NetOK' /\ ChannelsOK'
  <2>1. UNCHANGED <<conns, timers, clients>> \/ \E c \in ConnIds : Spawn(c)
    BY <1>1, <1>12, RefusedRest, RefusalRelocates DEF Relocates
  <2>2. NetOK'
    BY <1>1, <1>2, <2>1, SpawnKeepsOK
  <2> QED
    BY <1>12, <2>2, RefusedFits
<1>13. CASE Next
  BY <1>4, <1>5, <1>6, <1>7, <1>8, <1>9, <1>10, <1>11, <1>12, <1>13, <1>14 DEF Next
<1> QED
  BY <1>3, <1>13

(* Who is served by which Client, and who holds what, is an invariant when  *)
(* a Client that failed has closed before the backoff is over.              *)
THEOREM ManagerKeepsInv == ASSUME ~CloseLags PROVE Spec => []ManagerInv
<1>1. ManagerInv /\ [Next]_vars => ManagerInv'
  BY ManagerInvNext
<1> QED
  BY <1>1, ManagerInvInit, PTL DEF Spec

(* No shell runs that nobody holds, whatever closes while it opens, moves,  *)
(* or drops (the closed flag in openStream), but of a channel opened by a   *)
(* listener of 'connected'.                                                 *)
THEOREM NothingLeaks == ASSUME ~CloseLags PROVE Spec => []NoLeakedShell
<1>1. ManagerInv => NoLeakedShell
  <2> SUFFICES ASSUME ManagerInv, NEW k \in ClientIds, NEW ch \in ChannelIds,
                      ~channels[ch].announced
               PROVE  HeldShell(k, ch)
    BY DEF NoLeakedShell
  <2>1. Fits(channels[ch], ch, requests, shells, clients)
    BY DEF ManagerInv, ChannelsOK
  <2>2. <<k, ch>> \notin strays
    BY DEF ManagerInv, SingleOK
  <2> QED
    BY <2>1, <2>2, Ids DEF Fits, ShellsFit, StreamFits, HeldShell
<1> QED
  BY <1>1, ManagerKeepsInv, PTL

(* One reconnect at a time for each connection of the pool, and its flag    *)
(* tells (scheduleReconnect).                                               *)
THEOREM ReconnectsInTurn == ASSUME ~CloseLags PROVE Spec => []ReconnectIsSerial
<1>1. ManagerInv => ReconnectIsSerial
  BY DEF ManagerInv, NetOK, OneTimer, ReconnectIsSerial
<1> QED
  BY <1>1, ManagerKeepsInv, PTL

(* A connection of the pool is one TCP connection: never two Clients that   *)
(* dial or are up.                                                          *)
THEOREM OneClientEach == ASSUME ~CloseLags PROVE Spec => []OneTcpPerConnection
<1>1. ManagerInv => OneTcpPerConnection
  BY DEF ManagerInv, NetOK, Current, OneTcpPerConnection
<1> QED
  BY <1>1, ManagerKeepsInv, PTL

-------------------------------------------------------------------------------
(* What a step may never do.                                                *)

(* A record at one place: what a step that puts r there asks of it.         *)
LEMMA OneTerminal ==
    ASSUME ChannelTypes, NEW ch \in ChannelIds, NEW r,
           channels' = [channels EXCEPT ![ch] = r],
           \/ r.home # 0 \/ r.closed \/ channels[ch].home = 0
           \/ channels[ch].kind = "query"
    PROVE  TerminalIsKept
<1>1. channels'[ch] = r /\ \A x \in ChannelIds \ {ch} : channels'[x] = channels[x]
  BY DEF ChannelTypes
<1> QED
  BY <1>1 DEF TerminalIsKept

LEMMA UnopenedKeepsTerminal ==
    ASSUME ChannelTypes, NEW ch \in ChannelIds, NEW c,
           channels' = [channels EXCEPT ![ch] = Unopened(channels[ch], c)]
    PROVE  TerminalIsKept
<1>1. channels[ch] \in Channel
  BY DEF ChannelTypes
<1>2. Unopened(channels[ch], c).home = channels[ch].home \/ channels[ch].kind = "query"
  BY <1>1, UnopenedTypes
<1> QED
  BY <1>2, OneTerminal

LEMMA TerminalsKept == CoreInv /\ [Next]_vars => [TerminalIsKept]_vars
<1> SUFFICES ASSUME CoreInv, Next PROVE TerminalIsKept
  OBVIOUS
<1>1. NetCore /\ NetTypes /\ ChannelTypes /\ RestTypes
  BY DEF CoreInv, BaseCore, NetCore, ChannelCore
<1>2. CASE channels' = channels
  BY <1>2 DEF TerminalIsKept
<1>3. ASSUME NEW kind \in Kinds, OpenChannel(kind) PROVE TerminalIsKept
  <2>1. PICK ch \in ChannelIds, c \in ConnIds :
           channels[ch].kind = "none" /\ channels' = [channels EXCEPT ![ch] = Record(kind, c)]
    BY <1>3, OpenChannelOpens
  <2>2. Record(kind, c).home # 0
    BY RecordTypes, Ids
  <2> QED
    BY <1>1, <2>1, <2>2, OneTerminal
<1>4. ASSUME NEW ch \in ChannelIds, SendData(ch) PROVE TerminalIsKept
  <2>1. CASE channels' = channels
    BY <1>2, <2>1
  <2>2. CASE channels' # channels
    <3> DEFINE r == [channels[ch] EXCEPT !.pending = Append(channels[ch].pending, "input")]
    <3>1. channels' = [channels EXCEPT ![ch] = r] /\ channels[ch].home # 0
      BY <1>1, <1>4, <2>2 DEF SendData, ChannelTypes
    <3>2. r.home = channels[ch].home
      BY <1>1 DEF ChannelTypes, Channel
    <3> HIDE DEF r
    <3> QED
      BY <1>1, <3>1, <3>2, OneTerminal
  <2> QED
    BY <2>1, <2>2
<1>5. ASSUME NEW ch \in ChannelIds, CloseChannel(ch) PROVE TerminalIsKept
  <2>1. channels[ch] \in Channel /\ channels' = [channels EXCEPT ![ch] = Closed(channels[ch])]
    BY <1>1, <1>5 DEF CloseChannel, ChannelTypes
  <2>2. Closed(channels[ch]).closed
    BY <2>1, ClosedTypes
  <2> QED
    BY <1>1, <2>1, <2>2, OneTerminal
<1>6. CASE Disconnect
  <2> SUFFICES ASSUME NEW ch \in ChannelIds,
                      channels[ch].home # 0, channels'[ch].home = 0
               PROVE  channels'[ch].closed
    BY DEF TerminalIsKept
  <2>1. channels[ch] \in Channel
    BY <1>1 DEF ChannelTypes
  <2>2. channels'[ch] = Closed(channels[ch])
    BY <1>1, <1>6, DisconnectChannels
  <2> QED
    BY <2>1, <2>2, ClosedTypes
<1>7. ASSUME NEW k \in ClientIds, Ready(k) \/ HandshakeFails(k) PROVE TerminalIsKept
  BY <1>2, <1>7 DEF Ready, HandshakeFails
<1>8. ASSUME NEW k \in ClientIds, Closes(k) \/ Drops(k) PROVE TerminalIsKept
  <2>1. ClientCloses(k)
    BY <1>8 DEF Closes, Drops
  <2>2. ASSUME NEW ch \in ChannelIds
        PROVE  channels'[ch].home = channels[ch].home \/ channels[ch].kind = "query"
    BY <1>1, <2>1, CloseLeaves
  <2> QED
    BY <2>2 DEF TerminalIsKept
<1>9. ASSUME NEW k \in ClientIds, NEW ch \in ChannelIds, ShellOpens(k, ch) PROVE TerminalIsKept
  <2>1. CASE channels' = channels
    BY <1>2, <2>1
  <2>2. CASE channels' # channels
    <3>1. channels[ch] \in Channel /\ channels' = [channels EXCEPT ![ch] = Opened(channels[ch], k)]
      BY <1>1, <1>9, <2>2 DEF ShellOpens, ChannelTypes
    <3>2. Opened(channels[ch], k).home = channels[ch].home
      BY <3>1, OpenedTypes
    <3> QED
      BY <1>1, <3>1, <3>2, OneTerminal
  <2> QED
    BY <2>1, <2>2
<1>10. ASSUME NEW k \in ClientIds, NEW ch \in ChannelIds, ShellFails(k, ch) PROVE TerminalIsKept
  <2>1. channels' = [channels EXCEPT ![ch] = Unopened(channels[ch], clients[k].conn)]
    BY <1>1, <1>10 DEF ShellFails, ChannelTypes
  <2> QED
    BY <1>1, <2>1, UnopenedKeepsTerminal
<1>11. ASSUME NEW k \in ClientIds, NEW ch \in ChannelIds, RemoteCloses(k, ch) PROVE TerminalIsKept
  <2>1. CASE channels' = channels
    BY <1>2, <2>1
  <2>2. CASE channels' # channels
    <3> DEFINE r == [channels[ch] EXCEPT !.stream = 0]
    <3>1. channels' = [channels EXCEPT ![ch] = r]
      BY <1>1, <1>11, <2>2 DEF RemoteCloses, ChannelTypes
    <3>2. r.home = channels[ch].home
      BY <1>1 DEF ChannelTypes, Channel
    <3> HIDE DEF r
    <3> QED
      BY <1>1, <3>1, <3>2, OneTerminal
  <2> QED
    BY <2>1, <2>2
<1>12. ASSUME NEW k \in ClientIds, NEW ch \in ChannelIds, ShellRefused(k, ch) PROVE TerminalIsKept
  <2> DEFINE c == clients[k].conn
  <2>1. CASE ~Relocatable(c, channels[ch])
    <3>1. channels' = [channels EXCEPT ![ch] = Unopened(channels[ch], c)]
      BY <1>1, <1>12, <2>1, RefusedRest DEF ChannelTypes
    <3> QED
      BY <1>1, <3>1, UnopenedKeepsTerminal
  <2>2. CASE Relocatable(c, channels[ch])
    <3>1. PICK t \in ConnIds : Relocates(k, ch, t)
      BY <1>1, <1>12, <2>2, RefusalRelocates
    <3> DEFINE h == Rehomed(ch, t)
    <3>2. h \in Channel /\ h.kind = channels[ch].kind /\ h.home = t /\ t # 0
      BY <1>1, <2>2, RehomedTypes, Ids
    <3>3. \/ channels' = [channels EXCEPT ![ch] = h]
          \/ channels' = [channels EXCEPT ![ch] = Unopened(h, c)]
      BY <3>1 DEF Relocates
    <3>4. Unopened(h, c).home # 0 \/ channels[ch].kind = "query"
      BY <3>2, UnopenedTypes
    <3> HIDE DEF h
    <3> QED
      BY <1>1, <3>2, <3>3, <3>4, OneTerminal
  <2> QED
    BY <2>1, <2>2
<1>13. ASSUME NEW c \in ConnIds, TimerFires(c) \/ Reopens(c) PROVE TerminalIsKept
  BY <1>2, <1>13 DEF TimerFires, Reopens
<1> QED
  BY <1>3, <1>4, <1>5, <1>6, <1>7, <1>8, <1>9, <1>10, <1>11, <1>12, <1>13 DEF Next

(* A terminal is forgotten only when it is closed: no drop, refusal or      *)
(* failed opening loses it, whatever the Clients do ('close', openStream).  *)
THEOREM TerminalsStay == Spec => TerminalsAreKept
<1> QED
  BY TerminalsKept, ManagerKeepsCore, PTL DEF Spec, TerminalsAreKept

-------------------------------------------------------------------------------
(* What is typed first, whatever the Clients do.                            *)

(* What has been typed, or waits to be, in record r of channel ch.          *)
Said(r, ch, run) ==
    /\ TypedFits(r)
    /\ r.stream # 0 => r.pending = <<>>
    /\ r.kind \in {"none", "session"} =>
          \A k \in ClientIds : run[<<k, ch>>] \in {"none", "attached"}

SaidOK == \A ch \in ChannelIds : Said(channels[ch], ch, shells)
SaidNext(ch) == Said(channels'[ch], ch, shells')

(* A channel whose writes a step leaves alone, and that gains no stream.    *)
LEMMA SaidStill ==
    ASSUME SaidOK, NEW ch \in ChannelIds,
           channels'[ch].kind = channels[ch].kind,
           channels'[ch].everOpened = channels[ch].everOpened,
           channels'[ch].pending = channels[ch].pending,
           channels'[ch].closed = channels[ch].closed,
           channels'[ch].stream \in {channels[ch].stream, 0},
           \A k \in ClientIds : shells'[<<k, ch>>] \in {shells[<<k, ch>>], "none"}
    PROVE  SaidNext(ch)
<1>1. Said(channels[ch], ch, shells)
  BY DEF SaidOK
<1> QED
  BY <1>1 DEF SaidNext, Said, TypedFits

LEMMA SaidClosed ==
    ASSUME ChannelTypes, SaidOK, NEW ch \in ChannelIds, channels'[ch] = Closed(channels[ch]),
           \A k \in ClientIds : shells'[<<k, ch>>] \in {shells[<<k, ch>>], "none"}
    PROVE  SaidNext(ch)
<1>1. channels[ch] \in Channel /\ Said(channels[ch], ch, shells)
  BY DEF ChannelTypes, SaidOK
<1>2. Said(Closed(channels[ch]), ch, shells')
  BY <1>1, ClosedTypes DEF Said, TypedFits
<1> QED
  BY <1>2 DEF SaidNext

(* One record is written, and the shells of the other channels stay.        *)
LEMMA SaidOne ==
    ASSUME ChannelTypes, SaidOK, NEW ch \in ChannelIds, NEW r,
           channels' = [channels EXCEPT ![ch] = r],
           \A k \in ClientIds, x \in ChannelIds : x # ch =>
               shells'[<<k, x>>] \in {shells[<<k, x>>], "none"},
           Said(r, ch, shells')
    PROVE  SaidOK'
<1>1. channels'[ch] = r /\ \A x \in ChannelIds \ {ch} : channels'[x] = channels[x]
  BY DEF ChannelTypes
<1>2. SaidNext(ch)
  BY <1>1 DEF SaidNext
<1>3. \A x \in ChannelIds \ {ch} : SaidNext(x)
  BY <1>1, SaidStill
<1>4. \A x \in ChannelIds : SaidNext(x)
  BY <1>2, <1>3
<1> QED
  BY <1>4 DEF SaidOK, SaidNext

(* A record with the same writes, at another place or none.                 *)
LEMMA SaidMoved ==
    ASSUME ChannelTypes, SaidOK, NEW ch \in ChannelIds, NEW r,
           channels' = [channels EXCEPT ![ch] = r],
           r.kind = channels[ch].kind, r.everOpened = channels[ch].everOpened,
           r.pending = channels[ch].pending, r.closed = channels[ch].closed,
           r.stream \in {channels[ch].stream, 0},
           \A k \in ClientIds, x \in ChannelIds :
               shells'[<<k, x>>] \in {shells[<<k, x>>], "none"}
    PROVE  SaidOK'
<1>1. Said(channels[ch], ch, shells)
  BY DEF SaidOK
<1>2. Said(r, ch, shells')
  BY <1>1 DEF Said, TypedFits
<1> QED
  BY <1>2, SaidOne

LEMMA UnopenedSaid ==
    ASSUME ChannelTypes, SaidOK, NEW ch \in ChannelIds, NEW h \in Channel, NEW c,
           h.kind = channels[ch].kind, h.stream = channels[ch].stream,
           h.everOpened = channels[ch].everOpened, h.pending = channels[ch].pending,
           h.closed = channels[ch].closed,
           channels' = [channels EXCEPT ![ch] = Unopened(h, c)], UNCHANGED shells
    PROVE  SaidOK'
<1> DEFINE r == Unopened(h, c)
<1>1. /\ r.kind = channels[ch].kind /\ r.everOpened = channels[ch].everOpened
      /\ r.pending = channels[ch].pending /\ r.closed = channels[ch].closed
      /\ r.stream \in {channels[ch].stream, 0}
  BY UnopenedTypes
<1>2. channels' = [channels EXCEPT ![ch] = r]
  OBVIOUS
<1>3. \A k \in ClientIds, x \in ChannelIds : shells'[<<k, x>>] \in {shells[<<k, x>>], "none"}
  OBVIOUS
<1> HIDE DEF r
<1> QED
  BY <1>1, <1>2, <1>3, SaidMoved

LEMMA SendDataSaid ==
    ASSUME ChannelTypes, RestTypes, SaidOK, NEW ch \in ChannelIds, SendData(ch)
    PROVE  SaidOK'
<1>1. channels[ch] \in Channel /\ Said(channels[ch], ch, shells)
  BY DEF ChannelTypes, SaidOK
<1>2. CASE channels[ch].stream # 0
  <2> DEFINE k == channels[ch].stream
             run == IF shells[<<k, ch>>] = "fresh" THEN "bare" ELSE shells[<<k, ch>>]
  <2>1. k \in ClientIds
    BY <1>2, StreamIsClient
  <2>2. channels' = channels /\ shells' = [shells EXCEPT ![<<k, ch>>] = run]
    BY <1>2 DEF SendData
  <2>3. channels[ch].kind \in {"none", "session"} => shells[<<k, ch>>] \in {"none", "attached"}
    BY <1>1, <2>1 DEF Said
  <2>4. Said(channels[ch], ch, shells')
    BY <1>1, <2>1, <2>2, <2>3 DEF Said, RestTypes
  <2>5. channels' = [channels EXCEPT ![ch] = channels[ch]]
    BY <2>2 DEF ChannelTypes
  <2>6. \A j \in ClientIds, x \in ChannelIds : x # ch => shells'[<<j, x>>] = shells[<<j, x>>]
    BY <2>1, <2>2 DEF RestTypes
  <2> HIDE DEF run, k
  <2> QED
    BY <2>4, <2>5, <2>6, SaidOne
<1>3. CASE channels[ch].stream = 0
  <2> DEFINE w == Append(channels[ch].pending, "input")
             r == [channels[ch] EXCEPT !.pending = w]
  <2>1. channels' = [channels EXCEPT ![ch] = r] /\ shells' = shells
    BY <1>3 DEF SendData, ChannelTypes
  <2>2. channels[ch].pending \in Seq({"init", "input"})
    BY <1>1 DEF Channel
  <2>3. /\ w # <<>> /\ DOMAIN w = 1..(Len(channels[ch].pending) + 1)
        /\ \A i \in DOMAIN w : \/ i \in DOMAIN channels[ch].pending /\ w[i] = channels[ch].pending[i]
                               \/ w[i] = "input" /\ i = Len(channels[ch].pending) + 1
    BY <2>2
  <2>4. channels[ch].pending # <<>> => 1 \in DOMAIN channels[ch].pending /\ w[1] = channels[ch].pending[1]
    BY <2>2
  <2> HIDE DEF w
  <2>5. /\ r.pending = w /\ r.stream = 0 /\ r.kind = channels[ch].kind
        /\ r.everOpened = channels[ch].everOpened /\ r.closed = channels[ch].closed
    BY <1>1, <1>3 DEF Channel
  <2> HIDE DEF r
  <2>6. TypedFits(r)
    BY <1>1, <2>3, <2>4, <2>5 DEF Said, TypedFits
  <2>7. Said(r, ch, shells')
    BY <1>1, <2>1, <2>5, <2>6 DEF Said
  <2> QED
    BY <2>1, <2>7, SaidOne
<1> QED
  BY <1>2, <1>3

LEMMA ShellOpensSaid ==
    ASSUME CoreInv, SaidOK, NEW k \in ClientIds, NEW ch \in ChannelIds, ShellOpens(k, ch)
    PROVE  SaidOK'
<1>1. ChannelTypes /\ RestTypes /\ channels[ch] \in Channel
  BY DEF CoreInv, BaseCore, ChannelCore, ChannelTypes
<1> DEFINE record == channels[ch]
           run == ModeOf(Replayed(record) \o record.pending)
<1>2. CASE channels' = channels /\ shells' = shells
  BY <1>2 DEF SaidOK
<1>3. CASE ~(channels' = channels /\ shells' = shells)
  <2>1. /\ channels' = [channels EXCEPT ![ch] = Opened(record, k)]
        /\ shells' = [shells EXCEPT ![<<k, ch>>] = run]
        /\ ~record.closed
    BY <1>3 DEF ShellOpens
  <2>2. record.kind # "none"
    BY DEF ShellOpens, Answers, Answered, CoreInv, BaseCore, ChannelCore, AskedByName
  <2>3. Said(record, ch, shells)
    BY DEF SaidOK
  <2>4. record.kind = "session" => run = "attached"
    BY <1>1, <2>1, <2>3, SessionIsAttached DEF Said
  <2>5. /\ shells'[<<k, ch>>] = run
        /\ \A j \in ClientIds, x \in ChannelIds :
              <<j, x>> # <<k, ch>> => shells'[<<j, x>>] = shells[<<j, x>>]
    BY <1>1, <2>1 DEF RestTypes
  <2> HIDE DEF run
  <2> DEFINE r == Opened(record, k)
  <2>6. r.kind = record.kind /\ r.stream = k /\ r.everOpened /\ r.pending = <<>>
    BY <1>1, OpenedTypes
  <2> HIDE DEF r
  <2>7. TypedFits(r)
    BY <2>6 DEF TypedFits
  <2>8. Said(r, ch, shells')
    BY <2>2, <2>3, <2>4, <2>5, <2>6, <2>7 DEF Said
  <2>9. channels' = [channels EXCEPT ![ch] = r]
    BY <2>1 DEF r
  <2> QED
    BY <1>1, <2>5, <2>8, <2>9, SaidOne
<1> QED
  BY <1>2, <1>3

LEMMA RefusedSaid ==
    ASSUME CoreInv, SaidOK, NEW k \in ClientIds, NEW ch \in ChannelIds, ShellRefused(k, ch)
    PROVE  SaidOK'
<1> DEFINE c == clients[k].conn
<1>1. ChannelTypes /\ channels[ch] \in Channel /\ UNCHANGED shells
  BY RefusedRest DEF CoreInv, BaseCore, ChannelCore, ChannelTypes
<1>2. CASE ~Relocatable(c, channels[ch])
  <2>1. channels' = [channels EXCEPT ![ch] = Unopened(channels[ch], c)]
    BY <1>1, <1>2, RefusedRest DEF ChannelTypes
  <2> QED
    BY <1>1, <2>1, UnopenedSaid
<1>3. CASE Relocatable(c, channels[ch])
  <2>1. PICK t \in ConnIds : Relocates(k, ch, t)
    BY <1>1, <1>3, RefusalRelocates
  <2> DEFINE h == Rehomed(ch, t)
  <2>2. /\ h \in Channel /\ h.kind = channels[ch].kind /\ h.stream = channels[ch].stream
        /\ h.everOpened = channels[ch].everOpened /\ h.pending = channels[ch].pending
        /\ h.closed = channels[ch].closed
    BY <1>1, <1>3, RehomedTypes
  <2>3. \/ channels' = [channels EXCEPT ![ch] = h]
        \/ channels' = [channels EXCEPT ![ch] = Unopened(h, c)]
    BY <2>1 DEF Relocates
  <2> HIDE DEF h
  <2>4. CASE channels' = [channels EXCEPT ![ch] = h]
    BY <1>1, <2>2, <2>4, SaidMoved
  <2>5. CASE channels' = [channels EXCEPT ![ch] = Unopened(h, c)]
    BY <1>1, <2>2, <2>5, UnopenedSaid
  <2> QED
    BY <2>3, <2>4, <2>5
<1> QED
  BY <1>2, <1>3

LEMMA SaidNextStep == CoreInv /\ SaidOK /\ [Next]_vars => SaidOK'
<1> SUFFICES ASSUME CoreInv, SaidOK, [Next]_vars PROVE SaidOK'
  OBVIOUS
<1>1. NetTypes /\ ChannelTypes /\ RestTypes
  BY DEF CoreInv, BaseCore, NetCore, ChannelCore
<1>2. CASE UNCHANGED <<channels, shells>>
  BY <1>2 DEF SaidOK
<1>3. ASSUME NEW kind \in Kinds, OpenChannel(kind) PROVE SaidOK'
  <2>1. PICK ch \in ChannelIds, c \in ConnIds :
           /\ channels[ch].kind = "none" /\ channels' = [channels EXCEPT ![ch] = Record(kind, c)]
           /\ UNCHANGED shells
    BY <1>3, OpenChannelOpens
  <2> DEFINE r == Record(kind, c)
  <2>2. /\ r.stream = 0 /\ ~r.everOpened
        /\ r.pending = IF r.kind = "shell" THEN <<>> ELSE <<"init">>
    BY RecordTypes
  <2> HIDE DEF r
  <2>3. TypedFits(r)
    BY <2>2 DEF TypedFits
  <2>4. Said(channels[ch], ch, shells)
    BY DEF SaidOK
  <2>5. Said(r, ch, shells')
    BY <2>1, <2>2, <2>3, <2>4 DEF Said
  <2> QED
    BY <1>1, <2>1, <2>5, SaidOne DEF r
<1>4. ASSUME NEW ch \in ChannelIds, SendData(ch) PROVE SaidOK'
  BY <1>1, <1>4, SendDataSaid
<1>5. ASSUME NEW ch \in ChannelIds, CloseChannel(ch) PROVE SaidOK'
  <2>1. channels' = [channels EXCEPT ![ch] = Closed(channels[ch])]
    BY <1>1, <1>5 DEF CloseChannel, ChannelTypes
  <2>2. \A k \in ClientIds, x \in ChannelIds : shells'[<<k, x>>] \in {shells[<<k, x>>], "none"}
    BY <1>1, <1>5 DEF CloseChannel, RestTypes
  <2>3. channels'[ch] = Closed(channels[ch])
    BY <1>1, <2>1 DEF ChannelTypes
  <2>4. SaidNext(ch)
    BY <1>1, <2>2, <2>3, SaidClosed
  <2> QED
    BY <1>1, <2>1, <2>2, <2>3, <2>4, SaidOne DEF SaidNext
<1>6. CASE Disconnect
  <2>1. \A k \in ClientIds, x \in ChannelIds : shells'[<<k, x>>] \in {shells[<<k, x>>], "none"}
    <3>1. \A p \in ClientIds \X ChannelIds : shells'[p] \in {shells[p], "none"}
      BY <1>6 DEF Disconnect
    <3> QED
      BY <3>1
  <2>2. ASSUME NEW ch \in ChannelIds PROVE SaidNext(ch)
    <3>1. CASE channels'[ch] = Closed(channels[ch])
      BY <1>1, <2>1, <3>1, SaidClosed
    <3>2. CASE channels'[ch] = channels[ch]
      BY <2>1, <3>2, SaidStill
    <3> QED
      BY <1>1, <1>6, <3>1, <3>2, DisconnectChannels
  <2> QED
    BY <2>2 DEF SaidOK, SaidNext
<1>7. ASSUME NEW k \in ClientIds, Ready(k) \/ HandshakeFails(k) PROVE UNCHANGED <<channels, shells>>
  BY <1>7 DEF Ready, HandshakeFails
<1>8. ASSUME NEW k \in ClientIds, Closes(k) \/ Drops(k) PROVE SaidOK'
  <2>1. ClientCloses(k)
    BY <1>8 DEF Closes, Drops
  <2>2. \A j \in ClientIds, x \in ChannelIds : shells'[<<j, x>>] \in {shells[<<j, x>>], "none"}
    <3>1. \A p \in ClientIds \X ChannelIds : shells'[p] \in {shells[p], "none"}
      BY <2>1 DEF ClientCloses
    <3> QED
      BY <3>1
  <2>3. ASSUME NEW ch \in ChannelIds PROVE SaidNext(ch)
    BY <1>1, <2>1, <2>2, CloseLeaves, SaidStill
  <2> QED
    BY <2>3 DEF SaidOK, SaidNext
<1>9. ASSUME NEW k \in ClientIds, NEW ch \in ChannelIds, ShellOpens(k, ch) PROVE SaidOK'
  BY <1>9, ShellOpensSaid
<1>10. ASSUME NEW k \in ClientIds, NEW ch \in ChannelIds, ShellFails(k, ch) PROVE SaidOK'
  <2>1. /\ channels' = [channels EXCEPT ![ch] = Unopened(channels[ch], clients[k].conn)]
        /\ channels[ch] \in Channel /\ UNCHANGED shells
    BY <1>1, <1>10 DEF ShellFails, ChannelTypes
  <2> QED
    BY <1>1, <2>1, UnopenedSaid
<1>11. ASSUME NEW k \in ClientIds, NEW ch \in ChannelIds, RemoteCloses(k, ch) PROVE SaidOK'
  <2> DEFINE s == IF channels[ch].home = clients[k].conn /\ channels[ch].stream = k
                    THEN 0 ELSE channels[ch].stream
             r == [channels[ch] EXCEPT !.stream = s]
  <2>1. channels[ch] \in Channel
    BY <1>1 DEF ChannelTypes
  <2>2. channels' = [channels EXCEPT ![ch] = r]
    <3>1. [channels[ch] EXCEPT !.stream = channels[ch].stream] = channels[ch]
      BY <2>1 DEF Channel
    <3>2. [channels EXCEPT ![ch] = channels[ch]] = channels
      BY <1>1 DEF ChannelTypes
    <3> QED
      BY <1>1, <1>11, <3>1, <3>2 DEF RemoteCloses, ChannelTypes
  <2>3. /\ r.kind = channels[ch].kind /\ r.everOpened = channels[ch].everOpened
        /\ r.pending = channels[ch].pending /\ r.closed = channels[ch].closed
        /\ r.stream \in {channels[ch].stream, 0}
    BY <2>1 DEF Channel
  <2>4. \A j \in ClientIds, x \in ChannelIds : shells'[<<j, x>>] \in {shells[<<j, x>>], "none"}
    BY <1>1, <1>11 DEF RemoteCloses, RestTypes
  <2> HIDE DEF r
  <2> QED
    BY <1>1, <2>2, <2>3, <2>4, SaidMoved
<1>12. ASSUME NEW k \in ClientIds, NEW ch \in ChannelIds, ShellRefused(k, ch) PROVE SaidOK'
  BY <1>12, RefusedSaid
<1>13. ASSUME NEW c \in ConnIds, TimerFires(c) \/ Reopens(c) PROVE UNCHANGED <<channels, shells>>
  BY <1>13 DEF TimerFires, Reopens
<1>14. UNCHANGED vars => UNCHANGED <<channels, shells>>
  BY DEF vars
<1> QED
  BY <1>2, <1>3, <1>4, <1>5, <1>6, <1>7, <1>8, <1>9, <1>10, <1>11, <1>12, <1>13, <1>14 DEF Next

(* The shell of a session has had its attach command, once and first: on    *)
(* the first opening, after a drop and after a relocation, also when a late *)
(* close of an old Client hits the connection (openStream).                 *)
THEOREM SessionsStayAttached == Spec => []SessionsAttached
<1>1. Init => SaidOK
  BY DEF Init, SaidOK, Said, TypedFits, NoChannel
<1>2. SaidOK => SessionsAttached
  BY DEF SaidOK, Said, SessionsAttached
<1> QED
  BY <1>1, <1>2, SaidNextStep, ManagerKeepsCore, PTL DEF Spec

-------------------------------------------------------------------------------
(* A refusal moves a channel on.                                            *)

(* After a refusal by connection c there is no room on c: as many channels  *)
(* as are live stay on it, and no more was learned.                         *)
LEMMA NoRoomThere ==
    ASSUME ChannelTypes, ceiling \in 0..MaxChannels, NEW c \in ConnIds, NEW ch \in ChannelIds,
           channels[ch].stream = 0, Live(c) # {}
    PROVE  c \notin RoomFor(ch, c)
<1> DEFINE left == Registered(MovedAway(ch), c)
           gone == [channels[ch] EXCEPT !.home = 0, !.relocations = channels[ch].relocations + 1]
<1>1. Learned(c) \in 1..MaxChannels /\ Learned(c) <= Cardinality(Live(c))
  BY LearnedIsLive
<1>2. Live(c) \subseteq left
  <2>1. \A x \in ChannelIds \ {ch} : MovedAway(ch)[x] = channels[x]
    <3>1. MovedAway(ch) = [channels EXCEPT ![ch] = gone]
      BY DEF MovedAway, ChannelTypes
    <3> HIDE DEF gone
    <3> QED
      BY <3>1 DEF ChannelTypes
  <2> QED
    BY <2>1 DEF Live, Registered
<1>3. IsFiniteSet(left)
  <2>1. IsFiniteSet(ChannelIds)
    BY Bounds, FS_Interval DEF ChannelIds
  <2> QED
    BY <2>1, FS_Subset DEF Registered
<1>4. /\ Cardinality(Live(c)) <= Cardinality(left)
      /\ Cardinality(left) \in Nat /\ Cardinality(Live(c)) \in Nat
  <2>1. IsFiniteSet(Live(c))
    BY <1>2, <1>3, FS_Subset
  <2> QED
    BY <1>2, <1>3, <2>1, FS_Subset, FS_CardinalityType
<1>5. /\ Budget(channels[ch].kind, Learned(c)) <= Learned(c)
      /\ Budget(channels[ch].kind, Learned(c)) \in Nat
  BY <1>1, Bounds DEF Budget
<1>6. Learned(c) # 0 /\ Learned(c) \in Nat
  BY <1>1, Bounds
<1> HIDE DEF left
<1>7. ~(Cardinality(left) < Budget(channels[ch].kind, Learned(c)))
  BY <1>1, <1>4, <1>5, <1>6
<1> QED
  BY <1>6, <1>7 DEF RoomFor, WithRoom, left

(* A record that is moved by no refusal.                                    *)
LEMMA NoRefusalMoves ==
    ASSUME ChannelTypes, NEW ch \in ChannelIds, NEW r,
           channels' = [channels EXCEPT ![ch] = r],
           r.relocations = channels[ch].relocations
    PROVE  RefusalMovesOn
<1>1. channels'[ch] = r /\ \A x \in ChannelIds \ {ch} : channels'[x] = channels[x]
  BY DEF ChannelTypes
<1>2. \A x \in ChannelIds : channels[x].relocations \in Nat
  BY Bounds DEF ChannelTypes, Channel
<1> QED
  BY <1>1, <1>2 DEF RefusalMovesOn

LEMMA RefusalMoves ==
    ASSUME ManagerInv, NEW k \in ClientIds, NEW ch \in ChannelIds, ShellRefused(k, ch)
    PROVE  RefusalMovesOn
<1> DEFINE c == clients[k].conn
<1>1. NetCore /\ ChannelTypes /\ ChannelsOK /\ ceiling \in 0..MaxChannels /\ channels[ch] \in Channel
  BY DEF ManagerInv, CoreInv, BaseCore, ChannelCore, ChannelTypes, CeilingCore
<1>2. <<k, ch>> \in requests /\ clients[k].phase \in {"ready", "ending"}
  BY RefusedRest
<1> SUFFICES ASSUME ~channels[ch].announced PROVE RefusalMovesOn
  <2> SUFFICES ASSUME channels[ch].announced PROVE RefusalMovesOn
    OBVIOUS
  <2>1. PICK r \in Channel : channels' = [channels EXCEPT ![ch] = r]
    BY TakenRecord DEF ManagerInv, TakesOne
  <2>2. \A x \in ChannelIds \ {ch} : channels'[x] = channels[x] /\ channels[x].relocations \in Nat
    BY <1>1, <2>1, Bounds DEF ChannelTypes, Channel
  <2> QED
    BY <2>2 DEF RefusalMovesOn
<1>3. CASE ~Relocatable(c, channels[ch])
  <2>1. channels' = [channels EXCEPT ![ch] = Unopened(channels[ch], c)]
    BY <1>1, <1>3, RefusedRest DEF ChannelTypes
  <2>2. Unopened(channels[ch], c).relocations = channels[ch].relocations
    BY <1>1, UnopenedTypes
  <2> QED
    BY <1>1, <2>1, <2>2, NoRefusalMoves
<1>4. CASE Relocatable(c, channels[ch])
  <2>1. PICK t \in ConnIds : Relocates(k, ch, t)
    BY <1>1, <1>4, RefusalRelocates
  <2>2. Fits(channels[ch], ch, requests, shells, clients)
    BY <1>1 DEF ChannelsOK
  <2>3. channels[ch].stream = 0 /\ channels[ch].home = c
    BY <1>2, <1>4, <2>2 DEF Fits, AsksFit, Relocatable
  <2>4. c \in ConnIds /\ Made(c)
    BY <1>1, <1>2 DEF NetCore, Served
  <2>5. c \notin RoomFor(ch, c)
    BY <1>1, <1>4, <2>3, <2>4, NoRoomThere DEF Relocatable
  <2>6. Spawn(t) => t # c
    BY <2>4 DEF Spawn, IsFirst
  <2>7. t # c /\ channels' = [channels EXCEPT ![ch] = Rehomed(ch, t)]
    BY <2>1, <2>5, <2>6 DEF Relocates
  <2>8. Rehomed(ch, t).home = t
    BY <1>1, <1>4, RehomedTypes
  <2>9. channels'[ch].home = t /\ \A x \in ChannelIds \ {ch} : channels'[x] = channels[x]
    BY <1>1, <2>7, <2>8 DEF ChannelTypes
  <2>10. \A x \in ChannelIds : channels[x].relocations \in Nat
    BY <1>1, Bounds DEF ChannelTypes, Channel
  <2> QED
    BY <2>3, <2>7, <2>9, <2>10, Ids DEF RefusalMovesOn
<1> QED
  BY <1>3, <1>4

LEMMA RefusalsMove == ManagerInv /\ [Next]_vars => [RefusalMovesOn]_vars
<1> SUFFICES ASSUME ManagerInv, Next PROVE RefusalMovesOn
  OBVIOUS
<1>1. NetCore /\ NetTypes /\ ChannelTypes /\ ChannelCore
  BY DEF ManagerInv, CoreInv, BaseCore, NetCore, ChannelCore
<1>2. \A x \in ChannelIds : channels[x].relocations \in Nat /\ channels[x] \in Channel
  BY <1>1, Bounds DEF ChannelTypes, Channel
<1>3. CASE channels' = channels
  BY <1>2, <1>3 DEF RefusalMovesOn
<1>4. ASSUME NEW kind \in Kinds, OpenChannel(kind) PROVE RefusalMovesOn
  <2>1. PICK ch \in ChannelIds, c \in ConnIds :
           channels[ch].kind = "none" /\ channels' = [channels EXCEPT ![ch] = Record(kind, c)]
    BY <1>4, OpenChannelOpens
  <2>2. channels[ch].relocations = 0
    BY <1>1, <2>1 DEF ChannelCore, Blank, NoChannel
  <2>3. Record(kind, c).relocations = 0
    BY RecordTypes
  <2> QED
    BY <1>1, <2>1, <2>2, <2>3, NoRefusalMoves
<1>5. ASSUME NEW ch \in ChannelIds, SendData(ch) PROVE RefusalMovesOn
  <2>1. CASE channels' # channels
    <3> DEFINE r == [channels[ch] EXCEPT !.pending = Append(channels[ch].pending, "input")]
    <3>1. channels' = [channels EXCEPT ![ch] = r]
      BY <1>1, <1>5, <2>1 DEF SendData, ChannelTypes
    <3>2. r.relocations = channels[ch].relocations
      BY <1>2 DEF Channel
    <3> HIDE DEF r
    <3> QED
      BY <1>1, <3>1, <3>2, NoRefusalMoves
  <2> QED
    BY <1>3, <2>1
<1>6. ASSUME NEW ch \in ChannelIds, CloseChannel(ch) PROVE RefusalMovesOn
  <2>1. channels' = [channels EXCEPT ![ch] = Closed(channels[ch])]
    BY <1>1, <1>6 DEF CloseChannel, ChannelTypes
  <2>2. Closed(channels[ch]).relocations = channels[ch].relocations
    BY <1>2, ClosedTypes
  <2> QED
    BY <1>1, <2>1, <2>2, NoRefusalMoves
<1>7. CASE Disconnect
  <2>1. ASSUME NEW ch \in ChannelIds PROVE channels'[ch].relocations = channels[ch].relocations
    <3>1. channels'[ch] \in {channels[ch], Closed(channels[ch])}
      BY <1>1, <1>7, DisconnectChannels
    <3> QED
      BY <1>2, <3>1, ClosedTypes
  <2> QED
    BY <1>2, <2>1 DEF RefusalMovesOn
<1>8. ASSUME NEW k \in ClientIds, Ready(k) \/ HandshakeFails(k) PROVE RefusalMovesOn
  BY <1>3, <1>8 DEF Ready, HandshakeFails
<1>9. ASSUME NEW k \in ClientIds, Closes(k) \/ Drops(k) PROVE RefusalMovesOn
  <2>1. ClientCloses(k)
    BY <1>9 DEF Closes, Drops
  <2>2. ASSUME NEW ch \in ChannelIds PROVE channels'[ch].relocations = channels[ch].relocations
    BY <1>1, <2>1, CloseLeaves
  <2> QED
    BY <1>2, <2>2 DEF RefusalMovesOn
<1>10. ASSUME NEW k \in ClientIds, NEW ch \in ChannelIds,
              ShellOpens(k, ch) \/ ShellFails(k, ch) \/ RemoteCloses(k, ch)
       PROVE  RefusalMovesOn
  <2>1. CASE ShellFails(k, ch)
    <3>1. channels' = [channels EXCEPT ![ch] = Unopened(channels[ch], clients[k].conn)]
      BY <1>1, <2>1 DEF ShellFails, ChannelTypes
    <3>2. Unopened(channels[ch], clients[k].conn).relocations = channels[ch].relocations
      BY <1>2, UnopenedTypes
    <3> QED
      BY <1>1, <3>1, <3>2, NoRefusalMoves
  <2>2. CASE ShellOpens(k, ch) /\ channels' # channels
    <3>1. channels' = [channels EXCEPT ![ch] = Opened(channels[ch], k)]
      BY <1>1, <2>2 DEF ShellOpens, ChannelTypes
    <3>2. Opened(channels[ch], k).relocations = channels[ch].relocations
      BY <1>2, OpenedTypes
    <3> QED
      BY <1>1, <3>1, <3>2, NoRefusalMoves
  <2>3. CASE RemoteCloses(k, ch) /\ channels' # channels
    <3> DEFINE r == [channels[ch] EXCEPT !.stream = 0]
    <3>1. channels' = [channels EXCEPT ![ch] = r]
      BY <1>1, <2>3 DEF RemoteCloses, ChannelTypes
    <3>2. r.relocations = channels[ch].relocations
      BY <1>2 DEF Channel
    <3> HIDE DEF r
    <3> QED
      BY <1>1, <3>1, <3>2, NoRefusalMoves
  <2> QED
    BY <1>3, <1>10, <2>1, <2>2, <2>3
<1>11. ASSUME NEW c \in ConnIds, TimerFires(c) \/ Reopens(c) PROVE RefusalMovesOn
  BY <1>3, <1>11 DEF TimerFires, Reopens
<1> QED
  BY <1>4, <1>5, <1>6, <1>7, <1>8, <1>9, <1>10, <1>11, RefusalMoves DEF Next

(* A refusal that is taken over moves the channel: what was learned leaves  *)
(* no room where it was, and a connection made for it is another one        *)
(* (relocateRefusedChannel's way out for target === conn is taken only for  *)
(* a channel opened by a listener of 'connected', whose first shell counts  *)
(* among the live ones when the second is refused).                         *)
THEOREM RefusalsGoElsewhere == ASSUME ~CloseLags PROVE Spec => RefusalsMoveOn
<1> QED
  BY RefusalsMove, ManagerKeepsInv, PTL DEF Spec, RefusalsMoveOn

================================================================================
