--------------------------- MODULE ConnectionManager ---------------------------
(***************************************************************************)
(* The SSH transport of one profile, server/src/ssh/connection-manager.ts:  *)
(* a pool of connections, each with the ssh2 Client it uses now, and the    *)
(* channels multiplexed over them.  A connection that drops is redialled    *)
(* with a new Client and reopens its channels; a connection whose server    *)
(* refuses a channel hands it to another one.                               *)
(* Around it: the sshd and the network, which answer or fail the requests   *)
(* that are out, and the callers of the public methods.                     *)
(***************************************************************************)
EXTENDS Integers, Sequences, FiniteSets

CONSTANTS
    MaxConns,              \* bound: connections ever made
    MaxClients,            \* bound: Clients ever made
    MaxChannels,           \* bound: channels ever opened
    MaxAnnounced,          \* bound: those of them that listeners of 'connected' open
    MaxFaults,             \* bound: failures of keys, handshakes and connections
    MaxReconnectAttempts,  \* maxReconnectAttempts
    ControlReserve,        \* CONTROL_RESERVE
    MaxRelocations,        \* MAX_CHANNEL_RELOCATIONS
    Kinds,                 \* what the callers open, of ChannelKind
    CloseLags              \* a Client that failed may close after the backoff is over

(* session: a terminal with its initCommand, which the caller also types    *)
(* first; shell: a terminal without one; query: a channel without pty.      *)
ChannelKind == {"session", "shell", "query"}

ASSUME ManagerAssumption ==
    /\ {MaxConns, MaxClients, MaxChannels, MaxFaults, MaxReconnectAttempts} \subseteq Nat
    /\ MaxAnnounced \in Nat
    /\ ControlReserve \in Nat
    /\ MaxRelocations \in Nat
    /\ Kinds \subseteq ChannelKind
    /\ CloseLags \in BOOLEAN

ConnIds == 1..MaxConns
ClientIds == 1..MaxClients
ChannelIds == 1..MaxChannels

VARIABLES
    conns,     \* the ProfileConnections, in the order of the pool
    timers,    \* the scheduled reconnects of each connection
    clients,   \* the ssh2 Clients: the connection that made it and how far it is
    channels,  \* the ChannelRecords
    announcing, \* the connection whose 'connected' is being told, 0 if none
    requests,  \* shell() calls that are out: <<client, channel>>
    again,     \* those of them that are out twice
    shells,    \* the shells the sshd runs and nobody has ended, and what was typed first
    strays,    \* older shells of such calls: nothing is sent to them, and they run on
    ceiling,   \* observedCeiling; 0: never refused
    faults     \* failures so far

vars == <<conns, timers, clients, channels, announcing, requests, again, shells, strays,
          ceiling, faults>>

ConnState == {"none", "connecting", "connected", "reconnecting", "error", "closed"}
Conn == [state: ConnState, client: 0..MaxClients, attempts: 0..MaxReconnectAttempts,
         reconnecting: BOOLEAN, disposed: BOOLEAN]
NoConn == [state |-> "none", client |-> 0, attempts |-> 0,
           reconnecting |-> FALSE, disposed |-> FALSE]

(* failed: the error event is out, the close event is not; ending: end()    *)
(* was called.                                                              *)
Client == [conn: 0..MaxConns, phase: {"none", "dialing", "ready", "failed", "ending", "closed"}]
NoClient == [conn |-> 0, phase |-> "none"]

(* home: the connection whose map holds the record, 0 if none does.  stream *)
(* is the Client of the live stream, 0 for null.  announced is no field of  *)
(* the record: the channel was opened by a listener of 'connected'.         *)
Channel == [kind: ChannelKind \cup {"none"}, home: 0..MaxConns, stream: 0..MaxClients,
            everOpened: BOOLEAN, pending: Seq({"init", "input"}),
            relocations: 0..MaxRelocations, closed: BOOLEAN, announced: BOOLEAN]
NoChannel == [kind |-> "none", home |-> 0, stream |-> 0, everOpened |-> FALSE,
              pending |-> <<>>, relocations |-> 0, closed |-> FALSE, announced |-> FALSE]

(* fresh: nothing typed; attached: the first command, once, before anything *)
(* else; twice: again; bare: input reached a shell without it.              *)
ShellMode == {"none", "fresh", "attached", "twice", "bare"}

TypeOK ==
    /\ conns \in [ConnIds -> Conn]
    /\ timers \in [ConnIds -> Nat]
    /\ clients \in [ClientIds -> Client]
    /\ channels \in [ChannelIds -> Channel]
    /\ announcing \in 0..MaxConns
    /\ requests \subseteq ClientIds \X ChannelIds
    /\ again \subseteq requests
    /\ shells \in [ClientIds \X ChannelIds -> ShellMode]
    /\ strays \subseteq ClientIds \X ChannelIds
    /\ ceiling \in 0..MaxChannels
    /\ faults \in 0..MaxFaults

Init ==
    /\ conns = [c \in ConnIds |-> NoConn]
    /\ timers = [c \in ConnIds |-> 0]
    /\ clients = [k \in ClientIds |-> NoClient]
    /\ channels = [ch \in ChannelIds |-> NoChannel]
    /\ announcing = 0
    /\ requests = {}
    /\ again = {}
    /\ shells = [p \in ClientIds \X ChannelIds |-> "none"]
    /\ strays = {}
    /\ ceiling = 0
    /\ faults = 0

-------------------------------------------------------------------------------
(* The pool.                                                                *)

Made(c) == conns[c].state # "none"
Pool == {c \in ConnIds : Made(c) /\ ~conns[c].disposed}
(* The program runs one callback at a time: until the event 'connected' is  *)
(* over, nothing happens but what its listeners do.                         *)
Settled == announcing = 0

Registered(chs, c) == {ch \in ChannelIds : chs[ch].home = c}

IsFirst(c, S) == c \in S /\ \A d \in S : c <= d

(* pickConnection: while no ceiling is known everything goes to the first   *)
(* connection; then a terminal leaves the reserve free.  An empty set asks  *)
(* for another connection.                                                  *)
Budget(kind, ceil) ==
    IF kind = "query" THEN ceil
    ELSE IF ceil > ControlReserve THEN ceil - ControlReserve ELSE 1

(* Faulty variant: the default of the sshd is taken for the ceiling.        *)
WithHardCodedRoom(chs, kind, ceil) ==
    {c \in Pool : Cardinality(Registered(chs, c)) < 2}

WithRoom(chs, kind, ceil) ==
    IF ceil = 0 THEN Pool
    ELSE {c \in Pool : Cardinality(Registered(chs, c)) < Budget(kind, ceil)}

-------------------------------------------------------------------------------
(* Dialling.                                                                *)

(* Faulty variant: the flag of the pending reconnect is not looked at.      *)
SkipsDisposed(row) == row.disposed

(* scheduleReconnect: when it returns at once, whether it takes a timer,    *)
(* and what it leaves of the row.                                           *)
Skips(row) == row.disposed \/ row.reconnecting

Schedules(row) == ~Skips(row) /\ row.attempts < MaxReconnectAttempts

(* Faulty variant: it never gives up.                                       *)
RescheduledForEver(row) ==
    IF Skips(row) THEN row
    ELSE [row EXCEPT !.reconnecting = TRUE, !.state = "reconnecting", !.attempts = @ + 1]

Rescheduled(row) ==
    IF Skips(row) THEN row
    ELSE IF row.attempts >= MaxReconnectAttempts THEN [row EXCEPT !.state = "error"]
    ELSE [row EXCEPT !.reconnecting = TRUE, !.state = "reconnecting", !.attempts = @ + 1]

ScheduleReconnect(c) ==
    /\ conns' = [conns EXCEPT ![c] = Rescheduled(@)]
    /\ timers' = [timers EXCEPT ![c] = IF Schedules(conns[c]) THEN @ + 1 ELSE @]

Trouble == faults < MaxFaults /\ faults' = faults + 1

(* A new Client for connection c, whose row is row before, and connect():   *)
(* it dials; or client.connect throws; or the key cannot be read.           *)
Connect(c, row, left) ==
    \E k \in ClientIds :
        /\ IsFirst(k, {j \in ClientIds : clients[j].phase = "none"})
        /\ \/ /\ clients' = [clients EXCEPT ![k] = [conn |-> c, phase |-> "dialing"]]
              /\ conns' = [conns EXCEPT ![c] = [row EXCEPT !.client = k]]
              /\ timers' = [timers EXCEPT ![c] = left]
              /\ UNCHANGED faults
           \/ /\ Trouble
              /\ clients' = [clients EXCEPT ![k] = [conn |-> c, phase |-> "closed"]]
              /\ \/ /\ conns' = [conns EXCEPT ![c] = Rescheduled([row EXCEPT !.client = k])]
                    /\ timers' = [timers EXCEPT ![c] = IF Schedules(row) THEN left + 1 ELSE left]
                 \/ /\ conns' = [conns EXCEPT ![c] = [row EXCEPT !.client = k, !.state = "error"]]
                    /\ timers' = [timers EXCEPT ![c] = left]

(* spawnConnection: the next connection of the pool.                        *)
Spawn(c) ==
    /\ IsFirst(c, {d \in ConnIds : ~Made(d)})
    /\ Connect(c, [NoConn EXCEPT !.state = "connecting"], 0)

(* The backoff of connection c is over, and long enough, unless CloseLags,  *)
(* for the Client that failed to have closed.                               *)
TimerFires(c) ==
    /\ Settled
    /\ timers[c] > 0
    /\ CloseLags \/ \A k \in ClientIds : clients[k].conn = c => clients[k].phase # "failed"
    /\ IF conns[c].disposed
         THEN /\ timers' = [timers EXCEPT ![c] = @ - 1]
              /\ UNCHANGED <<conns, clients, faults>>
         ELSE Connect(c, [conns[c] EXCEPT !.reconnecting = FALSE], timers[c] - 1)
    /\ UNCHANGED <<channels, announcing, requests, again, shells, strays, ceiling>>

-------------------------------------------------------------------------------
(* What a Client reports.                                                   *)

(* 'ready', up to the event 'connected'.  What its listeners do, they do    *)
(* before the handler goes on: polling and adoption open their queries, the *)
(* test of a profile closes its channel.                                    *)
Ready(k) ==
    LET c == clients[k].conn IN
    /\ Settled
    /\ clients[k].phase = "dialing"
    /\ clients' = [clients EXCEPT ![k].phase = "ready"]
    /\ conns' = [conns EXCEPT ![c].attempts = 0, ![c].reconnecting = FALSE,
                              ![c].state = "connected"]
    /\ announcing' = c
    /\ UNCHANGED <<timers, channels, requests, again, shells, strays, ceiling, faults>>

(* The rest of 'ready': every record of the connection asks for its shell,  *)
(* of the Client the connection has now; also one that has just been opened *)
(* by a listener, and has asked by itself.                                  *)
Reopens(c) ==
    LET asks == {conns[c].client} \X Registered(channels, c) IN
    /\ announcing = c
    /\ announcing' = 0
    /\ again' = again \cup (asks \cap requests)
    /\ requests' = requests \cup asks
    /\ UNCHANGED <<conns, timers, clients, channels, shells, strays, ceiling, faults>>

(* 'error' before the handshake is over; 'close' is still to come.          *)
HandshakeFails(k) ==
    /\ Settled
    /\ clients[k].phase = "dialing"
    /\ Trouble
    /\ clients' = [clients EXCEPT ![k].phase = "failed"]
    /\ ScheduleReconnect(clients[k].conn)
    /\ UNCHANGED <<channels, announcing, requests, again, shells, strays, ceiling>>

(* Faulty variant: every channel that does not open is forgotten.           *)
UnopenedForgotten(record, c) ==
    IF record.home = c THEN [record EXCEPT !.home = 0] ELSE record

(* The end of openStream's callback when nobody takes the channel over: a   *)
(* query is forgotten, a terminal waits for the next connection.            *)
Unopened(record, c) ==
    IF record.kind = "query" /\ record.home = c THEN [record EXCEPT !.home = 0] ELSE record

(* 'close': the shell() calls that are out fail, the streams are dropped    *)
(* and the records stay.                                                    *)
ClientCloses(k) ==
    LET c == clients[k].conn
        out == {ch \in ChannelIds : <<k, ch>> \in requests}
        after(ch) == IF ch \in out THEN Unopened(channels[ch], c) ELSE channels[ch]
    IN  /\ clients' = [clients EXCEPT ![k].phase = "closed"]
        /\ channels' = [ch \in ChannelIds |->
              IF after(ch).home = c THEN [after(ch) EXCEPT !.stream = 0] ELSE after(ch)]
        /\ requests' = requests \ ({k} \X ChannelIds)
        /\ again' = again \ ({k} \X ChannelIds)
        /\ shells' = [p \in ClientIds \X ChannelIds |-> IF p[1] = k THEN "none" ELSE shells[p]]
        /\ strays' = strays \ ({k} \X ChannelIds)
        /\ ScheduleReconnect(c)
        /\ UNCHANGED <<announcing, ceiling>>

Closes(k) ==
    /\ Settled
    /\ clients[k].phase \in {"failed", "ending"}
    /\ ClientCloses(k)
    /\ UNCHANGED faults

(* A connection that was up is lost: 'error', if any, and 'close' come      *)
(* together, and the first of them schedules the reconnect.                 *)
Drops(k) ==
    /\ Settled
    /\ clients[k].phase = "ready"
    /\ Trouble
    /\ ClientCloses(k)

-------------------------------------------------------------------------------
(* What shell() reports.                                                    *)

(* One call for this shell is answered; the other, if it is out twice, is   *)
(* still to come.                                                           *)
Left(k, ch) == IF <<k, ch>> \in again THEN requests ELSE requests \ {<<k, ch>>}

Answered(k, ch) ==
    /\ Settled
    /\ <<k, ch>> \in requests
    /\ clients[k].phase \in {"ready", "ending"}
    /\ again' = again \ {<<k, ch>>}

Answers(k, ch) == Answered(k, ch) /\ requests' = Left(k, ch)

(* What a shell has seen once the writes w are its first.                   *)
ModeOf(w) ==
    IF w = <<>> THEN "fresh"
    ELSE IF w[1] = "input" THEN "bare"
    ELSE IF \E i \in 2..Len(w) : w[i] = "init" THEN "twice"
    ELSE "attached"

(* Faulty variant: a reopened session is a bare shell.                      *)
NeverReplayed(record) == <<>>

(* A reopened session is attached again before anything that waits.         *)
Replayed(record) ==
    IF record.everOpened /\ record.kind = "session" THEN <<"init">> ELSE <<>>

Opened(record, k) == [record EXCEPT !.stream = k, !.everOpened = TRUE, !.pending = <<>>]

(* Faulty variant: the shell is taken whatever became of the channel.       *)
ShellOpensAnyway(k, ch) ==
    /\ Answers(k, ch)
    /\ channels' = [channels EXCEPT ![ch] = Opened(@, k)]
    /\ shells' = [shells EXCEPT ![<<k, ch>>] = ModeOf(Replayed(channels[ch]) \o channels[ch].pending)]
    /\ UNCHANGED <<conns, timers, clients, announcing, strays, ceiling, faults>>

(* A channel closed, or a connection disposed of, while the shell opened:   *)
(* the shell is ended at once.  Else it becomes the stream, and a shell     *)
(* that the same call had brought before runs on without a holder.          *)
ShellOpens(k, ch) ==
    LET c == clients[k].conn
        record == channels[ch]
    IN  /\ Answers(k, ch)
        /\ IF record.closed \/ conns[c].disposed \/ record.home # c
             THEN UNCHANGED <<channels, shells, strays>>
             ELSE /\ channels' = [channels EXCEPT ![ch] = Opened(@, k)]
                  /\ shells' = [shells EXCEPT ![<<k, ch>>] =
                                  ModeOf(Replayed(record) \o record.pending)]
                  /\ strays' = IF shells[<<k, ch>>] = "none" THEN strays
                               ELSE strays \cup {<<k, ch>>}
        /\ UNCHANGED <<conns, timers, clients, announcing, ceiling, faults>>

(* Faulty variant: a channel's error is taken for the connection's.         *)
ShellFailsReconnects(k, ch) ==
    /\ Answers(k, ch)
    /\ ScheduleReconnect(clients[k].conn)
    /\ UNCHANGED <<clients, channels, announcing, shells, strays, ceiling, faults>>

(* An error that is no refusal.                                             *)
ShellFails(k, ch) ==
    /\ Answers(k, ch)
    /\ channels' = [channels EXCEPT ![ch] = Unopened(@, clients[k].conn)]
    /\ UNCHANGED <<conns, timers, clients, announcing, shells, strays, ceiling, faults>>

(* relocateRefusedChannel refuses to act.                                   *)
Live(c) == {ch \in Registered(channels, c) : channels[ch].stream # 0}
Relocatable(c, record) ==
    /\ ~record.closed
    /\ ~conns[c].disposed
    /\ record.relocations < MaxRelocations
    /\ Live(c) # {}

Min2(a, b) == IF a < b THEN a ELSE b

(* Faulty variant: the records are counted, open or not.                    *)
LearnedFromRecords(c) ==
    LET known == Cardinality(Registered(channels, c)) IN
    IF ceiling = 0 THEN known ELSE Min2(ceiling, known)

Learned(c) ==
    LET live == Cardinality(Live(c)) IN IF ceiling = 0 THEN live ELSE Min2(ceiling, live)

(* openStream is called at once when the connection is up, by 'ready' else. *)
Asked(c, ch) == IF conns[c].state = "connected" THEN {<<conns[c].client, ch>>} ELSE {}

(* A refusal.  The ceiling is learned from the streams that are live, the   *)
(* channel leaves the connection and finds another one; if that is the same *)
(* one nothing has been gained, and the channel stays unopened.             *)
ShellRefused(k, ch) ==
    LET c == clients[k].conn
        moved == [channels EXCEPT ![ch].home = 0, ![ch].relocations = @ + 1]
        room == WithRoom(moved, channels[ch].kind, Learned(c))
        left == Left(k, ch)
    IN  /\ Answered(k, ch)
        /\ IF ~Relocatable(c, channels[ch])
             THEN /\ channels' = [channels EXCEPT ![ch] = Unopened(@, c)]
                  /\ requests' = left
                  /\ UNCHANGED <<conns, timers, clients, ceiling, faults>>
             ELSE /\ ceiling' = Learned(c)
                  /\ \/ \E t \in ConnIds :
                          /\ IsFirst(t, room)
                          /\ channels' = [moved EXCEPT ![ch] =
                                IF t = c THEN Unopened([@ EXCEPT !.home = c], c)
                                         ELSE [@ EXCEPT !.home = t]]
                          /\ requests' = IF t = c THEN left ELSE left \cup Asked(t, ch)
                          /\ UNCHANGED <<conns, timers, clients, faults>>
                     \/ /\ room = {}
                        /\ \E t \in ConnIds :
                             /\ Spawn(t)
                             /\ channels' = [moved EXCEPT ![ch].home = t]
                        /\ requests' = left
        /\ UNCHANGED <<announcing, shells, strays>>

(* The shell exits, or the sshd ends it: the record stays, without stream.  *)
RemoteCloses(k, ch) ==
    /\ Settled
    /\ shells[<<k, ch>>] # "none"
    /\ shells' = [shells EXCEPT ![<<k, ch>>] = "none"]
    /\ channels' = IF channels[ch].home = clients[k].conn /\ channels[ch].stream = k
                     THEN [channels EXCEPT ![ch].stream = 0] ELSE channels
    /\ UNCHANGED <<conns, timers, clients, announcing, requests, again, strays, ceiling, faults>>

-------------------------------------------------------------------------------
(* The public methods.                                                      *)

(* openChannel, with the write the caller makes before anything else runs:  *)
(* the attach command of a session, the command of a query.  It throws when *)
(* every connection of the pool is at its end.  The listeners of            *)
(* 'connected' open queries only (runQuery).                                *)
OpenChannel(kind) ==
    LET record == [NoChannel EXCEPT !.kind = kind,
                                    !.pending = IF kind = "shell" THEN <<>> ELSE <<"init">>,
                                    !.announced = announcing # 0]
        room == WithRoom(channels, kind, ceiling)
        heard == {x \in ChannelIds : channels[x].announced}
    IN  /\ announcing # 0 => kind = "query" /\ Cardinality(heard) < MaxAnnounced
        /\ Pool # {} => \E c \in Pool : conns[c].state \notin {"error", "closed"}
        /\ \E ch \in ChannelIds :
             /\ IsFirst(ch, {x \in ChannelIds : channels[x].kind = "none"})
             /\ \/ \E c \in ConnIds :
                     /\ IsFirst(c, room)
                     /\ channels' = [channels EXCEPT ![ch] = [record EXCEPT !.home = c]]
                     /\ requests' = requests \cup Asked(c, ch)
                     /\ UNCHANGED <<conns, timers, clients, faults>>
                \/ /\ room = {}
                   /\ \E c \in ConnIds :
                        /\ Spawn(c)
                        /\ channels' = [channels EXCEPT ![ch] = [record EXCEPT !.home = c]]
                   /\ UNCHANGED requests
        /\ UNCHANGED <<announcing, again, shells, strays, ceiling>>

(* sendData: what an operator types.  Input after input that waits adds     *)
(* nothing to tell apart.                                                   *)
SendData(ch) ==
    LET record == channels[ch] IN
    /\ Settled
    /\ record.home # 0
    /\ record.kind # "query"
    /\ IF record.stream # 0
         THEN /\ shells' = [shells EXCEPT ![<<record.stream, ch>>] = IF @ = "fresh" THEN "bare" ELSE @]
              /\ UNCHANGED channels
         ELSE /\ \A i \in DOMAIN record.pending : record.pending[i] # "input"
              /\ channels' = [channels EXCEPT ![ch].pending = Append(@, "input")]
              /\ UNCHANGED shells
    /\ UNCHANGED <<conns, timers, clients, announcing, requests, again, strays, ceiling, faults>>

Closed(record) == [record EXCEPT !.closed = TRUE, !.home = 0, !.stream = 0, !.pending = <<>>]

(* closeChannel: the stream, if there is one, is ended.                     *)
CloseChannel(ch) ==
    LET record == channels[ch] IN
    /\ record.home # 0
    /\ channels' = [channels EXCEPT ![ch] = Closed(@)]
    /\ shells' = IF record.stream = 0 THEN shells
                 ELSE [shells EXCEPT ![<<record.stream, ch>>] = "none"]
    /\ UNCHANGED <<conns, timers, clients, announcing, requests, again, strays, ceiling, faults>>

(* disconnect: every connection of the pool is disposed of, its channels    *)
(* closed, the Client it has now ended, and the pool with its ceiling gone. *)
Disconnect ==
    LET ended == {conns[c].client : c \in Pool}
        gone(ch) == channels[ch].home \in Pool
    IN  /\ Settled
        /\ Pool # {}
        /\ conns' = [c \in ConnIds |-> IF c \in Pool
                       THEN [conns[c] EXCEPT !.disposed = TRUE, !.state = "closed"]
                       ELSE conns[c]]
        /\ channels' = [ch \in ChannelIds |-> IF gone(ch) THEN Closed(channels[ch])
                                                          ELSE channels[ch]]
        /\ shells' = [p \in ClientIds \X ChannelIds |->
                        IF gone(p[2]) /\ channels[p[2]].stream = p[1] THEN "none" ELSE shells[p]]
        /\ clients' = [k \in ClientIds |->
                        IF k \in ended /\ clients[k].phase # "closed"
                          THEN [clients[k] EXCEPT !.phase = "ending"] ELSE clients[k]]
        /\ ceiling' = 0
        /\ UNCHANGED <<timers, announcing, requests, again, strays, faults>>

Next ==
    \/ \E kind \in Kinds : OpenChannel(kind)
    \/ \E ch \in ChannelIds : CloseChannel(ch)
    \/ \E c \in ConnIds : Reopens(c)
    \/ \E ch \in ChannelIds : SendData(ch)
    \/ Disconnect
    \/ \E c \in ConnIds : TimerFires(c)
    \/ \E k \in ClientIds : Ready(k) \/ HandshakeFails(k) \/ Closes(k) \/ Drops(k)
    \/ \E k \in ClientIds, ch \in ChannelIds :
         ShellOpens(k, ch) \/ ShellFails(k, ch) \/ ShellRefused(k, ch) \/ RemoteCloses(k, ch)

Spec == Init /\ [][Next]_vars

-------------------------------------------------------------------------------
(* Safety.                                                                  *)

(* A shell of the sshd is the stream of a registered channel of the         *)
(* connection it runs on.                                                   *)
HeldShell(k, ch) ==
    /\ <<k, ch>> \notin strays
    /\ shells[<<k, ch>>] # "none" =>
          channels[ch].home = clients[k].conn /\ channels[ch].stream = k

(* No shell runs that nobody holds, whatever closes while it opens, moves   *)
(* or drops (the closed flag in openStream), of a channel that was not      *)
(* opened by a listener of 'connected'.                                     *)
NoLeakedShell ==
    \A k \in ClientIds, ch \in ChannelIds : ~channels[ch].announced => HeldShell(k, ch)

(* A session's shell has had its attach command, once and before any input, *)
(* on the first opening, after a drop and after a relocation (initCommand   *)
(* and everOpened in openStream), and nothing that was typed still waits    *)
(* behind it (pendingWrites).                                               *)
SessionsAttached ==
    /\ \A k \in ClientIds, ch \in ChannelIds :
          channels[ch].kind = "session" => shells[<<k, ch>>] \in {"none", "attached"}
    /\ \A ch \in ChannelIds : channels[ch].stream # 0 => channels[ch].pending = <<>>

(* One reconnect at a time, and the flag tells: a pool connection has a     *)
(* timer exactly when the flag is up, and shows it (scheduleReconnect).     *)
ReconnectIsSerial ==
    \A c \in Pool :
        /\ timers[c] = IF conns[c].reconnecting THEN 1 ELSE 0
        /\ conns[c].reconnecting => conns[c].state = "reconnecting"

(* One TCP connection for each pool connection: a Client is replaced only   *)
(* when it is over (the header's invariant).                                *)
OneTcpPerConnection ==
    \A j, k \in ClientIds :
        clients[j].phase \in {"dialing", "ready"} /\ clients[k].phase \in {"dialing", "ready"}
            /\ clients[j].conn = clients[k].conn => j = k

(* A profile has one connection until a server has refused it a channel     *)
(* (spawnConnection, relocateRefusedChannel).                               *)
PoolGrowsUnderRefusal == Cardinality(Pool) > 1 => ceiling # 0

(* A terminal is forgotten only when it is closed: no drop, refusal or      *)
(* failed opening loses it (the record kept in openStream and 'close').     *)
TerminalIsKept ==
    \A ch \in ChannelIds :
        channels[ch].home # 0 /\ channels'[ch].home = 0 /\ channels[ch].kind # "query"
            => channels'[ch].closed
TerminalsAreKept == [][TerminalIsKept]_vars

(* A refusal that is taken over moves the channel to another connection:    *)
(* what has just been learned leaves no room where it was (the way out of   *)
(* relocateRefusedChannel for target === conn), unless the channel was      *)
(* opened by a listener of 'connected' and its first shell is counted.      *)
RefusalMovesOn ==
    \A ch \in ChannelIds :
        ~channels[ch].announced /\ channels'[ch].relocations > channels[ch].relocations =>
            channels'[ch].home \notin {0, channels[ch].home}
RefusalsMoveOn == [][RefusalMovesOn]_vars

-------------------------------------------------------------------------------
(* What the code says of itself and does not do.                            *)

(* While the pool has a usable connection no channel is acked on one that   *)
(* has reached its end (openChannel, pickConnection).                       *)
NoDeadAck ==
    [][\A ch \in ChannelIds :
         channels[ch].kind = "none" /\ channels'[ch].home # 0
             => conns[channels'[ch].home].state \notin {"error", "closed"}]_vars

(* No shell is leaked to the sshd, those of the queries that polling and    *)
(* adoption open in the event 'connected' included (openStream: "para não   *)
(* vazar um slot de sessão no sshd").                                       *)
EveryShellIsHeld == \A k \in ClientIds, ch \in ChannelIds : HeldShell(k, ch)

===============================================================================
