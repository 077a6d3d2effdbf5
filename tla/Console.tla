-------------------------------- MODULE Console --------------------------------
(***************************************************************************)
(* The terminals of one profile between the pages and the host: the tiles   *)
(* of each page (App, useSessions), the WebSocket of each page with the     *)
(* channels that it owns, the routes of the ProfileConnectionManager, the   *)
(* channels of the manager behind it, LocalConnectionManager or that of     *)
(* SSH, and the tmux sessions that the channels attach.                     *)
(* The manager of SSH is a detailed module of its own, ConnectionManager;   *)
(* here it is a pool of connections, each with the state that setState      *)
(* emits, and which of them carries a channel is left out.                  *)
(* What the server sends a page is handled at once: the delay of the socket *)
(* is all on the way to the server, which gives the same orders of events.  *)
(***************************************************************************)
EXTENDS Integers, Sequences, FiniteSets

CONSTANTS
    Pages,         \* pages of the console, each with its socket
    Sessions,      \* names of sessions
    Connections,   \* bound: the connections of the pool of the profile
    MaxChannels,   \* bound: channels ever opened
    MaxEvents,     \* bound: clicks, faults of the connection, and pages loaded
    NoSession

ASSUME ConsoleAssumption == NoSession \notin Sessions /\ {MaxChannels, MaxEvents} \subseteq Nat

ChannelIds == 1..MaxChannels

VARIABLES
    kind,      \* the kind of the profile
    gone,      \* whether it was deleted
    pool,      \* the state of each of its connections
    channels,  \* the channels of the manager
    routes,    \* channelRoutes
    sockets,   \* the WebSocket of each page, and its socketChannels
    wires,     \* what each page sent and the server has not handled
    tests,     \* the channels of profile:test-connection that wait for an outcome
    tiles,     \* the tiles of each page
    banners,   \* the tiles of each page that say "Reconectando..."
    asked,     \* history: the opens that a page has sent and were not answered
    left,      \* history: channels whose tile was taken away by a delete
    ended,     \* history: channels that the manager closed of itself
    orphans,   \* history: channels whose row could not be written
    events     \* clicks and faults so far

consoleVars == <<kind, gone, pool, channels, routes, sockets, wires, tests, tiles, banners,
                 asked, left, ended, orphans, events>>

(* closing: the page is gone or cut off, and the server has not seen it.    *)
Socket == [state: {"open", "closing", "closed"}, owns: SUBSET ChannelIds]
Tile == [channel: ChannelIds, session: Sessions]
Message == [type: {"create", "close", "test"}, session: Sessions \cup {NoSession},
            channel: 0..MaxChannels]

OpenChannels == {c \in ChannelIds : channels[c] = "open"}
Unused == {c \in ChannelIds : channels[c] = "none"}
Dialled == {k \in Connections : pool[k] # "none"}
ConnectionStates == {"none", "connecting", "connected", "reconnecting", "error"}

ConsoleTypeOK ==
    /\ kind \in {"ssh", "local"}
    /\ gone \in BOOLEAN
    /\ pool \in [Connections -> ConnectionStates]
    /\ channels \in [ChannelIds -> {"none", "open", "closed"}]
    /\ routes \in SUBSET ChannelIds
    /\ sockets \in [Pages -> Socket]
    /\ \A p \in Pages : \A i \in DOMAIN wires[p] : wires[p][i] \in Message
    /\ tests \in SUBSET ChannelIds
    /\ tiles \in [Pages -> SUBSET Tile]
    /\ banners \in [Pages -> SUBSET ChannelIds]
    /\ asked \in [Pages -> 0..MaxEvents]
    /\ {left, ended, orphans} \subseteq SUBSET ChannelIds
    /\ events \in 0..MaxEvents

ConsoleInit ==
    /\ kind \in {"ssh", "local"}
    /\ gone = FALSE
    /\ pool = [k \in Connections |-> "none"]
    /\ channels = [c \in ChannelIds |-> "none"]
    /\ routes = {}
    /\ sockets = [p \in Pages |-> [state |-> "open", owns |-> {}]]
    /\ wires = [p \in Pages |-> <<>>]
    /\ tests = {}
    /\ tiles = [p \in Pages |-> {}]
    /\ banners = [p \in Pages |-> {}]
    /\ asked = [p \in Pages |-> 0]
    /\ left = {} /\ ended = {} /\ orphans = {}
    /\ events = 0

Event == events < MaxEvents /\ events' = events + 1

(***************************************************************************)
(* The page.                                                                *)
(***************************************************************************)
IsOpen(p) == sockets[p].state = "open"

(* WsClient.send: dropped by a socket that is not open.                     *)
Send(p, message) == wires' = IF IsOpen(p) THEN [wires EXCEPT ![p] = Append(@, message)] ELSE wires

CreateMessage(s) == [type |-> "create", session |-> s, channel |-> 0]
CloseMessage(c) == [type |-> "close", session |-> NoSession, channel |-> c]
TestMessage == [type |-> "test", session |-> NoSession, channel |-> 0]

(* The messages under way that may each take a channel.                     *)
Takers == {w \in Pages \X (1..MaxEvents) :
               w[2] \in DOMAIN wires[w[1]] /\ wires[w[1]][w[2]].type # "close"}

(* Bound of the model: no click that would find no channel left, so that    *)
(* Unused is never empty where a channel is opened.                         *)
ChannelsLeft == Cardinality(Takers) < Cardinality(Unused)

isSessionOpen(p, s) == \E t \in tiles[p] : t.session = s

(* The form creates a session or opens a known one, open already or not.    *)
handleSubmit(p, s) ==
    /\ ChannelsLeft /\ Event
    /\ Send(p, CreateMessage(s))
    /\ asked' = [asked EXCEPT ![p] = IF IsOpen(p) THEN @ + 1 ELSE @]
    /\ UNCHANGED <<kind, gone, pool, channels, routes, sockets, tests, tiles, banners, left,
                   ended, orphans>>

(* A session that has a tile is not opened again from the sidebar.          *)
handleOpenSession(p, s) == ~isSessionOpen(p, s) /\ handleSubmit(p, s)

RemoveTile(p, t) ==
    /\ tiles' = [tiles EXCEPT ![p] = @ \ {t}]
    /\ banners' = [banners EXCEPT ![p] = @ \ {t.channel}]

(* The tab is closed: its channel is, and the tile goes.                    *)
handleCloseTile(p, t) ==
    /\ Event
    /\ Send(p, CloseMessage(t.channel))
    /\ RemoveTile(p, t)
    /\ UNCHANGED <<kind, gone, pool, channels, routes, sockets, tests, asked, left, ended, orphans>>

(* The session was deleted: the tile of the page that asked goes, without a *)
(* word to the channel.                                                     *)
handleDeleteSession(p, t) ==
    /\ Event
    /\ RemoveTile(p, t)
    /\ left' = left \cup {t.channel}
    /\ UNCHANGED <<kind, gone, pool, channels, routes, sockets, wires, tests, asked, ended, orphans>>

(* The connection test of a profile, from the settings.                     *)
handleTestConnection(p) ==
    /\ ChannelsLeft /\ Event
    /\ Send(p, TestMessage)
    /\ UNCHANGED <<kind, gone, pool, channels, routes, sockets, tests, tiles, banners, asked, left,
                   ended, orphans>>

(* addTileFromAck: no tile for a session that has one.                      *)
AddsTile(p, c, s) == \A t \in tiles[p] : t.channel # c /\ t.session # s

(***************************************************************************)
(* The channels of the manager.                                             *)
(***************************************************************************)
(* The id of a new channel is a fresh one, whichever.                       *)
NextChannel == CHOOSE c \in Unused : TRUE

(* closeChannel: the record goes, and channelClose takes the route with it. *)
(* A channel without a record is left alone by both managers.  New ones get *)
(* a record and a route.                                                    *)
Moves(new, closed) ==
    /\ channels' = [c \in ChannelIds |->
                       IF c \in new THEN "open"
                       ELSE IF c \in closed /\ channels[c] = "open" THEN "closed" ELSE channels[c]]
    /\ routes' = (routes \cup new) \ closed

CloseAll(cs) == Moves({}, cs)

(* Faulty variant: the state is told to the pages with one channel only.    *)
OwnsOne(p) == IsOpen(p) /\ Cardinality(sockets[p].owns) = 1

(* ownsProfile: the pages that are told the states of the profile.          *)
ownsProfile(p) == IsOpen(p) /\ sockets[p].owns # {}

(* setState: whichever connection it is, the state goes out as that of the  *)
(* profile, and the tiles of every owner follow it.                         *)
setState(k, state) ==
    /\ pool' = [pool EXCEPT ![k] = state]
    /\ banners' = [p \in Pages |->
                      IF ~ownsProfile(p) \/ state \notin {"connected", "reconnecting"} THEN banners[p]
                      ELSE IF state = "connected" THEN {} ELSE {t.channel : t \in tiles[p]}]

(* The tests that a state ends, each with its channel: any connection will do. *)
TestsOver(state) == IF state \in {"connected", "error"} THEN tests ELSE {}

(* A dial that fails at once, for want of the key or of a Client, is told   *)
(* before openChannel returns.  The host itself is connected by then.       *)
Outcomes == IF kind = "local" THEN {"connected"} ELSE {"connecting", "reconnecting", "error"}

(* stateOf: connected, if any connection is.                                *)
IsConnected == \E k \in Connections : pool[k] = "connected"

(* openChannel throws: the profile is gone, or all its connections given up. *)
Refuses == gone \/ (Dialled # {} /\ \A k \in Dialled : pool[k] = "error")

(* openChannel: a channel on the pool as it is, or with one connection more. *)
(* test is the channel itself when it is that of a connection test, which   *)
(* listens only once the channel is there.                                  *)
openChannel(c, test) ==
    \/ /\ Dialled # {}
       /\ Moves({c}, {})
       /\ tests' = tests \cup test
       /\ UNCHANGED <<pool, banners>>
    \/ \E k \in Connections \ Dialled : \E state \in Outcomes :
          /\ kind = "ssh" \/ Dialled = {}
          /\ setState(k, state)
          /\ Moves({c}, TestsOver(state))
          /\ tests' = (tests \ TestsOver(state)) \cup test

(* The host itself is connected, even if the process could not be started.  *)
ConnectsLocal ==
    IF Dialled = {} THEN \E k \in Connections : pool' = [pool EXCEPT ![k] = "connected"]
    ELSE UNCHANGED pool

(***************************************************************************)
(* The server handles the first message of a page.                          *)
(***************************************************************************)
Rest(p) == wires' = [wires EXCEPT ![p] = Tail(@)]
First(p, type) == wires[p] # <<>> /\ Head(wires[p]).type = type

(* Faulty variant: an ack that is dropped keeps its channel.                *)
DropsSilently(p, c, s) == Rest(p)

(* The page that drops an ack closes the channel that came with it.         *)
ClosesDuplicate(p, c, s) == wires' = [wires EXCEPT ![p] = Append(Tail(@), CloseMessage(c))]

(* session:create: a channel with its init command and a row; the ack makes *)
(* a tile, or is dropped.  A socket that is closing takes no ack.           *)
SessionCreate(p) ==
    /\ First(p, "create") /\ Unused # {}
    /\ ~Refuses
    /\ LET c == NextChannel
           s == Head(wires[p]).session
       IN
       /\ openChannel(c, {})
       /\ sockets' = [sockets EXCEPT ![p].owns = @ \cup {c}]
       /\ IF IsOpen(p) /\ AddsTile(p, c, s)
          THEN tiles' = [tiles EXCEPT ![p] = @ \cup {[channel |-> c, session |-> s]}] /\ Rest(p)
          ELSE /\ IF IsOpen(p) THEN ClosesDuplicate(p, c, s) ELSE Rest(p)
               /\ UNCHANGED tiles
    /\ asked' = [asked EXCEPT ![p] = IF IsOpen(p) THEN @ - 1 ELSE @]
    /\ UNCHANGED <<kind, gone, left, ended, orphans, events>>

(* Faulty variant: an open that fails is not told.                          *)
ErrsSilently(p) == Rest(p) /\ UNCHANGED <<asked, kind, gone, sockets, tiles, left, ended>>

(* Faulty variant: an error is told to a socket that is gone.               *)
ErrsToTheGone(p) ==
    /\ Rest(p)
    /\ asked' = [asked EXCEPT ![p] = @ - 1]
    /\ UNCHANGED <<kind, gone, sockets, tiles, left, ended>>

(* The message is answered with session:error, and that is all.             *)
AnswersError(p) ==
    /\ Rest(p)
    /\ asked' = [asked EXCEPT ![p] = IF IsOpen(p) THEN @ - 1 ELSE @]
    /\ UNCHANGED <<kind, gone, sockets, tiles, left, ended>>

(* openChannel throws: the profile is deleted, its SSH connections have     *)
(* been given up, or the process of a local channel could not be started.   *)
SessionRefused(p) ==
    /\ First(p, "create")
    /\ \/ Refuses /\ UNCHANGED <<pool, events>>
       \/ kind = "local" /\ ~Refuses /\ ConnectsLocal /\ Event
    /\ AnswersError(p)
    /\ UNCHANGED <<channels, routes, tests, banners, orphans>>

(* createOrAttach throws behind openChannel, at the row of the session: the *)
(* channel was opened, and no socket will own it.                           *)
SessionFailsLate(p) ==
    /\ First(p, "create") /\ Unused # {} /\ Event
    /\ ~Refuses
    /\ openChannel(NextChannel, {})
    /\ orphans' = orphans \cup {NextChannel}
    /\ AnswersError(p)

(* channel:close of a channel that the socket owns; of another, nothing.    *)
ChannelClose(p) ==
    /\ First(p, "close")
    /\ LET mine == {Head(wires[p]).channel} \cap sockets[p].owns
       IN  /\ sockets' = [sockets EXCEPT ![p].owns = @ \ mine]
           /\ CloseAll(mine)
    /\ Rest(p)
    /\ UNCHANGED <<kind, gone, pool, tests, tiles, banners, asked, left, ended, orphans, events>>

(* profile:test-connection: a connected profile is reachable, one that is   *)
(* refused a channel is not.                                                *)
TestAnswered(p) ==
    /\ First(p, "test")
    /\ IsConnected \/ Refuses
    /\ Rest(p)
    /\ UNCHANGED <<kind, gone, pool, channels, routes, sockets, tests, tiles, banners, asked, left,
                   ended, orphans, events>>

(* Another gets a channel until a connection settles; if one settled before *)
(* openChannel returned, until the next.  That of the host itself settles   *)
(* at once, and the channel is closed, if its process could be started.     *)
TestStarted(p) ==
    /\ First(p, "test") /\ Unused # {}
    /\ ~IsConnected /\ ~Refuses
    /\ Rest(p)
    /\ IF kind = "local"
       THEN /\ ConnectsLocal
            /\ channels' \in {channels, [channels EXCEPT ![NextChannel] = "closed"]}
            /\ UNCHANGED <<routes, tests, banners>>
       ELSE openChannel(NextChannel, {NextChannel})
    /\ UNCHANGED <<kind, gone, sockets, tiles, asked, left, ended, orphans, events>>

(* The timer of a test: its channel is closed, the connections go on.       *)
TestTimesOut(c) ==
    /\ c \in tests
    /\ tests' = tests \ {c}
    /\ CloseAll({c})
    /\ UNCHANGED <<kind, gone, pool, sockets, wires, tiles, banners, asked, left, ended, orphans, events>>

(***************************************************************************)
(* The sockets.                                                             *)
(***************************************************************************)
(* The page is left or loaded again, or its socket fails, with what is on   *)
(* the way or without it.  It is not opened again by itself.                *)
SocketFails(p) ==
    /\ IsOpen(p) /\ Event
    /\ sockets' = [sockets EXCEPT ![p].state = "closing"]
    /\ wires' \in {wires, [wires EXCEPT ![p] = <<>>]}
    /\ asked' = [asked EXCEPT ![p] = 0]
    /\ UNCHANGED <<kind, gone, pool, channels, routes, tests, tiles, banners, left, ended, orphans>>

(* Faulty variant: the channels of a socket outlive it.                     *)
Lingering(p) == {}

(* The channels that go with the socket of p.                               *)
OwnedBy(p) == sockets[p].owns

(* The close event, after all that the page had sent.                       *)
SocketClose(p) ==
    /\ sockets[p].state = "closing" /\ wires[p] = <<>>
    /\ CloseAll(OwnedBy(p))
    /\ sockets' = [sockets EXCEPT ![p] = [state |-> "closed", owns |-> {}]]
    /\ UNCHANGED <<kind, gone, pool, wires, tests, tiles, banners, asked, left, ended, orphans, events>>

(* A page is loaded: it knows no tile.                                      *)
PageLoads(p) ==
    /\ sockets[p].state = "closed" /\ Event
    /\ sockets' = [sockets EXCEPT ![p].state = "open"]
    /\ tiles' = [tiles EXCEPT ![p] = {}]
    /\ banners' = [banners EXCEPT ![p] = {}]
    /\ UNCHANGED <<kind, gone, pool, channels, routes, wires, tests, asked, left, ended, orphans>>

(***************************************************************************)
(* The connections of the profile.                                          *)
(***************************************************************************)
(* connected, after the dial or after a drop: the tests are over.           *)
Connected(k) ==
    /\ pool[k] \in {"connecting", "reconnecting"}
    /\ setState(k, "connected")
    /\ tests' = {} /\ CloseAll(tests)
    /\ UNCHANGED <<kind, gone, sockets, wires, tiles, asked, left, ended, orphans, events>>

(* reconnecting, by the drop of the connection, by a dial that failed, or   *)
(* by the late close of one that was given up over its key: the channels    *)
(* keep their records, and the tiles of the profile say so, whichever       *)
(* connection carries them.                                                 *)
Reconnecting(k) ==
    /\ kind = "ssh" /\ k \in Dialled /\ Event
    /\ setState(k, "reconnecting")
    /\ UNCHANGED <<kind, gone, channels, routes, sockets, wires, tests, tiles, asked, left, ended, orphans>>

(* error: the attempts are over, or the key cannot be read.  The channels   *)
(* keep their records, and the tiles what they say.                         *)
GivesUp(k) ==
    /\ pool[k] \in {"connecting", "reconnecting", "error"} /\ Event
    /\ setState(k, "error")
    /\ tests' = {} /\ CloseAll(tests)
    /\ UNCHANGED <<kind, gone, sockets, wires, tiles, asked, left, ended, orphans>>

(* A refused channel is moved to a connection of its own.                   *)
Spawns(k) ==
    /\ kind = "ssh" /\ IsConnected /\ k \notin Dialled
    /\ \E state \in Outcomes :
          setState(k, state) /\ CloseAll(TestsOver(state)) /\ tests' = tests \ TestsOver(state)
    /\ UNCHANGED <<kind, gone, sockets, wires, tiles, asked, left, ended, orphans, events>>

(* disconnect, when the profile is deleted: every channel is closed, and    *)
(* the sockets that own one forget it.                                      *)
Disconnect ==
    /\ ~gone /\ Event
    /\ gone' = TRUE
    /\ pool' = [k \in Connections |-> "none"]
    /\ tests' = {} /\ CloseAll(OpenChannels)
    /\ sockets' = [p \in Pages |-> [sockets[p] EXCEPT !.owns = {}]]
    /\ ended' = ended \cup OpenChannels
    /\ UNCHANGED <<kind, wires, tiles, banners, asked, left, orphans>>

(* The process of a local terminal exits; the page keeps the tile.          *)
handleNaturalClose(c) ==
    /\ kind = "local" /\ c \in OpenChannels /\ Event
    /\ CloseAll({c})
    /\ sockets' = [p \in Pages |-> [sockets[p] EXCEPT !.owns = @ \ {c}]]
    /\ ended' = ended \cup {c}
    /\ UNCHANGED <<kind, gone, pool, wires, tests, tiles, banners, asked, left, orphans>>

(***************************************************************************)
ServerHandles(p) ==
    \/ SessionCreate(p) \/ SessionRefused(p) \/ SessionFailsLate(p) \/ ChannelClose(p)
    \/ TestAnswered(p) \/ TestStarted(p)
    \/ SocketClose(p)

ConsoleNext ==
    \/ \E p \in Pages :
         \/ \E s \in Sessions : handleSubmit(p, s) \/ handleOpenSession(p, s)
         \/ \E t \in tiles[p] : handleCloseTile(p, t) \/ handleDeleteSession(p, t)
         \/ handleTestConnection(p)
         \/ SocketFails(p) \/ PageLoads(p)
         \/ ServerHandles(p)
    \/ \E c \in ChannelIds : TestTimesOut(c) \/ handleNaturalClose(c)
    \/ \E k \in Connections : Connected(k) \/ Reconnecting(k) \/ GivesUp(k) \/ Spawns(k)
    \/ Disconnect

(* The event loop comes to every message and every close, and to the timer  *)
(* of a test.  Nothing is assumed of the operator or of the network.        *)
ConsoleFairness ==
    /\ \A p \in Pages : WF_consoleVars(ServerHandles(p))
    /\ \A c \in ChannelIds : WF_consoleVars(TestTimesOut(c))

ConsoleSpec == ConsoleInit /\ [][ConsoleNext]_consoleVars /\ ConsoleFairness

(***************************************************************************)
(* Properties.                                                              *)
(***************************************************************************)
(* The tiles of a page and the channels of its socket agree: a channel      *)
(* without a tile is about to be closed or was left behind by a delete (the *)
(* orphans that used up MaxSessions), and a tile without a channel is one   *)
(* whose channel the manager closed.                                        *)
TilesAndChannelsAgree ==
    \A p \in Pages : IsOpen(p) =>
        /\ \A c \in sockets[p].owns \ left :
              \/ \E t \in tiles[p] : t.channel = c
              \/ \E i \in DOMAIN wires[p] : wires[p][i] = CloseMessage(c)
        /\ \A t \in tiles[p] : t.channel \in sockets[p].owns \cup ended

(* No channel outlives its socket or its test, whatever fails in between,   *)
(* but the orphan of a row that could not be written, and the manager       *)
(* routes the open channels and no other.                                   *)
NothingOutlivesItsSocket ==
    /\ routes = OpenChannels
    /\ \A c \in OpenChannels :
          Cardinality({p \in Pages : sockets[p].state # "closed" /\ c \in sockets[p].owns})
            = IF c \in tests \cup orphans THEN 0 ELSE 1

(* A tile that says that it is reconnecting, and whose channel is alive,    *)
(* says so for a connection that is still redialled or was given up: its    *)
(* page has not missed the connected that followed (onState, ownsProfile).  *)
BannerMeansAFault ==
    \A p \in Pages : \A c \in banners[p] \cap sockets[p].owns :
        IsOpen(p) => \E k \in Connections : pool[k] \in {"reconnecting", "error"}

(* Every session:create of a page is answered, with the tile or the error,  *)
(* unless the page goes.                                                    *)
EveryOpenIsAnswered == \A p \in Pages : asked[p] > 0 ~> asked[p] = 0
=============================================================================
