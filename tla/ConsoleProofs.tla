----------------------------- MODULE ConsoleProofs -----------------------------
(***************************************************************************)
(* Theorems about the console, for any pages, sessions and bounds: every    *)
(* open channel has one owner, and the tiles of a page agree with the       *)
(* channels of its socket.                                                  *)
(***************************************************************************)
EXTENDS Console, FiniteSetTheorems, SequenceTheorems, TLAPS

Has(queue, message) == \E i \in DOMAIN queue : queue[i] = message

(* A page has asked to close a channel.                                     *)
Closing(p, c) == Has(wires[p], CloseMessage(c))

(* What pages send.                                                         *)
Sendable == {CreateMessage(s) : s \in Sessions} \cup {CloseMessage(c) : c \in ChannelIds}
            \cup {TestMessage}

ShapeOK ==
    /\ wires \in [Pages -> Seq(Sendable)]
    /\ sockets \in [Pages -> Socket]
    /\ tiles \in [Pages -> SUBSET Tile]
    /\ channels \in [ChannelIds -> {"none", "open", "closed"}]

(* Sockets and tests share the open channels out among them, but those that *)
(* session:error left behind.                                               *)
OwnersOK ==
    /\ routes = OpenChannels
    /\ tests \subseteq OpenChannels \ orphans /\ (kind = "local" => tests = {})
    /\ orphans \subseteq ChannelIds \ Unused
    /\ \A p \in Pages :
          /\ sockets[p].owns \subseteq OpenChannels \ (tests \cup orphans)
          /\ sockets[p].state = "closed" => sockets[p].owns = {} /\ wires[p] = <<>>
    /\ \A p, q \in Pages : sockets[p].owns \cap sockets[q].owns # {} => p = q
    /\ OpenChannels \subseteq tests \cup orphans \cup UNION {sockets[p].owns : p \in Pages}

(* A page shows a channel in one tile, and none that it has asked to close; *)
(* nothing is known of a channel before it is opened.                       *)
TilesOK(p) ==
    /\ \A t \in tiles[p] : /\ t.channel \notin Unused
                           /\ \A u \in tiles[p] : u.channel = t.channel => u = t
    /\ \A c \in ChannelIds : Closing(p, c) => c \notin Unused
    /\ IsOpen(p) => \A t \in tiles[p] : ~Closing(p, t.channel)

(* TilesAndChannelsAgree, of one page.                                      *)
Agrees(p) ==
    IsOpen(p) =>
       /\ \A c \in sockets[p].owns \ left : (\E t \in tiles[p] : t.channel = c) \/ Closing(p, c)
       /\ \A t \in tiles[p] : t.channel \in sockets[p].owns \cup ended

PageOK(p) == TilesOK(p) /\ Agrees(p)

ConsoleInv == ShapeOK /\ OwnersOK /\ \A p \in Pages : PageOK(p)

-------------------------------------------------------------------------------
(* What a page sends, and what the server takes, is one message.            *)
LEMMA HasAppend ==
    ASSUME NEW S, NEW q \in Seq(S), NEW x \in S, NEW m
    PROVE  Has(Append(q, x), m) <=> Has(q, m) \/ m = x
<1>1. /\ Append(q, x) \in Seq(S) /\ Len(Append(q, x)) = Len(q) + 1
      /\ \A i \in 1..Len(q) : Append(q, x)[i] = q[i]
      /\ Append(q, x)[Len(q) + 1] = x
  BY AppendProperties
<1>2. DOMAIN q = 1..Len(q) /\ DOMAIN Append(q, x) = 1..(Len(q) + 1) /\ Len(q) \in Nat
  BY <1>1, LenProperties
<1>3. QED
  BY <1>1, <1>2 DEF Has

LEMMA HasTail ==
    ASSUME NEW S, NEW q \in Seq(S), q # <<>>, NEW m
    PROVE  Has(q, m) <=> Has(Tail(q), m) \/ m = Head(q)
<1>1. /\ Tail(q) \in Seq(S) /\ Len(Tail(q)) = Len(q) - 1
      /\ \A i \in 1..Len(Tail(q)) : Tail(q)[i] = q[i + 1]
  BY HeadTailProperties
<1>2. /\ DOMAIN q = 1..Len(q) /\ DOMAIN Tail(q) = 1..(Len(q) - 1)
      /\ Len(q) \in Nat /\ Len(q) # 0 /\ Head(q) = q[1]
  BY <1>1, LenProperties, EmptySeq
<1>3. ASSUME Has(q, m), m # Head(q) PROVE Has(Tail(q), m)
  <2>1. PICK i \in 1..Len(q) : q[i] = m
    BY <1>2, <1>3 DEF Has
  <2>2. i - 1 \in 1..Len(Tail(q)) /\ Tail(q)[i - 1] = m
    BY <1>1, <1>2, <1>3, <2>1
  <2>3. QED
    BY <1>1, <1>2, <2>2 DEF Has
<1>4. ASSUME Has(Tail(q), m) PROVE Has(q, m)
  <2>1. PICK i \in 1..Len(Tail(q)) : Tail(q)[i] = m
    BY <1>1, <1>2, <1>4 DEF Has
  <2>2. i + 1 \in 1..Len(q) /\ q[i + 1] = m
    BY <1>1, <1>2, <2>1
  <2>3. QED
    BY <1>2, <2>2 DEF Has
<1>5. Has(q, Head(q))
  BY <1>2 DEF Has
<1>6. QED
  BY <1>3, <1>4, <1>5

LEMMA HasNothing == \A m : ~Has(<<>>, m)
  BY DEF Has

LEMMA Sent ==
    ASSUME ShapeOK, NEW p \in Pages, NEW m \in Sendable, Send(p, m)
    PROVE  /\ wires' \in [Pages -> Seq(Sendable)]
           /\ \A q \in Pages : \A x :
                 Has(wires[q], x)' <=> Has(wires[q], x) \/ (q = p /\ IsOpen(p) /\ x = m)
<1>1. wires[p] \in Seq(Sendable) /\ Append(wires[p], m) \in Seq(Sendable)
  BY AppendProperties DEF ShapeOK
<1>2. ASSUME NEW x PROVE Has(Append(wires[p], m), x) <=> Has(wires[p], x) \/ x = m
  BY <1>1, HasAppend
<1>3. CASE IsOpen(p)
  <2>1. wires' = [wires EXCEPT ![p] = Append(wires[p], m)] /\ wires \in [Pages -> Seq(Sendable)]
    BY <1>3 DEF Send, ShapeOK
  <2>2. /\ wires'[p] = Append(wires[p], m)
        /\ \A q \in Pages \ {p} : wires'[q] = wires[q]
        /\ wires' \in [Pages -> Seq(Sendable)]
    BY <1>1, <2>1
  <2>3. \A q \in Pages : \A x : Has(wires[q], x)' <=> Has(wires'[q], x)
    BY DEF Has
  <2> QED
    BY <1>2, <1>3, <2>2, <2>3
<1>4. CASE ~IsOpen(p)
  BY <1>4 DEF ShapeOK, Send, Has
<1>5. QED
  BY <1>3, <1>4

LEMMA Taken ==
    ASSUME ShapeOK, NEW p \in Pages, wires[p] # <<>>, Rest(p)
    PROVE  /\ wires' \in [Pages -> Seq(Sendable)]
           /\ \A q \in Pages : \A x :
                 Has(wires[q], x) <=> Has(wires[q], x)' \/ (q = p /\ x = Head(wires[p]))
<1>1. wires[p] \in Seq(Sendable) /\ Tail(wires[p]) \in Seq(Sendable)
  BY HeadTailProperties DEF ShapeOK
<1>2. ASSUME NEW x PROVE Has(wires[p], x) <=> Has(Tail(wires[p]), x) \/ x = Head(wires[p])
  BY <1>1, HasTail
<1>3. wires' = [wires EXCEPT ![p] = Tail(wires[p])] /\ wires \in [Pages -> Seq(Sendable)]
  BY DEF Rest, ShapeOK
<1>4. /\ wires'[p] = Tail(wires[p])
      /\ \A q \in Pages \ {p} : wires'[q] = wires[q]
      /\ wires' \in [Pages -> Seq(Sendable)]
  BY <1>1, <1>3
<1>5. \A q \in Pages : \A x : Has(wires[q], x)' <=> Has(wires'[q], x)
  BY DEF Has
<1>6. QED
  BY <1>2, <1>4, <1>5
(* The messages are told apart by their types.                              *)
LEMMA Messages ==
    ASSUME NEW m \in Sendable
    PROVE  /\ m.type = "create" => m.session \in Sessions
           /\ m.type = "close" => m.channel \in ChannelIds /\ m = CloseMessage(m.channel)
           /\ \A c : m = CloseMessage(c) => m.type = "close" /\ m.channel = c
  BY DEF Sendable, CreateMessage, CloseMessage, TestMessage

(* The head of what a page sent.                                            *)
LEMMA HeadSent ==
    ASSUME ShapeOK, NEW p \in Pages, NEW type, First(p, type)
    PROVE  wires[p] # <<>> /\ Head(wires[p]) \in Sendable /\ Head(wires[p]).type = type
<1>1. wires[p] \in Seq(Sendable) /\ wires[p] # <<>>
  BY DEF ShapeOK, First
<1>2. QED
  BY <1>1, HeadTailProperties DEF First

(* A channel is opened, with the tests that a dial ended, or some are       *)
(* closed.                                                                  *)
LEMMA OneOpened ==
    ASSUME ShapeOK, OwnersOK, Unused # {}, NEW test, openChannel(NextChannel, test)
    PROVE  /\ NextChannel \in Unused /\ NextChannel \notin OpenChannels /\ NextChannel \in ChannelIds
           /\ channels' \in [ChannelIds -> {"none", "open", "closed"}]
           /\ Unused' = Unused \ {NextChannel}
           /\ routes' = OpenChannels'
           /\ \E over \in {{}, tests} : /\ OpenChannels' = (OpenChannels \ over) \cup {NextChannel}
                                       /\ tests' = (tests \ over) \cup test
<1>1. NextChannel \in Unused
  BY DEF NextChannel
<1>2. NextChannel \in ChannelIds /\ NextChannel \notin OpenChannels /\ NextChannel \notin tests
  BY <1>1 DEF OwnersOK, OpenChannels, Unused
<1>3. PICK over \in {{}, tests} : Moves({NextChannel}, over) /\ tests' = (tests \ over) \cup test
  BY DEF openChannel, TestsOver
<1>4. /\ channels' \in [ChannelIds -> {"none", "open", "closed"}]
      /\ OpenChannels' = (OpenChannels \ over) \cup {NextChannel}
      /\ Unused' = Unused \ {NextChannel}
  BY <1>1, <1>2, <1>3 DEF ShapeOK, Moves, OpenChannels, Unused
<1>5. routes' = OpenChannels'
  BY <1>2, <1>3, <1>4 DEF Moves, OwnersOK
<1>6. QED
  BY <1>1, <1>2, <1>3, <1>4, <1>5

LEMMA SomeClosed ==
    ASSUME ShapeOK, NEW cs, CloseAll(cs)
    PROVE  /\ channels' \in [ChannelIds -> {"none", "open", "closed"}]
           /\ OpenChannels' = OpenChannels \ cs
           /\ Unused' = Unused
  BY DEF ShapeOK, CloseAll, Moves, OpenChannels, Unused

-------------------------------------------------------------------------------
LEMMA ConsoleInvInit == ConsoleInit => ConsoleInv
<1> SUFFICES ASSUME ConsoleInit PROVE ConsoleInv
  OBVIOUS
<1>1. ShapeOK
  BY EmptySeq DEF ConsoleInit, ShapeOK, Socket
<1>2. OpenChannels = {}
  BY DEF ConsoleInit, OpenChannels
<1>3. OwnersOK
  BY <1>2 DEF ConsoleInit, OwnersOK
<1>4. \A p \in Pages : \A c : ~Closing(p, c)
  BY HasNothing DEF ConsoleInit, Closing
<1>5. \A p \in Pages : PageOK(p)
  BY <1>4 DEF ConsoleInit, PageOK, TilesOK, Agrees
<1>6. QED
  BY <1>1, <1>3, <1>5 DEF ConsoleInv

(* A socket stays one when its state or what it owns changes.               *)
LEMMA SocketStays ==
    ASSUME NEW k \in Socket
    PROVE  /\ \A st \in {"open", "closing", "closed"} : [k EXCEPT !.state = st] \in Socket
           /\ \A cs \in SUBSET ChannelIds : [k EXCEPT !.owns = cs] \in Socket
           /\ k.owns \in SUBSET ChannelIds
  BY DEF Socket

(* The shape of the state: one step per action that changes any of it.      *)
LEMMA ShapeNext == ShapeOK /\ OwnersOK /\ [ConsoleNext]_consoleVars => ShapeOK'
<1> SUFFICES ASSUME ShapeOK, OwnersOK, [ConsoleNext]_consoleVars PROVE ShapeOK'
  OBVIOUS
<1>1. ASSUME NEW p \in Pages, NEW s \in Sessions, handleSubmit(p, s) PROVE ShapeOK'
  <2>1. CreateMessage(s) \in Sendable /\ Send(p, CreateMessage(s))
    BY <1>1 DEF Sendable, handleSubmit
  <2>2. wires' \in [Pages -> Seq(Sendable)]
    BY <2>1, Sent
  <2>3. QED
    BY <1>1, <2>2 DEF handleSubmit, ShapeOK
<1>2. ASSUME NEW p \in Pages, NEW t \in tiles[p], handleCloseTile(p, t) PROVE ShapeOK'
  <2>1. CloseMessage(t.channel) \in Sendable /\ Send(p, CloseMessage(t.channel))
    BY <1>2 DEF Sendable, handleCloseTile, ShapeOK, Tile
  <2>2. wires' \in [Pages -> Seq(Sendable)]
    BY <2>1, Sent
  <2>3. QED
    BY <1>2, <2>2 DEF handleCloseTile, RemoveTile, ShapeOK
<1>3. ASSUME NEW p \in Pages, NEW t \in tiles[p], handleDeleteSession(p, t) PROVE ShapeOK'
  BY <1>3 DEF handleDeleteSession, RemoveTile, ShapeOK
<1>4. ASSUME NEW p \in Pages, handleTestConnection(p) PROVE ShapeOK'
  <2>1. TestMessage \in Sendable /\ Send(p, TestMessage)
    BY <1>4 DEF Sendable, handleTestConnection
  <2>2. wires' \in [Pages -> Seq(Sendable)]
    BY <2>1, Sent
  <2>3. QED
    BY <1>4, <2>2 DEF handleTestConnection, ShapeOK
<1>5. ASSUME NEW p \in Pages, SocketFails(p) \/ PageLoads(p) PROVE ShapeOK'
  <2>1. \/ sockets' = [sockets EXCEPT ![p].state = "closing"]
        \/ sockets' = [sockets EXCEPT ![p].state = "open"]
    BY <1>5 DEF SocketFails, PageLoads
  <2>2. sockets' \in [Pages -> Socket]
    <3>1. sockets[p] \in Socket
      BY DEF ShapeOK
    <3>2. /\ [sockets[p] EXCEPT !.state = "closing"] \in Socket
          /\ [sockets[p] EXCEPT !.state = "open"] \in Socket
      BY <3>1, SocketStays
    <3>3. QED
      BY <2>1, <3>2 DEF ShapeOK
  <2>3. wires' \in [Pages -> Seq(Sendable)]
    <3>1. <<>> \in Seq(Sendable)
      BY EmptySeq
    <3>2. wires' = wires \/ wires' = [wires EXCEPT ![p] = <<>>]
      BY <1>5 DEF SocketFails, PageLoads
    <3>3. QED
      BY <3>1, <3>2 DEF ShapeOK
  <2>4. tiles' \in [Pages -> SUBSET Tile]
    BY <1>5 DEF SocketFails, PageLoads, ShapeOK
  <2>5. QED
    BY <1>5, <2>2, <2>3, <2>4 DEF SocketFails, PageLoads, ShapeOK
<1>6. ASSUME NEW p \in Pages, SessionCreate(p) PROVE ShapeOK'
  <2> DEFINE c == NextChannel
             s == Head(wires[p]).session
  <2>1. /\ wires[p] # <<>> /\ Head(wires[p]) \in Sendable /\ s \in Sessions
        /\ wires[p] \in Seq(Sendable) /\ Tail(wires[p]) \in Seq(Sendable)
    BY <1>6, HeadSent, Messages, HeadTailProperties DEF SessionCreate, ShapeOK
  <2>2. c \in ChannelIds /\ channels' \in [ChannelIds -> {"none", "open", "closed"}]
    BY <1>6, OneOpened DEF SessionCreate
  <2>3. Append(Tail(wires[p]), CloseMessage(c)) \in Seq(Sendable)
    BY <2>1, <2>2, AppendProperties DEF Sendable
  <2>4. wires' \in [Pages -> Seq(Sendable)]
    BY <1>6, <2>1, <2>3 DEF SessionCreate, Rest, ClosesDuplicate, ShapeOK
  <2>5. tiles' \in [Pages -> SUBSET Tile]
    <3>1. tiles' = [tiles EXCEPT ![p] = @ \cup {[channel |-> c, session |-> s]}] \/ tiles' = tiles
      BY <1>6 DEF SessionCreate
    <3>2. [channel |-> c, session |-> s] \in Tile
      BY <2>1, <2>2 DEF Tile
    <3>3. QED
      BY <3>1, <3>2 DEF ShapeOK
  <2>6. sockets' \in [Pages -> Socket]
    <3>1. sockets' = [sockets EXCEPT ![p].owns = @ \cup {c}]
      BY <1>6 DEF SessionCreate
    <3>2. QED
      BY <2>2, <3>1 DEF ShapeOK, Socket
  <2>7. QED
    BY <2>2, <2>4, <2>5, <2>6 DEF ShapeOK
<1>7. ASSUME NEW p \in Pages, SessionRefused(p) \/ SessionFailsLate(p) \/ TestAnswered(p)
      PROVE  ShapeOK'
  <2>1. wires[p] # <<>> /\ Rest(p)
    BY <1>7 DEF SessionRefused, SessionFailsLate, AnswersError, TestAnswered, First
  <2>2. channels' \in [ChannelIds -> {"none", "open", "closed"}]
    BY <1>7, OneOpened DEF SessionRefused, SessionFailsLate, TestAnswered, ShapeOK
  <2>3. QED
    BY <1>7, <2>1, <2>2, Taken DEF SessionRefused, SessionFailsLate, AnswersError, TestAnswered, ShapeOK
<1>8. ASSUME NEW p \in Pages, ChannelClose(p) PROVE ShapeOK'
  <2>1. wires' \in [Pages -> Seq(Sendable)]
    BY <1>8, Taken DEF ChannelClose, First
  <2>2. channels' \in [ChannelIds -> {"none", "open", "closed"}]
    BY <1>8, SomeClosed DEF ChannelClose
  <2>3. QED
    BY <1>8, <2>1, <2>2 DEF ChannelClose, ShapeOK, Socket
<1>9. ASSUME NEW p \in Pages, TestStarted(p) PROVE ShapeOK'
  <2>1. wires' \in [Pages -> Seq(Sendable)]
    BY <1>9, Taken DEF TestStarted, First
  <2>2. channels' \in [ChannelIds -> {"none", "open", "closed"}]
    BY <1>9, OneOpened DEF TestStarted, ShapeOK
  <2>3. QED
    BY <1>9, <2>1, <2>2 DEF TestStarted, ShapeOK
<1>10. ASSUME NEW p \in Pages, SocketClose(p) PROVE ShapeOK'
  <2>1. channels' \in [ChannelIds -> {"none", "open", "closed"}]
    BY <1>10, SomeClosed DEF SocketClose
  <2>2. QED
    BY <1>10, <2>1 DEF SocketClose, ShapeOK, Socket
<1>11. ASSUME NEW c \in ChannelIds, TestTimesOut(c) \/ handleNaturalClose(c) PROVE ShapeOK'
  <2>1. channels' \in [ChannelIds -> {"none", "open", "closed"}]
    BY <1>11, SomeClosed DEF TestTimesOut, handleNaturalClose
  <2>2. sockets' = sockets \/ sockets' = [p \in Pages |-> [sockets[p] EXCEPT !.owns = @ \ {c}]]
    BY <1>11 DEF TestTimesOut, handleNaturalClose
  <2>3. sockets' \in [Pages -> Socket]
    <3>1. \A p \in Pages : sockets[p] \in Socket
      BY DEF ShapeOK
    <3>2. \A p \in Pages : [sockets[p] EXCEPT !.owns = @ \ {c}] \in Socket
      BY <3>1, SocketStays
    <3>3. QED
      BY <2>2, <3>2 DEF ShapeOK
  <2>4. QED
    BY <1>11, <2>1, <2>3 DEF TestTimesOut, handleNaturalClose, ShapeOK
<1>12. ASSUME NEW k \in Connections, Connected(k) \/ Reconnecting(k) \/ GivesUp(k) \/ Spawns(k)
       PROVE  ShapeOK'
  <2>1. channels' \in [ChannelIds -> {"none", "open", "closed"}]
    BY <1>12, SomeClosed DEF Connected, Reconnecting, GivesUp, Spawns, ShapeOK
  <2>2. QED
    BY <1>12, <2>1 DEF Connected, Reconnecting, GivesUp, Spawns, ShapeOK
<1>14. CASE Disconnect
  <2>1. channels' \in [ChannelIds -> {"none", "open", "closed"}]
    BY <1>14, SomeClosed DEF Disconnect
  <2>2. sockets' \in [Pages -> Socket]
    <3>1. \A p \in Pages : [sockets[p] EXCEPT !.owns = {}] \in Socket
      BY DEF ShapeOK, Socket
    <3> QED
      BY <1>14, <3>1 DEF Disconnect
  <2>3. QED
    BY <1>14, <2>1, <2>2 DEF Disconnect, ShapeOK
<1>13. CASE UNCHANGED consoleVars
  BY <1>13 DEF consoleVars, ShapeOK
<1>15. QED
  BY <1>1, <1>2, <1>3, <1>4, <1>5, <1>6, <1>7, <1>8, <1>9, <1>10, <1>11, <1>12, <1>13, <1>14
     DEF ConsoleNext, ServerHandles, handleOpenSession
-------------------------------------------------------------------------------
(* A socket that is closed owns nothing and brings nothing.                 *)
ClosedIsEmpty == \A p \in Pages : sockets[p].state = "closed" => sockets[p].owns = {} /\ wires[p] = <<>>

(* The owners stay, and so do the channels.                                 *)
LEMMA OwnersStay ==
    ASSUME OwnersOK, ClosedIsEmpty', UNCHANGED <<kind, channels, routes, tests, orphans>>,
           \A p \in Pages : sockets[p].owns' = sockets[p].owns
    PROVE  OwnersOK'
<1>1. OpenChannels' = OpenChannels /\ Unused' = Unused
  BY DEF OpenChannels, Unused
<1>2. QED
  BY <1>1 DEF OwnersOK, ClosedIsEmpty

(* Channels are closed, and whoever owned them does no more.                *)
LEMMA OwnersClose ==
    ASSUME ShapeOK, OwnersOK, ClosedIsEmpty', NEW cs, CloseAll(cs),
           UNCHANGED <<kind, orphans>>, tests' = tests \ cs,
           \A p \in Pages : sockets[p].owns' = sockets[p].owns \ cs
    PROVE  OwnersOK'
<1>1. OpenChannels' = OpenChannels \ cs /\ Unused' = Unused
  BY SomeClosed
<1>2. routes' = OpenChannels'
  BY <1>1 DEF CloseAll, Moves, OwnersOK
<1>3. /\ tests' \subseteq OpenChannels' \ orphans' /\ (kind' = "local" => tests' = {})
      /\ orphans' \subseteq ChannelIds \ Unused'
  BY <1>1 DEF OwnersOK
<1>4. /\ \A p \in Pages : sockets[p].owns' \subseteq OpenChannels' \ (tests' \cup orphans')
      /\ \A p, q \in Pages : sockets[p].owns' \cap sockets[q].owns' # {} => p = q
  BY <1>1 DEF OwnersOK
<1>5. ASSUME NEW c \in OpenChannels', c \notin tests' \cup orphans'
      PROVE  \E p \in Pages : c \in sockets[p].owns'
  <2>1. c \in OpenChannels /\ c \notin cs /\ c \notin tests \cup orphans
    BY <1>1, <1>5
  <2>2. PICK p \in Pages : c \in sockets[p].owns
    BY <2>1 DEF OwnersOK
  <2>3. QED
    BY <2>1, <2>2
<1>6. QED
  BY <1>2, <1>3, <1>4, <1>5 DEF OwnersOK, ClosedIsEmpty

(* A page that sends is open; a page that is closed sends nothing.          *)
LEMMA ClosedIsEmptyNext == ShapeOK /\ OwnersOK /\ [ConsoleNext]_consoleVars => ClosedIsEmpty'
<1> SUFFICES ASSUME ShapeOK, OwnersOK, [ConsoleNext]_consoleVars,
                    NEW p \in Pages, sockets'[p].state = "closed"
             PROVE  sockets'[p].owns = {} /\ wires'[p] = <<>>
  BY DEF ClosedIsEmpty
<1>a. sockets[p] \in Socket /\ wires[p] \in Seq(Sendable)
  BY DEF ShapeOK
<1>b. sockets[p].state = "closed" => sockets[p].owns = {} /\ wires[p] = <<>>
  BY DEF OwnersOK
<1>1. ASSUME NEW q \in Pages, NEW m \in Sendable, Send(q, m), sockets' = sockets
      PROVE  sockets'[p].owns = {} /\ wires'[p] = <<>>
  BY <1>b, <1>1 DEF Send, IsOpen, ShapeOK
<1>2. ASSUME NEW q \in Pages, NEW type, First(q, type), sockets'[p].state = sockets[p].state
      PROVE  p # q /\ sockets[p].state = "closed" /\ sockets[p].owns = {} /\ wires[p] = <<>>
  BY <1>b, <1>2 DEF First
<1>3. ASSUME NEW q \in Pages, NEW s \in Sessions, handleSubmit(q, s)
      PROVE  sockets'[p].owns = {} /\ wires'[p] = <<>>
  BY <1>1, <1>3 DEF handleSubmit, Sendable
<1>4. ASSUME NEW q \in Pages, NEW t \in tiles[q], handleCloseTile(q, t)
      PROVE  sockets'[p].owns = {} /\ wires'[p] = <<>>
  <2>1. CloseMessage(t.channel) \in Sendable
    BY DEF ShapeOK, Tile, Sendable
  <2>2. QED
    BY <1>1, <1>4, <2>1 DEF handleCloseTile
<1>5. ASSUME NEW q \in Pages, handleTestConnection(q)
      PROVE  sockets'[p].owns = {} /\ wires'[p] = <<>>
  BY <1>1, <1>5 DEF handleTestConnection, Sendable
<1>6. ASSUME NEW q \in Pages, SocketFails(q) \/ PageLoads(q)
      PROVE  sockets'[p].owns = {} /\ wires'[p] = <<>>
  <2>1. p # q
    BY <1>6 DEF SocketFails, PageLoads, ShapeOK, Socket
  <2>2. sockets'[p] = sockets[p] /\ wires'[p] = wires[p]
    BY <1>6, <2>1 DEF SocketFails, PageLoads, ShapeOK
  <2>3. QED
    BY <1>b, <2>2
<1>7. ASSUME NEW q \in Pages, SessionCreate(q)
      PROVE  sockets'[p].owns = {} /\ wires'[p] = <<>>
  <2>1. sockets' = [sockets EXCEPT ![q].owns = @ \cup {NextChannel}]
    BY <1>7 DEF SessionCreate
  <2>2. sockets'[p].state = sockets[p].state
    BY <2>1 DEF ShapeOK, Socket
  <2>3. p # q /\ sockets[p].owns = {} /\ wires[p] = <<>>
    BY <1>2, <1>7, <2>2 DEF SessionCreate
  <2>4. wires'[p] = wires[p]
    BY <1>7, <2>3 DEF SessionCreate, Rest, ClosesDuplicate, ShapeOK
  <2>5. QED
    BY <2>1, <2>3, <2>4 DEF ShapeOK
<1>8. ASSUME NEW q \in Pages,
             SessionRefused(q) \/ SessionFailsLate(q) \/ TestAnswered(q) \/ TestStarted(q)
      PROVE  sockets'[p].owns = {} /\ wires'[p] = <<>>
  <2>1. (First(q, "create") \/ First(q, "test")) /\ sockets' = sockets /\ Rest(q)
    BY <1>8 DEF SessionRefused, SessionFailsLate, AnswersError, TestAnswered, TestStarted
  <2>2. QED
    BY <1>2, <2>1 DEF Rest, ShapeOK
<1>9. ASSUME NEW q \in Pages, ChannelClose(q)
      PROVE  sockets'[p].owns = {} /\ wires'[p] = <<>>
  <2>1. sockets' = [sockets EXCEPT ![q].owns = @ \ ({Head(wires[q]).channel} \cap sockets[q].owns)]
    BY <1>9 DEF ChannelClose
  <2>2. sockets'[p].state = sockets[p].state
    BY <2>1 DEF ShapeOK, Socket
  <2>3. p # q /\ sockets[p].owns = {} /\ wires[p] = <<>>
    BY <1>2, <1>9, <2>2 DEF ChannelClose
  <2>4. QED
    BY <1>9, <2>1, <2>3 DEF ChannelClose, Rest, ShapeOK
<1>10. ASSUME NEW q \in Pages, SocketClose(q)
      PROVE  sockets'[p].owns = {} /\ wires'[p] = <<>>
  BY <1>b, <1>10 DEF SocketClose, ShapeOK
<1>11. CASE \/ \E c \in ChannelIds : handleNaturalClose(c)
            \/ Disconnect
  <2>1. PICK cs \in SUBSET sockets[p].owns : sockets'[p] = [sockets[p] EXCEPT !.owns = cs]
    BY <1>11 DEF Disconnect, handleNaturalClose
  <2>2. sockets'[p].state = sockets[p].state /\ sockets'[p].owns = cs /\ wires' = wires
    BY <1>11, <1>a, <2>1 DEF Disconnect, handleNaturalClose, Socket
  <2>3. QED
    BY <1>b, <2>2
<1>12. CASE \/ \E c \in ChannelIds : TestTimesOut(c)
            \/ \E k \in Connections : Connected(k) \/ Reconnecting(k) \/ GivesUp(k) \/ Spawns(k)
            \/ \E q \in Pages : \E t \in tiles[q] : handleDeleteSession(q, t)
            \/ UNCHANGED consoleVars
  <2>1. sockets' = sockets /\ wires' = wires
    BY <1>12 DEF TestTimesOut, Connected, Reconnecting, GivesUp, Spawns, handleDeleteSession, consoleVars
  <2>2. QED
    BY <1>b, <2>1
<1>13. QED
  BY <1>3, <1>4, <1>5, <1>6, <1>7, <1>8, <1>9, <1>10, <1>11, <1>12
     DEF ConsoleNext, ServerHandles, handleOpenSession

(* Each open channel keeps one owner.                                       *)
LEMMA OwnersNext == ShapeOK /\ OwnersOK /\ [ConsoleNext]_consoleVars => OwnersOK'
<1> SUFFICES ASSUME ShapeOK, OwnersOK, [ConsoleNext]_consoleVars PROVE OwnersOK'
  OBVIOUS
<1>a. ClosedIsEmpty'
  BY ClosedIsEmptyNext
<1>b. \A p \in Pages : sockets[p] \in Socket
  BY DEF ShapeOK
<1>1. CASE /\ UNCHANGED <<kind, channels, routes, tests, orphans>>
           /\ \A p \in Pages : sockets[p].owns' = sockets[p].owns
  BY <1>1, <1>a, OwnersStay
<1>2. ASSUME NEW p \in Pages, SocketFails(p) \/ PageLoads(p) PROVE OwnersOK'
  <2>1. \A q \in Pages : sockets[q].owns' = sockets[q].owns
    <3>1. \/ sockets' = [sockets EXCEPT ![p].state = "closing"]
          \/ sockets' = [sockets EXCEPT ![p].state = "open"]
      BY <1>2 DEF SocketFails, PageLoads
    <3>2. \A q \in Pages : \/ sockets'[q] = sockets[q]
                           \/ sockets'[q] = [sockets[q] EXCEPT !.state = "closing"]
                           \/ sockets'[q] = [sockets[q] EXCEPT !.state = "open"]
      BY <3>1 DEF ShapeOK
    <3>3. QED
      BY <3>2, <1>b DEF Socket
  <2>2. QED
    BY <1>1, <1>2, <2>1 DEF SocketFails, PageLoads
<1>3. ASSUME NEW p \in Pages, SessionCreate(p) PROVE OwnersOK'
  <2> DEFINE c == NextChannel
  <2>1. /\ Unused # {} /\ openChannel(c, {}) /\ UNCHANGED <<kind, orphans>>
        /\ sockets' = [sockets EXCEPT ![p].owns = @ \cup {c}]
    BY <1>3 DEF SessionCreate
  <2>2. PICK over \in {{}, tests} : /\ OpenChannels' = (OpenChannels \ over) \cup {c}
                                  /\ tests' = (tests \ over) \cup {}
    BY <2>1, OneOpened
  <2>3. /\ c \in Unused /\ c \notin OpenChannels /\ routes' = OpenChannels' /\ Unused' = Unused \ {c}
    BY <2>1, OneOpened
  <2>4. \A q \in Pages : sockets[q].owns' = IF q = p THEN sockets[q].owns \cup {c} ELSE sockets[q].owns
    BY <2>1, <1>b DEF ShapeOK, Socket
  <2>5. /\ tests' \subseteq OpenChannels' \ orphans' /\ (kind' = "local" => tests' = {})
        /\ orphans' \subseteq ChannelIds \ Unused'
    BY <2>1, <2>2, <2>3 DEF OwnersOK
  <2>6. \A q \in Pages : sockets[q].owns' \subseteq OpenChannels' \ (tests' \cup orphans')
    <3>1. c \notin tests \cup orphans
      BY <2>3 DEF OwnersOK
    <3>2. \A q \in Pages : sockets[q].owns \subseteq OpenChannels \ (tests \cup orphans)
      BY DEF OwnersOK
    <3> QED
      BY <2>1, <2>2, <2>4, <3>1, <3>2
  <2>7. \A q, r \in Pages : sockets[q].owns' \cap sockets[r].owns' # {} => q = r
    <3>1. \A q \in Pages : c \notin sockets[q].owns
      BY <2>3 DEF OwnersOK
    <3>2. \A q, r \in Pages : \A d : d \in sockets[q].owns /\ d \in sockets[r].owns => q = r
      BY DEF OwnersOK
    <3>3. \A q \in Pages : \A d : d \in sockets[q].owns' =>
             d \in sockets[q].owns \/ (d = c /\ q = p)
      BY <2>4
    <3>4. ASSUME NEW q \in Pages, NEW r \in Pages, NEW d \in sockets[q].owns' \cap sockets[r].owns'
          PROVE  q = r
      BY <3>1, <3>2, <3>3
    <3>5. QED
      BY <3>4
  <2>8. OpenChannels' \subseteq tests' \cup orphans' \cup UNION {sockets[q].owns' : q \in Pages}
    <3>1. c \in sockets[p].owns'
      BY <2>4
    <3>2. ASSUME NEW d \in OpenChannels \ over
          PROVE  d \in tests' \cup orphans' \/ \E q \in Pages : d \in sockets[q].owns'
      <4>1. CASE d \in tests \cup orphans
        BY <2>1, <2>2, <3>2, <4>1
      <4>2. CASE d \notin tests \cup orphans
        <5>1. PICK q \in Pages : d \in sockets[q].owns
          BY <3>2, <4>2 DEF OwnersOK
        <5> QED
          BY <2>4, <5>1
      <4> QED
        BY <4>1, <4>2
    <3> QED
      BY <2>2, <3>1, <3>2
  <2>9. QED
    BY <1>a, <2>3, <2>5, <2>6, <2>7, <2>8 DEF OwnersOK, ClosedIsEmpty
<1>4. ASSUME NEW p \in Pages, ChannelClose(p) PROVE OwnersOK'
  <2> DEFINE mine == {Head(wires[p]).channel} \cap sockets[p].owns
  <2>1. /\ CloseAll(mine) /\ UNCHANGED <<kind, tests, orphans>>
        /\ sockets' = [sockets EXCEPT ![p].owns = @ \ mine]
    BY <1>4 DEF ChannelClose
  <2>2. tests' = tests \ mine /\ UNCHANGED <<kind, orphans>>
    BY <2>1 DEF OwnersOK
  <2>3. \A q \in Pages : sockets[q].owns' = sockets[q].owns \ mine
    BY <2>1, <1>b DEF ShapeOK, Socket, OwnersOK
  <2>4. QED
    BY <1>a, <2>1, <2>2, <2>3, OwnersClose
<1>5. ASSUME NEW p \in Pages, TestStarted(p), kind = "local" PROVE OwnersOK'
  <2>1. NextChannel \in Unused
    BY <1>5 DEF TestStarted, NextChannel
  <2>2. OpenChannels' = OpenChannels /\ Unused' \subseteq Unused
    BY <1>5, <2>1 DEF TestStarted, OpenChannels, Unused, ShapeOK
  <2>3. UNCHANGED <<kind, routes, tests, sockets, orphans>>
    BY <1>5 DEF TestStarted
  <2>4. QED
    BY <1>a, <2>2, <2>3 DEF OwnersOK, ClosedIsEmpty
<1>6. ASSUME NEW test, NEW orphan, openChannel(NextChannel, test), Unused # {},
             UNCHANGED <<kind, sockets>>, orphans' = orphans \cup orphan,
             \/ test = {NextChannel} /\ orphan = {} /\ kind # "local"
             \/ test = {} /\ orphan = {NextChannel}
      PROVE  OwnersOK'
  <2> DEFINE c == NextChannel
  <2>1. PICK over \in {{}, tests} : /\ OpenChannels' = (OpenChannels \ over) \cup {c}
                                  /\ tests' = (tests \ over) \cup test
    BY <1>6, OneOpened
  <2>2. /\ c \in Unused /\ c \notin OpenChannels /\ c \in ChannelIds
        /\ routes' = OpenChannels' /\ Unused' = Unused \ {c}
    BY <1>6, OneOpened
  <2>3. c \notin tests \cup orphans
    BY <2>2 DEF OwnersOK
  <2>4. /\ tests' \subseteq OpenChannels' \ orphans' /\ (kind' = "local" => tests' = {})
        /\ orphans' \subseteq ChannelIds \ Unused'
    BY <1>6, <2>1, <2>2, <2>3 DEF OwnersOK
  <2>5. \A q \in Pages : sockets[q].owns' \subseteq OpenChannels' \ (tests' \cup orphans')
    <3>1. ASSUME NEW q \in Pages, NEW d \in sockets[q].owns
          PROVE  d \in OpenChannels /\ d \notin tests \cup orphans /\ d # c
      BY <2>2 DEF OwnersOK
    <3>2. over \subseteq tests
      OBVIOUS
    <3> QED
      BY <1>6, <2>1, <3>1, <3>2
  <2>6. \A q, r \in Pages : sockets[q].owns' \cap sockets[r].owns' # {} => q = r
    BY <1>6 DEF OwnersOK
  <2>7. OpenChannels' \subseteq tests' \cup orphans' \cup UNION {sockets[q].owns' : q \in Pages}
    <3>1. c \in tests' \cup orphans'
      BY <1>6, <2>1
    <3>2. ASSUME NEW d \in OpenChannels \ over
          PROVE  d \in tests' \cup orphans' \/ d \in UNION {sockets[q].owns : q \in Pages}
      BY <1>6, <2>1, <3>2 DEF OwnersOK
    <3> QED
      BY <1>6, <2>1, <3>1, <3>2
  <2>8. QED
    BY <1>a, <2>2, <2>4, <2>5, <2>6, <2>7 DEF OwnersOK, ClosedIsEmpty
<1>14. ASSUME NEW p \in Pages, SessionFailsLate(p) PROVE OwnersOK'
  BY <1>6, <1>14 DEF SessionFailsLate, AnswersError
<1>15. ASSUME NEW p \in Pages, TestStarted(p), kind # "local" PROVE OwnersOK'
  <2>1. orphans' = orphans \cup {}
    BY <1>15 DEF TestStarted
  <2> QED
    BY <1>6, <1>15, <2>1 DEF TestStarted
<1>7. ASSUME NEW p \in Pages, SocketClose(p) PROVE OwnersOK'
  <2> DEFINE cs == sockets[p].owns
  <2>1. /\ CloseAll(cs) /\ UNCHANGED <<kind, tests, orphans>>
        /\ sockets' = [sockets EXCEPT ![p] = [state |-> "closed", owns |-> {}]]
    BY <1>7 DEF SocketClose, OwnedBy
  <2>2. tests' = tests \ cs /\ UNCHANGED <<kind, orphans>>
    BY <2>1 DEF OwnersOK
  <2>3. \A q \in Pages : sockets[q].owns' = sockets[q].owns \ cs
    BY <2>1 DEF ShapeOK, OwnersOK
  <2>4. QED
    BY <1>a, <2>1, <2>2, <2>3, OwnersClose
<1>8. ASSUME NEW c \in ChannelIds, TestTimesOut(c) PROVE OwnersOK'
  <2>1. \A q \in Pages : sockets[q].owns' = sockets[q].owns \ {c}
    BY <1>8 DEF TestTimesOut, OwnersOK
  <2>2. QED
    BY <1>8, <1>a, <2>1, OwnersClose DEF TestTimesOut
<1>9. ASSUME NEW c \in ChannelIds, handleNaturalClose(c) PROVE OwnersOK'
  <2>1. tests' = tests \ {c}
    BY <1>9 DEF handleNaturalClose, OwnersOK
  <2>2. \A q \in Pages : sockets'[q] = [sockets[q] EXCEPT !.owns = @ \ {c}]
    BY <1>9 DEF handleNaturalClose
  <2>3. \A q \in Pages : sockets[q].owns' = sockets[q].owns \ {c}
    BY <2>2, <1>b DEF Socket
  <2>4. QED
    BY <1>9, <1>a, <2>1, <2>3, OwnersClose DEF handleNaturalClose
<1>10. ASSUME NEW k \in Connections, Connected(k) \/ GivesUp(k) \/ Spawns(k) PROVE OwnersOK'
  <2>1. PICK over \in {{}, tests} : CloseAll(over) /\ tests' = tests \ over
    BY <1>10 DEF Connected, GivesUp, Spawns, TestsOver
  <2>2. \A q \in Pages : sockets[q].owns' = sockets[q].owns \ over
    BY <1>10 DEF Connected, GivesUp, Spawns, OwnersOK
  <2>3. UNCHANGED <<kind, orphans>>
    BY <1>10 DEF Connected, GivesUp, Spawns
  <2>4. QED
    BY <1>a, <2>1, <2>2, <2>3, OwnersClose
<1>11. CASE Disconnect
  <2>1. CloseAll(OpenChannels) /\ tests' = tests \ OpenChannels /\ UNCHANGED <<kind, orphans>>
    BY <1>11 DEF Disconnect, OwnersOK
  <2>2. \A q \in Pages : sockets'[q] = [sockets[q] EXCEPT !.owns = {}]
    BY <1>11 DEF Disconnect
  <2>3. \A q \in Pages : sockets[q].owns' = sockets[q].owns \ OpenChannels
    <3>1. \A q \in Pages : sockets[q].owns \subseteq OpenChannels
      BY DEF OwnersOK
    <3>2. \A q \in Pages : sockets'[q].owns = {}
      BY <2>2, <1>b DEF Socket
    <3> QED
      BY <3>1, <3>2
  <2>4. QED
    BY <1>a, <2>1, <2>3, OwnersClose
<1>12. CASE \/ \E p \in Pages : \/ \E s \in Sessions : handleSubmit(p, s)
                                \/ \E t \in tiles[p] : handleCloseTile(p, t) \/ handleDeleteSession(p, t)
                                \/ handleTestConnection(p)
                                \/ SessionRefused(p) \/ TestAnswered(p)
            \/ \E k \in Connections : Reconnecting(k)
            \/ UNCHANGED consoleVars
  <2>1. UNCHANGED <<kind, channels, routes, tests, sockets, orphans>>
    BY <1>12 DEF handleSubmit, handleCloseTile, handleDeleteSession, handleTestConnection,
                 SessionRefused, AnswersError, TestAnswered, Reconnecting, consoleVars
  <2>2. QED
    BY <1>1, <2>1
<1>13. QED
  BY <1>2, <1>3, <1>4, <1>5, <1>7, <1>8, <1>9, <1>10, <1>11, <1>12, <1>14, <1>15
     DEF ConsoleNext, ServerHandles, handleOpenSession
-------------------------------------------------------------------------------
(* What leaves the tiles of a page alone keeps them in agreement, unless it *)
(* takes a channel from an open socket without ending it.                   *)
LEMMA PageKept ==
    ASSUME ShapeOK, NEW p \in Pages, PageOK(p),
           tiles'[p] = tiles[p], Unused' \subseteq Unused,
           left \subseteq left', ended \subseteq ended',
           \A c \in ChannelIds : Closing(p, c)' => Closing(p, c),
           IsOpen(p)' => /\ IsOpen(p)
                         /\ sockets'[p].owns \subseteq sockets[p].owns
                         /\ sockets[p].owns \subseteq sockets'[p].owns \cup ended'
                         /\ \A c \in ChannelIds : Closing(p, c) => Closing(p, c)'
    PROVE  PageOK(p)'
<1>1. /\ sockets[p].owns \subseteq ChannelIds
      /\ \A t \in tiles[p] : t.channel \in ChannelIds
  BY DEF ShapeOK, Socket, Tile
<1>2. TilesOK(p)'
  BY <1>1 DEF PageOK, TilesOK
<1>3. Agrees(p)'
  BY <1>1 DEF PageOK, Agrees
<1>4. QED
  BY <1>2, <1>3 DEF PageOK

(* A page that sends anything but a close.                                  *)
LEMMA PageSends ==
    ASSUME ShapeOK, NEW p \in Pages, PageOK(p), NEW q \in Pages, NEW m \in Sendable,
           m.type # "close", Send(q, m), UNCHANGED <<channels, sockets, tiles, left, ended>>
    PROVE  PageOK(p)'
<1>1. \A c \in ChannelIds : Closing(p, c)' <=> Closing(p, c)
  BY Sent, Messages DEF Closing
<1>2. Unused' = Unused /\ (IsOpen(p)' <=> IsOpen(p))
  BY DEF Unused, IsOpen
<1>3. QED
  BY <1>1, <1>2, PageKept

(* A page whose wire and tiles no step of another touches.                  *)
LEMMA PageUntouched ==
    ASSUME ShapeOK, NEW p \in Pages, PageOK(p),
           wires'[p] = wires[p], tiles'[p] = tiles[p], Unused' \subseteq Unused,
           left \subseteq left', ended \subseteq ended',
           IsOpen(p)' => /\ IsOpen(p)
                         /\ sockets'[p].owns \subseteq sockets[p].owns
                         /\ sockets[p].owns \subseteq sockets'[p].owns \cup ended'
    PROVE  PageOK(p)'
<1>1. \A c \in ChannelIds : Closing(p, c)' <=> Closing(p, c)
  BY DEF Closing, Has
<1>2. QED
  BY <1>1, PageKept

(* A tab is closed.                                                         *)
LEMMA PageCloses ==
    ASSUME ShapeOK, NEW p \in Pages, PageOK(p), NEW t \in tiles[p], handleCloseTile(p, t)
    PROVE  PageOK(p)'
<1>1. /\ t.channel \in ChannelIds /\ CloseMessage(t.channel) \in Sendable
      /\ \A u \in tiles[p] : u.channel \in ChannelIds
      /\ sockets[p].owns \subseteq ChannelIds
  BY DEF ShapeOK, Tile, Sendable, Socket
<1>2. \A c \in ChannelIds : Closing(p, c)' <=> Closing(p, c) \/ (IsOpen(p) /\ c = t.channel)
  <2>1. \A c : CloseMessage(c) = CloseMessage(t.channel) <=> c = t.channel
    BY DEF CloseMessage
  <2>2. QED
    BY <1>1, <2>1, Sent DEF handleCloseTile, Closing
<1>3. /\ tiles'[p] = tiles[p] \ {t} /\ UNCHANGED <<sockets, left, ended>>
      /\ Unused' = Unused /\ (IsOpen(p)' <=> IsOpen(p))
  BY DEF handleCloseTile, RemoveTile, Unused, IsOpen, ShapeOK
<1>4. TilesOK(p)'
  <2>1. \A u \in tiles'[p] : u.channel # t.channel
    BY <1>3 DEF PageOK, TilesOK
  <2>2. QED
    BY <1>1, <1>2, <1>3, <2>1 DEF PageOK, TilesOK
<1>5. Agrees(p)'
  BY <1>1, <1>2, <1>3 DEF PageOK, Agrees
<1>6. QED
  BY <1>4, <1>5 DEF PageOK

(* A channel comes to a page, or to one that has gone.                      *)
LEMMA PageGains ==
    ASSUME ShapeOK, OwnersOK, NEW p \in Pages, PageOK(p), SessionCreate(p)
    PROVE  PageOK(p)'
<1> DEFINE c == NextChannel
           s == Head(wires[p]).session
           m == Head(wires[p])
<1>1. /\ Unused # {} /\ c \in Unused /\ c \in ChannelIds /\ Unused' = Unused \ {c}
  BY OneOpened DEF SessionCreate
<1>2. /\ wires[p] \in Seq(Sendable) /\ wires[p] # <<>> /\ m \in Sendable /\ m.type = "create"
      /\ Tail(wires[p]) \in Seq(Sendable) /\ s \in Sessions
      /\ \A d : m # CloseMessage(d)
  BY HeadSent, HeadTailProperties, Messages DEF SessionCreate, ShapeOK
<1>3. /\ sockets'[p].owns = sockets[p].owns \cup {c} /\ (IsOpen(p)' <=> IsOpen(p))
      /\ UNCHANGED <<left, ended>>
  BY DEF SessionCreate, ShapeOK, Socket, IsOpen
<1>4. /\ \A t \in tiles[p] : t.channel \in ChannelIds /\ t.channel # c
      /\ ~Closing(p, c)
      /\ sockets[p].owns \subseteq ChannelIds
  BY <1>1 DEF PageOK, TilesOK, ShapeOK, Tile, Socket
<1>5. ASSUME Rest(p) PROVE \A d \in ChannelIds : Closing(p, d)' <=> Closing(p, d)
  BY <1>2, <1>5, Taken DEF Closing
<1>6. CASE IsOpen(p) /\ AddsTile(p, c, s)
  <2> DEFINE new == [channel |-> c, session |-> s]
  <2>1. Rest(p) /\ tiles'[p] = tiles[p] \cup {new}
    BY <1>6 DEF SessionCreate, ShapeOK
  <2>2. \A d \in ChannelIds : Closing(p, d)' <=> Closing(p, d)
    BY <1>5, <2>1
  <2>3. TilesOK(p)'
    BY <1>1, <1>3, <1>4, <2>1, <2>2 DEF PageOK, TilesOK
  <2>4. Agrees(p)'
    <3>1. new \in tiles'[p] /\ new.channel = c
      BY <2>1
    <3>2. \A d \in sockets[p].owns \ left : (\E t \in tiles[p] : t.channel = d) \/ Closing(p, d)
      BY <1>6 DEF PageOK, Agrees
    <3>3. \A d \in sockets'[p].owns \ left' : (\E t \in tiles'[p] : t.channel = d) \/ Closing(p, d)'
      BY <1>3, <1>4, <2>1, <2>2, <3>1, <3>2
    <3>4. \A t \in tiles'[p] : t.channel \in sockets'[p].owns \cup ended'
      BY <1>3, <1>6, <2>1, <3>1 DEF PageOK, Agrees
    <3>5. QED
      BY <3>3, <3>4 DEF Agrees
  <2>5. QED
    BY <2>3, <2>4 DEF PageOK
<1>7. CASE IsOpen(p) /\ ~AddsTile(p, c, s)
  <2>1. wires'[p] = Append(Tail(wires[p]), CloseMessage(c)) /\ tiles' = tiles
    BY <1>7 DEF SessionCreate, ClosesDuplicate, ShapeOK
  <2>2. CloseMessage(c) \in Sendable
    BY <1>1 DEF Sendable
  <2>3. ASSUME NEW d \in ChannelIds PROVE Closing(p, d)' <=> Closing(p, d) \/ d = c
    <3>1. Has(wires'[p], CloseMessage(d)) <=> Has(Tail(wires[p]), CloseMessage(d))
                                              \/ CloseMessage(d) = CloseMessage(c)
      <4>1. Has(Append(Tail(wires[p]), CloseMessage(c)), CloseMessage(d))
              <=> Has(Tail(wires[p]), CloseMessage(d)) \/ CloseMessage(d) = CloseMessage(c)
        <5>1. Tail(wires[p]) \in Seq(Sendable)
          BY <1>2
        <5> QED
          BY <5>1, <2>2, HasAppend
      <4>2. QED
        BY <2>1, <4>1
    <3>2. Has(wires[p], CloseMessage(d)) <=> Has(Tail(wires[p]), CloseMessage(d))
      BY <1>2, HasTail
    <3>3. CloseMessage(d) = CloseMessage(c) <=> d = c
      BY DEF CloseMessage
    <3>4. QED
      BY <3>1, <3>2, <3>3 DEF Closing
  <2>4. TilesOK(p)'
    BY <1>1, <1>3, <1>4, <2>1, <2>3 DEF PageOK, TilesOK
  <2>5. Agrees(p)'
    BY <1>1, <1>3, <1>4, <2>1, <2>3 DEF PageOK, Agrees
  <2>6. QED
    BY <2>4, <2>5 DEF PageOK
<1>8. CASE ~IsOpen(p)
  <2>1. Rest(p) /\ tiles' = tiles
    BY <1>8 DEF SessionCreate
  <2>2. QED
    BY <1>1, <1>3, <1>5, <1>8, <2>1, PageKept
<1>9. QED
  BY <1>6, <1>7, <1>8

(* The server closes a channel that the page asked it to close.             *)
LEMMA PageLoses ==
    ASSUME ShapeOK, NEW p \in Pages, PageOK(p), ChannelClose(p)
    PROVE  PageOK(p)'
<1> DEFINE d == Head(wires[p]).channel
<1>1. /\ wires[p] # <<>> /\ d \in ChannelIds /\ Head(wires[p]) = CloseMessage(d)
  BY HeadSent, Messages DEF ChannelClose
<1>2. \A c \in ChannelIds : Closing(p, c) <=> Closing(p, c)' \/ c = d
  <2>1. \A c : CloseMessage(c) = CloseMessage(d) <=> c = d
    BY DEF CloseMessage
  <2>2. QED
    BY <1>1, <2>1, Taken DEF ChannelClose, Closing
<1>3. /\ sockets'[p].owns = sockets[p].owns \ {d} /\ (IsOpen(p)' <=> IsOpen(p))
      /\ UNCHANGED <<tiles, left, ended>>
  BY DEF ChannelClose, ShapeOK, Socket, IsOpen
<1>4. Unused' = Unused
  BY SomeClosed DEF ChannelClose
<1>5. /\ \A t \in tiles[p] : t.channel \in ChannelIds
      /\ sockets[p].owns \subseteq ChannelIds
  BY DEF ShapeOK, Tile, Socket
<1>6. TilesOK(p)'
  BY <1>2, <1>3, <1>4, <1>5 DEF PageOK, TilesOK
<1>7. Agrees(p)'
  BY <1>1, <1>2, <1>3, <1>5 DEF PageOK, TilesOK, Agrees
<1>8. QED
  BY <1>6, <1>7 DEF PageOK

(* A test takes a channel, on whichever profile.                            *)
LEMMA TestOpens ==
    ASSUME ShapeOK, OwnersOK, NEW p \in Pages, TestStarted(p)
    PROVE  Unused' \subseteq Unused
<1>1. CASE kind = "local"
  <2>1. \/ channels' = channels
        \/ channels' = [channels EXCEPT ![NextChannel] = "closed"]
    BY <1>1 DEF TestStarted
  <2> QED
    BY <2>1 DEF Unused, ShapeOK
<1>2. CASE kind # "local"
  BY <1>2, OneOpened DEF TestStarted
<1> QED
  BY <1>1, <1>2

(* A step of any kind, seen from one page.                                  *)
LEMMA PageNext ==
    ASSUME ShapeOK, OwnersOK, NEW p \in Pages, PageOK(p), [ConsoleNext]_consoleVars
    PROVE  PageOK(p)'
<1>a. sockets[p] \in Socket
  BY DEF ShapeOK
<1>1. ASSUME NEW q \in Pages, NEW s \in Sessions, handleSubmit(q, s) PROVE PageOK(p)'
  <2>1. CreateMessage(s) \in Sendable /\ CreateMessage(s).type # "close"
    BY DEF Sendable, CreateMessage
  <2>2. QED
    BY <1>1, <2>1, PageSends DEF handleSubmit
<1>2. ASSUME NEW q \in Pages, handleTestConnection(q) PROVE PageOK(p)'
  <2>1. TestMessage \in Sendable /\ TestMessage.type # "close"
    BY DEF Sendable, TestMessage
  <2>2. QED
    BY <1>2, <2>1, PageSends DEF handleTestConnection
<1>3. ASSUME NEW q \in Pages, NEW t \in tiles[q], handleCloseTile(q, t) PROVE PageOK(p)'
  <2>1. CASE q = p
    BY <1>3, <2>1, PageCloses
  <2>2. CASE q # p
    <3>1. /\ wires'[p] = wires[p] /\ tiles'[p] = tiles[p]
          /\ UNCHANGED <<channels, sockets, left, ended>>
      BY <1>3, <2>2 DEF handleCloseTile, Send, RemoveTile, ShapeOK
    <3>2. QED
      BY <3>1, PageUntouched DEF Unused, IsOpen
  <2>3. QED
    BY <2>1, <2>2
<1>4. ASSUME NEW q \in Pages, NEW t \in tiles[q], handleDeleteSession(q, t) PROVE PageOK(p)'
  <2>1. /\ UNCHANGED <<wires, channels, sockets, ended>> /\ left' = left \cup {t.channel}
        /\ tiles'[p] = IF q = p THEN tiles[p] \ {t} ELSE tiles[p]
    BY <1>4 DEF handleDeleteSession, RemoveTile, ShapeOK
  <2>2. /\ Unused' = Unused /\ (IsOpen(p)' <=> IsOpen(p))
        /\ \A c : Closing(p, c)' <=> Closing(p, c)
    BY <2>1 DEF Unused, IsOpen, Closing, Has
  <2>3. TilesOK(p)'
    BY <2>1, <2>2 DEF PageOK, TilesOK
  <2>4. Agrees(p)'
    BY <2>1, <2>2 DEF PageOK, Agrees
  <2>5. QED
    BY <2>3, <2>4 DEF PageOK
<1>5. ASSUME NEW q \in Pages, SocketFails(q) PROVE PageOK(p)'
  <2>1. CASE q = p
    <3>1. ~IsOpen(p)'
      BY <1>5, <2>1, <1>a DEF SocketFails, IsOpen, ShapeOK, Socket
    <3>2. wires'[p] = wires[p] \/ wires'[p] = <<>>
      BY <1>5, <2>1 DEF SocketFails, ShapeOK
    <3>3. \A c \in ChannelIds : Closing(p, c)' => Closing(p, c)
      BY <3>2, HasNothing DEF Closing, Has
    <3>4. QED
      BY <1>5, <3>1, <3>3, PageKept DEF SocketFails, Unused
  <2>2. CASE q # p
    <3>1. wires'[p] = wires[p] /\ sockets'[p] = sockets[p] /\ UNCHANGED <<channels, tiles, left, ended>>
      BY <1>5, <2>2 DEF SocketFails, ShapeOK
    <3>2. QED
      BY <3>1, PageUntouched DEF Unused, IsOpen
  <2>3. QED
    BY <2>1, <2>2
<1>6. ASSUME NEW q \in Pages, PageLoads(q) PROVE PageOK(p)'
  <2>1. UNCHANGED <<wires, channels, left, ended>>
    BY <1>6 DEF PageLoads
  <2>2. CASE q = p
    <3>1. /\ tiles'[p] = {} /\ sockets'[p] = [sockets[p] EXCEPT !.state = "open"]
          /\ sockets[p].owns = {}
      BY <1>6, <2>2 DEF PageLoads, OwnersOK, ShapeOK
    <3>2. sockets'[p].owns = {}
      BY <3>1, <1>a DEF Socket
    <3>3. \A c : Closing(p, c)' <=> Closing(p, c)
      BY <2>1 DEF Closing, Has
    <3>4. Unused' = Unused
      BY <2>1 DEF Unused
    <3>5. QED
      BY <3>1, <3>2, <3>3, <3>4 DEF PageOK, TilesOK, Agrees
  <2>3. CASE q # p
    <3>1. tiles'[p] = tiles[p] /\ sockets'[p] = sockets[p]
      BY <1>6, <2>3 DEF PageLoads, ShapeOK
    <3>2. QED
      BY <2>1, <3>1, PageUntouched DEF Unused, IsOpen
  <2>4. QED
    BY <2>2, <2>3
<1>7. ASSUME NEW q \in Pages, SessionCreate(q) PROVE PageOK(p)'
  <2>1. CASE q = p
    BY <1>7, <2>1, PageGains
  <2>2. CASE q # p
    <3>1. /\ wires'[p] = wires[p] /\ tiles'[p] = tiles[p] /\ sockets'[p] = sockets[p]
          /\ UNCHANGED <<left, ended>>
      BY <1>7, <2>2 DEF SessionCreate, Rest, ClosesDuplicate, ShapeOK
    <3>2. Unused' \subseteq Unused
      BY <1>7, OneOpened DEF SessionCreate
    <3>3. QED
      BY <3>1, <3>2, PageUntouched DEF IsOpen
  <2>3. QED
    BY <2>1, <2>2
<1>8. ASSUME NEW q \in Pages,
             SessionRefused(q) \/ SessionFailsLate(q) \/ TestAnswered(q) \/ TestStarted(q)
      PROVE  PageOK(p)'
  <2>1. /\ Rest(q) /\ (First(q, "create") \/ First(q, "test"))
        /\ UNCHANGED <<sockets, tiles, left, ended>>
    BY <1>8 DEF SessionRefused, SessionFailsLate, AnswersError, TestAnswered, TestStarted
  <2>2. /\ wires[q] # <<>> /\ Head(wires[q]) \in Sendable
        /\ Head(wires[q]).type \in {"create", "test"}
    BY <2>1, HeadSent
  <2>3. \A c \in ChannelIds : Closing(p, c)' <=> Closing(p, c)
    <3>1. \A c : Head(wires[q]) # CloseMessage(c)
      BY <2>2, Messages
    <3>2. \A x : Has(wires[p], x) <=> Has(wires[p], x)' \/ (p = q /\ x = Head(wires[q]))
      BY <2>1, <2>2, Taken
    <3> QED
      BY <3>1, <3>2 DEF Closing
  <2>4. Unused' \subseteq Unused
    <3>1. CASE TestStarted(q)
      BY <3>1, TestOpens
    <3>2. CASE SessionFailsLate(q)
      BY <3>2, OneOpened DEF SessionFailsLate
    <3>3. QED
      BY <1>8, <3>1, <3>2 DEF SessionRefused, TestAnswered, Unused
  <2>5. QED
    BY <2>1, <2>3, <2>4, PageKept DEF IsOpen
<1>9. ASSUME NEW q \in Pages, ChannelClose(q) PROVE PageOK(p)'
  <2>1. CASE q = p
    BY <1>9, <2>1, PageLoses
  <2>2. CASE q # p
    <3>1. wires'[p] = wires[p] /\ sockets'[p] = sockets[p] /\ UNCHANGED <<tiles, left, ended>>
      BY <1>9, <2>2 DEF ChannelClose, Rest, ShapeOK
    <3>2. Unused' = Unused
      BY <1>9, SomeClosed DEF ChannelClose
    <3>3. QED
      BY <3>1, <3>2, PageUntouched DEF IsOpen
  <2>3. QED
    BY <2>1, <2>2
<1>10. ASSUME NEW q \in Pages, SocketClose(q) PROVE PageOK(p)'
  <2>1. Unused' = Unused /\ UNCHANGED <<wires, tiles, left, ended>>
    BY <1>10, SomeClosed DEF SocketClose
  <2>2. IsOpen(p)' => sockets'[p] = sockets[p] /\ IsOpen(p)
    BY <1>10 DEF SocketClose, IsOpen, ShapeOK
  <2>3. QED
    BY <2>1, <2>2, PageUntouched
<1>11. CASE \/ \E c \in ChannelIds : TestTimesOut(c)
            \/ \E k \in Connections : Connected(k) \/ Reconnecting(k) \/ GivesUp(k) \/ Spawns(k)
            \/ UNCHANGED consoleVars
  <2>1. UNCHANGED <<sockets, wires, tiles, left, ended>>
    BY <1>11 DEF TestTimesOut, Connected, Reconnecting, GivesUp, Spawns, consoleVars
  <2>2. Unused' = Unused
    BY <1>11, SomeClosed
       DEF TestTimesOut, Connected, Reconnecting, GivesUp, Spawns, consoleVars, Unused
  <2>3. QED
    BY <2>1, <2>2, PageUntouched DEF IsOpen
<1>12. ASSUME NEW cs, CloseAll(cs), ended' = ended \cup cs, UNCHANGED <<wires, tiles, left>>,
              sockets'[p] = [sockets[p] EXCEPT !.owns = @ \ cs]
       PROVE  PageOK(p)'
  <2>1. sockets'[p].owns = sockets[p].owns \ cs /\ (IsOpen(p)' <=> IsOpen(p))
    BY <1>12, <1>a DEF Socket, IsOpen
  <2>2. Unused' = Unused
    BY <1>12, SomeClosed
  <2>3. QED
    BY <1>12, <2>1, <2>2, PageUntouched
<1>13. CASE Disconnect
  <2>1. sockets'[p] = [sockets[p] EXCEPT !.owns = @ \ OpenChannels]
    BY <1>13 DEF Disconnect, OwnersOK
  <2>2. QED
    BY <1>12, <1>13, <2>1 DEF Disconnect
<1>14. ASSUME NEW c \in ChannelIds, handleNaturalClose(c) PROVE PageOK(p)'
  BY <1>12, <1>14 DEF handleNaturalClose
<1>15. QED
  BY <1>1, <1>2, <1>3, <1>4, <1>5, <1>6, <1>7, <1>8, <1>9, <1>10, <1>11, <1>13, <1>14
     DEF ConsoleNext, ServerHandles, handleOpenSession

LEMMA ConsoleInvNext == ConsoleInv /\ [ConsoleNext]_consoleVars => ConsoleInv'
  BY ShapeNext, OwnersNext, PageNext DEF ConsoleInv

(* The console keeps its invariant, whatever the pages click, the sockets   *)
(* fail and the connection does (App.tsx, ws/index.ts and the managers).    *)
THEOREM ConsoleKeepsInv == ConsoleSpec => []ConsoleInv
<1>1. QED
  BY ConsoleInvInit, ConsoleInvNext, PTL DEF ConsoleSpec

-------------------------------------------------------------------------------
LEMMA OneOwner == ConsoleInv => NothingOutlivesItsSocket
<1> SUFFICES ASSUME ConsoleInv PROVE NothingOutlivesItsSocket
  OBVIOUS
<1>a. OwnersOK
  BY DEF ConsoleInv
<1> DEFINE Owners(c) == {p \in Pages : sockets[p].state # "closed" /\ c \in sockets[p].owns}
<1>1. ASSUME NEW c \in OpenChannels, c \in tests \cup orphans PROVE Cardinality(Owners(c)) = 0
  <2>1. Owners(c) = {}
    BY <1>a, <1>1 DEF OwnersOK
  <2>2. QED
    BY <2>1, FS_EmptySet
<1>2. ASSUME NEW c \in OpenChannels, c \notin tests \cup orphans PROVE Cardinality(Owners(c)) = 1
  <2>1. PICK p \in Pages : c \in sockets[p].owns
    BY <1>a, <1>2 DEF OwnersOK
  <2>2. sockets[p].state # "closed"
    BY <1>a, <2>1 DEF OwnersOK
  <2>3. \A q \in Owners(c) : q = p
    BY <1>a, <2>1 DEF OwnersOK
  <2>4. Owners(c) = {p}
    BY <2>1, <2>2, <2>3
  <2>5. QED
    BY <2>4, FS_Singleton
<1>3. routes = OpenChannels
  BY <1>a DEF OwnersOK
<1>4. QED
  BY <1>1, <1>2, <1>3 DEF NothingOutlivesItsSocket

(* No channel outlives its socket or its connection test, but those of a    *)
(* session whose row could not be written, and the manager routes the open  *)
(* channels and no other: the close handler of ws/index.ts with the         *)
(* channelClose of the managers, for any pages and faults.                  *)
THEOREM NoChannelLeaks == ConsoleSpec => []NothingOutlivesItsSocket
<1>1. QED
  BY ConsoleKeepsInv, OneOwner, PTL

LEMMA PagesAgree == ConsoleInv => TilesAndChannelsAgree
  BY DEF ConsoleInv, PageOK, Agrees, Closing, Has, TilesAndChannelsAgree

(* An open page has a tile for each channel of its socket, but those it is  *)
(* closing and those that a delete left, and no tile for a channel that the *)
(* server took from it: addTileFromAck, handleCloseTile and the delete of   *)
(* App.tsx against session:create, channel:close and the managers.          *)
THEOREM NoStrayTiles == ConsoleSpec => []TilesAndChannelsAgree
<1>1. QED
  BY ConsoleKeepsInv, PagesAgree, PTL

-------------------------------------------------------------------------------
(* No connection of the profile is redialled or given up.                   *)
AllWell == \A k \in Connections : pool[k] \notin {"reconnecting", "error"}

(* No banner is on a channel that was never opened, none on a page of the   *)
(* host itself, and none on a live channel when all connections are well.   *)
BannersOK ==
    /\ pool \in [Connections -> ConnectionStates]
    /\ banners \in [Pages -> SUBSET ChannelIds]
    /\ \A p \in Pages : /\ banners[p] \cap Unused = {}
                        /\ kind = "local" => banners[p] = {}
                        /\ IsOpen(p) /\ AllWell => banners[p] \cap sockets[p].owns = {}

LEMMA BannersStart == ConsoleInit => BannersOK
  BY DEF ConsoleInit, BannersOK, ConnectionStates

(* Banners go, channels are opened for others or closed, and the profile is *)
(* not mended by it, or is the host itself.                                 *)
LEMMA BannersFade ==
    ASSUME BannersOK, banners' \in [Pages -> SUBSET ChannelIds], kind' = kind,
           pool' \in [Connections -> ConnectionStates],
           Unused' \subseteq Unused,
           \A p \in Pages : banners'[p] \subseteq banners[p],
           \A p \in Pages : IsOpen(p)' =>
              banners'[p] = {} \/ (IsOpen(p) /\ sockets'[p].owns \subseteq sockets[p].owns \cup Unused),
           AllWell' => AllWell \/ kind = "local" \/ \A p \in Pages : sockets'[p].owns = {}
    PROVE  BannersOK'
<1>1. ASSUME NEW p \in Pages
      PROVE  /\ banners'[p] \cap Unused' = {}
             /\ kind' = "local" => banners'[p] = {}
  BY <1>1 DEF BannersOK
<1>2. ASSUME NEW p \in Pages, IsOpen(p)', AllWell' PROVE banners'[p] \cap sockets'[p].owns = {}
  BY <1>2 DEF BannersOK
<1> QED
  BY <1>1, <1>2 DEF BannersOK

(* A connection settles, falls or is dialled, and channels are opened or    *)
(* closed meanwhile.                                                        *)
LEMMA BannersTold ==
    ASSUME ConsoleInv, BannersOK, NEW k \in Connections, NEW state, setState(k, state),
           state \in {"connecting", "connected", "reconnecting", "error"},
           state = "connecting" => pool[k] = "none",
           kind = "local" => state = "connected",
           kind' = kind, Unused' \subseteq Unused,
           \A p \in Pages : (IsOpen(p)' => IsOpen(p))
                            /\ sockets'[p].owns \subseteq sockets[p].owns \cup Unused
    PROVE  BannersOK'
<1>1. pool' \in [Connections -> ConnectionStates] /\ pool'[k] = state
      /\ \A l \in Connections \ {k} : pool'[l] = pool[l]
  BY DEF setState, BannersOK, ConnectionStates
<1>2. \A p \in Pages : {t.channel : t \in tiles[p]} \subseteq ChannelIds \ Unused
  BY DEF ConsoleInv, ShapeOK, PageOK, TilesOK, Tile
<1>3. \A p \in Pages : \/ banners'[p] = banners[p]
                       \/ banners'[p] = {}
                       \/ banners'[p] = {t.channel : t \in tiles[p]} /\ state = "reconnecting"
  BY DEF setState
<1>4. banners' \in [Pages -> SUBSET ChannelIds]
  BY <1>2 DEF setState, BannersOK
<1>5. ASSUME NEW p \in Pages
      PROVE  /\ banners'[p] \cap Unused' = {}
             /\ kind' = "local" => banners'[p] = {}
  BY <1>2, <1>3, <1>5 DEF BannersOK
<1>6. ASSUME NEW p \in Pages, IsOpen(p)', AllWell' PROVE banners'[p] \cap sockets'[p].owns = {}
  <2>1. state \in {"connected", "connecting"}
    BY <1>1, <1>6 DEF AllWell
  <2>2. CASE state = "connected"
    <3>1. CASE ownsProfile(p)
      BY <2>2, <3>1 DEF setState
    <3>2. CASE ~ownsProfile(p)
      <4>1. banners'[p] = banners[p] /\ sockets[p].owns = {}
        BY <1>6, <3>2 DEF setState, ownsProfile
      <4> QED
        BY <4>1 DEF BannersOK
    <3> QED
      BY <3>1, <3>2
  <2>3. CASE state = "connecting"
    <3>1. banners'[p] = banners[p]
      BY <2>3 DEF setState
    <3>2. AllWell
      BY <1>1, <1>6, <2>3 DEF AllWell
    <3> QED
      BY <1>6, <3>1, <3>2 DEF BannersOK
  <2> QED
    BY <2>1, <2>2, <2>3
<1> QED
  BY <1>1, <1>4, <1>5, <1>6 DEF BannersOK

(* A channel is opened, on the pool as it is or on a new connection.        *)
LEMMA BannersOpen ==
    ASSUME ConsoleInv, BannersOK, NEW c, NEW test, openChannel(c, test), kind' = kind,
           Unused' \subseteq Unused,
           \A p \in Pages : (IsOpen(p)' => IsOpen(p))
                            /\ sockets'[p].owns \subseteq sockets[p].owns \cup Unused
    PROVE  BannersOK'
<1>1. CASE UNCHANGED <<pool, banners>>
  <2>1. AllWell' => AllWell
    BY <1>1 DEF AllWell
  <2> QED
    BY <1>1, <2>1, BannersFade DEF BannersOK
<1>2. ASSUME NEW k \in Connections \ Dialled, NEW state \in Outcomes, setState(k, state)
      PROVE  BannersOK'
  <2>1. pool[k] = "none"
    BY DEF Dialled
  <2>2. /\ state \in {"connecting", "connected", "reconnecting", "error"}
        /\ kind = "local" => state = "connected"
    BY DEF Outcomes
  <2> QED
    BY <1>2, <2>1, <2>2, BannersTold
<1> QED
  BY <1>1, <1>2 DEF openChannel

(* The host itself comes up.                                                *)
LEMMA BannersLocal ==
    ASSUME BannersOK, ConnectsLocal
    PROVE  pool' \in [Connections -> ConnectionStates]
  BY DEF ConnectsLocal, BannersOK, ConnectionStates

LEMMA BannersStep ==
    ASSUME ConsoleInv, BannersOK, [ConsoleNext]_consoleVars
    PROVE  BannersOK'
<1> DEFINE Fewer == /\ banners' \in [Pages -> SUBSET ChannelIds]
                    /\ \A p \in Pages : banners'[p] \subseteq banners[p]
           SameSockets == \A p \in Pages : /\ IsOpen(p)' => IsOpen(p)
                                           /\ sockets'[p].owns \subseteq sockets[p].owns
<1>1. ShapeOK /\ OwnersOK /\ \A p \in Pages : sockets[p] \in Socket
  BY DEF ConsoleInv, ShapeOK
<1>2. banners' = banners => Fewer
  BY DEF BannersOK
<1>3. sockets' = sockets => SameSockets
  BY DEF IsOpen
<1>4. channels' = channels => Unused' \subseteq Unused
  BY DEF Unused
<1>5. Fewer /\ SameSockets /\ UNCHANGED <<kind, pool>> /\ Unused' \subseteq Unused => BannersOK'
  <2> SUFFICES ASSUME Fewer, SameSockets, UNCHANGED <<kind, pool>>, Unused' \subseteq Unused
               PROVE  BannersOK'
    OBVIOUS
  <2>1. AllWell' => AllWell
    BY DEF AllWell
  <2>2. pool' \in [Connections -> ConnectionStates]
    BY DEF BannersOK
  <2> QED
    BY <2>1, <2>2, BannersFade
<1>6. ASSUME NEW p \in Pages, NEW t \in tiles[p], RemoveTile(p, t) PROVE Fewer
  BY <1>6 DEF RemoveTile, BannersOK
<1>7. CASE UNCHANGED consoleVars \/ \E p \in Pages : \/ \E s \in Sessions : handleSubmit(p, s)
                                                     \/ handleTestConnection(p) \/ TestAnswered(p)
  BY <1>2, <1>3, <1>4, <1>5, <1>7 DEF consoleVars, handleSubmit, handleTestConnection, TestAnswered
<1>8. ASSUME NEW p \in Pages, NEW t \in tiles[p], handleCloseTile(p, t) \/ handleDeleteSession(p, t)
      PROVE  BannersOK'
  BY <1>3, <1>4, <1>5, <1>6, <1>8 DEF handleCloseTile, handleDeleteSession
<1>9. ASSUME NEW p \in Pages, SocketFails(p) PROVE BannersOK'
  <2>1. SameSockets
    BY <1>1, <1>9 DEF SocketFails, IsOpen, ShapeOK, Socket
  <2> QED
    BY <1>2, <1>4, <1>5, <1>9, <2>1 DEF SocketFails
<1>10. ASSUME NEW p \in Pages, PageLoads(p) PROVE BannersOK'
  <2>1. Fewer /\ banners'[p] = {}
    BY <1>10 DEF PageLoads, BannersOK
  <2>2. \A q \in Pages \ {p} : (IsOpen(q)' <=> IsOpen(q)) /\ sockets'[q] = sockets[q]
    BY <1>1, <1>10 DEF PageLoads, IsOpen, ShapeOK
  <2>3. (AllWell' => AllWell) /\ pool' \in [Connections -> ConnectionStates]
    BY <1>10 DEF PageLoads, AllWell, BannersOK
  <2> QED
    BY <1>4, <1>10, <2>1, <2>2, <2>3, BannersFade DEF PageLoads
<1>11. ASSUME NEW p \in Pages, SessionCreate(p) PROVE BannersOK'
  <2>1. NextChannel \in Unused /\ Unused' \subseteq Unused
    BY <1>1, <1>11, OneOpened DEF SessionCreate
  <2>2. \A q \in Pages : (IsOpen(q)' => IsOpen(q)) /\ sockets'[q].owns \subseteq sockets[q].owns \cup Unused
    BY <1>1, <1>11, <2>1 DEF SessionCreate, IsOpen, ShapeOK, Socket
  <2> QED
    BY <1>11, <2>1, <2>2, BannersOpen DEF SessionCreate
<1>12. ASSUME NEW p \in Pages, SessionRefused(p) PROVE BannersOK'
  <2>1. Unused' = Unused /\ UNCHANGED <<kind, sockets, banners>>
    BY <1>12 DEF SessionRefused, AnswersError, Unused
  <2>2. CASE UNCHANGED pool
    BY <1>2, <1>3, <1>5, <2>1, <2>2
  <2>3. CASE kind = "local" /\ ConnectsLocal
    <3>1. pool' \in [Connections -> ConnectionStates]
      BY <2>3, BannersLocal
    <3>2. \A q \in Pages : (IsOpen(q)' => IsOpen(q)) /\ sockets'[q].owns \subseteq sockets[q].owns
      BY <2>1 DEF IsOpen
    <3> QED
      BY <1>2, <2>1, <2>3, <3>1, <3>2, BannersFade
  <2> QED
    BY <1>12, <2>2, <2>3 DEF SessionRefused
<1>22. ASSUME NEW p \in Pages, SessionFailsLate(p) PROVE BannersOK'
  <2>1. Unused' \subseteq Unused
    BY <1>1, <1>22, OneOpened DEF SessionFailsLate
  <2>2. \A q \in Pages : (IsOpen(q)' => IsOpen(q)) /\ sockets'[q].owns \subseteq sockets[q].owns \cup Unused
    BY <1>22 DEF SessionFailsLate, AnswersError, IsOpen
  <2> QED
    BY <1>22, <2>1, <2>2, BannersOpen DEF SessionFailsLate, AnswersError
<1>13. ASSUME NEW p \in Pages, ChannelClose(p) PROVE BannersOK'
  <2>1. Unused' = Unused
    BY <1>1, <1>13, SomeClosed DEF ChannelClose
  <2>2. SameSockets
    BY <1>1, <1>13 DEF ChannelClose, IsOpen, ShapeOK, Socket
  <2> QED
    BY <1>2, <1>5, <1>13, <2>1, <2>2 DEF ChannelClose
<1>14. ASSUME NEW p \in Pages, TestStarted(p) PROVE BannersOK'
  <2>1. Unused' \subseteq Unused
    BY <1>1, <1>14, TestOpens
  <2>2. \A q \in Pages : (IsOpen(q)' => IsOpen(q)) /\ sockets'[q].owns \subseteq sockets[q].owns \cup Unused
    BY <1>14 DEF TestStarted, IsOpen
  <2>3. CASE kind = "local"
    <3>1. pool' \in [Connections -> ConnectionStates] /\ banners' = banners
      BY <1>14, <2>3, BannersLocal DEF TestStarted
    <3> QED
      BY <1>2, <1>14, <2>1, <2>2, <2>3, <3>1, BannersFade DEF TestStarted
  <2>4. CASE kind # "local"
    BY <1>14, <2>1, <2>2, <2>4, BannersOpen DEF TestStarted
  <2> QED
    BY <2>3, <2>4
<1>15. ASSUME NEW p \in Pages, SocketClose(p) PROVE BannersOK'
  <2>1. Unused' = Unused
    BY <1>1, <1>15, SomeClosed DEF SocketClose
  <2>2. SameSockets
    BY <1>1, <1>15 DEF SocketClose, IsOpen, ShapeOK
  <2> QED
    BY <1>2, <1>5, <1>15, <2>1, <2>2 DEF SocketClose
<1>16. ASSUME NEW c \in ChannelIds, TestTimesOut(c) PROVE BannersOK'
  <2>1. Unused' = Unused
    BY <1>1, <1>16, SomeClosed DEF TestTimesOut
  <2> QED
    BY <1>2, <1>3, <1>5, <1>16, <2>1 DEF TestTimesOut
<1>17. ASSUME NEW c \in ChannelIds, handleNaturalClose(c) PROVE BannersOK'
  <2>1. Unused' = Unused
    BY <1>1, <1>17, SomeClosed DEF handleNaturalClose
  <2>2. SameSockets
    BY <1>1, <1>17 DEF handleNaturalClose, IsOpen, Socket
  <2> QED
    BY <1>2, <1>5, <1>17, <2>1, <2>2 DEF handleNaturalClose
<1>18. ASSUME NEW k \in Connections, NEW state, setState(k, state),
              state \in {"connecting", "connected", "reconnecting", "error"},
              state = "connecting" => pool[k] = "none",
              kind = "local" => state = "connected",
              UNCHANGED <<kind, sockets>>, Unused' = Unused
       PROVE  BannersOK'
  <2>1. \A p \in Pages : (IsOpen(p)' => IsOpen(p)) /\ sockets'[p].owns \subseteq sockets[p].owns \cup Unused
    BY <1>18 DEF IsOpen
  <2> QED
    BY <1>18, <2>1, BannersTold
<1>19. ASSUME NEW k \in Connections, Connected(k) \/ GivesUp(k) PROVE BannersOK'
  <2>1. Unused' = Unused
    BY <1>1, <1>19, SomeClosed DEF Connected, GivesUp
  <2>2. CASE Connected(k)
    BY <1>18, <2>1, <2>2 DEF Connected
  <2>3. CASE GivesUp(k) /\ kind # "local"
    BY <1>18, <2>1, <2>3 DEF GivesUp
  <2>4. CASE GivesUp(k) /\ kind = "local"
    <3>1. \A p \in Pages : banners[p] = {}
      BY <2>4 DEF BannersOK
    <3>2. banners' = banners
      BY <2>4 DEF GivesUp, setState, BannersOK
    <3>3. pool' \in [Connections -> ConnectionStates]
      BY <2>4 DEF GivesUp, setState, BannersOK, ConnectionStates
    <3>4. \A p \in Pages : (IsOpen(p)' => IsOpen(p)) /\ sockets'[p].owns \subseteq sockets[p].owns
      BY <2>4 DEF GivesUp, IsOpen
    <3> QED
      BY <1>2, <2>1, <2>4, <3>2, <3>3, <3>4, BannersFade DEF GivesUp
  <2> QED
    BY <1>19, <2>2, <2>3, <2>4
<1>20. ASSUME NEW k \in Connections, Reconnecting(k) \/ Spawns(k) PROVE BannersOK'
  <2>1. Unused' = Unused /\ UNCHANGED <<kind, sockets>> /\ kind # "local"
    BY <1>1, <1>20, SomeClosed DEF Reconnecting, Spawns, Unused
  <2>2. CASE Reconnecting(k)
    BY <1>18, <2>1, <2>2 DEF Reconnecting
  <2>3. CASE Spawns(k)
    <3>1. PICK state \in Outcomes : setState(k, state)
      BY <2>3 DEF Spawns
    <3>2. pool[k] = "none" /\ state \in {"connecting", "reconnecting", "error"}
      BY <2>1, <2>3, <3>1 DEF Spawns, Dialled, Outcomes
    <3> QED
      BY <1>18, <2>1, <3>1, <3>2
  <2> QED
    BY <1>20, <2>2, <2>3
<1>21. CASE Disconnect
  <2>1. Unused' = Unused
    BY <1>1, <1>21, SomeClosed DEF Disconnect
  <2>2. SameSockets /\ \A p \in Pages : sockets'[p].owns = {}
    BY <1>1, <1>21 DEF Disconnect, IsOpen, Socket
  <2>3. pool' \in [Connections -> ConnectionStates]
    BY <1>21 DEF Disconnect, ConnectionStates
  <2> QED
    BY <1>2, <1>21, <2>1, <2>2, <2>3, BannersFade DEF Disconnect
<1> QED
  BY <1>7, <1>8, <1>9, <1>10, <1>11, <1>12, <1>13, <1>14, <1>15, <1>16, <1>17, <1>19,
     <1>20, <1>21, <1>22 DEF ConsoleNext, ServerHandles, handleOpenSession

(* A tile that says that it is reconnecting, and whose channel is alive,    *)
(* says so for a connection of the pool that is redialled or was given up:  *)
(* onState of ws/index.ts tells a state to the sockets that own a channel   *)
(* at that moment, and no page that shows the banner on a live channel      *)
(* misses a connected, of any number of connections.                        *)
THEOREM NoBannerIsLeft == ConsoleSpec => []BannerMeansAFault
<1>1. ConsoleInit => ConsoleInv /\ BannersOK
  BY ConsoleInvInit, BannersStart
<1>2. (ConsoleInv /\ BannersOK) /\ [ConsoleNext]_consoleVars => (ConsoleInv /\ BannersOK)'
  BY ConsoleInvNext, BannersStep
<1>3. ConsoleInv /\ BannersOK => BannerMeansAFault
  BY DEF BannersOK, AllWell, BannerMeansAFault
<1> QED
  BY <1>1, <1>2, <1>3, PTL DEF ConsoleSpec

-------------------------------------------------------------------------------
(* The opens of a page that are not answered are those on their way.        *)
Creates(q) == {i \in DOMAIN q : q[i].type = "create"}

AskedOK ==
    /\ asked \in [Pages -> Nat]
    /\ \A p \in Pages : asked[p] = (IF IsOpen(p) THEN Cardinality(Creates(wires[p])) ELSE 0)

LEMMA CreatesFinite ==
    ASSUME NEW S, NEW q \in Seq(S)
    PROVE  IsFiniteSet(Creates(q)) /\ Cardinality(Creates(q)) \in Nat
<1>1. Creates(q) \subseteq 1..Len(q) /\ Len(q) \in Nat
  BY LenProperties DEF Creates
<1>2. IsFiniteSet(1..Len(q))
  BY <1>1, FS_Interval
<1> QED
  BY <1>1, <1>2, FS_Subset, FS_CardinalityType

LEMMA CreatesAppend ==
    ASSUME NEW S, NEW q \in Seq(S), NEW m \in S
    PROVE  Cardinality(Creates(Append(q, m)))
             = Cardinality(Creates(q)) + (IF m.type = "create" THEN 1 ELSE 0)
<1>1. /\ DOMAIN q = 1..Len(q) /\ Len(q) \in Nat
      /\ DOMAIN Append(q, m) = 1..(Len(q) + 1)
      /\ \A i \in 1..Len(q) : Append(q, m)[i] = q[i]
      /\ Append(q, m)[Len(q) + 1] = m
  BY AppendProperties, LenProperties
<1>2. Creates(Append(q, m)) = Creates(q) \cup (IF m.type = "create" THEN {Len(q) + 1} ELSE {})
  BY <1>1 DEF Creates
<1>3. Len(q) + 1 \notin Creates(q)
  BY <1>1 DEF Creates
<1>4. IsFiniteSet(Creates(q)) /\ Cardinality(Creates(q)) \in Nat
  BY CreatesFinite
<1>5. Cardinality(Creates(q) \cup {Len(q) + 1}) = Cardinality(Creates(q)) + 1
  BY <1>3, <1>4, FS_AddElement
<1>6. CASE m.type = "create"
  BY <1>2, <1>5, <1>6
<1>7. CASE m.type # "create"
  BY <1>2, <1>4, <1>7
<1> QED
  BY <1>6, <1>7

LEMMA CreatesTail ==
    ASSUME NEW S, NEW q \in Seq(S), q # <<>>
    PROVE  Cardinality(Creates(q))
             = Cardinality(Creates(Tail(q))) + (IF Head(q).type = "create" THEN 1 ELSE 0)
<1>1. /\ Tail(q) \in Seq(S) /\ Len(Tail(q)) = Len(q) - 1
      /\ \A i \in 1..Len(Tail(q)) : Tail(q)[i] = q[i + 1]
  BY HeadTailProperties
<1>2. /\ DOMAIN q = 1..Len(q) /\ DOMAIN Tail(q) = 1..(Len(q) - 1)
      /\ Len(q) \in Nat /\ Len(q) # 0 /\ Head(q) = q[1]
  BY <1>1, LenProperties, EmptySeq
<1> DEFINE later == Creates(q) \ {1}
           shift == [i \in Creates(Tail(q)) |-> i + 1]
<1>3. shift \in Bijection(Creates(Tail(q)), later)
  <2>1. \A i \in Creates(Tail(q)) : i \in Nat /\ i + 1 \in later
    BY <1>1, <1>2 DEF Creates
  <2>2. \A j \in later : j - 1 \in Creates(Tail(q)) /\ (j - 1) + 1 = j
    BY <1>1, <1>2 DEF Creates
  <2>3. shift \in [Creates(Tail(q)) -> later]
    BY <2>1
  <2>4. \A i, j \in Creates(Tail(q)) : shift[i] = shift[j] => i = j
    BY <2>1
  <2>5. \A j \in later : \E i \in Creates(Tail(q)) : shift[i] = j
    BY <2>2
  <2> HIDE DEF shift, later
  <2> QED
    BY <2>3, <2>4, <2>5 DEF Bijection, Injection, Surjection, IsInjective
<1>4. Cardinality(later) = Cardinality(Creates(Tail(q)))
  <2>1. ExistsBijection(Creates(Tail(q)), later)
    BY <1>3 DEF ExistsBijection
  <2>2. IsFiniteSet(Creates(Tail(q)))
    BY <1>1, CreatesFinite
  <2> HIDE DEF later
  <2> QED
    BY <2>1, <2>2, FS_Bijection
<1>5. /\ IsFiniteSet(Creates(q)) /\ Cardinality(Creates(q)) \in Nat
      /\ Cardinality(later) = IF 1 \in Creates(q) THEN Cardinality(Creates(q)) - 1
                              ELSE Cardinality(Creates(q))
  BY CreatesFinite, FS_RemoveElement
<1>6. 1 \in Creates(q) <=> Head(q).type = "create"
  BY <1>2 DEF Creates
<1> QED
  BY <1>4, <1>5, <1>6

(* What each page sends, and what the server takes.                         *)
LEMMA CreatesSent ==
    ASSUME ShapeOK, NEW p \in Pages, NEW m \in Sendable, Send(p, m)
    PROVE  \A q \in Pages : Cardinality(Creates(wires'[q]))
             = Cardinality(Creates(wires[q]))
                 + (IF q = p /\ IsOpen(p) /\ m.type = "create" THEN 1 ELSE 0)
<1>1. \A q \in Pages : wires[q] \in Seq(Sendable)
  BY DEF ShapeOK
<1>2. \A q \in Pages : Cardinality(Creates(wires[q])) \in Nat
  BY <1>1, CreatesFinite
<1>3. Cardinality(Creates(Append(wires[p], m)))
        = Cardinality(Creates(wires[p])) + (IF m.type = "create" THEN 1 ELSE 0)
  BY <1>1, CreatesAppend
<1>4. CASE IsOpen(p)
  <2>1. wires'[p] = Append(wires[p], m) /\ \A q \in Pages \ {p} : wires'[q] = wires[q]
    BY <1>4 DEF Send, ShapeOK
  <2>2. ASSUME NEW q \in Pages \ {p}
        PROVE  Cardinality(Creates(wires'[q])) = Cardinality(Creates(wires[q])) + 0
    BY <1>2, <2>1
  <2>3. Cardinality(Creates(wires'[p]))
          = Cardinality(Creates(wires[p])) + (IF m.type = "create" THEN 1 ELSE 0)
    BY <1>3, <2>1
  <2> QED
    BY <1>4, <2>2, <2>3
<1>5. CASE ~IsOpen(p)
  BY <1>2, <1>5 DEF Send
<1> QED
  BY <1>4, <1>5

LEMMA CreatesTaken ==
    ASSUME ShapeOK, NEW p \in Pages, wires[p] # <<>>, wires'[p] = Tail(wires[p])
    PROVE  /\ Cardinality(Creates(wires'[p])) \in Nat
           /\ Cardinality(Creates(wires[p]))
                = Cardinality(Creates(wires'[p])) + (IF Head(wires[p]).type = "create" THEN 1 ELSE 0)
<1>1. wires[p] \in Seq(Sendable) /\ Tail(wires[p]) \in Seq(Sendable)
  BY HeadTailProperties DEF ShapeOK
<1> QED
  BY <1>1, CreatesTail, CreatesFinite

(* A page is told what it asked as far as its messages were handled.        *)
LEMMA AskedStays ==
    ASSUME ShapeOK, ShapeOK', AskedOK, asked' = asked,
           \A p \in Pages : (IsOpen(p)' <=> IsOpen(p)),
           \A p \in Pages : Cardinality(Creates(wires'[p])) = Cardinality(Creates(wires[p]))
    PROVE  AskedOK'
  BY DEF AskedOK

LEMMA AskedAnswered ==
    ASSUME ShapeOK, AskedOK, NEW p \in Pages, First(p, "create"),
           asked' = [asked EXCEPT ![p] = IF IsOpen(p) THEN @ - 1 ELSE @],
           \A q \in Pages : (IsOpen(q)' <=> IsOpen(q)),
           \A q \in Pages \ {p} : wires'[q] = wires[q],
           /\ Cardinality(Creates(wires'[p])) \in Nat
           /\ Cardinality(Creates(wires[p])) = Cardinality(Creates(wires'[p])) + 1
    PROVE  AskedOK' /\ \A q \in Pages : asked'[q] <= asked[q]
<1>1. asked'[p] = IF IsOpen(p) THEN Cardinality(Creates(wires'[p])) ELSE 0
  BY DEF AskedOK
<1>2. \A q \in Pages \ {p} : asked'[q] = asked[q]
  BY DEF AskedOK
<1>3. asked' \in [Pages -> Nat]
  BY <1>1 DEF AskedOK
<1>4. asked'[p] <= asked[p]
  BY <1>1 DEF AskedOK
<1>5. \A q \in Pages : asked'[q] = (IF IsOpen(q)' THEN Cardinality(Creates(wires'[q])) ELSE 0)
  BY <1>1, <1>2 DEF AskedOK
<1> QED
  BY <1>2, <1>3, <1>4, <1>5 DEF AskedOK

LEMMA AskedStep ==
    ASSUME ConsoleInv, AskedOK, [ConsoleNext]_consoleVars
    PROVE  /\ AskedOK'
           /\ \A p \in Pages : asked'[p] <= asked[p] \/ (asked'[p] = asked[p] + 1 /\ events' = events + 1)
<1> DEFINE Slower == \A p \in Pages : asked'[p] <= asked[p]
                                      \/ (asked'[p] = asked[p] + 1 /\ events' = events + 1)
           SameOpen == \A p \in Pages : (IsOpen(p)' <=> IsOpen(p))
           SameCreates == \A p \in Pages : Cardinality(Creates(wires'[p])) = Cardinality(Creates(wires[p]))
<1>1. ShapeOK /\ OwnersOK /\ ShapeOK' /\ \A p \in Pages : sockets[p] \in Socket
  BY ShapeNext DEF ConsoleInv, ShapeOK
<1>2. \A p \in Pages : wires[p] \in Seq(Sendable) /\ Cardinality(Creates(wires[p])) \in Nat
  BY <1>1, CreatesFinite DEF ShapeOK
<1>3. asked' = asked => Slower
  BY DEF AskedOK
<1>4. asked' = asked /\ SameOpen /\ SameCreates => AskedOK' /\ Slower
  BY <1>1, <1>3, AskedStays
<1>5. sockets' = sockets => SameOpen
  BY DEF IsOpen
<1>6. wires' = wires => SameCreates
  OBVIOUS
<1>7. ASSUME NEW p \in Pages, NEW m \in Sendable, m.type # "create", Send(p, m) PROVE SameCreates
  BY <1>1, <1>2, <1>7, CreatesSent
<1>8. ASSUME NEW p \in Pages, First(p, "close") \/ First(p, "test"), Rest(p) PROVE SameCreates
  <2>1. wires[p] # <<>> /\ Head(wires[p]).type # "create"
    BY <1>8 DEF First
  <2>2. wires'[p] = Tail(wires[p]) /\ \A q \in Pages \ {p} : wires'[q] = wires[q]
    BY <1>1, <1>8 DEF Rest, ShapeOK
  <2>3. Cardinality(Creates(wires'[p])) = Cardinality(Creates(wires[p]))
    BY <1>1, <2>1, <2>2, CreatesTaken
  <2> QED
    BY <2>2, <2>3
<1>9. ASSUME NEW p \in Pages, NEW s \in Sessions, handleSubmit(p, s) PROVE AskedOK' /\ Slower
  <2>1. CreateMessage(s) \in Sendable /\ CreateMessage(s).type = "create"
    BY DEF Sendable, CreateMessage
  <2>2. \A q \in Pages : Cardinality(Creates(wires'[q]))
          = Cardinality(Creates(wires[q])) + (IF q = p /\ IsOpen(p) THEN 1 ELSE 0)
    BY <1>1, <1>9, <2>1, CreatesSent DEF handleSubmit
  <2>3. /\ asked' = [asked EXCEPT ![p] = IF IsOpen(p) THEN @ + 1 ELSE @]
        /\ events' = events + 1 /\ sockets' = sockets
    BY <1>9 DEF handleSubmit, Event
  <2>4. asked' \in [Pages -> Nat]
    BY <2>3 DEF AskedOK
  <2>5. Slower
    BY <2>3 DEF AskedOK
  <2>6. ASSUME NEW q \in Pages
        PROVE  asked'[q] = (IF IsOpen(q) THEN Cardinality(Creates(wires'[q])) ELSE 0)
    <3>1. CASE q = p
      BY <2>2, <2>3, <3>1 DEF AskedOK
    <3>2. CASE q # p
      BY <1>2, <2>2, <2>3, <3>2 DEF AskedOK
    <3> QED
      BY <3>1, <3>2
  <2> QED
    BY <1>5, <2>3, <2>4, <2>5, <2>6 DEF AskedOK
<1>10. ASSUME NEW p \in Pages, NEW t \in tiles[p], handleCloseTile(p, t) PROVE AskedOK' /\ Slower
  <2>1. CloseMessage(t.channel) \in Sendable /\ CloseMessage(t.channel).type # "create"
    BY <1>1 DEF Sendable, CloseMessage, ShapeOK, Tile
  <2>2. SameCreates
    BY <1>7, <1>10, <2>1 DEF handleCloseTile
  <2> QED
    BY <1>4, <1>5, <1>10, <2>2 DEF handleCloseTile
<1>11. ASSUME NEW p \in Pages, handleTestConnection(p) PROVE AskedOK' /\ Slower
  <2>1. TestMessage \in Sendable /\ TestMessage.type # "create"
    BY DEF Sendable, TestMessage
  <2>2. SameCreates
    BY <1>7, <1>11, <2>1 DEF handleTestConnection
  <2> QED
    BY <1>4, <1>5, <1>11, <2>2 DEF handleTestConnection
<1>12. ASSUME NEW p \in Pages, SocketFails(p) PROVE AskedOK' /\ Slower
  <2>1. /\ ~IsOpen(p)' /\ \A q \in Pages \ {p} : (IsOpen(q)' <=> IsOpen(q)) /\ wires'[q] = wires[q]
    BY <1>1, <1>12 DEF SocketFails, IsOpen, ShapeOK, Socket
  <2>2. asked' = [asked EXCEPT ![p] = 0]
    BY <1>12 DEF SocketFails
  <2> QED
    BY <2>1, <2>2 DEF AskedOK
<1>13. ASSUME NEW p \in Pages, PageLoads(p) PROVE AskedOK' /\ Slower
  <2>1. wires[p] = <<>> /\ ~IsOpen(p) /\ asked' = asked /\ wires' = wires
    BY <1>1, <1>13 DEF PageLoads, OwnersOK, IsOpen
  <2>2. \A q \in Pages \ {p} : (IsOpen(q)' <=> IsOpen(q))
    BY <1>1, <1>13 DEF PageLoads, IsOpen, ShapeOK
  <2>3. Cardinality(Creates(wires[p])) = 0
    <3>1. Creates(wires[p]) = {}
      BY <2>1 DEF Creates
    <3> QED
      BY <3>1, FS_EmptySet
  <2> QED
    BY <1>3, <2>1, <2>2, <2>3 DEF AskedOK
<1>14. ASSUME NEW p \in Pages, SessionCreate(p) PROVE AskedOK' /\ Slower
  <2> DEFINE close == CloseMessage(NextChannel)
  <2>1. wires[p] # <<>> /\ Head(wires[p]).type = "create" /\ Tail(wires[p]) \in Seq(Sendable)
    BY <1>1, <1>14, HeadTailProperties DEF SessionCreate, First, ShapeOK
  <2>2. close \in Sendable /\ close.type # "create"
    BY <1>1, <1>14, OneOpened DEF SessionCreate, Sendable, CloseMessage
  <2>3. \/ wires' = [wires EXCEPT ![p] = Tail(@)]
        \/ wires' = [wires EXCEPT ![p] = Append(Tail(@), close)]
    BY <1>14 DEF SessionCreate, Rest, ClosesDuplicate
  <2>4. /\ \A q \in Pages \ {p} : wires'[q] = wires[q]
        /\ wires'[p] = Tail(wires[p]) \/ wires'[p] = Append(Tail(wires[p]), close)
    BY <1>1, <2>3 DEF ShapeOK
  <2>5. Cardinality(Creates(Append(Tail(wires[p]), close))) = Cardinality(Creates(Tail(wires[p]))) + 0
    BY <2>1, <2>2, CreatesAppend
  <2>6. /\ Cardinality(Creates(Tail(wires[p]))) \in Nat
        /\ Cardinality(Creates(wires[p])) = Cardinality(Creates(Tail(wires[p]))) + 1
    BY <1>2, <2>1, CreatesFinite, CreatesTail
  <2>7. /\ Cardinality(Creates(wires'[p])) \in Nat
        /\ Cardinality(Creates(wires[p])) = Cardinality(Creates(wires'[p])) + 1
    <3>1. CASE wires'[p] = Tail(wires[p])
      BY <2>6, <3>1
    <3>2. CASE wires'[p] = Append(Tail(wires[p]), close)
      <4>1. Cardinality(Creates(wires'[p])) = Cardinality(Creates(Tail(wires[p])))
        BY <2>5, <2>6, <3>2
      <4> QED
        BY <2>6, <4>1
    <3> QED
      BY <2>4, <3>1, <3>2
  <2>8. SameOpen
    BY <1>1, <1>14 DEF SessionCreate, IsOpen, ShapeOK, Socket
  <2>9. /\ First(p, "create")
        /\ asked' = [asked EXCEPT ![p] = IF IsOpen(p) THEN @ - 1 ELSE @]
    BY <1>14 DEF SessionCreate
  <2> HIDE DEF close
  <2> QED
    BY <1>1, <1>14, <2>4, <2>7, <2>8, <2>9, AskedAnswered
<1>15. ASSUME NEW p \in Pages, SessionRefused(p) \/ SessionFailsLate(p) PROVE AskedOK' /\ Slower
  <2>1. /\ wires[p] # <<>> /\ Head(wires[p]).type = "create"
        /\ wires'[p] = Tail(wires[p]) /\ \A q \in Pages \ {p} : wires'[q] = wires[q]
    BY <1>1, <1>15 DEF SessionRefused, SessionFailsLate, AnswersError, First, Rest, ShapeOK
  <2>2. /\ Cardinality(Creates(wires'[p])) \in Nat
        /\ Cardinality(Creates(wires[p])) = Cardinality(Creates(wires'[p])) + 1
    BY <1>1, <2>1, CreatesTaken
  <2>3. SameOpen
    BY <1>5, <1>15 DEF SessionRefused, SessionFailsLate, AnswersError
  <2>4. /\ First(p, "create")
        /\ asked' = [asked EXCEPT ![p] = IF IsOpen(p) THEN @ - 1 ELSE @]
    BY <1>15 DEF SessionRefused, SessionFailsLate, AnswersError
  <2> QED
    BY <1>1, <2>1, <2>2, <2>3, <2>4, AskedAnswered
<1>16. ASSUME NEW p \in Pages, ChannelClose(p) PROVE AskedOK' /\ Slower
  <2>1. SameOpen
    BY <1>1, <1>16 DEF ChannelClose, IsOpen, ShapeOK, Socket
  <2> QED
    BY <1>4, <1>8, <1>16, <2>1 DEF ChannelClose
<1>17. ASSUME NEW p \in Pages, TestAnswered(p) \/ TestStarted(p) PROVE AskedOK' /\ Slower
  BY <1>4, <1>5, <1>8, <1>17 DEF TestAnswered, TestStarted
<1>18. ASSUME NEW p \in Pages, SocketClose(p) PROVE AskedOK' /\ Slower
  <2>1. SameOpen
    BY <1>1, <1>18 DEF SocketClose, IsOpen, ShapeOK
  <2> QED
    BY <1>4, <1>6, <1>18, <2>1 DEF SocketClose
<1>19. ASSUME NEW cs, sockets' = [p \in Pages |-> [sockets[p] EXCEPT !.owns = @ \ cs]] PROVE SameOpen
  BY <1>1, <1>19 DEF IsOpen, Socket
<1>20. ASSUME NEW c \in ChannelIds, handleNaturalClose(c) PROVE AskedOK' /\ Slower
  BY <1>4, <1>6, <1>19, <1>20 DEF handleNaturalClose
<1>21. CASE Disconnect
  <2>1. SameOpen
    BY <1>1, <1>21 DEF Disconnect, IsOpen, Socket
  <2> QED
    BY <1>4, <1>6, <1>21, <2>1 DEF Disconnect
<1>22. CASE \/ UNCHANGED consoleVars
            \/ \E k \in Connections : Connected(k) \/ Reconnecting(k) \/ GivesUp(k) \/ Spawns(k)
            \/ \E c \in ChannelIds : TestTimesOut(c)
            \/ \E p \in Pages : \E t \in tiles[p] : handleDeleteSession(p, t)
  BY <1>4, <1>5, <1>6, <1>22
     DEF consoleVars, Connected, Reconnecting, GivesUp, Spawns, TestTimesOut, handleDeleteSession
<1> QED
  BY <1>9, <1>10, <1>11, <1>12, <1>13, <1>14, <1>15, <1>16, <1>17, <1>18, <1>20, <1>21, <1>22
     DEF ConsoleNext, ServerHandles, handleOpenSession

-------------------------------------------------------------------------------
(* The types that the invariant does not give by itself.                    *)
RestOK ==
    /\ kind \in {"ssh", "local"}
    /\ gone \in BOOLEAN
    /\ left \in SUBSET ChannelIds /\ ended \in SUBSET ChannelIds
    /\ events \in 0..MaxEvents
    /\ \A p \in Pages : asked[p] <= events

LEMMA EventCounts == events \in 0..MaxEvents /\ Event => events' \in 0..MaxEvents /\ events' = events + 1
  BY ConsoleAssumption DEF Event

LEMMA RestStarts == ConsoleInit => RestOK /\ AskedOK
<1> SUFFICES ASSUME ConsoleInit PROVE RestOK /\ AskedOK
  OBVIOUS
<1>1. \A p \in Pages : Creates(wires[p]) = {}
  BY DEF ConsoleInit, Creates
<1>2. MaxEvents \in Nat
  BY ConsoleAssumption
<1>3. RestOK
  <2>1. gone \in BOOLEAN
    BY DEF ConsoleInit
  <2>2. left \in SUBSET ChannelIds /\ ended \in SUBSET ChannelIds
    BY DEF ConsoleInit
  <2>3. events \in 0..MaxEvents /\ \A p \in Pages : asked[p] <= events
    BY <1>2 DEF ConsoleInit
  <2> QED
    BY <2>1, <2>2, <2>3 DEF ConsoleInit, RestOK
<1>4. AskedOK
  BY <1>1, FS_EmptySet DEF ConsoleInit, AskedOK, IsOpen
<1> QED
  BY <1>3, <1>4

LEMMA RestStep ==
    ASSUME ConsoleInv, AskedOK, RestOK, [ConsoleNext]_consoleVars
    PROVE  RestOK'
<1>0. events' = events \/ Event
  BY DEF ConsoleNext, consoleVars, ServerHandles, handleSubmit, handleOpenSession,
         handleCloseTile, handleDeleteSession, handleTestConnection, SocketFails, PageLoads,
         SessionCreate, SessionRefused, SessionFailsLate, AnswersError, ChannelClose, TestAnswered,
         TestStarted, SocketClose, TestTimesOut, handleNaturalClose, Connected, Reconnecting,
         GivesUp, Spawns, Disconnect
<1>1. events' \in 0..MaxEvents /\ (events' = events \/ events' = events + 1)
  BY <1>0, EventCounts DEF RestOK
<1>2. \A p \in Pages : asked'[p] <= events'
  BY <1>1, AskedStep DEF RestOK, AskedOK
<1>3. kind' = kind
  BY DEF ConsoleNext, consoleVars, ServerHandles, handleSubmit, handleOpenSession,
         handleCloseTile, handleDeleteSession, handleTestConnection, SocketFails, PageLoads,
         SessionCreate, SessionRefused, SessionFailsLate, AnswersError, ChannelClose, TestAnswered,
         TestStarted, SocketClose, TestTimesOut, handleNaturalClose, Connected, Reconnecting,
         GivesUp, Spawns, Disconnect
<1>4. gone' \in BOOLEAN
  <2>1. gone' = gone \/ Disconnect
    BY DEF ConsoleNext, consoleVars, ServerHandles, handleSubmit, handleOpenSession,
           handleCloseTile, handleDeleteSession, handleTestConnection, SocketFails, PageLoads,
           SessionCreate, SessionRefused, SessionFailsLate, AnswersError, ChannelClose,
           TestAnswered, TestStarted, SocketClose, TestTimesOut, handleNaturalClose, Connected,
           Reconnecting, GivesUp, Spawns
  <2>2. Disconnect => gone' = TRUE
    BY DEF Disconnect
  <2> QED
    BY <2>1, <2>2 DEF RestOK
<1>5. ended' \in SUBSET ChannelIds
  BY DEF RestOK, OpenChannels, ConsoleNext, consoleVars, ServerHandles, handleSubmit,
         handleOpenSession, handleCloseTile, handleDeleteSession, handleTestConnection,
         SocketFails, PageLoads, SessionCreate, SessionRefused, SessionFailsLate, AnswersError,
         ChannelClose, TestAnswered, TestStarted, SocketClose, TestTimesOut, handleNaturalClose,
         Connected, Reconnecting, GivesUp, Spawns, Disconnect
<1>6. left' \in SUBSET ChannelIds
  <2>1. left' = left \/ \E p \in Pages : \E t \in tiles[p] : left' = left \cup {t.channel}
    BY DEF ConsoleNext, consoleVars, ServerHandles, handleSubmit, handleOpenSession,
           handleCloseTile, handleDeleteSession, handleTestConnection, SocketFails, PageLoads,
           SessionCreate, SessionRefused, SessionFailsLate, AnswersError, ChannelClose,
           TestAnswered, TestStarted, SocketClose, TestTimesOut, handleNaturalClose, Connected,
           Reconnecting, GivesUp, Spawns, Disconnect
  <2>2. \A p \in Pages : \A t \in tiles[p] : t.channel \in ChannelIds
    BY DEF ConsoleInv, ShapeOK, Tile
  <2> QED
    BY <2>1, <2>2 DEF RestOK
<1> QED
  BY <1>1, <1>2, <1>3, <1>4, <1>5, <1>6 DEF RestOK

LEMMA ConsoleTyped ==
    ASSUME ConsoleInv, BannersOK, AskedOK, RestOK
    PROVE  ConsoleTypeOK
<1>1. Sendable \subseteq Message
  BY ConsoleAssumption DEF Sendable, Message, CreateMessage, CloseMessage, TestMessage, ChannelIds
<1>2. \A p \in Pages : \A i \in DOMAIN wires[p] : wires[p][i] \in Message
  <2>1. \A p \in Pages : wires[p] \in Seq(Sendable)
    BY DEF ConsoleInv, ShapeOK
  <2>2. \A p \in Pages : \A i \in DOMAIN wires[p] : wires[p][i] \in Sendable
    BY <2>1, LenProperties, ElementOfSeq
  <2> QED
    BY <1>1, <2>2
<1>3. /\ routes \in SUBSET ChannelIds /\ tests \in SUBSET ChannelIds
      /\ {left, ended, orphans} \subseteq SUBSET ChannelIds
  BY DEF ConsoleInv, OwnersOK, OpenChannels, RestOK
<1>4. asked \in [Pages -> 0..MaxEvents]
  BY ConsoleAssumption DEF AskedOK, RestOK
<1> QED
  BY <1>2, <1>3, <1>4 DEF ConsoleTypeOK, ConsoleInv, ShapeOK, BannersOK, RestOK

(* The console keeps its types, the open requests of a page among them: a   *)
(* page never has more answers than it asked for.                           *)
THEOREM ConsoleTypes == ConsoleSpec => []ConsoleTypeOK
<1> DEFINE Inv == ConsoleInv /\ BannersOK /\ AskedOK /\ RestOK
<1>1. ConsoleInit => Inv
  BY ConsoleInvInit, BannersStart, RestStarts
<1>2. Inv /\ [ConsoleNext]_consoleVars => Inv'
  BY ConsoleInvNext, BannersStep, AskedStep, RestStep
<1>3. Inv => ConsoleTypeOK
  BY ConsoleTyped
<1> HIDE DEF Inv
<1> QED
  BY <1>1, <1>2, <1>3, PTL DEF ConsoleSpec
===============================================================================
