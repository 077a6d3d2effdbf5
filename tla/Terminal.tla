-------------------------------- MODULE Terminal --------------------------------
(***************************************************************************)
(* One terminal tile: TerminalTile with its history gate, OutputBatcher,    *)
(* and what the server makes of its history:request (the handler of the     *)
(* WebSocket server, capturePane).                                          *)
(* The page handles what the server sends at once: a delay of the socket is *)
(* a later emission, and the order of an answer and of the output of        *)
(* another channel is not fixed anyway.  Chunks are numbered; the lines of  *)
(* a history are left out.                                                  *)
(* A state is that of any connection of the profile, and only one carries   *)
(* the channel: what is said of another comes while the output goes on.     *)
(***************************************************************************)
EXTENDS Naturals, Sequences

CONSTANTS
    MaxChunks,     \* bound: chunks of output
    MaxDrops       \* bound: drops of the connection

ASSUME TerminalAssumption == MaxChunks \in Nat /\ MaxDrops \in Nat

VARIABLES
    mounted,          \* the tile is on the page
    wasReconnecting,
    historyPending,   \* the gate: closed while a history is waited for
    pendingBuffer,    \* the chunks that wait at the gate
    historyTimeout,   \* whether the timer of the request is armed
    requests,         \* history requests that the server has not answered
    buffer,           \* of the batcher
    timer,            \* whether the timer of the batcher is armed
    sent,             \* chunks received so far
    output,           \* what the batcher wrote to the terminal
    mark,             \* history: chunks received and kept when the history was last asked for
    replayed,         \* history: whether a history was written since then
    drops             \* drops of the connections so far

terminalVars == <<mounted, wasReconnecting, historyPending, pendingBuffer, historyTimeout,
                  requests, buffer, timer, sent, output, mark, replayed, drops>>

Chunks == 1..MaxChunks

TerminalTypeOK ==
    /\ mounted \in BOOLEAN
    /\ wasReconnecting \in BOOLEAN
    /\ historyPending \in BOOLEAN
    /\ pendingBuffer \in Seq(Chunks)
    /\ historyTimeout \in BOOLEAN
    /\ requests \in 0..(MaxDrops + 1)
    /\ buffer \in Seq(Chunks)
    /\ timer \in BOOLEAN
    /\ sent \in 0..MaxChunks
    /\ output \in Seq(Chunks)
    /\ mark \in Nat
    /\ replayed \in BOOLEAN
    /\ drops \in 0..MaxDrops

(* The tile is mounted, and asks for the history with the gate closed.      *)
(* Whether a connection is reconnecting by then, it is not told.            *)
TerminalInit ==
    /\ mounted = TRUE
    /\ wasReconnecting = FALSE
    /\ historyPending = TRUE
    /\ pendingBuffer = <<>>
    /\ historyTimeout = TRUE
    /\ requests = 1
    /\ buffer = <<>>
    /\ timer = FALSE
    /\ sent = 0
    /\ output = <<>>
    /\ mark = 0
    /\ replayed = FALSE
    /\ drops = 0

(***************************************************************************)
(* OutputBatcher.                                                           *)
(***************************************************************************)
append(chunks) ==
    /\ buffer' = buffer \o chunks
    /\ timer' = (timer \/ chunks # <<>>)

(* The timer: what was appended is written in one piece.                    *)
flush ==
    /\ mounted /\ timer
    /\ timer' = FALSE
    /\ output' = output \o buffer
    /\ buffer' = <<>>
    /\ UNCHANGED <<mounted, wasReconnecting, historyPending, pendingBuffer, historyTimeout,
                   requests, sent, mark, replayed, drops>>

(***************************************************************************)
(* The gate.                                                                *)
(***************************************************************************)
(* channel:data.                                                            *)
ChannelData ==
    /\ mounted /\ sent < MaxChunks
    /\ sent' = sent + 1
    /\ IF historyPending
       THEN pendingBuffer' = Append(pendingBuffer, sent + 1) /\ UNCHANGED <<buffer, timer>>
       ELSE append(<<sent + 1>>) /\ UNCHANGED pendingBuffer
    /\ UNCHANGED <<mounted, wasReconnecting, historyPending, historyTimeout, requests,
                   output, mark, replayed, drops>>

(* openGate with drainPending: what waited goes to the batcher in order.    *)
openGate ==
    /\ historyPending' = FALSE
    /\ historyTimeout' = FALSE
    /\ pendingBuffer' = <<>>
    /\ append(pendingBuffer)

(* Faulty variant: a history that comes too late is written all the same.   *)
LateHistory ==
    /\ mounted /\ requests > 0
    /\ requests' = requests - 1
    /\ replayed' = TRUE
    /\ IF historyPending THEN openGate
       ELSE UNCHANGED <<historyPending, historyTimeout, pendingBuffer, buffer, timer>>
    /\ UNCHANGED <<mounted, wasReconnecting, sent, output, mark, drops>>

(* history:result.  It may be empty: the capture timed out.  An answer that *)
(* nobody waits for is dropped; to which request it belongs is not known.   *)
HistoryResult ==
    /\ mounted /\ requests > 0
    /\ requests' = requests - 1
    /\ IF historyPending
       THEN replayed' \in {TRUE, replayed} /\ openGate
       ELSE UNCHANGED <<replayed, historyPending, historyTimeout, pendingBuffer, buffer, timer>>
    /\ UNCHANGED <<mounted, wasReconnecting, sent, output, mark, drops>>

(* history:error: a channel that the socket does not own, or a capture that *)
(* could not be sent.                                                       *)
HistoryError ==
    /\ mounted /\ requests > 0
    /\ requests' = requests - 1
    /\ IF historyPending THEN openGate
       ELSE UNCHANGED <<historyPending, historyTimeout, pendingBuffer, buffer, timer>>
    /\ UNCHANGED <<mounted, wasReconnecting, sent, output, mark, replayed, drops>>

(* The timer of the request: the output goes on without a history.          *)
HistoryTimeout ==
    /\ mounted /\ historyTimeout
    /\ openGate
    /\ UNCHANGED <<mounted, wasReconnecting, requests, sent, output, mark, replayed, drops>>

(***************************************************************************)
(* channel:state.                                                           *)
(***************************************************************************)
(* reconnecting, of whichever connection.                                   *)
StateReconnecting ==
    /\ mounted /\ drops < MaxDrops
    /\ drops' = drops + 1
    /\ wasReconnecting' = TRUE
    /\ UNCHANGED <<mounted, historyPending, pendingBuffer, historyTimeout, requests, buffer,
                   timer, sent, output, mark, replayed>>

(* Faulty variant: the timer is not set again.                              *)
RequestUntimed ==
    /\ historyPending' = TRUE
    /\ pendingBuffer' = <<>>
    /\ historyTimeout' = FALSE
    /\ requests' = requests + 1

(* requestHistory: whatever waits at the gate is dropped.                   *)
requestHistory ==
    /\ historyPending' = TRUE
    /\ pendingBuffer' = <<>>
    /\ historyTimeout' = TRUE
    /\ requests' = requests + 1

(* connected, of the connection of the channel or of another: a tile that   *)
(* was told of a drop asks for the history again, and one that was not does *)
(* nothing.                                                                 *)
StateConnected ==
    /\ mounted
    /\ IF wasReconnecting
       THEN /\ wasReconnecting' = FALSE
            /\ requestHistory
            /\ mark' = Len(output) + Len(buffer)
            /\ replayed' = FALSE
       ELSE UNCHANGED <<wasReconnecting, historyPending, pendingBuffer, historyTimeout, requests,
                        mark, replayed>>
    /\ UNCHANGED <<mounted, buffer, timer, sent, output, drops>>

(* The tile is closed: the timers are cleared, what waits is dropped.       *)
Unmount ==
    /\ mounted
    /\ mounted' = FALSE
    /\ historyTimeout' = FALSE /\ timer' = FALSE
    /\ buffer' = <<>> /\ pendingBuffer' = <<>>
    /\ UNCHANGED <<wasReconnecting, historyPending, requests, sent, output, mark, replayed, drops>>

TerminalNext ==
    \/ flush
    \/ ChannelData
    \/ HistoryResult \/ HistoryError \/ HistoryTimeout
    \/ StateReconnecting \/ StateConnected
    \/ Unmount

(* The timers of the page fire.  No answer of the server is assumed.        *)
TerminalFairness ==
    /\ WF_terminalVars(flush)
    /\ WF_terminalVars(HistoryTimeout)

TerminalSpec == TerminalInit /\ [][TerminalNext]_terminalVars /\ TerminalFairness

(***************************************************************************)
(* Properties.                                                              *)
(***************************************************************************)
Line == IF ~mounted THEN "over" ELSE IF wasReconnecting THEN "cut" ELSE "up"

Waiting == buffer \o pendingBuffer

Stream == INSTANCE OutputStream WITH line <- Line, queue <- Waiting, shown <- output

(* The tile implements OutputStream (TerminalTile's gate, OutputBatcher):   *)
(* what the gate holds back and the batcher gathers comes out once and in   *)
(* order, and no history comes after output that was received since it was  *)
(* asked for, however late its answer is, however often a connection of the *)
(* profile drops, and whether or not it carries the channel.                *)
TerminalImplementsStream == Stream!StreamSpec

(* Nothing is held back for good, whether the server answers the request or *)
(* not: a chunk is shown, or lost with a reconnection or with the tile.     *)
EveryChunkIsShown ==
    \A n \in Chunks :
        (\E i \in DOMAIN Waiting : Waiting[i] = n) ~> ~(\E i \in DOMAIN Waiting : Waiting[i] = n)
================================================================================
