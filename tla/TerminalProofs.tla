---------------------------- MODULE TerminalProofs ----------------------------
(***************************************************************************)
(* Theorems about the terminal tile, for every number of chunks and of      *)
(* drops: its types, what its gate keeps, and that it implements            *)
(* OutputStream.                                                            *)
(***************************************************************************)
EXTENDS Terminal, SequenceTheorems, TLAPS

(* A request is on its way for the mount, for each drop that was told and   *)
(* followed by connected, and for the one that a drop will bring.           *)
RequestsOK == requests <= drops + 1 /\ (wasReconnecting => requests <= drops)

(* Behind an open gate nothing waits.  While it is closed the history that  *)
(* was asked for is not on the screen, and nothing that was received since  *)
(* is in the batcher or on the screen.                                      *)
GateOK ==
    IF historyPending
    THEN ~replayed /\ Len(output) + Len(buffer) <= mark
    ELSE pendingBuffer = <<>>

TerminalInv == TerminalTypeOK /\ RequestsOK /\ GateOK

-------------------------------------------------------------------------------
(* The gate, once open, has let everything by in its order.                 *)
LEMMA AppendQueue ==
    ASSUME NEW S, NEW s \in Seq(S), NEW t \in Seq(S), NEW x \in S
    PROVE  /\ s \o Append(t, x) = Append(s \o t, x)
           /\ s \o <<x>> = Append(s, x)
           /\ Append(s, x) \in Seq(S)
<1>1. /\ Append(t, x) = t \o <<x>>
      /\ Append(s \o t, x) = (s \o t) \o <<x>>
      /\ Append(s, x) = s \o <<x>>
  BY ConcatProperties, AppendIsConcat
<1>2. <<x>> \in Seq(S)
  OBVIOUS
<1>3. (s \o t) \o <<x>> = s \o (t \o <<x>>)
  BY <1>2, ConcatAssociative
<1>4. QED
  BY <1>1, <1>2, <1>3, ConcatProperties

(* A flush takes the front of what waits and leaves the rest.               *)
LEMMA FlushedFront ==
    ASSUME NEW S, NEW s \in Seq(S), NEW t \in Seq(S)
    PROVE  /\ SubSeq(s \o t, 1, Len(s)) = s
           /\ SubSeq(s \o t, Len(s) + 1, Len(s \o t)) = t
           /\ Len(s) \in 0..Len(s \o t)
<1>1. /\ s \o t \in Seq(S)
      /\ Len(s \o t) = Len(s) + Len(t)
      /\ \A i \in 1..(Len(s) + Len(t)) :
            (s \o t)[i] = IF i <= Len(s) THEN s[i] ELSE t[i - Len(s)]
  BY ConcatProperties
<1>2. Len(s) \in Nat /\ Len(t) \in Nat
  BY LenProperties
<1>3. \A i \in 1..(Len(s) + Len(t)) : (s \o t)[i] \in S
  BY <1>1, ElementOfSeq
<1>4. SubSeq(s \o t, 1, Len(s)) = s
  <2>1. /\ SubSeq(s \o t, 1, Len(s)) \in Seq(S)
        /\ Len(SubSeq(s \o t, 1, Len(s))) = IF 1 <= Len(s) THEN Len(s) - 1 + 1 ELSE 0
        /\ \A i \in 1..(Len(s) - 1 + 1) : SubSeq(s \o t, 1, Len(s))[i] = (s \o t)[1 + i - 1]
    BY <1>2, <1>3, SubSeqProperties
  <2>2. Len(SubSeq(s \o t, 1, Len(s))) = Len(s)
    BY <1>2, <2>1
  <2>3. \A i \in 1..Len(s) : SubSeq(s \o t, 1, Len(s))[i] = s[i]
    BY <1>1, <1>2, <2>1
  <2>4. QED
    BY <2>1, <2>2, <2>3, SeqEqual
<1>5. SubSeq(s \o t, Len(s) + 1, Len(s \o t)) = t
  <2> DEFINE u == SubSeq(s \o t, Len(s) + 1, Len(s) + Len(t))
  <2>1. /\ u \in Seq(S)
        /\ Len(u) = IF Len(s) + 1 <= Len(s) + Len(t) THEN Len(s) + Len(t) - (Len(s) + 1) + 1 ELSE 0
        /\ \A i \in 1..(Len(s) + Len(t) - (Len(s) + 1) + 1) : u[i] = (s \o t)[Len(s) + 1 + i - 1]
    BY <1>2, <1>3, SubSeqProperties
  <2>2. Len(u) = Len(t)
    BY <1>2, <2>1
  <2>3. \A i \in 1..Len(t) : u[i] = t[i]
    BY <1>1, <1>2, <2>1
  <2>4. u = t
    BY <2>1, <2>2, <2>3, SeqEqual
  <2>5. QED
    BY <1>1, <2>4
<1>6. QED
  BY <1>1, <1>2, <1>4, <1>5

-------------------------------------------------------------------------------
(* The invariant.                                                           *)
LEMMA TerminalInvInit == TerminalInit => TerminalInv
<1> SUFFICES ASSUME TerminalInit PROVE TerminalInv
  OBVIOUS
<1>1. <<>> \in Seq(Chunks) /\ Len(<<>>) = 0
  BY EmptySeq
<1>2. TerminalTypeOK
  <2>1. /\ requests \in 0..(MaxDrops + 1) /\ sent \in 0..MaxChunks /\ drops \in 0..MaxDrops
    BY TerminalAssumption DEF TerminalInit
  <2>2. QED
    BY <1>1, <2>1 DEF TerminalInit, TerminalTypeOK
<1>3. RequestsOK /\ GateOK
  BY <1>1 DEF TerminalInit, RequestsOK, GateOK
<1>4. QED
  BY <1>2, <1>3 DEF TerminalInv

(* openGate lets by what waited, whoever calls it.                          *)
LEMMA OpenGateInv ==
    ASSUME TerminalInv, openGate, historyPending,
           UNCHANGED <<mounted, wasReconnecting, sent, output, mark, drops>>,
           requests' \in Nat, requests' <= requests, replayed' \in BOOLEAN
    PROVE  TerminalInv'
<1>1. buffer \o pendingBuffer \in Seq(Chunks)
  BY ConcatProperties DEF TerminalInv, TerminalTypeOK
<1>2. <<>> \in Seq(Chunks)
  BY EmptySeq
<1>a. TerminalTypeOK /\ RequestsOK
  BY DEF TerminalInv
<1>3. TerminalTypeOK'
  <2>1. requests' \in 0..(MaxDrops + 1)
    BY <1>a, TerminalAssumption DEF TerminalTypeOK
  <2>2. /\ buffer' \in Seq(Chunks) /\ pendingBuffer' \in Seq(Chunks)
        /\ timer' \in BOOLEAN /\ historyPending' \in BOOLEAN /\ historyTimeout' \in BOOLEAN
    BY <1>1, <1>2, <1>a DEF TerminalTypeOK, openGate, append
  <2>3. QED
    BY <1>a, <2>1, <2>2 DEF TerminalTypeOK
<1>4. RequestsOK'
  <2>1. /\ wasReconnecting' = wasReconnecting /\ drops' = drops
        /\ requests \in Nat /\ requests' \in Nat /\ drops \in Nat /\ requests' <= requests
    BY <1>a, TerminalAssumption DEF TerminalTypeOK
  <2>2. QED
    BY <1>a, <2>1 DEF RequestsOK
<1>5. GateOK'
  BY DEF openGate, GateOK
<1>6. QED
  BY <1>3, <1>4, <1>5 DEF TerminalInv

LEMMA TerminalInvNext == TerminalInv /\ [TerminalNext]_terminalVars => TerminalInv'
<1> SUFFICES ASSUME TerminalInv, [TerminalNext]_terminalVars PROVE TerminalInv'
  OBVIOUS
<1>a. /\ TerminalTypeOK /\ RequestsOK /\ GateOK
      /\ <<>> \in Seq(Chunks) /\ Len(<<>>) = 0
  BY EmptySeq DEF TerminalInv
<1>b. Len(buffer) \in Nat /\ Len(output) \in Nat /\ Len(pendingBuffer) \in Nat /\ mark \in Nat
  BY <1>a, LenProperties DEF TerminalTypeOK
<1>1. CASE flush
  <2>1. output \o buffer \in Seq(Chunks) /\ Len(output \o buffer) = Len(output) + Len(buffer)
    BY <1>a, ConcatProperties DEF TerminalTypeOK
  <2>2. TerminalTypeOK'
    BY <1>1, <1>a, <2>1 DEF TerminalTypeOK, flush
  <2>3. RequestsOK'
    BY <1>1, <1>a DEF RequestsOK, flush
  <2>4. GateOK'
    BY <1>1, <1>a, <1>b, <2>1 DEF GateOK, flush
  <2>5. QED
    BY <2>2, <2>3, <2>4 DEF TerminalInv
<1>2. CASE ChannelData
  <2>1. sent + 1 \in Chunks /\ sent + 1 \in 0..MaxChunks
    BY <1>2, <1>a, TerminalAssumption DEF TerminalTypeOK, ChannelData, Chunks
  <2>2. /\ Append(pendingBuffer, sent + 1) \in Seq(Chunks)
        /\ buffer \o <<sent + 1>> = Append(buffer, sent + 1)
        /\ Append(buffer, sent + 1) \in Seq(Chunks)
    BY <1>a, <2>1, AppendQueue DEF TerminalTypeOK
  <2>3. TerminalTypeOK'
    BY <1>2, <1>a, <2>1, <2>2 DEF TerminalTypeOK, ChannelData, append
  <2>4. RequestsOK'
    BY <1>2, <1>a DEF RequestsOK, ChannelData
  <2>5. GateOK'
    BY <1>2, <1>a DEF GateOK, ChannelData
  <2>6. QED
    BY <2>3, <2>4, <2>5 DEF TerminalInv
<1>3. CASE HistoryResult
  <2>1. requests - 1 \in Nat /\ requests - 1 <= requests
    BY <1>3, <1>a DEF TerminalTypeOK, HistoryResult
  <2>2. CASE historyPending
    BY <1>3, <1>a, <2>1, <2>2, OpenGateInv DEF HistoryResult, TerminalTypeOK
  <2>3. CASE ~historyPending
    <3>1. TerminalTypeOK'
      BY <1>3, <1>a, <2>1, <2>3, TerminalAssumption DEF TerminalTypeOK, HistoryResult
    <3>2. RequestsOK'
      BY <1>3, <1>a DEF TerminalTypeOK, RequestsOK, HistoryResult
    <3>3. GateOK'
      BY <1>3, <1>a, <2>3 DEF GateOK, HistoryResult
    <3>4. QED
      BY <3>1, <3>2, <3>3 DEF TerminalInv
  <2>4. QED
    BY <2>2, <2>3
<1>4. CASE HistoryError
  <2>1. requests - 1 \in Nat /\ requests - 1 <= requests
    BY <1>4, <1>a DEF TerminalTypeOK, HistoryError
  <2>2. CASE historyPending
    BY <1>4, <1>a, <2>1, <2>2, OpenGateInv DEF HistoryError, TerminalTypeOK
  <2>3. CASE ~historyPending
    <3>1. TerminalTypeOK'
      BY <1>4, <1>a, <2>1, <2>3, TerminalAssumption DEF TerminalTypeOK, HistoryError
    <3>2. RequestsOK'
      BY <1>4, <1>a DEF TerminalTypeOK, RequestsOK, HistoryError
    <3>3. GateOK'
      BY <1>4, <1>a, <2>3 DEF GateOK, HistoryError
    <3>4. QED
      BY <3>1, <3>2, <3>3 DEF TerminalInv
  <2>4. QED
    BY <2>2, <2>3
<1>5. CASE HistoryTimeout
  <2>1. TerminalTypeOK' /\ RequestsOK'
    <3>1. buffer \o pendingBuffer \in Seq(Chunks)
      BY <1>a, ConcatProperties DEF TerminalTypeOK
    <3>2. QED
      BY <1>5, <1>a, <3>1 DEF TerminalTypeOK, RequestsOK, HistoryTimeout, openGate, append
  <2>2. GateOK'
    BY <1>5 DEF GateOK, HistoryTimeout, openGate
  <2>3. QED
    BY <2>1, <2>2 DEF TerminalInv
<1>6. CASE StateReconnecting
  <2>1. TerminalTypeOK'
    BY <1>6, <1>a, TerminalAssumption DEF TerminalTypeOK, StateReconnecting
  <2>2. RequestsOK'
    BY <1>6, <1>a DEF TerminalTypeOK, RequestsOK, StateReconnecting
  <2>3. GateOK'
    BY <1>6, <1>a DEF GateOK, StateReconnecting
  <2>4. QED
    BY <2>1, <2>2, <2>3 DEF TerminalInv
<1>7. CASE StateConnected
  <2>1. CASE wasReconnecting
    <3>1. TerminalTypeOK'
      <4>1. requests + 1 \in 0..(MaxDrops + 1)
        BY <1>a, <2>1, TerminalAssumption DEF TerminalTypeOK, RequestsOK
      <4>2. mark' \in Nat /\ pendingBuffer' = <<>>
        BY <1>7, <1>b, <2>1 DEF StateConnected, requestHistory
      <4>3. QED
        BY <1>7, <1>a, <2>1, <4>1, <4>2 DEF TerminalTypeOK, StateConnected, requestHistory
    <3>2. RequestsOK'
      BY <1>7, <1>a, <2>1 DEF TerminalTypeOK, RequestsOK, StateConnected, requestHistory
    <3>3. GateOK'
      BY <1>7, <1>a, <1>b, <2>1 DEF GateOK, StateConnected, requestHistory
    <3>4. QED
      BY <3>1, <3>2, <3>3 DEF TerminalInv
  <2>2. CASE ~wasReconnecting
    <3>1. TerminalTypeOK'
      BY <1>7, <1>a, <2>2 DEF TerminalTypeOK, StateConnected
    <3>2. RequestsOK' /\ GateOK'
      BY <1>7, <1>a, <2>2 DEF RequestsOK, GateOK, StateConnected
    <3>3. QED
      BY <3>1, <3>2 DEF TerminalInv
  <2>3. QED
    BY <2>1, <2>2
<1>8. CASE Unmount
  <2>1. TerminalTypeOK' /\ RequestsOK'
    BY <1>8, <1>a DEF TerminalTypeOK, RequestsOK, Unmount
  <2>2. GateOK'
    BY <1>8, <1>a, <1>b DEF GateOK, Unmount
  <2>3. QED
    BY <2>1, <2>2 DEF TerminalInv
<1>9. CASE UNCHANGED terminalVars
  BY <1>9, <1>a DEF terminalVars, TerminalInv, TerminalTypeOK, RequestsOK, GateOK
<1>10. QED
  BY <1>1, <1>2, <1>3, <1>4, <1>5, <1>6, <1>7, <1>8, <1>9 DEF TerminalNext

(* The tile keeps its types, and its gate lets no output by before the      *)
(* history that is waited for, for any number of drops, late answers and    *)
(* answers that never come.                                                 *)
THEOREM GateHolds == TerminalSpec => []TerminalInv
BY TerminalInvInit, TerminalInvNext, PTL DEF TerminalSpec

-------------------------------------------------------------------------------
(* The refinement.                                                          *)
LEMMA StreamBegins == TerminalInit => Stream!StreamInit
BY EmptySeq, ConcatEmptySeq DEF TerminalInit, Stream!StreamInit, Line, Waiting

(* A gate that opens changes nothing that waits: it stutters, unless the    *)
(* history was written first.                                               *)
LEMMA OpenGateStream ==
    ASSUME TerminalInv, openGate, historyPending,
           UNCHANGED <<mounted, wasReconnecting, sent, output, mark>>,
           replayed' \in {TRUE, replayed}
    PROVE  [Stream!StreamNext]_(Stream!streamVars)
<1>1. buffer \o pendingBuffer \in Seq(Chunks)
  BY ConcatProperties DEF TerminalInv, TerminalTypeOK
<1>2. Waiting' = Waiting
  BY <1>1, ConcatEmptySeq DEF Waiting, openGate, append
<1>3. Line' = Line
  BY DEF Line
<1>4. CASE replayed' = replayed
  BY <1>2, <1>3, <1>4 DEF Stream!streamVars
<1>5. CASE replayed' = TRUE
  <2>1. ~replayed /\ Len(output) <= mark
    <3>1. Len(output) \in Nat /\ Len(buffer) \in Nat /\ mark \in Nat
      BY LenProperties DEF TerminalInv, TerminalTypeOK
    <3>2. QED
      BY <3>1 DEF TerminalInv, GateOK
  <2>2. Stream!Replay
    BY <1>2, <1>3, <1>5, <2>1 DEF Stream!Replay
  <2>3. QED
    BY <2>2 DEF Stream!StreamNext
<1>6. QED
  BY <1>4, <1>5

LEMMA StreamGoesOn ==
    ASSUME TerminalInv, [TerminalNext]_terminalVars
    PROVE  [Stream!StreamNext]_(Stream!streamVars)
<1>a. /\ TerminalTypeOK /\ GateOK
      /\ buffer \in Seq(Chunks) /\ pendingBuffer \in Seq(Chunks) /\ <<>> \in Seq(Chunks)
  BY EmptySeq DEF TerminalInv, TerminalTypeOK
<1>b. Waiting \in Seq(Chunks) /\ Len(Waiting) = Len(buffer) + Len(pendingBuffer)
  BY <1>a, ConcatProperties DEF Waiting
<1>c. Len(buffer) \in Nat /\ Len(pendingBuffer) \in Nat /\ Len(Waiting) \in Nat
  BY <1>a, <1>b, LenProperties
<1>1. CASE flush
  <2>1. Len(buffer) \in 0..Len(Waiting) /\ SubSeq(Waiting, 1, Len(buffer)) = buffer
        /\ SubSeq(Waiting, Len(buffer) + 1, Len(Waiting)) = pendingBuffer
    BY <1>a, FlushedFront DEF Waiting
  <2>2. Waiting' = pendingBuffer
    BY <1>1, <1>a, ConcatEmptySeq DEF flush, Waiting
  <2>3. Line' = Line
    BY <1>1 DEF flush, Line
  <2>4. Stream!Show(Len(buffer))
    BY <1>1, <2>1, <2>2, <2>3 DEF flush, Stream!Show
  <2>5. QED
    BY <2>1, <2>4 DEF Stream!StreamNext
<1>2. CASE ChannelData
  <2>1. sent + 1 \in Chunks
    BY <1>2, <1>a, TerminalAssumption DEF TerminalTypeOK, ChannelData, Chunks
  <2>2. Waiting' = Append(Waiting, sent + 1)
    <3>1. CASE historyPending
      <4>1. buffer \o Append(pendingBuffer, sent + 1) = Append(buffer \o pendingBuffer, sent + 1)
        BY <1>a, <2>1, AppendQueue
      <4>2. QED
        BY <1>2, <3>1, <4>1 DEF ChannelData, Waiting
    <3>2. CASE ~historyPending
      <4>1. /\ pendingBuffer = <<>> /\ pendingBuffer' = <<>>
            /\ buffer' = buffer \o <<sent + 1>>
        BY <1>2, <1>a, <3>2 DEF ChannelData, GateOK, append
      <4>2. /\ buffer \o <<sent + 1>> = Append(buffer, sent + 1)
            /\ Append(buffer, sent + 1) \in Seq(Chunks)
        BY <1>a, <2>1, AppendQueue
      <4>3. Waiting = buffer /\ Waiting' = buffer'
        BY <1>a, <4>1, <4>2, ConcatEmptySeq DEF Waiting
      <4>4. QED
        BY <4>1, <4>2, <4>3
    <3>3. QED
      BY <3>1, <3>2
  <2>3. Line # "over" /\ Line' = Line
    BY <1>2 DEF ChannelData, Line
  <2>4. Stream!Receive
    BY <1>2, <2>2, <2>3 DEF ChannelData, Stream!Receive
  <2>5. QED
    BY <2>4 DEF Stream!StreamNext
<1>3. CASE HistoryResult
  <2>1. CASE historyPending
    BY <1>3, <2>1, OpenGateStream DEF HistoryResult
  <2>2. CASE ~historyPending
    BY <1>3, <2>2 DEF HistoryResult, Stream!streamVars, Line, Waiting
  <2>3. QED
    BY <2>1, <2>2
<1>4. CASE HistoryError
  <2>1. CASE historyPending
    BY <1>4, <2>1, OpenGateStream DEF HistoryError
  <2>2. CASE ~historyPending
    BY <1>4, <2>2 DEF HistoryError, Stream!streamVars, Line, Waiting
  <2>3. QED
    BY <2>1, <2>2
<1>5. CASE HistoryTimeout
  <2>1. CASE historyPending
    BY <1>5, <2>1, OpenGateStream DEF HistoryTimeout
  <2>2. CASE ~historyPending
    <3>1. pendingBuffer = <<>> /\ pendingBuffer' = <<>> /\ buffer' = buffer \o pendingBuffer
      BY <1>5, <1>a, <2>2 DEF HistoryTimeout, openGate, append, GateOK
    <3>2. Waiting' = Waiting
      BY <1>a, <3>1, ConcatEmptySeq DEF Waiting
    <3>3. QED
      BY <1>5, <3>2 DEF HistoryTimeout, Stream!streamVars, Line
  <2>3. QED
    BY <2>1, <2>2
<1>6. CASE StateReconnecting
  <2>1. Waiting' = Waiting /\ Line' = "cut" /\ Line \in {"up", "cut"}
    BY <1>6 DEF StateReconnecting, Waiting, Line
  <2>2. CASE Line = "up"
    <3>1. Stream!Cut
      BY <1>6, <2>1, <2>2 DEF StateReconnecting, Stream!Cut
    <3>2. QED
      BY <3>1 DEF Stream!StreamNext
  <2>3. CASE Line = "cut"
    BY <1>6, <2>1, <2>3 DEF StateReconnecting, Stream!streamVars
  <2>4. QED
    BY <2>1, <2>2, <2>3
<1>7. CASE StateConnected
  <2>1. CASE wasReconnecting
    <3>1. Line = "cut" /\ Line' = "up"
      BY <1>7, <2>1 DEF StateConnected, Line
    <3>2. Len(buffer) \in 0..Len(Waiting) /\ SubSeq(Waiting, 1, Len(buffer)) = buffer
      BY <1>a, FlushedFront DEF Waiting
    <3>3. Waiting' = buffer
      <4>1. pendingBuffer' = <<>> /\ buffer' = buffer
        BY <1>7, <2>1 DEF StateConnected, requestHistory
      <4>2. QED
        BY <1>a, <4>1, ConcatEmptySeq DEF Waiting
    <3>4. Stream!Resume(Len(buffer))
      BY <1>7, <2>1, <3>1, <3>2, <3>3 DEF StateConnected, Stream!Resume
    <3>5. QED
      BY <3>2, <3>4 DEF Stream!StreamNext
  <2>2. CASE ~wasReconnecting
    BY <1>7, <2>2 DEF StateConnected, Stream!streamVars, Line, Waiting
  <2>3. QED
    BY <2>1, <2>2
<1>8. CASE Unmount
  <2>1. Waiting' = <<>> /\ Line # "over" /\ Line' = "over"
    BY <1>8, <1>a, ConcatEmptySeq DEF Unmount, Waiting, Line
  <2>2. Stream!End
    BY <1>8, <2>1 DEF Unmount, Stream!End
  <2>3. QED
    BY <2>2 DEF Stream!StreamNext
<1>9. CASE UNCHANGED terminalVars
  BY <1>9 DEF terminalVars, Stream!streamVars, Line, Waiting
<1>10. QED
  BY <1>1, <1>2, <1>3, <1>4, <1>5, <1>6, <1>7, <1>8, <1>9 DEF TerminalNext

(* The tile implements OutputStream, for any number of chunks and drops:    *)
(* the gate, the batcher and the requests show every chunk once and in      *)
(* order, behind the history that was asked for before it came, and lose    *)
(* what waits only when the profile is connected again, whichever of its    *)
(* connections that is (TerminalTile.tsx).                                  *)
THEOREM TileImplementsStream == TerminalSpec => TerminalImplementsStream
<1>1. TerminalInit => Stream!StreamInit
  BY StreamBegins
<1>2. TerminalInv /\ [TerminalNext]_terminalVars => [Stream!StreamNext]_(Stream!streamVars)
  BY StreamGoesOn
<1>3. QED
  BY <1>1, <1>2, GateHolds, PTL DEF TerminalSpec, TerminalImplementsStream, Stream!StreamSpec
===============================================================================
