------------------------------ MODULE OutputStream ------------------------------
(***************************************************************************)
(* What a terminal tile promises of the output of its session: every chunk  *)
(* that reaches the page is shown once and in order, behind the history     *)
(* that was asked for before it came.  A history is asked for when the tile *)
(* is opened and when its profile is connected again after a drop; it is    *)
(* shown once at most, before anything that was received since it was asked *)
(* for.  A chunk is lost only at such a moment, and then with all that had  *)
(* come after it, or when the tile is closed.  Terminal implements this.    *)
(***************************************************************************)
EXTENDS Naturals, Sequences

CONSTANT MaxChunks    \* bound: chunks of output

VARIABLES
    line,      \* the profile, as it was told: up, cut, or over with the tile
    sent,      \* chunks that reached the page
    queue,     \* those that are not shown yet
    shown,     \* the output on the screen, the histories left out
    mark,      \* what was received and kept before the history was asked for
    replayed   \* whether the history has been shown

streamVars == <<line, sent, queue, shown, mark, replayed>>

StreamInit ==
    /\ line = "up"
    /\ sent = 0
    /\ queue = <<>>
    /\ shown = <<>>
    /\ mark = 0
    /\ replayed = FALSE

(* A chunk reaches the page, cut or not: the drop may be that of another    *)
(* connection of the profile.                                               *)
Receive ==
    /\ line # "over" /\ sent < MaxChunks
    /\ sent' = sent + 1
    /\ queue' = Append(queue, sent + 1)
    /\ UNCHANGED <<line, shown, mark, replayed>>

(* The first n chunks that wait are shown together.                         *)
Show(n) ==
    /\ shown' = shown \o SubSeq(queue, 1, n)
    /\ queue' = SubSeq(queue, n + 1, Len(queue))
    /\ UNCHANGED <<line, sent, mark, replayed>>

(* The history is shown before what was received since it was asked for.    *)
Replay ==
    /\ ~replayed /\ Len(shown) <= mark
    /\ replayed' = TRUE
    /\ UNCHANGED <<line, sent, queue, shown, mark>>

Cut ==
    /\ line = "up"
    /\ line' = "cut"
    /\ UNCHANGED <<sent, queue, shown, mark, replayed>>

(* The history is asked for again, and the first n chunks that wait kept.   *)
Resume(n) ==
    /\ line = "cut"
    /\ line' = "up"
    /\ queue' = SubSeq(queue, 1, n)
    /\ mark' = Len(shown) + n
    /\ replayed' = FALSE
    /\ UNCHANGED <<sent, shown>>

End ==
    /\ line # "over"
    /\ line' = "over"
    /\ queue' = <<>>
    /\ UNCHANGED <<sent, shown, mark, replayed>>

StreamNext ==
    \/ Receive \/ Replay \/ Cut \/ End
    \/ \E n \in 0..Len(queue) : Show(n) \/ Resume(n)

StreamSpec == StreamInit /\ [][StreamNext]_streamVars
================================================================================
