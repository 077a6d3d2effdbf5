------------------------------- MODULE MCConsole -------------------------------
(***************************************************************************)
(* The console and one terminal tile in one run.  The two share no state,   *)
(* so each behaviour is one of Console, with the tile as it was mounted, or *)
(* one of Terminal, with the console as it began: all of both, and no       *)
(* product of the two.                                                      *)
(***************************************************************************)
EXTENDS Console, Terminal

VARIABLE part

vars == <<part, consoleVars, terminalVars>>

MCInit ==
    /\ ConsoleInit /\ TerminalInit
    /\ \/ part = "console"
       \/ part = "terminal" /\ kind = "ssh"

InConsole(A) == part = "console" /\ A /\ UNCHANGED <<part, terminalVars>>
InTerminal(A) == part = "terminal" /\ A /\ UNCHANGED <<part, consoleVars>>

MCNext == InConsole(ConsoleNext) \/ InTerminal(TerminalNext)

(* ConsoleFairness and TerminalFairness, each of its part.                  *)
MCFairness ==
    /\ \A p \in Pages : WF_vars(InConsole(ServerHandles(p)))
    /\ \A c \in ChannelIds : WF_vars(InConsole(TestTimesOut(c)))
    /\ WF_vars(InTerminal(flush))
    /\ WF_vars(InTerminal(HistoryTimeout))

MCSpec == MCInit /\ [][MCNext]_vars /\ MCFairness

(* The state of both parts is of its type.                                  *)
TypeOK == ConsoleTypeOK /\ TerminalTypeOK
================================================================================
