---------------------------- MODULE MCConsoleProofs ----------------------------
(***************************************************************************)
(* The run of the console and the tile, for any number of pages, channels   *)
(* and chunks: each step of it is a step of one part and a stutter of the   *)
(* other, so that what is proved of each holds of both.                     *)
(***************************************************************************)
EXTENDS MCConsole, ConsoleProofs, TerminalProofs

LEMMA PartsGoOn ==
    [MCNext]_vars => [ConsoleNext]_consoleVars /\ [TerminalNext]_terminalVars
  BY DEF MCNext, InConsole, InTerminal, vars

(* Both parts keep their types, whichever of them the behaviour is of.      *)
THEOREM PartsKeepTypes == MCSpec => []TypeOK
<1> DEFINE Inv == ConsoleInv /\ BannersOK /\ AskedOK /\ RestOK /\ TerminalInv
<1>1. MCInit => Inv
  BY ConsoleInvInit, BannersStart, RestStarts, TerminalInvInit DEF MCInit
<1>2. Inv /\ [MCNext]_vars => Inv'
  BY PartsGoOn, ConsoleInvNext, BannersStep, AskedStep, RestStep, TerminalInvNext
<1>3. Inv => TypeOK
  BY ConsoleTyped DEF TerminalInv, TypeOK
<1> HIDE DEF Inv
<1> QED
  BY <1>1, <1>2, <1>3, PTL DEF MCSpec
================================================================================
