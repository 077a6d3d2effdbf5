-------------------------------- MODULE MCServer -------------------------------
(***************************************************************************)
(* The loops of the server in one run: the sessions of a profile, with      *)
(* their reconciliation, and the panel of decisions, with its polls and     *)
(* answers.  The two share no state, so each behaviour is one of Sessions,  *)
(* with the panel as it began, or one of Panel, with the sessions as they   *)
(* began: all of both, and no product of the two.                           *)
(***************************************************************************)
EXTENDS Sessions, Panel

CONSTANTS yes, no

VARIABLE part

vars == <<part, sessionsVars, panelVars>>

MCInit ==
    /\ SessionsInit /\ PanelInit
    /\ \/ part = "sessions" /\ risk = "low"
       \/ part = "panel" /\ ~host.hooks /\ rows = [name \in Names |-> "none"]

InSessions(A) == part = "sessions" /\ A /\ UNCHANGED <<part, panelVars>>
InPanel(A) == part = "panel" /\ A /\ UNCHANGED <<part, sessionsVars>>

(* Nothing tells the two texts apart, so the first that is answered is yes: *)
(* a behaviour that begins with no is one of these with the names exchanged. *)
FirstTextIsYes ==
    \A k \in Clicks : asks'[k].text = no => \E j \in 1..(k - 1) : asks'[j].text = yes

MCNext == InSessions(SessionsNext) \/ InPanel(PanelNext /\ FirstTextIsYes)

(* SessionsFairness and PanelFairness, each of its part.                    *)
MCFairness ==
    /\ \A c \in Chains :
          /\ WF_vars(InSessions(Fires(c)))
          /\ WF_vars(InSessions(reconcileOnce(c)))
          /\ WF_vars(InSessions(listPipeStates(c)))
          /\ WF_vars(InSessions(rearmPipe(c)))
          /\ WF_vars(InSessions(refreshHookCoverage(c)))
    /\ \A p \in Askers : WF_vars(InSessions(HostRuns(p)))
    /\ \A name \in Names :
          WF_vars(InSessions(HostKills(name))) /\ WF_vars(InSessions(HostAttaches(name)))
    /\ WF_vars(InSessions(adoptExistingSessions))
    /\ WF_vars(InSessions(killSession))
    /\ \A p \in Polls :
          /\ WF_vars(InPanel(TimerFires(p)))
          /\ WF_vars(InPanel(HostAnswersPoll(p)))
          /\ WF_vars(InPanel(PollEnds(p)))
    /\ \A k \in Clicks :
          /\ WF_vars(InPanel(Challenged(k) \/ Responds(k) \/ ActionArrives(k)))
          /\ WF_vars(InPanel(HostTypes(k) \/ SendKeysEnds(k)))
          /\ WF_vars(InPanel(HostPatches(k) \/ patchDecision(k)))
          /\ WF_vars(InPanel(audit(k)))

MCSpec == MCInit /\ [][MCNext]_vars /\ MCFairness
================================================================================
