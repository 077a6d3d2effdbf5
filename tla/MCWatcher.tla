------------------------------- MODULE MCWatcher ------------------------------
(* Small instances of the watcher for TLC.                                  *)
EXTENDS Watcher, TLC

CONSTANTS s1, s2, safe, risky, calm, blank

Native(event, question) ==
    [state |-> "none", event |-> event, structured |-> FALSE,
     question |-> question, risk |-> "absent"]

(* What ckpt-hook.sh sends: an event and the raw payload of the agent.      *)
StopOnly == {Native("stop", safe)}
NotifyAndStop == {Native("notification", safe), Native("stop", safe)}
AskAndStop == {Native("permission_request", risky), Native("stop", safe)}

(* The structured contract: a declared state, or a decision with its risk.  *)
StructuredPayloads ==
    NotifyAndStop \cup
    {[state |-> "error", event |-> "none", structured |-> FALSE,
      question |-> safe, risk |-> "absent"],
     [state |-> "none", event |-> "none", structured |-> TRUE,
      question |-> safe, risk |-> "absent"]}

Asks(q) == [match |-> q, screen |-> q]
Works == [match |-> NoMatch, screen |-> calm]

NoOutputs == [s \in Sessions |-> {}]
OneTerminal == [s \in Sessions |-> {Asks(risky), Works}]
SamePrompt == [s \in Sessions |-> {Asks(safe)}]
BothPrompts == [s \in Sessions |-> {Asks(safe), Asks(risky)}]

Twins == Permutations({s1, s2})

===============================================================================
