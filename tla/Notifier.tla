------------------------------- MODULE Notifier -------------------------------
(***************************************************************************)
(* The Telegram notifier, watcher/telegram.mjs: one message per pending     *)
(* decision, up to MaxAttempts calls with a pause in between, a sweep that  *)
(* picks up what was never sent, notified_at written after the answer.      *)
(***************************************************************************)
EXTENDS WatcherStore

CONSTANTS
    NotifierEnabled,  \* TELEGRAM_BOT_TOKEN and TELEGRAM_CHAT_ID are set
    MaxAttempts,      \* MAX_RETRIES + 1
    MaxLost           \* bound: answers of Telegram that get lost

ASSUME NotifierAssumption ==
    /\ NotifierEnabled \in BOOLEAN
    /\ MaxAttempts \in Nat \ {0}
    /\ MaxLost \in Nat

VARIABLES
    sending,    \* the maybeNotify in flight of each decision
    delivered,  \* copies of the decision's message the operator has received
    lost        \* of those, the ones whose answer never reached the watcher

notifierVars == <<sending, delivered, lost>>

Idle == [phase |-> "idle", attempt |-> 0]
Sending == [phase: {"idle", "calling", "accepted", "backoff"}, attempt: 0..MaxAttempts]

NotifierTypeOK ==
    /\ sending \in [Ids -> Sending]
    /\ delivered \in [Ids -> Nat]
    /\ lost \in [Ids -> Nat]

NotifierInit ==
    /\ sending = [d \in Ids |-> Idle]
    /\ delivered = [d \in Ids |-> 0]
    /\ lost = [d \in Ids |-> 0]

(* maybeNotify up to the first fetch, for the decision just created: it is  *)
(* pending and unnotified, and no call for a new id can be in flight.       *)
MaybeNotify(d) ==
    sending' = IF NotifierEnabled
                 THEN [sending EXCEPT ![d] = [phase |-> "calling", attempt |-> 1]]
                 ELSE sending

(* Faulty variant: the sweep does not ask whether a call is in flight.      *)
SweepNotifiesAgain(d) ==
    /\ NotifierEnabled
    /\ decisions[d].status = "pending"
    /\ ~decisions[d].notified
    /\ sending' = [sending EXCEPT ![d] = [phase |-> "calling", attempt |-> 1]]
    /\ UNCHANGED <<decisions, delivered, lost>>

(* The sweep reaches the row of decision d: maybeNotify reads the row again *)
(* before it starts a call.                                                 *)
SweepNotifies(d) ==
    /\ NotifierEnabled
    /\ sending[d].phase = "idle"
    /\ decisions[d].status = "pending"
    /\ ~decisions[d].notified
    /\ sending' = [sending EXCEPT ![d] = [phase |-> "calling", attempt |-> 1]]
    /\ UNCHANGED <<decisions, delivered, lost>>

(* Telegram takes the message; its answer is on the way.                    *)
TelegramAccepts(d) ==
    /\ sending[d].phase = "calling"
    /\ sending' = [sending EXCEPT ![d].phase = "accepted"]
    /\ delivered' = [delivered EXCEPT ![d] = @ + 1]
    /\ UNCHANGED <<decisions, lost>>

(* callTelegram returns: markNotified, whatever became of the decision.     *)
SendSucceeds(d) ==
    /\ sending[d].phase = "accepted"
    /\ sending' = [sending EXCEPT ![d] = Idle]
    /\ decisions' = [decisions EXCEPT ![d].notified = TRUE]
    /\ UNCHANGED <<delivered, lost>>

(* Faulty variant: giving up leaves the decision marked as in flight.       *)
SendFailsForGood(d) ==
    /\ sending[d].phase \in {"calling", "accepted"}
    /\ sending' = [sending EXCEPT ![d] = IF @.attempt < MaxAttempts
                                           THEN [@ EXCEPT !.phase = "backoff"]
                                           ELSE [@ EXCEPT !.phase = "given up"]]
    /\ IF sending[d].phase = "accepted"
         THEN lost[d] < MaxLost /\ lost' = [lost EXCEPT ![d] = @ + 1]
         ELSE UNCHANGED lost
    /\ UNCHANGED <<decisions, delivered>>

(* callTelegram throws: pause before the next attempt, or give up and leave *)
(* the decision to the sweep.  When Telegram had taken the message, a copy  *)
(* is out that the watcher does not know of.                                *)
SendFails(d) ==
    /\ sending[d].phase \in {"calling", "accepted"}
    /\ sending' = [sending EXCEPT ![d] = IF @.attempt < MaxAttempts
                                           THEN [@ EXCEPT !.phase = "backoff"]
                                           ELSE Idle]
    /\ IF sending[d].phase = "accepted"
         THEN lost[d] < MaxLost /\ lost' = [lost EXCEPT ![d] = @ + 1]
         ELSE UNCHANGED lost
    /\ UNCHANGED <<decisions, delivered>>

(* sleepImpl is over: the next attempt, without another look at the row.    *)
SendRetries(d) ==
    /\ sending[d].phase = "backoff"
    /\ sending' = [sending EXCEPT ![d] = [phase |-> "calling", attempt |-> @.attempt + 1]]
    /\ UNCHANGED <<decisions, delivered, lost>>

===============================================================================
