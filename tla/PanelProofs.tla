------------------------------ MODULE PanelProofs ------------------------------
(***************************************************************************)
(* Theorems about the panel and the responder, for any number of clicks,    *)
(* polls and texts: types, what a confirmation lets by, and what is         *)
(* reported as answered.                                                    *)
(***************************************************************************)
EXTENDS Panel, TLAPS

-------------------------------------------------------------------------------
LEMMA Bounds ==
    /\ MaxPolls \in Nat /\ MaxClicks \in Nat /\ MaxEvents \in Nat
    /\ 0 \in 0..MaxPolls /\ 0 \in 0..MaxClicks /\ 0 \in 0..MaxEvents
<1>1. MaxPolls \in Nat /\ MaxClicks \in Nat /\ MaxEvents \in Nat
  BY PanelAssumption
<1> QED
  BY <1>1

(* The fields of what a click asked, as far as a step of the server changes *)
(* them.                                                                    *)
Moved(k, step, gate, ran, told) ==
    asks' = [asks EXCEPT ![k] = [@ EXCEPT !.step = step, !.gate = gate, !.ran = ran, !.told = told]]

(* The step of one click leaves every other as it was.                      *)
LEMMA AsksMove ==
    ASSUME asks \in [Clicks -> Ask], NEW k \in Clicks,
           NEW step \in Progress, NEW gate \in {"none", "low", "high"},
           NEW ran \in {"no", "ok", "failed"},
           NEW told \in {"nothing", "challenge", "success", "failure"},
           Moved(k, step, gate, ran, told)
    PROVE  /\ asks' \in [Clicks -> Ask]
           /\ asks'[k].step = step /\ asks'[k].gate = gate
           /\ asks'[k].ran = ran /\ asks'[k].told = told
           /\ asks'[k].kind = asks[k].kind /\ asks'[k].text = asks[k].text
           /\ asks'[k].token = asks[k].token /\ asks'[k].confirms = asks[k].confirms
           /\ \A j \in Clicks \ {k} : asks'[j] = asks[j]
<1> DEFINE b == [asks[k] EXCEPT !.step = step, !.gate = gate, !.ran = ran, !.told = told]
<1>1. asks[k] \in Ask
  OBVIOUS
<1>2. /\ b \in Ask
      /\ b.step = step /\ b.gate = gate /\ b.ran = ran /\ b.told = told
      /\ b.kind = asks[k].kind /\ b.text = asks[k].text /\ b.token = asks[k].token
      /\ b.confirms = asks[k].confirms
  BY <1>1 DEF Ask
<1>3. asks' = [asks EXCEPT ![k] = b]
  BY DEF Moved
<1> HIDE DEF b
<1> QED
  BY <1>2, <1>3

(* The host that ran what a click asked sets one field.                     *)
LEMMA OnlyRan ==
    ASSUME asks \in [Clicks -> Ask], NEW k \in Clicks, NEW ran,
           asks' = [asks EXCEPT ![k].ran = ran]
    PROVE  Moved(k, asks[k].step, asks[k].gate, ran, asks[k].told)
<1>1. asks[k] \in Ask
  OBVIOUS
<1>2. [asks[k] EXCEPT !.ran = ran]
        = [asks[k] EXCEPT !.step = asks[k].step, !.gate = asks[k].gate, !.ran = ran,
                          !.told = asks[k].told]
  BY <1>1 DEF Ask
<1>3. asks' = [asks EXCEPT ![k] = [asks[k] EXCEPT !.ran = ran]]
  OBVIOUS
<1> QED
  BY <1>2, <1>3 DEF Moved

(* A new click, with what its message holds.                                *)
Grown(k, kind, text, token, confirms) ==
    /\ asks' \in [Clicks -> Ask]
    /\ asks'[k].kind = kind /\ asks'[k].step = "sent" /\ asks'[k].text = text
    /\ asks'[k].token = token /\ asks'[k].confirms = confirms
    /\ asks'[k].gate = "none" /\ asks'[k].ran = "no" /\ asks'[k].told = "nothing"
    /\ \A j \in Clicks \ {k} : asks'[j] = asks[j]

LEMMA AnswerGrows ==
    ASSUME asks \in [Clicks -> Ask], NEW k \in Clicks, NEW text \in Texts, AnswerClick(k, text)
    PROVE  Grown(k, "answer", text, 0, NoText)
<1> DEFINE a == [NoAsk EXCEPT !.kind = "answer", !.step = "sent", !.text = text]
<1>1. /\ a \in Ask
      /\ a.kind = "answer" /\ a.step = "sent" /\ a.text = text /\ a.token = 0
      /\ a.confirms = NoText /\ a.gate = "none" /\ a.ran = "no" /\ a.told = "nothing"
  BY Bounds DEF Ask, NoAsk, Progress, Kind
<1>2. asks' = [asks EXCEPT ![k] = a]
  BY DEF AnswerClick
<1> HIDE DEF a
<1> QED
  BY <1>1, <1>2 DEF Grown

LEMMA ConfirmGrows ==
    ASSUME asks \in [Clicks -> Ask], page \in Page, NEW k \in Clicks, ConfirmClick(k)
    PROVE  Grown(k, "answer", page.challenge.text, page.challenge.token, page.challenge.shown)
<1> DEFINE a == [NoAsk EXCEPT !.kind = "answer", !.step = "sent", !.text = page.challenge.text,
                              !.token = page.challenge.token, !.confirms = page.challenge.shown]
<1>1. page.challenge \in Challenge
  BY DEF Page
<1>2. /\ a \in Ask
      /\ a.kind = "answer" /\ a.step = "sent" /\ a.text = page.challenge.text
      /\ a.token = page.challenge.token /\ a.confirms = page.challenge.shown
      /\ a.gate = "none" /\ a.ran = "no" /\ a.told = "nothing"
  BY <1>1 DEF Ask, NoAsk, Progress, Kind, Challenge
<1>3. asks' = [asks EXCEPT ![k] = a]
  BY DEF ConfirmClick
<1> HIDE DEF a
<1> QED
  BY <1>2, <1>3 DEF Grown

LEMMA ActionGrows ==
    ASSUME asks \in [Clicks -> Ask], NEW k \in Clicks, NEW kind \in {"seen", "dismissed"},
           ActionClick(k, kind)
    PROVE  Grown(k, kind, NoText, 0, NoText)
<1> DEFINE a == [NoAsk EXCEPT !.kind = kind, !.step = "sent"]
<1>1. /\ a \in Ask
      /\ a.kind = kind /\ a.step = "sent" /\ a.text = NoText /\ a.token = 0
      /\ a.confirms = NoText /\ a.gate = "none" /\ a.ran = "no" /\ a.told = "nothing"
  BY Bounds DEF Ask, NoAsk, Progress, Kind
<1>2. asks' = [asks EXCEPT ![k] = a]
  BY DEF ActionClick
<1> HIDE DEF a
<1> QED
  BY <1>1, <1>2 DEF Grown

-------------------------------------------------------------------------------
(* What pollOnce arms: a timer of the profile, or none.  The query after a  *)
(* PATCH arms none, and the first of a profile starts at once.              *)
LEMMA PollTypes ==
    ASSUME NEW p, NEW state \in Poll, NEW all \in [Polls -> Round], NEW chain \in BOOLEAN,
           p \in Polls \/ ~chain \/ (state.on /\ ~state.polling),
           pollOnce(p, state, all, chain)
    PROVE  poll' \in Poll /\ rounds' \in [Polls -> Round]
<1>1. Asked(chain) \in Round /\ Timer \in Round /\ NoRound \in Round
  BY DEF Asked, Timer, NoRound, Round, NoSnapshot, Snapshot, Open
<1>2. rounds' \in [Polls -> Round]
  BY <1>1 DEF pollOnce
<1>3. [state EXCEPT !.polling = TRUE] \in Poll
  BY DEF Poll
<1>4. p \in Polls => [state EXCEPT !.timer = p] \in Poll
  BY PanelAssumption DEF Poll, Polls
<1>5. poll' \in Poll
  BY <1>3, <1>4 DEF pollOnce, Arms
<1> QED
  BY <1>2, <1>5

LEMMA WatcherStarts == [up |-> TRUE, status |-> "none"] \in [up: BOOLEAN, status: Status]
  BY DEF Status

LEMMA TypesStart == PanelInit => PanelTypeOK
<1> SUFFICES ASSUME PanelInit PROVE PanelTypeOK
  OBVIOUS
<1>1. poll \in Poll
  BY Bounds DEF PanelInit, Off, Poll, NoSnapshot, Snapshot, Open
<1>2. rounds \in [Polls -> Round]
  BY DEF PanelInit, NoRound, Round, NoSnapshot, Snapshot, Open
<1>3. tokens \in [Clicks -> Token]
  BY DEF PanelInit, NoToken, Token
<1>4. NoAsk \in Ask
  BY Bounds DEF NoAsk, Ask, Kind, Progress
<1>5. asks \in [Clicks -> Ask]
  BY <1>4 DEF PanelInit
<1>6. NoChallenge \in Challenge
  BY Bounds DEF NoChallenge, Challenge
<1>7. page \in Page
  BY <1>6 DEF PanelInit, NewPage, Page, NoSnapshot, Snapshot, Open
<1> QED
  BY <1>1, <1>2, <1>3, <1>5, <1>7, WatcherStarts, Bounds DEF PanelInit, PanelTypeOK

-------------------------------------------------------------------------------
(* The inductive invariant, besides the types.  A click goes from sent to   *)
(* done and is told of once, when it is done.                               *)
StepOK ==
    \A k \in Clicks :
       /\ asks[k].kind = "none" => asks[k].step = "none"
       /\ asks[k].step \in {"none", "sent"} =>
             asks[k].gate = "none" /\ asks[k].ran = "no"
       /\ asks[k].step # "done" => asks[k].told = "nothing"
       /\ asks[k].step \in {"typing", "auditing"} => asks[k].kind = "answer"

(* A token that is left is for the text of a click that is done, as is the  *)
(* one that the page holds and the one that a confirmation brings back.     *)
TokensOK ==
    \A k \in Clicks :
       tokens[k].text # NoText => asks[k].step = "done" /\ tokens[k].text = asks[k].text

ChallengeOK ==
    page.challenge.token # 0 =>
       /\ asks[page.challenge.token].step = "done"
       /\ asks[page.challenge.token].text = page.challenge.shown

AskTokenOK ==
    \A k \in Clicks :
       asks[k].token # 0 =>
          /\ asks[asks[k].token].step = "done"
          /\ asks[asks[k].token].text = asks[k].confirms

(* An answer that was let by with high risk used its token up, which was    *)
(* for the text that it carries.                                            *)
Used(k) == asks[k].kind = "answer" /\ asks[k].gate = "high" /\ asks[k].told # "challenge"

UsedOK ==
    /\ \A k \in Clicks :
          Used(k) => /\ asks[k].token # 0
                     /\ tokens[asks[k].token].text = NoText
                     /\ asks[k].confirms = asks[k].text
    /\ \A j, k \in Clicks : Used(j) /\ Used(k) /\ asks[j].token = asks[k].token => j = k

(* Only an answer that was let by is typed, and one that got past the       *)
(* send-keys was.                                                           *)
TypedOK ==
    \A k \in typed : /\ asks[k].kind = "answer" /\ asks[k].told # "challenge"
                     /\ asks[k].step \notin {"none", "sent"}

Reports(k) == /\ asks[k].kind = "answer"
              /\ \/ asks[k].step \in {"patching", "auditing"}
                 \/ asks[k].step = "typing" /\ asks[k].ran = "ok"
                 \/ asks[k].told = "success"

ReportOK ==
    /\ \A k \in Clicks : Reports(k) => k \in typed
    /\ watcher.status = "answered" => typed # {}

AnswersOK == /\ StepOK /\ TokensOK /\ ChallengeOK /\ AskTokenOK
             /\ UsedOK /\ TypedOK /\ ReportOK

PanelInv == PanelTypeOK /\ AnswersOK

LEMMA AnswersStart == PanelInit => AnswersOK
<1> SUFFICES ASSUME PanelInit PROVE AnswersOK
  OBVIOUS
<1>1. \A k \in Clicks : /\ asks[k].kind = "none" /\ asks[k].step = "none"
                        /\ asks[k].gate = "none" /\ asks[k].ran = "no"
                        /\ asks[k].told = "nothing" /\ asks[k].token = 0
                        /\ tokens[k].text = NoText
  BY DEF PanelInit, NoAsk, NoToken
<1>2. page.challenge.token = 0 /\ typed = {} /\ watcher.status = "none"
  BY DEF PanelInit, NewPage, NoChallenge
<1> QED
  BY <1>1, <1>2 DEF AnswersOK, StepOK, TokensOK, ChallengeOK, AskTokenOK, UsedOK, Used,
                    TypedOK, ReportOK, Reports

-------------------------------------------------------------------------------
(* Steps beside the answers: what was asked stays, tokens may expire, the   *)
(* page may drop its challenge, and the decision is answered by nobody.     *)
SameAsks ==
    \A k \in Clicks :
       /\ asks'[k].kind = asks[k].kind /\ asks'[k].step = asks[k].step
       /\ asks'[k].text = asks[k].text /\ asks'[k].token = asks[k].token
       /\ asks'[k].confirms = asks[k].confirms /\ asks'[k].gate = asks[k].gate
       /\ asks'[k].ran = asks[k].ran /\ asks'[k].told = asks[k].told

LEMMA AnswersAside ==
    ASSUME PanelInv, SameAsks, typed' = typed,
           \A k \in Clicks : tokens'[k].text = tokens[k].text,
           page'.challenge \in {page.challenge, NoChallenge},
           watcher'.status \in {watcher.status, "pending"}
    PROVE  AnswersOK'
<1>1. \A k \in Clicks : asks[k].token \in 0..MaxClicks /\ (asks[k].token # 0 => asks[k].token \in Clicks)
  BY Bounds DEF PanelInv, PanelTypeOK, Ask, Clicks
<1>2. page.challenge.token # 0 => page.challenge.token \in Clicks
  BY Bounds DEF PanelInv, PanelTypeOK, Page, Challenge, Clicks
<1>3. typed \subseteq Clicks
  BY DEF PanelInv, PanelTypeOK
<1>4. StepOK'
  BY DEF PanelInv, AnswersOK, StepOK, SameAsks
<1>5. TokensOK'
  BY DEF PanelInv, AnswersOK, TokensOK, SameAsks
<1>6. ChallengeOK'
  BY <1>2 DEF PanelInv, AnswersOK, ChallengeOK, SameAsks, NoChallenge
<1>7. AskTokenOK'
  BY <1>1 DEF PanelInv, AnswersOK, AskTokenOK, SameAsks
<1>8. UsedOK'
  BY <1>1 DEF PanelInv, AnswersOK, UsedOK, Used, SameAsks
<1>9. TypedOK'
  BY <1>3 DEF PanelInv, AnswersOK, TypedOK, SameAsks
<1>10. ReportOK'
  BY DEF PanelInv, AnswersOK, ReportOK, Reports, SameAsks
<1> QED
  BY <1>4, <1>5, <1>6, <1>7, <1>8, <1>9, <1>10 DEF AnswersOK

(* A click of the operator.                                                 *)
LEMMA AnswersGrow ==
    ASSUME PanelInv, NEW k \in Clicks, asks[k].kind = "none",
           NEW kind \in Kind \ {"none"}, NEW text \in Texts \cup {NoText}, NEW token \in 0..MaxClicks,
           NEW confirms \in Texts \cup {NoText},
           Grown(k, kind, text, token, confirms),
           token # 0 => asks[token].step = "done" /\ asks[token].text = confirms,
           typed' = typed, tokens' = tokens, watcher' = watcher,
           page'.challenge = page.challenge
    PROVE  AnswersOK'
<1>1. \A j \in Clicks : asks[j].token # 0 => asks[j].token \in Clicks
  BY Bounds DEF PanelInv, PanelTypeOK, Ask, Clicks
<1>2. page.challenge.token # 0 => page.challenge.token \in Clicks
  BY Bounds DEF PanelInv, PanelTypeOK, Page, Challenge, Clicks
<1>3. typed \subseteq Clicks /\ (token # 0 => token \in Clicks)
  BY Bounds DEF PanelInv, PanelTypeOK, Clicks
<1>0. asks[k].step = "none" /\ k \notin typed
  BY DEF PanelInv, AnswersOK, StepOK, TypedOK
<1>4. StepOK'
  BY DEF PanelInv, AnswersOK, StepOK, Grown
<1>5. TokensOK'
  BY <1>0 DEF PanelInv, AnswersOK, TokensOK, Grown
<1>6. ChallengeOK'
  BY <1>0, <1>2 DEF PanelInv, AnswersOK, ChallengeOK, Grown
<1>7. AskTokenOK'
  BY <1>0, <1>1, <1>3 DEF PanelInv, AnswersOK, AskTokenOK, Grown
<1>8. UsedOK'
  BY <1>0, <1>1 DEF PanelInv, AnswersOK, UsedOK, Used, Grown
<1>9. TypedOK'
  BY <1>0, <1>3 DEF PanelInv, AnswersOK, TypedOK, Grown
<1>10. ReportOK'
  BY <1>0 DEF PanelInv, AnswersOK, ReportOK, Reports, Grown
<1> QED
  BY <1>4, <1>5, <1>6, <1>7, <1>8, <1>9, <1>10 DEF AnswersOK

(* A step of the responder, of the host or of the end of a command moves    *)
(* one click: it uses up at most a token, which it must do to let an answer *)
(* of high risk by.                                                         *)
Passes(k) == /\ consumeToken(k)
             /\ tokens' = [tokens EXCEPT ![asks[k].token] = NoToken]

Serves(k, step, gate, ran, told) ==
    /\ Moved(k, step, gate, ran, told)
    /\ asks[k].step \notin {"none", "done"}
    /\ step \notin {"none", "sent"}
    /\ told # "challenge" /\ (told # "nothing" => step = "done")
    /\ step \in {"typing", "auditing"} => asks[k].kind = "answer"
    /\ asks[k].kind = "answer" /\ gate = "high" => asks[k].gate = "high" \/ Passes(k)
    /\ tokens' = tokens \/ \E t \in Clicks : tokens' = [tokens EXCEPT ![t] = NoToken]
    /\ page' \in {page, [page EXCEPT !.challenge = NoChallenge]}
    /\ typed' = typed \/ (typed' = typed \cup {k} /\ asks[k].kind = "answer")
    /\ asks[k].kind = "answer"
          /\ (step \in {"patching", "auditing"} \/ (step = "typing" /\ ran = "ok") \/ told = "success")
       => k \in typed'
    /\ watcher'.status = "answered" => watcher.status = "answered" \/ typed' # {}

LEMMA AnswersServe ==
    ASSUME PanelInv, NEW k \in Clicks,
           NEW step \in Progress, NEW gate \in {"none", "low", "high"},
           NEW ran \in {"no", "ok", "failed"},
           NEW told \in {"nothing", "challenge", "success", "failure"},
           Serves(k, step, gate, ran, told)
    PROVE  AnswersOK'
<1>1. \A j \in Clicks : asks[j].token # 0 => asks[j].token \in Clicks
  BY Bounds DEF PanelInv, PanelTypeOK, Ask, Clicks
<1>2. page.challenge.token # 0 => page.challenge.token \in Clicks
  BY Bounds DEF PanelInv, PanelTypeOK, Page, Challenge, Clicks
<1>3. typed \subseteq Clicks /\ typed' \subseteq typed \cup {k}
  BY DEF PanelInv, PanelTypeOK, Serves
<1>4. asks \in [Clicks -> Ask] /\ tokens \in [Clicks -> Token]
  BY DEF PanelInv, PanelTypeOK
<1>5. /\ asks'[k].step = step /\ asks'[k].gate = gate
      /\ asks'[k].ran = ran /\ asks'[k].told = told
      /\ asks'[k].kind = asks[k].kind /\ asks'[k].text = asks[k].text
      /\ asks'[k].token = asks[k].token /\ asks'[k].confirms = asks[k].confirms
      /\ \A j \in Clicks \ {k} : asks'[j] = asks[j]
  <2>1. Moved(k, step, gate, ran, told)
    BY DEF Serves
  <2> QED
    BY <1>4, <2>1, AsksMove
<1>6. \A j \in Clicks : tokens'[j] = tokens[j] \/ tokens'[j].text = NoText
  BY <1>4 DEF Serves, NoToken
<1>7. page'.challenge.token = 0 \/ page'.challenge = page.challenge
  BY DEF Serves, NoChallenge, PanelInv, PanelTypeOK, Page
<1>8. asks[k].step # "done" /\ asks[k].kind # "none"
  BY DEF Serves, PanelInv, AnswersOK, StepOK
<1>9. StepOK'
  BY <1>5, <1>8 DEF PanelInv, AnswersOK, StepOK, Serves
<1>10. TokensOK'
  BY <1>5, <1>6, <1>8 DEF PanelInv, AnswersOK, TokensOK
<1>11. ChallengeOK'
  BY <1>2, <1>5, <1>7, <1>8 DEF PanelInv, AnswersOK, ChallengeOK
<1>12. AskTokenOK'
  BY <1>1, <1>5, <1>8 DEF PanelInv, AnswersOK, AskTokenOK
<1>13. UsedOK'
  <2>1. \A j \in Clicks \ {k} : Used(j)' <=> Used(j)
    BY <1>5 DEF Used
  <2>2. CASE Used(k)' /\ ~Used(k)
    <3>1. Passes(k)
      BY <1>5, <2>2 DEF Serves, Used, PanelInv, AnswersOK, StepOK
    <3>2. /\ asks[k].token # 0 /\ asks[k].text # NoText
          /\ tokens[asks[k].token].text = asks[k].text
      BY <3>1 DEF Passes, consumeToken
    <3>3. asks[k].token \in Clicks
      BY <1>1, <3>2
    <3>4. tokens'[asks[k].token].text = NoText
      BY <1>4, <3>1, <3>3 DEF Passes, NoToken
    <3>5. asks[k].confirms = asks[k].text
      BY <3>2, <3>3 DEF PanelInv, AnswersOK, TokensOK, AskTokenOK
    <3>6. \A j \in Clicks \ {k} : Used(j) => asks[j].token # asks[k].token
      BY <3>2 DEF PanelInv, AnswersOK, UsedOK
    <3> QED
      BY <1>1, <1>5, <1>6, <2>1, <3>2, <3>4, <3>5, <3>6 DEF PanelInv, AnswersOK, UsedOK
  <2>3. CASE Used(k)' => Used(k)
    BY <1>1, <1>5, <1>6, <2>1, <2>3 DEF PanelInv, AnswersOK, UsedOK
  <2> QED
    BY <2>2, <2>3
<1>14. TypedOK'
  BY <1>3, <1>5 DEF PanelInv, AnswersOK, TypedOK, Serves
<1>15. ReportOK'
  BY <1>5 DEF PanelInv, AnswersOK, ReportOK, Reports, Serves
<1> QED
  BY <1>9, <1>10, <1>11, <1>12, <1>13, <1>14, <1>15 DEF AnswersOK

(* An answer that needs a confirmation gets a token of its own.             *)
LEMMA AnswersChallenge ==
    ASSUME PanelInv, NEW k \in Clicks, Challenged(k)
    PROVE  AnswersOK'
<1>1. \A j \in Clicks : asks[j].token # 0 => asks[j].token \in Clicks
  BY Bounds DEF PanelInv, PanelTypeOK, Ask, Clicks
<1>2. page.challenge.token # 0 => page.challenge.token \in Clicks
  BY Bounds DEF PanelInv, PanelTypeOK, Page, Challenge, Clicks
<1>3. typed \subseteq Clicks /\ typed' = typed /\ watcher' = watcher /\ k # 0
  BY Bounds DEF PanelInv, PanelTypeOK, Challenged, Clicks
<1>4. asks \in [Clicks -> Ask] /\ tokens \in [Clicks -> Token] /\ page \in Page
  BY DEF PanelInv, PanelTypeOK
<1>5. asks[k].ran \in {"no", "ok", "failed"}
  BY <1>4 DEF Ask
<1>6. Moved(k, "done", "high", asks[k].ran, "challenge")
  BY <1>4 DEF Challenged, Moved, Ask
<1>7. /\ asks'[k].step = "done" /\ asks'[k].gate = "high" /\ asks'[k].told = "challenge"
      /\ asks'[k].kind = asks[k].kind /\ asks'[k].text = asks[k].text
      /\ asks'[k].token = asks[k].token /\ asks'[k].confirms = asks[k].confirms
      /\ \A j \in Clicks \ {k} : asks'[j] = asks[j]
  <2>1. "done" \in Progress
    BY DEF Progress
  <2>2. /\ asks'[k].step = "done"
        /\ asks'[k].gate = "high" /\ asks'[k].told = "challenge"
        /\ asks'[k].kind = asks[k].kind /\ asks'[k].text = asks[k].text
        /\ asks'[k].token = asks[k].token /\ asks'[k].confirms = asks[k].confirms
        /\ \A j \in Clicks \ {k} : asks'[j] = asks[j]
    <3> HIDE DEF Progress
    <3> QED
      BY <1>4, <1>5, <1>6, <2>1, AsksMove
  <2> QED
    BY <2>2
<1>8. asks[k].step = "sent" /\ asks[k].kind = "answer" /\ k \notin typed
  BY DEF Challenged, Arrives, PanelInv, AnswersOK, TypedOK
<1>9. /\ tokens'[k].text = asks[k].text
      /\ \A j \in Clicks \ {k} : tokens'[j] = tokens[j] \/ tokens'[j].text = NoText
  <2>1. /\ Consumed(k) \in [Clicks -> Token]
        /\ \A j \in Clicks : Consumed(k)[j] = tokens[j] \/ Consumed(k)[j].text = NoText
    BY <1>1, <1>4 DEF Consumed, NoToken, Token
  <2>2. tokens' = [Consumed(k) EXCEPT ![k] = [text |-> asks[k].text, expired |-> FALSE]]
    BY DEF Challenged
  <2> QED
    BY <2>1, <2>2
<1>10. \/ page'.challenge = page.challenge
       \/ page'.challenge.token = k /\ page'.challenge.shown = asks[k].text
  BY <1>4 DEF Challenged, Page
<1>11. StepOK'
  BY <1>7, <1>8 DEF PanelInv, AnswersOK, StepOK
<1>12. TokensOK'
  BY <1>7, <1>8, <1>9 DEF PanelInv, AnswersOK, TokensOK
<1>13. ChallengeOK'
  BY <1>2, <1>3, <1>7, <1>8, <1>10 DEF PanelInv, AnswersOK, ChallengeOK
<1>14. AskTokenOK'
  BY <1>1, <1>7, <1>8 DEF PanelInv, AnswersOK, AskTokenOK
<1>15. UsedOK'
  <2>1. ~Used(k)' /\ \A j \in Clicks \ {k} : Used(j)' <=> Used(j)
    BY <1>7 DEF Used
  <2>2. \A j \in Clicks : Used(j) => asks[j].token # k
    BY <1>3, <1>8 DEF PanelInv, AnswersOK, UsedOK, AskTokenOK
  <2> QED
    BY <1>1, <1>7, <1>9, <2>1, <2>2 DEF PanelInv, AnswersOK, UsedOK
<1>16. TypedOK'
  BY <1>3, <1>7, <1>8 DEF PanelInv, AnswersOK, TypedOK
<1>17. ReportOK'
  BY <1>3, <1>7, <1>8 DEF PanelInv, AnswersOK, ReportOK, Reports
<1> QED
  BY <1>11, <1>12, <1>13, <1>14, <1>15, <1>16, <1>17 DEF AnswersOK

-------------------------------------------------------------------------------
(* Each of these steps serves a click.                                      *)
Served(k) ==
    \E step \in Progress, gate \in {"none", "low", "high"}, ran \in {"no", "ok", "failed"},
       told \in {"nothing", "challenge", "success", "failure"} : Serves(k, step, gate, ran, told)

LEMMA OutcomeMoves ==
    ASSUME asks \in [Clicks -> Ask], NEW k \in Clicks, NEW told, Outcome(k, told)
    PROVE  /\ Moved(k, "done", asks[k].gate, asks[k].ran, told)
           /\ page' \in {page, [page EXCEPT !.challenge = NoChallenge]}
  BY DEF Outcome, Moved, Ask

LEMMA AskTypes ==
    ASSUME PanelInv, NEW k \in Clicks
    PROVE  /\ asks[k] \in Ask
           /\ asks[k].gate \in {"none", "low", "high"} /\ asks[k].ran \in {"no", "ok", "failed"}
           /\ asks[k].told \in {"nothing", "challenge", "success", "failure"}
           /\ asks[k].kind \in Kind /\ asks[k].step \in Progress
           /\ asks[k].token # 0 => asks[k].token \in Clicks
  BY Bounds DEF PanelInv, PanelTypeOK, Ask, Clicks

LEMMA GateTypes == PanelInv => GateOf \in {"low", "high"}
  BY DEF PanelInv, PanelTypeOK, GateOf

LEMMA RespondsServes ==
    ASSUME PanelInv, NEW k \in Clicks, Responds(k)
    PROVE  Served(k)
<1>1. /\ asks[k].step = "sent" /\ asks[k].kind = "answer" /\ asks[k].gate = "none"
      /\ asks[k].ran = "no" /\ asks[k].told = "nothing"
  BY DEF Responds, Arrives, PanelInv, AnswersOK, StepOK
<1>2. asks \in [Clicks -> Ask]
  BY DEF PanelInv, PanelTypeOK
<1>3. tokens' = tokens \/ \E t \in Clicks : tokens' = [tokens EXCEPT ![t] = NoToken]
  BY AskTypes DEF Responds, Consumed
<1>4. typed' = typed /\ watcher' = watcher
  BY DEF Responds
<1>5. CASE link = "failed"
  <2>1. Outcome(k, "failure")
    BY <1>5 DEF Responds
  <2>2. Serves(k, "done", asks[k].gate, asks[k].ran, "failure")
    BY <1>1, <1>2, <1>3, <1>4, <2>1, OutcomeMoves DEF Serves
  <2> QED
    BY <1>1, <2>2 DEF Served, Progress
<1>6. CASE link # "failed"
  <2>1. Moved(k, "typing", GateOf, asks[k].ran, asks[k].told) /\ page' = page
    BY <1>2, <1>6 DEF Responds, Moved, Ask
  <2>2. GateOf = "high" => Passes(k)
    BY DEF Responds, Passes, Consumed, consumeToken
  <2>3. Serves(k, "typing", GateOf, asks[k].ran, asks[k].told)
    BY <1>1, <1>3, <1>4, <2>1, <2>2 DEF Serves
  <2> QED
    BY <2>3, GateTypes, AskTypes DEF Served, Progress
<1> QED
  BY <1>5, <1>6

LEMMA ActionArrivesServes ==
    ASSUME PanelInv, NEW k \in Clicks, ActionArrives(k)
    PROVE  Served(k)
<1>1. /\ asks[k].step = "sent" /\ asks[k].kind # "answer" /\ asks[k].told = "nothing"
  BY DEF ActionArrives, Arrives, PanelInv, AnswersOK, StepOK
<1>2. asks \in [Clicks -> Ask]
  BY DEF PanelInv, PanelTypeOK
<1>3. tokens' = tokens /\ typed' = typed /\ watcher' = watcher
  BY DEF ActionArrives
<1>4. CASE link = "failed"
  <2>1. Outcome(k, "failure")
    BY <1>4 DEF ActionArrives
  <2>2. Serves(k, "done", asks[k].gate, asks[k].ran, "failure")
    BY <1>1, <1>2, <1>3, <2>1, OutcomeMoves DEF Serves
  <2> QED
    BY <2>2, AskTypes DEF Served, Progress
<1>5. CASE link # "failed"
  <2>1. Moved(k, "patching", asks[k].gate, asks[k].ran, asks[k].told) /\ page' = page
    BY <1>2, <1>5 DEF ActionArrives, Moved, Ask
  <2>2. Serves(k, "patching", asks[k].gate, asks[k].ran, asks[k].told)
    BY <1>1, <1>3, <2>1 DEF Serves
  <2> QED
    BY <2>2, AskTypes DEF Served, Progress
<1> QED
  BY <1>4, <1>5

LEMMA HostTypesServes ==
    ASSUME PanelInv, NEW k \in Clicks, HostTypes(k)
    PROVE  Served(k)
<1>1. asks[k].step = "typing" /\ asks[k].kind = "answer" /\ asks[k].told = "nothing"
  BY DEF HostTypes, PanelInv, AnswersOK, StepOK
<1>2. asks \in [Clicks -> Ask]
  BY DEF PanelInv, PanelTypeOK
<1> DEFINE ran == IF session THEN "ok" ELSE "failed"
<1>3. Moved(k, "typing", asks[k].gate, ran, asks[k].told)
  BY <1>1, <1>2, OnlyRan DEF HostTypes
<1>4. Serves(k, "typing", asks[k].gate, ran, asks[k].told)
  BY <1>1, <1>3 DEF HostTypes, Serves
<1> QED
  BY <1>4, AskTypes DEF Served, Progress

LEMMA SendKeysEndsServes ==
    ASSUME PanelInv, NEW k \in Clicks, SendKeysEnds(k)
    PROVE  Served(k)
<1>1. asks[k].step = "typing" /\ asks[k].kind = "answer" /\ asks[k].told = "nothing"
  BY DEF SendKeysEnds, PanelInv, AnswersOK, StepOK
<1>2. asks \in [Clicks -> Ask]
  BY DEF PanelInv, PanelTypeOK
<1>3. tokens' = tokens /\ typed' = typed /\ watcher' = watcher
  BY DEF SendKeysEnds
<1>4. CASE /\ asks[k].ran = "ok"
           /\ asks' = [asks EXCEPT ![k].step = "patching", ![k].ran = "no"]
           /\ page' = page
  <2>1. k \in typed
    BY <1>1, <1>4 DEF PanelInv, AnswersOK, ReportOK, Reports
  <2>2. Moved(k, "patching", asks[k].gate, "no", asks[k].told)
    BY <1>2, <1>4 DEF Moved, Ask
  <2>3. Serves(k, "patching", asks[k].gate, "no", asks[k].told)
    BY <1>1, <1>3, <1>4, <2>1, <2>2 DEF Serves
  <2> QED
    BY <2>3, AskTypes DEF Served, Progress
<1>5. CASE Outcome(k, "failure")
  <2>1. Serves(k, "done", asks[k].gate, asks[k].ran, "failure")
    BY <1>1, <1>2, <1>3, <1>5, OutcomeMoves DEF Serves
  <2> QED
    BY <2>1, AskTypes DEF Served, Progress
<1> QED
  BY <1>4, <1>5 DEF SendKeysEnds

LEMMA HostPatchesServes ==
    ASSUME PanelInv, NEW k \in Clicks, HostPatches(k)
    PROVE  Served(k)
<1>1. asks[k].step = "patching" /\ asks[k].told = "nothing"
  BY DEF HostPatches, PanelInv, AnswersOK, StepOK
<1>2. asks[k].kind = "answer" => k \in typed
  BY <1>1 DEF PanelInv, AnswersOK, ReportOK, Reports
<1>3. asks \in [Clicks -> Ask] /\ watcher \in [up: BOOLEAN, status: Status]
  BY DEF PanelInv, PanelTypeOK
<1> DEFINE ran == IF watcher.up THEN "ok" ELSE "failed"
<1>4. Moved(k, "patching", asks[k].gate, ran, asks[k].told)
  BY <1>1, <1>3, OnlyRan DEF HostPatches
<1>5. watcher'.status = "answered" => watcher.status = "answered" \/ k \in typed
  BY <1>2, <1>3, AskTypes DEF HostPatches, Kind
<1>6. tokens' = tokens /\ typed' = typed /\ page' = page
  BY DEF HostPatches
<1>7. Serves(k, "patching", asks[k].gate, ran, asks[k].told)
  BY <1>1, <1>2, <1>4, <1>5, <1>6 DEF Serves
<1> QED
  BY <1>7, AskTypes DEF Served, Progress

LEMMA patchDecisionServes ==
    ASSUME PanelInv, NEW k \in Clicks, patchDecision(k)
    PROVE  Served(k)
<1>1. asks[k].step = "patching" /\ asks[k].told = "nothing"
  BY DEF patchDecision, PanelInv, AnswersOK, StepOK
<1>2. asks[k].kind = "answer" => k \in typed
  BY <1>1 DEF PanelInv, AnswersOK, ReportOK, Reports
<1>3. asks \in [Clicks -> Ask]
  BY DEF PanelInv, PanelTypeOK
<1>4. tokens' = tokens /\ typed' = typed /\ watcher' = watcher
  BY DEF patchDecision
<1>5. PICK ok \in BOOLEAN : AfterPatch(k, ok)
  BY DEF patchDecision
<1>6. CASE asks[k].kind = "answer"
  <2>1. Moved(k, "auditing", asks[k].gate, asks[k].ran, asks[k].told) /\ page' = page
    BY <1>3, <1>5, <1>6 DEF AfterPatch, Moved, Ask
  <2>2. Serves(k, "auditing", asks[k].gate, asks[k].ran, asks[k].told)
    BY <1>1, <1>2, <1>4, <1>6, <2>1 DEF Serves
  <2> QED
    BY <2>2, AskTypes DEF Served, Progress
<1>7. CASE asks[k].kind # "answer"
  <2>1. PICK told \in {"success", "failure"} : Outcome(k, told)
    BY <1>5, <1>7 DEF AfterPatch
  <2>2. Serves(k, "done", asks[k].gate, asks[k].ran, told)
    BY <1>1, <1>3, <1>4, <1>7, <2>1, OutcomeMoves DEF Serves
  <2> QED
    BY <2>2, AskTypes DEF Served, Progress
<1> QED
  BY <1>6, <1>7

LEMMA auditServes ==
    ASSUME PanelInv, NEW k \in Clicks, audit(k)
    PROVE  Served(k)
<1>1. asks[k].step = "auditing" /\ asks[k].kind = "answer" /\ asks[k].told = "nothing"
  BY DEF audit, PanelInv, AnswersOK, StepOK
<1>2. k \in typed
  BY <1>1 DEF PanelInv, AnswersOK, ReportOK, Reports
<1>3. asks \in [Clicks -> Ask] /\ Outcome(k, "success")
  BY DEF audit, PanelInv, PanelTypeOK
<1>4. tokens' = tokens /\ typed' = typed /\ watcher' = watcher
  BY DEF audit
<1>5. Serves(k, "done", asks[k].gate, asks[k].ran, "success")
  BY <1>1, <1>2, <1>3, <1>4, OutcomeMoves DEF Serves
<1> QED
  BY <1>5, AskTypes DEF Served, Progress

-------------------------------------------------------------------------------
(* What every step does with the answers.                                   *)
LEMMA AnswersStep ==
    ASSUME PanelInv, [PanelNext]_panelVars
    PROVE  AnswersOK'
<1>1. \A k \in Clicks : Served(k) => AnswersOK'
  BY AnswersServe DEF Served
<1> DEFINE Beside == /\ SameAsks /\ typed' = typed
                     /\ \A k \in Clicks : tokens'[k].text = tokens[k].text
                     /\ page'.challenge \in {page.challenge, NoChallenge}
                     /\ watcher'.status \in {watcher.status, "pending"}
<1>2. Beside => AnswersOK'
  BY AnswersAside
<1>3. asks' = asks => SameAsks
  BY DEF SameAsks
<1>4. page \in Page /\ asks \in [Clicks -> Ask] /\ tokens \in [Clicks -> Token]
  BY DEF PanelInv, PanelTypeOK
<1>5. CASE UNCHANGED panelVars \/ startPolling \/ LinkLost \/ LinkError \/ SessionDies
  BY <1>2, <1>3, <1>5 DEF panelVars, startPolling, LinkLost, LinkError, SessionDies
<1>6. ASSUME NEW p \in Polls, TimerFires(p) \/ HostAnswersPoll(p) \/ PollEnds(p)
      PROVE  AnswersOK'
  <2>1. CASE TimerFires(p) \/ HostAnswersPoll(p)
    BY <1>2, <1>3, <2>1 DEF TimerFires, HostAnswersPoll
  <2>2. CASE PollEnds(p)
    <3>1. \A view \in {rounds[p].seen, Unavailable} :
             EndPoll(p, view) => page'.challenge = page.challenge
      BY <1>4 DEF EndPoll, Page
    <3> QED
      BY <1>2, <1>3, <2>2, <3>1 DEF PollEnds
  <2> QED
    BY <1>6, <2>1, <2>2
<1>7. ASSUME NEW k \in Clicks, NEW text \in Texts, AnswerClick(k, text) PROVE AnswersOK'
  <2>1. Grown(k, "answer", text, 0, NoText)
    BY <1>4, <1>7, AnswerGrows
  <2>2. /\ asks[k].kind = "none" /\ typed' = typed /\ tokens' = tokens /\ watcher' = watcher
        /\ page'.challenge = page.challenge
    BY <1>4, <1>7 DEF AnswerClick, NextClick, Page
  <2> QED
    BY <2>1, <2>2, AnswersGrow, Bounds DEF Kind
<1>8. ASSUME NEW k \in Clicks, ConfirmClick(k) PROVE AnswersOK'
  <2>1. Grown(k, "answer", page.challenge.text, page.challenge.token, page.challenge.shown)
    BY <1>4, <1>8, ConfirmGrows
  <2>2. /\ asks[k].kind = "none" /\ typed' = typed /\ tokens' = tokens /\ watcher' = watcher
        /\ page'.challenge = page.challenge
    BY <1>4, <1>8 DEF ConfirmClick, NextClick, Page
  <2>3. /\ page.challenge.text \in Texts \cup {NoText} /\ page.challenge.token \in 0..MaxClicks
        /\ page.challenge.shown \in Texts \cup {NoText}
    BY <1>4 DEF Page, Challenge
  <2>4. page.challenge.token # 0 =>
           /\ asks[page.challenge.token].step = "done"
           /\ asks[page.challenge.token].text = page.challenge.shown
    BY DEF PanelInv, AnswersOK, ChallengeOK
  <2>5. "answer" \in Kind \ {"none"}
    BY DEF Kind
  <2> QED
    BY <2>1, <2>2, <2>3, <2>4, <2>5, AnswersGrow
<1>9. ASSUME NEW k \in Clicks, NEW kind \in {"seen", "dismissed"}, ActionClick(k, kind)
      PROVE  AnswersOK'
  <2>1. Grown(k, kind, NoText, 0, NoText)
    BY <1>4, <1>9, ActionGrows
  <2>2. /\ asks[k].kind = "none" /\ typed' = typed /\ tokens' = tokens /\ watcher' = watcher
        /\ page'.challenge = page.challenge
    BY <1>9 DEF ActionClick, NextClick
  <2>3. kind \in Kind \ {"none"}
    BY DEF Kind
  <2> QED
    BY <2>1, <2>2, <2>3, AnswersGrow, Bounds
<1>10. ASSUME NEW k \in Clicks, TokenExpires(k) PROVE AnswersOK'
  BY <1>2, <1>3, <1>4, <1>10 DEF TokenExpires, Token
<1>11. ASSUME NEW k \in Clicks,
              Responds(k) \/ ActionArrives(k) \/ HostTypes(k) \/ SendKeysEnds(k) \/ HostPatches(k)
                \/ patchDecision(k) \/ audit(k)
       PROVE  AnswersOK'
  BY <1>1, <1>11, RespondsServes, ActionArrivesServes, HostTypesServes, SendKeysEndsServes,
     HostPatchesServes, patchDecisionServes, auditServes
<1>12. CASE CancelClick
  BY <1>2, <1>3, <1>4, <1>12 DEF CancelClick, Page
<1>13. CASE Reload
  <2>1. SameAsks
    BY <1>4, <1>13 DEF Reload, SameAsks, Ask
  <2>2. page'.challenge = NoChallenge
    BY <1>13 DEF Reload, NewPage
  <2> QED
    BY <1>2, <1>13, <2>1, <2>2 DEF Reload
<1>14. CASE WatcherAsks \/ WatcherStops \/ WatcherReturns
  <2>1. watcher'.status \in {watcher.status, "pending"}
    BY <1>14 DEF WatcherAsks, WatcherStops, WatcherReturns, PanelInv, PanelTypeOK
  <2> QED
    BY <1>2, <1>3, <1>14, <2>1 DEF WatcherAsks, WatcherStops, WatcherReturns
<1> QED
  BY <1>5, <1>6, <1>7, <1>8, <1>9, <1>10, <1>11, <1>12, <1>13, <1>14, AnswersChallenge
     DEF PanelNext

(* What every step does with the types.                                     *)
LEMMA EventTypes == PanelTypeOK /\ Event => events' \in 0..MaxEvents
  BY Bounds DEF PanelTypeOK, Event

LEMMA UnheardTypes == PanelTypeOK /\ (Heard \/ Unheard) => events' \in 0..MaxEvents
  BY EventTypes DEF PanelTypeOK, Heard, Unheard

LEMMA SeenTypes == PanelTypeOK => Unavailable \in Snapshot /\ parseStateOutput \in Snapshot
  BY DEF PanelTypeOK, parseStateOutput, Unavailable, Snapshot, Open, Status

LEMMA ViewTypes ==
    ASSUME NEW pg \in Page, NEW view \in Snapshot
    PROVE  [pg EXCEPT !.view = view] \in Page
  BY DEF Page

LEMMA ChallengeTypes ==
    ASSUME NEW pg \in Page, NEW ch \in Challenge
    PROVE  [pg EXCEPT !.challenge = ch] \in Page
  BY DEF Page

LEMMA NoChallengeTypes == NoChallenge \in Challenge
  BY Bounds DEF NoChallenge, Challenge

LEMMA EndPollTypes ==
    ASSUME PanelTypeOK, NEW p \in Polls, NEW view \in Snapshot, EndPoll(p, view)
    PROVE  poll' \in Poll /\ rounds' \in [Polls -> Round] /\ page' \in Page
<1> DEFINE known == IF rounds[p].mine THEN poll.available ELSE rounds[p].was
           told == view.available \/ known # "no"
           timer == IF Arms(poll, rounds[p].chain) THEN p ELSE poll.timer
           polling == IF rounds[p].mine THEN FALSE ELSE poll.polling
           available == IF rounds[p].mine THEN IF view.available THEN "yes" ELSE "no"
                        ELSE poll.available
           last == IF rounds[p].mine /\ told THEN view ELSE poll.last
<1>1. poll \in Poll /\ rounds \in [Polls -> Round] /\ page \in Page
  BY DEF PanelTypeOK
<1>2. /\ timer \in 0..MaxPolls /\ polling \in BOOLEAN /\ available \in {"unset", "yes", "no"}
      /\ last \in Snapshot
  <2>1. /\ poll.timer \in 0..MaxPolls /\ poll.polling \in BOOLEAN
        /\ poll.available \in {"unset", "yes", "no"} /\ poll.last \in Snapshot
    BY <1>1 DEF Poll
  <2>2. p \in 0..MaxPolls
    BY Bounds DEF Polls
  <2> QED
    BY <2>1, <2>2
<1>3. poll' = [poll EXCEPT !.timer = timer, !.polling = polling, !.available = available,
                           !.last = last]
  BY DEF EndPoll
<1>4. poll' \in Poll
  <2> HIDE DEF timer, polling, available, last
  <2> QED
    BY <1>1, <1>2, <1>3 DEF Poll
<1>5. Timer \in Round /\ NoRound \in Round
  BY DEF Timer, NoRound, Round, NoSnapshot, Snapshot, Open
<1>6. rounds' \in [Polls -> Round]
  BY <1>1, <1>5 DEF EndPoll
<1>7. page' \in Page
  BY <1>1, ViewTypes DEF EndPoll
<1> QED
  BY <1>4, <1>6, <1>7

LEMMA StopTypes ==
    ASSUME PanelTypeOK, stopPolling
    PROVE  poll' \in Poll /\ rounds' \in [Polls -> Round]
<1>1. poll' \in Poll
  BY Bounds DEF stopPolling, Off, Poll, NoSnapshot, Snapshot, Open
<1>2. NoRound \in Round
  BY DEF NoRound, Round, NoSnapshot, Snapshot, Open
<1>3. ASSUME NEW p \in Polls
      PROVE  [rounds[p] EXCEPT !.mine = FALSE, !.was = poll.available] \in Round
  <2>1. rounds[p] \in Round
    BY DEF PanelTypeOK
  <2>2. poll.available \in {"unset", "yes", "no"}
    BY DEF PanelTypeOK, Poll
  <2> QED
    BY <2>1, <2>2 DEF Round
<1>4. rounds' \in [Polls -> Round]
  <2>1. \A p \in Polls : rounds[p] \in Round
    BY DEF PanelTypeOK
  <2> QED
    BY <1>2, <1>3, <2>1 DEF stopPolling
<1> QED
  BY <1>1, <1>4

LEMMA ServeTypes ==
    ASSUME PanelInv, NEW k \in Clicks, Served(k)
    PROVE  /\ asks' \in [Clicks -> Ask] /\ tokens' \in [Clicks -> Token]
           /\ typed' \in SUBSET Clicks /\ page' \in Page
<1> PICK step \in Progress, gate \in {"none", "low", "high"}, ran \in {"no", "ok", "failed"},
         told \in {"nothing", "challenge", "success", "failure"} : Serves(k, step, gate, ran, told)
  BY DEF Served
<1>1. asks \in [Clicks -> Ask] /\ tokens \in [Clicks -> Token] /\ typed \in SUBSET Clicks
      /\ page \in Page
  BY DEF PanelInv, PanelTypeOK
<1>2. asks' \in [Clicks -> Ask]
  BY <1>1, AsksMove DEF Serves
<1>3. tokens' \in [Clicks -> Token]
  <2>1. NoToken \in Token
    BY DEF NoToken, Token
  <2> QED
    BY <1>1, <2>1 DEF Serves
<1>4. page' \in Page
  BY <1>1, ChallengeTypes, NoChallengeTypes DEF Serves
<1> QED
  BY <1>1, <1>2, <1>3, <1>4 DEF Serves

LEMMA TypesStep ==
    ASSUME PanelInv, [PanelNext]_panelVars
    PROVE  PanelTypeOK'
<1>1. PanelTypeOK
  BY DEF PanelInv
<1>2. CASE UNCHANGED panelVars
  BY <1>1, <1>2 DEF panelVars, PanelTypeOK
<1>3. CASE startPolling
  <2>1. poll' \in Poll /\ rounds' \in [Polls -> Round]
    <3>1. CASE poll.on
      BY <1>1, <1>3, <3>1 DEF startPolling, PanelTypeOK
    <3>2. CASE ~poll.on
      <4>1. Fresh \in Poll /\ Fresh.on /\ ~Fresh.polling
        BY Bounds DEF Fresh, Off, Poll, NoSnapshot, Snapshot, Open
      <4>2. pollOnce(Min(FreeRounds), Fresh, rounds, TRUE)
        BY <1>3, <3>2 DEF startPolling
      <4> QED
        BY <1>1, <4>1, <4>2, PollTypes DEF PanelTypeOK
    <3> QED
      BY <3>1, <3>2
  <2>2. overlap' \in BOOLEAN
    BY <1>3 DEF startPolling
  <2> QED
    BY <1>1, <1>3, <2>1, <2>2 DEF startPolling, PanelTypeOK
<1>4. CASE LinkLost
  BY <1>1, <1>4, EventTypes DEF LinkLost, PanelTypeOK
<1>5. CASE LinkError
  <2>1. link' \in {"up", "retrying", "failed"}
    BY <1>5 DEF LinkError
  <2> QED
    BY <1>1, <1>5, <2>1, EventTypes, StopTypes DEF LinkError, PanelTypeOK
<1>6. ASSUME NEW p \in Polls, TimerFires(p) PROVE PanelTypeOK'
  <2>1. poll' \in Poll /\ rounds' \in [Polls -> Round]
    BY <1>1, <1>6, PollTypes DEF TimerFires, PanelTypeOK
  <2> QED
    BY <1>1, <1>6, <2>1 DEF TimerFires, PanelTypeOK
<1>7. ASSUME NEW p \in Polls, HostAnswersPoll(p) PROVE PanelTypeOK'
  <2>1. rounds' = [rounds EXCEPT ![p] = [@ EXCEPT !.step = "ran", !.seen = parseStateOutput]]
    BY <1>1, <1>7 DEF HostAnswersPoll, PanelTypeOK, Round
  <2>2. [rounds[p] EXCEPT !.step = "ran", !.seen = parseStateOutput] \in Round
    <3>1. rounds[p] \in Round /\ parseStateOutput \in Snapshot
      BY <1>1, SeenTypes DEF PanelTypeOK
    <3> QED
      BY <3>1 DEF Round
  <2>3. rounds' \in [Polls -> Round]
    BY <1>1, <2>1, <2>2 DEF PanelTypeOK
  <2> QED
    BY <1>1, <1>7, <2>2 DEF HostAnswersPoll, PanelTypeOK
<1>8. ASSUME NEW p \in Polls, PollEnds(p) PROVE PanelTypeOK'
  <2>1. rounds[p].seen \in Snapshot
    BY <1>1 DEF PanelTypeOK, Round
  <2>2. poll' \in Poll /\ rounds' \in [Polls -> Round] /\ page' \in Page
    BY <1>1, <1>8, <2>1, EndPollTypes, SeenTypes DEF PollEnds
  <2>3. events' \in 0..MaxEvents
    BY <1>1, <1>8, UnheardTypes DEF PollEnds
  <2> QED
    BY <1>1, <1>8, <2>2, <2>3 DEF PollEnds, PanelTypeOK
<1>9. ASSUME NEW k \in Clicks, NEW text \in Texts, AnswerClick(k, text) PROVE PanelTypeOK'
  <2>1. asks' \in [Clicks -> Ask]
    BY <1>1, <1>9, AnswerGrows DEF Grown, PanelTypeOK
  <2>2. page' \in Page
    BY <1>1, <1>9 DEF AnswerClick, PanelTypeOK, Page
  <2> QED
    BY <1>1, <1>9, <2>1, <2>2, EventTypes DEF AnswerClick, PanelTypeOK
<1>10. ASSUME NEW k \in Clicks, ConfirmClick(k) PROVE PanelTypeOK'
  <2>1. asks' \in [Clicks -> Ask]
    BY <1>1, <1>10, ConfirmGrows DEF Grown, PanelTypeOK
  <2>2. page' \in Page
    BY <1>1, <1>10 DEF ConfirmClick, PanelTypeOK, Page, Challenge
  <2> QED
    BY <1>1, <1>10, <2>1, <2>2, EventTypes DEF ConfirmClick, PanelTypeOK
<1>11. ASSUME NEW k \in Clicks, NEW kind \in {"seen", "dismissed"}, ActionClick(k, kind)
       PROVE  PanelTypeOK'
  <2>1. asks' \in [Clicks -> Ask]
    BY <1>1, <1>11, ActionGrows DEF Grown, PanelTypeOK
  <2> QED
    BY <1>1, <1>11, <2>1, EventTypes DEF ActionClick, PanelTypeOK
<1>12. ASSUME NEW k \in Clicks, Challenged(k) PROVE PanelTypeOK'
  <2>1. asks' \in [Clicks -> Ask]
    <3>1. asks \in [Clicks -> Ask]
      BY <1>1 DEF PanelTypeOK
    <3>2. Moved(k, "done", "high", asks[k].ran, "challenge")
      BY <1>12, <3>1 DEF Challenged, Moved, Ask
    <3>3. "done" \in Progress /\ asks[k].ran \in {"no", "ok", "failed"}
      BY <3>1 DEF Progress, Ask
    <3> QED
      BY <3>1, <3>2, <3>3, AsksMove
  <2>2. asks[k].text \in Texts \cup {NoText}
    BY <1>1 DEF PanelTypeOK, Ask
  <2>3. tokens' \in [Clicks -> Token]
    <3>1. Consumed(k) \in [Clicks -> Token]
      BY <1>1 DEF Consumed, PanelTypeOK, NoToken, Token
    <3>2. [text |-> asks[k].text, expired |-> FALSE] \in Token
      BY <2>2 DEF Token
    <3> QED
      BY <1>12, <3>1, <3>2 DEF Challenged
  <2>4. page' \in Page
    <3>1. [token |-> k, shown |-> asks[k].text, text |-> page.pendingText] \in Challenge
      BY <1>1, <2>2, Bounds DEF PanelTypeOK, Page, Challenge, Clicks
    <3> QED
      BY <1>1, <1>12, <3>1, ChallengeTypes DEF Challenged, PanelTypeOK
  <2> QED
    BY <1>1, <1>12, <2>1, <2>3, <2>4 DEF Challenged, PanelTypeOK
<1>13. ASSUME NEW k \in Clicks, Responds(k) PROVE PanelTypeOK'
  BY <1>1, <1>13, RespondsServes, ServeTypes DEF Responds, PanelTypeOK
<1>14. ASSUME NEW k \in Clicks, ActionArrives(k) PROVE PanelTypeOK'
  BY <1>1, <1>14, ActionArrivesServes, ServeTypes DEF ActionArrives, PanelTypeOK
<1>15. ASSUME NEW k \in Clicks, TokenExpires(k) PROVE PanelTypeOK'
  <2>1. tokens' \in [Clicks -> Token]
    BY <1>1, <1>15 DEF TokenExpires, PanelTypeOK, Token
  <2> QED
    BY <1>1, <1>15, <2>1, EventTypes DEF TokenExpires, PanelTypeOK
<1>16. ASSUME NEW k \in Clicks, HostTypes(k) PROVE PanelTypeOK'
  BY <1>1, <1>16, HostTypesServes, ServeTypes DEF HostTypes, PanelTypeOK
<1>17. ASSUME NEW k \in Clicks, SendKeysEnds(k) PROVE PanelTypeOK'
  <2>1. events' \in 0..MaxEvents
    BY <1>1, <1>17, UnheardTypes DEF SendKeysEnds
  <2> QED
    BY <1>1, <1>17, <2>1, SendKeysEndsServes, ServeTypes DEF SendKeysEnds, PanelTypeOK
<1>18. ASSUME NEW k \in Clicks, HostPatches(k) PROVE PanelTypeOK'
  <2>1. watcher' \in [up: BOOLEAN, status: Status]
    <3>1. asks[k].kind # "answer" => asks[k].kind \in Status
      BY AskTypes DEF Kind, Status
    <3>2. "answered" \in Status
      BY DEF Status
    <3> QED
      BY <1>1, <1>18, <3>1, <3>2 DEF HostPatches, PanelTypeOK
  <2> QED
    BY <1>1, <1>18, <2>1, HostPatchesServes, ServeTypes DEF HostPatches, PanelTypeOK
<1>19. ASSUME NEW k \in Clicks, patchDecision(k) PROVE PanelTypeOK'
  <2>1. events' \in 0..MaxEvents
    BY <1>1, <1>19, UnheardTypes DEF patchDecision
  <2>2. poll' \in Poll /\ rounds' \in [Polls -> Round]
    <3>1. CASE UNCHANGED <<poll, rounds>>
      BY <1>1, <3>1 DEF PanelTypeOK
    <3>2. CASE pollOnce(Min(FreeRounds), poll, rounds, FALSE)
      BY <1>1, <3>2, PollTypes DEF PanelTypeOK
    <3> QED
      BY <1>19, <3>1, <3>2 DEF patchDecision
  <2> QED
    BY <1>1, <1>19, <2>1, <2>2, patchDecisionServes, ServeTypes DEF patchDecision, PanelTypeOK
<1>20. ASSUME NEW k \in Clicks, audit(k) PROVE PanelTypeOK'
  <2>1. events' \in 0..MaxEvents
    BY <1>1, <1>20, UnheardTypes DEF audit
  <2> QED
    BY <1>1, <1>20, <2>1, auditServes, ServeTypes DEF audit, PanelTypeOK
<1>21. CASE CancelClick
  BY <1>1, <1>21, ChallengeTypes, NoChallengeTypes DEF CancelClick, PanelTypeOK
<1>22. CASE Reload
  <2>1. page' \in Page
    <3>1. NewPage \in Page
      BY NoChallengeTypes DEF NewPage, Page, NoSnapshot, Snapshot, Open
    <3>2. poll.last \in Snapshot /\ NoSnapshot \in Snapshot
      BY <1>1 DEF PanelTypeOK, Poll, NoSnapshot, Snapshot, Open
    <3> QED
      BY <1>22, <3>1, <3>2, ViewTypes DEF Reload
  <2>2. asks' \in [Clicks -> Ask]
    <3>1. \A k \in Clicks : asks[k] \in Ask
      BY <1>1 DEF PanelTypeOK
    <3>2. \A k \in Clicks : [asks[k] EXCEPT !.open = FALSE] \in Ask
      BY <3>1 DEF Ask
    <3> QED
      BY <1>22, <3>1, <3>2 DEF Reload
  <2> QED
    BY <1>1, <1>22, <2>1, <2>2, EventTypes DEF Reload, PanelTypeOK
<1>23. CASE WatcherAsks \/ WatcherStops \/ WatcherReturns
  <2>1. watcher' \in [up: BOOLEAN, status: Status]
    BY <1>1, <1>23 DEF WatcherAsks, WatcherStops, WatcherReturns, PanelTypeOK, Status
  <2> QED
    BY <1>1, <1>23, <2>1, EventTypes DEF WatcherAsks, WatcherStops, WatcherReturns, PanelTypeOK
<1>24. CASE SessionDies
  BY <1>1, <1>24, EventTypes DEF SessionDies, PanelTypeOK
<1> QED
  BY <1>2, <1>3, <1>4, <1>5, <1>6, <1>7, <1>8, <1>9, <1>10, <1>11, <1>12, <1>13, <1>14, <1>15,
     <1>16, <1>17, <1>18, <1>19, <1>20, <1>21, <1>22, <1>23, <1>24 DEF PanelNext

-------------------------------------------------------------------------------
(* The types and the invariant hold in every state.                         *)
THEOREM PanelKeepsInv == PanelSpec => []PanelInv
<1>1. PanelInit => PanelInv
  BY TypesStart, AnswersStart DEF PanelInv
<1>2. PanelInv /\ [PanelNext]_panelVars => PanelInv'
  BY TypesStep, AnswersStep DEF PanelInv
<1> QED
  BY <1>1, <1>2, PTL DEF PanelSpec

(* Every variable of the panel, the poller and the responder keeps its      *)
(* type, whatever is polled, clicked, lost or answered late.                *)
THEOREM PanelTypes == PanelSpec => []PanelTypeOK
<1>1. PanelInv => PanelTypeOK
  BY DEF PanelInv
<1> QED
  BY <1>1, PanelKeepsInv, PTL

(* What is typed as an answer of high risk is the text of the command that  *)
(* the operator confirmed: the token that let it by was for that text.      *)
THEOREM OnlyConfirmedIsTyped == PanelSpec => []ConfirmedIsTyped
<1>1. PanelInv => ConfirmedIsTyped
  BY DEF PanelInv, PanelTypeOK, AnswersOK, UsedOK, Used, TypedOK, ConfirmedIsTyped
<1> QED
  BY <1>1, PanelKeepsInv, PTL

(* A challenge lets one answer by: a token is gone when its first answer    *)
(* is let by, and none is minted again under its name.                      *)
THEOREM TokensTypeOnce == PanelSpec => []OneTypingPerChallenge
<1>1. PanelInv => OneTypingPerChallenge
  BY DEF PanelInv, PanelTypeOK, AnswersOK, UsedOK, Used, TypedOK, OneTypingPerChallenge
<1> QED
  BY <1>1, PanelKeepsInv, PTL

(* Neither the watcher nor a page is told of an answer that was not typed,  *)
(* whatever command timed out on the way.                                   *)
THEOREM OnlyTypedIsReported == PanelSpec => []ReportedIsTyped
<1>1. PanelInv => ReportedIsTyped
  BY DEF PanelInv, AnswersOK, ReportOK, Reports, ReportedIsTyped
<1> QED
  BY <1>1, PanelKeepsInv, PTL
===============================================================================
