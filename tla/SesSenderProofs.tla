--------------------------- MODULE SesSenderProofs ---------------------------
(***************************************************************************)
(* The single attempt of SesSender, for any number of intents and calls.   *)
(***************************************************************************)
EXTENDS SesSender, TLAPS

\* All that may still be taken is one request, and only while the outcome is
\* open or was reported unknown; an answer says what the provider did.
OneRequest ==
    \A i \in Intents :
        /\ taken[i] + flying[i] <= 1
        /\ outcome[i] \in {"none", "rejected", "invalid"} => taken[i] = 0 /\ flying[i] = 0
        /\ outcome[i] = "accepted" => taken[i] = 1
        /\ calls[i].at # "idle" => outcome[i] = "open"
        /\ calls[i].at = "called" =>
            taken[i] = 0 /\ flying[i] = 0 /\ calls[i].tries = 0 /\ answers[i] = NoAnswer
        /\ calls[i].at = "waiting" => calls[i].tries = 1
        /\ calls[i].at = "waiting" /\ answers[i] # NoAnswer => flying[i] = 0
        /\ calls[i].at = "waiting" /\ answers[i] = Success => taken[i] = 1
        /\ calls[i].at = "waiting" /\ answers[i] \in Rejections => taken[i] = 0

SenderInv == TypeOK /\ OneRequest

\* An outcome reported as definite is one of the provider's definite answers.
LEMMA DefiniteOutcomes ==
    ASSUME NEW a \in Answers
    PROVE  /\ Outcome(a) \in {"accepted", "rejected", "acceptance_unknown"}
           /\ Outcome(a) = "accepted" => a = Success
           /\ Outcome(a) = "rejected" => a \in Rejections
BY DEF Outcome, Accepted, Rejected, Answers, Successes, Errors, Broken, Success, Rejections

LEMMA SenderInit == Init => SenderInv
BY SenderAssumption DEF Init, SenderInv, TypeOK, OneRequest, Idle

LEMMA CallStep ==
    ASSUME SenderInv, NEW i \in Intents, Call(i)
    PROVE  SenderInv'
<1>1. TypeOK'
  BY SenderAssumption DEF SenderInv, TypeOK, Call
<1>2. OneRequest'
  BY DEF SenderInv, TypeOK, OneRequest, Call, Retryable
<1>3. QED
  BY <1>1, <1>2 DEF SenderInv

LEMMA CrashStep ==
    ASSUME SenderInv, NEW i \in Intents, Crash(i)
    PROVE  SenderInv'
BY DEF SenderInv, TypeOK, OneRequest, Crash, Idle

LEMMA TransmitStep ==
    ASSUME SenderInv, NEW i \in Intents, Transmit(i)
    PROVE  SenderInv'
<1>1. /\ calls' = [calls EXCEPT ![i] = [at |-> "waiting", tries |-> calls[i].tries + 1]]
      /\ calls[i].at = "called" /\ calls[i].tries \in Nat
  BY DEF SenderInv, TypeOK, Transmit
<1>2. TypeOK'
  BY <1>1 DEF SenderInv, TypeOK, Transmit
<1>3. /\ taken[i] = 0 /\ flying[i] = 0 /\ calls[i].tries = 0 /\ outcome[i] = "open"
  BY <1>1 DEF SenderInv, OneRequest
<1>4. answers[i] = NoAnswer
  BY <1>1 DEF SenderInv, OneRequest
<1>5. OneRequest'
  <2>1. /\ calls'[i].at = "waiting" /\ calls'[i].tries = 1
        /\ flying'[i] = 1
        /\ \A k \in Intents \ {i} : calls'[k] = calls[k] /\ flying'[k] = flying[k]
        /\ UNCHANGED <<answers, outcome, taken>>
    BY <1>1, <1>3 DEF SenderInv, TypeOK, Transmit
  <2>2. QED
    BY <1>3, <1>4, <2>1 DEF SenderInv, OneRequest, NoAnswer, Success, Rejections, Errors
<1>6. QED
  BY <1>2, <1>5 DEF SenderInv

\* A call that returns leaves the provider as it is.
LEMMA ReturnStep ==
    ASSUME SenderInv, NEW i \in Intents, NEW result, Returns(i, result),
           result \in {"invalid", "accepted", "rejected", "acceptance_unknown"},
           result \in {"invalid", "rejected"} => taken[i] = 0 /\ flying[i] = 0,
           result = "accepted" => taken[i] = 1
    PROVE  SenderInv'
<1>1. TypeOK'
  BY DEF SenderInv, TypeOK, Returns, Idle
<1>2. OneRequest'
  BY DEF SenderInv, TypeOK, OneRequest, Returns, Idle
<1>3. QED
  BY <1>1, <1>2 DEF SenderInv

LEMMA SendStep ==
    ASSUME SenderInv, NEW i \in Intents, Send(i)
    PROVE  SenderInv'
<1>1. CASE Refuse(i)
  BY <1>1, ReturnStep DEF Refuse, SenderInv, OneRequest
<1>2. CASE Transmit(i)
  BY <1>2, TransmitStep
<1>3. CASE Fail(i)
  <2>1. calls[i].at = "waiting" /\ calls[i].tries = 1
    BY <1>3 DEF Fail, SenderInv, OneRequest
  <2>2. Returns(i, "acceptance_unknown")
    BY <1>3, <2>1 DEF Fail, TotalAttempts
  <2>3. QED
    BY <2>2, ReturnStep
<1>4. CASE Classify(i)
  <2>1. answers[i] \in Answers /\ calls[i].at = "waiting" /\ answers[i] # NoAnswer
    BY <1>4 DEF Classify, SenderInv, TypeOK
  <2>2. /\ flying[i] = 0
        /\ answers[i] = Success => taken[i] = 1
        /\ answers[i] \in Rejections => taken[i] = 0
    BY <2>1 DEF SenderInv, OneRequest
  <2>3. Returns(i, Outcome(answers[i]))
    BY <1>4 DEF Classify
  <2>4. QED
    BY <2>1, <2>2, <2>3, DefiniteOutcomes, ReturnStep
<1>5. QED
  BY <1>1, <1>2, <1>3, <1>4 DEF Send

LEMMA ServeStep ==
    ASSUME SenderInv, NEW i \in Intents, Serve(i)
    PROVE  SenderInv'
<1>1. PICK a \in Answers, took \in BOOLEAN, arrives \in BOOLEAN :
        /\ flying[i] > 0
        /\ a = Success => took
        /\ a \in Rejections => ~took
        /\ flying' = [flying EXCEPT ![i] = @ - 1]
        /\ taken' = IF took THEN [taken EXCEPT ![i] = @ + 1] ELSE taken
        /\ answers' = IF arrives /\ calls[i].at = "waiting" /\ answers[i] = NoAnswer
                      THEN [answers EXCEPT ![i] = a] ELSE answers
        /\ UNCHANGED <<letters, calls, outcome, attempts>>
  BY DEF Serve
<1>2. /\ TypeOK
      /\ flying[i] = 1 /\ taken[i] = 0
      /\ outcome[i] \in {"open", "acceptance_unknown"}
      /\ calls[i].at # "called"
      /\ calls[i].at = "waiting" => answers[i] = NoAnswer
  BY <1>1 DEF SenderInv, TypeOK, OneRequest
<1>3. /\ flying'[i] = 0 /\ taken'[i] = (IF took THEN 1 ELSE 0)
      /\ \A k \in Intents \ {i} :
            flying'[k] = flying[k] /\ taken'[k] = taken[k] /\ answers'[k] = answers[k]
      /\ answers'[i] \in {a, answers[i]}
  BY <1>1, <1>2 DEF TypeOK
<1>4. TypeOK'
  BY <1>1, <1>2 DEF TypeOK
<1>5. NoAnswer # Success /\ NoAnswer \notin Rejections
  BY DEF NoAnswer, Success, Rejections, Errors
<1>6. OneRequest'
  BY <1>1, <1>2, <1>3, <1>5 DEF SenderInv, OneRequest
<1>7. QED
  BY <1>4, <1>6 DEF SenderInv

LEMMA SenderCorrect == Spec => []SenderInv
<1>1. SenderInv /\ [Next]_vars => SenderInv'
  <2> SUFFICES ASSUME SenderInv, [Next]_vars PROVE SenderInv'
    OBVIOUS
  <2>1. CASE UNCHANGED vars
    <3>1. TypeOK'
      BY <2>1 DEF vars, SenderInv, TypeOK
    <3>2. OneRequest'
      BY <2>1 DEF vars, SenderInv, OneRequest
    <3>3. QED
      BY <3>1, <3>2 DEF SenderInv
  <2>2. CASE Next
    BY <2>2, CallStep, CrashStep, SendStep, ServeStep DEF Next
  <2>3. QED
    BY <2>1, <2>2
<1>2. QED
  BY <1>1, SenderInit, PTL DEF Spec

\* The variables keep their types.
THEOREM SenderTypeCorrect == Spec => []TypeOK
BY SenderCorrect, PTL DEF SenderInv

\* An intent is taken by the provider at most once, however often send is called
\* under the contract, whatever is lost, late or crashed.
THEOREM IntentTakenOnce == Spec => []TakenOnce
<1>1. SenderInv => TakenOnce
  <2> SUFFICES ASSUME SenderInv, NEW i \in Intents PROVE taken[i] <= 1
    BY DEF TakenOnce
  <2>1. taken[i] \in Nat /\ flying[i] \in Nat /\ taken[i] + flying[i] <= 1
    BY DEF SenderInv, TypeOK, OneRequest
  <2>2. QED
    BY <2>1
<1>2. QED
  BY <1>1, SenderCorrect, PTL

\* After rejected or a ValueError nothing was taken and nothing can be any more.
THEOREM RejectionDefinite == Spec => []RejectionIsDefinite
<1>1. SenderInv => RejectionIsDefinite
  BY DEF SenderInv, OneRequest, RejectionIsDefinite
<1>2. QED
  BY <1>1, SenderCorrect, PTL

\* accepted is only ever said of mail the provider took.
THEOREM AcceptanceReal == Spec => []AcceptanceIsReal
<1>1. SenderInv => AcceptanceIsReal
  BY DEF SenderInv, OneRequest, AcceptanceIsReal
<1>2. QED
  BY <1>1, SenderCorrect, PTL

\* What send reports is true of the provider, for every intent and every answer.
THEOREM OutcomesTrue == Spec => []OutcomesAreTrue
<1>1. RejectionIsDefinite /\ AcceptanceIsReal => OutcomesAreTrue
  BY DEF OutcomesAreTrue
<1>2. QED
  BY <1>1, RejectionDefinite, AcceptanceReal, PTL
=============================================================================
