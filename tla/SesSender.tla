------------------------------ MODULE SesSender ------------------------------
(***************************************************************************)
(* The SES transport boundary, delivery/ses.py: SesSender.send validates a *)
(* letter, makes one HTTP attempt and classifies what came back.           *)
(*                                                                         *)
(* Two parties are external.  The provider answers a request or not, and   *)
(* may take the mail whatever the client sees; only two things are known   *)
(* of it, and they are what the source relies on: a documented rejection   *)
(* means the mail was not taken, a well-formed success means it was.  The  *)
(* caller keeps the contract of the class: it records an attempt before it *)
(* calls, tries again only after a rejection or a ValueError, and after a  *)
(* crash finds an attempt without an outcome, which it leaves alone.       *)
(***************************************************************************)
EXTENDS Naturals

CONSTANTS
    Intents,             \* send intents, one letter each
    MAX_MESSAGE_BYTES,
    MaxAttempts          \* bound: calls of send per intent

ASSUME SenderAssumption ==
    /\ MAX_MESSAGE_BYTES \in Nat
    /\ MaxAttempts \in Nat

VARIABLES
    letters,    \* what the caller wants sent
    calls,      \* a running call of send: how far it is, and the SDK's attempts
    answers,    \* what the connection of a running call delivered
    flying,     \* requests on their way to the provider
    outcome,    \* what the caller knows of its last attempt
    attempts,   \* calls of send made
    taken       \* history: mails the provider took

vars == <<letters, calls, answers, flying, outcome, attempts, taken>>

-----------------------------------------------------------------------------
(* Letters and answers                                                     *)

\* bcc counts as cc; "blank" is one recipient with an empty address.
Letter ==
    [intent : {"uuid", "other"}, to : {"none", "one", "blank", "many"},
     cc : BOOLEAN, sender : BOOLEAN, safe : BOOLEAN, bytes : 0..(MAX_MESSAGE_BYTES + 1)]

Valid(l) ==
    /\ l.intent = "uuid" /\ l.to = "one" /\ ~l.cc /\ l.sender
    /\ l.safe
    /\ l.bytes <= MAX_MESSAGE_BYTES

REJECTIONS ==
    [AccountSuspendedException |-> 400, BadRequestException |-> 400,
     LimitExceededException |-> 400, MailFromDomainNotVerifiedException |-> 400,
     MessageRejected |-> 400, NotFoundException |-> 404,
     SendingPausedException |-> 400, TooManyRequestsException |-> 429]

NoAnswer == [kind |-> "none"]

Successes == [kind : {"success"}, status : {200, 202}, id : {"well-formed", "malformed", "missing"}]

Errors == [kind : {"error"}, code : DOMAIN REJECTIONS \cup {"InternalFailure"}, status : {400, 404, 429, 500}]

\* A response the SDK could not read raises like a broken connection does.
Broken == [kind |-> "broken"]

Answers == Successes \cup Errors \cup {Broken}

\* Mutant: a known code is believed with any status.
RejectedByCode(a) == a.kind = "error" /\ a.code \in DOMAIN REJECTIONS

Rejected(a) ==
    a.kind = "error" /\ a.code \in DOMAIN REJECTIONS /\ a.status = REJECTIONS[a.code]

Accepted(a) == a.kind = "success" /\ a.status = 200 /\ a.id = "well-formed"

Outcome(a) ==
    IF Accepted(a) THEN "accepted" ELSE IF Rejected(a) THEN "rejected" ELSE "acceptance_unknown"

-----------------------------------------------------------------------------
(* The caller                                                              *)

Idle == [at |-> "idle", tries |-> 0]

Retryable(i) == outcome[i] \in {"none", "rejected", "invalid"}

Call(i) ==
    /\ calls[i].at = "idle"
    /\ Retryable(i)
    /\ attempts[i] < MaxAttempts
    /\ attempts' = [attempts EXCEPT ![i] = @ + 1]
    /\ outcome' = [outcome EXCEPT ![i] = "open"]
    /\ calls' = [calls EXCEPT ![i] = [at |-> "called", tries |-> 0]]
    /\ answers' = [answers EXCEPT ![i] = NoAnswer]
    /\ UNCHANGED <<letters, flying, taken>>

Returns(i, result) ==
    /\ calls' = [calls EXCEPT ![i] = Idle]
    /\ outcome' = [outcome EXCEPT ![i] = result]
    /\ UNCHANGED <<letters, answers, flying, attempts, taken>>

\* The caller's process dies during the call; a request may be on its way.
Crash(i) ==
    /\ calls[i].at # "idle"
    /\ calls' = [calls EXCEPT ![i] = Idle]
    /\ UNCHANGED <<letters, answers, flying, outcome, attempts, taken>>

-----------------------------------------------------------------------------
(* send                                                                    *)

\* ValueError, before anything is sent.
Refuse(i) ==
    /\ calls[i].at = "called"
    /\ ~Valid(letters[i])
    /\ Returns(i, "invalid")

\* Mutant: the SDK's ambient retry settings apply.
TotalAttemptsAmbient == 2

TotalAttempts == 1

Transmit(i) ==
    /\ calls[i].at = "called"
    /\ Valid(letters[i])
    /\ calls' = [calls EXCEPT ![i] = [at |-> "waiting", tries |-> @.tries + 1]]
    /\ flying' = [flying EXCEPT ![i] = @ + 1]
    /\ UNCHANGED <<letters, answers, outcome, attempts, taken>>

\* Mutant: no connect and read timeouts are set.
FailedWhenBroken(i) == answers[i] = Broken

\* Connect or read timeout, a broken connection, an unreadable response.
Failed(i) == answers[i] = NoAnswer \/ answers[i] = Broken

\* The SDK tries again while it may, then raises BotoCoreError.
Fail(i) ==
    /\ calls[i].at = "waiting"
    /\ Failed(i)
    /\ IF calls[i].tries < TotalAttempts
       THEN /\ calls' = [calls EXCEPT ![i] = [at |-> "called", tries |-> @.tries]]
            /\ answers' = [answers EXCEPT ![i] = NoAnswer]
            /\ UNCHANGED <<letters, flying, outcome, attempts, taken>>
       ELSE Returns(i, "acceptance_unknown")

Classify(i) ==
    /\ calls[i].at = "waiting"
    /\ answers[i] \notin {NoAnswer, Broken}
    /\ Returns(i, Outcome(answers[i]))

-----------------------------------------------------------------------------
(* The provider                                                            *)

Success == [kind |-> "success", status |-> 200, id |-> "well-formed"]

Rejections == {a \in Errors : a.code \in DOMAIN REJECTIONS /\ a.status = REJECTIONS[a.code]}

\* A request reaches the provider, now or long after the client gave up; the
\* answer comes back only to a call that is still waiting, if at all.
Serve(i) ==
    \E a \in Answers, took \in BOOLEAN, arrives \in BOOLEAN :
        /\ flying[i] > 0
        /\ a = Success => took
        /\ a \in Rejections => ~took
        /\ flying' = [flying EXCEPT ![i] = @ - 1]
        /\ taken' = IF took THEN [taken EXCEPT ![i] = @ + 1] ELSE taken
        /\ answers' = IF arrives /\ calls[i].at = "waiting" /\ answers[i] = NoAnswer
                      THEN [answers EXCEPT ![i] = a] ELSE answers
        /\ UNCHANGED <<letters, calls, outcome, attempts>>

-----------------------------------------------------------------------------
Init ==
    /\ letters \in [Intents -> Letter]
    /\ calls = [i \in Intents |-> Idle]
    /\ answers = [i \in Intents |-> NoAnswer]
    /\ flying = [i \in Intents |-> 0]
    /\ outcome = [i \in Intents |-> "none"]
    /\ attempts = [i \in Intents |-> 0]
    /\ taken = [i \in Intents |-> 0]

Send(i) == Refuse(i) \/ Transmit(i) \/ Fail(i) \/ Classify(i)

Next == \E i \in Intents : Call(i) \/ Crash(i) \/ Send(i) \/ Serve(i)

Spec == Init /\ [][Next]_vars

\* A running call is scheduled, and its timeouts expire.  The provider owes nothing.
FairSpec == Spec /\ \A i \in Intents : WF_vars(Send(i))

-----------------------------------------------------------------------------
(* Properties                                                              *)

TypeOK ==
    /\ letters \in [Intents -> Letter]
    /\ calls \in [Intents -> [at : {"idle", "called", "waiting"}, tries : Nat]]
    /\ answers \in [Intents -> Answers \cup {NoAnswer}]
    /\ flying \in [Intents -> Nat]
    /\ outcome \in [Intents -> {"none", "open", "invalid", "accepted", "rejected", "acceptance_unknown"}]
    /\ attempts \in [Intents -> 0..MaxAttempts]
    /\ taken \in [Intents -> Nat]

\* rejected and ValueError permit another attempt, so the provider must not have
\* taken the mail, nor be able to: no request of the call is still on its way.
RejectionIsDefinite ==
    \A i \in Intents : outcome[i] \in {"rejected", "invalid"} => taken[i] = 0 /\ flying[i] = 0

\* accepted is reported only of mail the provider took.
AcceptanceIsReal == \A i \in Intents : outcome[i] = "accepted" => taken[i] = 1

\* What send reports is true of the provider: a definite no, and a real yes.
OutcomesAreTrue == RejectionIsDefinite /\ AcceptanceIsReal

\* One intent is taken at most once, through rejections, lost and late answers,
\* and crashes of the caller.
TakenOnce == \A i \in Intents : taken[i] <= 1

\* send returns, whether or not the provider ever answers.
SendReturns == \A i \in Intents : calls[i].at # "idle" ~> calls[i].at = "idle"
=============================================================================
