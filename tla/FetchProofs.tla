----------------------------- MODULE FetchProofs -----------------------------
(***************************************************************************)
(* What fetch() tells its caller, for every number of retries, every set   *)
(* of statuses.                                                            *)
(***************************************************************************)
EXTENDS Fetch, TLAPS

\* One outcome for each attempt that is over.
Counted == Len(outcomes) = IF at \in Ended \cup {"sleeping"} THEN attempt + 1 ELSE attempt

\* Another attempt is owed while the call sleeps.
Owed == at = "sleeping" => attempt < retries

\* What the call remembers is what its last attempt met.
Told ==
    /\ at = "reading" => Success(result)
    /\ at \in {"raised", "sleeping"} =>
        /\ lastStatus = outcomes[Len(outcomes)].status
        /\ outcomes[Len(outcomes)].kind \in {"http", "transport"}
    /\ at = "returned" => /\ outcomes[Len(outcomes)].kind = "page"
                          /\ Success(outcomes[Len(outcomes)].status)
    /\ at = "raised" => Conclusive(outcomes[Len(outcomes)]) \/ attempt = retries

OnlyLastConclusive ==
    \A k \in DOMAIN outcomes : Conclusive(outcomes[k]) =>
        /\ k = Len(outcomes)
        /\ at = IF outcomes[k].kind = "page" THEN "returned" ELSE "raised"

FetchInv == TypeOK /\ Counted /\ Owed /\ Told /\ OnlyLastConclusive

USE FetchAssumption

LEMMA InitFetchInv == Init => FetchInv
BY DEF Init, FetchInv, TypeOK, Counted, Owed, Told, OnlyLastConclusive, Ended, None

\* An attempt that is over adds its outcome, and the ones before it stay.
LEMMA OverAppends ==
    ASSUME NEW kind \in {"page", "http", "transport", "protocol"}, NEW s \in Statuses \cup {None},
           outcomes \in Seq(Outcome), Over(kind, s)
    PROVE  /\ outcomes' \in Seq(Outcome)
           /\ Len(outcomes') = Len(outcomes) + 1
           /\ outcomes'[Len(outcomes')] = [kind |-> kind, status |-> s]
           /\ \A k \in DOMAIN outcomes : k \in DOMAIN outcomes' /\ outcomes'[k] = outcomes[k]
           /\ \A k \in DOMAIN outcomes' : k \in DOMAIN outcomes \/ k = Len(outcomes')
BY DEF Over, Outcome

\* The invariant survives the end of an attempt: a conclusive outcome ends the call in
\* its own way, a protocol error ends it in another, and the rest are the last one or
\* owe an attempt.
LEMMA EndedAttempt ==
    ASSUME FetchInv, at \in {"asking", "reading"},
           NEW kind \in {"page", "http", "transport", "protocol"}, NEW s \in Statuses \cup {None},
           Over(kind, s), retries' = retries, attempt' = attempt,
           result' \in Statuses \cup {None}, lastStatus' \in Statuses \cup {None},
           at' \in Ended \cup {"sleeping"},
           kind \in {"http", "transport"} =>
               /\ lastStatus' = s
               /\ at' = IF Conclusive([kind |-> kind, status |-> s]) \/ attempt >= retries
                        THEN "raised" ELSE "sleeping",
           kind = "page" => at' = "returned" /\ Success(s),
           kind = "protocol" => at' = "escaped"
    PROVE  FetchInv'
<1> DEFINE o == [kind |-> kind, status |-> s]
<1>1. outcomes \in Seq(Outcome) /\ Len(outcomes) = attempt /\ attempt \in 0..retries /\ retries \in Nat
    BY DEF FetchInv, TypeOK, Counted, Ended
<1>2. /\ outcomes' \in Seq(Outcome)
      /\ Len(outcomes') = attempt + 1
      /\ outcomes'[attempt + 1] = o
      /\ \A k \in DOMAIN outcomes : k \in DOMAIN outcomes' /\ outcomes'[k] = outcomes[k]
      /\ \A k \in DOMAIN outcomes' : k \in DOMAIN outcomes \/ k = attempt + 1
    BY <1>1, OverAppends
<1>3. TypeOK'
    BY <1>1, <1>2 DEF FetchInv, TypeOK, Ended
<1>4. Counted'
    BY <1>2 DEF Counted
<1>5. Owed'
    BY <1>1 DEF Owed, Ended
<1>6. Conclusive(o) => at' = IF o.kind = "page" THEN "returned" ELSE "raised"
    <2>1. o.kind = kind /\ o.status = s
        OBVIOUS
    <2>2. CASE kind = "page"
        BY <2>1, <2>2
    <2>3. CASE kind = "http"
        BY <2>1, <2>3
    <2>4. CASE kind \in {"transport", "protocol"}
        <3> HIDE DEF o
        <3> QED BY <2>1, <2>4 DEF Conclusive
    <2> QED BY <2>2, <2>3, <2>4
<1>7. at' \in {"raised", "sleeping"} => kind \in {"http", "transport"}
    OBVIOUS
<1>8. Told'
    <2>1. outcomes'[Len(outcomes')] = o /\ o.kind = kind /\ o.status = s
        BY <1>2
    <2>2. at' = "returned" => kind = "page" /\ Success(s)
        BY <1>7
    <2>3. at' # "reading"
        BY DEF Ended
    <2>4. at' = "raised" => Conclusive(o) \/ attempt' = retries'
        BY <1>1, <1>7
    <2>5. Conclusive(o) = Conclusive(outcomes[Len(outcomes)])'
        BY <2>1 DEF Conclusive
    <2>6. Success(s) = Success(outcomes[Len(outcomes)].status)'
        BY <2>1 DEF Success
    <2> HIDE DEF o
    <2> QED BY <1>7, <2>1, <2>2, <2>3, <2>4, <2>5, <2>6 DEF Told
<1>9. OnlyLastConclusive'
    <2> SUFFICES ASSUME NEW k \in DOMAIN outcomes', Conclusive(outcomes'[k])
                 PROVE  /\ k = Len(outcomes')
                        /\ at' = IF outcomes'[k].kind = "page" THEN "returned" ELSE "raised"
        BY DEF OnlyLastConclusive, Conclusive
    <2>1. CASE k \in DOMAIN outcomes
        BY <1>2, <2>1 DEF FetchInv, OnlyLastConclusive
    <2>2. CASE k = attempt + 1
        BY <1>2, <1>6, <2>2
    <2> QED BY <1>2, <2>1, <2>2
<1> QED BY <1>3, <1>4, <1>5, <1>8, <1>9 DEF FetchInv

LEMMA StepFetchInv == FetchInv /\ [Next]_vars => FetchInv'
<1> SUFFICES ASSUME FetchInv, [Next]_vars PROVE FetchInv'
    OBVIOUS
<1> USE DEF FetchInv, TypeOK, Counted, Owed, Told, OnlyLastConclusive, Ended, None
<1>1. CASE Answer
    BY <1>1 DEF Answer
<1>2. CASE Return
    <2>1. /\ result \in Statuses \cup {None}
          /\ Over("page", result)
          /\ at = "reading" /\ at' = "returned" /\ Success(result)
          /\ UNCHANGED <<retries, attempt, lastStatus, result>>
        BY <1>2 DEF Return
    <2> QED BY <2>1, EndedAttempt
<1>3. CASE HttpError
    <2>1. PICK s \in Statuses :
            /\ ~Success(s)
            /\ lastStatus' = s
            /\ at' = IF Permanent(s) \/ Exhausted THEN "raised" ELSE "sleeping"
            /\ Over("http", s)
        BY <1>3 DEF HttpError
    <2>2. s \in Int
        OBVIOUS
    <2>3. at = "asking" /\ UNCHANGED <<retries, attempt, result>>
        BY <1>3 DEF HttpError
    <2>4. Permanent(s) <=> Conclusive([kind |-> "http", status |-> s])
        <3> DEFINE o == [kind |-> "http", status |-> s]
        <3>1. o.kind = "http" /\ o.status = s
            OBVIOUS
        <3>2. Conclusive(o) <=> s \in 400..499
            <4> HIDE DEF o
            <4> QED BY <3>1 DEF Conclusive
        <3>3. Permanent(s) <=> s \in 400..499
            BY <2>2 DEF Permanent
        <3> QED BY <3>2, <3>3
    <2>5. at' = IF Conclusive([kind |-> "http", status |-> s]) \/ attempt >= retries
               THEN "raised" ELSE "sleeping"
        BY <2>1, <2>4 DEF Exhausted
    <2> HIDE DEF FetchInv, TypeOK, Counted, Owed, Told, OnlyLastConclusive
    <2>6. FetchInv /\ result \in Statuses \cup {None}
        BY DEF FetchInv, TypeOK
    <2> QED BY <2>1, <2>3, <2>5, <2>6, EndedAttempt
<1>4. CASE TransportError
    <2>1. /\ Over("transport", None)
          /\ at \in {"asking", "reading"}
          /\ at' = IF Exhausted THEN "raised" ELSE "sleeping"
          /\ lastStatus' = None /\ result' = None
          /\ UNCHANGED <<retries, attempt>>
        BY <1>4 DEF TransportError, TransportStatus
    <2>2. ~Conclusive([kind |-> "transport", status |-> None])
        BY DEF Conclusive
    <2> QED BY <2>1, <2>2, EndedAttempt DEF Exhausted
<1>5. CASE ProtocolError
    <2>1. /\ Over("protocol", None)
          /\ at \in {"asking", "reading"} /\ at' = "escaped"
          /\ result' = None
          /\ UNCHANGED <<retries, attempt, lastStatus>>
        BY <1>5 DEF ProtocolError
    <2> QED BY <2>1, EndedAttempt
<1>6. CASE Wake
    BY <1>6 DEF Wake
<1>7. CASE UNCHANGED vars
    BY <1>7 DEF vars
<1> QED BY <1>1, <1>2, <1>3, <1>4, <1>5, <1>6, <1>7 DEF Next

LEMMA FetchInvariant == Spec => []FetchInv
BY InitFetchInv, StepFetchInv, PTL DEF Spec

\* fetch() keeps its counters in their types: it never asks more often than
\* its caller's retries allow.
THEOREM FetchTypeCorrect == Spec => []TypeOK
<1>1. FetchInv => TypeOK
    BY DEF FetchInv
<1> QED BY <1>1, FetchInvariant, PTL

\* The error of fetch() tells of its last attempt: a status left behind by an
\* earlier one never reaches the caller.
THEOREM ErrorTells == Spec => []ErrorTellsLastAttempt
<1>1. FetchInv => ErrorTellsLastAttempt
    BY DEF FetchInv, TypeOK, Counted, Told, ErrorTellsLastAttempt, Last, Ended
<1> QED BY <1>1, FetchInvariant, PTL

\* fetch() ends with its first conclusive outcome: it returns a page, raises a 4xx, and
\* gives up with an error of its own on the rest only when every retry is spent.
THEOREM FirstConclusiveEnds == Spec => []EndsWithFirstConclusiveOutcome
<1>1. FetchInv => EndsWithFirstConclusiveOutcome
    <2> SUFFICES ASSUME FetchInv PROVE EndsWithFirstConclusiveOutcome
        OBVIOUS
    <2>1. at \in Ended => Len(outcomes) = attempt + 1 /\ Last(outcomes) = outcomes[Len(outcomes)]
        BY DEF FetchInv, Counted, Last
    <2>2. at = "returned" => Conclusive(Last(outcomes)) /\ Success(Last(outcomes).status)
        BY <2>1 DEF FetchInv, Told, Ended, Conclusive
    <2>3. at = "raised" => Conclusive(Last(outcomes)) \/ Len(outcomes) = retries + 1
        BY <2>1 DEF FetchInv, Told, Ended
    <2> QED BY <2>2, <2>3 DEF FetchInv, OnlyLastConclusive, EndsWithFirstConclusiveOutcome
<1> QED BY <1>1, FetchInvariant, PTL
=============================================================================
