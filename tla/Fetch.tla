-------------------------------- MODULE Fetch --------------------------------
(***************************************************************************)
(* fetch(): one GET of a shelter's page, with its retries. The state is    *)
(* what the loop remembers between attempts; urllib and the server at the  *)
(* other end are external: they answer with a status, break the            *)
(* connection, let an operation time out, or break the protocol. How long  *)
(* an attempt lasts is left out.                                           *)
(***************************************************************************)
EXTENDS Integers, SequencesExt

CONSTANTS
    Statuses,     \* the HTTP statuses the server may answer with
    MaxRetries    \* bound: retries a caller asks for

None == 0   \* no HTTP status

ASSUME FetchAssumption ==
    /\ Statuses \subseteq 200..599
    /\ MaxRetries \in Nat

VARIABLES
    at,           \* where the call is
    retries,      \* the caller's argument
    attempt,      \* of the loop
    lastStatus,   \* last_status
    result,       \* the status of the page returned
    outcomes      \* how each attempt so far ended

vars == <<at, retries, attempt, lastStatus, result, outcomes>>

Ended == {"returned", "raised", "escaped"}

Outcome == [kind : {"page", "http", "transport", "protocol"}, status : Statuses \cup {None}]

-----------------------------------------------------------------------------
Success(s) == s \in 200..299

\* Mutant: the loop breaks on every HTTP error.
PermanentAlways(s) == ~Success(s)

\* A 4xx will not change on a retry.
Permanent(s) == 400 <= s /\ s < 500

Exhausted == attempt >= retries

\* Mutant: a transport failure leaves the status of an earlier attempt behind.
TransportStatusKept == lastStatus

TransportStatus == None

Over(kind, s) == outcomes' = Append(outcomes, [kind |-> kind, status |-> s])

\* urlopen: the response of a success is open, and its body is to be read.
Answer ==
    /\ at = "asking"
    /\ \E s \in Statuses : Success(s) /\ result' = s
    /\ at' = "reading"
    /\ UNCHANGED <<retries, attempt, lastStatus, outcomes>>

\* response.read(): the whole body.
Return ==
    /\ at = "reading"
    /\ at' = "returned"
    /\ Over("page", result)
    /\ UNCHANGED <<retries, attempt, lastStatus, result>>

\* except HTTPError: the error is closed, whatever comes of it.
HttpError ==
    /\ at = "asking"
    /\ \E s \in Statuses :
        /\ ~Success(s)
        /\ lastStatus' = s
        /\ at' = IF Permanent(s) \/ Exhausted THEN "raised" ELSE "sleeping"
        /\ Over("http", s)
    /\ UNCHANGED <<retries, attempt, result>>

\* except URLError, TimeoutError, OSError: connecting or reading.
TransportError ==
    /\ at \in {"asking", "reading"}
    /\ lastStatus' = TransportStatus
    /\ at' = IF Exhausted THEN "raised" ELSE "sleeping"
    /\ result' = None
    /\ Over("transport", None)
    /\ UNCHANGED <<retries, attempt>>

\* An http.client.HTTPException, of a status line or a body cut short: it is no
\* OSError, and no clause of the loop is for it.
ProtocolError ==
    /\ at \in {"asking", "reading"}
    /\ at' = "escaped"
    /\ result' = None
    /\ Over("protocol", None)
    /\ UNCHANGED <<retries, attempt, lastStatus>>

\* time.sleep(RETRY_BACKOFF_S), and the next attempt.
Wake ==
    /\ at = "sleeping"
    /\ at' = "asking"
    /\ attempt' = attempt + 1
    /\ UNCHANGED <<retries, lastStatus, result, outcomes>>

-----------------------------------------------------------------------------
Init ==
    /\ at = "asking"
    /\ retries \in 0..MaxRetries
    /\ attempt = 0
    /\ lastStatus = None
    /\ result = None
    /\ outcomes = <<>>

Next == Answer \/ Return \/ HttpError \/ TransportError \/ ProtocolError \/ Wake

Spec == Init /\ [][Next]_vars

-----------------------------------------------------------------------------
(* Properties                                                              *)

TypeOK ==
    /\ at \in {"asking", "reading", "sleeping"} \cup Ended
    /\ retries \in 0..MaxRetries
    /\ attempt \in 0..retries
    /\ lastStatus \in Statuses \cup {None}
    /\ result \in Statuses \cup {None}
    /\ outcomes \in Seq(Outcome)

\* FetchError.status: "The HTTP response status when the failure was an HTTP
\* error (e.g. 404), else None for transport-level failures (timeout, DNS)."
\* The error tells of the last attempt, whatever the earlier ones met.
ErrorTellsLastAttempt ==
    at = "raised" => /\ Len(outcomes) > 0
                     /\ lastStatus = Last(outcomes).status
                     /\ Last(outcomes).kind \in {"http", "transport"}

Conclusive(o) == o.kind = "page" \/ (o.kind = "http" /\ o.status \in 400..499)

\* A page or a 4xx is the last the call asks for: a page is returned, a 4xx raised as
\* the FetchError. Nothing else is returned, and the call gives up with a FetchError on
\* other outcomes only when every retry is spent (a call that dies of an exception that
\* is no FetchError is the subject of OnlyFetchErrors).
EndsWithFirstConclusiveOutcome ==
    /\ \A k \in DOMAIN outcomes : Conclusive(outcomes[k]) =>
          /\ k = Len(outcomes)
          /\ at = IF outcomes[k].kind = "page" THEN "returned" ELSE "raised"
    /\ at = "returned" => Conclusive(Last(outcomes)) /\ Success(Last(outcomes).status)
    /\ at = "raised" => Conclusive(Last(outcomes)) \/ Len(outcomes) = retries + 1

\* fetch's docstring: "FetchError: If every attempt fails or a non-2xx status is
\* returned." No other exception reaches the caller of a fetch that failed.
OnlyFetchErrors == at # "escaped"
=============================================================================
