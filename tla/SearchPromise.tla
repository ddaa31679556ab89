---------------------------- MODULE SearchPromise ----------------------------
(***************************************************************************)
(* What the service promises to whoever asks for a search, with no tables, *)
(* credentials, forms or limits in sight.  A search is asked for,          *)
(* confirmed, changed, renewed and ended one at a time; only silencing an  *)
(* address ends several at once, and those are its own.  An ended search   *)
(* keeps no criteria.  Housekeeping forgets exactly what is over.          *)
(*                                                                         *)
(* A deadline is judged by an instant of the request's own, at most        *)
(* Patience old when the request takes effect.                             *)
(***************************************************************************)
EXTENDS Integers

CONSTANTS
    Searches, Addresses, Criteria,
    Nobody,      \* the owner of a search that is not there
    Nothing,     \* the criteria of a search that is not there, or ended
    Never,       \* a date that is not set
    ConfirmTerm, Term, Grace, Patience

VARIABLES
    now,         \* the instant
    life,        \* each search
    silent       \* the addresses nothing is ever done for again

vars == <<now, life, silent>>

Blank(phase) ==
    [phase |-> phase, owner |-> Nobody, criteria |-> Nothing, asked |-> Never, ends |-> Never]

Instants == {t \in 0..now : now - t <= Patience}

There(s) == life[s].phase \in {"pending", "active", "cancelled"}

Heard(s) == life[s].owner \notin silent

\* Whose a search is, and since when, never changes.
Turned(l, phase, criteria, ends) ==
    [phase |-> phase, owner |-> l.owner, criteria |-> criteria, asked |-> l.asked, ends |-> ends]

Cancelled(l) == Turned(l, "cancelled", Nothing, l.ends)

Over(l) ==
    \/ l.phase = "cancelled"
    \/ l.phase = "pending" /\ l.asked + ConfirmTerm <= now
    \/ l.phase = "active" /\ l.ends + Grace <= now

-----------------------------------------------------------------------------
Init ==
    /\ now = 0
    /\ life = [s \in Searches |-> Blank("unborn")]
    /\ silent = {}

Becomes(s, l) == life' = [life EXCEPT ![s] = l]

Ask(s) ==
    /\ life[s].phase = "unborn"
    /\ \E a \in Addresses \ silent, c \in Criteria, t \in Instants :
          Becomes(s, [phase |-> "pending", owner |-> a, criteria |-> c,
                      asked |-> t, ends |-> Never])

Confirm(s) ==
    /\ life[s].phase = "pending" /\ Heard(s)
    /\ \E t \in Instants :
          /\ t < life[s].asked + ConfirmTerm
          /\ Becomes(s, Turned(life[s], "active", life[s].criteria, t + Term))

Change(s) ==
    /\ life[s].phase = "active" /\ Heard(s)
    /\ \E t \in Instants, c \in Criteria :
          /\ t < life[s].ends
          /\ Becomes(s, Turned(life[s], "active", c, life[s].ends))

\* A renewal runs a term from the request, and never shortens the one that runs.
Renew(s) ==
    /\ life[s].phase = "active" /\ Heard(s)
    /\ \E t \in Instants :
          /\ t < life[s].ends + Grace
          /\ \E e \in {t + Term, life[s].ends} :
                /\ e >= t + Term /\ e >= life[s].ends
                /\ Becomes(s, Turned(life[s], "active", life[s].criteria, e))

End(s) == There(s) /\ Becomes(s, Cancelled(life[s]))

One == \E s \in Searches : Ask(s) \/ Confirm(s) \/ Change(s) \/ Renew(s) \/ End(s)

Silence(a) ==
    /\ silent' = silent \cup {a}
    /\ life' = [s \in Searches |->
                  IF There(s) /\ life[s].owner = a THEN Cancelled(life[s]) ELSE life[s]]

Forget == life' = [s \in Searches |-> IF Over(life[s]) THEN Blank("purged") ELSE life[s]]

Next ==
    \/ UNCHANGED <<now, silent>> /\ (One \/ Forget)
    \/ UNCHANGED now /\ \E a \in Addresses : Silence(a)
    \/ now' = now + 1 /\ UNCHANGED <<life, silent>>

Spec == Init /\ [][Next]_vars
=============================================================================
