--------------------------- MODULE ReminderPromise ---------------------------
(***************************************************************************)
(* What the reminder feature promises, with no queue in sight: a reminder  *)
(* is planned at most once, settled at most once (previewed or obsolete)   *)
(* and erased at most once; a copy of its mail is made only while it is    *)
(* unsettled, and every copy but the last one was made by an attempt whose *)
(* commit was lost.                                                        *)
(***************************************************************************)
EXTENDS Naturals

CONSTANT Reminders   \* a search and one of its expiries

VARIABLES
    standing,   \* how far each reminder has come
    copies,     \* mails captured for it
    lost        \* captures of it whose commit was lost

Standings == {"none", "pending", "previewed", "obsolete", "gone"}

Init ==
    /\ standing = [r \in Reminders |-> "none"]
    /\ copies = [r \in Reminders |-> 0]
    /\ lost = [r \in Reminders |-> 0]

Plan ==
    \E batch \in SUBSET {r \in Reminders : standing[r] = "none"} :
        /\ standing' = [r \in Reminders |-> IF r \in batch THEN "pending" ELSE standing[r]]
        /\ UNCHANGED <<copies, lost>>

Preview(r) ==
    /\ standing[r] = "pending"
    /\ standing' = [standing EXCEPT ![r] = "previewed"]
    /\ copies' = [copies EXCEPT ![r] = @ + 1]
    /\ UNCHANGED lost

Retire ==
    \E batch \in SUBSET {r \in Reminders : standing[r] = "pending"} :
        /\ standing' = [r \in Reminders |-> IF r \in batch THEN "obsolete" ELSE standing[r]]
        /\ UNCHANGED <<copies, lost>>

LoseCopy(r) ==
    /\ standing[r] = "pending"
    /\ copies' = [copies EXCEPT ![r] = @ + 1]
    /\ lost' = [lost EXCEPT ![r] = @ + 1]
    /\ UNCHANGED standing

Erase ==
    \E rows \in SUBSET Reminders :
        /\ standing' = [r \in Reminders |-> IF r \in rows THEN "gone" ELSE standing[r]]
        /\ UNCHANGED <<copies, lost>>

Next ==
    \/ Plan
    \/ Retire
    \/ Erase
    \/ \E r \in Reminders : Preview(r) \/ LoseCopy(r)

Spec == Init /\ [][Next]_<<standing, copies, lost>>
=============================================================================
