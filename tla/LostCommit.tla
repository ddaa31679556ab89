----------------------------- MODULE LostCommit -----------------------------
(***************************************************************************)
(* The subscription service with a database that may fail at the worst     *)
(* moment: request_search and request_recovery hand their mail over inside *)
(* the transaction, and the commit that follows may not succeed. What the  *)
(* transaction wrote is then rolled back, and the mail is gone.            *)
(***************************************************************************)
EXTENDS Subscriptions

CONSTANT MaxMails   \* bound: a commit is lost while the day's mails are fewer

ASSUME LossAssumption == MaxMails \in Nat

\* The recovery link of a mail: its version is that of the row, lost or not.
MailedLink(a) ==
    {[addr |-> a, id |-> subscribers[a].id, issued |-> clock,
      version |-> subscribers[a].recovery_version]}

\* The mail is in the outbox, the request's rows and counters are not saved. A
\* lost confirmation names a search that does not exist; a lost recovery link is
\* signed over the row as it was, and opens.
LoseCommit(w) ==
    LET c == calls[w]  a == c.addr IN
    /\ c.op \in {"request", "recover"}
    /\ mailed[a] < MaxMails
    /\ ~SourceSpent(c.source, c.now)
    /\ \/ /\ c.op = "request"
          /\ ~PendingFull
          /\ MayConfirm(a, c.now)
          /\ UNCHANGED links
       \/ /\ c.op = "recover"
          /\ MayRecover(a, c.now)
          /\ links' = links \cup MailedLink(a)
    /\ Mail(a, c.now)
    /\ Finish(w)
    /\ UNCHANGED <<clock, tables, forms, admitted>>

LossyNext == Next \/ \E w \in Workers : LoseCommit(w)

LossySpec == Init /\ [][LossyNext]_vars
=============================================================================
