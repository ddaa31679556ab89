--------------------------- MODULE MCSubscriptions ---------------------------
(***************************************************************************)
(* Finite instances of Subscriptions for TLC.  Ids, addresses, sources,    *)
(* workers and criteria are interchangeable: no definition chooses one of  *)
(* them.                                                                   *)
(***************************************************************************)
EXTENDS Subscriptions, TLC

CONSTANT Spare   \* ids InitActive leaves unborn

Interchangeable ==
    Permutations(SearchIds) \cup Permutations(Addresses)
        \cup Permutations(Sources) \cup Permutations(Workers)
        \cup Permutations(Names) \cup Permutations(Profiles)

\* A later start, to look further: all ids but Spare were requested and activated
\* at instant 0.  The state is reachable from Init when the limits admit it.
InitActive ==
    \E started \in SUBSET SearchIds : \E owner \in [started -> Addresses], n \in Names, p \in Profiles :
        LET mine(a) == {s \in started : owner[s] = a} IN
        /\ Cardinality(SearchIds \ started) = Spare
        /\ clock = 0
        /\ searches = [s \in SearchIds |->
                         IF s \in started
                         THEN ActivatedRow(PendingSearch(owner[s], n, p, 0), 0)
                         ELSE NoSearch("unborn")]
        /\ subscribers = [a \in Addresses |->
                            IF mine(a) = {} THEN NoSubscriber(0)
                            ELSE [NewSubscriber(1) EXCEPT
                                    !.email_day = 0,
                                    !.email_count = Cardinality(mine(a))]]
        /\ sources = [k \in Sources |-> [day |-> 0, count |-> Cardinality(started)]]
        /\ reminders = {}
        /\ links = {}
        /\ forms = {}
        /\ calls = [w \in Workers |-> Idle]
        /\ mailed = [a \in Addresses |-> Cardinality(mine(a))]
        /\ admitted = [k \in Sources |-> Cardinality(started)]
        /\ AddressLimit /\ SubscriberLimit /\ EmailLimit /\ SourceLimit

SpecActive == InitActive /\ [][Next]_vars
=============================================================================
