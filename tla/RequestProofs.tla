---------------------------- MODULE RequestProofs ----------------------------
(***************************************************************************)
(* What a request that was read before the lock can still do to the rows   *)
(* of Subscriptions after it.                                              *)
(*                                                                         *)
(* Limits. A request judges time by the clock its view read before it      *)
(* waited for the lock. The theorems name the commits through which that   *)
(* clock can exceed a limit, one kind for each: a renewal of a search that *)
(* lapsed in the wait, an owner whose last active search expired in it, a  *)
(* counter that a request of a later day was first to write. Without them  *)
(* every limit holds however long requests wait; the runs StaleRenewal and *)
(* StaleMailDay show what two of them do, and NoneStale and NoneOvertaken  *)
(* that requests which do not wait are free of all of them. The bound on   *)
(* pending searches asks for nothing.                                      *)
(*                                                                         *)
(* Credentials. Edit pages are compared with the row they replace; links   *)
(* are followed in LostCommit, where a mail may leave although the         *)
(* transaction that sent it is rolled back.                                *)
(***************************************************************************)
EXTENDS SubscriptionsProofs, LostCommit

-----------------------------------------------------------------------------
(* Commits that judge by a clock that is no longer true                    *)

\* A renewal extends, without admission, a search that lapsed while it waited.
StaleRenewal(w) ==
    LET c == calls[w]  s == c.search IN
    /\ Renew(w)
    /\ searches' # searches
    /\ ~Lapsed(s, c.now)
    /\ Lapsed(s, clock)

\* A search becomes active for an owner taken for a subscriber, whose last active
\* search expired in the wait.
StaleSlot(w) ==
    LET c == calls[w]  o == searches[c.search].owner IN
    /\ Activate(w) \/ Renew(w)
    /\ searches' # searches
    /\ ActiveOf(o, c.now) # {}
    /\ ActiveOf(o, clock) = {}

\* A request finds the address's counter written by one of a later day.
OvertakenMail(w) ==
    LET c == calls[w] IN
    /\ RequestSearch(w) \/ RequestRecovery(w)
    /\ subscribers[c.addr].email_day > Day(c.now)

\* The same of its source's counter.
OvertakenSource(w) ==
    LET c == calls[w] IN
    /\ RequestSearch(w) \/ RequestRecovery(w)
    /\ sources[c.source].day > Day(c.now)

NoStaleRenewal == [][\A w \in Workers : ~StaleRenewal(w)]_vars
NoStaleSlot == [][\A w \in Workers : ~StaleSlot(w)]_vars
NoOvertakenMail == [][\A w \in Workers : ~OvertakenMail(w)]_vars
NoOvertakenSource == [][\A w \in Workers : ~OvertakenSource(w)]_vars

ClockInv == TypeOK /\ Recent

LEMMA InitClock == Init => ClockInv
BY InitType DEF Init, ClockInv, Recent

LEMMA NextClock == ClockInv /\ [Next]_vars => ClockInv'
BY NextType, NextRecent DEF ClockInv

\* A transaction judges by an instant that is not ahead of the clock.
LEMMA CommitClock ==
    ASSUME ClockInv, NEW w \in Workers, Commit(w)
    PROVE  calls[w].now \in Nat /\ clock \in Nat /\ calls[w].now <= clock
BY CommitFinishes, CommitCall DEF ClockInv, Recent, Idle, TypeOK

\* Where requests do not lag it is the clock.
LEMMA PromptCommit ==
    ASSUME ClockInv, MaxLag = 0, NEW w \in Workers, Commit(w)
    PROVE  calls[w].now = clock
<1>1. calls[w].now \in Nat /\ clock \in Nat /\ calls[w].now <= clock
  BY CommitClock
<1>2. clock <= calls[w].now + MaxLag
  BY CommitFinishes DEF ClockInv, Recent, Idle
<1>3. QED
  BY <1>1, <1>2

LEMMA NothingStale ==
    ASSUME ClockInv, MaxLag = 0, NEW w \in Workers
    PROVE  ~StaleRenewal(w) /\ ~StaleSlot(w)
BY PromptCommit DEF StaleRenewal, StaleSlot, Commit

-----------------------------------------------------------------------------
(* Counting                                                                *)

LEMMA AddOne ==
    ASSUME NEW S, NEW x, IsFiniteSet(S)
    PROVE  /\ IsFiniteSet(S \cup {x})
           /\ Cardinality(S \cup {x}) \in Nat
           /\ Cardinality(S \cup {x}) <= Cardinality(S) + 1
<1>1. /\ IsFiniteSet(S \cup {x})
      /\ Cardinality(S \cup {x}) = IF x \in S THEN Cardinality(S) ELSE Cardinality(S) + 1
  BY FS_AddElement
<1>2. Cardinality(S) \in Nat /\ Cardinality(S \cup {x}) \in Nat
  BY <1>1, FS_CardinalityType
<1>3. QED
  BY <1>1, <1>2

\* What is inside S, or inside S and one more, is counted like it.
LEMMA CountWithin ==
    ASSUME NEW S, NEW T, NEW x, IsFiniteSet(S), T \subseteq S \cup {x}
    PROVE  /\ Cardinality(T) \in Nat /\ Cardinality(S) \in Nat
           /\ Cardinality(T) <= Cardinality(S) + 1
           /\ T \subseteq S => Cardinality(T) <= Cardinality(S)
<1>1. /\ IsFiniteSet(S \cup {x})
      /\ Cardinality(S \cup {x}) \in Nat
      /\ Cardinality(S \cup {x}) <= Cardinality(S) + 1
  BY AddOne
<1>2. IsFiniteSet(T) /\ Cardinality(T) <= Cardinality(S \cup {x})
  BY <1>1, FS_Subset
<1>3. T \subseteq S => Cardinality(T) <= Cardinality(S)
  BY FS_Subset
<1>4. Cardinality(T) \in Nat /\ Cardinality(S) \in Nat
  BY <1>2, FS_CardinalityType
<1>5. QED
  BY <1>1, <1>2, <1>3, <1>4

LEMMA ActiveSetsFinite ==
    ASSUME NEW a, NEW t
    PROVE  IsFiniteSet(ActiveOf(a, t)) /\ IsFiniteSet(ActiveOwners(t))
<1>1. ActiveOf(a, t) \subseteq SearchIds /\ ActiveOwners(t) \subseteq Addresses
  BY DEF ActiveOf, ActiveOwners
<1>2. QED
  BY <1>1, SetAssumption, FS_Subset

\* A step after which no search is active that was not active for the same owner.
LEMMA NothingGained ==
    ASSUME \A s \in SearchIds : ActiveAt(s, clock)' =>
              ActiveAt(s, clock) /\ searches'[s].owner = searches[s].owner
    PROVE  /\ AddressLimit => AddressLimit'
           /\ SubscriberLimit => SubscriberLimit'
<1>1. \A a \in Addresses : ActiveOf(a, clock)' \subseteq ActiveOf(a, clock)
  BY DEF ActiveOf
<1>2. ActiveOwners(clock)' \subseteq ActiveOwners(clock)
  BY <1>1 DEF ActiveOwners
<1>3. ASSUME NEW a \in Addresses
      PROVE  Cardinality(ActiveOf(a, clock)') <= Cardinality(ActiveOf(a, clock))
             /\ Cardinality(ActiveOf(a, clock)') \in Nat
             /\ Cardinality(ActiveOf(a, clock)) \in Nat
  BY <1>1, ActiveSetsFinite, CountWithin
<1>4. /\ Cardinality(ActiveOwners(clock)') <= Cardinality(ActiveOwners(clock))
      /\ Cardinality(ActiveOwners(clock)') \in Nat
      /\ Cardinality(ActiveOwners(clock)) \in Nat
  BY <1>2, ActiveSetsFinite, CountWithin
<1>5. QED
  BY <1>3, <1>4, LimitAssumption DEF AddressLimit, SubscriberLimit

\* A step that makes one search active: each limit survives if there was room by the
\* clock, whatever the instant by which the transaction judged.
LEMMA OneGained ==
    ASSUME NEW s \in SearchIds, NEW o \in Addresses,
           searches[s].owner = o, searches'[s].owner = o,
           \A x \in SearchIds \ {s} : ActiveAt(x, clock)' =>
              ActiveAt(x, clock) /\ searches'[x].owner = searches[x].owner
    PROVE  /\ AddressLimit /\ Cardinality(ActiveOf(o, clock)) < ACTIVE_SEARCH_LIMIT
                => AddressLimit'
           /\ SubscriberLimit
              /\ (ActiveOf(o, clock) = {} =>
                    Cardinality(ActiveOwners(clock)) < ACTIVE_SUBSCRIBER_LIMIT)
                => SubscriberLimit'
<1>1. ActiveOf(o, clock)' \subseteq ActiveOf(o, clock) \cup {s}
  BY DEF ActiveOf
<1>2. \A a \in Addresses \ {o} : ActiveOf(a, clock)' \subseteq ActiveOf(a, clock)
  BY DEF ActiveOf
<1>3. ActiveOwners(clock)' \subseteq ActiveOwners(clock) \cup {o}
  BY <1>2 DEF ActiveOwners
<1>4. ASSUME AddressLimit, Cardinality(ActiveOf(o, clock)) < ACTIVE_SEARCH_LIMIT,
             NEW a \in Addresses
      PROVE  Cardinality(ActiveOf(a, clock)') <= ACTIVE_SEARCH_LIMIT
  <2>1. CASE a = o
    <3>1. /\ Cardinality(ActiveOf(o, clock)') \in Nat
          /\ Cardinality(ActiveOf(o, clock)) \in Nat
          /\ Cardinality(ActiveOf(o, clock)') <= Cardinality(ActiveOf(o, clock)) + 1
      BY <1>1, ActiveSetsFinite, CountWithin
    <3>2. QED
      BY <1>4, <2>1, <3>1, LimitAssumption
  <2>2. CASE a # o
    <3>1. ActiveOf(a, clock)' \subseteq ActiveOf(a, clock)
      BY <1>2, <2>2
    <3>2. /\ Cardinality(ActiveOf(a, clock)') \in Nat
          /\ Cardinality(ActiveOf(a, clock)) \in Nat
          /\ Cardinality(ActiveOf(a, clock)') <= Cardinality(ActiveOf(a, clock))
      BY <3>1, ActiveSetsFinite, CountWithin
    <3>3. QED
      BY <1>4, <3>2, LimitAssumption DEF AddressLimit
  <2>3. QED
    BY <2>1, <2>2
<1>5. ASSUME SubscriberLimit,
             ActiveOf(o, clock) = {} =>
                Cardinality(ActiveOwners(clock)) < ACTIVE_SUBSCRIBER_LIMIT
      PROVE  Cardinality(ActiveOwners(clock)') <= ACTIVE_SUBSCRIBER_LIMIT
  <2>1. /\ Cardinality(ActiveOwners(clock)') \in Nat
        /\ Cardinality(ActiveOwners(clock)) \in Nat
        /\ Cardinality(ActiveOwners(clock)') <= Cardinality(ActiveOwners(clock)) + 1
        /\ ActiveOwners(clock)' \subseteq ActiveOwners(clock) =>
              Cardinality(ActiveOwners(clock)') <= Cardinality(ActiveOwners(clock))
    BY <1>3, ActiveSetsFinite, CountWithin
  <2>2. CASE ActiveOf(o, clock) = {}
    BY <1>5, <2>1, <2>2, LimitAssumption
  <2>3. CASE ActiveOf(o, clock) # {}
    <3>1. ActiveOwners(clock)' \subseteq ActiveOwners(clock)
      BY <1>3, <2>3 DEF ActiveOwners
    <3>2. QED
      BY <1>5, <2>1, <3>1, LimitAssumption DEF SubscriberLimit
  <2>4. QED
    BY <2>2, <2>3
<1>6. QED
  BY <1>4, <1>5 DEF AddressLimit, SubscriberLimit

-----------------------------------------------------------------------------
(* Admission by an earlier instant                                         *)

\* What is active by the clock was active by the request's: time passes, and the
\* rows are those under the lock.
LEMMA ActiveEarlier ==
    ASSUME TypeOK, NEW t \in Nat, t <= clock
    PROVE  /\ \A a \in Addresses : ActiveOf(a, clock) \subseteq ActiveOf(a, t)
           /\ ActiveOwners(clock) \subseteq ActiveOwners(t)
<1>1. \A s \in SearchIds : ActiveAt(s, clock) => ActiveAt(s, t)
  BY DEF TypeOK, RowsConsistent, ActiveAt
<1>2. \A a \in Addresses : ActiveOf(a, clock) \subseteq ActiveOf(a, t)
  BY <1>1 DEF ActiveOf
<1>3. QED
  BY <1>2 DEF ActiveOwners

\* So who is admitted by an earlier instant has a place by the clock; a slot only
\* if the slots were looked at.
LEMMA AdmittedEarlier ==
    ASSUME TypeOK, NEW t \in Nat, t <= clock, NEW o \in Addresses, Admitted(o, t)
    PROVE  /\ Cardinality(ActiveOf(o, clock)) < ACTIVE_SEARCH_LIMIT
           /\ ActiveOf(o, t) = {} =>
                 Cardinality(ActiveOwners(clock)) < ACTIVE_SUBSCRIBER_LIMIT
<1>1. /\ ActiveOf(o, clock) \subseteq ActiveOf(o, t)
      /\ ActiveOwners(clock) \subseteq ActiveOwners(t)
  BY ActiveEarlier
<1>2. /\ Cardinality(ActiveOf(o, clock)) \in Nat /\ Cardinality(ActiveOf(o, t)) \in Nat
      /\ Cardinality(ActiveOf(o, clock)) <= Cardinality(ActiveOf(o, t))
  BY <1>1, ActiveSetsFinite, CountWithin
<1>3. /\ Cardinality(ActiveOwners(clock)) \in Nat /\ Cardinality(ActiveOwners(t)) \in Nat
      /\ Cardinality(ActiveOwners(clock)) <= Cardinality(ActiveOwners(t))
  BY <1>1, ActiveSetsFinite, CountWithin
<1>4. QED
  BY <1>2, <1>3, LimitAssumption DEF Admitted

\* The two transactions that admit.
LEMMA AdmissionKeepsLimits ==
    ASSUME ClockInv, NEW w \in Workers, Activate(w) \/ Renew(w), clock' = clock,
           searches' # searches,
           NEW s \in SearchIds, s = calls[w].search,
           NEW o \in Addresses, o = searches[s].owner, searches'[s].owner = o,
           \A x \in SearchIds \ {s} : searches'[x] = searches[x],
           Admitted(o, calls[w].now)
    PROVE  /\ AddressLimit => AddressLimit'
           /\ SubscriberLimit /\ ~StaleSlot(w) => SubscriberLimit'
<1>1. TypeOK /\ calls[w].now \in Nat /\ calls[w].now <= clock
  BY CommitClock DEF ClockInv, Commit
<1>2. /\ Cardinality(ActiveOf(o, clock)) < ACTIVE_SEARCH_LIMIT
      /\ ActiveOf(o, calls[w].now) = {} =>
            Cardinality(ActiveOwners(clock)) < ACTIVE_SUBSCRIBER_LIMIT
  BY <1>1, AdmittedEarlier
<1>3. ~StaleSlot(w) => (ActiveOf(o, clock) = {} => ActiveOf(o, calls[w].now) = {})
  BY DEF StaleSlot
<1>4. \A x \in SearchIds \ {s} : ActiveAt(x, clock)' =>
         ActiveAt(x, clock) /\ searches'[x].owner = searches[x].owner
  BY DEF ActiveAt
<1>5. QED
  BY <1>2, <1>3, <1>4, OneGained

LEMMA ActivateLimits ==
    ASSUME ClockInv, NEW w \in Workers, Activate(w)
    PROVE  /\ AddressLimit => AddressLimit'
           /\ SubscriberLimit /\ ~StaleSlot(w) => SubscriberLimit'
<1> DEFINE c == calls[w]
           s == c.search
           o == searches[s].owner
<1>1. TypeOK /\ c \in Call \cup {Idle} /\ c.op = "activate" /\ clock' = clock
  BY DEF ClockInv, TypeOK, Activate
<1>2. s \in SearchIds
  BY <1>1, CallFields
<1>3. CASE searches' = searches
  BY <1>1, <1>3, NothingGained DEF ActiveAt
<1>4. CASE searches' # searches
  <2>1. /\ Confirmable(c)
        /\ Admitted(o, c.now)
        /\ searches' = [searches EXCEPT ![s] = ActivatedRow(@, c.now)]
    BY <1>4 DEF Activate
  <2>2. o \in Addresses
    BY <1>1, <1>2, <2>1 DEF Confirmable, Exists, TypeOK, RowsConsistent
  <2>3. searches'[s].owner = o
    BY <1>1, <1>2, <2>1 DEF TypeOK, SearchRow, ActivatedRow
  <2>4. \A x \in SearchIds \ {s} : searches'[x] = searches[x]
    BY <1>1, <2>1 DEF TypeOK
  <2>5. Admitted(o, calls[w].now)
    BY <2>1
  <2> HIDE DEF o
  <2>6. QED
    BY <1>1, <1>2, <1>4, <2>2, <2>3, <2>4, <2>5, AdmissionKeepsLimits DEF o
<1>5. QED
  BY <1>3, <1>4

\* A search that a renewal finds unlapsed is active already, unless it lapsed in the
\* wait; its owner was then a subscriber by the request's clock.
LEMMA RenewLimits ==
    ASSUME ClockInv, NEW w \in Workers, Renew(w)
    PROVE  /\ AddressLimit /\ ~StaleRenewal(w) => AddressLimit'
           /\ SubscriberLimit /\ ~StaleSlot(w) => SubscriberLimit'
<1> DEFINE c == calls[w]
           s == c.search
           o == searches[s].owner
<1>1. TypeOK /\ c \in Call \cup {Idle} /\ c.op = "renew" /\ clock' = clock
  BY DEF ClockInv, TypeOK, Renew
<1>2. s \in SearchIds /\ clock \in Nat /\ c.now \in Nat
  BY <1>1, CallFields DEF TypeOK
<1>3. CASE searches' = searches
  BY <1>1, <1>3, NothingGained DEF ActiveAt
<1>4. CASE searches' # searches /\ ~Lapsed(s, c.now)
  <2>1. MayRenew(c) /\ searches' = [searches EXCEPT ![s] = ExtendedRow(@, c.now)]
    BY <1>4 DEF Renew
  <2>2. /\ searches[s].status = "active" /\ searches[s].expires_at \in Nat
        /\ o \in Addresses
    BY <1>1, <1>2, <2>1 DEF MayRenew, Renewable, Authorised, TypeOK, RowsConsistent
  <2>3. searches'[s].owner = o
    BY <1>1, <1>2, <2>1 DEF TypeOK, SearchRow, ExtendedRow
  <2>4. \A x \in SearchIds \ {s} : searches'[x] = searches[x]
    BY <1>1, <2>1 DEF TypeOK
  <2>5. CASE ~Lapsed(s, clock)
    <3>1. ActiveAt(s, clock)
      BY <1>2, <2>2, <2>5 DEF Lapsed, ActiveAt
    <3>2. \A x \in SearchIds : ActiveAt(x, clock)' =>
             ActiveAt(x, clock) /\ searches'[x].owner = searches[x].owner
      BY <1>1, <2>3, <2>4, <3>1 DEF ActiveAt
    <3>3. QED
      BY <3>2, NothingGained
  <2>6. CASE Lapsed(s, clock)
    <3>1. StaleRenewal(w)
      BY <1>4, <2>6 DEF StaleRenewal
    <3>2. s \in ActiveOf(o, c.now)
      BY <1>2, <1>4, <2>2 DEF Lapsed, ActiveOf, ActiveAt
    <3>3. ~StaleSlot(w) => ActiveOf(o, clock) # {}
      BY <1>4, <3>2 DEF StaleSlot
    <3>4. \A x \in SearchIds \ {s} : ActiveAt(x, clock)' =>
             ActiveAt(x, clock) /\ searches'[x].owner = searches[x].owner
      BY <1>1, <2>4 DEF ActiveAt
    <3> HIDE DEF o
    <3>5. QED
      BY <1>2, <2>2, <2>3, <3>1, <3>3, <3>4, OneGained DEF o
  <2>7. QED
    BY <2>5, <2>6
<1>5. CASE searches' # searches /\ Lapsed(s, c.now)
  <2>1. /\ MayRenew(c)
        /\ Admitted(o, c.now)
        /\ searches' = [searches EXCEPT ![s] = RestartedRow(@, c.now)]
    BY <1>5 DEF Renew
  <2>2. o \in Addresses
    BY <1>1, <1>2, <2>1 DEF MayRenew, Authorised, TypeOK, RowsConsistent
  <2>3. searches'[s].owner = o
    BY <1>1, <1>2, <2>1 DEF TypeOK, SearchRow, RestartedRow, ExtendedRow
  <2>4. \A x \in SearchIds \ {s} : searches'[x] = searches[x]
    BY <1>1, <2>1 DEF TypeOK
  <2>5. Admitted(o, calls[w].now)
    BY <2>1
  <2> HIDE DEF o
  <2>6. QED
    BY <1>1, <1>2, <1>5, <2>2, <2>3, <2>4, <2>5, AdmissionKeepsLimits DEF o
<1>6. QED
  BY <1>3, <1>4, <1>5

-----------------------------------------------------------------------------
(* The steps that cannot                                                   *)

LEMMA OtherCommitLimits ==
    ASSUME TypeOK,
           NEW w \in Workers, Commit(w), ~Activate(w), ~Renew(w)
    PROVE  /\ AddressLimit => AddressLimit'
           /\ SubscriberLimit => SubscriberLimit'
<1> DEFINE c == calls[w]
<1>1. clock' = clock
  BY CommitFinishes
<1>2. c \in Call \cup {Idle}
  BY DEF TypeOK
<1>3. SUFFICES \A s \in SearchIds : ActiveAt(s, clock)' =>
                  ActiveAt(s, clock) /\ searches'[s].owner = searches[s].owner
  BY NothingGained
<1>4. CASE UNCHANGED searches
  BY <1>1, <1>4 DEF ActiveAt
<1>5. CASE RequestSearch(w)
  <2>1. CASE UNCHANGED searches
    BY <1>4, <2>1
  <2>2. CASE \E s \in SearchIds :
               searches' = [searches EXCEPT
                              ![s] = PendingSearch(c.addr, c.name, c.profile, c.now)]
    BY <1>1, <2>2 DEF TypeOK, ActiveAt, PendingSearch
  <2>3. QED
    BY <1>5, <2>1, <2>2 DEF RequestSearch
<1>6. CASE Cancel(w) \/ Unsubscribe(w)
  <2>1. searches' = searches \/
          searches' = [searches EXCEPT ![c.search] = CancelledRow(@, c.now)]
    BY <1>6 DEF Cancel, Unsubscribe
  <2>2. ASSUME NEW s \in SearchIds, searches'[s] # searches[s]
        PROVE  searches'[s].status = "cancelled"
    <3>1. searches'[s] = CancelledRow(searches[s], c.now) /\ searches[s] \in SearchRow
      BY <2>1, <2>2 DEF TypeOK
    <3>2. QED
      BY <3>1 DEF CancelledRow, SearchRow
  <2>3. QED
    BY <1>1, <2>2 DEF ActiveAt
<1>7. CASE Suppress(w)
  <2>1. ASSUME NEW s \in SearchIds, searches'[s] # searches[s]
        PROVE  searches'[s].status = "cancelled"
    <3>1. searches'[s] = CancelledRow(searches[s], c.now)
      BY <1>7, <2>1 DEF Suppress, Suppressing
    <3>2. searches[s] \in SearchRow
      BY DEF TypeOK
    <3>3. QED
      BY <3>1, <3>2 DEF CancelledRow, SearchRow
  <2>2. QED
    BY <1>1, <2>1 DEF ActiveAt
<1>8. CASE Edit(w)
  <2>1. c.search \in SearchIds /\ c.name \in Names /\ c.profile \in Profiles
    BY <1>2, <1>8, CallFields DEF Edit
  <2>2. searches' = searches \/
          searches' = [searches EXCEPT ![c.search] = EditedRow(@, c.name, c.profile)]
    BY <1>8 DEF Edit
  <2>3. ASSUME NEW s \in SearchIds
        PROVE  /\ searches'[s].status = searches[s].status
               /\ searches'[s].owner = searches[s].owner
               /\ searches'[s].expires_at = searches[s].expires_at
    BY <2>1, <2>2, EditedRowType DEF TypeOK
  <2>4. QED
    BY <1>1, <2>3 DEF ActiveAt
<1>9. CASE Consume(w)
  <2>1. ASSUME NEW s \in SearchIds
        PROVE  /\ searches'[s].status = searches[s].status
               /\ searches'[s].owner = searches[s].owner
               /\ searches'[s].expires_at = searches[s].expires_at
    BY <1>9 DEF Consume, TypeOK, SearchRow
  <2>2. QED
    BY <1>1, <2>1 DEF ActiveAt
<1>10. QED
  BY <1>4, <1>5, <1>6, <1>7, <1>8, <1>9
     DEF Commit, RequestRecovery, Prepare, Capture

LEMMA PurgeTickLimits ==
    ASSUME TypeOK, Purge \/ Tick
    PROVE  /\ AddressLimit => AddressLimit'
           /\ SubscriberLimit => SubscriberLimit'
<1>1. CASE Purge
  <2>1. \A s \in SearchIds : searches'[s] = searches[s] \/ searches'[s].status = "purged"
    BY <1>1 DEF Purge, NoSearch
  <2>2. clock' = clock
    BY <1>1 DEF Purge
  <2>3. QED
    BY <2>1, <2>2, NothingGained DEF ActiveAt
<1>2. CASE Tick
  <2>1. searches' = searches /\ clock' = clock + 1
    BY <1>2 DEF Tick, tables
  <2>2. \A s \in SearchIds : ActiveAt(s, clock)' => ActiveAt(s, clock)
    BY <2>1 DEF ActiveAt, TypeOK, RowsConsistent
  <2>3. QED
    BY <2>1, <2>2, NothingGained
<1>3. QED
  BY <1>1, <1>2

\* One step, whatever the lag: each limit is left only by the commits named above.
LEMMA NextLimits ==
    ASSUME ClockInv, [Next]_vars
    PROVE  /\ AddressLimit /\ (\A w \in Workers : ~StaleRenewal(w)) => AddressLimit'
           /\ SubscriberLimit /\ (\A w \in Workers : ~StaleSlot(w)) => SubscriberLimit'
<1>1. TypeOK
  BY DEF ClockInv
<1>2. ASSUME NEW w \in Workers, Commit(w)
      PROVE  /\ AddressLimit /\ ~StaleRenewal(w) => AddressLimit'
             /\ SubscriberLimit /\ ~StaleSlot(w) => SubscriberLimit'
  BY <1>1, <1>2, ActivateLimits, RenewLimits, OtherCommitLimits
<1>3. ASSUME NEW w \in Workers, Enter(w) \/ Abort(w)
      PROVE  (AddressLimit => AddressLimit') /\ (SubscriberLimit => SubscriberLimit')
  BY <1>1, <1>3, EnterType, NothingGained DEF Abort, ActiveAt, tables
<1>4. CASE OpenForm \/ UNCHANGED vars
  BY <1>4, NothingGained DEF OpenForm, ActiveAt, tables, vars
<1>5. QED
  BY <1>1, <1>2, <1>3, <1>4, PurgeTickLimits DEF Next

LEMMA InitLimits == Init => AddressLimit /\ SubscriberLimit
<1> SUFFICES ASSUME Init PROVE AddressLimit /\ SubscriberLimit
  OBVIOUS
<1>1. \A a \in Addresses : ActiveOf(a, clock) = {}
  BY DEF Init, ActiveOf, ActiveAt, NoSearch
<1>2. ActiveOwners(clock) = {}
  BY <1>1 DEF ActiveOwners
<1>3. QED
  BY <1>1, <1>2, FS_EmptySet, LimitAssumption DEF AddressLimit, SubscriberLimit

\* However long requests wait, an address exceeds its limit of active searches in no
\* other way than by a renewal of a search that lapsed in the wait (renew and
\* admission_error under the Capacity lock).
THEOREM OnlyStaleRenewalsExceed == Spec /\ NoStaleRenewal => []AddressLimit
<1>1. ClockInv /\ AddressLimit /\ [Next]_vars /\ [\A w \in Workers : ~StaleRenewal(w)]_vars
        => AddressLimit'
  <2>1. UNCHANGED vars => (AddressLimit => AddressLimit')
    BY NothingGained DEF vars, ActiveAt
  <2>2. QED
    BY <2>1, NextLimits
<1>2. QED
  BY <1>1, InitClock, NextClock, InitLimits, PTL DEF Spec, NoStaleRenewal

\* However long they wait, more addresses have an active search than there are slots
\* in no other way than by an owner whose slot was given away in the wait.
LEMMA SubscribersWithinSlots == Spec /\ NoStaleSlot => []SubscriberLimit
<1>1. ClockInv /\ SubscriberLimit /\ [Next]_vars /\ [\A w \in Workers : ~StaleSlot(w)]_vars
        => SubscriberLimit'
  <2>1. UNCHANGED vars => (SubscriberLimit => SubscriberLimit')
    BY NothingGained DEF vars, ActiveAt
  <2>2. QED
    BY <2>1, NextLimits
<1>2. QED
  BY <1>1, InitClock, NextClock, InitLimits, PTL DEF Spec, NoStaleSlot

\* Requests that do not lag are never stale: what the theorems assume can be had, and
\* the run Quota, where no request lags, checks the limits as they stand.
LEMMA NoneStale ==
    ASSUME MaxLag = 0
    PROVE  Spec => NoStaleRenewal /\ NoStaleSlot
<1>1. ClockInv /\ [Next]_vars =>
         /\ [\A w \in Workers : ~StaleRenewal(w)]_vars
         /\ [\A w \in Workers : ~StaleSlot(w)]_vars
  BY NothingStale
<1>2. QED
  BY <1>1, InitClock, NextClock, PTL DEF Spec, NoStaleRenewal, NoStaleSlot

-----------------------------------------------------------------------------
(* Pending searches                                                        *)

PendingInv == TypeOK /\ PendingLimit

LEMMA PendingFinite ==
    /\ IsFiniteSet(Pending) /\ Cardinality(Pending) \in Nat
    /\ IsFiniteSet(Pending') /\ Cardinality(Pending') \in Nat
<1>1. Pending \subseteq SearchIds /\ Pending' \subseteq SearchIds
  BY DEF Pending
<1>2. QED
  BY <1>1, SetAssumption, FS_Subset, FS_CardinalityType

LEMMA NextPending == PendingInv /\ [Next]_vars => PendingInv'
<1> SUFFICES ASSUME PendingInv, [Next]_vars PROVE PendingInv'
  OBVIOUS
<1>1. TypeOK /\ PendingLimit /\ TypeOK'
  BY NextType DEF PendingInv
<1>2. CASE Pending' \subseteq Pending
  <2>1. Cardinality(Pending') <= Cardinality(Pending)
    BY <1>2, PendingFinite, FS_Subset
  <2>2. QED
    BY <1>1, <2>1, PendingFinite, LimitAssumption DEF PendingInv, PendingLimit
<1>3. CASE \A s \in SearchIds : QuietStep(s)
  BY <1>2, <1>3
     DEF QuietStep, Kept, Moved, Ended, Relinked, Deleted, NoSearch, Pending
<1>4. ASSUME NEW w \in Workers, RequestSearch(w)
      PROVE  PendingInv'
  <2>1. CASE searches' = searches
    BY <1>2, <2>1 DEF Pending
  <2>2. CASE ~PendingFull /\ \E s \in SearchIds : \E row :
               searches' = [searches EXCEPT ![s] = row]
    <3>1. PICK s \in SearchIds : \E row : searches' = [searches EXCEPT ![s] = row]
      BY <2>2
    <3>2. Pending' \subseteq Pending \cup {s}
      BY <1>1, <3>1 DEF Pending, TypeOK
    <3>3. /\ IsFiniteSet(Pending \cup {s})
          /\ Cardinality(Pending \cup {s}) \in Nat
          /\ Cardinality(Pending \cup {s}) <= Cardinality(Pending) + 1
      BY PendingFinite, AddOne
    <3>4. Cardinality(Pending') <= Cardinality(Pending \cup {s})
      BY <3>2, <3>3, FS_Subset
    <3>5. Cardinality(Pending) < PENDING_SEARCH_LIMIT
      BY <2>2, PendingFinite, LimitAssumption DEF PendingFull
    <3>6. QED
      BY <1>1, <3>3, <3>4, <3>5, PendingFinite, LimitAssumption DEF PendingInv, PendingLimit
  <2>3. QED
    BY <1>4, <2>1, <2>2 DEF RequestSearch
<1>5. QED
  BY <1>1, <1>3, <1>4, MovingRow, EndingRow, OtherRow DEF Next, Commit

\* However requests interleave and lag, no more searches wait for confirmation
\* than the limit admits.
THEOREM PendingLimitHolds == Spec => []PendingLimit
<1>1. Init => PendingInv
  <2>1. Init => Pending = {}
    BY DEF Init, Pending, NoSearch
  <2>2. QED
    BY <2>1, InitType, FS_EmptySet, LimitAssumption DEF PendingInv, PendingLimit
<1>2. PendingInv => PendingLimit
  BY DEF PendingInv
<1>3. QED
  BY <1>1, <1>2, NextPending, PTL DEF Spec

\* However long requests wait, the limits of the whole service, of subscribers with an
\* active search and of searches in wait, are exceeded in no other way than by an owner
\* whose slot was given away in the wait (admission_error, request_search).
THEOREM OnlyStaleSlotsExceed == Spec /\ NoStaleSlot => []ServiceLimits
BY SubscribersWithinSlots, PendingLimitHolds, PTL DEF ServiceLimits

-----------------------------------------------------------------------------
(* The daily limits                                                        *)

\* The counter of a row says what was mailed today, and is of no day to come; a
\* row that is gone leaves no counter behind for the one that follows it.
MailCounted(a) ==
    /\ mailed[a] = MailsOn(a, Day(clock))
    /\ mailed[a] <= CONFIRMATION_DAILY_LIMIT
    /\ subscribers[a].email_day <= Day(clock)
    /\ ~subscribers[a].live => subscribers[a].email_day = Never

SourceCounted(k) ==
    /\ admitted[k] = RequestsOn(k, Day(clock))
    /\ admitted[k] <= REQUEST_SOURCE_DAILY_LIMIT
    /\ sources[k].day <= Day(clock)

MailsCounted == \A a \in Addresses : MailCounted(a)

SourcesCounted == \A k \in Sources : SourceCounted(k)

LEMMA MailUntouched ==
    ASSUME NEW a \in Addresses, MailCounted(a), clock' = clock, mailed'[a] = mailed[a],
           subscribers'[a].live = subscribers[a].live,
           subscribers'[a].email_day = subscribers[a].email_day,
           subscribers'[a].email_count = subscribers[a].email_count
    PROVE  MailCounted(a)'
BY DEF MailCounted, MailsOn, Day

\* get_or_create starts no second count: the row it makes had none to lose.
LEMMA KnownCount ==
    ASSUME TypeOK, NEW a \in Addresses, MailCounted(a)
    PROVE  /\ Known(a).email_day = subscribers[a].email_day
           /\ MailsOn(a, Day(clock)) =
                 IF Known(a).email_day = Day(clock) THEN Known(a).email_count ELSE 0
<1>1. Day(clock) \in Nat
  BY DayType DEF TypeOK
<1>2. CASE subscribers[a].live
  BY <1>2 DEF Known, MailsOn
<1>3. CASE ~subscribers[a].live
  BY <1>1, <1>3 DEF Known, NewSubscriber, NoSubscriber, MailCounted, MailsOn, Never
<1>4. QED
  BY <1>2, <1>3

LEMMA KnownUncounted ==
    ASSUME TypeOK, NEW a \in Addresses, clock' = clock, mailed' = mailed, Known(a).live,
           subscribers' = [subscribers EXCEPT ![a] = Known(a)],
           \A b \in Addresses : MailCounted(b)
    PROVE  \A b \in Addresses : MailCounted(b)'
<1>1. \A b \in Addresses : subscribers'[b] = IF b = a THEN Known(a) ELSE subscribers[b]
  BY DEF TypeOK
<1>2. \A b \in Addresses \ {a} : MailCounted(b)'
  BY <1>1, MailUntouched
<1>3. subscribers'[a] = Known(a) /\ Day(clock)' = Day(clock)
  BY <1>1 DEF Day
<1>4. MailsOn(a, Day(clock))' = MailsOn(a, Day(clock))
  BY <1>3, KnownCount DEF MailsOn
<1>5. MailCounted(a)'
  BY <1>3, <1>4, KnownCount DEF MailCounted
<1>6. QED
  BY <1>2, <1>5

\* The row is counted once more, by a request whose limit was not reached and which
\* no request of a later day overtook. A mail of an earlier day leaves today's count.
LEMMA MailAdded ==
    ASSUME TypeOK, NEW a \in Addresses, MailCounted(a), clock' = clock,
           NEW row \in SubscriberRow, row.live,
           NEW t \in Nat, t <= clock, subscribers[a].email_day <= Day(t),
           subscribers' = [subscribers EXCEPT ![a] = CountedMail(a, row, Day(t))],
           ~MailSpent(a, t), Mail(a, t)
    PROVE  \A b \in Addresses : MailCounted(b) => MailCounted(b)'
<1> DEFINE new == CountedMail(a, row, Day(t))
<1>1. clock \in Nat /\ Day(t) \in Nat /\ Day(clock) \in Nat /\ Day(t) <= Day(clock)
  BY DayType, DayMonotone DEF TypeOK
<1>2. new.live /\ new.email_day = Day(t) /\ new.email_count = MailsOn(a, Day(t)) + 1
  BY <1>1, KnownType
<1>3. \A b \in Addresses : subscribers'[b] = IF b = a THEN new ELSE subscribers[b]
  BY DEF TypeOK
<1>4. \A b \in Addresses : mailed'[b] = IF b = a THEN mailed[a] + Today(t) ELSE mailed[b]
  BY DEF Mail, TypeOK
<1>5. MailsOn(a, Day(t)) \in Nat /\ subscribers[a].email_day \in Instant
  BY DEF MailsOn, TypeOK, SubscriberRow
<1>6. MailsOn(a, Day(t)) < CONFIRMATION_DAILY_LIMIT
  BY <1>5, LimitAssumption DEF MailSpent
<1> HIDE DEF new
<1>7. MailCounted(a)'
  <2>1. CASE Day(t) = Day(clock)
    BY <1>1, <1>2, <1>3, <1>4, <1>5, <1>6, <2>1, LimitAssumption
       DEF MailCounted, MailsOn, Today, Day
  <2>2. CASE Day(t) # Day(clock)
    <3>1. mailed[a] = 0 /\ mailed'[a] = 0
      BY <1>1, <1>4, <1>5, <2>2 DEF MailCounted, MailsOn, Today, Instant, Never
    <3>2. Day(clock)' = Day(clock) /\ MailsOn(a, Day(clock))' = 0
      BY <1>2, <1>3, <2>2 DEF MailsOn, Day
    <3>3. QED
      BY <1>1, <1>2, <1>3, <3>1, <3>2, LimitAssumption DEF MailCounted
  <2>3. QED
    BY <2>1, <2>2
<1>8. \A b \in Addresses \ {a} : MailCounted(b) => MailCounted(b)'
  BY <1>3, <1>4, MailUntouched
<1>9. QED
  BY <1>7, <1>8

LEMMA SourceAdded ==
    ASSUME TypeOK, SourcesCounted, NEW k \in Sources, NEW t \in Nat, t <= clock,
           sources[k].day <= Day(t), ReserveSource(k, t), clock' = clock
    PROVE  SourcesCounted'
<1>1. clock \in Nat /\ Day(t) \in Nat /\ Day(clock) \in Nat /\ Day(t) <= Day(clock)
  BY DayType, DayMonotone DEF TypeOK
<1>2. RequestsOn(k, Day(t)) \in Nat /\ sources[k].day \in Instant
  BY DEF RequestsOn, TypeOK, SourceRow
<1>3. RequestsOn(k, Day(t)) < REQUEST_SOURCE_DAILY_LIMIT
  BY <1>2, LimitAssumption DEF ReserveSource, SourceSpent
<1>4. \A j \in Sources :
         sources'[j] = IF j = k THEN CountedRequest(k, Day(t)) ELSE sources[j]
  BY DEF ReserveSource, TypeOK
<1>5. \A j \in Sources :
         admitted'[j] = IF j = k THEN admitted[k] + Today(t) ELSE admitted[j]
  BY DEF ReserveSource, TypeOK
<1>6. SourceCounted(k)'
  <2>1. CASE Day(t) = Day(clock)
    BY <1>1, <1>2, <1>3, <1>4, <1>5, <2>1, LimitAssumption
       DEF SourcesCounted, SourceCounted, RequestsOn, CountedRequest, Today, Day
  <2>2. CASE Day(t) # Day(clock)
    <3>1. admitted[k] = 0 /\ admitted'[k] = 0
      BY <1>1, <1>2, <1>5, <2>2
         DEF SourcesCounted, SourceCounted, RequestsOn, Today, Instant, Never
    <3>2. Day(clock)' = Day(clock) /\ sources'[k].day = Day(t)
      BY <1>4 DEF CountedRequest, Day
    <3>3. QED
      BY <1>1, <2>2, <3>1, <3>2, LimitAssumption DEF SourceCounted, RequestsOn
  <2>3. QED
    BY <2>1, <2>2
<1>7. \A j \in Sources \ {k} : SourceCounted(j)'
  BY <1>4, <1>5 DEF SourcesCounted, SourceCounted, RequestsOn, Day
<1>8. QED
  BY <1>6, <1>7 DEF SourcesCounted

LEMMA SourcesUntouched ==
    ASSUME SourcesCounted, UNCHANGED <<clock, sources, admitted>>
    PROVE  SourcesCounted'
BY DEF SourcesCounted, SourceCounted, RequestsOn, Day

LEMMA MailsUntouched ==
    ASSUME MailsCounted, UNCHANGED <<clock, subscribers, mailed>>
    PROVE  MailsCounted'
BY MailUntouched DEF MailsCounted

LEMMA RequestSearchMails ==
    ASSUME ClockInv, MailsCounted, NEW w \in Workers, RequestSearch(w), ~OvertakenMail(w)
    PROVE  MailsCounted'
<1> DEFINE c == calls[w]
           a == c.addr
<1>1. TypeOK /\ c \in Call \cup {Idle} /\ c.op = "request" /\ clock' = clock
  BY DEF ClockInv, TypeOK, RequestSearch
<1>2. a \in Addresses /\ MailCounted(a)
  BY <1>1, CallFields DEF MailsCounted
<1>3. c.now \in Nat /\ c.now <= clock /\ Day(c.now) \in Nat
  BY CommitClock, DayType DEF Commit
<1>4. Known(a) \in SubscriberRow /\ Known(a).live
  BY <1>2, <1>1, <1>3, KnownType
<1>5. CASE UNCHANGED <<subscribers, mailed>>
  BY <1>1, <1>5, MailsUntouched
<1>6. CASE subscribers' = [subscribers EXCEPT ![a] = Known(a)] /\ UNCHANGED mailed
  BY <1>1, <1>2, <1>4, <1>6, KnownUncounted DEF MailsCounted
<1>7. CASE /\ subscribers' = [subscribers EXCEPT ![a] = CountedMail(a, Known(a), Day(c.now))]
           /\ MayConfirm(a, c.now)
           /\ Mail(a, c.now)
  <2>1. subscribers[a].email_day <= Day(c.now)
    BY <1>1, <1>2, <1>3 DEF OvertakenMail, TypeOK, SubscriberRow, Instant, Never
  <2>2. ~MailSpent(a, c.now)
    BY <1>7 DEF MayConfirm
  <2>3. \A b \in Addresses : MailCounted(b)'
    BY <1>1, <1>2, <1>3, <1>4, <1>7, <2>1, <2>2, MailAdded DEF MailsCounted
  <2>4. QED
    BY <2>3 DEF MailsCounted
<1>8. QED
  BY <1>5, <1>6, <1>7 DEF RequestSearch

LEMMA RequestRecoveryMails ==
    ASSUME ClockInv, MailsCounted, NEW w \in Workers, RequestRecovery(w), ~OvertakenMail(w)
    PROVE  MailsCounted'
<1> DEFINE c == calls[w]
           a == c.addr
<1>1. TypeOK /\ c \in Call \cup {Idle} /\ c.op = "recover" /\ clock' = clock
  BY DEF ClockInv, TypeOK, RequestRecovery
<1>2. a \in Addresses /\ MailCounted(a) /\ subscribers[a] \in SubscriberRow
  BY <1>1, CallFields DEF MailsCounted, TypeOK
<1>3. c.now \in Nat /\ c.now <= clock /\ Day(c.now) \in Nat
  BY CommitClock, DayType DEF Commit
<1>4. CASE UNCHANGED <<subscribers, mailed>>
  BY <1>1, <1>4, MailsUntouched
<1>5. CASE /\ subscribers' = [subscribers EXCEPT ![a] = CountedMail(a, @, Day(c.now))]
           /\ MayRecover(a, c.now)
           /\ Mail(a, c.now)
  <2>1. subscribers[a].email_day <= Day(c.now)
    BY <1>1, <1>2, <1>3 DEF OvertakenMail, SubscriberRow, Instant, Never
  <2>2. ~MailSpent(a, c.now) /\ subscribers[a].live
    BY <1>5 DEF MayRecover
  <2>3. subscribers' = [subscribers EXCEPT ![a] = CountedMail(a, subscribers[a], Day(c.now))]
    BY <1>5
  <2> HIDE DEF a
  <2>4. \A b \in Addresses : MailCounted(b)'
    BY <1>1, <1>2, <1>3, <1>5, <2>1, <2>2, <2>3, MailAdded DEF MailsCounted
  <2>5. QED
    BY <2>4 DEF MailsCounted
<1>6. QED
  BY <1>4, <1>5 DEF RequestRecovery

LEMMA RequestSources ==
    ASSUME ClockInv, SourcesCounted, NEW w \in Workers,
           RequestSearch(w) \/ RequestRecovery(w), ~OvertakenSource(w)
    PROVE  SourcesCounted'
<1> DEFINE c == calls[w]
           k == c.source
<1>1. TypeOK /\ c \in Call \cup {Idle} /\ c.op \in {"request", "recover"} /\ clock' = clock
  BY DEF ClockInv, TypeOK, RequestSearch, RequestRecovery
<1>2. k \in Sources /\ sources[k].day \in Instant
  BY <1>1, CallFields DEF TypeOK, SourceRow
<1>3. c.now \in Nat /\ c.now <= clock /\ Day(c.now) \in Nat
  BY CommitClock, DayType DEF Commit
<1>4. CASE UNCHANGED <<sources, admitted>>
  BY <1>1, <1>4, SourcesUntouched
<1>5. CASE ReserveSource(k, c.now)
  <2>1. sources[k].day <= Day(c.now)
    BY <1>2, <1>3 DEF OvertakenSource, Instant, Never
  <2>2. QED
    BY <1>1, <1>2, <1>3, <1>5, <2>1, SourceAdded
<1>6. QED
  BY <1>4, <1>5 DEF RequestSearch, RequestRecovery

\* The transactions that neither mail nor admit.
LEMMA OtherCommitDaily ==
    ASSUME TypeOK, NEW w \in Workers, Commit(w), ~RequestSearch(w), ~RequestRecovery(w)
    PROVE  (MailsCounted => MailsCounted') /\ (SourcesCounted => SourcesCounted')
<1> DEFINE c == calls[w]
<1>1. UNCHANGED <<clock, sources, mailed, admitted>>
  BY DEF Commit, Activate, Cancel, Unsubscribe, Suppress, Edit, Renew, Consume, Prepare, Capture
<1>2. c \in Call \cup {Idle}
  BY DEF TypeOK
<1>3. SourcesCounted => SourcesCounted'
  BY <1>1, SourcesUntouched
<1>4. CASE UNCHANGED subscribers
  BY <1>1, <1>3, <1>4, MailsUntouched
<1>5. ASSUME NEW a \in Addresses
      PROVE  /\ SuppressedRow(subscribers[a]).live = subscribers[a].live
             /\ SuppressedRow(subscribers[a]).email_day = subscribers[a].email_day
             /\ SuppressedRow(subscribers[a]).email_count = subscribers[a].email_count
  <2>1. subscribers[a] \in SubscriberRow
    BY DEF TypeOK
  <2>2. QED
    BY <2>1 DEF SuppressedRow, SubscriberRow
<1>6. ASSUME NEW a \in Addresses, NEW replace \in BOOLEAN
      PROVE  /\ ConsumedRow(subscribers[a], replace).live = subscribers[a].live
             /\ ConsumedRow(subscribers[a], replace).email_day = subscribers[a].email_day
             /\ ConsumedRow(subscribers[a], replace).email_count = subscribers[a].email_count
  BY SubscriberRowTypes DEF TypeOK
<1>7. CASE Suppress(w) /\ subscribers' # subscribers
  <2>1. c.addr \in Addresses
    BY <1>2, <1>7, CallFields DEF Suppress
  <2>2. subscribers' = [subscribers EXCEPT ![c.addr] = SuppressedRow(@)]
    BY <1>7 DEF Suppress, Suppressing
  <2>3. MailsCounted => \A a \in Addresses : MailCounted(a)'
    BY <1>1, <1>5, <2>1, <2>2, MailUntouched DEF TypeOK, MailsCounted
  <2>4. QED
    BY <1>3, <2>3 DEF MailsCounted
<1>8. CASE Consume(w) /\ subscribers' # subscribers
  <2>1. c.link.addr \in Addresses /\ c.replace \in BOOLEAN
    BY <1>2, <1>8, CallFields DEF Consume, Link
  <2>2. subscribers' = [subscribers EXCEPT ![c.link.addr] = ConsumedRow(@, c.replace)]
    BY <1>8 DEF Consume
  <2>3. MailsCounted => \A a \in Addresses : MailCounted(a)'
    BY <1>1, <1>6, <2>1, <2>2, MailUntouched DEF TypeOK, MailsCounted
  <2>4. QED
    BY <1>3, <2>3 DEF MailsCounted
<1>9. QED
  BY <1>4, <1>7, <1>8
     DEF Commit, Activate, Cancel, Unsubscribe, Edit, Renew, Prepare, Capture

\* Housekeeping deletes counters of past days only.
LEMMA PurgeDaily ==
    ASSUME TypeOK, Purge
    PROVE  (MailsCounted => MailsCounted') /\ (SourcesCounted => SourcesCounted')
<1>1. UNCHANGED <<clock, mailed, admitted>> /\ Day(clock) \in Nat
  BY DayType DEF Purge, TypeOK
<1>2. ASSUME MailsCounted, NEW a \in Addresses
      PROVE  MailCounted(a)'
  <2>1. subscribers'[a] = IF Abandoned(a) THEN NoSubscriber(subscribers[a].id)
                          ELSE subscribers[a]
    BY DEF Purge
  <2>2. MailCounted(a) /\ subscribers[a] \in SubscriberRow
    BY <1>2 DEF MailsCounted, TypeOK
  <2>3. CASE Abandoned(a)
    <3>1. mailed[a] = 0
      BY <1>1, <2>2, <2>3 DEF Abandoned, MailCounted, MailsOn, SubscriberRow, Instant, Never
    <3>2. /\ subscribers'[a].email_day = Never
          /\ subscribers'[a].email_count = 0
      BY <2>1, <2>3 DEF NoSubscriber
    <3>3. QED
      BY <1>1, <2>2, <3>1, <3>2 DEF MailCounted, MailsOn, Never, Day
  <2>4. CASE ~Abandoned(a)
    BY <1>1, <2>1, <2>2, <2>4, MailUntouched
  <2>5. QED
    BY <2>3, <2>4
<1>3. ASSUME SourcesCounted, NEW k \in Sources
      PROVE  SourceCounted(k)'
  <2>1. sources'[k] = IF StaleSource(k) THEN NoSource ELSE sources[k]
    BY DEF Purge
  <2>2. SourceCounted(k) /\ sources[k] \in SourceRow
    BY <1>3 DEF SourcesCounted, TypeOK
  <2>3. CASE StaleSource(k)
    <3>1. admitted[k] = 0
      BY <1>1, <2>2, <2>3 DEF StaleSource, SourceCounted, RequestsOn, SourceRow, Instant, Never
    <3>2. QED
      BY <1>1, <2>1, <2>2, <2>3, <3>1 DEF SourceCounted, RequestsOn, NoSource, Never, Day
  <2>4. CASE ~StaleSource(k)
    BY <1>1, <2>1, <2>2, <2>4 DEF SourceCounted, RequestsOn, Day
  <2>5. QED
    BY <2>3, <2>4
<1>4. QED
  BY <1>2, <1>3 DEF MailsCounted, SourcesCounted

\* At midnight every counter is of a day that is over.
LEMMA TickDaily ==
    ASSUME TypeOK, Tick
    PROVE  (MailsCounted => MailsCounted') /\ (SourcesCounted => SourcesCounted')
<1> DEFINE today == Day(clock)
           next == Day(clock + 1)
<1>1. clock \in Nat /\ clock' = clock + 1 /\ UNCHANGED <<subscribers, sources>>
  BY DEF TypeOK, Tick, tables
<1>2. today \in Nat /\ next \in Nat /\ today <= next
  BY <1>1, DayType, DayMonotone
<1>3. Day(clock') = next
  BY <1>1
<1>4. CASE today = next
  <2>1. UNCHANGED <<mailed, admitted>>
    BY <1>3, <1>4 DEF Tick
  <2>2. MailsCounted => \A a \in Addresses : MailCounted(a)'
    BY <1>1, <1>3, <1>4, <2>1 DEF MailsCounted, MailCounted, MailsOn, Day
  <2>3. SourcesCounted => \A k \in Sources : SourceCounted(k)'
    BY <1>1, <1>3, <1>4, <2>1 DEF SourcesCounted, SourceCounted, RequestsOn, Day
  <2>4. QED
    BY <2>2, <2>3 DEF MailsCounted, SourcesCounted
<1>5. CASE today # next
  <2>1. /\ mailed' = [a \in Addresses |-> 0]
        /\ admitted' = [k \in Sources |-> 0]
    BY <1>3, <1>5 DEF Tick
  <2> HIDE DEF today, next
  <2>2. ASSUME MailsCounted, NEW a \in Addresses
        PROVE  MailCounted(a)'
    <3>1. /\ subscribers[a].email_day \in Instant
          /\ subscribers[a].email_day <= today
          /\ ~subscribers[a].live => subscribers[a].email_day = Never
      BY <2>2 DEF MailsCounted, MailCounted, TypeOK, SubscriberRow, today
    <3>2. subscribers[a].email_day < next
      BY <1>2, <1>5, <3>1 DEF Instant, Never
    <3>3. mailed'[a] = 0
      BY <2>1
    <3>4. MailsOn(a, Day(clock))' = 0
      BY <1>1, <1>3, <1>2, <3>1, <3>2 DEF MailsOn, Instant, Never
    <3>5. QED
      BY <1>1, <1>2, <1>3, <3>1, <3>2, <3>3, <3>4, LimitAssumption DEF MailCounted, Instant, Never
  <2>3. ASSUME SourcesCounted, NEW k \in Sources
        PROVE  SourceCounted(k)'
    <3>1. sources[k].day \in Instant /\ sources[k].day <= today
      BY <2>3 DEF SourcesCounted, SourceCounted, TypeOK, SourceRow, today
    <3>2. sources[k].day < next
      BY <1>2, <1>5, <3>1 DEF Instant, Never
    <3>3. RequestsOn(k, Day(clock))' = 0 /\ admitted'[k] = 0
      BY <1>1, <1>2, <1>3, <2>1, <3>1, <3>2 DEF RequestsOn, Instant, Never
    <3>4. QED
      BY <1>1, <1>2, <1>3, <3>1, <3>2, <3>3, LimitAssumption DEF SourceCounted, Instant, Never
  <2>4. QED
    BY <2>2, <2>3 DEF MailsCounted, SourcesCounted
<1>6. QED
  BY <1>4, <1>5

LEMMA InitDaily == Init => MailsCounted /\ SourcesCounted
<1> SUFFICES ASSUME Init PROVE MailsCounted /\ SourcesCounted
  OBVIOUS
<1>1. Day(clock) \in Nat
  BY InitType, DayType DEF TypeOK
<1>2. MailsCounted
  BY <1>1, LimitAssumption
     DEF Init, MailsCounted, MailCounted, MailsOn, NoSubscriber, Never
<1>3. SourcesCounted
  BY <1>1, LimitAssumption
     DEF Init, SourcesCounted, SourceCounted, RequestsOn, NoSource, Never
<1>4. QED
  BY <1>2, <1>3

\* One step, whatever the lag: a counter stops telling today's history only when a
\* request of a later day overtook the one that writes it.
LEMMA NextDaily ==
    ASSUME ClockInv, [Next]_vars
    PROVE  /\ MailsCounted /\ (\A w \in Workers : ~OvertakenMail(w)) => MailsCounted'
           /\ SourcesCounted /\ (\A w \in Workers : ~OvertakenSource(w)) => SourcesCounted'
<1>1. TypeOK
  BY DEF ClockInv
<1>2. ASSUME UNCHANGED <<clock, subscribers, sources, mailed, admitted>>
      PROVE  (MailsCounted => MailsCounted') /\ (SourcesCounted => SourcesCounted')
  BY <1>2, MailsUntouched, SourcesUntouched
<1>3. CASE OpenForm \/ UNCHANGED vars
  BY <1>2, <1>3 DEF OpenForm, tables, vars
<1>4. ASSUME NEW w \in Workers, Enter(w) \/ Abort(w)
      PROVE  (MailsCounted => MailsCounted') /\ (SourcesCounted => SourcesCounted')
  BY <1>1, <1>2, <1>4, EnterType DEF Abort, tables
<1>5. ASSUME NEW w \in Workers, Commit(w)
      PROVE  /\ MailsCounted /\ ~OvertakenMail(w) => MailsCounted'
             /\ SourcesCounted /\ ~OvertakenSource(w) => SourcesCounted'
  BY <1>1, <1>5, RequestSearchMails, RequestRecoveryMails, RequestSources, OtherCommitDaily
<1>6. QED
  BY <1>1, <1>3, <1>4, <1>5, PurgeDaily, TickDaily DEF Next

\* However long requests wait, an address is mailed more often for one day than its
\* limit in no other way than by a request that one of a later day overtook, whatever
\* housekeeping deletes in between (request_search, request_recovery, purge_searches).
THEOREM OnlyOvertakenMailsExceed == Spec /\ NoOvertakenMail => []EmailLimit
<1>1. ClockInv /\ MailsCounted /\ [Next]_vars /\ [\A w \in Workers : ~OvertakenMail(w)]_vars
        => MailsCounted'
  <2>1. UNCHANGED vars => (MailsCounted => MailsCounted')
    BY MailsUntouched DEF vars, tables
  <2>2. QED
    BY <2>1, NextDaily
<1>2. MailsCounted => EmailLimit
  BY DEF MailsCounted, MailCounted, EmailLimit
<1>3. QED
  BY <1>1, <1>2, InitClock, NextClock, InitDaily, PTL DEF Spec, NoOvertakenMail

\* The same of what a source is admitted for (reserve_request_source).
THEOREM OnlyOvertakenSourcesExceed == Spec /\ NoOvertakenSource => []SourceLimit
<1>1. ClockInv /\ SourcesCounted /\ [Next]_vars
        /\ [\A w \in Workers : ~OvertakenSource(w)]_vars => SourcesCounted'
  <2>1. UNCHANGED vars => (SourcesCounted => SourcesCounted')
    BY SourcesUntouched DEF vars, tables
  <2>2. QED
    BY <2>1, NextDaily
<1>2. SourcesCounted => SourceLimit
  BY DEF SourcesCounted, SourceCounted, SourceLimit
<1>3. QED
  BY <1>1, <1>2, InitClock, NextClock, InitDaily, PTL DEF Spec, NoOvertakenSource

\* A counter is of no day to come, so a request that does not lag is not overtaken.
LEMMA NothingOvertaken ==
    ASSUME ClockInv, MaxLag = 0, NEW w \in Workers
    PROVE  /\ MailsCounted => ~OvertakenMail(w)
           /\ SourcesCounted => ~OvertakenSource(w)
<1> SUFFICES ASSUME RequestSearch(w) \/ RequestRecovery(w)
             PROVE  /\ MailsCounted => ~OvertakenMail(w)
                    /\ SourcesCounted => ~OvertakenSource(w)
  BY DEF OvertakenMail, OvertakenSource
<1>1. calls[w].now = clock
  BY PromptCommit DEF Commit
<1>2. /\ calls[w] \in Call \cup {Idle} /\ calls[w].op \in {"request", "recover"}
      /\ Day(clock) \in Nat
  BY DayType DEF ClockInv, TypeOK, RequestSearch, RequestRecovery
<1>3. /\ subscribers[calls[w].addr].email_day \in Instant
      /\ sources[calls[w].source].day \in Instant
      /\ MailsCounted => MailCounted(calls[w].addr)
      /\ SourcesCounted => SourceCounted(calls[w].source)
  BY <1>2, CallFields
     DEF ClockInv, TypeOK, SubscriberRow, SourceRow, MailsCounted, SourcesCounted
<1>4. QED
  BY <1>1, <1>2, <1>3
     DEF OvertakenMail, OvertakenSource, MailCounted, SourceCounted, Instant, Never

LEMMA NoneOvertaken ==
    ASSUME MaxLag = 0
    PROVE  Spec => NoOvertakenMail /\ NoOvertakenSource
<1> DEFINE Inv == ClockInv /\ MailsCounted /\ SourcesCounted
<1>1. Inv /\ [Next]_vars =>
         /\ [\A w \in Workers : ~OvertakenMail(w)]_vars
         /\ [\A w \in Workers : ~OvertakenSource(w)]_vars
  BY NothingOvertaken
<1>2. Inv /\ [Next]_vars => Inv'
  BY NextClock, NextDaily, NothingOvertaken
<1>3. Init => Inv
  BY InitClock, InitDaily
<1>4. QED
  BY <1>1, <1>2, <1>3, PTL DEF Spec, NoOvertakenMail, NoOvertakenSource

\* However long requests wait, the mails and the admitted requests of one UTC day stay
\* within their limits over midnights and whatever housekeeping deletes, unless a request
\* of a later day was first at the counter (request_search, request_recovery,
\* reserve_request_source, purge_searches).
THEOREM OnlyOvertakenExceed == Spec /\ NoOvertakenMail /\ NoOvertakenSource => []DailyLimits
BY OnlyOvertakenMailsExceed, OnlyOvertakenSourcesExceed, PTL DEF DailyLimits

-----------------------------------------------------------------------------
(* The end of a request                                                    *)

\* A request in flight ends with its own transaction, and with no other step.
LEMMA RequestEnds ==
    ASSUME TypeOK, [Next]_vars, NEW w \in Workers,
           calls[w] # Idle, calls'[w] = Idle
    PROVE  Commit(w) \/ Abort(w)
<1>1. ASSUME NEW v \in Workers, Enter(v)
      PROVE  FALSE
  <2>1. calls[v] = Idle /\ \E c \in Call : calls' = [calls EXCEPT ![v] = c]
    BY <1>1, EnterType
  <2>2. QED
    BY <2>1 DEF TypeOK
<1>2. ASSUME NEW v \in Workers, Commit(v) \/ Abort(v)
      PROVE  v = w
  <2>1. Finish(v)
    BY <1>2, CommitFinishes DEF Abort
  <2>2. QED
    BY <2>1 DEF TypeOK, Finish
<1>3. CASE UNCHANGED vars \/ OpenForm \/ Purge \/ Tick
  BY <1>3 DEF vars, OpenForm, Purge, Tick
<1>4. QED
  BY <1>1, <1>2, <1>3 DEF Next

-----------------------------------------------------------------------------
(* Edit pages                                                              *)

\* What the page showed is in the past of the row, and is still there while the
\* edit version is the same.
FormTrue(form) ==
    LET row == searches[form.search] IN
    /\ row.status \notin {"unborn", "pending"}
    /\ row.status = "active" =>
          /\ form.edit_version <= row.edit_version
          /\ form.edit_version = row.edit_version =>
                /\ form.name = row.name
                /\ form.profile = row.profile
                /\ form.revision = row.criteria_revision

FormsTrue == \A form \in forms : FormTrue(form)

\* A request to save an edit carries a page that was served, of the same search.
FormsHeld ==
    \A w \in Workers : calls[w].op = "edit" =>
        calls[w].form \in forms /\ calls[w].form.search = calls[w].search

EditInv == TypeOK /\ FormsTrue /\ FormsHeld

LEMMA NewFormTrue ==
    ASSUME TypeOK, NEW s \in SearchIds, Managed(s)
    PROVE  FormTrue([search |-> s, edit_version |-> searches[s].edit_version,
                     name |-> searches[s].name, profile |-> searches[s].profile,
                     revision |-> searches[s].criteria_revision])
<1>1. searches[s].status \in {"active", "cancelled"}
  BY DEF TypeOK, RowsConsistent, Managed, Exists
<1>2. searches[s].edit_version \in Nat
  BY DEF TypeOK, SearchRow
<1>3. QED
  BY <1>1, <1>2 DEF FormTrue

\* No step, of any worker, makes a page that was served claim too much.
LEMMA FormStaysTrue ==
    ASSUME TypeOK, [Next]_vars, NEW form \in Form, FormTrue(form)
    PROVE  FormTrue(form)'
<1> DEFINE s == form.search
<1>1. s \in SearchIds /\ form.edit_version \in Nat
  BY DEF Form
<1>2. searches[s] \in SearchRow /\ searches[s].edit_version \in Nat
  BY <1>1 DEF TypeOK, SearchRow
<1>3. searches[s].status \notin {"unborn", "pending"}
  BY DEF FormTrue
<1>4. searches'[s].status \notin {"unborn", "pending"}
  <2>1. RowStep(s)
    BY <1>1, NextRow
  <2>2. QED
    BY <1>3, <2>1 DEF RowStep, QuietStep, Kept, Requested, Moved, Ended, Relinked,
                      Deleted, NoSearch
<1>5. ASSUME searches'[s].status = "active"
      PROVE  /\ form.edit_version <= searches'[s].edit_version
             /\ form.edit_version = searches'[s].edit_version =>
                   /\ form.name = searches'[s].name
                   /\ form.profile = searches'[s].profile
                   /\ form.revision = searches'[s].criteria_revision
  <2>1. searches[s].status = "active"
    BY <1>1, <1>3, <1>5, ActivationStep
  <2>2. /\ form.edit_version <= searches[s].edit_version
        /\ form.edit_version = searches[s].edit_version =>
              /\ form.name = searches[s].name
              /\ form.profile = searches[s].profile
              /\ form.revision = searches[s].criteria_revision
    BY <2>1 DEF FormTrue
  <2>3. ASSUME searches'[s].edit_version = searches[s].edit_version + 1
        PROVE  /\ form.edit_version <= searches'[s].edit_version
               /\ form.edit_version # searches'[s].edit_version
    BY <1>1, <1>2, <2>2, <2>3
  <2>4. CASE Kept(s) \/ Rekeyed(s)
    BY <1>1, <2>2, <2>4, RekeyedFields DEF Kept
  <2>5. ASSUME NEW w \in Workers, Amended(s, w) \/ Restarted(s, w)
        PROVE  searches'[s].edit_version = searches[s].edit_version + 1
    BY <1>2, <2>5, EditedFields, RestartedFields DEF Amended, Restarted
  <2>6. ASSUME NEW w \in Workers, Extended(s, w)
        PROVE  /\ searches'[s].edit_version = searches[s].edit_version
               /\ searches'[s].name = searches[s].name
               /\ searches'[s].profile = searches[s].profile
               /\ searches'[s].criteria_revision = searches[s].criteria_revision
    BY <1>2, <2>6, ExtendedFields DEF Extended
  <2>7. QED
    BY <1>1, <1>5, <2>1, <2>2, <2>3, <2>4, <2>5, <2>6, ActiveStep
<1>6. QED
  BY <1>4, <1>5 DEF FormTrue

LEMMA FormsGrow ==
    ASSUME TypeOK, [Next]_vars
    PROVE  /\ forms \subseteq forms'
           /\ \A form \in forms' : form \in forms \/ (form \in Form /\ FormTrue(form))
<1>1. CASE OpenForm
  <2>1. PICK s \in SearchIds :
          /\ Managed(s)
          /\ forms' = forms \cup
               {[search |-> s, edit_version |-> searches[s].edit_version,
                 name |-> searches[s].name, profile |-> searches[s].profile,
                 revision |-> searches[s].criteria_revision]}
    BY <1>1 DEF OpenForm
  <2>2. forms' \in SUBSET Form
    BY <1>1, OpenFormType DEF TypeOK
  <2>3. QED
    BY <2>1, <2>2, NewFormTrue
<1>2. ASSUME NEW w \in Workers, Enter(w)
      PROVE  forms' = forms
  BY <1>2, EnterType
<1>3. ASSUME NEW w \in Workers, Commit(w) \/ Abort(w)
      PROVE  forms' = forms
  BY <1>3 DEF Commit, RequestSearch, Activate, Cancel, Unsubscribe, Suppress, Edit, Renew,
              RequestRecovery, Consume, Prepare, Capture, Abort
<1>4. CASE UNCHANGED vars \/ Purge \/ Tick
  BY <1>4 DEF vars, Purge, Tick
<1>5. QED
  BY <1>1, <1>2, <1>3, <1>4 DEF Next

LEMMA NextFormsHeld ==
    ASSUME TypeOK, FormsHeld, [Next]_vars
    PROVE  FormsHeld'
<1> SUFFICES ASSUME NEW w \in Workers, calls'[w].op = "edit"
             PROVE  calls'[w].form \in forms' /\ calls'[w].form.search = calls'[w].search
  BY DEF FormsHeld
<1>1. CASE calls'[w] = calls[w]
  BY <1>1, FormsGrow DEF FormsHeld
<1>2. ASSUME NEW v \in Workers, Enter(v), calls'[w] # calls[w]
      PROVE  calls'[w].form \in forms' /\ calls'[w].form.search = calls'[w].search
  <2>1. v = w /\ forms' = forms
    BY <1>2, EnterType DEF TypeOK
  <2>2. SubmitEdit(w)
    BY <1>2, <2>1 DEF Enter, SubmitSearch, PressConfirm, PressCancel, PressRenew,
         PressManage, PostUnsubscribe, SubmitRecovery, PressRecover, OrderSuppression,
         RunPrepare, RunCapture, Receive, TypeOK
  <2>3. QED
    BY <2>1, <2>2 DEF SubmitEdit, Receive, TypeOK
<1>3. ASSUME NEW v \in Workers, Commit(v) \/ Abort(v)
      PROVE  calls'[w] = calls[w]
  <2>1. Finish(v)
    BY <1>3, CommitFinishes DEF Abort
  <2>2. QED
    BY <2>1 DEF Finish, Idle, TypeOK
<1>4. CASE UNCHANGED vars \/ OpenForm \/ Purge \/ Tick
  BY <1>1, <1>4 DEF vars, OpenForm, Purge, Tick
<1>5. QED
  BY <1>1, <1>2, <1>3, <1>4 DEF Next

LEMMA EditNext == EditInv /\ [Next]_vars => EditInv'
<1> SUFFICES ASSUME EditInv, [Next]_vars PROVE EditInv'
  OBVIOUS
<1>1. TypeOK /\ FormsHeld /\ TypeOK' /\ FormsHeld'
  BY NextType, NextFormsHeld DEF EditInv
<1>2. ASSUME NEW form \in forms'
      PROVE  FormTrue(form)'
  <2>1. form \in Form /\ FormTrue(form)
    BY <1>1, FormsGrow DEF EditInv, FormsTrue, TypeOK
  <2>2. QED
    BY <1>1, <2>1, FormStaysTrue
<1>3. QED
  BY <1>1, <1>2 DEF EditInv, FormsTrue

LEMMA EditInit == Init => EditInv
BY InitType DEF Init, EditInv, FormsTrue, FormsHeld, Idle

\* However many pages are open and whoever saves first, an edit that is saved was
\* made on a page that showed what it replaces (edit, renew).
THEOREM EditSawCurrentHolds == Spec => EditSawCurrent
<1>1. ASSUME EditInv, [Next]_vars, NEW w \in Workers,
             calls[w].op = "edit", calls'[w] = Idle,
             searches'[calls[w].search] # searches[calls[w].search]
      PROVE  /\ calls[w].form.revision = searches[calls[w].search].criteria_revision
             /\ calls[w].form.name = searches[calls[w].search].name
             /\ calls[w].form.profile = searches[calls[w].search].profile
  <2>1. Commit(w) \/ Abort(w)
    BY <1>1, RequestEnds DEF EditInv, Idle
  <2>2. Edit(w)
    BY <1>1, <2>1 DEF Abort, tables, Commit, RequestSearch, Activate, Cancel,
         Unsubscribe, Suppress, Renew, RequestRecovery, Consume, Prepare, Capture
  <2>3. Editable(calls[w])
    BY <1>1, <2>2 DEF Edit
  <2>4. FormTrue(calls[w].form) /\ calls[w].form.search = calls[w].search
    BY <1>1 DEF EditInv, FormsTrue, FormsHeld
  <2>5. QED
    BY <2>3, <2>4 DEF Editable, FormTrue
<1>2. EditInv /\ [Next]_vars =>
        [\A w \in Workers :
            LET s == calls[w].search  form == calls[w].form IN
            /\ calls[w].op = "edit"
            /\ calls'[w] = Idle
            /\ searches'[s] # searches[s]
            => /\ form.revision = searches[s].criteria_revision
               /\ form.name = searches[s].name
               /\ form.profile = searches[s].profile]_vars
  BY <1>1
<1>3. QED
  BY <1>2, EditInit, EditNext, PTL DEF Spec, EditSawCurrent

\* However long requests wait, a search that had lapsed comes back only with a new
\* revision and with every open edit page made stale, except by a renewal in whose
\* wait it lapsed (renew, edit).
THEOREM OnlyStaleRenewalsResume == Spec /\ NoStaleRenewal => ReactivationRestarts
<1>1. ASSUME EditInv, Recent, [Next]_vars, \A w \in Workers : ~StaleRenewal(w),
             NEW s \in SearchIds,
             searches[s].status = "active", ~ActiveAt(s, clock), ActiveAt(s, clock)'
      PROVE  /\ searches'[s].criteria_revision > searches[s].criteria_revision
             /\ \A form \in forms :
                   form.search = s => form.edit_version # searches'[s].edit_version
  <2>1. TypeOK /\ TypeOK' /\ searches[s] \in SearchRow
    BY <1>1, NextType DEF EditInv, TypeOK
  <2>2. searches'[s].status = "active" /\ searches'[s].expires_at > clock'
    BY <1>1 DEF ActiveAt
  <2>3. /\ searches[s].expires_at \in Nat /\ searches'[s].expires_at \in Nat
        /\ clock \in Nat /\ clock' \in Nat
        /\ searches[s].expires_at <= clock
    BY <1>1, <2>1, <2>2 DEF TypeOK, RowsConsistent, ActiveAt
  <2>4. clock' >= clock
    BY <1>1, <2>1, NextRecent
  <2>5. searches'[s].expires_at # searches[s].expires_at
    BY <2>2, <2>3, <2>4
  <2>6. ~Kept(s) /\ ~Rekeyed(s)
    BY <2>1, <2>5, RekeyedFields DEF Kept
  <2>7. ASSUME NEW w \in Workers
        PROVE  ~Amended(s, w) /\ ~Extended(s, w)
    <3>1. ~Amended(s, w)
      BY <2>1, <2>5, EditedRowType DEF Amended
    <3>2. ~Extended(s, w)
      BY <1>1, <2>3, <2>5 DEF Extended, StaleRenewal, Lapsed
    <3>3. QED
      BY <3>1, <3>2
  <2>8. PICK w \in Workers : Restarted(s, w)
    BY <1>1, <2>1, <2>2, <2>6, <2>7, ActiveStep
  <2>9. /\ searches'[s].criteria_revision = searches[s].criteria_revision + 1
        /\ searches'[s].edit_version = searches[s].edit_version + 1
    BY <2>1, <2>8, RestartedFields DEF Restarted
  <2>10. ASSUME NEW form \in forms, form.search = s
         PROVE  form.edit_version \in Nat /\ form.edit_version <= searches[s].edit_version
    BY <1>1, <2>1, <2>10 DEF EditInv, FormsTrue, FormTrue, TypeOK, Form
  <2>11. searches[s].criteria_revision \in Nat /\ searches[s].edit_version \in Nat
    BY <2>1 DEF SearchRow
  <2>12. QED
    BY <2>9, <2>10, <2>11
<1>2. EditInv /\ Recent /\ [Next]_vars /\ [\A w \in Workers : ~StaleRenewal(w)]_vars =>
        [\A s \in SearchIds :
            /\ searches[s].status = "active"
            /\ ~ActiveAt(s, clock)
            /\ ActiveAt(s, clock)'
            => /\ searches'[s].criteria_revision > searches[s].criteria_revision
               /\ \A form \in forms :
                     form.search = s => form.edit_version # searches'[s].edit_version]_vars
  BY <1>1
<1>3. ClockInv => Recent
  BY DEF ClockInv
<1>4. QED
  BY <1>2, <1>3, InitClock, NextClock, EditInit, EditNext, PTL
     DEF Spec, NoStaleRenewal, ReactivationRestarts

-----------------------------------------------------------------------------
(* A commit that is lost                                                   *)

LEMMA LossyIncludesNext == ASSUME [Next]_vars PROVE [LossyNext]_vars
BY DEF LossyNext

\* A lost commit leaves the tables as they were.
LEMMA LostCommitType ==
    ASSUME TypeOK, NEW w \in Workers, LoseCommit(w)
    PROVE  /\ TypeOK'
           /\ UNCHANGED <<clock, tables, forms>>
           /\ Finish(w) /\ calls[w].op \in {"request", "recover"}
           /\ calls[w].addr \in Addresses
           /\ links' \in {links, links \cup MailedLink(calls[w].addr)}
           /\ links' # links => subscribers[calls[w].addr].live
<1> DEFINE c == calls[w]
           a == c.addr
<1>1. c \in Call \cup {Idle} /\ c.op \in {"request", "recover"}
  BY DEF TypeOK, LoseCommit
<1>2. a \in Addresses
  BY <1>1, CallFields
<1>3. /\ UNCHANGED <<clock, tables, forms, admitted>>
      /\ Finish(w) /\ Mail(a, c.now)
      /\ links' \in {links, links \cup MailedLink(a)}
      /\ links' # links => subscribers[a].live
  BY DEF LoseCommit, MayRecover
<1>4. links' \in SUBSET Link
  <2>1. MailedLink(a) \subseteq Link
    BY <1>2 DEF MailedLink, Link, TypeOK, SubscriberRow
  <2>2. QED
    BY <1>3, <2>1 DEF TypeOK
<1>5. mailed' \in [Addresses -> Nat]
  BY <1>2, <1>3, MailType
<1>6. calls' \in [Workers -> Call \cup {Idle}]
  BY <1>3, FinishType
<1>7. RowsConsistent'
  BY <1>3 DEF TypeOK, RowsConsistent, Exists, tables
<1>8. TypeOK'
  BY <1>3, <1>4, <1>5, <1>6, <1>7 DEF TypeOK, tables
<1>9. QED
  BY <1>1, <1>2, <1>3, <1>8

-----------------------------------------------------------------------------
(* The keys and versions of a subscriber                                   *)

\* A key never comes back: the row of an address that returns gets the next one.
\* Under one key the recovery version only grows and a suppression stays.
KeyStep(a) ==
    LET row == subscribers[a]  new == subscribers'[a] IN
    /\ new.id >= row.id
    /\ new.live =>
          \/ /\ row.live
             /\ new.id = row.id
             /\ new.recovery_version >= row.recovery_version
             /\ row.suppressed => new.suppressed
          \/ ~row.live /\ new.id = row.id + 1

LEMMA RowVersions ==
    ASSUME NEW row \in SubscriberRow
    PROVE  /\ SuppressedRow(row).id = row.id
           /\ SuppressedRow(row).suppressed
           /\ SuppressedRow(row).live = row.live
           /\ SuppressedRow(row).recovery_version >= row.recovery_version
           /\ \A replace \in BOOLEAN :
                 /\ ConsumedRow(row, replace).id = row.id
                 /\ ConsumedRow(row, replace).live = row.live
                 /\ ConsumedRow(row, replace).suppressed = row.suppressed
                 /\ ConsumedRow(row, replace).recovery_version = row.recovery_version + 1
           /\ \A a, day :
                 /\ CountedMail(a, row, day).id = row.id
                 /\ CountedMail(a, row, day).live = row.live
                 /\ CountedMail(a, row, day).suppressed = row.suppressed
                 /\ CountedMail(a, row, day).recovery_version = row.recovery_version
<1>1. row.recovery_version \in Nat
  BY DEF SubscriberRow
<1>2. ASSUME NEW replace \in BOOLEAN
      PROVE  /\ ConsumedRow(row, replace).id = row.id
             /\ ConsumedRow(row, replace).live = row.live
             /\ ConsumedRow(row, replace).suppressed = row.suppressed
             /\ ConsumedRow(row, replace).recovery_version = row.recovery_version + 1
  BY DEF ConsumedRow, SubscriberRow
<1>3. /\ SuppressedRow(row).id = row.id
      /\ SuppressedRow(row).suppressed
      /\ SuppressedRow(row).live = row.live
      /\ SuppressedRow(row).recovery_version >= row.recovery_version
  BY <1>1 DEF SuppressedRow, SubscriberRow
<1>4. ASSUME NEW a, NEW day
      PROVE  /\ CountedMail(a, row, day).id = row.id
             /\ CountedMail(a, row, day).live = row.live
             /\ CountedMail(a, row, day).suppressed = row.suppressed
             /\ CountedMail(a, row, day).recovery_version = row.recovery_version
  BY DEF CountedMail, SubscriberRow
<1>5. QED
  BY <1>2, <1>3, <1>4

\* get_or_create keeps a row that lives, and starts a new key otherwise.
LEMMA KnownVersions ==
    ASSUME TypeOK, NEW a \in Addresses
    PROVE  /\ Known(a) \in SubscriberRow
           /\ subscribers[a].live => Known(a) = subscribers[a]
           /\ ~subscribers[a].live => Known(a).id = subscribers[a].id + 1
<1>1. Known(a) \in SubscriberRow
  BY KnownType
<1>2. QED
  BY <1>1 DEF Known, NewSubscriber, NoSubscriber

LEMMA MailKeys ==
    ASSUME TypeOK, NEW a \in Addresses,
           NEW w \in Workers, RequestSearch(w) \/ RequestRecovery(w)
    PROVE  KeyStep(a)
<1> DEFINE c == calls[w]
           b == c.addr
<1>1. subscribers[a] \in SubscriberRow /\ subscribers[a].id \in Nat
      /\ subscribers[a].recovery_version \in Nat
  BY DEF TypeOK, SubscriberRow
<1>2. CASE subscribers'[a] = subscribers[a]
  BY <1>1, <1>2 DEF KeyStep
<1>3. CASE a = b
  <2>1. \/ subscribers'[a] \in {subscribers[a], Known(a)}
        \/ subscribers'[a] = CountedMail(a, Known(a), Day(c.now))
        \/ /\ subscribers[a].live
           /\ subscribers'[a] = CountedMail(a, subscribers[a], Day(c.now))
    BY <1>3 DEF RequestSearch, RequestRecovery, MayRecover, TypeOK
  <2>2. subscribers[a].live => Known(a) = subscribers[a]
    BY KnownVersions
  <2>3. /\ Known(a) \in SubscriberRow
        /\ ~subscribers[a].live => Known(a).id = subscribers[a].id + 1
    BY KnownVersions
  <2>4. ASSUME NEW row \in {subscribers[a], Known(a)},
               subscribers'[a] \in {row, CountedMail(a, row, Day(c.now))}
        PROVE  /\ subscribers'[a].id = row.id
               /\ subscribers'[a].live = row.live
               /\ subscribers'[a].suppressed = row.suppressed
               /\ subscribers'[a].recovery_version = row.recovery_version
    BY <1>1, <2>3, <2>4, RowVersions
  <2>5. CASE subscribers[a].live
    BY <1>1, <2>1, <2>2, <2>4, <2>5 DEF KeyStep
  <2>6. CASE ~subscribers[a].live
    BY <1>1, <1>2, <2>1, <2>3, <2>4, <2>6 DEF KeyStep
  <2>7. QED
    BY <2>5, <2>6
<1>4. CASE a # b
  BY <1>2, <1>4 DEF RequestSearch, RequestRecovery, TypeOK
<1>5. QED
  BY <1>3, <1>4

LEMMA NextKeys ==
    ASSUME TypeOK, [Next]_vars, NEW a \in Addresses
    PROVE  KeyStep(a)
<1>1. subscribers[a] \in SubscriberRow /\ subscribers[a].id \in Nat
      /\ subscribers[a].recovery_version \in Nat
  BY DEF TypeOK, SubscriberRow
<1>2. CASE subscribers'[a] = subscribers[a]
  BY <1>1, <1>2 DEF KeyStep
<1>3. ASSUME NEW w \in Workers, Suppress(w)
      PROVE  KeyStep(a)
  <2>1. subscribers'[a] \in {subscribers[a], SuppressedRow(subscribers[a])}
    BY <1>3 DEF Suppress, Suppressing, TypeOK
  <2>2. QED
    BY <1>1, <1>2, <2>1, RowVersions DEF KeyStep
<1>4. ASSUME NEW w \in Workers, Consume(w)
      PROVE  KeyStep(a)
  <2>1. calls[w].replace \in BOOLEAN
    BY <1>4, CallFields DEF Consume, TypeOK
  <2>2. \E replace \in BOOLEAN :
          subscribers'[a] \in {subscribers[a], ConsumedRow(subscribers[a], replace)}
    BY <1>4, <2>1 DEF Consume, TypeOK
  <2>3. QED
    BY <1>1, <1>2, <2>2, RowVersions DEF KeyStep
<1>5. CASE Purge
  <2>1. subscribers'[a] \in {subscribers[a], NoSubscriber(subscribers[a].id)}
    BY <1>5 DEF Purge
  <2>2. QED
    BY <1>1, <1>2, <2>1 DEF KeyStep, NoSubscriber
<1>6. ASSUME NEW w \in Workers, Enter(w)
      PROVE  subscribers' = subscribers
  BY <1>6, EnterType DEF tables
<1>7. QED
  BY <1>2, <1>3, <1>4, <1>5, <1>6, MailKeys
     DEF Next, Commit, Activate, Cancel, Unsubscribe, Edit, Renew, Prepare, Capture,
         Abort, OpenForm, Tick, tables, vars

-----------------------------------------------------------------------------
(* Recovery links that were mailed                                         *)

\* Every recovery link that was mailed, by a transaction that was saved or not, was
\* signed over a key and a version the address already had.
LinksPast ==
    \A l \in links :
        LET row == subscribers[l.addr] IN
        /\ l.id <= row.id
        /\ row.live /\ row.id = l.id => l.version <= row.recovery_version

LossyInv == LifeInv /\ LinksPast

\* A link of this step is signed over the row as it is and as it stays.
LEMMA NewLinks ==
    ASSUME TypeOK, [LossyNext]_vars, NEW l \in links', l \notin links
    PROVE  /\ l.addr \in Addresses
           /\ l.id = subscribers[l.addr].id
           /\ l.version = subscribers[l.addr].recovery_version
           /\ subscribers[l.addr].live
<1>1. ASSUME NEW w \in Workers, RequestRecovery(w) \/ LoseCommit(w)
      PROVE  /\ calls[w].addr \in Addresses
             /\ l \in MailedLink(calls[w].addr)
             /\ subscribers[calls[w].addr].live
  <2>1. CASE RequestRecovery(w)
    <3>1. calls[w].addr \in Addresses
      BY <2>1, CallFields DEF RequestRecovery, TypeOK
    <3>2. QED
      BY <2>1, <3>1 DEF RequestRecovery, MayRecover, MailedLink
  <2>2. CASE LoseCommit(w)
    BY <2>2, LostCommitType
  <2>3. QED
    BY <1>1, <2>1, <2>2
<1>2. ASSUME NEW w \in Workers, Enter(w)
      PROVE  links' = links
  BY <1>2, EnterType
<1>3. PICK w \in Workers : RequestRecovery(w) \/ LoseCommit(w)
  BY <1>2 DEF LossyNext, Next, Commit, RequestSearch, Activate, Cancel, Unsubscribe,
       Suppress, Edit, Renew, Consume, Prepare, Capture, Abort, OpenForm, Purge, Tick, vars
<1>4. QED
  BY <1>1, <1>3 DEF MailedLink

\* Under a key that stays, a link's version is never overtaken backwards.
LEMMA LossyKeys ==
    ASSUME TypeOK, [LossyNext]_vars, NEW a \in Addresses
    PROVE  KeyStep(a)
<1>1. ASSUME NEW w \in Workers, LoseCommit(w)
      PROVE  subscribers' = subscribers
  BY <1>1, LostCommitType DEF tables
<1>2. CASE subscribers' = subscribers
  BY <1>2 DEF KeyStep, TypeOK, SubscriberRow
<1>3. QED
  BY <1>1, <1>2, NextKeys DEF LossyNext

LEMMA LossyType ==
    ASSUME LifeInv, [LossyNext]_vars
    PROVE  LifeInv'
<1>1. ASSUME NEW w \in Workers, LoseCommit(w)
      PROVE  LifeInv'
  <2>1. TypeOK' /\ UNCHANGED tables
    BY <1>1, LostCommitType DEF LifeInv
  <2>2. QED
    BY <2>1 DEF LifeInv, tables, SuppressedLive, SuppressionStops, CancelledEmpty,
                SearchesOf, Exists
<1>2. QED
  BY <1>1, LifeNext DEF LossyNext

LEMMA LossyInvNext == LossyInv /\ [LossyNext]_vars => LossyInv'
<1> SUFFICES ASSUME LossyInv, [LossyNext]_vars PROVE LossyInv'
  OBVIOUS
<1>1. LifeInv /\ TypeOK /\ LinksPast /\ LifeInv' /\ TypeOK'
  BY LossyType DEF LossyInv, LifeInv
<1>2. ASSUME NEW l \in links'
      PROVE  LET row == subscribers'[l.addr] IN
             /\ l.id <= row.id
             /\ row.live /\ row.id = l.id => l.version <= row.recovery_version
  <2>1. l \in Link /\ l.addr \in Addresses /\ l.id \in Nat /\ l.version \in Nat
    BY <1>1 DEF TypeOK, Link
  <2>2. /\ subscribers[l.addr].id \in Nat /\ subscribers[l.addr].recovery_version \in Nat
        /\ subscribers'[l.addr].id \in Nat /\ subscribers'[l.addr].recovery_version \in Nat
    BY <1>1, <2>1 DEF TypeOK, SubscriberRow
  <2>3. LET row == subscribers[l.addr] IN
        /\ l.id <= row.id
        /\ row.live /\ row.id = l.id => l.version <= row.recovery_version
    BY <1>1, <2>2, NewLinks DEF LinksPast
  <2>4. KeyStep(l.addr)
    BY <1>1, <2>1, LossyKeys
  <2>5. QED
    BY <2>1, <2>2, <2>3, <2>4 DEF KeyStep
<1>3. QED
  BY <1>1, <1>2 DEF LossyInv, LinksPast

LEMMA LossyInvInit == Init => LossyInv
BY LifeInit DEF Init, LossyInv, LinksPast

-----------------------------------------------------------------------------
(* What links can still do                                                 *)

\* The service whose commits all succeed is a special case.
THEOREM SpecIsLossy == Spec => LossySpec
<1>1. [Next]_vars => [LossyNext]_vars
  BY LossyIncludesNext
<1>2. QED
  BY <1>1, PTL DEF Spec, LossySpec

\* Not even a mail whose transaction was lost lifts a suppression or starts a new
\* row beside it.
THEOREM SuppressionSurvivesLoss == LossySpec => SuppressionLasts
<1>1. ASSUME LossyInv, [LossyNext]_vars, NEW a \in Addresses, subscribers[a].suppressed
      PROVE  subscribers'[a].suppressed /\ subscribers'[a].id = subscribers[a].id
  <2>1. ASSUME NEW w \in Workers, LoseCommit(w)
        PROVE  subscribers' = subscribers
    BY <1>1, <2>1, LostCommitType DEF LossyInv, LifeInv, tables
  <2>2. QED
    BY <1>1, <2>1, NextOwner DEF LossyInv, LifeInv, OwnerStep, LossyNext
<1>2. LossyInv /\ [LossyNext]_vars =>
        [\A a \in Addresses : subscribers[a].suppressed =>
            subscribers'[a].suppressed /\ subscribers'[a].id = subscribers[a].id]_vars
  BY <1>1
<1>3. QED
  BY <1>2, LossyInvInit, LossyInvNext, PTL DEF LossySpec, SuppressionLasts

\* Nor does a lost commit do anything to a search that was not promised.
THEOREM PromiseSurvivesLoss == LossySpec => KeepsSearchPromise
<1>1. ASSUME PromiseInv, NEW w \in Workers, LoseCommit(w)
      PROVE  Recent' /\ UNCHANGED <<clock, Lives, Silent>>
  <2>1. UNCHANGED <<clock, tables, forms>> /\ Finish(w)
    BY <1>1, LostCommitType DEF PromiseInv, LifeInv
  <2>2. QED
    BY <1>1, <2>1, FinishKeepsRecent
       DEF PromiseInv, LifeInv, tables, Lives, LifeOf, Silent
<1>2. PromiseInv /\ [LossyNext]_vars => PromiseInv'
  BY <1>1, LossyType, NextRecent DEF PromiseInv, LifeInv, LossyNext
<1>3. PromiseInv /\ [LossyNext]_vars => [Promise!Next]_(Promise!vars)
  BY <1>1, PromiseStep DEF LossyNext, Promise!vars
<1>4. Init => PromiseInv
  BY LifeInit, TermInit DEF PromiseInv, TermInv
<1>5. QED
  BY <1>2, <1>3, <1>4, PromiseInit, PTL DEF LossySpec, KeepsSearchPromise, Promise!Spec

\* A request that resolved a management link before the links were replaced changes
\* nothing when it gets the lock after (Authorised in cancel, edit and renew).
THEOREM ReplacedLinksPowerlessHolds == LossySpec => ReplacedLinksPowerless
<1>1. ASSUME TypeOK, [LossyNext]_vars, NEW w \in Workers,
             calls[w].op \in {"cancel", "renew", "edit"}, calls'[w] = Idle,
             calls[w].version # searches[calls[w].search].management_version
      PROVE  searches' = searches
  <2>1. ~Authorised(calls[w])
    BY <1>1 DEF Authorised
  <2>2. CASE [Next]_vars
    <3>1. Commit(w) \/ Abort(w)
      BY <1>1, <2>2, RequestEnds DEF Idle
    <3>2. Abort(w) \/ Cancel(w) \/ Renew(w) \/ Edit(w)
      BY <1>1, <3>1 DEF Commit, RequestSearch, Activate, Unsubscribe, Suppress,
           RequestRecovery, Consume, Prepare, Capture
    <3>3. QED
      BY <2>1, <3>2 DEF Abort, tables, Cancel, Renew, MayRenew, Edit, Editable
  <2>3. ASSUME NEW v \in Workers, LoseCommit(v)
        PROVE  searches' = searches
    BY <1>1, <2>3, LostCommitType DEF tables
  <2>4. QED
    BY <1>1, <2>2, <2>3 DEF LossyNext
<1>2. LossyInv /\ [LossyNext]_vars =>
        [\A w \in Workers :
            /\ calls[w].op \in {"cancel", "renew", "edit"}
            /\ calls'[w] = Idle
            /\ calls[w].version # searches[calls[w].search].management_version
            => searches' = searches]_vars
  BY <1>1 DEF LossyInv, LifeInv
<1>3. QED
  BY <1>2, LossyInvInit, LossyInvNext, PTL DEF LossySpec, ReplacedLinksPowerless

\* The first use of a recovery link closes every other one mailed to the address,
\* those of lost transactions included (consume).
THEOREM UseKillsAllLinksHolds == LossySpec => UseKillsAllLinks
<1>1. ASSUME LossyInv, NEW w \in Workers, Consume(w), LinkOpens(calls[w].link),
             NEW l \in links, l.addr = calls[w].link.addr
      PROVE  ~LinkOpens(l)'
  <2> DEFINE a == l.addr
  <2>1. /\ calls[w].replace \in BOOLEAN /\ TypeOK
    BY <1>1, CallFields DEF Consume, LossyInv, LifeInv, TypeOK
  <2>2. /\ a \in Addresses /\ subscribers[a] \in SubscriberRow
        /\ subscribers[a].recovery_version \in Nat /\ l.version \in Nat
    BY <1>1, <2>1 DEF TypeOK, Link, SubscriberRow
  <2>3. subscribers'[a] = ConsumedRow(subscribers[a], calls[w].replace)
    BY <1>1, <2>1, <2>2 DEF Consume, TypeOK
  <2>4. /\ subscribers'[a].id = subscribers[a].id
        /\ subscribers'[a].live = subscribers[a].live
        /\ subscribers'[a].recovery_version = subscribers[a].recovery_version + 1
    BY <2>1, <2>2, <2>3, RowVersions
  <2>5. subscribers[a].live /\ subscribers[a].id = l.id =>
          l.version <= subscribers[a].recovery_version
    BY <1>1 DEF LossyInv, LinksPast
  <2>6. QED
    BY <2>2, <2>4, <2>5 DEF LinkOpens
<1>2. LossyInv =>
        [\A w \in Workers :
            Consume(w) /\ LinkOpens(calls[w].link) =>
                \A link \in links : link.addr = calls[w].link.addr => ~LinkOpens(link)']_vars
  BY <1>1
<1>3. QED
  BY <1>2, LossyInvInit, LossyInvNext, PTL DEF LossySpec, UseKillsAllLinks

LEMMA LossyClock ==
    ASSUME TypeOK, [LossyNext]_vars
    PROVE  clock \in Nat /\ clock' \in Nat /\ clock' >= clock
<1>1. clock \in Nat
  BY DEF TypeOK
<1>2. ASSUME NEW w \in Workers, Enter(w) \/ Commit(w) \/ Abort(w) \/ LoseCommit(w)
      PROVE  clock' = clock
  BY <1>2, EnterType, CommitFinishes, LostCommitType DEF Abort
<1>3. QED
  BY <1>1, <1>2 DEF LossyNext, Next, OpenForm, Purge, Tick, vars

\* A recovery link that is used, replaced, suppressed, expired or orphaned never
\* opens again, not even for the row a deleted address gets when it returns.
THEOREM DeadLinksStayDeadHolds == LossySpec => DeadLinksStayDead
<1>1. ASSUME LossyInv, [LossyNext]_vars, NEW l \in links, LinkOpens(l)'
      PROVE  LinkOpens(l)
  <2> DEFINE a == l.addr
  <2>1. TypeOK /\ TypeOK'
    BY <1>1, LossyType DEF LossyInv, LifeInv
  <2>2. /\ a \in Addresses /\ l.id \in Nat /\ l.version \in Nat /\ l.issued \in Nat
        /\ subscribers[a].id \in Nat /\ subscribers[a].recovery_version \in Nat
        /\ RecoveryTerm \in Nat
    BY <2>1, TimeAssumption DEF TypeOK, Link, SubscriberRow
  <2>3. /\ subscribers'[a].live /\ subscribers'[a].id = l.id /\ ~subscribers'[a].suppressed
        /\ subscribers'[a].recovery_version = l.version
        /\ clock' - l.issued <= RecoveryTerm
    BY <1>1 DEF LinkOpens
  <2>4. clock - l.issued <= RecoveryTerm
    BY <1>1, <2>1, <2>2, <2>3, LossyClock
  <2>5. KeyStep(a)
    BY <1>1, <2>1, <2>2, LossyKeys
  <2>6. /\ l.id <= subscribers[a].id
        /\ subscribers[a].live /\ subscribers[a].id = l.id =>
              l.version <= subscribers[a].recovery_version
    BY <1>1 DEF LossyInv, LinksPast
  <2>7. /\ subscribers[a].live /\ subscribers[a].id = l.id /\ ~subscribers[a].suppressed
        /\ subscribers[a].recovery_version = l.version
    BY <2>2, <2>3, <2>5, <2>6 DEF KeyStep
  <2>8. QED
    BY <2>4, <2>7 DEF LinkOpens
<1>2. LossyInv /\ [LossyNext]_vars =>
        [\A link \in links : ~LinkOpens(link) => ~LinkOpens(link)']_vars
  BY <1>1
<1>3. QED
  BY <1>2, LossyInvInit, LossyInvNext, PTL DEF LossySpec, DeadLinksStayDead

-----------------------------------------------------------------------------
(* The limits when commits are lost                                        *)

\* A mail that leaves without its transaction takes no place and no admission.
LEMMA LostCommitLimits ==
    ASSUME ClockInv, NEW w \in Workers, LoseCommit(w)
    PROVE  /\ ClockInv'
           /\ AddressLimit => AddressLimit'
           /\ SubscriberLimit => SubscriberLimit'
           /\ PendingLimit => PendingLimit'
           /\ SourcesCounted => SourcesCounted'
<1>1. /\ TypeOK' /\ UNCHANGED <<clock, tables>> /\ Finish(w)
      /\ admitted' = admitted
  BY LostCommitType DEF ClockInv, LoseCommit
<1>2. ClockInv'
  BY <1>1, FinishKeepsRecent DEF ClockInv
<1>3. searches' = searches /\ sources' = sources /\ clock' = clock
  BY <1>1 DEF tables
<1>4. (AddressLimit => AddressLimit') /\ (SubscriberLimit => SubscriberLimit')
  BY <1>3, NothingGained DEF ActiveAt
<1>5. PendingLimit => PendingLimit'
  BY <1>3 DEF PendingLimit, Pending
<1>6. SourcesCounted => SourcesCounted'
  BY <1>1, <1>3, SourcesUntouched
<1>7. QED
  BY <1>2, <1>4, <1>5, <1>6

LEMMA LossyClockInv == ClockInv /\ [LossyNext]_vars => ClockInv'
BY LostCommitLimits, NextClock DEF LossyNext

\* A lost commit adds no way to exceed the limits of searches and sources (the limit
\* of mails it does exceed: the mail is gone and its counter is not).
THEOREM AddressLimitSurvivesLoss == LossySpec /\ NoStaleRenewal => []AddressLimit
<1>1. ClockInv /\ AddressLimit /\ [LossyNext]_vars
        /\ [\A w \in Workers : ~StaleRenewal(w)]_vars => AddressLimit'
  <2>1. UNCHANGED vars => (AddressLimit => AddressLimit')
    BY NothingGained DEF vars, ActiveAt
  <2>2. QED
    BY <2>1, NextLimits, LostCommitLimits DEF LossyNext
<1>2. QED
  BY <1>1, InitClock, LossyClockInv, InitLimits, PTL DEF LossySpec, NoStaleRenewal

\* Nor a way to exceed the limits of subscribers and of pending searches.
THEOREM ServiceLimitsSurviveLoss == LossySpec /\ NoStaleSlot => []ServiceLimits
<1> DEFINE Inv == ClockInv /\ SubscriberLimit /\ PendingLimit
<1>1. Init => Inv
  <2>1. Init => Pending = {}
    BY DEF Init, Pending, NoSearch
  <2>2. QED
    BY <2>1, InitClock, InitLimits, FS_EmptySet, LimitAssumption DEF PendingLimit
<1>2. Inv /\ [LossyNext]_vars /\ [\A w \in Workers : ~StaleSlot(w)]_vars => Inv'
  <2> SUFFICES ASSUME Inv, [LossyNext]_vars, [\A w \in Workers : ~StaleSlot(w)]_vars
               PROVE  Inv'
    OBVIOUS
  <2>1. ClockInv'
    BY LossyClockInv
  <2>2. CASE UNCHANGED vars
    BY <2>1, <2>2, NothingGained DEF vars, ActiveAt, PendingLimit, Pending
  <2>3. ASSUME NEW w \in Workers, LoseCommit(w) PROVE Inv'
    BY <2>3, LostCommitLimits
  <2>4. CASE Next /\ \A w \in Workers : ~StaleSlot(w)
    BY <2>1, <2>4, NextLimits, NextPending DEF PendingInv, ClockInv
  <2>5. QED
    BY <2>2, <2>3, <2>4 DEF LossyNext
<1>3. Inv => ServiceLimits
  BY DEF ServiceLimits
<1>4. QED
  BY <1>1, <1>2, <1>3, PTL DEF LossySpec, NoStaleSlot

\* What a lost request was admitted for is not counted, and not held against the source.
THEOREM SourceLimitSurvivesLoss == LossySpec /\ NoOvertakenSource => []SourceLimit
<1>1. ClockInv /\ SourcesCounted /\ [LossyNext]_vars
        /\ [\A w \in Workers : ~OvertakenSource(w)]_vars => SourcesCounted'
  <2>1. UNCHANGED vars => (SourcesCounted => SourcesCounted')
    BY SourcesUntouched DEF vars, tables
  <2>2. QED
    BY <2>1, NextDaily, LostCommitLimits DEF LossyNext
<1>2. SourcesCounted => SourceLimit
  BY DEF SourcesCounted, SourceCounted, SourceLimit
<1>3. QED
  BY <1>1, <1>2, InitClock, LossyClockInv, InitDaily, PTL DEF LossySpec, NoOvertakenSource
=============================================================================
