------------------------- MODULE SubscriptionsProofs -------------------------
(***************************************************************************)
(* Theorems about Subscriptions, for every value of its constants: its     *)
(* types, and the life of a search for any lag between the reads of a view *)
(* and the commit of its transaction. Cancellation and suppression are     *)
(* final, terms and criteria revisions follow the code's rules, the        *)
(* deadlines of housekeeping meet those of the services, reminders show    *)
(* what is current, and the whole implements SearchPromise.                *)
(***************************************************************************)
EXTENDS Subscriptions, FiniteSetTheorems, TLAPS

-----------------------------------------------------------------------------
(* The days are naturals and do not run backwards.                         *)

LEMMA DayType == ASSUME NEW t \in Nat PROVE Day(t) \in Nat
BY TimeAssumption DEF Day

LEMMA DayMonotone == ASSUME NEW t \in Nat, NEW u \in Nat, t <= u PROVE Day(t) <= Day(u)
BY TimeAssumption DEF Day

(* What a worker holds, by the operation it serves.                        *)

LEMMA CallFields ==
    ASSUME NEW c \in Call \cup {Idle}
    PROVE  /\ c.op # "idle" => c.now \in Nat
           /\ c.op \in {"request", "recover"} =>
                 c.addr \in Addresses /\ c.source \in Sources
           /\ c.op = "request" => c.name \in Names /\ c.profile \in Profiles
           /\ c.op \in {"activate", "cancel", "renew", "edit", "unsubscribe", "capture"} =>
                 c.search \in SearchIds
           /\ c.op \in {"activate", "cancel", "renew", "edit"} => c.version \in Nat
           /\ c.op = "edit" => c.form \in Form /\ c.name \in Names /\ c.profile \in Profiles
           /\ c.op = "consume" => c.link \in Link /\ c.replace \in BOOLEAN
           /\ c.op = "suppress" => c.addr \in Addresses /\ c.id \in Nat
           /\ c.op = "capture" => c.expires_at \in Instant
           /\ c # Idle => c.op # "idle"
BY DEF Call, Idle

(* What a transaction writes is a row again.                               *)

LEMMA ActivatedRowType ==
    ASSUME NEW row \in SearchRow, NEW now \in Nat
    PROVE  /\ ActivatedRow(row, now) \in SearchRow
           /\ ActivatedRow(row, now).status = "active"
           /\ ActivatedRow(row, now).owner = row.owner
           /\ ActivatedRow(row, now).expires_at = now + Term
           /\ now + Term \in Nat
<1>1. now + Term \in Nat
  BY TimeAssumption
<1>2. row.confirmation_version + 1 \in Nat
  BY DEF SearchRow
<1>3. ActivatedRow(row, now) \in SearchRow
  BY <1>1, <1>2 DEF ActivatedRow, SearchRow, Instant
<1>4. QED
  BY <1>1, <1>3 DEF ActivatedRow, SearchRow

LEMMA CancelledRowType ==
    ASSUME NEW row \in SearchRow, NEW now \in Nat
    PROVE  /\ CancelledRow(row, now) \in SearchRow
           /\ CancelledRow(row, now).status = "cancelled"
           /\ CancelledRow(row, now).owner = row.owner
           /\ CancelledRow(row, now).name = Erased
           /\ CancelledRow(row, now).profile = Erased
           /\ CancelledRow(row, now).expires_at = row.expires_at
BY DEF CancelledRow, SearchRow, Instant

LEMMA EditedRowType ==
    ASSUME NEW row \in SearchRow, NEW n \in Names, NEW p \in Profiles
    PROVE  /\ EditedRow(row, n, p) \in SearchRow
           /\ EditedRow(row, n, p).status = row.status
           /\ EditedRow(row, n, p).owner = row.owner
           /\ EditedRow(row, n, p).expires_at = row.expires_at
<1>1. row.edit_version + 1 \in Nat /\ row.criteria_revision + 1 \in Nat
  BY DEF SearchRow
<1>2. EditedRow(row, n, p) \in SearchRow
  BY <1>1 DEF EditedRow, SearchRow
<1>3. QED
  BY <1>2 DEF EditedRow, SearchRow

LEMMA ExtendedRowType ==
    ASSUME NEW row \in SearchRow, NEW now \in Nat, row.expires_at \in Nat
    PROVE  /\ ExtendedRow(row, now) \in SearchRow
           /\ ExtendedRow(row, now).status = row.status
           /\ ExtendedRow(row, now).owner = row.owner
           /\ ExtendedRow(row, now).expires_at \in Nat
           /\ ExtendedRow(row, now).expires_at >= row.expires_at
           /\ ExtendedRow(row, now).expires_at >= now + Term
BY TimeAssumption DEF ExtendedRow, SearchRow, Instant, Later

LEMMA RestartedRowType ==
    ASSUME NEW row \in SearchRow, NEW now \in Nat, row.expires_at \in Nat
    PROVE  /\ RestartedRow(row, now) \in SearchRow
           /\ RestartedRow(row, now).status = row.status
           /\ RestartedRow(row, now).owner = row.owner
           /\ RestartedRow(row, now).expires_at \in Nat
           /\ RestartedRow(row, now).expires_at >= row.expires_at
           /\ RestartedRow(row, now).expires_at >= now + Term
<1> DEFINE ext == ExtendedRow(row, now)
<1>1. /\ ext \in SearchRow
      /\ ext.status = row.status
      /\ ext.owner = row.owner
      /\ ext.expires_at \in Nat
      /\ ext.expires_at >= row.expires_at
      /\ ext.expires_at >= now + Term
  BY ExtendedRowType
<1>2. ext.edit_version + 1 \in Nat /\ ext.criteria_revision + 1 \in Nat
  BY <1>1 DEF SearchRow
<1>3. RestartedRow(row, now) =
        [ext EXCEPT !.criteria_revision = @ + 1, !.edit_version = @ + 1]
  BY DEF RestartedRow
<1> HIDE DEF ext
<1>4. RestartedRow(row, now) \in SearchRow
  BY <1>1, <1>2, <1>3 DEF SearchRow
<1>5. QED
  BY <1>1, <1>3, <1>4 DEF SearchRow

LEMMA SubscriberRowTypes ==
    ASSUME NEW row \in SubscriberRow
    PROVE  /\ SuppressedRow(row) \in SubscriberRow
           /\ SuppressedRow(row).live = row.live
           /\ SuppressedRow(row).id = row.id
           /\ SuppressedRow(row).suppressed
           /\ \A replace \in BOOLEAN :
                 /\ ConsumedRow(row, replace) \in SubscriberRow
                 /\ ConsumedRow(row, replace).live = row.live
                 /\ ConsumedRow(row, replace).id = row.id
                 /\ ConsumedRow(row, replace).suppressed = row.suppressed
                 /\ ConsumedRow(row, replace).email_day = row.email_day
                 /\ ConsumedRow(row, replace).email_count = row.email_count
<1>1. row.recovery_version + 1 \in Nat /\ row.address_version + 1 \in Nat
  BY DEF SubscriberRow
<1>2. /\ SuppressedRow(row) \in SubscriberRow
      /\ SuppressedRow(row).live = row.live
      /\ SuppressedRow(row).id = row.id
      /\ SuppressedRow(row).suppressed
  BY <1>1 DEF SuppressedRow, SubscriberRow
<1>3. ASSUME NEW replace \in BOOLEAN
      PROVE  /\ ConsumedRow(row, replace) \in SubscriberRow
             /\ ConsumedRow(row, replace).live = row.live
             /\ ConsumedRow(row, replace).id = row.id
             /\ ConsumedRow(row, replace).suppressed = row.suppressed
             /\ ConsumedRow(row, replace).email_day = row.email_day
             /\ ConsumedRow(row, replace).email_count = row.email_count
  BY <1>1 DEF ConsumedRow, SubscriberRow
<1>4. QED
  BY <1>2, <1>3

LEMMA NoSubscriberType ==
    ASSUME NEW id \in Nat
    PROVE  NoSubscriber(id) \in SubscriberRow /\ NewSubscriber(id) \in SubscriberRow
BY DEF NoSubscriber, NewSubscriber, SubscriberRow, Instant, Never

\* get_or_create returns a live row; counting a mail changes the counter only.
LEMMA KnownType ==
    ASSUME TypeOK, NEW a \in Addresses, NEW day \in Nat
    PROVE  /\ Known(a) \in SubscriberRow
           /\ Known(a).live
           /\ \A row \in SubscriberRow :
                     /\ CountedMail(a, row, day) \in SubscriberRow
                     /\ CountedMail(a, row, day).live = row.live
                     /\ CountedMail(a, row, day).suppressed = row.suppressed
                     /\ CountedMail(a, row, day).email_day = day
                     /\ CountedMail(a, row, day).email_count = MailsOn(a, day) + 1
<1>1. subscribers[a] \in SubscriberRow
  BY DEF TypeOK
<1>2. subscribers[a].id + 1 \in Nat
  BY <1>1 DEF SubscriberRow
<1>3. Known(a) \in SubscriberRow
  BY <1>1, <1>2, NoSubscriberType DEF Known
<1>4. Known(a).live
  BY <1>1 DEF Known, NewSubscriber, NoSubscriber
<1>5. MailsOn(a, day) + 1 \in Nat
  BY <1>1 DEF MailsOn, SubscriberRow
<1>6. ASSUME NEW row \in SubscriberRow
      PROVE  /\ CountedMail(a, row, day) \in SubscriberRow
             /\ CountedMail(a, row, day).live = row.live
             /\ CountedMail(a, row, day).suppressed = row.suppressed
             /\ CountedMail(a, row, day).email_day = day
             /\ CountedMail(a, row, day).email_count = MailsOn(a, day) + 1
  BY <1>5 DEF CountedMail, SubscriberRow, Instant
<1>7. QED
  BY <1>3, <1>4, <1>6

LEMMA FreshRowType ==
    ASSUME NEW a \in Addresses, NEW n \in Names, NEW p \in Profiles, NEW now \in Nat
    PROVE  /\ PendingSearch(a, n, p, now) \in SearchRow
           /\ PendingSearch(a, n, p, now).owner = a
           /\ PendingSearch(a, n, p, now).status = "pending"
           /\ PendingSearch(a, n, p, now).expires_at = Never
           /\ NoSearch("unborn") \in SearchRow /\ NoSearch("unborn").status = "unborn"
           /\ NoSearch("purged") \in SearchRow /\ NoSearch("purged").status = "purged"
BY DEF PendingSearch, NoSearch, SearchRow, Instant, Never

-----------------------------------------------------------------------------
(* Type correctness                                                        *)

LEMMA FinishType ==
    ASSUME TypeOK, NEW w \in Workers, Finish(w)
    PROVE  calls' \in [Workers -> Call \cup {Idle}]
BY DEF TypeOK, Finish

\* A transaction that rewrites one existing row, keeps its owner and gives it an
\* expiry that fits its status.
LEMMA OneRowType ==
    ASSUME TypeOK, NEW w \in Workers, Finish(w),
           NEW s \in SearchIds, Exists(s),
           NEW row \in SearchRow, row.owner = searches[s].owner,
           \/ row.status = "active" /\ row.expires_at \in Nat
           \/ row.status = "cancelled",
           searches' = [searches EXCEPT ![s] = row],
           UNCHANGED <<clock, subscribers, sources, reminders, links, forms, mailed, admitted>>
    PROVE  TypeOK'
<1>1. searches' \in [SearchIds -> SearchRow]
  BY DEF TypeOK
<1>2. \A x \in SearchIds : searches'[x] = IF x = s THEN row ELSE searches[x]
  BY DEF TypeOK
<1>3. RowsConsistent'
  BY <1>2 DEF TypeOK, RowsConsistent, Exists, Reminder
<1>4. QED
  BY <1>1, <1>3, FinishType DEF TypeOK

LEMMA NoWriteType ==
    ASSUME TypeOK, NEW w \in Workers, Finish(w),
           UNCHANGED <<clock, tables, links, forms, mailed, admitted>>
    PROVE  TypeOK'
<1>1. RowsConsistent'
  BY DEF TypeOK, RowsConsistent, Exists, tables
<1>2. QED
  BY <1>1, FinishType DEF TypeOK, tables

LEMMA ReserveType ==
    ASSUME TypeOK, NEW k \in Sources, NEW now \in Nat, ReserveSource(k, now)
    PROVE  sources' \in [Sources -> SourceRow] /\ admitted' \in [Sources -> Nat]
<1>1. Day(now) \in Nat
  BY DayType
<1>2. RequestsOn(k, Day(now)) + 1 \in Nat
  BY DEF TypeOK, SourceRow, RequestsOn
<1>3. CountedRequest(k, Day(now)) \in SourceRow
  BY <1>1, <1>2 DEF CountedRequest, SourceRow, Instant
<1>4. admitted[k] + Today(now) \in Nat
  BY DEF TypeOK, Today
<1>5. QED
  BY <1>3, <1>4 DEF ReserveSource, TypeOK

LEMMA MailType ==
    ASSUME TypeOK, NEW a \in Addresses, NEW now, Mail(a, now)
    PROVE  mailed' \in [Addresses -> Nat]
<1>1. mailed[a] + Today(now) \in Nat
  BY DEF TypeOK, Today
<1>2. QED
  BY <1>1 DEF Mail, TypeOK

\* A live row may replace the row of an address: no search loses its owner.
LEMMA OwnersStayLive ==
    ASSUME TypeOK, NEW a \in Addresses, NEW row \in SubscriberRow, row.live,
           subscribers' = [subscribers EXCEPT ![a] = row],
           searches' = searches, reminders' = reminders
    PROVE  RowsConsistent' /\ subscribers' \in [Addresses -> SubscriberRow]
<1>1. \A b \in Addresses : subscribers'[b] = IF b = a THEN row ELSE subscribers[b]
  BY DEF TypeOK
<1>2. QED
  BY <1>1 DEF TypeOK, RowsConsistent, Exists

LEMMA RequestSearchType ==
    ASSUME TypeOK, NEW w \in Workers, RequestSearch(w)
    PROVE  TypeOK'
<1> DEFINE c == calls[w]
           a == c.addr
<1>1. /\ c \in Call \cup {Idle}
      /\ c.op = "request"
  BY DEF TypeOK, RequestSearch
<1>2. /\ a \in Addresses /\ c.source \in Sources
      /\ c.now \in Nat /\ c.name \in Names /\ c.profile \in Profiles
  BY <1>1, CallFields
<1>3. Day(c.now) \in Nat
  BY <1>2, DayType
<1>4. calls' \in [Workers -> Call \cup {Idle}]
  BY FinishType DEF RequestSearch
<1>5. UNCHANGED <<clock, reminders, links, forms>>
  BY DEF RequestSearch
<1>6. CASE SourceSpent(c.source, c.now)
  <2>1. UNCHANGED <<subscribers, searches, sources, mailed, admitted>>
    BY <1>6 DEF RequestSearch, ReserveSource
  <2>2. Finish(w)
    BY DEF RequestSearch
  <2>3. QED
    BY <1>5, <2>1, <2>2, NoWriteType DEF tables
<1>7. CASE ~SourceSpent(c.source, c.now)
  <2>1. ReserveSource(c.source, c.now)
    BY <1>7 DEF RequestSearch
  <2>2. sources' \in [Sources -> SourceRow] /\ admitted' \in [Sources -> Nat]
    BY <1>2, <2>1, ReserveType
  <2>3. CASE PendingFull
    <3>1. UNCHANGED <<subscribers, searches, mailed>>
      BY <1>7, <2>3 DEF RequestSearch
    <3>2. RowsConsistent'
      BY <1>5, <3>1 DEF TypeOK, RowsConsistent, Exists
    <3>3. QED
      BY <1>4, <1>5, <2>2, <3>1, <3>2 DEF TypeOK
  <2>4. CASE ~PendingFull /\ ~MayConfirm(a, c.now)
    <3>1. /\ subscribers' = [subscribers EXCEPT ![a] = Known(a)]
          /\ UNCHANGED <<searches, mailed>>
      BY <1>7, <2>4 DEF RequestSearch
    <3>2. Known(a) \in SubscriberRow /\ Known(a).live
      BY <1>2, <1>3, KnownType
    <3>3. RowsConsistent' /\ subscribers' \in [Addresses -> SubscriberRow]
      BY <1>2, <1>5, <3>1, <3>2, OwnersStayLive
    <3>4. QED
      BY <1>4, <1>5, <2>2, <3>1, <3>3 DEF TypeOK
  <2>5. CASE ~PendingFull /\ MayConfirm(a, c.now)
    <3> DEFINE row == CountedMail(a, Known(a), Day(c.now))
    <3>1. /\ subscribers' = [subscribers EXCEPT ![a] = row]
          /\ Mail(a, c.now)
          /\ \E s \in SearchIds :
               /\ searches[s].status = "unborn"
               /\ searches' = [searches EXCEPT
                                 ![s] = PendingSearch(a, c.name, c.profile, c.now)]
      BY <1>7, <2>5 DEF RequestSearch
    <3>2. row \in SubscriberRow /\ row.live
      BY <1>2, <1>3, KnownType
    <3>3. mailed' \in [Addresses -> Nat]
      BY <1>2, <3>1, MailType
    <3>4. PICK s \in SearchIds :
               /\ searches[s].status = "unborn"
               /\ searches' = [searches EXCEPT
                                 ![s] = PendingSearch(a, c.name, c.profile, c.now)]
      BY <3>1
    <3> DEFINE new == PendingSearch(a, c.name, c.profile, c.now)
    <3>5. /\ new \in SearchRow /\ new.owner = a
          /\ new.status = "pending" /\ new.expires_at = Never
      BY <1>2, FreshRowType
    <3> HIDE DEF row, new, c, a
    <3>6. \A x \in SearchIds : searches'[x] = IF x = s THEN new ELSE searches[x]
      BY <3>4 DEF TypeOK, new, a, c
    <3>7. \A b \in Addresses : subscribers'[b] = IF b = a THEN row ELSE subscribers[b]
      BY <3>1 DEF TypeOK
    <3>8. searches' \in [SearchIds -> SearchRow]
      BY <3>4, <3>5 DEF TypeOK, new, a, c
    <3>9. subscribers' \in [Addresses -> SubscriberRow]
      BY <1>2, <3>1, <3>2 DEF TypeOK
    <3>10. RowsConsistent'
      BY <1>2, <1>5, <3>2, <3>4, <3>5, <3>6, <3>7
         DEF TypeOK, RowsConsistent, Exists, Reminder
    <3>11. QED
      BY <1>4, <1>5, <2>2, <3>3, <3>8, <3>9, <3>10 DEF TypeOK
  <2>6. QED
    BY <2>3, <2>4, <2>5
<1>8. QED
  BY <1>6, <1>7

LEMMA ActivateType ==
    ASSUME TypeOK, NEW w \in Workers, Activate(w)
    PROVE  TypeOK'
<1> DEFINE c == calls[w]
           s == c.search
<1>1. c \in Call \cup {Idle} /\ c.op = "activate" /\ Finish(w)
  BY DEF TypeOK, Activate
<1>2. s \in SearchIds /\ c.now \in Nat
  BY <1>1, CallFields
<1>3. UNCHANGED <<clock, subscribers, sources, reminders, links, forms, mailed, admitted>>
  BY DEF Activate
<1>4. CASE UNCHANGED searches
  BY <1>1, <1>3, <1>4, NoWriteType DEF tables
<1>5. CASE Confirmable(c) /\ searches' = [searches EXCEPT ![s] = ActivatedRow(@, c.now)]
  <2>1. Exists(s)
    BY <1>5 DEF Confirmable, Exists
  <2>2. searches[s] \in SearchRow
    BY <1>2 DEF TypeOK
  <2> DEFINE row == ActivatedRow(searches[s], c.now)
  <2>3. /\ row \in SearchRow /\ row.owner = searches[s].owner
        /\ row.status = "active" /\ row.expires_at \in Nat
    BY <1>2, <2>2, ActivatedRowType
  <2>4. searches' = [searches EXCEPT ![s] = row]
    BY <1>5
  <2> HIDE DEF row, c, s
  <2>5. QED
    BY <1>1, <1>2, <1>3, <2>1, <2>3, <2>4, OneRowType
<1>6. QED
  BY <1>4, <1>5 DEF Activate

LEMMA CancelType ==
    ASSUME TypeOK, NEW w \in Workers, Cancel(w)
    PROVE  TypeOK'
<1> DEFINE c == calls[w]
           s == c.search
<1>1. c \in Call \cup {Idle} /\ c.op = "cancel" /\ Finish(w)
  BY DEF TypeOK, Cancel
<1>2. s \in SearchIds /\ c.now \in Nat
  BY <1>1, CallFields
<1>3. UNCHANGED <<clock, subscribers, sources, reminders, links, forms, mailed, admitted>>
  BY DEF Cancel
<1>4. CASE UNCHANGED searches
  BY <1>1, <1>3, <1>4, NoWriteType DEF tables
<1>5. CASE Authorised(c) /\ searches' = [searches EXCEPT ![s] = CancelledRow(@, c.now)]
  <2>1. Exists(s)
    BY <1>5 DEF Authorised
  <2>2. searches[s] \in SearchRow
    BY <1>2 DEF TypeOK
  <2>3. QED
    BY <1>1, <1>2, <1>3, <1>5, <2>1, <2>2, CancelledRowType, OneRowType
<1>6. QED
  BY <1>4, <1>5 DEF Cancel

LEMMA UnsubscribeType ==
    ASSUME TypeOK, NEW w \in Workers, Unsubscribe(w)
    PROVE  TypeOK'
<1> DEFINE c == calls[w]
           s == c.search
<1>1. c \in Call \cup {Idle} /\ c.op = "unsubscribe" /\ Finish(w)
  BY DEF TypeOK, Unsubscribe
<1>2. s \in SearchIds /\ c.now \in Nat
  BY <1>1, CallFields
<1>3. UNCHANGED <<clock, subscribers, sources, reminders, links, forms, mailed, admitted>>
  BY DEF Unsubscribe
<1>4. CASE UNCHANGED searches
  BY <1>1, <1>3, <1>4, NoWriteType DEF tables
<1>5. CASE Unsubscribable(s) /\ searches' = [searches EXCEPT ![s] = CancelledRow(@, c.now)]
  <2>1. Exists(s)
    BY <1>5 DEF Unsubscribable, Exists
  <2>2. searches[s] \in SearchRow
    BY <1>2 DEF TypeOK
  <2>3. QED
    BY <1>1, <1>2, <1>3, <1>5, <2>1, <2>2, CancelledRowType, OneRowType
<1>6. QED
  BY <1>4, <1>5 DEF Unsubscribe

LEMMA EditType ==
    ASSUME TypeOK, NEW w \in Workers, Edit(w)
    PROVE  TypeOK'
<1> DEFINE c == calls[w]
           s == c.search
<1>1. c \in Call \cup {Idle} /\ c.op = "edit" /\ Finish(w)
  BY DEF TypeOK, Edit
<1>2. s \in SearchIds /\ c.name \in Names /\ c.profile \in Profiles
  BY <1>1, CallFields
<1>3. UNCHANGED <<clock, subscribers, sources, reminders, links, forms, mailed, admitted>>
  BY DEF Edit
<1>4. CASE UNCHANGED searches
  BY <1>1, <1>3, <1>4, NoWriteType DEF tables
<1>5. CASE Editable(c) /\ searches' = [searches EXCEPT ![s] = EditedRow(@, c.name, c.profile)]
  <2>1. Exists(s) /\ searches[s].status = "active"
    BY <1>5 DEF Editable, Authorised
  <2>2. searches[s] \in SearchRow /\ searches[s].expires_at \in Nat
    BY <1>2, <2>1 DEF TypeOK, RowsConsistent
  <2> DEFINE row == EditedRow(searches[s], c.name, c.profile)
  <2>3. /\ row \in SearchRow /\ row.owner = searches[s].owner
        /\ row.status = "active" /\ row.expires_at \in Nat
    BY <1>2, <2>1, <2>2, EditedRowType
  <2>4. searches' = [searches EXCEPT ![s] = row]
    BY <1>5
  <2> HIDE DEF row, c, s
  <2>5. QED
    BY <1>1, <1>2, <1>3, <2>1, <2>3, <2>4, OneRowType
<1>6. QED
  BY <1>4, <1>5 DEF Edit

LEMMA RenewType ==
    ASSUME TypeOK, NEW w \in Workers, Renew(w)
    PROVE  TypeOK'
<1> DEFINE c == calls[w]
           s == c.search
<1>1. c \in Call \cup {Idle} /\ c.op = "renew" /\ Finish(w)
  BY DEF TypeOK, Renew
<1>2. s \in SearchIds /\ c.now \in Nat
  BY <1>1, CallFields
<1>3. UNCHANGED <<clock, subscribers, sources, reminders, links, forms, mailed, admitted>>
  BY DEF Renew
<1>4. CASE UNCHANGED searches
  BY <1>1, <1>3, <1>4, NoWriteType DEF tables
<1>5. CASE /\ MayRenew(c)
           /\ \/ searches' = [searches EXCEPT ![s] = ExtendedRow(@, c.now)]
              \/ searches' = [searches EXCEPT ![s] = RestartedRow(@, c.now)]
  <2>1. Exists(s) /\ searches[s].status = "active"
    BY <1>5 DEF MayRenew, Renewable, Authorised
  <2>2. searches[s] \in SearchRow /\ searches[s].expires_at \in Nat
    BY <1>2, <2>1 DEF TypeOK, RowsConsistent
  <2>3. CASE searches' = [searches EXCEPT ![s] = ExtendedRow(@, c.now)]
    BY <1>1, <1>2, <1>3, <2>1, <2>2, <2>3, ExtendedRowType, OneRowType
  <2>4. CASE searches' = [searches EXCEPT ![s] = RestartedRow(@, c.now)]
    BY <1>1, <1>2, <1>3, <2>1, <2>2, <2>4, RestartedRowType, OneRowType
  <2>5. QED
    BY <1>5, <2>3, <2>4
<1>6. QED
  BY <1>4, <1>5 DEF Renew

LEMMA SuppressType ==
    ASSUME TypeOK, NEW w \in Workers, Suppress(w)
    PROVE  TypeOK'
<1> DEFINE c == calls[w]
           a == c.addr
<1>1. c \in Call \cup {Idle} /\ c.op = "suppress" /\ Finish(w)
  BY DEF TypeOK, Suppress
<1>2. a \in Addresses /\ c.now \in Nat
  BY <1>1, CallFields
<1>3. UNCHANGED <<clock, sources, links, forms, mailed, admitted>>
  BY DEF Suppress
<1>4. CASE UNCHANGED <<subscribers, searches, reminders>>
  BY <1>1, <1>3, <1>4, NoWriteType DEF tables
<1>5. CASE Suppressing(a, c.now)
  <2>1. subscribers[a] \in SubscriberRow
    BY <1>2 DEF TypeOK
  <2>2. /\ SuppressedRow(subscribers[a]) \in SubscriberRow
        /\ SuppressedRow(subscribers[a]).live = subscribers[a].live
    BY <2>1, SubscriberRowTypes
  <2>3. \A b \in Addresses :
           /\ subscribers'[b] \in SubscriberRow
           /\ subscribers'[b].live = subscribers[b].live
    BY <1>2, <1>5, <2>2 DEF Suppressing, TypeOK
  <2>4. subscribers' \in [Addresses -> SubscriberRow]
    BY <1>5, <2>2 DEF Suppressing, TypeOK
  <2>5. ASSUME NEW s \in SearchIds
        PROVE  /\ searches'[s] \in SearchRow
               /\ searches'[s].owner = searches[s].owner
               /\ searches'[s].status = searches[s].status \/ searches'[s].status = "cancelled"
               /\ searches'[s].status = "cancelled" => Exists(s)
               /\ searches'[s].expires_at = searches[s].expires_at
    <3>1. searches[s] \in SearchRow
      BY DEF TypeOK
    <3>2. searches'[s] = IF s \in SearchesOf(a) /\ searches[s].status # "cancelled"
                         THEN CancelledRow(searches[s], c.now) ELSE searches[s]
      BY <1>5 DEF Suppressing
    <3>3. CASE s \in SearchesOf(a) /\ searches[s].status # "cancelled"
      BY <1>2, <3>1, <3>2, <3>3, CancelledRowType DEF SearchesOf
    <3>4. CASE ~(s \in SearchesOf(a) /\ searches[s].status # "cancelled")
      BY <3>1, <3>2, <3>4 DEF Exists
    <3>5. QED
      BY <3>3, <3>4
  <2>6. searches' \in [SearchIds -> SearchRow]
    BY <1>5, <2>5 DEF Suppressing
  <2>7. \A r \in reminders' : \E q \in reminders :
           /\ r \in Reminder
           /\ r.search = q.search
           /\ r.expires_at = q.expires_at
    BY <1>5 DEF Suppressing, TypeOK, Reminder
  <2>8. \A s \in SearchIds : Exists(s)' <=> Exists(s)
    BY <2>5 DEF Exists
  <2>9. \A s \in SearchIds :
           /\ Exists(s)' => searches'[s].owner \in Addresses
                            /\ subscribers'[searches'[s].owner].live
           /\ searches'[s].status = "active" => searches'[s].expires_at \in Nat
           /\ searches'[s].status = "pending" => searches'[s].expires_at = Never
    BY <2>3, <2>5, <2>8 DEF TypeOK, RowsConsistent
  <2>10. \A r \in reminders' : Exists(r.search)' /\ r.expires_at \in Nat
    BY <2>7, <2>8 DEF TypeOK, RowsConsistent, Reminder
  <2>11. RowsConsistent'
    BY <2>9, <2>10 DEF RowsConsistent
  <2>12. reminders' \in SUBSET Reminder
    BY <2>7
  <2>13. QED
    BY <1>1, <1>3, <2>4, <2>6, <2>11, <2>12, FinishType DEF TypeOK
<1>6. QED
  BY <1>4, <1>5 DEF Suppress

LEMMA RequestRecoveryType ==
    ASSUME TypeOK, NEW w \in Workers, RequestRecovery(w)
    PROVE  TypeOK'
<1> DEFINE c == calls[w]
           a == c.addr
<1>1. c \in Call \cup {Idle} /\ c.op = "recover" /\ Finish(w)
  BY DEF TypeOK, RequestRecovery
<1>2. a \in Addresses /\ c.source \in Sources /\ c.now \in Nat
  BY <1>1, CallFields
<1>3. Day(c.now) \in Nat
  BY <1>2, DayType
<1>4. UNCHANGED <<clock, searches, reminders, forms>>
  BY DEF RequestRecovery
<1>5. calls' \in [Workers -> Call \cup {Idle}]
  BY <1>1, FinishType
<1>6. CASE UNCHANGED <<subscribers, sources, links, mailed, admitted>>
  BY <1>1, <1>4, <1>6, NoWriteType DEF tables
<1>7. CASE ReserveSource(c.source, c.now) /\ UNCHANGED <<subscribers, links, mailed>>
  <2>1. sources' \in [Sources -> SourceRow] /\ admitted' \in [Sources -> Nat]
    BY <1>2, <1>7, ReserveType
  <2>2. RowsConsistent'
    BY <1>4, <1>7 DEF TypeOK, RowsConsistent, Exists
  <2>3. QED
    BY <1>4, <1>5, <1>7, <2>1, <2>2 DEF TypeOK
<1>8. CASE /\ ReserveSource(c.source, c.now)
           /\ MayRecover(a, c.now)
           /\ subscribers' =
                [subscribers EXCEPT ![a] = CountedMail(a, @, Day(c.now))]
           /\ links' = links \cup
                {[addr |-> a, id |-> subscribers[a].id, issued |-> clock,
                  version |-> subscribers[a].recovery_version]}
           /\ Mail(a, c.now)
  <2> DEFINE row == CountedMail(a, subscribers[a], Day(c.now))
  <2>1. sources' \in [Sources -> SourceRow] /\ admitted' \in [Sources -> Nat]
    BY <1>2, <1>8, ReserveType
  <2>2. mailed' \in [Addresses -> Nat]
    BY <1>2, <1>8, MailType
  <2>3. subscribers[a] \in SubscriberRow /\ subscribers[a].live
    BY <1>2, <1>8 DEF TypeOK, MayRecover
  <2>4. row \in SubscriberRow /\ row.live
    BY <1>2, <1>3, <2>3, KnownType
  <2>5. RowsConsistent' /\ subscribers' \in [Addresses -> SubscriberRow]
    BY <1>2, <1>4, <1>8, <2>4, OwnersStayLive
  <2>6. links' \in SUBSET Link
    BY <1>2, <1>8, <2>3 DEF TypeOK, Link, SubscriberRow
  <2>7. QED
    BY <1>4, <1>5, <2>1, <2>2, <2>5, <2>6 DEF TypeOK
<1>9. QED
  BY <1>6, <1>7, <1>8 DEF RequestRecovery

LEMMA ConsumeType ==
    ASSUME TypeOK, NEW w \in Workers, Consume(w)
    PROVE  TypeOK'
<1> DEFINE c == calls[w]
           a == c.link.addr
<1>1. c \in Call \cup {Idle} /\ c.op = "consume" /\ Finish(w)
  BY DEF TypeOK, Consume
<1>2. a \in Addresses /\ c.replace \in BOOLEAN
  BY <1>1, CallFields DEF Link
<1>3. UNCHANGED <<clock, sources, reminders, links, forms, mailed, admitted>>
  BY DEF Consume
<1>4. CASE UNCHANGED <<subscribers, searches>>
  BY <1>1, <1>3, <1>4, NoWriteType DEF tables
<1>5. CASE /\ subscribers' = [subscribers EXCEPT ![a] = ConsumedRow(@, c.replace)]
           /\ searches' = [s \in SearchIds |->
                             IF c.replace /\ s \in SearchesOf(a)
                             THEN [searches[s] EXCEPT !.management_version = @ + 1]
                             ELSE searches[s]]
  <2>1. subscribers[a] \in SubscriberRow
    BY <1>2 DEF TypeOK
  <2>2. /\ ConsumedRow(subscribers[a], c.replace) \in SubscriberRow
        /\ ConsumedRow(subscribers[a], c.replace).live = subscribers[a].live
    BY <1>2, <2>1, SubscriberRowTypes
  <2>3. \A b \in Addresses : subscribers'[b].live = subscribers[b].live
    BY <1>2, <1>5, <2>2 DEF TypeOK
  <2>4. subscribers' \in [Addresses -> SubscriberRow]
    BY <1>5, <2>2 DEF TypeOK
  <2>5. ASSUME NEW s \in SearchIds
        PROVE  /\ searches'[s] \in SearchRow
               /\ searches'[s].owner = searches[s].owner
               /\ searches'[s].status = searches[s].status
               /\ searches'[s].expires_at = searches[s].expires_at
    <3>1. searches[s] \in SearchRow /\ searches[s].management_version + 1 \in Nat
      BY DEF TypeOK, SearchRow
    <3>2. QED
      BY <1>5, <3>1 DEF SearchRow
  <2>6. searches' \in [SearchIds -> SearchRow]
    BY <1>5, <2>5
  <2>7. RowsConsistent'
    BY <1>3, <2>3, <2>5 DEF TypeOK, RowsConsistent, Exists, Reminder
  <2>8. QED
    BY <1>1, <1>3, <2>4, <2>6, <2>7, FinishType DEF TypeOK
<1>6. QED
  BY <1>4, <1>5 DEF Consume

LEMMA PrepareType ==
    ASSUME TypeOK, NEW w \in Workers, Prepare(w)
    PROVE  TypeOK'
<1> DEFINE c == calls[w]
<1>1. Finish(w) /\ UNCHANGED <<clock, searches, subscribers, sources, links, forms, mailed, admitted>>
  BY DEF Prepare
<1>2. \A r \in NewReminders(c.now) : r \in Reminder /\ Exists(r.search) /\ r.expires_at \in Nat
  BY DEF NewReminders, Planned, Due, ActiveAt, Exists, Reminder, TypeOK, RowsConsistent, Instant
<1>3. reminders' = reminders \cup NewReminders(c.now)
  BY DEF Prepare, PlannedReminders
<1>4. RowsConsistent' /\ reminders' \in SUBSET Reminder
  BY <1>1, <1>2, <1>3 DEF TypeOK, RowsConsistent, Exists
<1>5. QED
  BY <1>1, <1>4, FinishType DEF TypeOK

LEMMA CaptureType ==
    ASSUME TypeOK, NEW w \in Workers, Capture(w)
    PROVE  TypeOK'
<1> DEFINE c == calls[w]
           r == [search |-> c.search, expires_at |-> c.expires_at, status |-> "pending"]
<1>1. Finish(w) /\ UNCHANGED <<clock, searches, subscribers, sources, links, forms, mailed, admitted>>
  BY DEF Capture
<1>2. CASE UNCHANGED reminders
  BY <1>1, <1>2, NoWriteType DEF tables
<1>3. ASSUME NEW status \in {"obsolete", "previewed"}, r \in reminders, SetReminder(r, status)
      PROVE  TypeOK'
  <2>1. [r EXCEPT !.status = status] \in Reminder
    BY <1>3 DEF TypeOK, Reminder
  <2>2. \A q \in reminders' : q \in Reminder /\ Exists(q.search) /\ q.expires_at \in Nat
    BY <1>3, <2>1 DEF SetReminder, TypeOK, RowsConsistent
  <2>3. RowsConsistent' /\ reminders' \in SUBSET Reminder
    BY <1>1, <2>2 DEF TypeOK, RowsConsistent, Exists
  <2>4. QED
    BY <1>1, <2>3, FinishType DEF TypeOK
<1>4. QED
  BY <1>2, <1>3 DEF Capture, Presentable

LEMMA PurgeType ==
    ASSUME TypeOK, Purge
    PROVE  TypeOK'
<1>1. UNCHANGED <<clock, links, forms, calls, mailed, admitted>>
  BY DEF Purge
<1>2. ASSUME NEW s \in SearchIds
      PROVE  /\ searches'[s] \in SearchRow
             /\ Doomed(s) => ~Exists(s)'
             /\ ~Doomed(s) => searches'[s] = searches[s]
             /\ searches'[s].status = "active" \/ searches'[s].status = "pending" => ~Doomed(s)
  <2>1. searches'[s] = IF Doomed(s) THEN NoSearch("purged") ELSE searches[s]
    BY DEF Purge
  <2>2. NoSearch("purged") \in SearchRow /\ NoSearch("purged").status = "purged"
    BY DEF NoSearch, SearchRow, Instant, Never
  <2>3. QED
    BY <2>1, <2>2 DEF TypeOK, Exists
<1>3. ASSUME NEW a \in Addresses
      PROVE  /\ subscribers'[a] \in SubscriberRow
             /\ ~Abandoned(a) => subscribers'[a] = subscribers[a]
  <2>1. subscribers[a] \in SubscriberRow /\ subscribers[a].id \in Nat
    BY DEF TypeOK, SubscriberRow
  <2>2. QED
    BY <2>1, NoSubscriberType DEF Purge
<1>4. searches' \in [SearchIds -> SearchRow] /\ subscribers' \in [Addresses -> SubscriberRow]
  BY <1>2, <1>3 DEF Purge
<1>5. sources' \in [Sources -> SourceRow]
  BY DEF Purge, TypeOK, SourceRow, NoSource, Instant, Never
<1>6. ASSUME NEW s \in SearchIds
      PROVE  /\ Exists(s)' => searches'[s].owner \in Addresses
                              /\ subscribers'[searches'[s].owner].live
             /\ searches'[s].status = "active" => searches'[s].expires_at \in Nat
             /\ searches'[s].status = "pending" => searches'[s].expires_at = Never
  <2>1. CASE Doomed(s)
    BY <1>2, <2>1
  <2>2. CASE ~Doomed(s)
    <3>1. searches'[s] = searches[s]
      BY <1>2, <2>2
    <3>2. Exists(s)' => s \in SearchesOf(searches[s].owner) /\ searches[s].owner \in Addresses
      BY <3>1 DEF Exists, SearchesOf, TypeOK, RowsConsistent
    <3>3. Exists(s)' => ~Abandoned(searches[s].owner)
      BY <2>2, <3>2 DEF Abandoned
    <3>4. QED
      BY <1>3, <3>1, <3>2, <3>3 DEF TypeOK, RowsConsistent, Exists
  <2>3. QED
    BY <2>1, <2>2
<1>7. \A r \in reminders' : r \in Reminder /\ Exists(r.search)' /\ r.expires_at \in Nat
  <2>1. \A r \in reminders' : r \in reminders /\ ~Doomed(r.search)
    BY DEF Purge
  <2>2. QED
    BY <1>2, <2>1 DEF TypeOK, RowsConsistent, Exists, Reminder
<1>8. QED
  BY <1>1, <1>4, <1>5, <1>6, <1>7 DEF TypeOK, RowsConsistent

\* The views write nothing and hand a well formed record to the service.
LEMMA EnterType ==
    ASSUME TypeOK, NEW w \in Workers, Enter(w)
    PROVE  /\ TypeOK'
           /\ UNCHANGED <<clock, tables, links, forms, mailed, admitted>>
           /\ calls[w] = Idle
           /\ \E c \in Call : c.now = clock /\ calls' = [calls EXCEPT ![w] = c]
<1>1. \E c \in Call : c.now = clock /\ Receive(w, c)
  <2>1. CASE SubmitSearch(w)
    BY <2>1 DEF SubmitSearch, Call, TypeOK
  <2>2. CASE PressConfirm(w)
    BY <2>2 DEF PressConfirm, Call, TypeOK
  <2>3. CASE PressCancel(w) \/ PressRenew(w)
    <3>1. PICK op \in {"cancel", "renew"} : PressManage(w, op)
      BY <2>3 DEF PressCancel, PressRenew
    <3>2. QED
      BY <3>1 DEF PressManage, Call, TypeOK, SearchRow
  <2>4. CASE SubmitEdit(w)
    <3>1. PICK form \in forms, n \in Names, p \in Profiles :
            Receive(w, [op |-> "edit", now |-> clock, search |-> form.search,
                        version |-> searches[form.search].management_version,
                        form |-> form, name |-> n, profile |-> p])
      BY <2>4 DEF SubmitEdit
    <3>2. form \in Form /\ form.search \in SearchIds
      BY DEF TypeOK, Form
    <3>3. searches[form.search].management_version \in Nat
      BY <3>2 DEF TypeOK, SearchRow
    <3>4. [op |-> "edit", now |-> clock, search |-> form.search,
           version |-> searches[form.search].management_version,
           form |-> form, name |-> n, profile |-> p] \in Call
      BY <3>2, <3>3 DEF Call, TypeOK
    <3>5. QED
      BY <3>1, <3>4
  <2>5. CASE PostUnsubscribe(w)
    BY <2>5 DEF PostUnsubscribe, Call, TypeOK
  <2>6. CASE SubmitRecovery(w)
    BY <2>6 DEF SubmitRecovery, Call, TypeOK
  <2>7. CASE PressRecover(w)
    BY <2>7 DEF PressRecover, Call, TypeOK
  <2>8. CASE OrderSuppression(w)
    BY <2>8 DEF OrderSuppression, Call, TypeOK, SubscriberRow
  <2>9. CASE RunPrepare(w)
    BY <2>9 DEF RunPrepare, Call, TypeOK
  <2>10. CASE RunCapture(w)
    BY <2>10 DEF RunCapture, Call, TypeOK, Reminder
  <2>11. QED
    BY <2>1, <2>2, <2>3, <2>4, <2>5, <2>6, <2>7, <2>8, <2>9, <2>10 DEF Enter
<1>2. PICK c \in Call : c.now = clock /\ Receive(w, c)
  BY <1>1
<1>3. /\ UNCHANGED <<clock, tables, links, forms, mailed, admitted>>
      /\ calls[w] = Idle
      /\ calls' = [calls EXCEPT ![w] = c]
  BY <1>2 DEF Receive
<1>4. RowsConsistent'
  BY <1>3 DEF TypeOK, RowsConsistent, Exists, tables
<1>5. TypeOK'
  BY <1>3, <1>4 DEF TypeOK, tables
<1>6. QED
  BY <1>2, <1>3, <1>5

LEMMA OpenFormType ==
    ASSUME TypeOK, OpenForm
    PROVE  TypeOK'
<1>1. UNCHANGED <<clock, tables, links, calls, mailed, admitted>>
  BY DEF OpenForm
<1>2. RowsConsistent'
  BY <1>1 DEF TypeOK, RowsConsistent, Exists, tables
<1>3. forms' \in SUBSET Form
  BY DEF OpenForm, Form, TypeOK, SearchRow
<1>4. QED
  BY <1>1, <1>2, <1>3 DEF TypeOK, tables

LEMMA TickType ==
    ASSUME TypeOK, Tick
    PROVE  TypeOK'
<1>1. UNCHANGED <<tables, links, forms, calls>> /\ clock' \in Nat
  BY DEF Tick, TypeOK
<1>2. mailed' \in [Addresses -> Nat] /\ admitted' \in [Sources -> Nat]
  BY DEF Tick, TypeOK
<1>3. RowsConsistent'
  BY <1>1 DEF TypeOK, RowsConsistent, Exists, tables
<1>4. QED
  BY <1>1, <1>2, <1>3 DEF TypeOK, tables

LEMMA InitType == Init => TypeOK
<1> SUFFICES ASSUME Init PROVE TypeOK
  OBVIOUS
<1>1. NoSearch("unborn") \in SearchRow /\ NoSearch("unborn").status = "unborn"
  BY DEF NoSearch, SearchRow, Instant, Never
<1>2. NoSubscriber(0) \in SubscriberRow
  BY NoSubscriberType
<1>3. NoSource \in SourceRow
  BY DEF NoSource, SourceRow, Instant, Never
<1>4. RowsConsistent
  BY <1>1 DEF Init, RowsConsistent, Exists
<1>5. QED
  BY <1>1, <1>2, <1>3, <1>4 DEF Init, TypeOK

LEMMA NextType == TypeOK /\ [Next]_vars => TypeOK'
<1> SUFFICES ASSUME TypeOK, [Next]_vars PROVE TypeOK'
  OBVIOUS
<1>1. ASSUME NEW w \in Workers, Commit(w)
      PROVE  TypeOK'
  BY <1>1, RequestSearchType, ActivateType, CancelType, UnsubscribeType, SuppressType,
     EditType, RenewType, RequestRecoveryType, ConsumeType, PrepareType, CaptureType
     DEF Commit
<1>2. ASSUME NEW w \in Workers, Enter(w)
      PROVE  TypeOK'
  BY <1>2, EnterType
<1>3. ASSUME NEW w \in Workers, Abort(w)
      PROVE  TypeOK'
  BY <1>3, NoWriteType DEF Abort
<1>4. CASE UNCHANGED vars
  BY <1>4 DEF vars, TypeOK, RowsConsistent, Exists
<1>5. QED
  BY <1>1, <1>2, <1>3, <1>4, OpenFormType, PurgeType, TickType DEF Next

\* Every behaviour keeps the tables well formed: no row is left without the row it
\* refers to, whatever transactions, deletions and rollbacks follow each other.
THEOREM TypeCorrect == Spec => []TypeOK
<1>1. QED
  BY InitType, NextType, PTL DEF Spec

-----------------------------------------------------------------------------
(* What one step may do to one search                                      *)

Kept(s) == searches'[s] = searches[s]

Requested(s) ==
    /\ searches[s].status = "unborn"
    /\ searches'[s].status = "pending"
    /\ ~subscribers[searches'[s].owner].suppressed

Moved(s) ==
    /\ searches[s].status \in {"pending", "active"}
    /\ searches'[s].status = "active"
    /\ searches'[s].owner = searches[s].owner
    /\ ~Suppressed(s)

Ended(s) ==
    /\ Exists(s)
    /\ searches'[s].owner = searches[s].owner
    /\ searches'[s].status = "cancelled"
    /\ searches'[s].name = Erased
    /\ searches'[s].profile = Erased

Relinked(s) ==
    /\ Exists(s)
    /\ searches'[s].owner = searches[s].owner
    /\ searches'[s].status = searches[s].status
    /\ searches'[s].name = searches[s].name
    /\ searches'[s].profile = searches[s].profile

Deleted(s) == Exists(s) /\ searches'[s] = NoSearch("purged")

QuietStep(s) == Kept(s) \/ Moved(s) \/ Ended(s) \/ Relinked(s) \/ Deleted(s)

RowStep(s) == QuietStep(s) \/ Requested(s)

-----------------------------------------------------------------------------
(* The steps of a search                                                   *)

LEMMA RequestRow ==
    ASSUME TypeOK, NEW w \in Workers, RequestSearch(w), NEW s \in SearchIds
    PROVE  RowStep(s)
<1> DEFINE c == calls[w]
<1>1. c \in Call \cup {Idle} /\ c.op = "request"
  BY DEF TypeOK, RequestSearch
<1>2. c.addr \in Addresses /\ c.name \in Names /\ c.profile \in Profiles /\ c.now \in Nat
  BY <1>1, CallFields
<1>3. CASE searches' = searches
  BY <1>3 DEF RowStep, QuietStep, Kept
<1>4. CASE /\ MayConfirm(c.addr, c.now)
           /\ \E x \in SearchIds :
                /\ searches[x].status = "unborn"
                /\ searches' = [searches EXCEPT
                                  ![x] = PendingSearch(c.addr, c.name, c.profile, c.now)]
  <2>1. PICK x \in SearchIds :
          /\ searches[x].status = "unborn"
          /\ searches' = [searches EXCEPT
                            ![x] = PendingSearch(c.addr, c.name, c.profile, c.now)]
    BY <1>4
  <2>2. CASE s = x
    <3>1. searches'[s] = PendingSearch(c.addr, c.name, c.profile, c.now)
      BY <2>1, <2>2 DEF TypeOK
    <3>2. searches'[s].status = "pending" /\ searches'[s].owner = c.addr
      BY <1>2, <3>1, FreshRowType
    <3>3. ~subscribers[c.addr].suppressed
      BY <1>4 DEF MayConfirm
    <3>4. QED
      BY <2>1, <2>2, <3>2, <3>3 DEF RowStep, Requested
  <2>3. CASE s # x
    BY <2>1, <2>3 DEF TypeOK, RowStep, QuietStep, Kept
  <2>4. QED
    BY <2>2, <2>3
<1>5. QED
  BY <1>3, <1>4 DEF RequestSearch

LEMMA MovingRow ==
    ASSUME TypeOK, NEW w \in Workers, Activate(w) \/ Edit(w) \/ Renew(w),
           NEW s \in SearchIds
    PROVE  QuietStep(s)
<1> DEFINE c == calls[w]
           x == c.search
           row == searches[x]
<1>1. c \in Call \cup {Idle} /\ c.op \in {"activate", "edit", "renew"}
  BY DEF TypeOK, Activate, Edit, Renew
<1>2. x \in SearchIds /\ c.now \in Nat
  BY <1>1, CallFields
<1>3. row \in SearchRow /\ (row.status = "active" => row.expires_at \in Nat)
  BY <1>2 DEF TypeOK, RowsConsistent
<1>4. CASE searches' = searches
  BY <1>4 DEF QuietStep, Kept
<1>5. ASSUME NEW new \in SearchRow, searches' = [searches EXCEPT ![x] = new],
             new.status = "active", new.owner = row.owner,
             row.status \in {"pending", "active"}, ~Suppressed(x)
      PROVE  QuietStep(s)
  <2>1. CASE s = x
    BY <1>2, <1>5, <2>1 DEF TypeOK, QuietStep, Moved
  <2>2. CASE s # x
    BY <1>2, <1>5, <2>2 DEF TypeOK, QuietStep, Kept
  <2>3. QED
    BY <2>1, <2>2
<1>6. CASE Activate(w)
  <2>1. CASE Confirmable(c) /\ searches' = [searches EXCEPT ![x] = ActivatedRow(@, c.now)]
    <3>1. row.status = "pending" /\ ~Suppressed(x)
      BY <2>1 DEF Confirmable
    <3>2. searches' = [searches EXCEPT ![x] = ActivatedRow(row, c.now)]
      BY <2>1
    <3>3. QED
      BY <1>2, <1>3, <1>5, <3>1, <3>2, ActivatedRowType
  <2>2. QED
    BY <1>4, <1>6, <2>1 DEF Activate
<1>7. CASE Edit(w)
  <2>1. c.name \in Names /\ c.profile \in Profiles
    BY <1>1, <1>7, CallFields DEF Edit
  <2>2. CASE Editable(c) /\ searches' = [searches EXCEPT ![x] = EditedRow(@, c.name, c.profile)]
    <3>1. row.status = "active" /\ ~Suppressed(x)
      BY <2>2 DEF Editable
    <3>2. searches' = [searches EXCEPT ![x] = EditedRow(row, c.name, c.profile)]
      BY <2>2
    <3>3. /\ EditedRow(row, c.name, c.profile) \in SearchRow
          /\ EditedRow(row, c.name, c.profile).status = row.status
          /\ EditedRow(row, c.name, c.profile).owner = row.owner
      BY <1>3, <2>1, EditedRowType
    <3> HIDE DEF row, x
    <3>4. QED
      BY <1>5, <3>1, <3>2, <3>3
  <2>3. QED
    BY <1>4, <1>7, <2>2 DEF Edit
<1>8. CASE Renew(w)
  <2>1. CASE /\ MayRenew(c)
             /\ \/ searches' = [searches EXCEPT ![x] = ExtendedRow(@, c.now)]
                \/ searches' = [searches EXCEPT ![x] = RestartedRow(@, c.now)]
    <3>1. row.status = "active" /\ ~Suppressed(x)
      BY <2>1 DEF MayRenew, Renewable
    <3>2. \/ searches' = [searches EXCEPT ![x] = ExtendedRow(row, c.now)]
          \/ searches' = [searches EXCEPT ![x] = RestartedRow(row, c.now)]
      BY <2>1
    <3>3. row.expires_at \in Nat
      BY <1>3, <3>1
    <3> HIDE DEF row, x, c
    <3>4. /\ ExtendedRow(row, c.now) \in SearchRow
          /\ ExtendedRow(row, c.now).status = row.status
          /\ ExtendedRow(row, c.now).owner = row.owner
      BY <1>2, <1>3, <3>3, ExtendedRowType
    <3>5. /\ RestartedRow(row, c.now) \in SearchRow
          /\ RestartedRow(row, c.now).status = row.status
          /\ RestartedRow(row, c.now).owner = row.owner
      BY <1>2, <1>3, <3>3, RestartedRowType
    <3>6. QED
      BY <1>5, <3>1, <3>2, <3>4, <3>5
  <2>2. QED
    BY <1>4, <1>8, <2>1 DEF Renew
<1>9. QED
  BY <1>6, <1>7, <1>8

LEMMA EndingRow ==
    ASSUME TypeOK, NEW w \in Workers, Cancel(w) \/ Unsubscribe(w) \/ Suppress(w),
           NEW s \in SearchIds
    PROVE  QuietStep(s)
<1> DEFINE c == calls[w]
<1>1. c \in Call \cup {Idle} /\ c.op \in {"cancel", "unsubscribe", "suppress"}
  BY DEF TypeOK, Cancel, Unsubscribe, Suppress
<1>2. c.now \in Nat
  BY <1>1, CallFields
<1>3. CASE searches'[s] = searches[s]
  BY <1>3 DEF QuietStep, Kept
<1>4. CASE Exists(s) /\ searches'[s] = CancelledRow(searches[s], c.now)
  <2>1. searches[s] \in SearchRow
    BY DEF TypeOK
  <2>2. Ended(s)
    BY <1>2, <1>4, <2>1, CancelledRowType DEF Ended
  <2>3. QED
    BY <2>2 DEF QuietStep
<1>5. CASE Cancel(w) \/ Unsubscribe(w)
  <2>1. \/ searches' = searches
        \/ /\ Exists(c.search)
           /\ searches' = [searches EXCEPT ![c.search] = CancelledRow(@, c.now)]
    BY <1>5 DEF Cancel, Unsubscribe, Authorised, Unsubscribable, Exists
  <2>2. QED
    BY <1>3, <1>4, <2>1 DEF TypeOK
<1>6. CASE Suppress(w)
  BY <1>3, <1>4, <1>6 DEF Suppress, Suppressing, SearchesOf
<1>7. QED
  BY <1>5, <1>6

LEMMA OtherRow ==
    ASSUME TypeOK, NEW s \in SearchIds,
           \/ \E w \in Workers : \/ Consume(w) \/ RequestRecovery(w) \/ Prepare(w)
                                 \/ Capture(w) \/ Enter(w) \/ Abort(w)
           \/ OpenForm \/ Purge \/ Tick \/ UNCHANGED vars
    PROVE  QuietStep(s)
<1>1. CASE searches' = searches
  BY <1>1 DEF QuietStep, Kept
<1>2. ASSUME NEW w \in Workers, Consume(w)
      PROVE  QuietStep(s)
  <2>1. CASE searches'[s] = searches[s]
    BY <2>1 DEF QuietStep, Kept
  <2>2. CASE Exists(s) /\ searches'[s] = [searches[s] EXCEPT !.management_version = @ + 1]
    <3>1. searches[s] \in SearchRow
      BY DEF TypeOK
    <3>2. Relinked(s)
      BY <2>2, <3>1 DEF SearchRow, Relinked
    <3>3. QED
      BY <3>2 DEF QuietStep
  <2>3. QED
    BY <1>2, <2>1, <2>2 DEF Consume, SearchesOf
<1>3. CASE Purge
  <2>1. searches'[s] = IF Doomed(s) THEN NoSearch("purged") ELSE searches[s]
    BY <1>3 DEF Purge
  <2>2. Doomed(s) => Exists(s)
    BY DEF Doomed, Exists
  <2>3. QED
    BY <2>1, <2>2 DEF QuietStep, Kept, Deleted
<1>4. ASSUME NEW w \in Workers, Enter(w)
      PROVE  QuietStep(s)
  BY <1>1, <1>4, EnterType DEF tables
<1>5. QED
  BY <1>1, <1>2, <1>3, <1>4
     DEF RequestRecovery, Prepare, Capture, Abort, OpenForm, Tick, tables, vars

LEMMA NextRow ==
    ASSUME TypeOK, [Next]_vars, NEW s \in SearchIds
    PROVE  RowStep(s)
BY RequestRow, MovingRow, EndingRow, OtherRow DEF RowStep, Next, Commit

-----------------------------------------------------------------------------
(* The steps of a subscriber                                               *)

\* Only a row that exists is ever suppressed.
SuppressedLive == \A a \in Addresses : subscribers[a].suppressed => subscribers[a].live

\* After a suppression of a: nothing of a's is left to act on.
Silenced(a) ==
    \A s \in SearchIds :
        s \in SearchesOf(a) =>
            /\ searches[s].status = "cancelled"
            /\ \A r \in reminders : r.search = s => r.status # "pending"

OwnerStep(a) ==
    /\ subscribers[a].suppressed =>
          subscribers'[a].suppressed /\ subscribers'[a].id = subscribers[a].id
    /\ subscribers'[a].suppressed => subscribers'[a].live
    /\ subscribers'[a].suppressed => subscribers[a].suppressed \/ Silenced(a)'

LEMMA MailOwner ==
    ASSUME TypeOK, SuppressedLive, NEW a \in Addresses,
           NEW w \in Workers, RequestSearch(w) \/ RequestRecovery(w)
    PROVE  OwnerStep(a)
<1> DEFINE c == calls[w]
           b == c.addr
<1>1. c \in Call \cup {Idle} /\ c.op \in {"request", "recover"}
  BY DEF TypeOK, RequestSearch, RequestRecovery
<1>2. b \in Addresses /\ Day(c.now) \in Nat
  BY <1>1, CallFields, DayType
<1>3. CASE subscribers'[a] = subscribers[a]
  BY <1>3 DEF OwnerStep, SuppressedLive
<1>4. \/ subscribers' = subscribers
      \/ subscribers' = [subscribers EXCEPT ![b] = Known(b)]
      \/ /\ ~subscribers[b].suppressed
         /\ \/ subscribers' = [subscribers EXCEPT ![b] = CountedMail(b, Known(b), Day(c.now))]
            \/ subscribers' = [subscribers EXCEPT ![b] = CountedMail(b, @, Day(c.now))]
  BY DEF RequestSearch, RequestRecovery, MayConfirm, MayRecover
<1>5. Known(b).suppressed = subscribers[b].suppressed
  BY <1>2 DEF Known, NewSubscriber, NoSubscriber, SuppressedLive, TypeOK, SubscriberRow
<1>6. subscribers[b].suppressed => Known(b) = subscribers[b]
  BY <1>2 DEF Known, SuppressedLive
<1>7. ASSUME NEW row \in {Known(b), subscribers[b]}
      PROVE  CountedMail(b, row, Day(c.now)).suppressed = subscribers[b].suppressed
  BY <1>2, <1>5, KnownType DEF TypeOK
<1>8. CASE a = b
  <2>1. CASE subscribers'[a] = Known(b)
    BY <1>2, <1>5, <1>6, <1>8, <2>1 DEF OwnerStep, SuppressedLive
  <2>2. CASE ~subscribers[b].suppressed /\ ~subscribers'[b].suppressed
    BY <1>8, <2>2 DEF OwnerStep
  <2>3. QED
    BY <1>2, <1>3, <1>4, <1>7, <1>8, <2>1, <2>2 DEF TypeOK
<1>9. CASE a # b
  BY <1>3, <1>4, <1>9 DEF TypeOK
<1>10. QED
  BY <1>8, <1>9

LEMMA SuppressOwner ==
    ASSUME TypeOK, SuppressedLive, NEW a \in Addresses, NEW w \in Workers, Suppress(w)
    PROVE  OwnerStep(a)
<1> DEFINE c == calls[w]
           b == c.addr
<1>1. c \in Call \cup {Idle} /\ c.op = "suppress"
  BY DEF TypeOK, Suppress
<1>2. b \in Addresses /\ c.now \in Nat
  BY <1>1, CallFields
<1>3. CASE subscribers'[a] = subscribers[a]
  BY <1>3 DEF OwnerStep, SuppressedLive
<1>4. CASE subscribers[a].live /\ Suppressing(a, c.now)
  <2>1. subscribers'[a] = SuppressedRow(subscribers[a])
    BY <1>2, <1>4 DEF Suppressing, TypeOK
  <2>2. subscribers'[a].live /\ subscribers'[a].id = subscribers[a].id /\ subscribers'[a].suppressed
    BY <1>2, <1>4, <2>1, SubscriberRowTypes DEF TypeOK
  <2>3. ASSUME NEW s \in SearchIds, (s \in SearchesOf(a))'
        PROVE  /\ s \in SearchesOf(a)
               /\ searches'[s].status = "cancelled"
    <3>1. searches[s] \in SearchRow
      BY DEF TypeOK
    <3>2. searches'[s] = IF s \in SearchesOf(a) /\ searches[s].status # "cancelled"
                         THEN CancelledRow(searches[s], c.now) ELSE searches[s]
      BY <1>4 DEF Suppressing
    <3>3. CASE s \in SearchesOf(a)
      BY <1>2, <3>1, <3>2, <3>3, CancelledRowType
    <3>4. CASE s \notin SearchesOf(a)
      BY <2>3, <3>2, <3>4 DEF SearchesOf, Exists
    <3>5. QED
      BY <3>3, <3>4
  <2>4. ASSUME NEW r \in reminders', r.search \in SearchesOf(a)
        PROVE  r.status # "pending"
    <3>1. PICK q \in reminders :
            r = IF q.search \in SearchesOf(a) /\ q.status = "pending"
                THEN [q EXCEPT !.status = "obsolete"] ELSE q
      BY <1>4 DEF Suppressing
    <3>2. q \in Reminder
      BY DEF TypeOK
    <3>3. QED
      BY <2>4, <3>1, <3>2 DEF Reminder
  <2>5. Silenced(a)'
    BY <2>3, <2>4 DEF Silenced
  <2>6. QED
    BY <1>4, <2>2, <2>5 DEF OwnerStep
<1>5. \/ subscribers' = subscribers
      \/ subscribers[b].live /\ Suppressing(b, c.now)
  BY DEF Suppress
<1>6. CASE a # b
  BY <1>3, <1>5, <1>6 DEF Suppressing, TypeOK
<1>7. QED
  BY <1>3, <1>4, <1>5, <1>6

LEMMA ConsumePurgeOwner ==
    ASSUME TypeOK, SuppressedLive, NEW a \in Addresses,
           (\E w \in Workers : Consume(w)) \/ Purge
    PROVE  OwnerStep(a)
<1>1. CASE subscribers'[a] = subscribers[a]
  BY <1>1 DEF OwnerStep, SuppressedLive
<1>2. ASSUME NEW w \in Workers, Consume(w)
      PROVE  OwnerStep(a)
  <2> DEFINE c == calls[w]
             b == c.link.addr
  <2>1. c \in Call \cup {Idle} /\ c.op = "consume"
    BY <1>2 DEF TypeOK, Consume
  <2>2. c.replace \in BOOLEAN
    BY <2>1, CallFields
  <2>3. CASE a = b /\ subscribers' = [subscribers EXCEPT ![b] = ConsumedRow(@, c.replace)]
    <3>1. subscribers'[a] = ConsumedRow(subscribers[a], c.replace)
      BY <2>3 DEF TypeOK
    <3>2. subscribers[a] \in SubscriberRow
      BY DEF TypeOK
    <3> HIDE DEF b, c
    <3>3. ASSUME NEW replace \in BOOLEAN
          PROVE  LET row == ConsumedRow(subscribers[a], replace) IN
                 /\ row.suppressed = subscribers[a].suppressed
                 /\ row.live = subscribers[a].live
                 /\ row.id = subscribers[a].id
      BY <3>2, SubscriberRowTypes
    <3>4. /\ subscribers'[a].suppressed = subscribers[a].suppressed
          /\ subscribers'[a].live = subscribers[a].live
          /\ subscribers'[a].id = subscribers[a].id
      BY <2>2, <3>1, <3>3
    <3>5. QED
      BY <3>4 DEF OwnerStep, SuppressedLive
  <2>4. \/ subscribers' = subscribers
        \/ subscribers' = [subscribers EXCEPT ![b] = ConsumedRow(@, c.replace)]
    BY <1>2 DEF Consume
  <2>5. CASE a # b
    BY <1>1, <2>4, <2>5 DEF TypeOK
  <2>6. QED
    BY <1>1, <2>3, <2>4, <2>5
<1>3. CASE Purge
  <2>1. subscribers'[a] = IF Abandoned(a) THEN NoSubscriber(subscribers[a].id)
                          ELSE subscribers[a]
    BY <1>3 DEF Purge
  <2>2. CASE Abandoned(a)
    BY <2>1, <2>2 DEF Abandoned, NoSubscriber, OwnerStep
  <2>3. QED
    BY <1>1, <2>1, <2>2
<1>4. QED
  BY <1>2, <1>3

LEMMA NextOwner ==
    ASSUME TypeOK, SuppressedLive, [Next]_vars, NEW a \in Addresses
    PROVE  OwnerStep(a)
<1>1. CASE subscribers' = subscribers
  BY <1>1 DEF OwnerStep, SuppressedLive
<1>2. ASSUME NEW w \in Workers, Enter(w)
      PROVE  OwnerStep(a)
  BY <1>1, <1>2, EnterType DEF tables
<1>3. ASSUME NEW w \in Workers, Commit(w)
      PROVE  OwnerStep(a)
  BY <1>1, <1>3, MailOwner, SuppressOwner, ConsumePurgeOwner
     DEF Commit, Activate, Cancel, Unsubscribe, Edit, Renew, Prepare, Capture
<1>4. CASE UNCHANGED vars \/ OpenForm \/ Tick \/ \E w \in Workers : Abort(w)
  BY <1>1, <1>4 DEF vars, OpenForm, Tick, Abort, tables
<1>5. QED
  BY <1>2, <1>3, <1>4, ConsumePurgeOwner DEF Next

-----------------------------------------------------------------------------
(* The steps of a reminder                                                 *)

\* A reminder that waits and did not is new, and its owner is not suppressed.
LEMMA NextReminder ==
    ASSUME TypeOK, [Next]_vars, NEW r \in reminders', r.status = "pending"
    PROVE  \/ r \in reminders
           \/ /\ r.search \in SearchIds
              /\ ~Suppressed(r.search)
              /\ searches' = searches
<1>1. CASE reminders' = reminders
  BY <1>1
<1>2. ASSUME NEW w \in Workers, Prepare(w), r \notin reminders
      PROVE  r.search \in SearchIds /\ ~Suppressed(r.search) /\ searches' = searches
  <2>1. r \in NewReminders(calls[w].now) /\ searches' = searches
    BY <1>2 DEF Prepare, PlannedReminders
  <2>2. PICK s \in SearchIds : Due(s, calls[w].now) /\ r = Planned(s)
    BY <2>1 DEF NewReminders
  <2>3. QED
    BY <2>1, <2>2 DEF Due, Planned
<1>3. ASSUME NEW w \in Workers, Capture(w)
      PROVE  r \in reminders
  <2> DEFINE q == [search |-> calls[w].search, expires_at |-> calls[w].expires_at,
                   status |-> "pending"]
  <2>1. \/ reminders' = reminders
        \/ \E status \in {"obsolete", "previewed"} :
              reminders' = (reminders \ {q}) \cup {[q EXCEPT !.status = status]}
    BY <1>3 DEF Capture, SetReminder
  <2>2. QED
    BY <2>1
<1>4. ASSUME NEW w \in Workers, Suppress(w)
      PROVE  r \in reminders
  <2> DEFINE a == calls[w].addr
  <2>1. CASE Suppressing(a, calls[w].now)
    <3>1. PICK q \in reminders :
            r = IF q.search \in SearchesOf(a) /\ q.status = "pending"
                THEN [q EXCEPT !.status = "obsolete"] ELSE q
      BY <2>1 DEF Suppressing
    <3>2. q \in Reminder
      BY DEF TypeOK
    <3>3. QED
      BY <3>1, <3>2 DEF Reminder
  <2>2. QED
    BY <1>1, <1>4, <2>1 DEF Suppress
<1>5. CASE Purge
  BY <1>5 DEF Purge
<1>6. ASSUME NEW w \in Workers, Enter(w)
      PROVE  reminders' = reminders
  BY <1>6, EnterType DEF tables
<1>7. ASSUME NEW w \in Workers,
             \/ RequestSearch(w) \/ Activate(w) \/ Cancel(w) \/ Unsubscribe(w)
             \/ Edit(w) \/ Renew(w) \/ RequestRecovery(w) \/ Consume(w)
      PROVE  reminders' = reminders
  BY <1>7 DEF RequestSearch, Activate, Cancel, Unsubscribe, Edit, Renew,
              RequestRecovery, Consume
<1>8. CASE UNCHANGED vars \/ OpenForm \/ Tick \/ \E w \in Workers : Abort(w)
  BY <1>1, <1>8 DEF vars, OpenForm, Tick, Abort, tables
<1>9. QED
  BY <1>1, <1>2, <1>3, <1>4, <1>5, <1>6, <1>7, <1>8 DEF Next, Commit

-----------------------------------------------------------------------------
(* The invariant                                                           *)

\* Cancellation empties the row.
CancelledEmpty ==
    \A s \in SearchIds : searches[s].status = "cancelled" =>
        searches[s].name = Erased /\ searches[s].profile = Erased

LifeInv == TypeOK /\ SuppressedLive /\ SuppressionStops /\ CancelledEmpty

LEMMA SearchStaysSilent ==
    ASSUME LifeInv, NEW a \in Addresses, subscribers[a].suppressed,
           NEW s \in SearchIds, RowStep(s), (Exists(s))', searches'[s].owner = a
    PROVE  searches'[s].status = "cancelled" /\ s \in SearchesOf(a)
<1>1. Exists(s) /\ searches[s].owner = a => searches[s].status = "cancelled"
  BY DEF LifeInv, SuppressionStops, SearchesOf
<1>2. Kept(s) \/ Moved(s) \/ Ended(s) \/ Relinked(s)
  BY DEF RowStep, QuietStep, Requested, Deleted, Exists, NoSearch
<1>3. QED
  BY <1>1, <1>2 DEF Kept, Moved, Ended, Relinked, Exists, SearchesOf, Suppressed

LEMMA LifeNext == LifeInv /\ [Next]_vars => LifeInv'
<1> SUFFICES ASSUME LifeInv, [Next]_vars PROVE LifeInv'
  OBVIOUS
<1>1. TypeOK /\ SuppressedLive /\ SuppressionStops /\ CancelledEmpty /\ TypeOK'
  BY NextType DEF LifeInv
<1>2. SuppressedLive'
  BY <1>1, NextOwner DEF SuppressedLive, OwnerStep
<1>3. ASSUME NEW a \in Addresses, subscribers'[a].suppressed
      PROVE  Silenced(a)'
  <2>1. CASE subscribers[a].suppressed
    <3>1. ASSUME NEW s \in SearchIds, (s \in SearchesOf(a))'
          PROVE  /\ searches'[s].status = "cancelled"
                 /\ \A r \in reminders' : r.search = s => r.status # "pending"
      <4>1. (Exists(s))' /\ searches'[s].owner = a
        BY <3>1 DEF SearchesOf
      <4>2. searches'[s].status = "cancelled" /\ s \in SearchesOf(a)
        BY <1>1, <2>1, <4>1, NextRow, SearchStaysSilent
      <4>3. ASSUME NEW r \in reminders', r.search = s, r.status = "pending"
            PROVE  FALSE
        <5>1. r \notin reminders
          BY <1>1, <2>1, <4>2, <4>3 DEF SuppressionStops
        <5>2. ~Suppressed(s)
          BY <1>1, <4>3, <5>1, NextReminder
        <5>3. QED
          BY <2>1, <4>2, <5>2 DEF Suppressed, SearchesOf
      <4>4. QED
        BY <4>2, <4>3
    <3>2. QED
      BY <3>1 DEF Silenced
  <2>2. QED
    BY <1>1, <1>3, <2>1, NextOwner DEF OwnerStep
<1>4. SuppressionStops'
  BY <1>3 DEF SuppressionStops, Silenced, SearchesOf
<1>5. CancelledEmpty'
  <2>1. ASSUME NEW s \in SearchIds, searches'[s].status = "cancelled"
        PROVE  searches'[s].name = Erased /\ searches'[s].profile = Erased
    <3>1. Kept(s) \/ Ended(s) \/ Relinked(s)
      BY <1>1, <2>1, NextRow DEF RowStep, QuietStep, Requested, Moved, Deleted, NoSearch
    <3>2. QED
      BY <1>1, <2>1, <3>1 DEF Kept, Ended, Relinked, CancelledEmpty
  <2>2. QED
    BY <2>1 DEF CancelledEmpty
<1>6. QED
  BY <1>1, <1>2, <1>4, <1>5 DEF LifeInv

LEMMA LifeInit == Init => LifeInv
<1> SUFFICES ASSUME Init PROVE LifeInv
  OBVIOUS
<1>1. TypeOK
  BY InitType
<1>2. \A s \in SearchIds : searches[s].status = "unborn"
  BY DEF Init, NoSearch
<1>3. \A a \in Addresses : ~subscribers[a].suppressed
  BY DEF Init, NoSubscriber
<1>4. QED
  BY <1>1, <1>2, <1>3 DEF LifeInv, SuppressedLive, SuppressionStops, CancelledEmpty

-----------------------------------------------------------------------------
(* The theorems                                                            *)

\* Whatever was in flight when an address was suppressed, none of its searches can
\* be activated, renewed or edited after, and no reminder of it waits.
THEOREM SuppressionStopsHolds == Spec => []SuppressionStops
<1>1. LifeInv => SuppressionStops
  BY DEF LifeInv
<1>2. QED
  BY <1>1, LifeInit, LifeNext, PTL DEF Spec

\* No request and no housekeeping lifts a suppression or forgets its row.
THEOREM SuppressionLastsHolds == Spec => SuppressionLasts
<1>1. LifeInv /\ [Next]_vars =>
        [\A a \in Addresses : subscribers[a].suppressed =>
            subscribers'[a].suppressed /\ subscribers'[a].id = subscribers[a].id]_vars
  BY NextOwner DEF LifeInv, OwnerStep
<1>2. QED
  BY <1>1, LifeInit, LifeNext, PTL DEF Spec, SuppressionLasts

\* No stale read of a worker revives a cancelled search or refills its criteria,
\* and a deleted id stays deleted.
THEOREM CancelledForGoodHolds == Spec => CancelledForGood
<1>1. ASSUME LifeInv, [Next]_vars, NEW s \in SearchIds
      PROVE  /\ searches[s].status = "cancelled" =>
                  \/ searches'[s].status = "purged"
                  \/ /\ searches'[s].status = "cancelled"
                     /\ searches'[s].name = Erased
                     /\ searches'[s].profile = Erased
             /\ searches[s].status = "purged" => searches'[s] = searches[s]
  <2>1. CASE searches[s].status = "cancelled"
    <3>1. Kept(s) \/ Ended(s) \/ Relinked(s) \/ Deleted(s)
      BY <1>1, <2>1, NextRow DEF LifeInv, RowStep, QuietStep, Requested, Moved
    <3>2. QED
      BY <1>1, <2>1, <3>1 DEF LifeInv, CancelledEmpty, Kept, Ended, Relinked, Deleted, NoSearch
  <2>2. CASE searches[s].status = "purged"
    BY <1>1, <2>2, NextRow
       DEF LifeInv, RowStep, QuietStep, Kept, Requested, Moved, Ended, Relinked, Deleted, Exists
  <2>3. QED
    BY <2>1, <2>2
<1>2. LifeInv /\ [Next]_vars =>
        [\A s \in SearchIds :
            /\ searches[s].status = "cancelled" =>
                  \/ searches'[s].status = "purged"
                  \/ /\ searches'[s].status = "cancelled"
                     /\ searches'[s].name = Erased
                     /\ searches'[s].profile = Erased
            /\ searches[s].status = "purged" => searches'[s] = searches[s]]_vars
  BY <1>1
<1>3. QED
  BY <1>2, LifeInit, LifeNext, PTL DEF Spec, CancelledForGood

-----------------------------------------------------------------------------
(* The steps of an active search                                           *)

\* How a search that is active stays active.
Amended(s, w) ==
    /\ Edit(w) /\ calls[w].search = s /\ Editable(calls[w])
    /\ calls[w].name \in Names /\ calls[w].profile \in Profiles
    /\ searches'[s] = EditedRow(searches[s], calls[w].name, calls[w].profile)

Extended(s, w) ==
    /\ Renew(w) /\ calls[w].search = s /\ ~Lapsed(s, calls[w].now)
    /\ calls[w].now \in Nat
    /\ searches'[s] = ExtendedRow(searches[s], calls[w].now)

Restarted(s, w) ==
    /\ Renew(w) /\ calls[w].search = s /\ Lapsed(s, calls[w].now)
    /\ calls[w].now \in Nat
    /\ searches'[s] = RestartedRow(searches[s], calls[w].now)

Rekeyed(s) == searches'[s] = [searches[s] EXCEPT !.management_version = @ + 1]

LEMMA CommitCall ==
    ASSUME TypeOK, NEW w \in Workers, calls[w].op # "idle"
    PROVE  /\ calls[w] \in Call \cup {Idle}
           /\ calls[w].now \in Nat
           /\ calls[w].op = "edit" => calls[w].name \in Names /\ calls[w].profile \in Profiles
           /\ calls[w].op \in {"edit", "renew", "cancel", "activate", "unsubscribe"} =>
                 calls[w].search \in SearchIds
<1>1. calls[w] \in Call \cup {Idle}
  BY DEF TypeOK
<1>2. QED
  BY <1>1, CallFields

LEMMA ActiveStep ==
    ASSUME TypeOK, [Next]_vars, NEW s \in SearchIds,
           searches[s].status = "active", searches'[s].status = "active"
    PROVE  \/ Kept(s)
           \/ \E w \in Workers : Amended(s, w) \/ Extended(s, w) \/ Restarted(s, w)
           \/ Rekeyed(s) /\ clock' = clock
<1>1. CASE searches' = searches
  BY <1>1 DEF Kept
<1>2. searches[s] \in SearchRow
  BY DEF TypeOK
<1>3. ASSUME NEW w \in Workers, Edit(w), ~Kept(s)
      PROVE  Amended(s, w)
  <2>1. calls[w].search \in SearchIds /\ calls[w].name \in Names /\ calls[w].profile \in Profiles
    BY <1>3, CommitCall DEF Edit
  <2>2. /\ Editable(calls[w])
        /\ searches' = [searches EXCEPT
                          ![calls[w].search] = EditedRow(@, calls[w].name, calls[w].profile)]
    BY <1>1, <1>3 DEF Edit, Kept
  <2>3. QED
    BY <1>3, <2>1, <2>2 DEF Amended, Kept, TypeOK
<1>4. ASSUME NEW w \in Workers, Renew(w), ~Kept(s)
      PROVE  Extended(s, w) \/ Restarted(s, w)
  <2>1. calls[w].search \in SearchIds /\ calls[w].now \in Nat
    BY <1>4, CommitCall DEF Renew
  <2>2. \/ /\ ~Lapsed(calls[w].search, calls[w].now)
           /\ searches' = [searches EXCEPT ![calls[w].search] = ExtendedRow(@, calls[w].now)]
        \/ /\ Lapsed(calls[w].search, calls[w].now)
           /\ searches' = [searches EXCEPT ![calls[w].search] = RestartedRow(@, calls[w].now)]
    BY <1>1, <1>4 DEF Renew, Kept
  <2>3. QED
    BY <1>4, <2>1, <2>2 DEF Extended, Restarted, Kept, TypeOK
<1>5. ASSUME NEW w \in Workers, RequestSearch(w) \/ Activate(w)
      PROVE  Kept(s)
  BY <1>5 DEF RequestSearch, Activate, Confirmable, Kept, TypeOK
<1>6. ASSUME NEW w \in Workers, Cancel(w) \/ Unsubscribe(w) \/ Suppress(w)
      PROVE  Kept(s)
  <2>1. calls[w].now \in Nat
    BY <1>6, CommitCall DEF Cancel, Unsubscribe, Suppress
  <2>2. CancelledRow(searches[s], calls[w].now).status = "cancelled"
    BY <1>2, <2>1, CancelledRowType
  <2>3. QED
    BY <1>6, <2>2 DEF Cancel, Unsubscribe, Suppress, Suppressing, Kept, TypeOK
<1>7. ASSUME NEW w \in Workers, Consume(w)
      PROVE  Kept(s) \/ (Rekeyed(s) /\ clock' = clock)
  BY <1>7 DEF Consume, Kept, Rekeyed
<1>8. CASE Purge
  BY <1>8 DEF Purge, NoSearch, Kept
<1>9. ASSUME NEW w \in Workers, Enter(w)
      PROVE  Kept(s)
  BY <1>9, EnterType DEF Kept, tables
<1>10. QED
  BY <1>1, <1>3, <1>4, <1>5, <1>6, <1>7, <1>8, <1>9
     DEF Next, Commit, RequestRecovery, Prepare, Capture, Abort, OpenForm, Tick, tables, vars

LEMMA EditedFields ==
    ASSUME NEW row \in SearchRow, NEW n \in Names, NEW p \in Profiles
    PROVE  LET new == EditedRow(row, n, p) IN
           /\ new.name = n /\ new.profile = p
           /\ new.edit_version = row.edit_version + 1
           /\ new.criteria_revision =
                 IF row.profile = p THEN row.criteria_revision ELSE row.criteria_revision + 1
           /\ new.expires_at = row.expires_at
           /\ new.management_version = row.management_version
BY DEF EditedRow, SearchRow

LEMMA ExtendedFields ==
    ASSUME NEW row \in SearchRow, NEW now \in Nat
    PROVE  LET new == ExtendedRow(row, now) IN
           /\ new.name = row.name /\ new.profile = row.profile
           /\ new.edit_version = row.edit_version
           /\ new.criteria_revision = row.criteria_revision
           /\ new.expires_at = Later(row.expires_at, now + Term)
           /\ new.management_version = row.management_version
BY DEF ExtendedRow, SearchRow

LEMMA RestartedFields ==
    ASSUME NEW row \in SearchRow, NEW now \in Nat
    PROVE  LET new == RestartedRow(row, now) IN
           /\ new.name = row.name /\ new.profile = row.profile
           /\ new.edit_version = row.edit_version + 1
           /\ new.criteria_revision = row.criteria_revision + 1
           /\ new.expires_at = Later(row.expires_at, now + Term)
           /\ new.management_version = row.management_version
BY DEF RestartedRow, ExtendedRow, SearchRow

LEMMA RekeyedFields ==
    ASSUME TypeOK, NEW s \in SearchIds, Rekeyed(s)
    PROVE  /\ searches'[s].name = searches[s].name
           /\ searches'[s].profile = searches[s].profile
           /\ searches'[s].status = searches[s].status
           /\ searches'[s].edit_version = searches[s].edit_version
           /\ searches'[s].criteria_revision = searches[s].criteria_revision
           /\ searches'[s].expires_at = searches[s].expires_at
           /\ searches'[s].cancelled_at = searches[s].cancelled_at
BY DEF Rekeyed, TypeOK, SearchRow

\* What a step leaves of an active search's criteria.
LEMMA ActiveCriteria ==
    ASSUME TypeOK, [Next]_vars, NEW s \in SearchIds,
           searches[s].status = "active", searches'[s].status = "active"
    PROVE  /\ searches'[s].profile # searches[s].profile =>
                 searches'[s].criteria_revision > searches[s].criteria_revision
           /\ searches'[s].name # searches[s].name
              /\ searches'[s].profile = searches[s].profile =>
                 searches'[s].criteria_revision = searches[s].criteria_revision
<1>1. searches[s] \in SearchRow /\ searches[s].criteria_revision \in Nat
  BY DEF TypeOK, SearchRow
<1>2. CASE Kept(s)
  BY <1>2 DEF Kept
<1>3. ASSUME NEW w \in Workers, Amended(s, w)
      PROVE  /\ searches'[s].profile = calls[w].profile
             /\ searches'[s].criteria_revision =
                   IF searches[s].profile = calls[w].profile THEN searches[s].criteria_revision
                   ELSE searches[s].criteria_revision + 1
  BY <1>1, <1>3, EditedFields DEF Amended
<1>4. ASSUME NEW w \in Workers, Extended(s, w) \/ Restarted(s, w)
      PROVE  searches'[s].name = searches[s].name /\ searches'[s].profile = searches[s].profile
  BY <1>1, <1>4, ExtendedFields, RestartedFields DEF Extended, Restarted
<1>5. CASE Rekeyed(s)
  BY <1>5, RekeyedFields
<1>6. QED
  BY <1>1, <1>2, <1>3, <1>4, <1>5, ActiveStep

\* Matching criteria never change under an unchanged revision while a search is
\* active, and a rename alone never moves it (edit, renew).
THEOREM RevisionTracksProfileHolds == Spec => RevisionTracksProfile
<1>1. TypeOK /\ [Next]_vars =>
        [\A s \in SearchIds :
            searches[s].status = "active" /\ searches'[s].status = "active" =>
                /\ searches'[s].profile # searches[s].profile =>
                      searches'[s].criteria_revision > searches[s].criteria_revision
                /\ searches'[s].name # searches[s].name
                   /\ searches'[s].profile = searches[s].profile =>
                      searches'[s].criteria_revision = searches[s].criteria_revision]_vars
  BY ActiveCriteria
<1>2. QED
  BY <1>1, InitType, NextType, PTL DEF Spec, RevisionTracksProfile

-----------------------------------------------------------------------------
(* Terms                                                                   *)

\* A request in flight was made at most MaxLag ago.
Recent ==
    \A w \in Workers : calls[w] # Idle =>
        calls[w].now <= clock /\ clock <= calls[w].now + MaxLag

\* A search never runs more than a term ahead.
TermBound ==
    \A s \in SearchIds :
        searches[s].status = "active" => searches[s].expires_at <= clock + Term

TermInv == TypeOK /\ Recent /\ TermBound

LEMMA CommitFinishes ==
    ASSUME NEW w \in Workers, Commit(w)
    PROVE  Finish(w) /\ clock' = clock /\ calls[w].op # "idle"
BY DEF Commit, RequestSearch, Activate, Cancel, Unsubscribe, Suppress, Edit, Renew,
       RequestRecovery, Consume, Prepare, Capture

LEMMA FinishKeepsRecent ==
    ASSUME TypeOK, Recent, NEW w \in Workers, Finish(w), clock' = clock
    PROVE  Recent'
BY DEF TypeOK, Recent, Finish

LEMMA NextRecent ==
    ASSUME TypeOK, Recent, [Next]_vars
    PROVE  Recent' /\ clock' \in Nat /\ clock' >= clock
<1>1. clock \in Nat /\ MaxLag \in Nat
  BY TimeAssumption DEF TypeOK
<1>2. ASSUME NEW w \in Workers, Enter(w)
      PROVE  Recent' /\ clock' = clock
  BY <1>1, <1>2, EnterType DEF TypeOK, Recent
<1>3. ASSUME NEW w \in Workers, Commit(w) \/ Abort(w)
      PROVE  Recent' /\ clock' = clock
  BY <1>3, CommitFinishes, FinishKeepsRecent DEF Abort
<1>4. CASE Tick
  <2>1. clock' = clock + 1 /\ calls' = calls
    BY <1>4 DEF Tick
  <2>2. ASSUME NEW w \in Workers, calls[w] # Idle
        PROVE  calls[w].now <= clock + 1 /\ clock + 1 <= calls[w].now + MaxLag
    <3>1. calls[w].now \in Nat
      BY <2>2, CallFields DEF TypeOK
    <3>2. clock - calls[w].now < MaxLag /\ calls[w].now <= clock
      BY <1>4, <2>2 DEF Tick, Recent
    <3>3. QED
      BY <1>1, <3>1, <3>2
  <2>3. QED
    BY <1>1, <2>1, <2>2 DEF Recent
<1>5. CASE OpenForm \/ Purge \/ UNCHANGED vars
  BY <1>1, <1>5 DEF OpenForm, Purge, Recent, vars
<1>6. QED
  BY <1>1, <1>2, <1>3, <1>4, <1>5 DEF Next

\* A search that was not active becomes so by one transaction only.
LEMMA ActivationStep ==
    ASSUME TypeOK, [Next]_vars, NEW s \in SearchIds,
           searches[s].status # "active", searches'[s].status = "active"
    PROVE  \E w \in Workers :
              /\ Activate(w) /\ calls[w].now \in Nat
              /\ searches[s].status = "pending"
              /\ searches'[s] = ActivatedRow(searches[s], calls[w].now)
<1>1. RowStep(s)
  BY NextRow
<1>2. Moved(s)
  BY <1>1 DEF RowStep, QuietStep, Kept, Requested, Ended, Relinked, Deleted, NoSearch
<1>3. searches[s].status = "pending" /\ searches' # searches
  BY <1>2 DEF Moved
<1>4. ASSUME NEW w \in Workers, Activate(w)
      PROVE  calls[w].now \in Nat /\ searches'[s] = ActivatedRow(searches[s], calls[w].now)
  <2>1. calls[w].search \in SearchIds /\ calls[w].now \in Nat
    BY <1>4, CommitCall DEF Activate
  <2>2. searches' = [searches EXCEPT ![calls[w].search] = ActivatedRow(@, calls[w].now)]
    BY <1>3, <1>4 DEF Activate
  <2>3. QED
    BY <2>1, <2>2 DEF TypeOK
<1>5. ASSUME NEW w \in Workers, RequestSearch(w)
      PROVE  FALSE
  BY <1>3, <1>5 DEF RequestSearch, PendingSearch, TypeOK
<1>6. ASSUME NEW w \in Workers, Edit(w) \/ Renew(w)
      PROVE  FALSE
  <2>1. calls[w].search \in SearchIds
    BY <1>6, CommitCall DEF Edit, Renew
  <2>2. searches[calls[w].search].status = "active"
    BY <1>3, <1>6 DEF Edit, Renew, Editable, MayRenew, Renewable
  <2>3. searches'[s] = searches[s]
    BY <1>3, <1>6, <2>1, <2>2 DEF Edit, Renew, TypeOK
  <2>4. QED
    BY <2>3
<1>7. ASSUME NEW w \in Workers, Cancel(w) \/ Unsubscribe(w) \/ Suppress(w)
      PROVE  FALSE
  <2>1. calls[w].now \in Nat /\ searches[s] \in SearchRow
    BY <1>7, CommitCall DEF Cancel, Unsubscribe, Suppress, TypeOK
  <2>2. CancelledRow(searches[s], calls[w].now).status = "cancelled"
    BY <2>1, CancelledRowType
  <2>3. QED
    BY <1>7, <2>2 DEF Cancel, Unsubscribe, Suppress, Suppressing, TypeOK
<1>8. ASSUME NEW w \in Workers, Consume(w)
      PROVE  FALSE
  BY <1>8, RekeyedFields DEF Consume, Rekeyed
<1>9. ASSUME NEW w \in Workers, Enter(w)
      PROVE  FALSE
  BY <1>3, <1>9, EnterType DEF tables
<1>10. CASE Purge
  BY <1>10 DEF Purge, NoSearch
<1>11. QED
  BY <1>3, <1>4, <1>5, <1>6, <1>7, <1>8, <1>9, <1>10
     DEF Next, Commit, RequestRecovery, Prepare, Capture, Abort, OpenForm, Tick, tables, vars

LEMMA RenewalStep ==
    ASSUME TermInv, [Next]_vars, NEW s \in SearchIds,
           searches[s].status = "active", searches'[s].status = "active"
    PROVE  /\ searches'[s].expires_at >= searches[s].expires_at
           /\ searches'[s].expires_at <= clock + Term
<1>1. TypeOK /\ Recent /\ clock \in Nat /\ Term \in Nat
  BY TimeAssumption DEF TermInv, TypeOK
<1>2. searches[s].expires_at \in Nat /\ searches[s].expires_at <= clock + Term
  BY <1>1 DEF TermInv, TermBound, TypeOK, RowsConsistent
<1>3. searches[s] \in SearchRow
  BY <1>1 DEF TypeOK
<1>4. CASE Kept(s)
  BY <1>1, <1>2, <1>4 DEF Kept
<1>5. ASSUME NEW w \in Workers, Amended(s, w)
      PROVE  searches'[s].expires_at = searches[s].expires_at
  BY <1>3, <1>5, EditedFields DEF Amended
<1>6. ASSUME NEW w \in Workers, Extended(s, w) \/ Restarted(s, w)
      PROVE  /\ searches'[s].expires_at = Later(searches[s].expires_at, calls[w].now + Term)
             /\ calls[w].now \in Nat /\ calls[w].now <= clock
  <2>1. calls[w].now \in Nat /\ calls[w] # Idle
    BY <1>6 DEF Extended, Restarted, Renew, Idle
  <2>2. calls[w].now <= clock
    BY <1>1, <2>1 DEF Recent
  <2>3. searches'[s].expires_at = Later(searches[s].expires_at, calls[w].now + Term)
    BY <1>3, <1>6, ExtendedFields, RestartedFields DEF Extended, Restarted
  <2>4. QED
    BY <2>1, <2>2, <2>3
<1>7. CASE Rekeyed(s)
  BY <1>1, <1>2, <1>7, RekeyedFields
<1>8. QED
  BY <1>1, <1>2, <1>4, <1>5, <1>6, <1>7, ActiveStep DEF Later

LEMMA TermNext == TermInv /\ [Next]_vars => TermInv'
<1> SUFFICES ASSUME TermInv, [Next]_vars PROVE TermInv'
  OBVIOUS
<1>1. TypeOK /\ Recent /\ TypeOK' /\ Recent' /\ clock' \in Nat /\ clock' >= clock
  BY NextType, NextRecent DEF TermInv
<1>2. clock \in Nat /\ Term \in Nat
  BY <1>1, TimeAssumption DEF TypeOK
<1>3. ASSUME NEW s \in SearchIds, searches'[s].status = "active"
      PROVE  searches'[s].expires_at <= clock' + Term
  <2>1. searches'[s].expires_at \in Nat
    BY <1>1, <1>3 DEF TypeOK, RowsConsistent
  <2>2. CASE searches[s].status = "active"
    BY <1>1, <1>2, <1>3, <2>1, <2>2, RenewalStep
  <2>3. CASE searches[s].status # "active"
    <3>1. PICK w \in Workers :
            /\ Activate(w) /\ calls[w].now \in Nat
            /\ searches'[s] = ActivatedRow(searches[s], calls[w].now)
      BY <1>1, <1>3, <2>3, ActivationStep
    <3>2. searches'[s].expires_at = calls[w].now + Term
      <4>1. searches[s] \in SearchRow
        BY <1>1 DEF TypeOK
      <4>2. QED
        BY <3>1, <4>1, ActivatedRowType
    <3>3. calls[w].now <= clock
      BY <1>1, <3>1 DEF Recent, Activate, Idle
    <3>4. QED
      BY <1>1, <1>2, <3>1, <3>2, <3>3
  <2>4. QED
    BY <2>2, <2>3
<1>4. QED
  BY <1>1, <1>3 DEF TermInv, TermBound

LEMMA TermInit == Init => TermInv
<1> SUFFICES ASSUME Init PROVE TermInv
  OBVIOUS
<1>1. \A s \in SearchIds : searches[s].status = "unborn"
  BY DEF Init, NoSearch
<1>2. Recent
  BY DEF Init, Recent
<1>3. QED
  BY <1>1, <1>2, InitType DEF TermInv, TermBound

\* However often a search is renewed and however long the renewals wait, it is never
\* active for more than a term from now, and no step shortens it (renew).
THEOREM RenewalsDoNotStackHolds == Spec => RenewalsDoNotStack
<1>1. TermInv /\ [Next]_vars =>
        [\A s \in SearchIds :
            searches[s].status = "active" /\ searches'[s].status = "active" =>
                /\ searches'[s].expires_at >= searches[s].expires_at
                /\ searches'[s].expires_at <= clock + Term]_vars
  BY RenewalStep
<1>2. QED
  BY <1>1, TermInit, TermNext, PTL DEF Spec, RenewalsDoNotStack

-----------------------------------------------------------------------------
(* Cancellation and housekeeping                                           *)

\* Only the button of the management page writes the time of a cancellation again:
\* a retried unsubscription or suppression finds the search cancelled and leaves it.
THEOREM CancellationTimeKeptHolds == Spec => CancellationTimeKept
<1>1. ASSUME TypeOK, [Next]_vars, NEW s \in SearchIds,
             searches[s].status = "cancelled", searches'[s].status = "cancelled",
             searches'[s].cancelled_at # searches[s].cancelled_at
      PROVE  \E w \in Workers : calls[w].op = "cancel" /\ calls[w].search = s /\ calls'[w] = Idle
  <2>1. searches[s] \in SearchRow /\ searches' # searches
    BY <1>1 DEF TypeOK
  <2>2. ASSUME NEW w \in Workers, Cancel(w)
        PROVE  calls[w].op = "cancel" /\ calls[w].search = s /\ calls'[w] = Idle
    BY <1>1, <2>2 DEF Cancel, Finish, TypeOK
  <2>3. ASSUME NEW w \in Workers, Unsubscribe(w) \/ Suppress(w) \/ RequestSearch(w)
        PROVE  FALSE
    BY <1>1, <2>3
       DEF Unsubscribe, Unsubscribable, Suppress, Suppressing, RequestSearch, TypeOK
  <2>4. ASSUME NEW w \in Workers, Activate(w) \/ Edit(w) \/ Renew(w)
        PROVE  FALSE
    <3>1. calls[w].search \in SearchIds
      BY <1>1, <2>4, CommitCall DEF Activate, Edit, Renew
    <3>2. searches[calls[w].search].status # "cancelled"
      BY <2>1, <2>4 DEF Activate, Confirmable, Edit, Editable, Renew, MayRenew, Renewable
    <3>3. searches'[s] = searches[s]
      BY <1>1, <2>1, <2>4, <3>1, <3>2 DEF Activate, Edit, Renew, TypeOK
    <3>4. QED
      BY <1>1, <3>3
  <2>5. ASSUME NEW w \in Workers, Consume(w)
        PROVE  FALSE
    BY <1>1, <2>5, RekeyedFields DEF Consume, Rekeyed
  <2>6. ASSUME NEW w \in Workers, Enter(w)
        PROVE  FALSE
    BY <1>1, <2>1, <2>6, EnterType DEF tables
  <2>7. CASE Purge
    BY <1>1, <2>7 DEF Purge, NoSearch
  <2>8. QED
    BY <1>1, <2>1, <2>2, <2>3, <2>4, <2>5, <2>6, <2>7
       DEF Next, Commit, RequestRecovery, Prepare, Capture, Abort, OpenForm, Tick, tables, vars
<1>2. TypeOK /\ [Next]_vars =>
        [\A s \in SearchIds :
            /\ searches[s].status = "cancelled"
            /\ searches'[s].status = "cancelled"
            /\ searches'[s].cancelled_at # searches[s].cancelled_at
            => \E w \in Workers :
                calls[w].op = "cancel" /\ calls[w].search = s /\ calls'[w] = Idle]_vars
  BY <1>1
<1>3. QED
  BY <1>2, InitType, NextType, PTL DEF Spec, CancellationTimeKept

\* At no instant does housekeeping take a search that a request of that instant could
\* still bring forward, or keep one that none can (purge_searches against activate
\* and renew): that a suppressed address has only cancelled searches is what makes
\* the two agree on it.
THEOREM PurgeMatchesDeadlinesHolds == Spec => []PurgeMatchesDeadlines
<1>1. ASSUME LifeInv, NEW s \in SearchIds, Exists(s)
      PROVE  Doomed(s) <=> ~Revivable(s)
  <2>1. /\ TypeOK /\ SuppressionStops
        /\ searches[s] \in SearchRow
        /\ searches[s].owner \in Addresses
        /\ clock \in Nat /\ ConfirmTerm \in Nat /\ Grace \in Nat
    BY <1>1, TimeAssumption DEF LifeInv, TypeOK, RowsConsistent
  <2>2. searches[s].created_at \in Int /\ searches[s].expires_at \in Int
    BY <2>1 DEF SearchRow, Instant, Never
  <2>3. searches[s].status # "cancelled" => ~Suppressed(s)
    BY <1>1, <2>1 DEF SuppressionStops, SearchesOf, Suppressed
  <2>4. CASE searches[s].status = "pending"
    BY <2>1, <2>2, <2>3, <2>4 DEF Doomed, Revivable, Confirmable, Renewable
  <2>5. CASE searches[s].status = "active"
    BY <2>1, <2>2, <2>3, <2>5 DEF Doomed, Revivable, Confirmable, Renewable
  <2>6. CASE searches[s].status = "cancelled"
    BY <2>6 DEF Doomed, Revivable, Confirmable, Renewable
  <2>7. QED
    BY <1>1, <2>4, <2>5, <2>6 DEF Exists
<1>2. LifeInv => PurgeMatchesDeadlines
  BY <1>1 DEF PurgeMatchesDeadlines
<1>3. QED
  BY <1>2, LifeInit, LifeNext, PTL DEF Spec

-----------------------------------------------------------------------------
(* Reminders                                                               *)

\* What a step may do to the reminders: plan new ones, settle waiting ones, delete
\* those of deleted searches.
LEMMA SettledReminder ==
    ASSUME TypeOK, [Next]_vars, NEW r \in reminders, r.status # "pending"
    PROVE  r \in reminders' \/ ~(Exists(r.search))'
<1>1. CASE reminders' = reminders
  BY <1>1
<1>2. ASSUME NEW w \in Workers, Prepare(w) \/ Capture(w)
      PROVE  r \in reminders'
  BY <1>2 DEF Prepare, PlannedReminders, Capture, SetReminder
<1>3. ASSUME NEW w \in Workers, Suppress(w)
      PROVE  r \in reminders'
  BY <1>3 DEF Suppress, Suppressing
<1>4. CASE Purge
  BY <1>4 DEF Purge, Exists, NoSearch, TypeOK, Reminder
<1>5. ASSUME NEW w \in Workers, Enter(w)
      PROVE  reminders' = reminders
  BY <1>5, EnterType DEF tables
<1>6. QED
  BY <1>1, <1>2, <1>3, <1>4, <1>5
     DEF Next, Commit, RequestSearch, Activate, Cancel, Unsubscribe, Edit, Renew,
         RequestRecovery, Consume, Abort, OpenForm, Tick, tables, vars

\* No planning, capture or suppression touches a reminder that was settled; it goes
\* only with its search (get_or_create in prepare, the status check in capture).
THEOREM RemindersSettleHolds == Spec => RemindersSettle
<1>1. TypeOK /\ [Next]_vars =>
        [\A r \in reminders : r.status # "pending" =>
            r \in reminders' \/ ~Exists(r.search)']_vars
  BY SettledReminder
<1>2. QED
  BY <1>1, InitType, NextType, PTL DEF Spec, RemindersSettle

LEMMA NewPreview ==
    ASSUME TypeOK, [Next]_vars,
           NEW r \in reminders', r.status = "previewed", r \notin reminders
    PROVE  \E w \in Workers :
              /\ calls[w] # Idle /\ calls[w].now \in Nat
              /\ clock' = clock
              /\ r.search \in SearchIds
              /\ searches[r.search].status = "active"
              /\ searches[r.search].expires_at = r.expires_at
              /\ r.expires_at \in Nat
              /\ ~Suppressed(r.search)
              /\ r.expires_at > calls[w].now
              /\ r.expires_at <= calls[w].now + ReminderWindow
<1>1. CASE reminders' \subseteq reminders
  BY <1>1
<1>2. ASSUME NEW w \in Workers, Prepare(w)
      PROVE  FALSE
  BY <1>2 DEF Prepare, PlannedReminders, NewReminders, Planned
<1>3. ASSUME NEW w \in Workers, Suppress(w)
      PROVE  FALSE
  <2>1. PICK q \in reminders : r = q \/ r = [q EXCEPT !.status = "obsolete"]
    BY <1>3 DEF Suppress, Suppressing
  <2>2. q \in Reminder
    BY DEF TypeOK
  <2>3. QED
    BY <2>1, <2>2 DEF Reminder
<1>4. ASSUME NEW w \in Workers, Capture(w)
      PROVE  /\ calls[w] # Idle /\ calls[w].now \in Nat
             /\ clock' = clock
             /\ r.search \in SearchIds
             /\ searches[r.search].status = "active"
             /\ searches[r.search].expires_at = r.expires_at
             /\ r.expires_at \in Nat
             /\ ~Suppressed(r.search)
             /\ r.expires_at > calls[w].now
             /\ r.expires_at <= calls[w].now + ReminderWindow
  <2> DEFINE q == [search |-> calls[w].search, expires_at |-> calls[w].expires_at,
                   status |-> "pending"]
  <2>1. calls[w] # Idle /\ calls[w].now \in Nat /\ clock' = clock
    BY <1>4, CommitCall DEF Capture, Idle
  <2>2. \/ reminders' = reminders
        \/ reminders' = (reminders \ {q}) \cup {[q EXCEPT !.status = "obsolete"]}
        \/ /\ Presentable(q, calls[w].now)
           /\ reminders' = (reminders \ {q}) \cup {[q EXCEPT !.status = "previewed"]}
    BY <1>4 DEF Capture, SetReminder
  <2>3. Presentable(q, calls[w].now) /\ r = [q EXCEPT !.status = "previewed"]
    BY <2>2
  <2>4. q \in reminders /\ q.search = r.search /\ q.expires_at = r.expires_at
    BY <2>3 DEF Presentable
  <2>5. q \in Reminder /\ q.expires_at \in Nat
    BY <2>4 DEF TypeOK, RowsConsistent
  <2>6. /\ ~Outdated(q, calls[w].now)
        /\ searches[q.search].expires_at <= calls[w].now + ReminderWindow
    BY <2>3 DEF Presentable
  <2> HIDE DEF q
  <2>7. QED
    BY <2>1, <2>4, <2>5, <2>6 DEF Outdated, Reminder
<1>5. ASSUME NEW w \in Workers, Enter(w)
      PROVE  reminders' = reminders
  BY <1>5, EnterType DEF tables
<1>6. QED
  BY <1>1, <1>2, <1>3, <1>4, <1>5
     DEF Next, Commit, RequestSearch, Activate, Cancel, Unsubscribe, Edit, Renew, Purge,
         RequestRecovery, Consume, Abort, OpenForm, Tick, tables, vars

\* A preview that is captured shows the term that is stored at that moment, of a
\* search that is active and not suppressed, and that was about to end when the
\* command read its clock (capture).
THEOREM PreviewsAreCurrentHolds == Spec => PreviewsAreCurrent
<1>1. ASSUME TypeOK, Recent, [Next]_vars,
             NEW r \in reminders', r.status = "previewed", r \notin reminders
      PROVE  /\ searches[r.search].status = "active"
             /\ searches[r.search].expires_at = r.expires_at
             /\ ~Suppressed(r.search)
             /\ r.expires_at > clock - MaxLag
             /\ r.expires_at <= clock + ReminderWindow
  <2>1. PICK w \in Workers :
              /\ calls[w] # Idle /\ calls[w].now \in Nat
              /\ searches[r.search].status = "active"
              /\ searches[r.search].expires_at = r.expires_at
              /\ r.expires_at \in Nat
              /\ ~Suppressed(r.search)
              /\ r.expires_at > calls[w].now
              /\ r.expires_at <= calls[w].now + ReminderWindow
    BY <1>1, NewPreview
  <2>2. clock \in Nat /\ MaxLag \in Nat /\ ReminderWindow \in Nat
    BY <1>1, TimeAssumption DEF TypeOK
  <2>3. calls[w].now <= clock /\ clock <= calls[w].now + MaxLag
    BY <1>1, <2>1 DEF Recent
  <2>4. QED
    BY <2>1, <2>2, <2>3
<1>2. TermInv /\ [Next]_vars =>
        [\A r \in reminders' :
            r.status = "previewed" /\ r \notin reminders =>
                /\ searches[r.search].status = "active"
                /\ searches[r.search].expires_at = r.expires_at
                /\ ~Suppressed(r.search)
                /\ r.expires_at > clock - MaxLag
                /\ r.expires_at <= clock + ReminderWindow]_vars
  BY <1>1 DEF TermInv
<1>3. QED
  BY <1>2, TermInit, TermNext, PTL DEF Spec, PreviewsAreCurrent

-----------------------------------------------------------------------------
(* The promise                                                             *)

PromiseInv == LifeInv /\ Recent

LEMMA OneLife ==
    ASSUME NEW s \in SearchIds, NEW row, TypeOK, searches' = [searches EXCEPT ![s] = row]
    PROVE  Promise!Becomes(s, LifeOf(row))
BY DEF Promise!Becomes, Lives, TypeOK

LEMMA SameLives ==
    ASSUME \A s \in SearchIds : LifeOf(searches'[s]) = LifeOf(searches[s])
    PROVE  Lives' = Lives
BY DEF Lives, LifeOf

\* What the promise sees of each row the services write.
LEMMA LivesOfRows ==
    ASSUME NEW row \in SearchRow, NEW now \in Nat
    PROVE  /\ LifeOf(ActivatedRow(row, now)) =
                Promise!Turned(LifeOf(row), "active", LifeOf(row).criteria, now + Term)
           /\ \A n \in Names, p \in Profiles :
                LifeOf(EditedRow(row, n, p)) =
                  Promise!Turned(LifeOf(row), row.status, <<n, p>>, LifeOf(row).ends)
           /\ LET later == Later(row.expires_at, now + Term) IN
              /\ LifeOf(ExtendedRow(row, now)) =
                   Promise!Turned(LifeOf(row), row.status, LifeOf(row).criteria, later)
              /\ LifeOf(RestartedRow(row, now)) =
                   Promise!Turned(LifeOf(row), row.status, LifeOf(row).criteria, later)
           /\ LifeOf(CancelledRow(row, now)) = Promise!Cancelled(LifeOf(row))
<1>1. LET new == ActivatedRow(row, now) IN
      /\ new.status = "active" /\ new.owner = row.owner /\ new.name = row.name
      /\ new.profile = row.profile /\ new.created_at = row.created_at
      /\ new.expires_at = now + Term
  BY DEF ActivatedRow, SearchRow
<1>2. ASSUME NEW n \in Names, NEW p \in Profiles
      PROVE  LifeOf(EditedRow(row, n, p)) =
               Promise!Turned(LifeOf(row), row.status, <<n, p>>, LifeOf(row).ends)
  <2>1. LET new == EditedRow(row, n, p) IN
        /\ new.status = row.status /\ new.owner = row.owner /\ new.name = n
        /\ new.profile = p /\ new.created_at = row.created_at
        /\ new.expires_at = row.expires_at
    BY DEF EditedRow, SearchRow
  <2>2. QED
    BY <2>1 DEF LifeOf, Promise!Turned
<1>3. LET new == ExtendedRow(row, now) IN
      /\ new.status = row.status /\ new.owner = row.owner /\ new.name = row.name
      /\ new.profile = row.profile /\ new.created_at = row.created_at
      /\ new.expires_at = Later(row.expires_at, now + Term)
  BY DEF ExtendedRow, SearchRow
<1>4. LET new == RestartedRow(row, now) IN
      /\ new.status = row.status /\ new.owner = row.owner /\ new.name = row.name
      /\ new.profile = row.profile /\ new.created_at = row.created_at
      /\ new.expires_at = Later(row.expires_at, now + Term)
  BY DEF RestartedRow, ExtendedRow, SearchRow
<1>5. LET new == CancelledRow(row, now) IN
      /\ new.status = "cancelled" /\ new.owner = row.owner /\ new.name = Erased
      /\ new.profile = Erased /\ new.created_at = row.created_at
      /\ new.expires_at = row.expires_at
  BY DEF CancelledRow, SearchRow
<1>6. QED
  BY <1>1, <1>2, <1>3, <1>4, <1>5 DEF LifeOf, Promise!Turned, Promise!Cancelled

\* The instant a request brings is one the promise allows, and a search of an
\* address that is not suppressed is heard.
LEMMA PromisedInstant ==
    ASSUME PromiseInv, NEW w \in Workers, calls[w].op # "idle"
    PROVE  calls[w].now \in Promise!Instants
<1>1. calls[w].now \in Nat /\ calls[w] # Idle
  BY CommitCall DEF PromiseInv, LifeInv, Idle
<1>2. calls[w].now <= clock /\ clock <= calls[w].now + MaxLag
  BY <1>1 DEF PromiseInv, Recent
<1>3. clock \in Nat /\ MaxLag \in Nat
  BY TimeAssumption DEF PromiseInv, LifeInv, TypeOK
<1>4. calls[w].now \in 0..clock /\ clock - calls[w].now <= MaxLag
  BY <1>1, <1>2, <1>3
<1>5. QED
  BY <1>4 DEF Promise!Instants

LEMMA PromisedLife ==
    ASSUME NEW s \in SearchIds
    PROVE  /\ Lives[s] = LifeOf(searches[s])
           /\ Lives[s].phase = searches[s].status
           /\ Lives[s].owner = searches[s].owner
           /\ Lives[s].asked = searches[s].created_at
           /\ Lives[s].ends = searches[s].expires_at
           /\ Promise!There(s) <=> Exists(s)
           /\ ~Suppressed(s) => Promise!Heard(s)
BY DEF Lives, LifeOf, Promise!There, Exists, Promise!Heard, Silent, Suppressed

-----------------------------------------------------------------------------
(* The transactions as promised steps                                      *)

LEMMA AskStep ==
    ASSUME PromiseInv, NEW w \in Workers, RequestSearch(w), searches' # searches
    PROVE  \E s \in SearchIds : Promise!Ask(s)
<1> DEFINE c == calls[w]
<1>1. /\ c.addr \in Addresses /\ c.name \in Names /\ c.profile \in Profiles
      /\ c.now \in Promise!Instants
  BY CallFields, PromisedInstant DEF PromiseInv, LifeInv, TypeOK, RequestSearch
<1>2. PICK s \in SearchIds :
        /\ searches[s].status = "unborn"
        /\ searches' = [searches EXCEPT ![s] = PendingSearch(c.addr, c.name, c.profile, c.now)]
        /\ MayConfirm(c.addr, c.now)
  BY DEF RequestSearch
<1>3. c.addr \in Addresses \ Silent
  BY <1>1, <1>2 DEF MayConfirm, Silent
<1>4. Promise!Becomes(s, LifeOf(PendingSearch(c.addr, c.name, c.profile, c.now)))
  BY <1>2, OneLife DEF PromiseInv, LifeInv
<1>5. LifeOf(PendingSearch(c.addr, c.name, c.profile, c.now)) =
        [phase |-> "pending", owner |-> c.addr, criteria |-> <<c.name, c.profile>>,
         asked |-> c.now, ends |-> Never]
  BY DEF LifeOf, PendingSearch
<1>6. <<c.name, c.profile>> \in Names \X Profiles
  BY <1>1
<1>7. Lives[s].phase = "unborn"
  BY <1>2, PromisedLife
<1> HIDE DEF c
<1>8. QED
  BY <1>1, <1>3, <1>4, <1>5, <1>6, <1>7 DEF Promise!Ask

LEMMA ConfirmStep ==
    ASSUME PromiseInv, NEW w \in Workers, Activate(w), searches' # searches
    PROVE  \E s \in SearchIds : Promise!Confirm(s)
<1> DEFINE c == calls[w]
           s == c.search
<1>1. s \in SearchIds /\ c.now \in Nat /\ c.now \in Promise!Instants
  BY CommitCall, PromisedInstant DEF PromiseInv, LifeInv, Activate
<1>2. Confirmable(c) /\ searches' = [searches EXCEPT ![s] = ActivatedRow(searches[s], c.now)]
  BY DEF Activate
<1>3. searches[s] \in SearchRow /\ searches[s].status = "pending" /\ ~Suppressed(s)
  BY <1>1, <1>2 DEF Confirmable, PromiseInv, LifeInv, TypeOK
<1>4. c.now < searches[s].created_at + ConfirmTerm
  <2>1. searches[s].created_at + ConfirmTerm > c.now
    BY <1>2 DEF Confirmable
  <2>2. searches[s].created_at \in Int /\ ConfirmTerm \in Nat
    BY <1>3, TimeAssumption DEF SearchRow, Instant, Never
  <2>3. QED
    BY <1>1, <2>1, <2>2
<1>5. Promise!Becomes(s, LifeOf(ActivatedRow(searches[s], c.now)))
  BY <1>1, <1>2, OneLife DEF PromiseInv, LifeInv
<1>6. LifeOf(ActivatedRow(searches[s], c.now)) =
        Promise!Turned(LifeOf(searches[s]), "active", LifeOf(searches[s]).criteria, c.now + Term)
  BY <1>1, <1>3, LivesOfRows
<1>7. /\ Lives[s] = LifeOf(searches[s]) /\ Lives[s].phase = "pending" /\ Promise!Heard(s)
      /\ Lives[s].asked = searches[s].created_at
  BY <1>1, <1>3, PromisedLife
<1> HIDE DEF s, c
<1>8. c.now < Lives[s].asked + ConfirmTerm
  BY <1>4, <1>7
<1>9. Promise!Becomes(s, Promise!Turned(Lives[s], "active", Lives[s].criteria, c.now + Term))
  BY <1>5, <1>6, <1>7, Zenon
<1>10. QED
  BY <1>1, <1>7, <1>8, <1>9, Zenon DEF Promise!Confirm

LEMMA ChangeStep ==
    ASSUME PromiseInv, NEW w \in Workers, Edit(w), searches' # searches
    PROVE  \E s \in SearchIds : Promise!Change(s)
<1> DEFINE c == calls[w]
           s == c.search
<1>1. /\ s \in SearchIds /\ c.now \in Nat /\ c.now \in Promise!Instants
      /\ c.name \in Names /\ c.profile \in Profiles
  BY CommitCall, PromisedInstant DEF PromiseInv, LifeInv, Edit
<1>2. Editable(c) /\ searches' = [searches EXCEPT ![s] = EditedRow(searches[s], c.name, c.profile)]
  BY DEF Edit
<1>3. /\ searches[s] \in SearchRow /\ searches[s].status = "active" /\ ~Suppressed(s)
      /\ searches[s].expires_at \in Nat
  BY <1>1, <1>2 DEF Editable, PromiseInv, LifeInv, TypeOK, RowsConsistent
<1>4. c.now < searches[s].expires_at
  BY <1>1, <1>2, <1>3 DEF Editable
<1>5. Promise!Becomes(s, LifeOf(EditedRow(searches[s], c.name, c.profile)))
  BY <1>1, <1>2, OneLife DEF PromiseInv, LifeInv
<1>6. LifeOf(EditedRow(searches[s], c.name, c.profile)) =
        Promise!Turned(LifeOf(searches[s]), "active", <<c.name, c.profile>>, LifeOf(searches[s]).ends)
  <2>1. c.name \in Names /\ c.profile \in Profiles
    BY <1>1
  <2> HIDE DEF c, s
  <2>2. QED
    BY <1>1, <1>3, <2>1, LivesOfRows
<1>7. <<c.name, c.profile>> \in Names \X Profiles
  BY <1>1
<1>8. /\ Lives[s] = LifeOf(searches[s]) /\ Lives[s].phase = "active" /\ Promise!Heard(s)
      /\ Lives[s].ends = searches[s].expires_at
  BY <1>1, <1>3, PromisedLife
<1> HIDE DEF s, c
<1>9. c.now < Lives[s].ends
  BY <1>4, <1>8
<1>10. Promise!Becomes(s, Promise!Turned(Lives[s], "active", <<c.name, c.profile>>, Lives[s].ends))
  BY <1>5, <1>6, <1>8, Zenon
<1>11. QED
  BY <1>1, <1>7, <1>8, <1>9, <1>10, Zenon DEF Promise!Change

LEMMA RenewStep ==
    ASSUME PromiseInv, NEW w \in Workers, Renew(w), searches' # searches
    PROVE  \E s \in SearchIds : Promise!Renew(s)
<1> DEFINE c == calls[w]
           s == c.search
<1>1. s \in SearchIds /\ c.now \in Nat /\ c.now \in Promise!Instants
  BY CommitCall, PromisedInstant DEF PromiseInv, LifeInv, Renew
<1>2. /\ Renewable(s, c.now)
      /\ \/ searches' = [searches EXCEPT ![s] = ExtendedRow(searches[s], c.now)]
         \/ searches' = [searches EXCEPT ![s] = RestartedRow(searches[s], c.now)]
  BY DEF Renew, MayRenew
<1>3. /\ searches[s] \in SearchRow /\ searches[s].status = "active" /\ ~Suppressed(s)
      /\ searches[s].expires_at \in Nat /\ Grace \in Nat
  BY <1>1, <1>2, TimeAssumption DEF Renewable, PromiseInv, LifeInv, TypeOK, RowsConsistent
<1>4. c.now < searches[s].expires_at + Grace
  BY <1>1, <1>2, <1>3 DEF Renewable
<1>5. \/ Promise!Becomes(s, LifeOf(ExtendedRow(searches[s], c.now)))
      \/ Promise!Becomes(s, LifeOf(RestartedRow(searches[s], c.now)))
  BY <1>1, <1>2, OneLife DEF PromiseInv, LifeInv
<1> DEFINE later == Later(searches[s].expires_at, c.now + Term)
           new == Promise!Turned(LifeOf(searches[s]), "active", LifeOf(searches[s]).criteria, later)
<1>6. LifeOf(ExtendedRow(searches[s], c.now)) = new /\ LifeOf(RestartedRow(searches[s], c.now)) = new
  BY <1>1, <1>3, LivesOfRows
<1>7. /\ Lives[s] = LifeOf(searches[s]) /\ Lives[s].phase = "active" /\ Promise!Heard(s)
      /\ Lives[s].ends = searches[s].expires_at
  BY <1>1, <1>3, PromisedLife
<1>8. /\ later \in {c.now + Term, Lives[s].ends}
      /\ later >= c.now + Term /\ later >= Lives[s].ends
  BY <1>1, <1>3, <1>7, TimeAssumption DEF Later
<1>9. c.now < Lives[s].ends + Grace
  BY <1>4, <1>7
<1>10. Promise!Becomes(s, Promise!Turned(Lives[s], "active", Lives[s].criteria, later))
  BY <1>5, <1>6, <1>7
<1> HIDE DEF s, c, later, new
<1>11. QED
  BY <1>1, <1>7, <1>8, <1>9, <1>10, Zenon DEF Promise!Renew

LEMMA EndStep ==
    ASSUME PromiseInv, NEW w \in Workers, Cancel(w) \/ Unsubscribe(w), searches' # searches
    PROVE  \E s \in SearchIds : Promise!End(s)
<1> DEFINE c == calls[w]
           s == c.search
<1>1. s \in SearchIds /\ c.now \in Nat
  BY CommitCall DEF PromiseInv, LifeInv, Cancel, Unsubscribe
<1>2. Exists(s) /\ searches' = [searches EXCEPT ![s] = CancelledRow(searches[s], c.now)]
  BY DEF Cancel, Authorised, Unsubscribe, Unsubscribable, Exists
<1>3. searches[s] \in SearchRow /\ (searches[s].status = "active" => searches[s].expires_at \in Nat)
  BY <1>1 DEF PromiseInv, LifeInv, TypeOK, RowsConsistent
<1>4. Promise!Becomes(s, LifeOf(CancelledRow(searches[s], c.now)))
  BY <1>1, <1>2, OneLife DEF PromiseInv, LifeInv
<1>5. LifeOf(CancelledRow(searches[s], c.now)) = Promise!Cancelled(LifeOf(searches[s]))
  BY <1>1, <1>3, LivesOfRows
<1> HIDE DEF s, c
<1>6. QED
  BY <1>1, <1>2, <1>4, <1>5, PromisedLife DEF Promise!End

LEMMA SilenceStep ==
    ASSUME PromiseInv, NEW w \in Workers, Suppress(w)
    PROVE  \/ \E a \in Addresses : Promise!Silence(a)
           \/ Lives' = Lives /\ Silent' = Silent
<1> DEFINE c == calls[w]
           a == c.addr
<1>1. a \in Addresses /\ c.now \in Nat
  BY CallFields DEF PromiseInv, LifeInv, TypeOK, Suppress
<1>2. CASE Suppressing(a, c.now)
  <2>1. Silent' = Silent \cup {a}
    <3>1. subscribers' = [subscribers EXCEPT ![a] = SuppressedRow(subscribers[a])]
      BY <1>2 DEF Suppressing
    <3>2. SuppressedRow(subscribers[a]).suppressed
      BY <1>1, SubscriberRowTypes DEF PromiseInv, LifeInv, TypeOK
    <3>3. QED
      BY <1>1, <3>1, <3>2 DEF Silent, PromiseInv, LifeInv, TypeOK
  <2>2. ASSUME NEW s \in SearchIds
        PROVE  LifeOf(searches'[s]) =
                 IF Promise!There(s) /\ Lives[s].owner = a
                 THEN Promise!Cancelled(Lives[s]) ELSE Lives[s]
    <3>1. searches'[s] = IF s \in SearchesOf(a) /\ searches[s].status # "cancelled"
                         THEN CancelledRow(searches[s], c.now) ELSE searches[s]
      BY <1>2 DEF Suppressing
    <3>2. /\ searches[s] \in SearchRow
          /\ searches[s].status = "active" => searches[s].expires_at \in Nat
      BY DEF PromiseInv, LifeInv, TypeOK, RowsConsistent
    <3>3. s \in SearchesOf(a) <=> Promise!There(s) /\ Lives[s].owner = a
      BY PromisedLife DEF SearchesOf
    <3>4. LifeOf(CancelledRow(searches[s], c.now)) = Promise!Cancelled(Lives[s])
      <4>1. LifeOf(CancelledRow(searches[s], c.now)) = Promise!Cancelled(LifeOf(searches[s]))
        BY <1>1, <3>2, LivesOfRows
      <4>2. QED
        BY <4>1, PromisedLife
    <3>5. searches[s].status = "cancelled" => Promise!Cancelled(Lives[s]) = Lives[s]
      BY <3>2, PromisedLife
         DEF LifeOf, Promise!Cancelled, Promise!Turned, PromiseInv, LifeInv, CancelledEmpty
    <3> HIDE DEF a, c
    <3>6. QED
      BY <3>1, <3>3, <3>4, <3>5, PromisedLife
  <2>3. Lives' = [s \in SearchIds |-> LifeOf(searches'[s])]
    BY DEF Lives, LifeOf
  <2>4. Promise!Silence(a)
    BY <2>1, <2>2, <2>3 DEF Promise!Silence
  <2>5. QED
    BY <1>1, <2>4
<1>3. CASE UNCHANGED <<subscribers, searches, reminders>>
  BY <1>3 DEF Lives, LifeOf, Silent
<1>4. QED
  BY <1>2, <1>3 DEF Suppress

LEMMA ForgetStep ==
    ASSUME PromiseInv, Purge
    PROVE  Promise!Forget
<1>1. ASSUME NEW s \in SearchIds
      PROVE  LifeOf(searches'[s]) =
               IF Promise!Over(Lives[s]) THEN Promise!Blank("purged") ELSE Lives[s]
  <2>1. searches'[s] = IF Doomed(s) THEN NoSearch("purged") ELSE searches[s]
    BY DEF Purge
  <2>2. Promise!Over(Lives[s]) <=> Doomed(s)
    BY PromisedLife DEF Promise!Over, Doomed
  <2>3. LifeOf(NoSearch("purged")) = Promise!Blank("purged")
    BY DEF LifeOf, NoSearch, Promise!Blank
  <2>4. QED
    BY <2>1, <2>2, <2>3, PromisedLife
<1>2. Lives' = [s \in SearchIds |-> LifeOf(searches'[s])]
  BY DEF Lives, LifeOf
<1>3. QED
  BY <1>1, <1>2 DEF Promise!Forget

-----------------------------------------------------------------------------
(* What the promise does not see                                           *)

\* No step but a suppression makes an address silent, and none lets it speak again.
LEMMA SilentKept ==
    ASSUME PromiseInv, [Next]_vars, \A w \in Workers : ~Suppress(w)
    PROVE  Silent' = Silent
<1> SUFFICES ASSUME NEW a \in Addresses
             PROVE  subscribers'[a].suppressed = subscribers[a].suppressed
  BY DEF Silent
<1>1. TypeOK /\ SuppressedLive
  BY DEF PromiseInv, LifeInv
<1>2. ASSUME NEW w \in Workers, RequestSearch(w) \/ RequestRecovery(w)
      PROVE  subscribers'[a].suppressed = subscribers[a].suppressed
  <2> DEFINE c == calls[w]
             b == c.addr
  <2>1. b \in Addresses /\ c.now \in Nat /\ Day(c.now) \in Nat
    BY <1>1, <1>2, CallFields, DayType DEF TypeOK, RequestSearch, RequestRecovery
  <2>2. subscribers[b] \in SubscriberRow /\ Known(b) \in SubscriberRow
    BY <1>1, <2>1, KnownType DEF TypeOK
  <2>3. Known(b).suppressed = subscribers[b].suppressed
    BY <1>1, <2>1, <2>2 DEF Known, NewSubscriber, NoSubscriber, SuppressedLive, SubscriberRow
  <2>4. ASSUME NEW row \in SubscriberRow
        PROVE  CountedMail(b, row, Day(c.now)).suppressed = row.suppressed
    BY DEF CountedMail, SubscriberRow
  <2>5. \/ subscribers' = subscribers
        \/ subscribers' = [subscribers EXCEPT ![b] = Known(b)]
        \/ subscribers' = [subscribers EXCEPT ![b] = CountedMail(b, Known(b), Day(c.now))]
        \/ subscribers' = [subscribers EXCEPT ![b] = CountedMail(b, @, Day(c.now))]
    BY <1>2 DEF RequestSearch, RequestRecovery
  <2> HIDE DEF b, c
  <2>6. QED
    BY <1>1, <2>2, <2>3, <2>4, <2>5 DEF TypeOK
<1>3. ASSUME NEW w \in Workers, Consume(w)
      PROVE  subscribers'[a].suppressed = subscribers[a].suppressed
  <2>1. calls[w].link.addr \in Addresses /\ calls[w].replace \in BOOLEAN
    BY <1>1, <1>3, CallFields DEF TypeOK, Consume, Link
  <2>2. QED
    BY <1>1, <1>3, <2>1, SubscriberRowTypes DEF Consume, TypeOK
<1>4. ASSUME Purge
      PROVE  subscribers'[a].suppressed = subscribers[a].suppressed
  <2>1. subscribers'[a] = IF Abandoned(a) THEN NoSubscriber(subscribers[a].id)
                          ELSE subscribers[a]
    BY <1>4 DEF Purge
  <2>2. NoSubscriber(subscribers[a].id).suppressed = FALSE
    BY DEF NoSubscriber
  <2>3. Abandoned(a) => subscribers[a].suppressed = FALSE
    BY <1>1 DEF Abandoned, TypeOK, SubscriberRow
  <2>4. QED
    BY <2>1, <2>2, <2>3
<1>5. ASSUME NEW w \in Workers, Enter(w)
      PROVE  subscribers' = subscribers
  BY <1>1, <1>5, EnterType DEF tables
<1>6. QED
  BY <1>2, <1>3, <1>4, <1>5
     DEF Next, Commit, Activate, Cancel, Unsubscribe, Edit, Renew, Prepare, Capture,
         Abort, OpenForm, Tick, tables, vars

\* Replacing the management links is nothing the promise speaks of.
LEMMA RelinkedLives ==
    ASSUME TypeOK, NEW w \in Workers, Consume(w)
    PROVE  Lives' = Lives
<1>1. ASSUME NEW s \in SearchIds
      PROVE  LifeOf(searches'[s]) = LifeOf(searches[s])
  <2>1. \/ searches'[s] = searches[s]
        \/ searches'[s] = [searches[s] EXCEPT !.management_version = @ + 1]
    BY DEF Consume
  <2>2. searches[s] \in SearchRow
    BY DEF TypeOK
  <2>3. QED
    BY <2>1, <2>2 DEF LifeOf, SearchRow
<1>2. QED
  BY <1>1, SameLives

LEMMA CommitPromised ==
    ASSUME PromiseInv, NEW w \in Workers, Commit(w), ~Suppress(w)
    PROVE  Promise!One \/ Lives' = Lives
<1>1. CASE searches' = searches
  BY <1>1, SameLives
<1>2. CASE RequestSearch(w) /\ searches' # searches
  BY <1>2, AskStep DEF Promise!One
<1>3. CASE Activate(w) /\ searches' # searches
  BY <1>3, ConfirmStep DEF Promise!One
<1>4. CASE Edit(w) /\ searches' # searches
  BY <1>4, ChangeStep DEF Promise!One
<1>5. CASE Renew(w) /\ searches' # searches
  BY <1>5, RenewStep DEF Promise!One
<1>6. CASE (Cancel(w) \/ Unsubscribe(w)) /\ searches' # searches
  BY <1>6, EndStep DEF Promise!One
<1>7. CASE Consume(w)
  BY <1>7, RelinkedLives DEF PromiseInv, LifeInv
<1>8. QED
  BY <1>1, <1>2, <1>3, <1>4, <1>5, <1>6, <1>7
     DEF Commit, RequestRecovery, Prepare, Capture

LEMMA PromiseStep ==
    ASSUME PromiseInv, [Next]_vars
    PROVE  [Promise!Next]_(Promise!vars)
<1>1. ASSUME NEW w \in Workers, Commit(w), \A v \in Workers : ~Suppress(v)
      PROVE  [Promise!Next]_(Promise!vars)
  <2>1. Silent' = Silent /\ clock' = clock
    BY <1>1, SilentKept, CommitFinishes
  <2>2. QED
    BY <1>1, <2>1, CommitPromised DEF Promise!Next, Promise!vars
<1>2. ASSUME NEW w \in Workers, Suppress(w)
      PROVE  [Promise!Next]_(Promise!vars)
  BY <1>2, SilenceStep DEF Promise!Next, Promise!vars, Suppress
<1>3. CASE Purge /\ \A v \in Workers : ~Suppress(v)
  BY <1>3, SilentKept, ForgetStep DEF Purge, Promise!Next
<1>4. CASE Tick /\ \A v \in Workers : ~Suppress(v)
  <2>1. clock' = clock + 1 /\ searches' = searches
    BY <1>4 DEF Tick, tables
  <2>2. QED
    BY <1>4, <2>1, SilentKept, SameLives DEF Promise!Next
<1>5. ASSUME \/ \E w \in Workers : Enter(w) \/ Abort(w)
             \/ OpenForm \/ UNCHANGED vars
      PROVE  Lives' = Lives /\ Silent' = Silent /\ clock' = clock
  <2>1. searches' = searches /\ subscribers' = subscribers /\ clock' = clock
    BY <1>5, EnterType DEF PromiseInv, LifeInv, Abort, OpenForm, vars, tables
  <2>2. QED
    BY <2>1 DEF Lives, LifeOf, Silent
<1>6. QED
  BY <1>1, <1>2, <1>3, <1>4, <1>5 DEF Next, Promise!vars

LEMMA PromiseInit == Init => Promise!Init
<1> SUFFICES ASSUME Init PROVE Promise!Init
  OBVIOUS
<1>1. Lives = [s \in SearchIds |-> Promise!Blank("unborn")]
  BY DEF Init, Lives, LifeOf, NoSearch, Promise!Blank
<1>2. Silent = {}
  BY DEF Init, Silent, NoSubscriber
<1>3. QED
  BY <1>1, <1>2 DEF Init, Promise!Init

\* The service implements what it promises about searches, for any lag: a request
\* that waited for the lock does one promised thing to one search, or nothing.
THEOREM SearchPromiseKept == Spec => KeepsSearchPromise
<1>1. Init => PromiseInv
  BY LifeInit, TermInit DEF PromiseInv, TermInv
<1>2. PromiseInv /\ [Next]_vars => PromiseInv'
  BY LifeNext, NextRecent DEF PromiseInv, LifeInv
<1>3. PromiseInv /\ [Next]_vars => [Promise!Next]_(Promise!vars)
  BY PromiseStep
<1>4. QED
  BY <1>1, <1>2, <1>3, PromiseInit, PTL DEF Spec, KeepsSearchPromise, Promise!Spec

=============================================================================
