---------------------------- MODULE Subscriptions ----------------------------
(***************************************************************************)
(* The subscription service of Dog Finder: the tables of                   *)
(* dog_finder/subscriptions/models.py and every transaction that writes    *)
(* them (services.py, recovery.py, reminders.py, purge_searches.py).       *)
(*                                                                         *)
(* Every transaction takes the row lock of the Capacity singleton first    *)
(* and holds it until it commits, so a transaction is one step.  What is   *)
(* NOT under that lock is what happens before it: the view resolves its    *)
(* credential and reads the clock, and only then calls the service, which  *)
(* may wait for the lock.  A request is therefore two steps: the view is   *)
(* entered (a worker holds a record of what it read), and the service      *)
(* commits (or the transaction is rolled back).                            *)
(*                                                                         *)
(* Abstractions.  An email address is its normalised form.  A criteria     *)
(* record is a name and a profile (postcode, state, interstate and         *)
(* description, which the code compares only together).  A random UUID is  *)
(* a counter that moves on each rotation.  Left out, because no code under *)
(* dog_finder/ reads them: verified_at, activated_at, previewed_at,        *)
(* ExpiryReminder.created_at, unsubscribe_version (never rotated) and      *)
(* baseline_pending (TRUE from creation and never cleared).                *)
(***************************************************************************)
EXTENDS Integers, FiniteSets

CONSTANTS
    Addresses,   \* normalised email addresses
    Sources,     \* keyed hashes of REMOTE_ADDR
    SearchIds,   \* UUIDs Search rows may get
    Workers,     \* web and command processes
    Names,       \* search names
    Profiles,    \* matching criteria
    Nobody,      \* the owner of a Search row that does not exist
    Erased,      \* the empty string cancellation leaves
    Requests     \* the kinds of request the environment sends

\* settings/base.py, and the periods written into the services.
CONSTANTS
    ACTIVE_SUBSCRIBER_LIMIT, ACTIVE_SEARCH_LIMIT, CONFIRMATION_DAILY_LIMIT,
    REQUEST_SOURCE_DAILY_LIMIT, PENDING_SEARCH_LIMIT,
    DayLength,       \* ticks in a UTC day
    ConfirmTerm,     \* 7 days to confirm
    Term,            \* 90 days of activity
    Grace,           \* 30 days to renew after expiry
    ReminderWindow,  \* 7 days before expiry
    RecoveryTerm     \* 7 days of a recovery link

\* Bounds of the model.
CONSTANTS
    MaxTime,    \* the clock stops here
    MaxLag,     \* ticks that may pass between a view's clock read and its commit
    MaxForms    \* edit pages opened in a behaviour

ASSUME SetAssumption ==
    /\ IsFiniteSet(Addresses)
    /\ IsFiniteSet(SearchIds)
    /\ Nobody \notin Addresses
    /\ Erased \notin Names \cup Profiles

ASSUME LimitAssumption ==
    /\ ACTIVE_SUBSCRIBER_LIMIT \in Nat \ {0}
    /\ ACTIVE_SEARCH_LIMIT \in Nat \ {0}
    /\ CONFIRMATION_DAILY_LIMIT \in Nat \ {0}
    /\ REQUEST_SOURCE_DAILY_LIMIT \in Nat \ {0}
    /\ PENDING_SEARCH_LIMIT \in Nat \ {0}

ASSUME TimeAssumption ==
    /\ DayLength \in Nat \ {0}
    /\ ConfirmTerm \in Nat \ {0}
    /\ Term \in Nat \ {0}
    /\ Grace \in Nat \ {0}
    /\ ReminderWindow \in Nat \ {0}
    /\ RecoveryTerm \in Nat \ {0}
    /\ MaxTime \in Nat
    /\ MaxLag \in Nat
    /\ MaxForms \in Nat

VARIABLES
    clock,        \* the current instant
    searches,     \* the Search table
    subscribers,  \* the Subscriber table
    sources,      \* the RequestSource table
    reminders,    \* the ExpiryReminder table
    links,        \* recovery links that were mailed
    forms,        \* edit pages that were served, with what they showed
    calls,        \* what each worker has read before taking the lock
    mailed,       \* history: mails sent for requests made today, per address
    admitted      \* history: requests made today and let through, per source

tables == <<searches, subscribers, sources, reminders>>
vars == <<clock, searches, subscribers, sources, reminders, links, forms,
          calls, mailed, admitted>>

-----------------------------------------------------------------------------
(* Rows                                                                    *)

Never == -1      \* a NULL date or instant

Day(t) == t \div DayLength

Later(t, u) == IF t >= u THEN t ELSE u

NoSearch(status) ==
    [owner |-> Nobody, status |-> status, name |-> Erased, profile |-> Erased,
     created_at |-> Never, expires_at |-> Never, cancelled_at |-> Never,
     confirmation_version |-> 0, management_version |-> 0,
     edit_version |-> 0, criteria_revision |-> 0]

\* Mutant: the row is inserted before its owner is known.
PendingOwnerless(a, n, p, now) ==
    [NoSearch("pending") EXCEPT !.name = n, !.profile = p, !.created_at = now,
        !.confirmation_version = 1, !.management_version = 1,
        !.edit_version = 1, !.criteria_revision = 1]

PendingSearch(a, n, p, now) ==
    [owner |-> a, status |-> "pending", name |-> n, profile |-> p,
     created_at |-> now, expires_at |-> Never, cancelled_at |-> Never,
     confirmation_version |-> 1, management_version |-> 1,
     edit_version |-> 1, criteria_revision |-> 1]

NoSubscriber(id) ==
    [live |-> FALSE, id |-> id, suppressed |-> FALSE,
     email_day |-> Never, email_count |-> 0,
     recovery_version |-> 0, address_version |-> 0]

NewSubscriber(id) ==
    [NoSubscriber(id) EXCEPT !.live = TRUE, !.recovery_version = 1,
                             !.address_version = 1]

NoSource == [day |-> Never, count |-> 0]

Idle == [op |-> "idle"]

-----------------------------------------------------------------------------
(* Queries                                                                 *)

Exists(s) == searches[s].status \in {"pending", "active", "cancelled"}

Suppressed(s) == subscribers[searches[s].owner].suppressed

SearchesOf(a) == {s \in SearchIds : Exists(s) /\ searches[s].owner = a}

Pending == {s \in SearchIds : searches[s].status = "pending"}

ActiveAt(s, t) == searches[s].status = "active" /\ searches[s].expires_at > t

ActiveOf(a, t) == {s \in SearchIds : searches[s].owner = a /\ ActiveAt(s, t)}

ActiveOwners(t) == {a \in Addresses : ActiveOf(a, t) # {}}

\* Mutant: the shared quota is left to request_search.
AdmittedPerAddress(a, now) == Cardinality(ActiveOf(a, now)) < ACTIVE_SEARCH_LIMIT

\* Mutant: the limit is compared with > in place of >=.
AdmittedOffByOne(a, now) ==
    /\ Cardinality(ActiveOf(a, now)) <= ACTIVE_SEARCH_LIMIT
    /\ ActiveOf(a, now) = {} =>
          Cardinality(ActiveOwners(now)) < ACTIVE_SUBSCRIBER_LIMIT

Admitted(a, now) ==
    /\ Cardinality(ActiveOf(a, now)) < ACTIVE_SEARCH_LIMIT
    /\ ActiveOf(a, now) = {} =>
          Cardinality(ActiveOwners(now)) < ACTIVE_SUBSCRIBER_LIMIT

MailsOn(a, day) ==
    IF subscribers[a].email_day = day THEN subscribers[a].email_count ELSE 0

RequestsOn(k, day) == IF sources[k].day = day THEN sources[k].count ELSE 0

Renewable(s, now) ==
    /\ searches[s].status = "active"
    /\ searches[s].expires_at + Grace > now
    /\ ~Suppressed(s)

\* Mutant: the row is found by its address and not by the key in the link.
LinkOpensByAddress(link) ==
    LET row == subscribers[link.addr] IN
    /\ row.live
    /\ ~row.suppressed
    /\ row.recovery_version = link.version
    /\ clock - link.issued <= RecoveryTerm

\* A recovery link opens while its version is current, for RecoveryTerm.
LinkOpens(link) ==
    LET row == subscribers[link.addr] IN
    /\ row.live
    /\ row.id = link.id
    /\ ~row.suppressed
    /\ row.recovery_version = link.version
    /\ clock - link.issued <= RecoveryTerm

Available(a, now) ==
    {s \in SearchesOf(a) :
        searches[s].status = "active" /\ searches[s].expires_at > now - Grace}

Due(s, now) ==
    /\ ActiveAt(s, now)
    /\ searches[s].expires_at <= now + ReminderWindow
    /\ ~Suppressed(s)

-----------------------------------------------------------------------------
(* What a transaction writes to one row                                    *)

CountedRequest(k, day) == [day |-> day, count |-> RequestsOn(k, day) + 1]

CountedMail(a, row, day) ==
    [row EXCEPT !.email_day = day, !.email_count = MailsOn(a, day) + 1]

\* get_or_create: the row of the address, made with a new key if missing.
Known(a) == IF subscribers[a].live
            THEN subscribers[a]
            ELSE NewSubscriber(subscribers[a].id + 1)

ActivatedRow(row, now) ==
    [row EXCEPT !.status = "active", !.expires_at = now + Term,
                !.confirmation_version = @ + 1]

CancelledRow(row, now) ==
    [row EXCEPT !.status = "cancelled", !.cancelled_at = now,
                !.name = Erased, !.profile = Erased]

\* Mutant: the edit version is not rotated.
EditedKeepingVersion(row, n, p) ==
    [row EXCEPT !.name = n, !.profile = p,
                !.criteria_revision = IF row.profile = p THEN @ ELSE @ + 1]

\* Mutant: the fields are assigned before they are compared.
EditedKeepingRevision(row, n, p) ==
    [row EXCEPT !.name = n, !.profile = p, !.edit_version = @ + 1]

EditedRow(row, n, p) ==
    [row EXCEPT !.name = n, !.profile = p, !.edit_version = @ + 1,
                !.criteria_revision = IF row.profile = p THEN @ ELSE @ + 1]

\* Mutant: a renewal adds a term to the one that runs.
StackedRow(row, now) == [row EXCEPT !.expires_at = @ + Term]

ExtendedRow(row, now) ==
    [row EXCEPT !.expires_at = Later(@, now + Term)]

RestartedRow(row, now) ==
    [ExtendedRow(row, now) EXCEPT !.criteria_revision = @ + 1,
                                  !.edit_version = @ + 1]

SuppressedRow(row) ==
    IF row.suppressed THEN row
    ELSE [row EXCEPT !.suppressed = TRUE, !.address_version = @ + 1,
                     !.recovery_version = @ + 1]

\* Mutant: the recovery version is rotated with the management links only.
ConsumedWhenReplacing(row, replace) ==
    IF replace THEN [row EXCEPT !.recovery_version = @ + 1, !.address_version = @ + 1]
    ELSE row

ConsumedRow(row, replace) ==
    [row EXCEPT !.recovery_version = @ + 1,
                !.address_version = IF replace THEN @ + 1 ELSE @]

-----------------------------------------------------------------------------
(* The views: what is read before the lock                                 *)

Receive(w, c) ==
    /\ c.op \in Requests
    /\ calls[w] = Idle
    /\ calls' = [calls EXCEPT ![w] = c]
    /\ UNCHANGED <<clock, tables, links, forms, mailed, admitted>>

Finish(w) == calls' = [calls EXCEPT ![w] = Idle]

\* views.create: the form is valid.
SubmitSearch(w) ==
    \E a \in Addresses, k \in Sources, n \in Names, p \in Profiles :
        Receive(w, [op |-> "request", now |-> clock, addr |-> a, source |-> k,
                    name |-> n, profile |-> p])

\* views.confirm: the confirmation credential still resolves.  Its own limit of
\* seven days is not needed here: activate checks created_at again.
PressConfirm(w) ==
    \E s \in SearchIds :
        /\ Exists(s)
        /\ searches[s].confirmation_version = 1
        /\ Receive(w, [op |-> "activate", now |-> clock, search |-> s, version |-> 1])

\* Management credentials are handed out from activation on (the redirect of
\* views.confirm, reminders, recovery mails, the dashboard).
Managed(s) == Exists(s) /\ searches[s].expires_at # Never

\* The management credential in the link resolves (tokens.resolve).
PressManage(w, op) ==
    \E s \in SearchIds :
        /\ Managed(s)
        /\ Receive(w, [op |-> op, now |-> clock, search |-> s,
                       version |-> searches[s].management_version])

\* views.cancel and views.renew, POST.
PressCancel(w) == PressManage(w, "cancel")

PressRenew(w) == PressManage(w, "renew")

\* views.edit, GET: the page carries the edit version it was rendered from.
OpenForm ==
    \E s \in SearchIds :
        /\ "edit" \in Requests
        /\ Cardinality(forms) < MaxForms
        /\ Managed(s)
        /\ forms' = forms \cup
             {[search |-> s, edit_version |-> searches[s].edit_version,
               name |-> searches[s].name, profile |-> searches[s].profile,
               revision |-> searches[s].criteria_revision]}
        /\ UNCHANGED <<clock, tables, links, calls, mailed, admitted>>

\* views.edit, POST: the credential resolves again, the form is submitted.
SubmitEdit(w) ==
    \E form \in forms, n \in Names, p \in Profiles :
        /\ Managed(form.search)
        /\ Receive(w, [op |-> "edit", now |-> clock, search |-> form.search,
                       version |-> searches[form.search].management_version,
                       form |-> form, name |-> n, profile |-> p])

\* views.unsubscribe: the credential is resolved by the service.
PostUnsubscribe(w) ==
    \E s \in SearchIds :
        /\ searches[s].status # "unborn"
        /\ Receive(w, [op |-> "unsubscribe", now |-> clock, search |-> s])

\* recovery_views.request_recovery
SubmitRecovery(w) ==
    \E a \in Addresses, k \in Sources :
        Receive(w, [op |-> "recover", now |-> clock, addr |-> a, source |-> k])

\* recovery_views.confirm, POST, with or without the replacement box ticked.
PressRecover(w) ==
    \E link \in links, replace \in BOOLEAN :
        Receive(w, [op |-> "consume", now |-> clock, link |-> link,
                    replace |-> replace])

\* suppress is called by an operator with the key of a subscriber row.
OrderSuppression(w) ==
    \E a \in Addresses :
        /\ subscribers[a].live
        /\ Receive(w, [op |-> "suppress", now |-> clock, addr |-> a,
                       id |-> subscribers[a].id])

\* preview_expiry_reminders: plan, then capture each pending reminder.
RunPrepare(w) == Receive(w, [op |-> "prepare", now |-> clock])

RunCapture(w) ==
    \E r \in reminders :
        /\ r.status = "pending"
        /\ Receive(w, [op |-> "capture", now |-> clock, search |-> r.search,
                       expires_at |-> r.expires_at])

-----------------------------------------------------------------------------
(* The services: one transaction under the Capacity lock                   *)

\* The histories count a request that was made today, by the clock its view read.
Today(now) == IF Day(now) = Day(clock) THEN 1 ELSE 0

Mail(a, now) == mailed' = [mailed EXCEPT ![a] = @ + Today(now)]

\* reserve_request_source.  A refusal saves nothing.
SourceSpent(k, now) == RequestsOn(k, Day(now)) >= REQUEST_SOURCE_DAILY_LIMIT

ReserveSource(k, now) ==
    /\ ~SourceSpent(k, now)
    /\ sources' = [sources EXCEPT ![k] = CountedRequest(k, Day(now))]
    /\ admitted' = [admitted EXCEPT ![k] = @ + Today(now)]

MailSpent(a, now) == MailsOn(a, Day(now)) >= CONFIRMATION_DAILY_LIMIT

\* Mutant: the bound is checked with >.
PendingOverfull == Cardinality(Pending) > PENDING_SEARCH_LIMIT

PendingFull == Cardinality(Pending) >= PENDING_SEARCH_LIMIT

\* request_search past the pending bound: may this address get a confirmation?
MayConfirm(a, now) ==
    /\ ~subscribers[a].suppressed
    /\ ~MailSpent(a, now)
    /\ ActiveOf(a, now) = {} =>
          Cardinality(ActiveOwners(now)) < ACTIVE_SUBSCRIBER_LIMIT

RequestSearch(w) ==
    LET c == calls[w]  a == c.addr IN
    /\ c.op = "request"
    /\ Finish(w)
    /\ UNCHANGED <<clock, reminders, links, forms>>
    /\ \/ /\ SourceSpent(c.source, c.now)
          /\ UNCHANGED <<subscribers, searches, sources, mailed, admitted>>
       \/ /\ ReserveSource(c.source, c.now)
          /\ PendingFull
          /\ UNCHANGED <<subscribers, searches, mailed>>
       \/ /\ ReserveSource(c.source, c.now)
          /\ ~PendingFull
          /\ ~MayConfirm(a, c.now)
          /\ subscribers' = [subscribers EXCEPT ![a] = Known(a)]
          /\ UNCHANGED <<searches, mailed>>
       \/ /\ ReserveSource(c.source, c.now)
          /\ ~PendingFull
          /\ MayConfirm(a, c.now)
          /\ subscribers' =
               [subscribers EXCEPT ![a] = CountedMail(a, Known(a), Day(c.now))]
          /\ \E s \in SearchIds :
               /\ searches[s].status = "unborn"
               /\ searches' = [searches EXCEPT
                                 ![s] = PendingSearch(a, c.name, c.profile, c.now)]
          /\ Mail(a, c.now)

Confirmable(c) ==
    LET row == searches[c.search] IN
    /\ row.status = "pending"
    /\ row.confirmation_version = c.version
    /\ row.created_at + ConfirmTerm > c.now
    /\ ~Suppressed(c.search)

Activate(w) ==
    LET c == calls[w]  s == c.search IN
    /\ c.op = "activate"
    /\ Finish(w)
    /\ UNCHANGED <<clock, subscribers, sources, reminders, links, forms, mailed, admitted>>
    /\ \/ /\ Confirmable(c)
          /\ Admitted(searches[s].owner, c.now)
          /\ searches' = [searches EXCEPT ![s] = ActivatedRow(@, c.now)]
       \/ /\ Confirmable(c) => ~Admitted(searches[s].owner, c.now)
          /\ UNCHANGED searches

\* Mutant: the version is not checked again under the lock.
AuthorisedByView(c) == Exists(c.search)

\* A browser supplies the management version it resolved.
Authorised(c) ==
    Exists(c.search) /\ searches[c.search].management_version = c.version

Cancel(w) ==
    LET c == calls[w]  s == c.search IN
    /\ c.op = "cancel"
    /\ Finish(w)
    /\ UNCHANGED <<clock, subscribers, sources, reminders, links, forms, mailed, admitted>>
    /\ \/ /\ Authorised(c)
          /\ searches' = [searches EXCEPT ![s] = CancelledRow(@, c.now)]
       \/ /\ ~Authorised(c)
          /\ UNCHANGED searches

\* The unsubscribe credential is never rotated: it resolves while the row exists.
Unsubscribable(s) == searches[s].status \in {"pending", "active"}

Unsubscribe(w) ==
    LET c == calls[w]  s == c.search IN
    /\ c.op = "unsubscribe"
    /\ Finish(w)
    /\ UNCHANGED <<clock, subscribers, sources, reminders, links, forms, mailed, admitted>>
    /\ \/ /\ Unsubscribable(s)
          /\ searches' = [searches EXCEPT ![s] = CancelledRow(@, c.now)]
       \/ /\ ~Unsubscribable(s)
          /\ UNCHANGED searches

\* Mutant: the waiting reminders are left to the job that captures them.
SuppressingSearches(a, now) ==
    /\ subscribers' = [subscribers EXCEPT ![a] = SuppressedRow(@)]
    /\ searches' = [s \in SearchIds |->
                      IF s \in SearchesOf(a) /\ searches[s].status # "cancelled"
                      THEN CancelledRow(searches[s], now) ELSE searches[s]]
    /\ UNCHANGED reminders

\* Mutant: only what is active is ended.
SuppressingActive(a, now) ==
    /\ subscribers' = [subscribers EXCEPT ![a] = SuppressedRow(@)]
    /\ searches' = [s \in SearchIds |->
                      IF s \in SearchesOf(a) /\ searches[s].status = "active"
                      THEN CancelledRow(searches[s], now) ELSE searches[s]]
    /\ reminders' = {IF r.search \in SearchesOf(a) /\ r.status = "pending"
                     THEN [r EXCEPT !.status = "obsolete"] ELSE r : r \in reminders}

Suppressing(a, now) ==
    /\ subscribers' = [subscribers EXCEPT ![a] = SuppressedRow(@)]
    /\ searches' = [s \in SearchIds |->
                      IF s \in SearchesOf(a) /\ searches[s].status # "cancelled"
                      THEN CancelledRow(searches[s], now) ELSE searches[s]]
    /\ reminders' = {IF r.search \in SearchesOf(a) /\ r.status = "pending"
                     THEN [r EXCEPT !.status = "obsolete"] ELSE r : r \in reminders}

Suppress(w) ==
    LET c == calls[w]  a == c.addr IN
    /\ c.op = "suppress"
    /\ Finish(w)
    /\ UNCHANGED <<clock, sources, links, forms, mailed, admitted>>
    /\ \/ /\ subscribers[a].live /\ subscribers[a].id = c.id
          /\ Suppressing(a, c.now)
       \/ /\ ~(subscribers[a].live /\ subscribers[a].id = c.id)
          /\ UNCHANGED <<subscribers, searches, reminders>>

\* Mutant: only the credential and the version of the page are checked.
EditableUnlessChanged(c) ==
    /\ Authorised(c)
    /\ searches[c.search].edit_version = c.form.edit_version

Editable(c) ==
    LET row == searches[c.search] IN
    /\ Authorised(c)
    /\ row.status = "active"
    /\ row.expires_at > c.now
    /\ ~Suppressed(c.search)
    /\ row.edit_version = c.form.edit_version

Edit(w) ==
    LET c == calls[w]  s == c.search IN
    /\ c.op = "edit"
    /\ Finish(w)
    /\ UNCHANGED <<clock, subscribers, sources, reminders, links, forms, mailed, admitted>>
    /\ \/ /\ Editable(c)
          /\ searches' = [searches EXCEPT ![s] = EditedRow(@, c.name, c.profile)]
       \/ /\ ~Editable(c)
          /\ UNCHANGED searches

MayRenew(c) == Renewable(c.search, c.now) /\ Authorised(c)

\* After expiry a renewal goes through admission again.
Lapsed(s, now) == searches[s].expires_at <= now

Renew(w) ==
    LET c == calls[w]  s == c.search IN
    /\ c.op = "renew"
    /\ Finish(w)
    /\ UNCHANGED <<clock, subscribers, sources, reminders, links, forms, mailed, admitted>>
    /\ \/ /\ MayRenew(c)
          /\ ~Lapsed(s, c.now)
          /\ searches' = [searches EXCEPT ![s] = ExtendedRow(@, c.now)]
       \/ /\ MayRenew(c)
          /\ Lapsed(s, c.now)
          /\ Admitted(searches[s].owner, c.now)
          /\ searches' = [searches EXCEPT ![s] = RestartedRow(@, c.now)]
       \/ /\ MayRenew(c)
          /\ Lapsed(s, c.now)
          /\ ~Admitted(searches[s].owner, c.now)
          /\ UNCHANGED searches
       \/ /\ ~MayRenew(c)
          /\ UNCHANGED searches

MayRecover(a, now) ==
    /\ subscribers[a].live
    /\ ~subscribers[a].suppressed
    /\ Available(a, now) # {}
    /\ ~MailSpent(a, now)

RequestRecovery(w) ==
    LET c == calls[w]  a == c.addr IN
    /\ c.op = "recover"
    /\ Finish(w)
    /\ UNCHANGED <<clock, searches, reminders, forms>>
    /\ \/ /\ SourceSpent(c.source, c.now)
          /\ UNCHANGED <<subscribers, sources, links, mailed, admitted>>
       \/ /\ ReserveSource(c.source, c.now)
          /\ ~MayRecover(a, c.now)
          /\ UNCHANGED <<subscribers, links, mailed>>
       \/ /\ ReserveSource(c.source, c.now)
          /\ MayRecover(a, c.now)
          /\ subscribers' =
               [subscribers EXCEPT ![a] = CountedMail(a, @, Day(c.now))]
          /\ links' = links \cup
               {[addr |-> a, id |-> subscribers[a].id, issued |-> clock,
                 version |-> subscribers[a].recovery_version]}
          /\ Mail(a, c.now)

\* The link is resolved under the lock, against the clock of that moment.
Consume(w) ==
    LET c == calls[w]  a == c.link.addr IN
    /\ c.op = "consume"
    /\ Finish(w)
    /\ UNCHANGED <<clock, sources, reminders, links, forms, mailed, admitted>>
    /\ \/ /\ LinkOpens(c.link)
          /\ subscribers' =
               [subscribers EXCEPT ![a] = ConsumedRow(@, c.replace)]
          /\ searches' =
               [s \in SearchIds |->
                  IF c.replace /\ s \in SearchesOf(a)
                  THEN [searches[s] EXCEPT !.management_version = @ + 1]
                  ELSE searches[s]]
       \/ /\ ~LinkOpens(c.link)
          /\ UNCHANGED <<subscribers, searches>>

Planned(s) == [search |-> s, expires_at |-> searches[s].expires_at, status |-> "pending"]

\* get_or_create by search and expiry
Unplanned(s) ==
    \A r \in reminders :
        r.search = s => r.expires_at # searches[s].expires_at

NewReminders(now) == {Planned(s) : s \in {x \in SearchIds : Due(x, now) /\ Unplanned(x)}}

\* Mutant: update_or_create in place of get_or_create.
PlannedAgain(now) ==
    LET due == {s \in SearchIds : Due(s, now)} IN
    {r \in reminders : r.search \notin due \/ r.expires_at # searches[r.search].expires_at}
        \cup {Planned(s) : s \in due}

PlannedReminders(now) == reminders \cup NewReminders(now)

Prepare(w) ==
    LET c == calls[w] IN
    /\ c.op = "prepare"
    /\ Finish(w)
    /\ UNCHANGED <<clock, searches, subscribers, sources, links, forms, mailed, admitted>>
    /\ reminders' = PlannedReminders(c.now)

\* Mutant: a renewed search keeps its old reminder current.
OutdatedUnlessActive(r, now) ==
    \/ searches[r.search].status # "active"
    \/ Suppressed(r.search)
    \/ searches[r.search].expires_at <= now

Outdated(r, now) ==
    \/ searches[r.search].status # "active"
    \/ Suppressed(r.search)
    \/ searches[r.search].expires_at # r.expires_at
    \/ searches[r.search].expires_at <= now

Presentable(r, now) ==
    /\ r \in reminders
    /\ ~Outdated(r, now)
    /\ searches[r.search].expires_at <= now + ReminderWindow

SetReminder(r, status) ==
    reminders' = (reminders \ {r}) \cup {[r EXCEPT !.status = status]}

Capture(w) ==
    LET c == calls[w] IN
    /\ c.op = "capture"
    /\ Finish(w)
    /\ UNCHANGED <<clock, searches, subscribers, sources, links, forms, mailed, admitted>>
    /\ LET r == [search |-> c.search, expires_at |-> c.expires_at, status |-> "pending"] IN
       \/ /\ r \in reminders
          /\ Outdated(r, c.now)
          /\ SetReminder(r, "obsolete")
       \/ /\ Presentable(r, c.now)
          /\ SetReminder(r, "previewed")
       \/ /\ r \in reminders => ~Outdated(r, c.now) /\ ~Presentable(r, c.now)
          /\ UNCHANGED reminders

\* Mutant: the deadline of the grace period is taken as included.
DoomedLate(s) ==
    LET row == searches[s] IN
    \/ row.status = "pending" /\ row.created_at + ConfirmTerm <= clock
    \/ row.status = "cancelled"
    \/ row.status = "active" /\ row.expires_at + Grace < clock

Doomed(s) ==
    LET row == searches[s] IN
    \/ row.status = "pending" /\ row.created_at + ConfirmTerm <= clock
    \/ row.status = "cancelled"
    \/ row.status = "active" /\ row.expires_at + Grace <= clock

\* Mutant: rows of the same day go too.
AbandonedToday(a) ==
    /\ subscribers[a].live
    /\ ~subscribers[a].suppressed
    /\ \A s \in SearchesOf(a) : Doomed(s)

\* Mutant: suppressed rows go too.
AbandonedOrSuppressed(a) ==
    /\ subscribers[a].live
    /\ \A s \in SearchesOf(a) : Doomed(s)
    /\ subscribers[a].email_day < Day(clock)

Abandoned(a) ==
    /\ subscribers[a].live
    /\ ~subscribers[a].suppressed
    /\ \A s \in SearchesOf(a) : Doomed(s)
    /\ subscribers[a].email_day < Day(clock)

StaleSource(k) == sources[k].day < Day(clock)

\* purge_searches reads the clock under the lock, so it is one step.
Purge ==
    /\ "purge" \in Requests
    /\ searches' = [s \in SearchIds |->
                      IF Doomed(s) THEN NoSearch("purged") ELSE searches[s]]
    /\ reminders' = {r \in reminders : ~Doomed(r.search)}
    /\ subscribers' = [a \in Addresses |->
                         IF Abandoned(a) THEN NoSubscriber(subscribers[a].id)
                         ELSE subscribers[a]]
    /\ sources' = [k \in Sources |-> IF StaleSource(k) THEN NoSource ELSE sources[k]]
    /\ UNCHANGED <<clock, links, forms, calls, mailed, admitted>>

\* The transaction fails and is rolled back, or its process dies.
Abort(w) ==
    /\ calls[w] # Idle
    /\ Finish(w)
    /\ UNCHANGED <<clock, tables, links, forms, mailed, admitted>>

Tick ==
    /\ clock < MaxTime
    /\ \A w \in Workers : calls[w] # Idle => clock - calls[w].now < MaxLag
    /\ clock' = clock + 1
    /\ IF Day(clock') = Day(clock)
       THEN UNCHANGED <<mailed, admitted>>
       ELSE /\ mailed' = [a \in Addresses |-> 0]
            /\ admitted' = [k \in Sources |-> 0]
    /\ UNCHANGED <<tables, links, forms, calls>>

Init ==
    /\ clock = 0
    /\ searches = [s \in SearchIds |-> NoSearch("unborn")]
    /\ subscribers = [a \in Addresses |-> NoSubscriber(0)]
    /\ sources = [k \in Sources |-> NoSource]
    /\ reminders = {}
    /\ links = {}
    /\ forms = {}
    /\ calls = [w \in Workers |-> Idle]
    /\ mailed = [a \in Addresses |-> 0]
    /\ admitted = [k \in Sources |-> 0]

Enter(w) ==
    \/ SubmitSearch(w)
    \/ PressConfirm(w)
    \/ PressCancel(w)
    \/ PressRenew(w)
    \/ SubmitEdit(w)
    \/ PostUnsubscribe(w)
    \/ SubmitRecovery(w)
    \/ PressRecover(w)
    \/ OrderSuppression(w)
    \/ RunPrepare(w)
    \/ RunCapture(w)

Commit(w) ==
    \/ RequestSearch(w)
    \/ Activate(w)
    \/ Cancel(w)
    \/ Unsubscribe(w)
    \/ Suppress(w)
    \/ Edit(w)
    \/ Renew(w)
    \/ RequestRecovery(w)
    \/ Consume(w)
    \/ Prepare(w)
    \/ Capture(w)

Next ==
    \/ \E w \in Workers : Enter(w) \/ Commit(w) \/ Abort(w)
    \/ OpenForm
    \/ Purge
    \/ Tick

Spec == Init /\ [][Next]_vars

-----------------------------------------------------------------------------
(* Types                                                                   *)

Instant == Nat \cup {Never}

SearchRow ==
    [owner : Addresses \cup {Nobody},
     status : {"unborn", "pending", "active", "cancelled", "purged"},
     name : Names \cup {Erased}, profile : Profiles \cup {Erased},
     created_at : Instant, expires_at : Instant, cancelled_at : Instant,
     confirmation_version : Nat, management_version : Nat,
     edit_version : Nat, criteria_revision : Nat]

SubscriberRow ==
    [live : BOOLEAN, id : Nat, suppressed : BOOLEAN,
     email_day : Instant, email_count : Nat,
     recovery_version : Nat, address_version : Nat]

SourceRow == [day : Instant, count : Nat]

Reminder ==
    [search : SearchIds, expires_at : Instant,
     status : {"pending", "previewed", "obsolete"}]

Link == [addr : Addresses, id : Nat, issued : Nat, version : Nat]

Form == [search : SearchIds, edit_version : Nat, name : Names \cup {Erased},
         profile : Profiles \cup {Erased}, revision : Nat]

Call ==
         [op : {"request"}, now : Nat, addr : Addresses, source : Sources,
          name : Names, profile : Profiles]
    \cup [op : {"activate", "cancel", "renew"}, now : Nat, search : SearchIds, version : Nat]
    \cup [op : {"edit"}, now : Nat, search : SearchIds, version : Nat, form : Form,
          name : Names, profile : Profiles]
    \cup [op : {"unsubscribe"}, now : Nat, search : SearchIds]
    \cup [op : {"recover"}, now : Nat, addr : Addresses, source : Sources]
    \cup [op : {"consume"}, now : Nat, link : Link, replace : BOOLEAN]
    \cup [op : {"suppress"}, now : Nat, addr : Addresses, id : Nat]
    \cup [op : {"prepare"}, now : Nat]
    \cup [op : {"capture"}, now : Nat, search : SearchIds, expires_at : Instant]

\* Every existing search has an owner and every activated one an expiry; a
\* reminder belongs to a search that exists (the foreign keys and the cascades).
RowsConsistent ==
    /\ \A s \in SearchIds :
          /\ Exists(s) => /\ searches[s].owner \in Addresses
                          /\ subscribers[searches[s].owner].live
          /\ searches[s].status = "active" => searches[s].expires_at \in Nat
          /\ searches[s].status = "pending" => searches[s].expires_at = Never
    /\ \A r \in reminders : Exists(r.search) /\ r.expires_at \in Nat

\* The tables, what was mailed or served, and what the workers hold are well
\* formed, and no row refers to a missing one (models.py, 26-99).
TypeOK ==
    /\ clock \in Nat
    /\ searches \in [SearchIds -> SearchRow]
    /\ subscribers \in [Addresses -> SubscriberRow]
    /\ sources \in [Sources -> SourceRow]
    /\ reminders \in SUBSET Reminder
    /\ links \in SUBSET Link
    /\ forms \in SUBSET Form
    /\ calls \in [Workers -> Call \cup {Idle}]
    /\ mailed \in [Addresses -> Nat]
    /\ admitted \in [Sources -> Nat]
    /\ RowsConsistent

-----------------------------------------------------------------------------
(* Quotas                                                                  *)

\* At every instant an address has at most ACTIVE_SEARCH_LIMIT searches that are
\* active by the clock, whatever requests, renewals and expiries overlap
\* (admission_error; README.md, 128).
AddressLimit ==
    \A a \in Addresses : Cardinality(ActiveOf(a, clock)) <= ACTIVE_SEARCH_LIMIT

\* At every instant at most ACTIVE_SUBSCRIBER_LIMIT addresses have an active
\* search: an address that lost its last one has given its slot back
\* (admission_error; README.md, 128-130).
SubscriberLimit == Cardinality(ActiveOwners(clock)) <= ACTIVE_SUBSCRIBER_LIMIT

\* At most PENDING_SEARCH_LIMIT searches wait for confirmation (request_search).
PendingLimit == Cardinality(Pending) <= PENDING_SEARCH_LIMIT

\* What is counted over the whole service stays in bounds: slots and searches in wait.
ServiceLimits == SubscriberLimit /\ PendingLimit

\* The requests of one UTC day send an address at most CONFIRMATION_DAILY_LIMIT
\* mails, confirmation and recovery together, housekeeping notwithstanding
\* (request_search and request_recovery; USER_STORIES.md, 142).
EmailLimit == \A a \in Addresses : mailed[a] <= CONFIRMATION_DAILY_LIMIT

\* In one UTC day a source gets at most REQUEST_SOURCE_DAILY_LIMIT requests
\* let through, creation and recovery together (reserve_request_source).
SourceLimit == \A k \in Sources : admitted[k] <= REQUEST_SOURCE_DAILY_LIMIT

\* Both daily counters hold over midnights and housekeeping.
DailyLimits == EmailLimit /\ SourceLimit

-----------------------------------------------------------------------------
(* Lifecycle                                                               *)

\* No worker's stale read brings a cancelled search back: it stays cancelled and
\* empty until it is deleted, and a deleted id is never a row again
\* (cancel, edit, renew and activate recheck the status under the lock).
CancelledForGood ==
    [][\A s \in SearchIds :
        /\ searches[s].status = "cancelled" =>
              \/ searches'[s].status = "purged"
              \/ /\ searches'[s].status = "cancelled"
                 /\ searches'[s].name = Erased
                 /\ searches'[s].profile = Erased
        /\ searches[s].status = "purged" => searches'[s] = searches[s]]_vars

\* A retried unsubscription or suppression keeps the time of the first
\* cancellation; only its own button of the management page writes it again.
CancellationTimeKept ==
    [][\A s \in SearchIds :
        /\ searches[s].status = "cancelled"
        /\ searches'[s].status = "cancelled"
        /\ searches'[s].cancelled_at # searches[s].cancelled_at
        => \E w \in Workers :
            calls[w].op = "cancel" /\ calls[w].search = s /\ calls'[w] = Idle]_vars

\* A suppressed address has no search left that could be activated, renewed or
\* edited, and no reminder waiting, whatever was in flight when it was
\* suppressed (suppress and every service's own check).
SuppressionStops ==
    \A a \in Addresses : subscribers[a].suppressed =>
        \A s \in SearchesOf(a) :
            /\ searches[s].status = "cancelled"
            /\ \A r \in reminders : r.search = s => r.status # "pending"

\* Suppression outlives housekeeping and new requests: the row is kept
\* (purge_searches spares it, get_or_create finds it).
SuppressionLasts ==
    [][\A a \in Addresses : subscribers[a].suppressed =>
         subscribers'[a].suppressed /\ subscribers'[a].id = subscribers[a].id]_vars

\* A search never runs more than a term ahead of the clock, however often it is
\* renewed, and no step brings its expiry forward (renew; README.md, 92-94).
RenewalsDoNotStack ==
    [][\A s \in SearchIds :
        searches[s].status = "active" /\ searches'[s].status = "active" =>
            /\ searches'[s].expires_at >= searches[s].expires_at
            /\ searches'[s].expires_at <= clock + Term]_vars

\* A search that had stopped being active by the clock comes back only with a
\* new criteria revision, so that the pipeline starts it from a new baseline,
\* and with its open edit pages invalidated (renew; README.md, 95-97).
ReactivationRestarts ==
    [][\A s \in SearchIds :
        /\ searches[s].status = "active"
        /\ ~ActiveAt(s, clock)
        /\ ActiveAt(s, clock)'
        => /\ searches'[s].criteria_revision > searches[s].criteria_revision
           /\ \A form \in forms :
                 form.search = s => form.edit_version # searches'[s].edit_version]_vars

\* An edit that is saved was made on a page that showed exactly the criteria and
\* the revision it replaces: no update is lost, none is applied twice (edit).
EditSawCurrent ==
    [][\A w \in Workers :
        LET s == calls[w].search  form == calls[w].form IN
        /\ calls[w].op = "edit"
        /\ calls'[w] = Idle
        /\ searches'[s] # searches[s]
        => /\ form.revision = searches[s].criteria_revision
           /\ form.name = searches[s].name
           /\ form.profile = searches[s].profile]_vars

\* Matching criteria change only together with the criteria revision while a
\* search is active; a rename alone keeps it (edit; README.md, 83-85).
RevisionTracksProfile ==
    [][\A s \in SearchIds :
        searches[s].status = "active" /\ searches'[s].status = "active" =>
            /\ searches'[s].profile # searches[s].profile =>
                  searches'[s].criteria_revision > searches[s].criteria_revision
            /\ searches'[s].name # searches[s].name
               /\ searches'[s].profile = searches[s].profile =>
                  searches'[s].criteria_revision = searches[s].criteria_revision]_vars

-----------------------------------------------------------------------------
(* Credentials                                                             *)

\* A request that resolved a management link before the links were replaced, and
\* gets the lock after, changes nothing (README.md, 115-118).
ReplacedLinksPowerless ==
    [][\A w \in Workers :
        /\ calls[w].op \in {"cancel", "renew", "edit"}
        /\ calls'[w] = Idle
        /\ calls[w].version # searches[calls[w].search].management_version
        => searches' = searches]_vars

\* Using one recovery link kills all that were mailed to the address
\* (consume; README.md, 110-112).
UseKillsAllLinks ==
    [][\A w \in Workers :
        Consume(w) /\ LinkOpens(calls[w].link) =>
            \A link \in links : link.addr = calls[w].link.addr => ~LinkOpens(link)']_vars

\* A recovery link that no longer opens never opens again, not even for the
\* row a deleted address gets when it comes back (resolve, get_or_create).
DeadLinksStayDead ==
    [][\A link \in links : ~LinkOpens(link) => ~LinkOpens(link)']_vars

-----------------------------------------------------------------------------
(* Housekeeping and reminders                                              *)

Revivable(s) ==
    \/ Confirmable([search |-> s, now |-> clock,
                    version |-> searches[s].confirmation_version])
    \/ Renewable(s, clock)

\* The deadlines of the services and of housekeeping meet, each written on its
\* own: at every instant purge_searches takes a search exactly when no request
\* made at that instant could activate or renew it (README.md, 97-98).
PurgeMatchesDeadlines ==
    \A s \in SearchIds : Exists(s) => (Doomed(s) <=> ~Revivable(s))

\* A reminder that was captured or given up never waits again: planning once more
\* does not reopen it (capture, prepare).
RemindersSettle ==
    [][\A r \in reminders : r.status # "pending" =>
         r \in reminders' \/ ~Exists(r.search)']_vars

\* A preview shows a term that is still current and about to end.  With requests
\* that lag, "about to end" is as of the clock the capture read (capture).
PreviewsAreCurrent ==
    [][\A r \in reminders' :
        r.status = "previewed" /\ r \notin reminders =>
            /\ searches[r.search].status = "active"
            /\ searches[r.search].expires_at = r.expires_at
            /\ ~Suppressed(r.search)
            /\ r.expires_at > clock - MaxLag
            /\ r.expires_at <= clock + ReminderWindow]_vars

-----------------------------------------------------------------------------
(* The promise                                                             *)

\* The rows, their versions, quotas and counters forgotten.
LifeOf(row) ==
    [phase |-> row.status, owner |-> row.owner, criteria |-> <<row.name, row.profile>>,
     asked |-> row.created_at, ends |-> row.expires_at]

Lives == [s \in SearchIds |-> LifeOf(searches[s])]

Silent == {a \in Addresses : subscribers[a].suppressed}

Promise == INSTANCE SearchPromise WITH
    Searches <- SearchIds,
    Criteria <- Names \X Profiles,
    Nothing <- <<Erased, Erased>>,
    Patience <- MaxLag,
    now <- clock,
    life <- Lives,
    silent <- Silent

\* Whatever the tables and the races of the requests are, every step does to the
\* searches what was promised: to one of them, or to all of a silenced address,
\* or to those that are over (README.md, 77-104).
KeepsSearchPromise == Promise!Spec
=============================================================================
