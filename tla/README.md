# Dog Finder: specification of the subscription service and the site pipeline

Dog Finder lets people describe the dog they want to adopt, confirms the search by
email, and keeps it active for a limited term. The part of the repository that carries
that logic is the Django application `dog_finder/subscriptions`: a few tables, a dozen
transactions on them, and the views and commands that call the transactions. Around it
stand a job queue for reminders, a transport to a mail provider, the import of a
reference table, and what is left of the pipeline that reads shelters' sites (`src/src`).
This directory models them in TLA+, checks them with TLC and proves their main invariants
with TLAPS.

Contents: [inventory](#inventory), [modules](#modules), [state and
actions](#how-state-and-actions-correspond-to-the-code), [runs and bounds](#runs),
[disagreements](#disagreements-between-code-and-documents), [fairness](#fairness),
[proofs](#proofs), [not modelled](#what-is-not-modelled), [plan](#plan).

## Inventory

| Component | State | Operations | Interacts with | What makes it correct |
|---|---|---|---|---|
| Lifecycle services (`services.py`) | `Search`, `Subscriber`, `RequestSource` rows | request_search, activate, cancel, suppress, unsubscribe, edit, renew | everything below, through the tables under the `Capacity` lock | quotas, daily limits, cancellation and suppression are final, edits see what they replace, renewals do not stack |
| Recovery (`recovery.py`) | recovery and address versions of a subscriber | request_recovery, resolve, consume | shares the mail and source counters with request_search; rotates management versions | a used link kills all, replaced links are powerless, dead links stay dead |
| Reminders (`reminders.py`) | `ExpiryReminder` rows | prepare, capture | suppress marks them obsolete, purge deletes them, renew outdates them | settled for good, previews are current |
| Housekeeping (`purge_searches.py`) | all tables | one transaction | deletes what services can no longer use | its deadlines meet those of the services; counters and suppressions survive |
| Preview command, reminder queue (`preview_expiry_reminders.py`, `reminder_queue.py`, `tasks.py`) | procrastinate's job table | plan and capture; plan and defer; run with retries | reminders | replays are harmless, runs are bounded, no job is forgotten, the abstract promise is kept |
| Views (`views.py`, `recovery_views.py`) | none, but each request holds what it read | resolve a credential, read the clock, call a service | the services | authority is rechecked under the lock |
| Credentials (`tokens.py`) | version columns | issue, resolve | views and services | a rotated version is worthless |
| SES transport (`delivery/ses.py`) | a client | send | nothing calls it yet | a rejection is definite, an acceptance real, a letter is taken once |
| Forms, postcode import | `Postcode` rows | clean; load_postcodes | creation and editing | a pair is known to one archive or refused; imports do not wait in a cycle |
| Fetching (`src/fetch.py`) | what the loop remembers between attempts | fetch | the retired pipeline | the error tells of the last attempt; the first conclusive outcome ends the call |
| Registry, URL identity (`registry.py`, `dedup.py`) | none | resolve, by_source_kind; canonical | fetching, parsers, the stored entries | the right site, one key per dog |
| Site parsers (`base.py`, `petrescue.py`, `wollongong.py`) | the `Listing` they change in place | parse_list, parse_detail, prepare_url, next_page_url | the retired pipeline | facts of a card stay, facts of a page are fresh, a failed page tells nothing |
| Landing page, probes, settings, log filter, migrations | none | | | |
| Matching pipeline (`DESIGN.md`) | none in this commit | | | |

The hard behaviours are those of concurrent requests. Every transaction starts with
`Capacity.objects.select_for_update().get(pk=1)` and so runs alone, but what a view does
before that is not under the lock: it resolves a credential, reads `timezone.now()`, and
then calls a service, which may wait. A service rechecks the credential and the status;
the clock it cannot recheck, it only has the instant it was given. The rest is time:
terms, graces and deadlines that meet exactly or not, counters that belong to a day, and
housekeeping that may run at any moment of it.

Outside the lock the hard behaviours are failures: a job that is retried while a newer one
of the same reminder waits, a worker that dies, a commit that is lost after its mail went
out, a provider whose answer comes late or never, a page that parses only half way.

## Modules

| Module | What it is |
|---|---|
| `Subscriptions` | the tables and every transaction on them, with the views as what precedes a transaction; the properties |
| `MCSubscriptions` | finite instances for TLC: symmetry, and a later start for runs that look further |
| `SubscriptionsProofs` | type correctness; what each transaction writes; the life of a search for any lag: finality, terms, criteria, deadlines of housekeeping, reminders; `Subscriptions` implements `SearchPromise` |
| `SearchPromise` | the abstract search: asked for, confirmed, changed, renewed, ended, silenced, forgotten |
| `RequestProofs` | what a request read before the lock may still do: the commits through which each limit can be exceeded, edit pages, recovery and management links, also when commits are lost |
| `LostCommit`, `MCLostCommit` | `Subscriptions` with one more step: a commit that fails after its mail was handed over |
| `ReminderPromise` | the abstract reminder: planned, settled and erased once each, and copied again only after a lost commit |
| `ReminderQueue`, `MCReminderQueue` | enqueue, jobs, locks, retries, worker crashes, the preview command; implements `ReminderPromise` |
| `ReminderQueueProofs` | its invariants and the refinement |
| `SesSender`, `MCSesSender`, `SesSenderProofs` | one send against a provider that answers anything, late or never; proofs |
| `PostcodeImport`, `MCPostcodeImport`, `PostcodeImportProofs` | the import statement by statement, and the forms that read the table; proofs |
| `Fetch`, `MCFetch`, `FetchProofs` | the retry loop over the outcomes of its attempts; proofs |
| `Paging`, `MCPaging`, `PagingProofs` | from a shelter's configuration through registry and result pages to the keys of its dogs; proofs |
| `Listings`, `MCListings`, `ListingsProofs` | a dog's card and the detail pages that enrich it, for both sites; proofs |

Operators named "Mutant" stand next to the definition they alter. They are plausible bugs
(a dropped check, a limit compared with the wrong sign, a missing rotation); each property
is known to fail when one of them replaces its original.

## How state and actions correspond to the code

| Variable | In the code |
|---|---|
| `clock` | `timezone.now()`; `Day(clock)` is its UTC date |
| `searches` | `Search` by primary key; `unborn` ids have no row yet, `purged` ids had one |
| `subscribers` | `Subscriber` by normalised address; `live` says the row exists, `id` is its primary key |
| `sources` | `RequestSource` by keyed hash; a row that does not exist has day `Never` |
| `reminders` | `ExpiryReminder`; search and expiry identify a row |
| `links` | recovery links in mailboxes: key, version and time of issue |
| `forms` | edit pages open in browsers: the edit version in the hidden field, and as history what the page showed |
| `calls` | per worker, the request in flight: what its view read before the lock |
| `mailed`, `admitted` | history: mails and admitted requests made today, by the clock their views read |

A request is two steps. `Enter(w)` is the view: it resolves the credential against the
tables of that moment and reads the clock into `calls[w]`. `Commit(w)` is the whole
service under the lock, with one disjunct per outcome, refusals included; `Abort(w)` is a
rollback. In between the other workers commit and time passes. `Purge` is one step because the
command reads the clock after taking the lock; so is `consume`'s resolution, which
`recovery.consume` does under the lock, against the clock of that moment.

| Action | Code |
|---|---|
| `SubmitSearch`, `RequestSearch` | `views.create`, `services.request_search` with `reserve_request_source` |
| `PressConfirm`, `Activate` | `views.confirm`, `services.activate` with `admission_error` |
| `PressCancel`, `Cancel` | `views.cancel`, `services.cancel` with the resolved version |
| `PressRenew`, `Renew` | `views.renew`, `services.renew` |
| `OpenForm`, `SubmitEdit`, `Edit` | `views.edit` GET and POST, `services.edit` |
| `PostUnsubscribe`, `Unsubscribe` | `views.unsubscribe`, `services.unsubscribe` |
| `OrderSuppression`, `Suppress` | a trusted caller (only tests in this commit), `services.suppress` |
| `SubmitRecovery`, `RequestRecovery` | `recovery_views.request_recovery`, `recovery.request_recovery` |
| `PressRecover`, `Consume` | `recovery_views.confirm`, `recovery.consume` |
| `RunPrepare`, `Prepare` | `preview_expiry_reminders`, `reminders.prepare` |
| `RunCapture`, `Capture` | the same command's loop, `reminders.capture` |
| `Purge` | `purge_searches` |
| `Tick` | time passes |

Abstractions, and why they are sound for the properties:

- An address is its normalised form, a criteria record is a name and a profile. The code
  compares the four matching fields only as a whole.
- `SearchPromise` keeps of all this only `life`, what the rows say of each search without
  versions and revisions, `silent`, the suppressed addresses, and `now`. No quota, credential,
  form, counter or worker is left: `KeepsSearchPromise` says that each step is one promised
  thing done to one search, or the end of all searches of an address at its suppression, or
  housekeeping that forgets exactly what is over, or nothing.
- A random UUID version is a counter that moves on at each rotation: the code only
  compares for equality, and never reuses one. Primary keys are not reused either.
- Signatures are unforgeable. The views hand out management credentials from activation
  on; the model lets any activated search's current credential be used, which allows more
  than the mailboxes do. The unsubscribe credential, which is never rotated and which no
  mail of this commit contains yet, may be posted for any search that was ever created.
- A confirmation credential is not aged on arrival, because `activate` rechecks the age of
  the search, which is at least that of the credential.
- The preview command takes a list of ids first. A capture of a reminder that has stopped
  being pending by then changes nothing, so only pending ones are issued.
- The mail is the last effect of its transaction and its failure rolls it back: one step.
  A failure of the commit itself after the mail is a step of `LostCommit`.
- Left out because nothing under `dog_finder/` reads them: `verified_at`, `activated_at`,
  `previewed_at`, the reminder's `created_at`, `unsubscribe_version` and `baseline_pending`.

### The other modules

`ReminderQueue`. `reminders` is `ExpiryReminder` by search and expiry, `jobs` the table of
procrastinate, `workers` how far each worker process is with its job; `copies`, `lost` and
`runs` are history. procrastinate is external and modelled by what `reminder_queue.py` and
`tasks.py` rely on: the queueing lock is unique among waiting jobs, the execution lock
belongs to a running job, a failed run is retried while it has attempts left. A worker fetches
a job, runs the task and records the outcome in three steps. Which of the ready jobs it fetches
is left open; procrastinate's order is one of the choices. What it does with a retry that
the queueing lock forbids is left open too (`Collide`): the job fails or stays running.
Nothing in the source recovers the job of a dead worker, so nothing does here.

| Action | Code |
|---|---|
| `Enqueue` | `reminder_queue.enqueue`, one transaction with `reminders.prepare` |
| `Start`, `Finish`, `Retry`, `GiveUp`, `Collide`, `Crash` | the worker of procrastinate and `RetryStrategy(max_attempts=2, wait=60)` |
| `Run`, `Raise`, `LoseCommit` | `tasks.preview_expiry_reminder`: captured, raised before the mail, lost after it |
| `Prepare`, `PreviewCommand` | `preview_expiry_reminders`: planning without deferral, and each capture of its loop |
| `Renew`, `Cancel`, `Suppress`, `Purge` | what those transactions do to a search and its reminders |

Activation and new searches are left out: a search is live from the start. The captures of
the preview command commit; its outbox dies with its process. `Suppress` may choose any
set of searches as those of one address, which allows more than the table does.

`SesSender`. `letters` is what a letter's validation looks at, `calls` how far each send is,
`flying` the requests the client has sent and nobody served, `outcome` what the caller has
recorded. `Refuse`, `Transmit`, `Fail` and `Classify` are `send`. `Serve` is the provider: it
takes the mail or not, and its answer arrives only while the call waits. Of the provider only
this is assumed: an answer that is a documented rejection means it did not take the mail, a
well-formed success that it did. `Call` follows the class's contract ("the future
orchestrator must persist its intent/attempt"): it tries again only after a
rejection or a `ValueError`, never after an unknown outcome or a crash.

`PostcodeImport`. `table` is what is committed, each row with the run of the command that wrote
it; `imports[i]` is the open transaction of an import: the snapshot of its DELETE, and the rows it
deleted and inserted. PostgreSQL at READ COMMITTED is external: a DELETE waits for whoever deletes a
row of its snapshot, skips what is gone by then, and does not see what was put in its place; an
INSERT waits for a transaction that has the same pair in hand, and fails on a pair that is there
(`Conflict`, an IntegrityError that rolls the import back). Three imports can wait for each other in
a cycle; PostgreSQL ends one, which is `Crash`. A pair is a number, twice the postcode plus the
state, so that order and grouping are those of `sorted(pairs)`. `met` and `mixed` are history: the
runs that committed since an import's DELETE began, and whether there were any for the last import
that committed.

`Fetch`. `attempt`, `lastStatus` are the loop's variables; `outcomes` is history.
`Answer` and `Return` are a success and its body; `HttpError`, `TransportError` and
`ProtocolError` are the ways an attempt fails. How long an attempt lasts is left out. A call ends
`returned`, `raised` with a FetchError, or `escaped` with an exception the loop has no clause for:
`EndsWithFirstConclusiveOutcome` speaks of the first two, `OnlyFetchErrors` of the third.

`Paging`. A URL is its host as a sequence of labels and dots, a port, whether it has
capitals, its path, slashes, fragment, and for each parameter the values it is given, in their
order; the order of different parameters and the scheme are left out. Which paths contain
`/listings/search` is the constant `SearchPaths`. `Resolve` is `registry.resolve` with
`prepare_url`, `Follow` `next_page_url`, `Collect` the key of a listing that was found, by a parser or by the browser, with
the `source_kind` that is stored with it. The `registry` is `_REGISTRY`, as it is or with the entry
that a comment in it keeps for later; `GoOn` is the next shelter or a later run, and between runs the
registry may change, as it did when Wollongong was taken out while `state.json` kept its dogs. The
pipeline that calls them is not in this commit; its order is that of the contract at the head of
`parsers/base.py`. What a site's own next link may look like is `Links`. Four assumptions say what
the code relies on: every entry has a kind of its own
(`test_every_parser_has_a_unique_source_kind`), that of its parser in whichever registry it stands
(`SOURCE_KIND` is a constant of the parser's module) and never "browser", and a host without a port
(`RegistryAssumption`); whoever holds a domain holds what is under it, and a parser is registered for
the whole of its site (`SiteAssumption`); a site spells the URL of a dog
with other case or slashes only (`SpellingAssumption`); `UrlAssumption` gives the types.

`Listings`. A page is what the patterns find in it: items of a list, blocks of ld+json, a
fee, a group, rows of a table. A phrase is a sequence of words, case left out.
`ReadList`, `ReadDetail` and `ReadTable` are `parse_list` and the two `parse_detail`; reading
a page again on a later run is the same action again.

## Runs

The runs of the core use `MCSubscriptions`. The constants are small on purpose, and each run sends only
the kinds of request (`Requests`) its question needs. Bounds of the model, in the guards:
`MaxTime` (the clock stops), `MaxLag` (ticks a request may wait between its reads and its
commit), `MaxForms` (edit pages opened), and in the runs with `SpecActive` the ids that are
still unborn (`Spare`). Limits are 1 to 3 in place of 5, 250, 3, 20 and 750, terms 1 or 2
ticks in place of 90, 30 and 7 days, so that limits are reached and deadlines passed
within `MaxTime`. Ids, addresses, sources, workers, names and profiles are interchangeable
(no definition chooses among them), hence the symmetry sets; the runs check safety only, so
symmetry is sound. `SpecActive` starts where all searches but the spare ones were
requested and activated at instant 0, a state `Spec` reaches.

Deadlock is checked in these runs. It does not occur because `OpenForm`, `Purge` or another request is
always possible.

| Run | Question | Checks |
|---|---|---|
| `Quota` | Two addresses, two searches, one slot, one search per address, one place among the pending, two days; creation, confirmation, renewal, suppression, recovery, purge; no lag | `TypeOK`, `AddressLimit`, `ServiceLimits` (`SubscriberLimit` and `PendingLimit`), `DailyLimits` (`EmailLimit` and `SourceLimit`), `ReactivationRestarts`, `KeepsSearchPromise` |
| `Lifecycle` | One active search and two workers whose requests lag: editing from an open page, renewal, lapse, cancellation, unsubscription, suppression, two preview commands, purge | `EditSawCurrent`, `RevisionTracksProfile`, `CancelledForGood`, `CancellationTimeKept`, `SuppressionStops`, `PurgeMatchesDeadlines`, `RemindersSettle`, `PreviewsAreCurrent`, `RenewalsDoNotStack` |
| `LostRecovery` (`MCLostCommit`) | Links mailed, lost and used, with and without replacement, while cancellations and renewals are in flight; the address is suppressed, or purged and comes back | `UseKillsAllLinks`, `ReplacedLinksPowerless`, `DeadLinksStayDead`, `SuppressionLasts` |
| `StaleRenewal`, `StaleMailDay` | Creation, confirmation and renewal by two workers, and a request may lag by one tick | `AddressLimit` and `EmailLimit`, violated (next section) |

The runs of the other modules:

| Run | Question | Checks |
|---|---|---|
| `Queue` | Two fair workers, two jobs, one search with up to three expiries, failures, crashes and lost commits | `CopiesNeedFailures`, `SuccessSettles`, `RunsAreBounded`, `ImplementsPromise`, `WaitingJobsEnd` |
| `Sender` | Every letter and every answer, two calls of one intent | `OutcomesAreTrue` (`RejectionIsDefinite` and `AcceptanceIsReal`), `TakenOnce`, `SendReturns` |
| `Import` | Two importers, three imports, archives good and bad, forms in between | `ImportsReplaceTable`, `FormsFollowOneArchive`, `InsertsNeverCross` |
| `Fetch` | Every sequence of outcomes of up to three attempts | `ErrorTellsLastAttempt`, `EndsWithFirstConclusiveOutcome` |
| `Paging` | Runs by the registry of this commit or with Wollongong restored, over look-alikes, ports, cross-posts, repeated parameters, dogs found by either parser or the browser | `OneEntryPerDog`, `ParsesItsOwnSite`, `SearchStaysConfigured`, `RecheckFindsTheParser` |
| `Listings` | A card and any sequence of detail pages | `CardFactsStay`, `OnlyTheSpeciesIsDropped`, `GoodPageTellsAll`, `FailedPageTellsNothing` |
| `FetchEscape` | As `Fetch`, with two attempts | `OnlyFetchErrors`, violated (next section) |

The type invariants of `ReminderQueue`, `SesSender` and `Fetch` are in no run: they are proved.

Their bounds. `Horizon` is the last instant of the queue and stands for every later one:
a wait that would end after it ends at it. `Queue` has two attempts
counted before a job is given up, as the code, and two instants; a search starts one or two
instants before its expiry. Ids of jobs are not reused, so at most two are deferred. That is what the questions need: a failed job and a newer one of the same
reminder, two workers on one reminder, a renewal and a second expiry, a deadline before, at
and after the instant. `MaxMails` caps mails of lost commits, `MaxAttempts` of `SesSender` the
calls per intent, `MaxImports` the runs of the command, `MaxRetries` the
attempts, `MaxPages` the pages of a search. Pages, URLs and archives are
small sets chosen in the MC modules so that each branch of a parser is taken.

These runs do not check deadlock where the program may simply end: the queue when time is
up and all jobs are done, a sender whose attempts are spent, a fetch, a search's last
page. `PostcodeImport` and `Listings` check it: a form or a page can always be read.

Why the bounds of the core are enough. The interesting cases need: two requests in flight or one and a
purge (one or two workers); a limit reached, exceeded by one, and given back (two
addresses, two searches, limits of 1); a deadline before, at and after the instant (terms of 1 or 2,
`MaxTime` 2 to 4); two days (a day of 1 or 2 ticks); two generations of a row or a link. A
lag of one tick is enough to cross a deadline or a midnight. The theorems remove the
bounds for the properties they cover.

`ReactivationRestarts` and the limits are checked without lag, because with it they fail:
`renew` treats a search that lapsed while the request waited as one that is active. For
`ReactivationRestarts` that is no disagreement ("Expiry is evaluated at request time",
`README.md:98-99`), so it has no violation run; the limits are stated without that exception.

## Disagreements between code and documents

A violation run shows each of these three.

1. `StaleRenewal`, `services.py:251`. A search expires while its renewal waits; another
   search takes the place; the renewal still sees it active, skips `admission_error` and
   extends it. The address is one over its limit for a term. Against `README.md:128`:
   "Transactions enforce five active searches per address and 250 distinct active
   subscribers."
2. `StaleMailDay`, `services.py:55` and `recovery.py:67`. A request from before midnight
   commits after one from after it and resets the counter to yesterday; the next request
   of today starts from zero. Against `USER_STORIES.md:142`: "3 per day combined".
3. `FetchEscape`, `fetch.py:86`. `http.client.HTTPException` is no `OSError`: a body cut short
   escapes the loop, without a retry. Against `fetch.py:57-58`.

The first two have one cause: a service judges time by the clock its view read before the wait
for the lock, and not by a clock read under it (as `purge_searches` does). It has two more
effects, which the same model shows with `SubscriberLimit` and `SourceLimit` under a `MaxLag` of 1.
An activation that waits while the address's last active search expires and its slot is given away
skips the subscriber check (`services.py:29-32`; `DESIGN.md:83`: "so simultaneous requests cannot
exceed capacity"), and the counter of a source is reset like that of an address (`services.py:92`;
`README.md:129-130`). Each needs a request to wait for the lock over an expiry or a midnight, and
exceeds the limit by what waited. The theorems show that nothing else exceeds the limits, however
long requests wait.

Read in the code while modelling it, and not stated as properties of a run:

- `services.py:75`, `recovery.py:86`. The mail is handed over inside the transaction; a commit that
  then fails rolls back the counter and not the mail, so with `LossySpec` `EmailLimit` does not
  hold. With the in-memory outbox of this commit the mail can only be lost with its process; a real
  transport would make it count.
- `load_postcodes.py:45`. Two imports that overlap both commit if their archives share no pair, and
  the table then holds the pairs of both; if they share one, the second fails with an IntegrityError,
  although it deleted the table before it inserted. `ImportsReplaceTable` says exactly what is left.
- `fetch.py:65`. The timeout bounds each operation of the socket; `fetch.py:51` says "Per-attempt
  timeout in seconds."
- `registry.py:37`. The netloc is compared, port included; `registry.py:32` says "url's hostname
  equals host or is a subdomain of it." A shelter whose URL names a port goes to the browser.
- `petrescue.py:85`. Cards that no longer match are no cards: the page reads as empty
  (`petrescue.py:8-10`). Wollongong's parser looks for a marker and raises.

## Fairness

The core assumes none and claims no liveness: every request ends in one transaction, and the
repository schedules nothing there. Purge and the reminder commands run when an operator
starts them ("No scheduler or timer is installed by this feature").

`ReminderQueue!FairSpec` assumes `WF` of `Tick` and of each worker's `Work`: time passes and a
running worker is scheduled, which is what starting procrastinate's worker means. `Enqueue`,
the preview command and failures are not fair: nothing makes an operator enqueue, and no
failure is owed. `WaitingJobsEnd` therefore speaks of jobs that were deferred. It excepts a
job whose reminder another job, left running by a crash, still locks (`Abandoned`): the source
has no recovery of stalled jobs, and the run would fail without the exception.

`SesSender!FairSpec` assumes `WF` of each `Send`: a call is scheduled and its timeouts
(`connect_timeout=5`, `read_timeout=30`) expire. The provider owes nothing.

## Proofs

`tlapm` checks all of these for every value of the constants, from `SetAssumption` (finitely
many addresses and ids; `Nobody` and `Erased` are not among the values),
`LimitAssumption` and `TimeAssumption` (limits and periods are positive, bounds natural).

- `SubscriptionsProofs!TypeCorrect`: `Spec => []TypeOK`. `TypeOK` is inductive because it
  contains `RowsConsistent`, the foreign keys: an existing search has an owner with a
  row, an active one an expiry, a reminder a search. Without it `Purge` and `Known` could
  not be shown to keep types: deleting a subscriber must not orphan a search, which
  holds because `Abandoned` asks that all its searches go in the same step. One lemma per
  action, resting on one lemma per row writer.
- `SubscriptionsProofs!SuppressionStopsHolds`, `SuppressionLastsHolds`,
  `CancelledForGoodHolds`, for any lag. The lemma `NextRow` says that a step does one of six
  things to a search (keep, request, move, end, relink, delete), `NextOwner` what it does to a
  subscriber, `NextReminder` where a waiting reminder comes from. The invariant `LifeInv`
  adds to `SuppressionStops` that a suppressed row is live, or `get_or_create` could
  replace it by a fresh one, and that a cancelled row is empty.
- `SubscriptionsProofs!PurgeMatchesDeadlinesHolds`, from `LifeInv`: on pending and active searches
  the two pairs of deadlines are the same inequalities, on those of a suppressed address they
  agree only because all of them are cancelled.
- `SubscriptionsProofs!RenewalsDoNotStackHolds`, `RevisionTracksProfileHolds`,
  `CancellationTimeKeptHolds`, `RemindersSettleHolds`, `PreviewsAreCurrentHolds`, for any lag.
  `ActiveStep` names the ways an active search stays active (kept, edited, extended,
  restarted, relinked), `ActivationStep` the one way it becomes so. The invariant `TermInv` adds
  `Recent`, that a request in flight is at most `MaxLag` old and not of the future, without which
  neither the term (`TermBound`) nor a preview's date is bounded by the clock.
- `SubscriptionsProofs!SearchPromiseKept`: `Spec => KeepsSearchPromise`, for any lag. One lemma per
  transaction (`AskStep` to `ForgetStep`) gives the promised step it is; `SilentKept` says that no
  step but a suppression makes an address silent and none lets it speak again. It needs
  `LifeInv` (suppressing an address twice ends nothing twice because cancelled rows are empty) and
  `Recent` (the instant of a request is one the promise allows). `RequestProofs!PromiseSurvivesLoss`
  is the same with commits that are lost.
- `RequestProofs!OnlyStaleRenewalsExceed`: `Spec /\ NoStaleRenewal => []AddressLimit`, for any lag, and
  `OnlyStaleSlotsExceed`: `Spec /\ NoStaleSlot => []ServiceLimits`. `StaleRenewal(w)` is a commit that
  extends, without admission, a search that lapsed while the request waited; `StaleSlot(w)` one
  by which an owner with no active search left gets one without the check of subscribers. The
  searches that a transaction counts by its own instant are at least those active by the clock
  (`ActiveEarlier`), because no request is of the future (`Recent`): a lagging request refuses
  too much, and admits too much only in these two ways. The limits are then inductive: `OneGained`
  for the two transactions that make a search active, `NothingGained` for all other steps, the
  passing of time included. The run `StaleRenewal` breaks the first limit; a `StaleSlot` breaks
  the limit of subscribers also where no renewal is stale (two addresses, one slot, a `MaxLag` of 1),
  so neither condition stands for the other. The bound on pending searches asks for none (`PendingLimitHolds`).
- `RequestProofs!OnlyOvertakenMailsExceed`, `OnlyOvertakenSourcesExceed`, for any lag. The
  limits are not inductive: they speak of what was mailed, and the code looks at a counter that is
  reset, deleted with its row and made again. `MailsCounted` says that the counter of today, where there
  is one, is the history of today, that where there is none nothing was mailed today, and that no
  counter is of a later day. That is why `Abandoned` and `StaleSource` must leave rows of the day
  alone. It stops being true only when a request writes a counter that one of a later day has
  already written (`OvertakenMail`, `OvertakenSource`); `StaleMailDay` shows what follows.
  `OnlyOvertakenExceed` is both: the property `DailyLimits` of the run `Quota`, for any lag in which
  nothing is overtaken. With a `MaxLag` of 0, which `Quota` has and the code does not promise,
  no commit is stale or overtaken (`NoneStale`, `NoneOvertaken`): what `Quota` checks is an instance
  of these theorems.
- `RequestProofs!AddressLimitSurvivesLoss`, `ServiceLimitsSurviveLoss`, `SourceLimitSurvivesLoss`: the
  same theorems about `LossySpec`. Only the limit of mails does not survive the loss of commits (above).
- `RequestProofs!EditSawCurrentHolds`, for any lag, from `EditInv`: a page served for a search
  that is active holds an edit version no later than the row's, and where the versions are equal it
  showed the criteria and revision the row has now; a request to save carries such a page.
  `OnlyStaleRenewalsResume`, for any lag, uses the same invariant: the rotated version is later than any
  page's, and a search that had lapsed comes back without a rotation only by a `StaleRenewal`.
- `RequestProofs!ReplacedLinksPowerlessHolds`, `UseKillsAllLinksHolds`, `DeadLinksStayDeadHolds`,
  `SuppressionSurvivesLoss` about `LossySpec`, where commits may fail after their mail
  went out, from `LossAssumption`; `SpecIsLossy` makes them theorems of `Spec` too. `LossyInv` adds
  `LinksPast`: a mailed link bears a key that is not ahead of the address's, and under the same key a
  version that is not ahead of the row's. `KeyStep` says that keys and, under one key, versions
  only grow, so that an address that was purged and came back opens none of its old links.
- `ReminderQueueProofs!QueueTypeCorrect`, `ReplayIsSafe`, `SuccessIsSettled`, `RunsBounded`,
  from `QueueAssumption`. The invariant `QueueInv` adds what makes them inductive: a busy worker
  runs a job of its own (`Held`), the strategy's count of ended runs is the history of started ones
  less the one in progress (`Tallied`), a deferred job names a planned reminder (`Keyed`),
  a pending reminder is in the window (`InWindow`, so capture never declines it), a run
  that returned settled it (`Returned`), an erased search has no reminders (`Cascaded`), and
  until a reminder is settled every copy is a lost one (`CopiesLost`). `JobNext`,
  `ReminderNext`, `SearchNext` and `WorkerNext` say what a step does to each row.
- `ReminderQueueProofs!QueueKeepsPromise`: `Spec => ImplementsPromise`, under the mapping that
  calls the reminders of an erased search gone. Each step is a step of `ReminderPromise` or
  leaves it alone.
- `SesSenderProofs!SenderTypeCorrect`, `IntentTakenOnce`, `OutcomesTrue` (from `RejectionDefinite` and `AcceptanceReal`), from
  `SenderAssumption`. The invariant says where the one request of an intent can be: not sent,
  on its way, taken or declined, and what each outcome allows of it.
- `FetchProofs!FetchTypeCorrect`, `ErrorTells`, `FirstConclusiveEnds`, from `FetchAssumption`: the
  history has one outcome per attempt, all but the last inconclusive, and how the call ended is how
  the last one went.
- `PostcodeImportProofs!InsertsNeverCrossHolds`, `ImportsReplaceTableHolds`,
  `FormsFollowOneArchiveHolds`, for any number of importers and archives, from `ImportAssumption`. What an
  import has inserted is its archive up to the pair it is at (`Orderly`): two imports that wait for each
  other would each be behind the other. `SeesTheRest` says that an import sees, and then deletes, just
  the rows that no run it has met wrote; `OwnsItsPairs` that a pair it inserted is in no row but those;
  `Fresh` and `Apart` that a row of a run that has not committed is in no table and no snapshot, and
  that two imports have no inserted pair in common; `OneArchive` that the table is one archive unless
  another run committed during the last one.
- `ListingsProofs!CardFactsStayHolds`, `GoodPageTellsAllHolds`, `FailedPageTellsNothingHolds`,
  `OnlyTheSpeciesIsDroppedHolds`, for all pages, from `ListingAssumption`. Its first two parts are
  facts of the sets in `base.py:29-34`: no size or sex word is a species noun. Without them a phrase could
  lose its only word twice. `ListingInv` adds which facts each site can know at all: a card of
  Wollongong has no sex, its dog never a fee.
- `PagingProofs!OneEntryPerDogHolds`, `ParsesItsOwnSiteHolds`, `SearchStaysConfiguredHolds`,
  `RecheckFindsTheParserHolds`, for any registry, shelters, sites and spellings, from the four assumptions
  of `Paging`. `KeyIsThePage` says what `canonical` identifies: two URLs that differ in case and
  slashes only. `MatchIsUnder` says that what `_host_matches` accepts is the registered host or under
  it: a netloc with a port ends in a token that no registered host ends in. `WithParamKeeps` and
  `LinkFields` say what `_with_param` and the site's links leave alone. `PagingInv` carries these from page
  to page, and adds that whoever collects is an entry of the registry. `FoundBy` says of a stored dog
  that its kind is its finder's in whichever registry, and its key's host of the finder's site. `KindOfOne` then
  says what `by_source_kind` finds in the registry of a later run.

Only model-checked:

- `WaitingJobsEnd` and `SendReturns`: liveness under fairness is out of the prover's reach, as is `ENABLED`.
- What a recursive definition computes for every input: none of the theorems needs one.

Every other property of a passing run is stated by a theorem.

## What is not modelled

- Text extraction: the regular expressions of the parsers, `clean`, `strip_tags`, and
  `is_dog`, which only reads. `Listings` starts from what the patterns find.
- The fields of the forms that Django validates one by one, and `clean_email`-like normalisation
  beyond the lower-case domain, which is what an address is in `Subscriptions`.
- Rendering, logging, the redaction filter, settings, landing page, probes, routing: no state to
  get wrong. Migrations: generated from the models.
- The pipeline that drove fetching and parsing, and the matching pipeline of `DESIGN.md`: no code
  in this commit. `Paging` and `Listings` follow the contract of `parsers/base.py`.
- The durable delivery workflow around `SesSender`: no code in this commit. `Call` follows the
  contract that the class states.
- The steps inside a transaction under the `Capacity` lock: the lock excludes any other. The
  postcode import takes no lock, and so is modelled by statements.

## Plan

1. `Subscriptions` with its runs, `ReminderQueue`, `LostCommit`, `SesSender`, `PostcodeImport`, `Fetch`,
   `Paging`, `Listings`, and the theorems above. Done.
2. `SearchPromise`, its run and its proof. Done.
3. `CapacityLock`: the lock taken and released in steps, each transaction as reads and
   writes, refining the one-step transactions of `Subscriptions`.
4. What of the limits survives lag, as theorems: the commits that exceed each. Done. Left is by how
   much: how far over its limit an address can be when at most one request waits over an expiry.
