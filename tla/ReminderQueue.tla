---------------------------- MODULE ReminderQueue ----------------------------
(***************************************************************************)
(* The reminder queue: reminder_queue.py plans reminders and defers one    *)
(* job per pending reminder, procrastinate runs the jobs (tasks.py), and   *)
(* each run captures its reminder (reminders.py).                          *)
(*                                                                         *)
(* procrastinate is external.  What the source relies on is modelled: a    *)
(* table of jobs, a queueing lock unique among waiting jobs, an execution  *)
(* lock held by a running job, and the retry strategy.  A worker marks a   *)
(* job as running, runs the task, and records the outcome: three steps,    *)
(* and the process may die between any two of them.                        *)
(*                                                                         *)
(* Planning and capture hold the Capacity lock from their first statement  *)
(* to their commit, so each is one step here as in Subscriptions; a        *)
(* capture that sent its mail but whose commit was lost is a step of its   *)
(* own.  Of the lifecycle only what capture reads is kept.                 *)
(***************************************************************************)
EXTENDS Naturals, FiniteSets, Functions

CONSTANTS
    Searches,
    Workers,         \* worker processes; the default is one
    Jobs,            \* ids procrastinate may allocate
    NoJob, NoKey

\* The periods of services.py and reminders.py and the strategy of tasks.py.
CONSTANTS Term, Grace, ReminderWindow, MaxAttempts, Wait

\* The last instant; it stands for every later one.
CONSTANT Horizon

ASSUME QueueAssumption ==
    /\ Term \in Nat \ {0}
    /\ Grace \in Nat
    /\ ReminderWindow \in Nat
    /\ MaxAttempts \in Nat
    /\ Wait \in Nat
    /\ Horizon \in Nat
    /\ NoJob \notin Jobs
    /\ NoKey \notin Searches \X (0..(Horizon + Term))

VARIABLES
    clock,
    searches,    \* standing and expiry of each search
    reminders,   \* status of the reminder of a search and an expiry
    jobs,        \* the job table
    workers,     \* what each worker is doing
    copies,      \* history: mails captured per reminder
    lost,        \* history: captures whose commit was lost
    runs         \* history: times each job was started

vars == <<clock, searches, reminders, jobs, workers, copies, lost, runs>>

-----------------------------------------------------------------------------
(* Rows                                                                    *)

Expiries == 0..(Horizon + Term)

\* ExpiryReminder is unique per search and expiry; its id is the job's key.
Reminders == Searches \X Expiries

Statuses == {"none", "pending", "previewed", "obsolete"}

FreeJob == [key |-> NoKey, status |-> "free", attempts |-> 0, at |-> 0]

NewJob(r) == [key |-> r, status |-> "todo", attempts |-> 0, at |-> 0]

Resting == [job |-> NoJob, at |-> "rest"]

Later(t, u) == IF t >= u THEN t ELSE u

Reached(t) == IF t >= Horizon THEN Horizon ELSE t

-----------------------------------------------------------------------------
(* Queries                                                                 *)

\* Mutant: planning looks one tick further ahead than capture does.
DueEarly(s) ==
    /\ searches[s].standing = "live"
    /\ clock < searches[s].expires
    /\ searches[s].expires <= clock + ReminderWindow + 1

Due(s) ==
    /\ searches[s].standing = "live"
    /\ clock < searches[s].expires
    /\ searches[s].expires <= clock + ReminderWindow

Outdated(r) ==
    \/ searches[r[1]].standing # "live"
    \/ searches[r[1]].expires # r[2]
    \/ r[2] <= clock

\* Mutant: a settled reminder is presented again.
PresentableAgain(r) ==
    /\ reminders[r] # "none"
    /\ ~Outdated(r)
    /\ r[2] <= clock + ReminderWindow

Presentable(r) ==
    /\ reminders[r] = "pending"
    /\ ~Outdated(r)
    /\ r[2] <= clock + ReminderWindow

Waiting(r) == \E j \in Jobs : jobs[j].key = r /\ jobs[j].status = "todo"

\* Mutant: a failed job keeps its execution lock.
RunningOrFailed(r) == \E j \in Jobs : jobs[j].key = r /\ jobs[j].status \in {"doing", "failed"}

Running(r) == \E j \in Jobs : jobs[j].key = r /\ jobs[j].status = "doing"

\* Ready for a worker: due, and nobody holds the job's execution lock.
Ready(j) ==
    /\ jobs[j].status = "todo"
    /\ jobs[j].at <= clock
    /\ ~Running(jobs[j].key)

Free == {j \in Jobs : jobs[j].status = "free"}

-----------------------------------------------------------------------------
(* Planning and deferral                                                   *)

\* Mutant: get_or_create finds only pending reminders.
PlannedAgain ==
    [r \in Reminders |->
        IF Due(r[1]) /\ searches[r[1]].expires = r[2]
        THEN "pending" ELSE reminders[r]]

Planned ==
    [r \in Reminders |->
        IF Due(r[1]) /\ searches[r[1]].expires = r[2] /\ reminders[r] = "none"
        THEN "pending" ELSE reminders[r]]

\* Every pending reminder is deferred, not only the new ones; a reminder with
\* a waiting job violates the queueing lock and is skipped.
Deferred == {r \in Reminders : Planned[r] = "pending" /\ ~Waiting(r)}

Enqueue ==
    \E id \in Injection(Deferred, Free) :
        /\ reminders' = Planned
        /\ jobs' = [j \in Jobs |->
                      IF \E r \in Deferred : id[r] = j
                      THEN NewJob(CHOOSE r \in Deferred : id[r] = j)
                      ELSE jobs[j]]
        /\ UNCHANGED <<clock, searches, workers, copies, lost, runs>>

-----------------------------------------------------------------------------
(* Workers                                                                 *)

Move(w, at) == workers' = [workers EXCEPT ![w].at = at]

Key(w) == jobs[workers[w].job].key

Start(w, j) ==
    /\ workers[w].at = "rest"
    /\ Ready(j)
    /\ jobs' = [jobs EXCEPT ![j].status = "doing"]
    /\ workers' = [workers EXCEPT ![w] = [job |-> j, at |-> "started"]]
    /\ runs' = [runs EXCEPT ![j] = @ + 1]
    /\ UNCHANGED <<clock, searches, reminders, copies, lost>>

\* The capture transaction of one reminder, committed.
Capture(r) ==
    \/ /\ reminders[r] = "pending"
       /\ Outdated(r)
       /\ reminders' = [reminders EXCEPT ![r] = "obsolete"]
       /\ UNCHANGED copies
    \/ /\ Presentable(r)
       /\ reminders' = [reminders EXCEPT ![r] = "previewed"]
       /\ copies' = [copies EXCEPT ![r] = @ + 1]
    \/ /\ ~Presentable(r)
       /\ ~(reminders[r] = "pending" /\ Outdated(r))
       /\ UNCHANGED <<reminders, copies>>

Run(w) ==
    /\ workers[w].at = "started"
    /\ Capture(Key(w))
    /\ Move(w, "returned")
    /\ UNCHANGED <<clock, searches, jobs, lost, runs>>

\* The task raises before it sends: the wrong email backend, a template or
\* database error, a mail that was not taken.
Raise(w) ==
    /\ workers[w].at = "started"
    /\ Move(w, "raised")
    /\ UNCHANGED <<clock, searches, reminders, jobs, copies, lost, runs>>

\* The mail is captured and the transaction does not commit.
LoseCommit(w) ==
    /\ workers[w].at = "started"
    /\ Presentable(Key(w))
    /\ copies' = [copies EXCEPT ![Key(w)] = @ + 1]
    /\ lost' = [lost EXCEPT ![Key(w)] = @ + 1]
    /\ Move(w, "raised")
    /\ UNCHANGED <<clock, searches, reminders, jobs, runs>>

Counted(j, status) == [jobs EXCEPT ![j].status = status, ![j].attempts = @ + 1]

Finish(w) ==
    /\ workers[w].at = "returned"
    /\ jobs' = Counted(workers[w].job, "succeeded")
    /\ workers' = [workers EXCEPT ![w] = Resting]
    /\ UNCHANGED <<clock, searches, reminders, copies, lost, runs>>

\* Mutant: the first run is not counted.
MayRetryOnceMore(job) == job.attempts <= MaxAttempts

MayRetry(job) == job.attempts < MaxAttempts

Retry(w) ==
    /\ workers[w].at = "raised"
    /\ MayRetry(jobs[workers[w].job])
    /\ ~Waiting(Key(w))
    /\ jobs' = [Counted(workers[w].job, "todo") EXCEPT
                  ![workers[w].job].at = Reached(clock + Wait)]
    /\ workers' = [workers EXCEPT ![w] = Resting]
    /\ UNCHANGED <<clock, searches, reminders, copies, lost, runs>>

GiveUp(w) ==
    /\ workers[w].at = "raised"
    /\ ~MayRetry(jobs[workers[w].job])
    /\ jobs' = Counted(workers[w].job, "failed")
    /\ workers' = [workers EXCEPT ![w] = Resting]
    /\ UNCHANGED <<clock, searches, reminders, copies, lost, runs>>

\* A newer job of the reminder was deferred while this one ran: the queueing
\* lock forbids this one to wait again.  Whether procrastinate then fails the
\* job or leaves it running is not the source's to say; it runs no more.
Collide(w) ==
    /\ workers[w].at = "raised"
    /\ MayRetry(jobs[workers[w].job])
    /\ Waiting(Key(w))
    /\ jobs' \in {jobs, Counted(workers[w].job, "failed")}
    /\ workers' = [workers EXCEPT ![w] = Resting]
    /\ UNCHANGED <<clock, searches, reminders, copies, lost, runs>>

\* The process dies.  Nothing recovers the job it was running.
Crash(w) ==
    /\ workers[w].at # "rest"
    /\ workers' = [workers EXCEPT ![w] = Resting]
    /\ UNCHANGED <<clock, searches, reminders, jobs, copies, lost, runs>>

\* The preview command plans without deferring, then captures the pending
\* reminders itself, each in a transaction of its own that commits.
Prepare ==
    /\ reminders' = Planned
    /\ UNCHANGED <<clock, searches, jobs, workers, copies, lost, runs>>

PreviewCommand(r) ==
    /\ Capture(r)
    /\ UNCHANGED <<clock, searches, jobs, workers, lost, runs>>

-----------------------------------------------------------------------------
(* What happens to the searches meanwhile                                  *)

Renew(s) ==
    /\ searches[s].standing = "live"
    /\ clock < searches[s].expires + Grace
    /\ searches' = [searches EXCEPT ![s].expires = Later(@, clock + Term)]
    /\ UNCHANGED <<clock, reminders, jobs, workers, copies, lost, runs>>

Cancel(s) ==
    /\ searches[s].standing = "live"
    /\ searches' = [searches EXCEPT ![s].standing = "ended"]
    /\ UNCHANGED <<clock, reminders, jobs, workers, copies, lost, runs>>

\* An address is suppressed: its searches end, and what is pending is obsolete.
Suppress(owned) ==
    /\ searches' = [s \in Searches |->
                      IF s \in owned /\ searches[s].standing = "live"
                      THEN [searches[s] EXCEPT !.standing = "ended"] ELSE searches[s]]
    /\ reminders' = [r \in Reminders |->
                       IF r[1] \in owned /\ reminders[r] = "pending"
                       THEN "obsolete" ELSE reminders[r]]
    /\ UNCHANGED <<clock, jobs, workers, copies, lost, runs>>

\* Purged some time after its end, with its reminders; its jobs stay.
Purge(s) ==
    /\ \/ searches[s].standing = "ended"
       \/ searches[s].standing = "live" /\ searches[s].expires + Grace <= clock
    /\ searches' = [searches EXCEPT ![s].standing = "erased"]
    /\ reminders' = [r \in Reminders |-> IF r[1] = s THEN "none" ELSE reminders[r]]
    /\ UNCHANGED <<clock, jobs, workers, copies, lost, runs>>

Tick ==
    /\ clock < Horizon
    /\ clock' = clock + 1
    /\ UNCHANGED <<searches, reminders, jobs, workers, copies, lost, runs>>

-----------------------------------------------------------------------------
Init ==
    /\ clock = 0
    /\ searches \in [Searches -> [standing : {"live"}, expires : 1..Term]]
    /\ reminders = [r \in Reminders |-> "none"]
    /\ jobs = [j \in Jobs |-> FreeJob]
    /\ workers = [w \in Workers |-> Resting]
    /\ copies = [r \in Reminders |-> 0]
    /\ lost = [r \in Reminders |-> 0]
    /\ runs = [j \in Jobs |-> 0]

Work(w) ==
    \/ \E j \in Jobs : Start(w, j)
    \/ Run(w) \/ Finish(w) \/ Retry(w) \/ GiveUp(w) \/ Collide(w)

Next ==
    \/ Enqueue
    \/ Prepare
    \/ Tick
    \/ \E r \in Reminders : PreviewCommand(r)
    \/ \E s \in Searches : Renew(s) \/ Cancel(s) \/ Purge(s)
    \/ \E owned \in SUBSET Searches : Suppress(owned)
    \/ \E w \in Workers : Work(w) \/ Raise(w) \/ LoseCommit(w) \/ Crash(w)

Spec == Init /\ [][Next]_vars

\* Somebody keeps the workers running and time passes.  Nobody need enqueue.
Fairness ==
    /\ WF_vars(Tick)
    /\ \A w \in Workers : WF_vars(Work(w))

FairSpec == Spec /\ Fairness

-----------------------------------------------------------------------------
(* Properties                                                              *)

JobRow ==
    [key : Reminders \cup {NoKey},
     status : {"free", "todo", "doing", "succeeded", "failed"},
     attempts : Nat, at : 0..Horizon]

TypeOK ==
    /\ clock \in 0..Horizon
    /\ searches \in [Searches -> [standing : {"live", "ended", "erased"}, expires : Expiries]]
    /\ reminders \in [Reminders -> Statuses]
    /\ jobs \in [Jobs -> JobRow]
    /\ workers \in [Workers -> [job : Jobs \cup {NoJob},
                                at : {"rest", "started", "returned", "raised"}]]
    /\ \A j \in Jobs : jobs[j].status # "free" => jobs[j].key \in Reminders
    /\ \A w \in Workers : workers[w].at # "rest" =>
        workers[w].job \in Jobs /\ jobs[workers[w].job].status # "free"
    /\ copies \in [Reminders -> Nat]
    /\ lost \in [Reminders -> Nat]
    /\ runs \in [Jobs -> Nat]

\* Replay is safe (reminder_queue.enqueue, tasks.preview_expiry_reminder):
\* however often a reminder is deferred, retried, run by two workers or
\* captured by the preview command, its mail is captured a second time only
\* when the commit of an earlier capture was lost.
CopiesNeedFailures ==
    \A r \in Reminders : copies[r] <= lost[r] + 1

\* A job that succeeded leaves nothing to do (reminders.capture returns without
\* settling a reminder that is not in its window yet: planning never makes one).
SuccessSettles ==
    \A j \in Jobs : jobs[j].status = "succeeded" => reminders[jobs[j].key] # "pending"

\* Two retries, three runs (tasks.py), through crashes and collisions.
RunsAreBounded == \A j \in Jobs : runs[j] <= MaxAttempts + 1

\* A crashed worker left a job of the reminder running; nothing recovers it.
Abandoned(r) ==
    \E j \in Jobs :
        /\ jobs[j].key = r
        /\ jobs[j].status = "doing"
        /\ \A w \in Workers : workers[w].job # j

\* A deferred job is not forgotten: it succeeds or fails, unless a crash left a
\* job of the same reminder running.  Failures of earlier jobs do not block it.
WaitingJobsEnd ==
    \A j \in Jobs :
        jobs[j].status = "todo" ~>
            jobs[j].status \in {"succeeded", "failed"} \/ Abandoned(jobs[j].key)

\* A row that a purge erased is gone; one that was never planned is not.
StandingOf(r) ==
    IF searches[r[1]].standing = "erased" THEN "gone" ELSE reminders[r]

Promise == INSTANCE ReminderPromise WITH standing <- [r \in Reminders |-> StandingOf(r)]

\* The queue keeps the promise: jobs, retries, crashes and two workers at once
\* never plan a reminder twice, settle it twice or reopen it.
ImplementsPromise == Promise!Spec
=============================================================================
