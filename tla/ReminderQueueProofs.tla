------------------------- MODULE ReminderQueueProofs -------------------------
(***************************************************************************)
(* The reminder queue, for any number of searches, workers, jobs and       *)
(* retries: replay is safe, a success leaves nothing to do, no job is run  *)
(* more often than its strategy allows, and the queue implements           *)
(* ReminderPromise.                                                        *)
(***************************************************************************)
EXTENDS ReminderQueue, TLAPS

Erased(s) == searches[s].standing = "erased"

\* A busy worker runs a job of its own.
Held ==
    \A w \in Workers : workers[w].at # "rest" =>
        /\ jobs[workers[w].job].status = "doing"
        /\ \A v \in Workers : workers[v].at # "rest" /\ workers[v].job = workers[w].job => v = w

\* The strategy counts runs that ended, the history runs that started.
Tallied ==
    \A j \in Jobs :
        /\ jobs[j].status = "free" => runs[j] = 0
        /\ jobs[j].status = "todo" => runs[j] = jobs[j].attempts /\ runs[j] <= MaxAttempts
        /\ jobs[j].status = "doing" => runs[j] = jobs[j].attempts + 1

\* A deferred job names a reminder that was planned.
Keyed ==
    \A j \in Jobs :
        jobs[j].status # "free" /\ reminders[jobs[j].key] = "none" => Erased(jobs[j].key[1])

\* Planning and capture look equally far ahead.
InWindow == \A r \in Reminders : reminders[r] = "pending" => r[2] <= clock + ReminderWindow

\* A run that returned settled its reminder.
Returned == \A w \in Workers : workers[w].at = "returned" => reminders[Key(w)] # "pending"

Cascaded == \A r \in Reminders : Erased(r[1]) => reminders[r] = "none"

\* Until a reminder is settled every copy of it is a lost one.
Unsettled(r) == reminders[r] = "pending" \/ (reminders[r] = "none" /\ ~Erased(r[1]))

CopiesLost == \A r \in Reminders : Unsettled(r) => copies[r] <= lost[r]

QueueInv ==
    /\ TypeOK
    /\ Held
    /\ Tallied
    /\ RunsAreBounded
    /\ Keyed
    /\ InWindow
    /\ Returned
    /\ SuccessSettles
    /\ Cascaded
    /\ CopiesLost
    /\ CopiesNeedFailures

-----------------------------------------------------------------------------
(* The clock and the rows                                                  *)

LEMMA ReachedType == ASSUME NEW t \in Nat PROVE Reached(t) \in 0..Horizon
BY QueueAssumption DEF Reached

LEMMA ReminderShape ==
    ASSUME NEW r \in Reminders
    PROVE  r[1] \in Searches /\ r[2] \in Expiries
BY DEF Reminders

LEMMA KeylessFree == NoKey \notin Reminders
BY QueueAssumption DEF Reminders, Expiries

LEMMA PlannedType ==
    ASSUME TypeOK
    PROVE  Planned \in [Reminders -> Statuses]
BY DEF TypeOK, Planned, Statuses

LEMMA PlannedValue ==
    ASSUME TypeOK, NEW r \in Reminders
    PROVE  \/ Planned[r] = reminders[r]
           \/ /\ reminders[r] = "none"
              /\ Planned[r] = "pending"
              /\ ~Erased(r[1])
              /\ r[2] <= clock + ReminderWindow
BY ReminderShape DEF Planned, Due, Erased

\* What a deferral does to one job.
LEMMA DeferredJob ==
    ASSUME TypeOK, Enqueue, NEW j \in Jobs
    PROVE  \/ jobs'[j] = jobs[j]
           \/ /\ jobs[j].status = "free"
              /\ \E r \in Reminders : jobs'[j] = NewJob(r) /\ Planned[r] = "pending"
<1>1. PICK id \in Injection(Deferred, Free) :
        jobs' = [k \in Jobs |-> IF \E r \in Deferred : id[r] = k
                                THEN NewJob(CHOOSE r \in Deferred : id[r] = k)
                                ELSE jobs[k]]
  BY DEF Enqueue
<1>2. CASE \E r \in Deferred : id[r] = j
  <2> DEFINE q == CHOOSE r \in Deferred : id[r] = j
  <2>1. q \in Deferred /\ id[q] = j
    BY <1>2
  <2>2. jobs'[j] = NewJob(q)
    BY <1>1, <1>2
  <2>3. q \in Reminders /\ Planned[q] = "pending"
    BY <2>1 DEF Deferred
  <2>4. jobs[j].status = "free"
    BY <1>1, <2>1 DEF Injection, Free
  <2>5. QED
    BY <2>2, <2>3, <2>4
<1>3. CASE ~ \E r \in Deferred : id[r] = j
  BY <1>1, <1>3
<1>4. QED
  BY <1>2, <1>3

\* What any capture does to the reminders.
LEMMA CaptureRows ==
    ASSUME TypeOK, NEW r \in Reminders, Capture(r), NEW q \in Reminders
    PROVE  /\ reminders' \in [Reminders -> Statuses]
           /\ copies' \in [Reminders -> Nat]
           /\ \/ reminders'[q] = reminders[q] /\ copies'[q] = copies[q]
              \/ /\ q = r
                 /\ reminders[q] = "pending"
                 /\ \/ reminders'[q] = "obsolete" /\ copies'[q] = copies[q]
                    \/ reminders'[q] = "previewed" /\ copies'[q] = copies[q] + 1
<1>1. CASE /\ reminders[r] = "pending"
           /\ reminders' = [reminders EXCEPT ![r] = "obsolete"]
           /\ copies' = copies
  BY <1>1 DEF TypeOK, Statuses
<1>2. CASE /\ reminders[r] = "pending"
           /\ reminders' = [reminders EXCEPT ![r] = "previewed"]
           /\ copies' = [copies EXCEPT ![r] = @ + 1]
  BY <1>2 DEF TypeOK, Statuses
<1>3. CASE UNCHANGED <<reminders, copies>>
  BY <1>3 DEF TypeOK
<1>4. QED
  BY <1>1, <1>2, <1>3 DEF Capture, Presentable

\* A capture whose reminder is in the window settles it.
LEMMA CaptureSettles ==
    ASSUME TypeOK, InWindow, NEW r \in Reminders, Capture(r)
    PROVE  reminders'[r] # "pending"
<1>1. CASE reminders' = [reminders EXCEPT ![r] = "obsolete"]
  BY <1>1 DEF TypeOK
<1>2. CASE reminders' = [reminders EXCEPT ![r] = "previewed"]
  BY <1>2 DEF TypeOK
<1>3. CASE ~Presentable(r) /\ ~(reminders[r] = "pending" /\ Outdated(r)) /\ reminders' = reminders
  BY <1>3 DEF InWindow, Presentable
<1>4. QED
  BY <1>1, <1>2, <1>3 DEF Capture

-----------------------------------------------------------------------------
(* Types                                                                   *)

LEMMA TypeInit == Init => TypeOK
<1> SUFFICES ASSUME Init PROVE TypeOK
  OBVIOUS
<1>1. clock \in 0..Horizon
  BY QueueAssumption DEF Init
<1>2. searches \in [Searches -> [standing : {"live", "ended", "erased"}, expires : Expiries]]
  <2>1. 1..Term \subseteq Expiries
    BY QueueAssumption DEF Expiries
  <2>2. QED
    BY <2>1 DEF Init
<1>3. reminders \in [Reminders -> Statuses]
  BY DEF Init, Statuses
<1>4. jobs \in [Jobs -> JobRow]
  BY QueueAssumption DEF Init, JobRow, FreeJob
<1>5. \A w \in Workers : workers[w] = Resting
  BY DEF Init
<1>6. workers \in [Workers -> [job : Jobs \cup {NoJob}, at : {"rest", "started", "returned", "raised"}]]
  BY DEF Init, Resting
<1>7. \A j \in Jobs : jobs[j].status = "free"
  BY DEF Init, FreeJob
<1>8. copies \in [Reminders -> Nat] /\ lost \in [Reminders -> Nat] /\ runs \in [Jobs -> Nat]
  BY DEF Init
<1>9. \A w \in Workers : workers[w].at = "rest"
  BY <1>5 DEF Resting
<1>10. QED
  BY <1>1, <1>2, <1>3, <1>4, <1>6, <1>7, <1>8, <1>9 DEF TypeOK

-----------------------------------------------------------------------------
(* The steps of a job                                                      *)

Same(j) == jobs'[j] = jobs[j] /\ runs'[j] = runs[j]

Fresh(j) ==
    /\ jobs[j].status = "free"
    /\ \E r \in Reminders :
        jobs'[j] = NewJob(r) /\ Planned[r] = "pending" /\ reminders' = Planned
    /\ runs'[j] = runs[j]

Begun(j) ==
    /\ jobs[j].status = "todo"
    /\ jobs'[j] = [jobs[j] EXCEPT !.status = "doing"]
    /\ runs'[j] = runs[j] + 1

\* How worker w ends a run of its job.
Over(w, j) ==
    /\ workers[w].job = j
    /\ workers'[w].at = "rest"
    /\ jobs'[j].key = jobs[j].key
    /\ jobs'[j].attempts = jobs[j].attempts + 1
    /\ runs'[j] = runs[j]
    /\ reminders' = reminders
    /\ \/ /\ workers[w].at = "raised"
          /\ jobs[j].attempts < MaxAttempts
          /\ jobs'[j].status = "todo"
       \/ workers[w].at = "raised" /\ jobs'[j].status = "failed"
       \/ workers[w].at = "returned" /\ jobs'[j].status = "succeeded"

JobStep(j) ==
    \/ Same(j) \/ Fresh(j) \/ Begun(j)
    \/ \E w \in Workers : workers[w].at # "rest" /\ Over(w, j)

\* What a worker's step does to the job table.
LEMMA WorkerJobs ==
    ASSUME TypeOK, NEW w \in Workers,
           workers[w].at # "rest",
           Retry(w) \/ GiveUp(w) \/ Finish(w) \/ Collide(w),
           NEW j \in Jobs
    PROVE  /\ jobs' \in [Jobs -> JobRow]
           /\ jobs'[j].key = jobs[j].key
           /\ \/ jobs'[j] = jobs[j]
              \/ /\ j = workers[w].job
                 /\ jobs'[j].attempts = jobs[j].attempts + 1
                 /\ \/ Retry(w) /\ jobs'[j].status = "todo"
                    \/ Finish(w) /\ jobs'[j].status = "succeeded"
                    \/ (GiveUp(w) \/ Collide(w)) /\ jobs'[j].status = "failed"
<1> DEFINE i == workers[w].job
<1>1. i \in Jobs /\ jobs[i] \in JobRow /\ jobs[j] \in JobRow
  BY DEF TypeOK
<1>2. Reached(clock + Wait) \in 0..Horizon
  BY ReachedType, QueueAssumption DEF TypeOK
<1>4. ASSUME NEW status \in {"todo", "succeeded", "failed"}
      PROVE  /\ Counted(i, status) \in [Jobs -> JobRow]
             /\ Counted(i, status)[j].key = jobs[j].key
             /\ j # i => Counted(i, status)[j] = jobs[j]
             /\ Counted(i, status)[i].status = status
             /\ Counted(i, status)[i].attempts = jobs[i].attempts + 1
  BY <1>1 DEF Counted, TypeOK, JobRow
<1>3. CASE Retry(w)
  <2>1. jobs' = [Counted(i, "todo") EXCEPT ![i].at = Reached(clock + Wait)]
    BY <1>3 DEF Retry
  <2>2. /\ jobs' \in [Jobs -> JobRow]
        /\ j # i => jobs'[j] = Counted(i, "todo")[j]
        /\ jobs'[i].status = Counted(i, "todo")[i].status
        /\ jobs'[i].attempts = Counted(i, "todo")[i].attempts
        /\ jobs'[i].key = Counted(i, "todo")[i].key
    BY <1>1, <1>2, <1>4, <2>1 DEF JobRow
  <2>3. Counted(i, "todo")[i].key = jobs[i].key
    BY <1>1 DEF Counted, TypeOK, JobRow
  <2>4. QED
    BY <1>1, <1>3, <1>4, <2>2, <2>3
<1>5. CASE GiveUp(w)
  BY <1>1, <1>4, <1>5 DEF GiveUp
<1>6. CASE Finish(w)
  BY <1>1, <1>4, <1>6 DEF Finish
<1>7. CASE Collide(w)
  <2>1. CASE jobs' = jobs
    BY <2>1 DEF TypeOK
  <2>2. CASE jobs' = Counted(i, "failed")
    BY <1>1, <1>4, <1>7, <2>2
  <2>3. QED
    BY <1>7, <2>1, <2>2 DEF Collide
<1>8. QED
  BY <1>3, <1>5, <1>6, <1>7

LEMMA EndedRun ==
    ASSUME TypeOK, NEW w \in Workers,
           workers[w].at # "rest",
           Retry(w) \/ GiveUp(w) \/ Finish(w) \/ Collide(w),
           NEW j \in Jobs
    PROVE  JobStep(j)
<1>1. runs' = runs /\ reminders' = reminders /\ workers'[w].at = "rest"
  BY DEF Retry, GiveUp, Finish, Collide, Resting, TypeOK
<1>2. CASE jobs'[j] = jobs[j]
  BY <1>1, <1>2 DEF JobStep, Same
<1>3. CASE Retry(w) /\ j = workers[w].job /\ jobs'[j].status = "todo"
  <2>1. workers[w].at = "raised" /\ jobs[j].attempts < MaxAttempts
    BY <1>3 DEF Retry, MayRetry
  <2>2. Over(w, j) \/ jobs'[j] = jobs[j]
    BY <1>1, <1>3, <2>1, WorkerJobs DEF Over
  <2>3. QED
    BY <1>2, <2>2 DEF JobStep
<1>4. CASE Finish(w) /\ j = workers[w].job /\ jobs'[j].status = "succeeded"
  <2>1. workers[w].at = "returned"
    BY <1>4 DEF Finish
  <2>2. Over(w, j) \/ jobs'[j] = jobs[j]
    BY <1>1, <1>4, <2>1, WorkerJobs DEF Over
  <2>3. QED
    BY <1>2, <2>2 DEF JobStep
<1>5. CASE (GiveUp(w) \/ Collide(w)) /\ j = workers[w].job /\ jobs'[j].status = "failed"
  <2>1. workers[w].at = "raised"
    BY <1>5 DEF GiveUp, Collide
  <2>2. Over(w, j) \/ jobs'[j] = jobs[j]
    BY <1>1, <1>5, <2>1, WorkerJobs DEF Over
  <2>3. QED
    BY <1>2, <2>2 DEF JobStep
<1>6. QED
  BY <1>2, <1>3, <1>4, <1>5, WorkerJobs

LEMMA JobNext ==
    ASSUME TypeOK, [Next]_vars
    PROVE  /\ \A j \in Jobs : JobStep(j)
           /\ jobs' \in [Jobs -> JobRow]
           /\ runs' \in [Jobs -> Nat]
<1> DEFINE Goal ==
        /\ \A j \in Jobs : JobStep(j)
        /\ jobs' \in [Jobs -> JobRow]
        /\ runs' \in [Jobs -> Nat]
<1>0. jobs \in [Jobs -> JobRow] /\ runs \in [Jobs -> Nat]
  BY DEF TypeOK
<1>1. CASE jobs' = jobs /\ runs' = runs
  BY <1>0, <1>1 DEF JobStep, Same
<1>2. CASE Enqueue
  <2>1. runs' = runs /\ reminders' = Planned
    BY <1>2 DEF Enqueue
  <2>2. \A j \in Jobs : JobStep(j)
    BY <1>2, <2>1, DeferredJob DEF JobStep, Same, Fresh
  <2>3. \A k \in Jobs : jobs'[k] \in JobRow
    <3> SUFFICES ASSUME NEW k \in Jobs PROVE jobs'[k] \in JobRow
      OBVIOUS
    <3>1. ASSUME NEW r \in Reminders PROVE NewJob(r) \in JobRow
      BY QueueAssumption DEF NewJob, JobRow
    <3>2. QED
      BY <1>0, <1>2, <3>1, DeferredJob
  <2>4. \E f : jobs' = [k \in Jobs |-> f[k]]
    BY <1>2 DEF Enqueue
  <2>5. QED
    BY <1>0, <2>1, <2>2, <2>3, <2>4
<1>3. ASSUME NEW w \in Workers, NEW i \in Jobs, Start(w, i)
      PROVE  Goal
  <2>1. jobs' \in [Jobs -> JobRow] /\ runs' \in [Jobs -> Nat]
    BY <1>0, <1>3 DEF Start, JobRow
  <2>2. Begun(i)
    BY <1>0, <1>3 DEF Start, Begun, Ready
  <2>3. \A j \in Jobs : i # j => Same(j)
    BY <1>0, <1>3 DEF Start, Same
  <2>4. QED
    BY <2>1, <2>2, <2>3 DEF JobStep
<1>4. ASSUME NEW w \in Workers, Retry(w) \/ GiveUp(w) \/ Finish(w) \/ Collide(w)
      PROVE  Goal
  <2>1. workers[w].at # "rest" /\ runs' = runs
    BY <1>4 DEF Retry, GiveUp, Finish, Collide
  <2>2. workers[w].job \in Jobs
    BY <2>1 DEF TypeOK
  <2>3. QED
    BY <1>0, <1>4, <2>1, <2>2, EndedRun, WorkerJobs
<1>5. QED
  BY <1>1, <1>2, <1>3, <1>4
     DEF Next, vars, Prepare, Work, Run, Raise, LoseCommit, Crash, PreviewCommand, Renew, Cancel,
         Suppress, Purge, Tick

-----------------------------------------------------------------------------
(* The steps of a reminder                                                 *)

Still(r) == reminders'[r] = reminders[r] /\ copies'[r] = copies[r] /\ lost'[r] = lost[r]

NewlyPlanned(r) ==
    /\ reminders[r] = "none" /\ reminders'[r] = "pending"
    /\ ~Erased(r[1])
    /\ r[2] <= clock + ReminderWindow
    /\ copies'[r] = copies[r] /\ lost'[r] = lost[r]

NewlySettled(r) ==
    /\ reminders[r] = "pending"
    /\ \/ reminders'[r] = "obsolete" /\ copies'[r] = copies[r]
       \/ reminders'[r] = "previewed" /\ copies'[r] = copies[r] + 1
    /\ lost'[r] = lost[r]

CopyLost(r) ==
    /\ reminders[r] = "pending" /\ reminders'[r] = reminders[r]
    /\ copies'[r] = copies[r] + 1
    /\ lost'[r] = lost[r] + 1

Removed(r) ==
    /\ reminders'[r] = "none" /\ Erased(r[1])'
    /\ copies'[r] = copies[r] /\ lost'[r] = lost[r]

ReminderStep(r) ==
    \/ Still(r) \/ NewlyPlanned(r) \/ NewlySettled(r) \/ CopyLost(r) \/ Removed(r)

LEMMA KeyType ==
    ASSUME TypeOK, NEW w \in Workers, workers[w].at # "rest"
    PROVE  workers[w].job \in Jobs /\ Key(w) \in Reminders
BY DEF TypeOK, Key

LEMMA ReminderNext ==
    ASSUME TypeOK, [Next]_vars
    PROVE  /\ \A r \in Reminders : ReminderStep(r)
           /\ reminders' \in [Reminders -> Statuses]
           /\ copies' \in [Reminders -> Nat]
           /\ lost' \in [Reminders -> Nat]
<1> DEFINE Goal ==
        /\ \A r \in Reminders : ReminderStep(r)
        /\ reminders' \in [Reminders -> Statuses]
        /\ copies' \in [Reminders -> Nat]
        /\ lost' \in [Reminders -> Nat]
<1>1. CASE reminders' = reminders /\ copies' = copies /\ lost' = lost
  BY <1>1 DEF TypeOK, ReminderStep, Still
<1>2. CASE Enqueue \/ Prepare
  <2>1. reminders' = Planned /\ copies' = copies /\ lost' = lost
    BY <1>2 DEF Enqueue, Prepare
  <2>2. QED
    BY <2>1, PlannedType, PlannedValue DEF TypeOK, ReminderStep, Still, NewlyPlanned
<1>3. ASSUME NEW q \in Reminders, Capture(q), lost' = lost
      PROVE  Goal
  BY <1>3, CaptureRows DEF TypeOK, ReminderStep, Still, NewlySettled
<1>4. ASSUME NEW w \in Workers, Run(w)
      PROVE  Goal
  <2>1. Key(w) \in Reminders
    BY <1>4, KeyType DEF Run
  <2>2. QED
    BY <1>3, <1>4, <2>1 DEF Run
<1>5. ASSUME NEW w \in Workers, LoseCommit(w)
      PROVE  Goal
  <2>1. Key(w) \in Reminders
    BY <1>5, KeyType DEF LoseCommit
  <2>2. /\ reminders' = reminders /\ reminders[Key(w)] = "pending"
        /\ copies' = [copies EXCEPT ![Key(w)] = @ + 1]
        /\ lost' = [lost EXCEPT ![Key(w)] = @ + 1]
    BY <1>5 DEF LoseCommit, Presentable
  <2>3. QED
    BY <2>1, <2>2 DEF TypeOK, ReminderStep, Still, CopyLost
<1>6. ASSUME NEW s \in Searches, Purge(s)
      PROVE  Goal
  <2>1. /\ reminders' = [r \in Reminders |-> IF r[1] = s THEN "none" ELSE reminders[r]]
        /\ copies' = copies /\ lost' = lost
    BY <1>6 DEF Purge
  <2>2. searches'[s].standing = "erased"
    BY <1>6 DEF Purge, TypeOK
  <2>3. QED
    BY <2>1, <2>2 DEF TypeOK, ReminderStep, Still, Removed, Erased, Statuses
<1>7. ASSUME NEW q \in Reminders, PreviewCommand(q)
      PROVE  Goal
  BY <1>3, <1>7 DEF PreviewCommand
<1>8. ASSUME NEW owned \in SUBSET Searches, Suppress(owned)
      PROVE  Goal
  <2>1. /\ reminders' = [r \in Reminders |-> IF r[1] \in owned /\ reminders[r] = "pending"
                                             THEN "obsolete" ELSE reminders[r]]
        /\ copies' = copies /\ lost' = lost
    BY <1>8 DEF Suppress
  <2>2. QED
    BY <2>1 DEF TypeOK, ReminderStep, Still, NewlySettled, Statuses
<1>9. QED
  BY <1>1, <1>2, <1>4, <1>5, <1>6, <1>7, <1>8
     DEF Next, vars, Work, Start, Finish, Retry, GiveUp, Collide, Raise, Crash, Renew, Cancel, Tick

-----------------------------------------------------------------------------
(* The steps of a search and of a worker                                   *)

LEMMA SearchNext ==
    ASSUME TypeOK, [Next]_vars
    PROVE  /\ searches' \in [Searches -> [standing : {"live", "ended", "erased"}, expires : Expiries]]
           /\ clock' \in 0..Horizon /\ clock <= clock'
           /\ \A s \in Searches :
                \/ Erased(s)' <=> Erased(s)
                \/ Erased(s)' /\ \A r \in Reminders : r[1] = s => reminders'[r] = "none"
<1> DEFINE Goal ==
        /\ searches' \in [Searches -> [standing : {"live", "ended", "erased"}, expires : Expiries]]
        /\ clock' \in 0..Horizon /\ clock <= clock'
        /\ \A s \in Searches :
            \/ Erased(s)' <=> Erased(s)
            \/ Erased(s)' /\ \A r \in Reminders : r[1] = s => reminders'[r] = "none"
<1>0. /\ clock \in 0..Horizon
      /\ searches \in [Searches -> [standing : {"live", "ended", "erased"}, expires : Expiries]]
  BY DEF TypeOK
<1>1. CASE searches' = searches /\ clock' = clock
  BY <1>0, <1>1, QueueAssumption DEF Erased
<1>2. CASE Tick
  BY <1>0, <1>2, QueueAssumption DEF Tick, Erased
<1>3. ASSUME NEW s \in Searches, Renew(s)
      PROVE  Goal
  <2>1. Later(searches[s].expires, clock + Term) \in Expiries
    BY <1>0, QueueAssumption DEF Later, Expiries
  <2>2. clock' = clock
    BY <1>3 DEF Renew
  <2>3. /\ searches' \in [Searches -> [standing : {"live", "ended", "erased"}, expires : Expiries]]
        /\ \A x \in Searches : Erased(x)' <=> Erased(x)
    BY <1>0, <1>3, <2>1 DEF Renew, Erased
  <2>4. QED
    BY <1>0, <2>2, <2>3
<1>4. ASSUME NEW s \in Searches, Cancel(s)
      PROVE  Goal
  <2>1. clock' = clock
    BY <1>4 DEF Cancel
  <2>2. /\ searches' \in [Searches -> [standing : {"live", "ended", "erased"}, expires : Expiries]]
        /\ \A x \in Searches : Erased(x)' <=> Erased(x)
    BY <1>0, <1>4 DEF Cancel, Erased
  <2>3. QED
    BY <1>0, <2>1, <2>2
<1>5. ASSUME NEW s \in Searches, Purge(s)
      PROVE  Goal
  <2>1. clock' = clock
    BY <1>5 DEF Purge
  <2>2. /\ searches' \in [Searches -> [standing : {"live", "ended", "erased"}, expires : Expiries]]
        /\ \A x \in Searches \ {s} : Erased(x)' <=> Erased(x)
        /\ Erased(s)'
        /\ \A r \in Reminders : r[1] = s => reminders'[r] = "none"
    BY <1>0, <1>5 DEF Purge, Erased
  <2>3. QED
    BY <1>0, <2>1, <2>2
<1>6. ASSUME NEW owned \in SUBSET Searches, Suppress(owned)
      PROVE  Goal
  <2>1. clock' = clock
    BY <1>6 DEF Suppress
  <2>2. /\ searches' \in [Searches -> [standing : {"live", "ended", "erased"}, expires : Expiries]]
        /\ \A x \in Searches : Erased(x)' <=> Erased(x)
    BY <1>0, <1>6 DEF Suppress, Erased
  <2>3. QED
    BY <1>0, <2>1, <2>2
<1>7. QED
  BY <1>1, <1>2, <1>3, <1>4, <1>5, <1>6
     DEF Next, vars, Enqueue, Prepare, Work, Start, Run, Finish, Retry, GiveUp, Collide, Raise,
         LoseCommit, Crash, PreviewCommand

Takes(w, j) ==
    /\ workers[w].at = "rest"
    /\ jobs[j].status = "todo" /\ jobs'[j].status = "doing"
    /\ workers' = [workers EXCEPT ![w] = [job |-> j, at |-> "started"]]

Rests(w) == workers' = [workers EXCEPT ![w] = Resting]

Raises(w) == workers[w].at = "started" /\ Move(w, "raised") /\ jobs' = jobs

Returns(w) ==
    workers[w].at = "started" /\ Move(w, "returned") /\ jobs' = jobs /\ Capture(Key(w))

LEMMA WorkerNext ==
    ASSUME TypeOK, [Next]_vars
    PROVE  \/ workers' = workers
           \/ \E w \in Workers :
                Rests(w) \/ Raises(w) \/ Returns(w) \/ \E j \in Jobs : Takes(w, j)
<1>1. ASSUME NEW w \in Workers, NEW j \in Jobs, Start(w, j)
      PROVE  Takes(w, j)
  BY <1>1 DEF Start, Takes, Ready, TypeOK, JobRow
<1>2. ASSUME NEW w \in Workers, Work(w) \/ Raise(w) \/ LoseCommit(w) \/ Crash(w)
      PROVE  Rests(w) \/ Raises(w) \/ Returns(w) \/ \E j \in Jobs : Takes(w, j)
  BY <1>1, <1>2 DEF Work, Run, Finish, Retry, GiveUp, Collide, Raise, LoseCommit, Crash,
                    Rests, Raises, Returns
<1>3. QED
  BY <1>2 DEF Next, vars, Enqueue, Prepare, PreviewCommand, Renew, Cancel, Suppress, Purge, Tick

-----------------------------------------------------------------------------
(* The inductive invariant                                                 *)

LEMMA QueueInit == Init => QueueInv
<1> SUFFICES ASSUME Init PROVE QueueInv
  OBVIOUS
<1>1. TypeOK
  BY TypeInit
<1>2. \A w \in Workers : workers[w].at = "rest"
  BY DEF Init, Resting
<1>3. \A j \in Jobs : jobs[j].status = "free" /\ runs[j] = 0
  BY DEF Init, FreeJob
<1>4. \A r \in Reminders : reminders[r] = "none" /\ copies[r] = 0 /\ lost[r] = 0
  BY DEF Init
<1>5. RunsAreBounded
  BY <1>3, QueueAssumption DEF RunsAreBounded
<1>6. CopiesLost /\ CopiesNeedFailures
  BY <1>4 DEF CopiesLost, CopiesNeedFailures
<1>7. QED
  BY <1>1, <1>2, <1>3, <1>4, <1>5, <1>6
     DEF QueueInv, Held, Tallied, Keyed, InWindow, Returned, SuccessSettles, Cascaded

\* A job keeps its key once it has one.
LEMMA KeyKept ==
    ASSUME TypeOK, NEW j \in Jobs, JobStep(j)
    PROVE  /\ jobs'[j].status # "free" => jobs'[j].key \in Reminders
           /\ jobs[j].status # "free" => jobs'[j].status # "free" /\ jobs'[j].key = jobs[j].key
<1>0. jobs[j] \in JobRow /\ (jobs[j].status # "free" => jobs[j].key \in Reminders)
  BY DEF TypeOK
<1>1. CASE Same(j)
  BY <1>0, <1>1 DEF Same
<1>2. CASE Fresh(j)
  BY <1>0, <1>2 DEF Fresh, NewJob
<1>3. CASE Begun(j)
  BY <1>0, <1>3 DEF Begun, JobRow
<1>4. ASSUME NEW w \in Workers, workers[w].at # "rest", Over(w, j)
      PROVE  /\ jobs'[j].status # "free"
             /\ jobs[j].status # "free"
             /\ jobs'[j].key = jobs[j].key
  BY <1>4 DEF Over, TypeOK
<1>5. QED
  BY <1>0, <1>1, <1>2, <1>3, <1>4 DEF JobStep

LEMMA TypeNext == TypeOK /\ [Next]_vars => TypeOK'
<1> SUFFICES ASSUME TypeOK, [Next]_vars PROVE TypeOK'
  OBVIOUS
<1>1. \A j \in Jobs : JobStep(j)
  BY JobNext
<1>2. \A j \in Jobs : jobs'[j].status # "free" => jobs'[j].key \in Reminders
  BY <1>1, KeyKept
<1>3. \A j \in Jobs : jobs[j].status # "free" => jobs'[j].status # "free"
  BY <1>1, KeyKept
<1>4. jobs' \in [Jobs -> JobRow] /\ runs' \in [Jobs -> Nat]
  BY JobNext
<1>5. /\ workers' \in [Workers -> [job : Jobs \cup {NoJob},
                                  at : {"rest", "started", "returned", "raised"}]]
      /\ \A w \in Workers : workers'[w].at # "rest" =>
            workers'[w].job \in Jobs /\ jobs'[workers'[w].job].status # "free"
  <2>1. CASE workers' = workers
    BY <1>3, <2>1 DEF TypeOK
  <2>2. ASSUME NEW w \in Workers, Rests(w)
        PROVE  <1>5!1 /\ <1>5!2
    BY <1>3, <2>2 DEF Rests, Resting, TypeOK
  <2>3. ASSUME NEW w \in Workers, Raises(w) \/ Returns(w)
        PROVE  <1>5!1 /\ <1>5!2
    <3>1. PICK at \in {"raised", "returned"} : workers' = [workers EXCEPT ![w].at = at]
      BY <2>3 DEF Raises, Returns, Move
    <3>2. workers[w].at = "started"
      BY <2>3 DEF Raises, Returns
    <3>3. \A v \in Workers : workers'[v].job = workers[v].job
      BY <3>1 DEF TypeOK
    <3>4. QED
      BY <1>3, <3>1, <3>2, <3>3 DEF TypeOK
  <2>4. ASSUME NEW w \in Workers, NEW j \in Jobs, Takes(w, j)
        PROVE  <1>5!1 /\ <1>5!2
    <3>1. workers' = [workers EXCEPT ![w] = [job |-> j, at |-> "started"]]
      BY <2>4 DEF Takes
    <3>2. jobs'[j].status # "free"
      BY <2>4 DEF Takes
    <3>3. QED
      BY <1>3, <3>1, <3>2 DEF TypeOK
  <2>5. QED
    BY <2>1, <2>2, <2>3, <2>4, WorkerNext
<1>6. QED
  BY <1>2, <1>4, <1>5, ReminderNext, SearchNext DEF TypeOK

LEMMA HeldNext == TypeOK /\ Held /\ [Next]_vars => Held'
<1> SUFFICES ASSUME TypeOK, Held, [Next]_vars PROVE Held'
  OBVIOUS
<1>1. ASSUME NEW w \in Workers, workers[w].at # "rest", workers'[w].at # "rest"
      PROVE  jobs'[workers[w].job].status = "doing"
  <2> DEFINE j == workers[w].job
  <2>1. j \in Jobs /\ jobs[j].status = "doing"
    BY <1>1 DEF Held, TypeOK
  <2>2. ASSUME NEW v \in Workers, workers[v].at # "rest", Over(v, j)
        PROVE  FALSE
    BY <1>1, <2>2 DEF Held, Over
  <2>3. QED
    BY <2>1, <2>2, JobNext DEF JobStep, Same, Fresh, Begun
<1>2. CASE workers' = workers
  BY <1>1, <1>2 DEF Held
<1>3. ASSUME NEW w \in Workers, Rests(w)
      PROVE  Held'
  BY <1>1, <1>3 DEF Rests, Resting, Held, TypeOK
<1>4. ASSUME NEW w \in Workers, Raises(w) \/ Returns(w)
      PROVE  Held'
  <2>1. PICK at \in {"raised", "returned"} : workers' = [workers EXCEPT ![w].at = at]
    BY <1>4 DEF Raises, Returns, Move
  <2>2. workers[w].at = "started"
    BY <1>4 DEF Raises, Returns
  <2>3. \A v \in Workers : /\ workers'[v].job = workers[v].job
                           /\ workers'[v].at # "rest" => workers[v].at # "rest"
    BY <2>1, <2>2 DEF TypeOK
  <2>4. QED
    BY <1>1, <2>3 DEF Held
<1>5. ASSUME NEW w \in Workers, NEW j \in Jobs, Takes(w, j)
      PROVE  Held'
  <2>1. /\ workers'[w].job = j
        /\ \A v \in Workers \ {w} : workers'[v] = workers[v]
    BY <1>5 DEF Takes, TypeOK
  <2>2. \A v \in Workers \ {w} : workers[v].at # "rest" => workers[v].job # j
    BY <1>5 DEF Takes, Held
  <2>3. jobs'[j].status = "doing"
    BY <1>5 DEF Takes
  <2>4. QED
    BY <1>1, <2>1, <2>2, <2>3 DEF Held
<1>6. QED
  BY <1>2, <1>3, <1>4, <1>5, WorkerNext

LEMMA TallyNext == TypeOK /\ Held /\ Tallied /\ RunsAreBounded /\ [Next]_vars
                   => Tallied' /\ RunsAreBounded'
<1> SUFFICES ASSUME TypeOK, Held, Tallied, RunsAreBounded, [Next]_vars, NEW j \in Jobs
             PROVE  /\ jobs'[j].status = "free" => runs'[j] = 0
                    /\ jobs'[j].status = "todo" => runs'[j] = jobs'[j].attempts /\ runs'[j] <= MaxAttempts
                    /\ jobs'[j].status = "doing" => runs'[j] = jobs'[j].attempts + 1
                    /\ runs'[j] <= MaxAttempts + 1
  BY DEF Tallied, RunsAreBounded
<1>0. /\ jobs[j] \in JobRow /\ runs[j] \in Nat /\ MaxAttempts \in Nat
      /\ runs[j] <= MaxAttempts + 1
  BY QueueAssumption DEF TypeOK, RunsAreBounded
<1>1. CASE Same(j)
  BY <1>0, <1>1 DEF Same, Tallied
<1>2. CASE Fresh(j)
  BY <1>0, <1>2 DEF Fresh, NewJob, Tallied
<1>3. CASE Begun(j)
  BY <1>0, <1>3 DEF Begun, Tallied, JobRow
<1>4. ASSUME NEW w \in Workers, workers[w].at # "rest", Over(w, j)
      PROVE  /\ jobs'[j].status \in {"todo", "succeeded", "failed"}
             /\ runs'[j] <= MaxAttempts + 1
             /\ jobs'[j].status = "todo" => runs'[j] = jobs'[j].attempts /\ runs'[j] <= MaxAttempts
  <2>1. jobs[j].status = "doing"
    BY <1>4 DEF Over, Held
  <2>2. runs[j] = jobs[j].attempts + 1
    BY <2>1 DEF Tallied
  <2>3. jobs[j].attempts \in Nat
    BY <1>0 DEF JobRow
  <2>4. QED
    BY <1>0, <1>4, <2>2, <2>3 DEF Over
<1>5. QED
  BY <1>1, <1>2, <1>3, <1>4, JobNext DEF JobStep

-----------------------------------------------------------------------------
(* Settled reminders stay settled                                          *)

LEMMA NotPendingAgain ==
    ASSUME QueueInv, [Next]_vars, NEW j \in Jobs,
           jobs[j].status # "free", reminders[jobs[j].key] # "pending"
    PROVE  reminders'[jobs[j].key] # "pending"
<1> DEFINE r == jobs[j].key
<1>1. r \in Reminders /\ (reminders[r] = "none" => Erased(r[1]))
  BY DEF QueueInv, TypeOK, Keyed
<1>2. ReminderStep(r)
  BY <1>1, ReminderNext DEF QueueInv
<1>3. QED
  BY <1>1, <1>2 DEF ReminderStep, Still, NewlyPlanned, NewlySettled, CopyLost, Removed

LEMMA KeyedNext == QueueInv /\ [Next]_vars => Keyed'
<1> SUFFICES ASSUME QueueInv, [Next]_vars, NEW j \in Jobs,
                    jobs'[j].status # "free", reminders'[jobs'[j].key] = "none"
             PROVE  Erased(jobs[j].key[1])'
  BY DEF Keyed
<1>1. JobStep(j) /\ TypeOK
  BY JobNext DEF QueueInv
<1>2. CASE jobs[j].status # "free"
  <2> DEFINE r == jobs[j].key
  <2>1. jobs'[j].key = r /\ r \in Reminders
    BY <1>1, <1>2, KeyKept DEF TypeOK
  <2>2. reminders[r] = "none" => Erased(r[1])
    BY <1>2 DEF QueueInv, Keyed
  <2>3. ReminderStep(r)
    BY <1>1, <2>1, ReminderNext
  <2>4. Erased(r[1]) => Erased(r[1])'
    BY <1>1, <2>1, SearchNext, ReminderShape
  <2>5. CASE Still(r)
    BY <2>1, <2>2, <2>4, <2>5 DEF Still
  <2>6. CASE NewlyPlanned(r) \/ NewlySettled(r) \/ CopyLost(r)
    BY <2>1, <2>6 DEF NewlyPlanned, NewlySettled, CopyLost
  <2>7. CASE Removed(r)
    BY <2>1, <2>7 DEF Removed
  <2>8. QED
    BY <2>3, <2>5, <2>6, <2>7 DEF ReminderStep
<1>3. CASE Fresh(j)
  <2>1. PICK r \in Reminders :
          jobs'[j] = NewJob(r) /\ Planned[r] = "pending" /\ reminders' = Planned
    BY <1>3 DEF Fresh
  <2>2. QED
    BY <2>1 DEF NewJob
<1>4. QED
  BY <1>1, <1>2, <1>3 DEF JobStep, Same, Fresh, Begun, Over, TypeOK

LEMMA SuccessNext == QueueInv /\ [Next]_vars => SuccessSettles'
<1> SUFFICES ASSUME QueueInv, [Next]_vars, NEW j \in Jobs, jobs'[j].status = "succeeded"
             PROVE  reminders'[jobs'[j].key] # "pending"
  BY DEF SuccessSettles
<1>1. JobStep(j) /\ TypeOK
  BY JobNext DEF QueueInv
<1>2. CASE Same(j)
  BY <1>1, <1>2, NotPendingAgain DEF Same, QueueInv, SuccessSettles
<1>3. ASSUME NEW w \in Workers, workers[w].at # "rest", Over(w, j)
      PROVE  reminders'[jobs'[j].key] # "pending"
  <2>1. workers[w].at = "returned" /\ workers[w].job = j
    BY <1>3 DEF Over
  <2>2. reminders[jobs[j].key] # "pending"
    BY <2>1 DEF QueueInv, Returned, Key
  <2>3. QED
    BY <1>3, <2>2 DEF Over
<1>4. ~Fresh(j)
  <2>1. ASSUME NEW r \in Reminders, jobs'[j] = NewJob(r)
        PROVE  jobs'[j].status = "todo"
    BY <2>1 DEF NewJob
  <2>2. QED
    BY <2>1 DEF Fresh
<1>5. ~Begun(j)
  BY <1>1 DEF Begun, TypeOK, JobRow
<1>6. QED
  BY <1>1, <1>2, <1>3, <1>4, <1>5 DEF JobStep

LEMMA ReturnedNext == QueueInv /\ [Next]_vars => Returned'
<1> SUFFICES ASSUME QueueInv, [Next]_vars, NEW w \in Workers, workers'[w].at = "returned"
             PROVE  reminders'[jobs'[workers'[w].job].key] # "pending"
  BY DEF Returned, Key
<1>0. TypeOK /\ \A v \in Workers : workers[v] \in [job : Jobs \cup {NoJob},
                                    at : {"rest", "started", "returned", "raised"}]
  BY DEF QueueInv, TypeOK
<1>1. ASSUME workers[w].at = "returned", workers'[w] = workers[w]
      PROVE  reminders'[jobs'[workers'[w].job].key] # "pending"
  <2> DEFINE j == workers[w].job
  <2>1. j \in Jobs /\ jobs[j].status # "free"
    BY <1>0, <1>1 DEF TypeOK
  <2>2. jobs'[j].key = jobs[j].key
    BY <1>0, <2>1, JobNext, KeyKept
  <2>3. reminders[jobs[j].key] # "pending"
    BY <1>1 DEF QueueInv, Returned, Key
  <2>4. QED
    BY <1>1, <2>1, <2>2, <2>3, NotPendingAgain
<1>2. CASE workers' = workers
  BY <1>1, <1>2
<1>3. ASSUME NEW v \in Workers, v # w,
             Rests(v) \/ Raises(v) \/ Returns(v) \/ \E j \in Jobs : Takes(v, j)
      PROVE  workers'[w] = workers[w]
  BY <1>0, <1>3 DEF TypeOK, Rests, Raises, Returns, Takes, Move
<1>4. ~Rests(w) /\ ~Raises(w) /\ \A j \in Jobs : ~Takes(w, j)
  BY <1>0 DEF TypeOK, Rests, Resting, Raises, Takes, Move
<1>5. CASE Returns(w)
  <2> DEFINE r == Key(w)
  <2>1. r \in Reminders
    BY <1>0, <1>5, KeyType DEF Returns
  <2>2. reminders'[r] # "pending"
    BY <1>0, <1>5, <2>1, CaptureSettles DEF Returns, QueueInv
  <2>3. workers'[w].job = workers[w].job /\ jobs' = jobs
    BY <1>0, <1>5 DEF Returns, Move, TypeOK
  <2>4. QED
    BY <2>2, <2>3 DEF Key
<1>6. QED
  BY <1>0, <1>1, <1>2, <1>3, <1>4, <1>5, WorkerNext

LEMMA RowsNext == QueueInv /\ [Next]_vars
                  => InWindow' /\ Cascaded' /\ CopiesLost' /\ CopiesNeedFailures'
<1> SUFFICES ASSUME QueueInv, [Next]_vars, NEW r \in Reminders
             PROVE  /\ reminders'[r] = "pending" => r[2] <= clock' + ReminderWindow
                    /\ Erased(r[1])' => reminders'[r] = "none"
                    /\ Unsettled(r)' => copies'[r] <= lost'[r]
                    /\ copies'[r] <= lost'[r] + 1
  BY DEF InWindow, Cascaded, CopiesLost, CopiesNeedFailures
<1>0. /\ TypeOK /\ ReminderStep(r)
      /\ copies[r] \in Nat /\ lost[r] \in Nat
      /\ clock \in Nat /\ clock' \in Nat /\ clock <= clock'
      /\ r[1] \in Searches /\ r[2] \in Nat /\ ReminderWindow \in Nat
  BY ReminderNext, SearchNext, ReminderShape, QueueAssumption DEF QueueInv, TypeOK, Expiries
<1>1. /\ reminders[r] = "pending" => r[2] <= clock + ReminderWindow
      /\ Erased(r[1]) => reminders[r] = "none"
      /\ Unsettled(r) => copies[r] <= lost[r]
      /\ copies[r] <= lost[r] + 1
  BY DEF QueueInv, InWindow, Cascaded, CopiesLost, CopiesNeedFailures
<1>2. \/ Erased(r[1])' <=> Erased(r[1])
      \/ Erased(r[1])' /\ reminders'[r] = "none"
  BY <1>0, SearchNext
<1>3. CASE Still(r)
  BY <1>0, <1>1, <1>2, <1>3 DEF Still, Unsettled
<1>4. CASE NewlyPlanned(r)
  BY <1>0, <1>1, <1>2, <1>4 DEF NewlyPlanned, Unsettled
<1>5. CASE NewlySettled(r)
  BY <1>0, <1>1, <1>2, <1>5 DEF NewlySettled, Unsettled
<1>6. CASE CopyLost(r)
  BY <1>0, <1>1, <1>2, <1>6 DEF CopyLost, Unsettled
<1>7. CASE Removed(r)
  BY <1>0, <1>1, <1>2, <1>7 DEF Removed, Unsettled
<1>8. QED
  BY <1>0, <1>3, <1>4, <1>5, <1>6, <1>7 DEF ReminderStep

LEMMA QueueNext == QueueInv /\ [Next]_vars => QueueInv'
BY TypeNext, HeldNext, TallyNext, KeyedNext, SuccessNext, ReturnedNext, RowsNext DEF QueueInv

LEMMA QueueCorrect == Spec => []QueueInv
BY QueueInit, QueueNext, PTL DEF Spec

-----------------------------------------------------------------------------
(* What the queue guarantees                                               *)

\* The tables, the workers and the histories keep their types.
THEOREM QueueTypeCorrect == Spec => []TypeOK
BY QueueCorrect, PTL DEF QueueInv

\* A second copy of a reminder's mail needs a lost commit, whatever is
\* deferred, retried, run twice, crashed or captured by the preview command.
THEOREM ReplayIsSafe == Spec => []CopiesNeedFailures
BY QueueCorrect, PTL DEF QueueInv

\* A job that succeeded has left its reminder settled or erased.
THEOREM SuccessIsSettled == Spec => []SuccessSettles
BY QueueCorrect, PTL DEF QueueInv

\* A job is run at most once more than it may be retried.
THEOREM RunsBounded == Spec => []RunsAreBounded
BY QueueCorrect, PTL DEF QueueInv

-----------------------------------------------------------------------------
(* Refinement                                                              *)

LEMMA PromiseInit == Init => Promise!Init
<1> SUFFICES ASSUME Init PROVE Promise!Init
  OBVIOUS
<1>1. \A r \in Reminders : StandingOf(r) = "none"
  BY ReminderShape DEF Init, StandingOf
<1>2. QED
  BY <1>1 DEF Init, Promise!Init

\* How the standing of one reminder follows from a step of the queue.
LEMMA StandingNext ==
    ASSUME QueueInv, [Next]_vars, NEW r \in Reminders
    PROVE  \/ StandingOf(r)' = StandingOf(r) /\ (Still(r) \/ CopyLost(r))
           \/ NewlyPlanned(r) /\ StandingOf(r) = "none" /\ StandingOf(r)' = "pending"
           \/ NewlySettled(r) /\ StandingOf(r) = "pending" /\ StandingOf(r)' = reminders'[r]
           \/ Removed(r) /\ StandingOf(r)' = "gone"
           \/ Still(r) /\ StandingOf(r)' = "gone"
<1>0. TypeOK /\ ReminderStep(r) /\ r[1] \in Searches
  BY ReminderNext, ReminderShape DEF QueueInv
<1>1. \/ Erased(r[1])' <=> Erased(r[1])
      \/ Erased(r[1])' /\ reminders'[r] = "none"
  BY <1>0, SearchNext
<1>2. Erased(r[1]) => reminders[r] = "none"
  BY DEF QueueInv, Cascaded
<1>3. QED
  BY <1>0, <1>1, <1>2
     DEF ReminderStep, Still, NewlyPlanned, NewlySettled, CopyLost, Removed, StandingOf, Erased

\* A step that plans, captures and erases nothing.
LEMMA QuietPromise ==
    ASSUME QueueInv, [Next]_vars, UNCHANGED <<reminders, copies, lost>>,
           \A s \in Searches : Erased(s)' <=> Erased(s)
    PROVE  UNCHANGED <<[r \in Reminders |-> StandingOf(r)], copies, lost>>
<1>1. \A r \in Reminders : StandingOf(r)' = StandingOf(r)
  BY ReminderShape DEF StandingOf, Erased
<1>2. QED
  BY <1>1

\* A committed capture previews or retires one reminder, or changes nothing.
LEMMA CapturePromise ==
    ASSUME QueueInv, NEW q \in Reminders, Capture(q), searches' = searches, lost' = lost
    PROVE  \/ Promise!Preview(q)
           \/ Promise!Retire
           \/ UNCHANGED <<[r \in Reminders |-> StandingOf(r)], copies, lost>>
<1> DEFINE st == [r \in Reminders |-> StandingOf(r)]
<1>0. TypeOK /\ reminders \in [Reminders -> Statuses]
  BY DEF QueueInv, TypeOK
<1>1. \A r \in Reminders : Erased(r[1]) => reminders[r] = "none"
  BY DEF QueueInv, Cascaded
<1>2. ASSUME NEW status, status \in {"previewed", "obsolete"}, reminders[q] = "pending",
             reminders' = [reminders EXCEPT ![q] = status]
      PROVE  st[q] = "pending" /\ st' = [st EXCEPT ![q] = status]
  <2>1. StandingOf(q) = "pending" /\ StandingOf(q)' = status
    BY <1>0, <1>1, <1>2 DEF StandingOf, Erased
  <2>2. \A r \in Reminders : r # q => StandingOf(r)' = StandingOf(r)
    BY <1>0, <1>2 DEF StandingOf
  <2>3. QED
    BY <2>1, <2>2
<1>3. CASE /\ reminders[q] = "pending"
           /\ reminders' = [reminders EXCEPT ![q] = "obsolete"]
           /\ copies' = copies
  <2>1. st[q] = "pending" /\ st' = [st EXCEPT ![q] = "obsolete"]
    BY <1>2, <1>3
  <2>2. st' = [r \in Reminders |-> IF r \in {q} THEN "obsolete" ELSE st[r]]
    BY <2>1
  <2>3. {q} \in SUBSET {r \in Reminders : st[r] = "pending"}
    BY <2>1
  <2>4. QED
    BY <1>3, <2>2, <2>3 DEF Promise!Retire
<1>4. CASE /\ reminders[q] = "pending"
           /\ reminders' = [reminders EXCEPT ![q] = "previewed"]
           /\ copies' = [copies EXCEPT ![q] = @ + 1]
  BY <1>2, <1>4 DEF Promise!Preview
<1>5. CASE UNCHANGED <<reminders, copies>>
  BY <1>5 DEF StandingOf
<1>6. QED
  BY <1>3, <1>4, <1>5 DEF Capture, Presentable

\* Every step of the queue is a step of the promise or leaves it alone.
LEMMA PromiseNext ==
    ASSUME QueueInv, [Next]_vars
    PROVE  [Promise!Next]_<<[r \in Reminders |-> StandingOf(r)], copies, lost>>
<1> DEFINE st == [r \in Reminders |-> StandingOf(r)]
<1>0. TypeOK /\ \A r \in Reminders : r[1] \in Searches
  BY ReminderShape DEF QueueInv
<1>1. CASE Enqueue \/ Prepare
  <2> DEFINE batch == {r \in Reminders : NewlyPlanned(r)}
  <2>1. reminders' = Planned /\ UNCHANGED <<searches, copies, lost>>
    BY <1>1 DEF Enqueue, Prepare
  <2>2. ASSUME NEW r \in Reminders
        PROVE  /\ r \in batch => StandingOf(r) = "none"
               /\ StandingOf(r)' = IF r \in batch THEN "pending" ELSE StandingOf(r)
    <3>1. CASE reminders'[r] = reminders[r]
      BY <2>1, <3>1 DEF StandingOf, NewlyPlanned
    <3>2. CASE NewlyPlanned(r)
      BY <2>1, <3>2 DEF StandingOf, NewlyPlanned, Erased
    <3>3. QED
      BY <1>0, <2>1, <3>1, <3>2, PlannedValue DEF NewlyPlanned
  <2>3. batch \subseteq Reminders
    OBVIOUS
  <2> HIDE DEF batch
  <2>4. batch \in SUBSET {r \in Reminders : st[r] = "none"}
    BY <2>2, <2>3
  <2>5. st' = [r \in Reminders |-> IF r \in batch THEN "pending" ELSE st[r]]
    BY <2>2
  <2>6. Promise!Plan
    BY <2>1, <2>4, <2>5 DEF Promise!Plan
  <2>7. QED
    BY <2>6 DEF Promise!Next
<1>2. ASSUME NEW w \in Workers, Run(w)
      PROVE  [Promise!Next]_<<st, copies, lost>>
  <2>1. Key(w) \in Reminders
    BY <1>0, <1>2, KeyType DEF Run
  <2>2. Capture(Key(w)) /\ searches' = searches /\ lost' = lost
    BY <1>2 DEF Run
  <2>3. QED
    BY <2>1, <2>2, CapturePromise DEF Promise!Next
<1>3. ASSUME NEW q \in Reminders, PreviewCommand(q)
      PROVE  [Promise!Next]_<<st, copies, lost>>
  BY <1>3, CapturePromise DEF PreviewCommand, Promise!Next
<1>4. ASSUME NEW w \in Workers, LoseCommit(w)
      PROVE  [Promise!Next]_<<st, copies, lost>>
  <2>1. Key(w) \in Reminders
    BY <1>0, <1>4, KeyType DEF LoseCommit
  <2>2. /\ reminders[Key(w)] = "pending"
        /\ copies' = [copies EXCEPT ![Key(w)] = @ + 1]
        /\ lost' = [lost EXCEPT ![Key(w)] = @ + 1]
        /\ UNCHANGED <<searches, reminders>>
    BY <1>4 DEF LoseCommit, Presentable
  <2>3. st[Key(w)] = "pending"
    BY <2>1, <2>2 DEF QueueInv, Cascaded, StandingOf, Erased
  <2>4. st' = st
    BY <2>2 DEF StandingOf
  <2>5. Promise!LoseCopy(Key(w))
    BY <2>2, <2>3, <2>4 DEF Promise!LoseCopy
  <2>6. QED
    BY <2>1, <2>5 DEF Promise!Next
<1>5. ASSUME NEW s \in Searches, Purge(s)
      PROVE  [Promise!Next]_<<st, copies, lost>>
  <2> DEFINE rows == {r \in Reminders : r[1] = s}
  <2>1. /\ reminders' = [r \in Reminders |-> IF r[1] = s THEN "none" ELSE reminders[r]]
        /\ searches' = [searches EXCEPT ![s].standing = "erased"]
        /\ UNCHANGED <<copies, lost>>
    BY <1>5 DEF Purge
  <2>2. \A x \in Searches : searches'[x].standing = IF x = s THEN "erased" ELSE searches[x].standing
    BY <1>0, <2>1 DEF TypeOK
  <2>3. \A r \in Reminders : StandingOf(r)' = IF r \in rows THEN "gone" ELSE st[r]
    BY <1>0, <2>1, <2>2 DEF StandingOf
  <2>4. st' = [r \in Reminders |-> IF r \in rows THEN "gone" ELSE st[r]]
    BY <2>3
  <2>5. Promise!Erase
    BY <2>1, <2>4 DEF Promise!Erase
  <2>6. QED
    BY <2>5 DEF Promise!Next
<1>6. ASSUME NEW s \in Searches, Renew(s) \/ Cancel(s)
      PROVE  UNCHANGED <<st, copies, lost>>
  <2>1. \A x \in Searches : Erased(x)' <=> Erased(x)
    BY <1>0, <1>6 DEF Renew, Cancel, Erased, TypeOK
  <2>2. QED
    BY <1>6, <2>1, QuietPromise DEF Renew, Cancel
<1>7. CASE UNCHANGED <<searches, reminders, copies, lost>>
  BY <1>7, QuietPromise DEF Erased
<1>8. ASSUME NEW owned \in SUBSET Searches, Suppress(owned)
      PROVE  [Promise!Next]_<<st, copies, lost>>
  <2> DEFINE batch == {r \in Reminders : r[1] \in owned /\ reminders[r] = "pending"}
  <2>1. /\ reminders' = [r \in Reminders |-> IF r[1] \in owned /\ reminders[r] = "pending"
                                             THEN "obsolete" ELSE reminders[r]]
        /\ UNCHANGED <<copies, lost>>
        /\ \A x \in Searches : Erased(x)' <=> Erased(x)
    BY <1>0, <1>8 DEF Suppress, Erased, TypeOK
  <2>2. \A r \in Reminders : Erased(r[1]) => reminders[r] = "none"
    BY DEF QueueInv, Cascaded
  <2>3. \A r \in Reminders :
          /\ r \in batch => StandingOf(r) = "pending"
          /\ StandingOf(r)' = IF r \in batch THEN "obsolete" ELSE st[r]
    BY <1>0, <2>1, <2>2 DEF StandingOf, Erased
  <2>4. batch \in SUBSET {r \in Reminders : st[r] = "pending"}
    BY <2>3
  <2>5. st' = [r \in Reminders |-> IF r \in batch THEN "obsolete" ELSE st[r]]
    BY <2>3
  <2>6. Promise!Retire
    BY <2>1, <2>4, <2>5 DEF Promise!Retire
  <2>7. QED
    BY <2>6 DEF Promise!Next
<1>9. QED
  BY <1>1, <1>2, <1>3, <1>4, <1>5, <1>6, <1>7, <1>8
     DEF Next, vars, Work, Start, Finish, Retry, GiveUp, Collide, Raise, Crash, Tick

\* The queue implements the promise.
THEOREM QueueKeepsPromise == Spec => ImplementsPromise
BY QueueCorrect, PromiseInit, PromiseNext, PTL DEF Spec, ImplementsPromise, Promise!Spec
=============================================================================
