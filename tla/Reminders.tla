------------------------------ MODULE Reminders ------------------------------
(***************************************************************************)
(* The scheduled producers of notifications: QueueSchedulerService         *)
(* registers their schedules at every start of a process, BullMQ           *)
(* (external) fires each schedule and hands the job to a worker, and       *)
(* daily-reminder.processor.ts and weekly-summary.processor.ts put one job *)
(* per task or member on the notification queue.  What becomes of that job *)
(* is NotificationDelivery.  A producer whose Promise.all rejects is run   *)
(* again as a whole, while its other calls go on.                          *)
(***************************************************************************)
EXTENDS Naturals, FiniteSets

CONSTANTS
  Task,        \* the tasks due within a day or overdue
  User,        \* the members of workspaces
  Process,     \* API processes
  Pattern,     \* cron patterns the environment may configure
  None,        \* nobody, SQL null
  Attempts,    \* defaultJobOptions.attempts
  MaxStalled,  \* maxStalledCount
  MaxUpsets    \* bound: how many restarts, lost locks and changes of tasks there are

Kind == {"daily", "weekly"}

VARIABLES
  kind,      \* the producer: each has a queue, a worker and a schedule of its own
  task,      \* the rows of the tasks
  config,    \* the pattern each process was started with
  booting,   \* the processes that have yet to register the schedule
  schedule,  \* the repeatable jobs Redis holds
  firing,    \* the job of each schedule in this period
  scan,      \* the run of the producer each process is busy with
  calls,     \* the members' counts and calls of add that are under way
  queued,    \* history: what has been put on the notification queue
  upsets     \* how many of them there were

vars == <<kind, task, config, booting, schedule, firing, scan, calls, queued, upsets>>

-----------------------------------------------------------------------------
\* A plausible slip: the key of a schedule names the process that adds it.
ScheduleKeyOfProcess(w) == <<config[w], w>>

\* BullMQ knows a repeatable job of a queue by its jobId, the same in every
\* process, and its pattern.
ScheduleKey(w) == <<config[w], None>>

Key == Pattern \X (Process \cup {None})

NoFiring == [st |-> "none", owner |-> None, starts |-> 0, made |-> 0,
             stalled |-> 0, broken |-> {}, found |-> {}]
NoScan == [pc |-> "idle", key |-> None, run |-> 0, rejected |-> FALSE]

\* daily-reminder: not DONE, due, with an assignee.  deletedAt is not asked.
DueTasks == {k \in Task : ~task[k].done /\ task[k].assignee # None}

\* weekly-summary: the counts of a member who has tasks.
Active(u) == \E k \in Task : task[k].assignee = u

\* The calls that belong to the run a process is busy with.
CallsOf(w) == {c \in calls : c.by = w /\ c.key = scan[w].key /\ c.run = scan[w].run}

\* The process still holds the lock of the job it runs.
Holds(w) ==
  LET f == firing[scan[w].key] IN
    f.st = "active" /\ f.owner = w /\ f.starts = scan[w].run

-----------------------------------------------------------------------------
(* Schedules *)

\* onModuleInit: adding the repeatable job again under the same key changes
\* nothing.
Register(w) ==
  /\ w \in booting
  /\ schedule' = schedule \cup {ScheduleKey(w)}
  /\ booting' = booting \ {w}
  /\ UNCHANGED <<kind, task, config, firing, scan, calls, queued, upsets>>

Fire(key) ==
  /\ key \in schedule
  /\ firing[key].st = "none"
  /\ firing' = [firing EXCEPT ![key].st = "waiting"]
  /\ UNCHANGED <<kind, task, config, booting, schedule, scan, calls, queued, upsets>>

\* A process dies and is started again, perhaps with another pattern.
Restart(w, p) ==
  /\ upsets < MaxUpsets
  /\ upsets' = upsets + 1
  /\ config' = [config EXCEPT ![w] = p]
  /\ booting' = booting \cup {w}
  /\ scan' = [scan EXCEPT ![w] = NoScan]
  /\ calls' = {c \in calls : c.by # w}
  /\ UNCHANGED <<kind, task, schedule, firing, queued>>

-----------------------------------------------------------------------------
(* Runs of the producers *)

Take(w, key) ==
  /\ scan[w] = NoScan
  /\ firing[key].st = "waiting"
  /\ firing' = [firing EXCEPT ![key].st = "active", ![key].owner = w, ![key].starts = @ + 1]
  /\ scan' = [scan EXCEPT ![w] =
       [NoScan EXCEPT !.pc = "find", !.key = key, !.run = firing[key].starts + 1]]
  /\ UNCHANGED <<kind, task, config, booting, schedule, calls, queued, upsets>>

\* findMany, and the calls that map makes at once: the daily job calls add for
\* every task, the weekly job counts for every member first.
Find(w) ==
  /\ scan[w].pc = "find"
  /\ LET found == IF kind = "daily" THEN DueTasks ELSE User
     IN /\ calls' = calls \cup
             {[by |-> w, key |-> scan[w].key, run |-> scan[w].run, for |-> x,
               step |-> IF kind = "daily" THEN "add" ELSE "count"] : x \in found}
        /\ firing' = IF Holds(w)
             THEN [firing EXCEPT ![scan[w].key].found = found] ELSE firing
  /\ scan' = [scan EXCEPT ![w].pc = "all"]
  /\ UNCHANGED <<kind, task, config, booting, schedule, queued, upsets>>

Stored(c) == [for |-> c.for, key |-> c.key, run |-> c.run, skip |-> FALSE]

\* A member without activity gets no summary.
Count(c) ==
  /\ c \in calls /\ c.step = "count"
  /\ calls' = (calls \ {c}) \cup (IF Active(c.for) THEN {[c EXCEPT !.step = "add"]} ELSE {})
  /\ queued' = IF Active(c.for) THEN queued
                 ELSE queued \cup {[Stored(c) EXCEPT !.skip = TRUE]}
  /\ UNCHANGED <<kind, task, config, booting, schedule, firing, scan, upsets>>

Add(c) ==
  /\ c \in calls /\ c.step = "add"
  /\ calls' = calls \ {c}
  /\ queued' = queued \cup {Stored(c)}
  /\ UNCHANGED <<kind, task, config, booting, schedule, firing, scan, upsets>>

\* A call rejects, an add perhaps after Redis has taken the job.
Reject(c, taken) ==
  /\ c \in calls
  /\ calls' = calls \ {c}
  /\ queued' = IF taken /\ c.step = "add" THEN queued \cup {Stored(c)} ELSE queued
  /\ scan' = IF c \in CallsOf(c.by) THEN [scan EXCEPT ![c.by].rejected = TRUE] ELSE scan
  /\ UNCHANGED <<kind, task, config, booting, schedule, firing, upsets>>

\* A plausible slip: the calls of add are not awaited.
AnsweredAtOnce(w) == scan[w].pc = "all" /\ ~scan[w].rejected

\* Promise.all resolves when every call has.
Answered(w) == scan[w].pc = "all" /\ ~scan[w].rejected /\ CallsOf(w) = {}

Complete(w) ==
  /\ Answered(w)
  /\ firing' = IF Holds(w)
       THEN [firing EXCEPT ![scan[w].key].st = "completed", ![scan[w].key].owner = None]
       ELSE firing
  /\ scan' = [scan EXCEPT ![w] = NoScan]
  /\ UNCHANGED <<kind, task, config, booting, schedule, calls, queued, upsets>>

\* findMany rejects, or Promise.all does: the job is delayed, or has failed for
\* good.  The backoff is not told from the wait that follows.
Throw(w) ==
  /\ scan[w].pc = "find" \/ scan[w].rejected
  /\ LET key == scan[w].key IN
       firing' = IF Holds(w)
         THEN [firing EXCEPT ![key].st =
                               IF firing[key].made + 1 < Attempts THEN "waiting" ELSE "failed",
                             ![key].owner = None, ![key].made = @ + 1,
                             ![key].broken = @ \cup {scan[w].run}]
         ELSE firing
  /\ scan' = [scan EXCEPT ![w] = NoScan]
  /\ UNCHANGED <<kind, task, config, booting, schedule, calls, queued, upsets>>

\* The lock of a run is lost; the run itself may go on.
Stall(key) ==
  /\ firing[key].st = "active"
  /\ upsets < MaxUpsets
  /\ upsets' = upsets + 1
  /\ firing' = [firing EXCEPT
       ![key].st = IF firing[key].stalled < MaxStalled THEN "waiting" ELSE "failed",
       ![key].owner = None, ![key].stalled = @ + 1,
       ![key].broken = @ \cup {firing[key].starts}]
  /\ UNCHANGED <<kind, task, config, booting, schedule, scan, calls, queued>>

\* A task is completed, changes hands, or a slower update sets it back from DONE.
ChangeTask(k, done, a) ==
  /\ upsets < MaxUpsets
  /\ upsets' = upsets + 1
  /\ task' = [task EXCEPT ![k] = [done |-> done, assignee |-> a]]
  /\ UNCHANGED <<kind, config, booting, schedule, firing, scan, calls, queued>>

-----------------------------------------------------------------------------
Init ==
  /\ kind \in Kind
  /\ upsets = 0
  /\ task \in [Task -> [done : BOOLEAN, assignee : User \cup {None}]]
  /\ \E p \in Pattern : config = [w \in Process |-> p]
  /\ booting = Process
  /\ schedule = {}
  /\ firing = [key \in Key |-> NoFiring]
  /\ scan = [w \in Process |-> NoScan]
  /\ calls = {}
  /\ queued = {}

Next ==
  \/ \E w \in Process :
       \/ Register(w) \/ Find(w) \/ Complete(w) \/ Throw(w)
       \/ \E p \in Pattern : Restart(w, p)
       \/ \E key \in Key : Take(w, key)
  \/ \E key \in Key : Fire(key) \/ Stall(key)
  \/ \E c \in calls : Count(c) \/ Add(c) \/ \E taken \in BOOLEAN : Reject(c, taken)
  \/ \E k \in Task, done \in BOOLEAN, a \in User \cup {None} : ChangeTask(k, done, a)

Spec == Init /\ [][Next]_vars

-----------------------------------------------------------------------------
(* Properties *)

\* In one period a task is announced, or a member summarised, a second time
\* only if the first run threw or lost its lock, or a second schedule was
\* registered with another pattern; starting again with the same one never
\* adds a schedule (queue-scheduler.service.ts:13-17).
TwiceOnlyIfRepeated ==
  \A a, b \in queued :
    a # b /\ a.for = b.for
    => \/ a.key[1] # b.key[1]
       \/ a.key = b.key /\ \E n \in firing[a.key].broken : n \in {a.run, b.run}

\* A job that has completed left nothing out: for every task, or member, its
\* last run found, that run has put a notification on the queue or found no
\* activity, whatever was rejected, stalled or retried before.
CompletedLeavesNoneOut ==
  \A key \in Key : firing[key].st = "completed" =>
    \A x \in firing[key].found : \E q \in queued :
      q.for = x /\ q.key = key /\ q.run = firing[key].starts

=============================================================================
