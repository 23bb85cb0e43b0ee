------------------------- MODULE NotificationDelivery -------------------------
(***************************************************************************)
(* From a domain event to the notification: the listener puts a job on the *)
(* BullMQ queue, a worker of some API process inserts the row, pushes it   *)
(* to the sockets of its own process and mails it.  Jobs are retried when  *)
(* the processor throws and run again when their lock is lost; none of the *)
(* effects is taken back.  BullMQ (external) is modelled by what the       *)
(* configuration in queue.module.ts asks of it.                            *)
(*                                                                         *)
(* The n-th run of a job is the number n; the row it inserts and the mail  *)
(* it sends are known by that number.                                      *)
(***************************************************************************)
EXTENDS Integers

CONSTANTS
  Job,          \* one per event and recipient
  Mailed,       \* the jobs of type TASK_ASSIGNED or USER_INVITED
  Worker,       \* API processes, each with one worker (concurrency 1)
  Socket,       \* the recipients' browser tabs
  None,         \* nobody, nothing
  Attempts,     \* defaultJobOptions.attempts
  MaxStalled    \* maxStalledCount: how often a lost lock is forgiven

ASSUME JobAssumption == Mailed \subseteq Job /\ None \notin Worker \cup Job
ASSUME LimitAssumption == Attempts \in Nat \ {0} /\ MaxStalled \in Nat

Run == 1 .. Attempts + MaxStalled

VARIABLES
  job,      \* the jobs, and those still to be added
  worker,   \* what each worker is doing
  rows,     \* the Notification rows: the runs that inserted one
  mails,    \* history: the runs that called sendMail
  socket,   \* the process a tab is connected to
  seen      \* what has been pushed to a tab since it was opened

vars == <<job, worker, rows, mails, socket, seen>>

-----------------------------------------------------------------------------
\* starts and made count the runs begun and the runs that threw; stalled is
\* BullMQ's counter of lost locks.  History: cut are the runs that lost theirs.
NoJob == [st |-> "none", owner |-> None, starts |-> 0, made |-> 0,
          stalled |-> 0, cut |-> {}]

\* pc is the await of process the worker is parked at: the insert, the answer
\* to it, the user lookup, the end.
NoRun == [pc |-> "idle", job |-> None, run |-> 0]

Ended == {"completed", "failed", "lost"}

\* The worker still holds the lock of the job it runs.
Holds(w) ==
  LET j == worker[w].job IN
    job[j].st = "active" /\ job[j].owner = w /\ job[j].starts = worker[w].run

\* A plausible slip: one attempt more than configured.
RetriesOnceMore(j) == job[j].made + 1 <= Attempts

\* attempts: the failure about to be recorded is not the last one allowed.
Retries(j) == job[j].made + 1 < Attempts

\* A plausible slip: sendMail lets the errors of SMTP through.
MayThrowFromMail(w) == worker[w].pc \in {"create", "push", "lookup", "done"}

\* process throws when an await of it rejects: the insert (done or not) or the
\* lookup.  pushToUser does not throw, and sendMail catches everything.
MayThrow(w) == worker[w].pc \in {"create", "push", "lookup"}

\* The lock of a running job is not renewed: its process is gone, or blocked
\* for longer than the lock lasts.
LockLost(j) == job[j].st = "active"

-----------------------------------------------------------------------------
(* From the event to the queue *)

\* A service of process w emits the event; the listener calls queue.add.
Emit(j, w) ==
  /\ job[j].st = "none"
  /\ job' = [job EXCEPT ![j].st = "adding", ![j].owner = w]
  /\ UNCHANGED <<worker, rows, mails, socket, seen>>

Enqueue(j) ==
  /\ job[j].st = "adding"
  /\ job' = [job EXCEPT ![j].st = "waiting", ![j].owner = None]
  /\ UNCHANGED <<worker, rows, mails, socket, seen>>

\* add rejects: the request has been answered, nobody tries again.
Refuse(j) ==
  /\ job[j].st = "adding"
  /\ job' = [job EXCEPT ![j].st = "lost", ![j].owner = None]
  /\ UNCHANGED <<worker, rows, mails, socket, seen>>

-----------------------------------------------------------------------------
(* NotificationDeliveryProcessor.process *)

Take(w, j) ==
  /\ worker[w] = NoRun
  /\ job[j].st = "waiting"
  /\ job' = [job EXCEPT ![j].st = "active", ![j].owner = w, ![j].starts = @ + 1]
  /\ worker' = [worker EXCEPT ![w] =
       [pc |-> "create", job |-> j, run |-> job[j].starts + 1]]
  /\ UNCHANGED <<rows, mails, socket, seen>>

\* A plausible slip: the insert is not awaited, and fails later.
CreateUnawaited(w) ==
  /\ worker[w].pc = "create"
  /\ worker' = [worker EXCEPT ![w].pc = "push"]
  /\ UNCHANGED <<job, rows, mails, socket, seen>>

\* notificationsService.create.
Create(w) ==
  /\ worker[w].pc = "create"
  /\ rows' = [rows EXCEPT ![worker[w].job] = @ \cup {worker[w].run}]
  /\ worker' = [worker EXCEPT ![w].pc = "push"]
  /\ UNCHANGED <<job, mails, socket, seen>>

\* pushToUser: the tabs connected to this process.
Push(w) ==
  /\ worker[w].pc = "push"
  /\ LET j == worker[w].job IN
       /\ seen' = [s \in Socket |->
            IF socket[s] = w THEN seen[s] \cup {<<j, worker[w].run>>} ELSE seen[s]]
       /\ worker' = [worker EXCEPT ![w].pc = IF j \in Mailed THEN "lookup" ELSE "done"]
  /\ UNCHANGED <<job, rows, mails, socket>>

\* A plausible slip: a promise of sendMail that nothing ever settles.
MailUnsettled(w) ==
  /\ worker[w].pc = "lookup"
  /\ mails' = [mails EXCEPT ![worker[w].job] = @ \cup {worker[w].run}]
  /\ worker' = [worker EXCEPT ![w].pc = "mailing"]
  /\ UNCHANGED <<job, rows, socket, seen>>

\* The user is found (a row refers to it) and the mail goes to sendMail, which
\* may lose it without a word.
Mail(w) ==
  /\ worker[w].pc = "lookup"
  /\ mails' = [mails EXCEPT ![worker[w].job] = @ \cup {worker[w].run}]
  /\ worker' = [worker EXCEPT ![w].pc = "done"]
  /\ UNCHANGED <<job, rows, socket, seen>>

\* A plausible slip: the job is settled while the mail is still being sent.
CompleteUnawaited(w) ==
  /\ worker[w].pc \in {"lookup", "done"}
  /\ job' = IF Holds(w)
       THEN [job EXCEPT ![worker[w].job].st = "completed", ![worker[w].job].owner = None]
       ELSE job
  /\ worker' = IF worker[w].pc = "done" THEN [worker EXCEPT ![w] = NoRun] ELSE worker
  /\ UNCHANGED <<rows, mails, socket, seen>>

\* process returns; a worker that lost the lock cannot complete the job.
Complete(w) ==
  /\ worker[w].pc = "done"
  /\ job' = IF Holds(w)
       THEN [job EXCEPT ![worker[w].job].st = "completed", ![worker[w].job].owner = None]
       ELSE job
  /\ worker' = [worker EXCEPT ![w] = NoRun]
  /\ UNCHANGED <<rows, mails, socket, seen>>

\* process throws: the job is delayed (backoff) or has failed for good.
Throw(w) ==
  /\ MayThrow(w)
  /\ LET j == worker[w].job IN
       job' = IF Holds(w)
         THEN [job EXCEPT ![j].st = IF Retries(j) THEN "delayed" ELSE "failed",
                          ![j].owner = None, ![j].made = @ + 1]
         ELSE job
  /\ worker' = [worker EXCEPT ![w] = NoRun]
  /\ UNCHANGED <<rows, mails, socket, seen>>

\* The backoff has passed.
Promote(j) ==
  /\ job[j].st = "delayed"
  /\ job' = [job EXCEPT ![j].st = "waiting"]
  /\ UNCHANGED <<worker, rows, mails, socket, seen>>

\* The stalled checker finds the lock gone: the job is run again, or fails
\* when that has happened too often.  A run that is only slow goes on.
Stall(j) ==
  /\ LockLost(j)
  /\ job' = [job EXCEPT
       ![j].st = IF job[j].stalled < MaxStalled THEN "waiting" ELSE "failed",
       ![j].owner = None, ![j].stalled = @ + 1, ![j].cut = @ \cup {job[j].starts}]
  /\ UNCHANGED <<worker, rows, mails, socket, seen>>

-----------------------------------------------------------------------------
(* Processes and tabs *)

\* A process dies and is started again: its run, its calls of add and its
\* sockets are gone, its lock stays until it expires.
Crash(w) ==
  /\ worker' = [worker EXCEPT ![w] = NoRun]
  /\ job' = [j \in Job |->
       IF job[j].st = "adding" /\ job[j].owner = w
         THEN [job[j] EXCEPT !.st = "lost", !.owner = None] ELSE job[j]]
  /\ socket' = [s \in Socket |-> IF socket[s] = w THEN None ELSE socket[s]]
  /\ UNCHANGED <<rows, mails, seen>>

\* handleConnection accepts the token and enters the socket in the map; the
\* verification waits for no I/O, so a disconnect cannot come in between.
Connect(s, w) ==
  /\ socket[s] = None
  /\ socket' = [socket EXCEPT ![s] = w]
  /\ UNCHANGED <<job, worker, rows, mails, seen>>

\* handleDisconnect; the tab is closed.
Disconnect(s) ==
  /\ socket[s] # None
  /\ socket' = [socket EXCEPT ![s] = None]
  /\ seen' = [seen EXCEPT ![s] = {}]
  /\ UNCHANGED <<job, worker, rows, mails>>

-----------------------------------------------------------------------------
Init ==
  /\ job = [j \in Job |-> NoJob]
  /\ worker = [w \in Worker |-> NoRun]
  /\ rows = [j \in Job |-> {}]
  /\ mails = [j \in Job |-> {}]
  /\ socket = [s \in Socket |-> None]
  /\ seen = [s \in Socket |-> {}]

Advance(w) == Create(w) \/ Push(w) \/ Mail(w) \/ Complete(w) \/ Throw(w)

Next ==
  \/ \E j \in Job : \/ \E w \in Worker : Emit(j, w) \/ Take(w, j)
                    \/ Enqueue(j)
                    \/ Refuse(j)
                    \/ Promote(j)
                    \/ Stall(j)
  \/ \E w \in Worker : Advance(w) \/ Crash(w)
  \/ \E s \in Socket : Disconnect(s) \/ \E w \in Worker : Connect(s, w)

Spec == Init /\ [][Next]_vars

\* No worker is running the job that is marked active.
Abandoned(j) == ~ \E w \in Worker : worker[w].job = j /\ Holds(w)

\* add answers, workers take what waits and get on with it, the delay passes,
\* and the checker finds the jobs nobody runs.
FairSpec ==
  /\ Spec
  /\ \A j \in Job : /\ WF_vars(Enqueue(j) \/ Refuse(j))
                    /\ WF_vars(\E w \in Worker : Take(w, j))
                    /\ WF_vars(Promote(j))
                    /\ WF_vars(Abandoned(j) /\ Stall(j))
  /\ \A w \in Worker : WF_vars(Advance(w))

-----------------------------------------------------------------------------
(* Properties *)

JobRecord ==
  [st : Ended \cup {"none", "adding", "waiting", "active", "delayed"},
   owner : Worker \cup {None}, starts : 0 .. Attempts + MaxStalled,
   made : 0 .. Attempts, stalled : 0 .. MaxStalled + 1, cut : SUBSET Run]

RunRecord ==
  [pc : {"create", "push", "lookup", "done"}, job : Job, run : Run]

\* The variables have their shapes: no job is run more often than the attempts
\* and the forgiven stalls allow, or records more failures than attempts.
TypeOK ==
  /\ job \in [Job -> JobRecord]
  /\ worker \in [Worker -> RunRecord \cup {NoRun}]
  /\ rows \in [Job -> SUBSET Run]
  /\ mails \in [Job -> SUBSET Run]
  /\ socket \in [Socket -> Worker \cup {None}]
  /\ seen \in [Socket -> SUBSET (Job \X Run)]

\* A job is only completed by a run that did all of it: although runs overlap,
\* fail half-way and go on after their lock is lost, the run that completed
\* the job inserted its row and, for the mailed types, called sendMail
\* (notification-delivery.processor.ts process).
CompletedIsDelivered ==
  \A j \in Job : job[j].st = "completed" =>
    /\ job[j].starts \in rows[j]
    /\ j \in Mailed => job[j].starts \in mails[j]

\* A retry never mails twice: of two runs that mailed, the earlier lost its
\* lock.  This rests on the mail coming last and sendMail never throwing.
MailedTwiceOnlyIfStalled ==
  \A j \in Job : \A m, n \in mails[j] : m < n => m \in job[j].cut

\* What a tab is shown is in the database: a notification pushed can be listed
\* and marked read, whatever became of its job since.
PushedIsStored ==
  \A s \in Socket : \A p \in seen[s] : p[2] \in rows[p[1]]

\* Once a job has ended, only a run that lost its lock can still add to it.
LateEffectsAreStalled ==
  [][\A j \in Job : job[j].st \in Ended =>
       (rows'[j] \ rows[j]) \cup (mails'[j] \ mails[j]) \subseteq job[j].cut]_vars

\* Every event comes to an end: delivered, failed or lost at the enqueue, with
\* crashes, stalls and retries in between.
JobEnds == \A j \in Job : (job[j].st # "none") ~> (job[j].st \in Ended)

\* What the pipeline promises of a job, as AtLeastOnce has it.
PromiseOf(st) ==
  CASE st = "none" -> "none"
    [] st = "completed" -> "delivered"
    [] st \in {"failed", "lost"} -> "given up"
    [] OTHER -> "pending"

Promise == [j \in Job |-> PromiseOf(job[j].st)]

Abstract == INSTANCE AtLeastOnce WITH
  Tries <- Attempts + MaxStalled, promise <- Promise, copies <- rows

\* The pipeline implements at-least-once delivery: every step stores a copy
\* within the tries allowed, settles or gives up a promise, or changes neither
\* (notification-events.listener.ts, notification-delivery.processor.ts).
ImplementsAtLeastOnce == Abstract!Spec

=============================================================================
