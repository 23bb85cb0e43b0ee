----------------------------- MODULE TaskCaches -----------------------------
(***************************************************************************)
(* The cache-aside entries of one workspace: its statistics                *)
(* (workspaces.service.ts getStats) and its members' dashboards            *)
(* (users.service.ts getDashboard), with the writes that change what they  *)
(* show and the keys each write deletes afterwards.  An entry is kept as   *)
(* the set of its parts that no longer say what the database says: empty   *)
(* when it is fresh.  Who may write is the matter of Tenancy and           *)
(* TaskWorkflow.  overdueTaskCount and recentTasks move with the clock and *)
(* with every edit; no code maintains them and they are left out.          *)
(***************************************************************************)
EXTENDS Naturals, Sequences, FiniteSets

CONSTANTS
  User,      \* users
  Request,   \* bound: the requests of a behaviour, each served once
  None       \* SQL null, a cache miss

VARIABLES
  task,     \* the Task row of the workspace
  member,   \* the users with a WorkspaceMember row
  open,     \* the number of projects that are not archived
  cache,    \* the entries in Redis
  req,      \* the requests
  cause     \* history: per key, what has left its entry behind the database

vars == <<task, member, open, cache, req, cause>>

-----------------------------------------------------------------------------
(* Keys and what is stored under them *)

StatsKey == <<"stats", None>>
DashboardKey(u) == <<"dashboard", u>>
Key == {StatsKey} \cup {DashboardKey(u) : u \in User}

Part == [k \in Key |->
  IF k = StatsKey THEN {"members", "projects", "tasks"}
                  ELSE {"workspaces", "projects", "tasks"}]

Exists(t) == t.st \in {"live", "deleted"}

\* What the queries of getStats return.  Soft-deleted tasks are counted.
Stats(t, m, n) ==
  [members |-> Cardinality(m), projects |-> n,
   tasks |-> IF Exists(t) THEN t.status ELSE None]

\* What the queries of getDashboard return for user u.
Dashboard(u, t, m, n) ==
  [workspaces |-> u \in m, projects |-> IF u \in m THEN n ELSE 0,
   tasks |-> IF Exists(t) /\ t.assignee = u THEN t.status ELSE None]

View(k, t, m, n) ==
  IF k = StatsKey THEN Stats(t, m, n) ELSE Dashboard(k[2], t, m, n)

-----------------------------------------------------------------------------
(* Writes *)

Undefined == "undefined"

\* A write: an operation and what its DTO names.  (An update that names neither
\* status nor assignee shows nowhere.)
Input ==
  {[op |-> o, status |-> Undefined, assignee |-> a] : o \in {"createTask"}, a \in User \cup {None}}
  \cup {w \in [op : {"updateTask"}, status : {Undefined, "TODO", "IN_PROGRESS"},
                assignee : User \cup {None, Undefined}] :
          w.status # Undefined \/ w.assignee # Undefined}
  \cup {[op |-> o, status |-> Undefined, assignee |-> Undefined] :
         o \in {"removeTask", "restoreTask", "createProject", "archiveProject",
                "restoreProject", "removeProject"}}
  \cup {[op |-> o, status |-> Undefined, assignee |-> u] : o \in {"inviteMember"}, u \in User}

TaskOp == {"updateTask", "removeTask", "restoreTask"}

\* TASK_STATUS_TRANSITIONS, cut to the two statuses of the model.
TransitionOf == [TODO |-> "IN_PROGRESS", IN_PROGRESS |-> Undefined]

\* The task row after a write.
TaskAfter(t, w) ==
  CASE w.op = "createTask" -> [st |-> "live", status |-> "TODO", assignee |-> w.assignee]
    [] w.op = "updateTask" ->
         [t EXCEPT !.status = IF w.status = Undefined THEN @ ELSE w.status,
                   !.assignee = IF w.assignee = Undefined THEN @ ELSE w.assignee]
    [] w.op = "removeTask" -> [t EXCEPT !.st = "deleted"]
    [] w.op = "restoreTask" -> [t EXCEPT !.st = "live"]
    [] w.op = "removeProject" -> [st |-> "gone", status |-> "TODO", assignee |-> None]
    [] OTHER -> t

Dashboards(a) == IF a \in User THEN <<DashboardKey(a)>> ELSE <<>>

\* A plausible slip: the last key is that of the assignee that was read.
AfterUpdateOfRead(w, read, updated) ==
  (IF w.assignee \in User /\ w.assignee # read.assignee
     THEN Dashboards(w.assignee) \o Dashboards(read.assignee) ELSE <<>>)
  \o (IF w.status \notin {Undefined, read.status}
        THEN <<StatsKey>> \o Dashboards(read.assignee) ELSE <<>>)

\* update: the keys of a new assignee and of the one read, then, for a new
\* status, the statistics and the key of the assignee written.
AfterUpdate(w, read, updated) ==
  (IF w.assignee \in User /\ w.assignee # read.assignee
     THEN Dashboards(w.assignee) \o Dashboards(read.assignee) ELSE <<>>)
  \o (IF w.status \notin {Undefined, read.status}
        THEN <<StatsKey>> \o Dashboards(updated.assignee) ELSE <<>>)

\* The keys a write deletes, in order.
Forgets(w, read, updated) ==
  CASE w.op = "createTask" -> Dashboards(w.assignee) \o <<StatsKey>>
    [] w.op = "updateTask" -> AfterUpdate(w, read, updated)
    [] w.op \in {"removeTask", "restoreTask"} -> <<StatsKey>> \o Dashboards(read.assignee)
    [] w.op = "inviteMember" -> <<>>
    [] OTHER -> <<StatsKey>>

-----------------------------------------------------------------------------
(* Requests *)

NoTask == [st |-> "none", status |-> "TODO", assignee |-> None]
NoWrite == [op |-> "none", status |-> Undefined, assignee |-> Undefined]

\* A reader holds the parts of its answer that a write has overtaken; a
\* writer the task as it read it, then the keys it is to delete.
Free == [pc |-> "free", key |-> None, old |-> {},
         write |-> NoWrite, read |-> NoTask, todo |-> <<>>]

Done == [Free EXCEPT !.pc = "done"]

\* A writer that has these keys left to delete.
Deleting(todo) ==
  IF todo = <<>> THEN Done ELSE [Free EXCEPT !.pc = "del", !.todo = todo]

\* getStats, behind its membership check, or getDashboard: cache.get misses, or
\* fails and is treated as a miss, and the queries are answered.  (Of the
\* queries of Promise.all the latest are only fresher.)  A hit changes nothing.
Query(r, k) ==
  /\ req[r] = Free
  /\ req' = [req EXCEPT ![r] = [Free EXCEPT !.pc = "set", !.key = k]]
  /\ UNCHANGED <<task, member, open, cache, cause>>

\* cache.set: whatever has been deleted or written meanwhile.
Set(r) ==
  /\ req[r].pc = "set"
  /\ LET k == req[r].key IN
       /\ cache' = [cache EXCEPT ![k] = req[r].old]
       /\ cause' = [cause EXCEPT ![k] = IF req[r].old = {} THEN {} ELSE {"overtaken"}]
  /\ req' = [req EXCEPT ![r] = Done]
  /\ UNCHANGED <<task, member, open>>

\* update, remove and restore read the task first.  A status an update names
\* is checked against the one read, unless it is the same.
ReadTask(r, w) ==
  /\ req[r] = Free
  /\ w.op \in TaskOp
  /\ task.st = "live" \/ (w.op = "restoreTask" /\ Exists(task))
  /\ w.status \in {Undefined, task.status, TransitionOf[task.status]}
  /\ req' = [req EXCEPT ![r] = [Free EXCEPT !.pc = "write", !.write = w, !.read = task]]
  /\ UNCHANGED <<task, member, open, cache, cause>>

\* Parts of the entry of key k that a write changes.
Changed(k) ==
  LET was == View(k, task, member, open)
      is == View(k, task', member', open')
  IN  {p \in Part[k] : was[p] # is[p]}

\* The writes that leave key k alone although they may change what it shows:
\* an invitation; for dashboards, the comings and goings of projects; taking
\* the task from its assignee with null; giving it to someone, when it was
\* read with another assignee than it has; and naming the status it was read
\* with, when it has moved on: that sets it back and looks like no change.
Silent(w, read, k) ==
  \/ w.op = "inviteMember"
  \/ k # StatsKey /\ w.op \in {"createProject", "archiveProject", "restoreProject", "removeProject"}
  \/ /\ k # StatsKey /\ w.op = "updateTask"
     /\ \/ w.assignee = None /\ task.assignee = k[2]
        \/ /\ w.assignee \in User /\ read.assignee # task.assignee
           /\ k[2] \in {w.assignee, task.assignee}
  \/ w.op = "updateTask" /\ w.status = read.status /\ task.status # read.status

\* A write: entries and answers still on their way to the cache fall behind.
Apply(r, w, read) ==
  /\ w.assignee \in User /\ w.op # "inviteMember" => w.assignee \in member
  /\ task' = TaskAfter(task, w)
  /\ member' = IF w.op = "inviteMember" THEN member \cup {w.assignee} ELSE member
  /\ open' = CASE w.op \in {"createProject", "restoreProject"} -> open + 1
               [] w.op \in {"archiveProject", "removeProject"} -> open - 1
               [] OTHER -> open
  /\ cache' = [k \in Key |-> IF cache[k] = None THEN None ELSE cache[k] \cup Changed(k)]
  /\ cause' = [k \in Key |->
       IF cache[k] # None /\ Changed(k) # {} /\ Silent(w, read, k)
         THEN cause[k] \cup {"silent"} ELSE cause[k]]
  /\ req' = [q \in Request |->
       IF q = r THEN Deleting(Forgets(w, read, task'))
       ELSE IF req[q].pc = "set" THEN [req[q] EXCEPT !.old = @ \cup Changed(req[q].key)]
       ELSE req[q]]

\* The writes of the task operations, however the task has changed since.
WriteTask(r) ==
  /\ req[r].pc = "write"
  /\ Exists(task)
  /\ Apply(r, req[r].write, req[r].read)

\* The other writes read nothing they would use.
WriteOther(r, w) ==
  /\ req[r] = Free
  /\ w.op \notin TaskOp
  /\ w.op = "createTask" => task.st = "none"
  /\ w.op \in {"archiveProject", "removeProject"} => open > 0
  /\ w.op = "removeProject" => task.st # "gone"
  /\ Apply(r, w, NoTask)

Deleted(r) == req' = [req EXCEPT ![r] = Deleting(Tail(@.todo))]

\* cache.del.
Del(r) ==
  /\ req[r].pc = "del"
  /\ LET k == Head(req[r].todo) IN
       /\ cache' = [cache EXCEPT ![k] = None]
       /\ cause' = [cause EXCEPT ![k] = {}]
  /\ Deleted(r)
  /\ UNCHANGED <<task, member, open>>

\* cache.del swallows the error of a Redis that is away.
DelFails(r) ==
  /\ req[r].pc = "del"
  /\ cause' = [cause EXCEPT ![Head(req[r].todo)] = @ \cup {"failed"}]
  /\ Deleted(r)
  /\ UNCHANGED <<task, member, open, cache>>

\* A refusal, a database error, or the end of the process.  (A cache.set that
\* fails ends the reader in the same way.)
Fail(r) ==
  /\ req[r].pc \notin {"free", "done"}
  /\ cause' = [k \in Key |->
       IF \E i \in DOMAIN req[r].todo : req[r].todo[i] = k THEN cause[k] \cup {"failed"} ELSE cause[k]]
  /\ req' = [req EXCEPT ![r] = Done]
  /\ UNCHANGED <<task, member, open, cache>>

\* The TTL of an entry runs out.
Expire(k) ==
  /\ cache[k] # None
  /\ cache' = [cache EXCEPT ![k] = None]
  /\ cause' = [cause EXCEPT ![k] = {}]
  /\ UNCHANGED <<task, member, open, req>>

-----------------------------------------------------------------------------
\* A workspace with its members and one project, which has a task or not;
\* nothing is cached, or all of it, fresh.
Init ==
  /\ member \in (SUBSET User) \ {{}}
  /\ task \in {NoTask} \cup
       {[st |-> "live", status |-> "TODO", assignee |-> a] : a \in member \cup {None}}
  /\ open = 1
  /\ \E entry \in {None, {}} : cache = [k \in Key |-> entry]
  /\ req = [r \in Request |-> Free]
  /\ cause = [k \in Key |-> {}]

Step(r) ==
  \/ \E k \in Key : Query(r, k)
  \/ Set(r)
  \/ \E w \in Input : ReadTask(r, w) \/ WriteOther(r, w)
  \/ WriteTask(r) \/ Del(r) \/ DelFails(r) \/ Fail(r)

Next == (\E r \in Request : Step(r)) \/ (\E k \in Key : Expire(k))

Spec == Init /\ [][Next]_vars

-----------------------------------------------------------------------------
(* Properties *)

\* A request is about to delete the key.
Owed(k) ==
  \E r \in Request : \E i \in DOMAIN req[r].todo : req[r].todo[i] = k

\* An entry says what the database says, or its deletion is on the way, or it
\* was stored by a read the change overtook, or Redis or the process failed
\* before the deletion, or the change was one of those no code answers with a
\* deletion.  In particular the statistics follow every change of projects, every
\* coming and going of tasks and every step of one forward, whatever the races
\* of the writers.
StaleIsExcused ==
  \A k \in Key : cache[k] \in {None, {}} \/ Owed(k) \/ cause[k] # {}

=============================================================================
