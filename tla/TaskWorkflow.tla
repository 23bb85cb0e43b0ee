---------------------------- MODULE TaskWorkflow ----------------------------
(***************************************************************************)
(* The tasks of one workspace: tasks.service.ts behind tasks.controller.ts, *)
(* with the workspace roles it consults and the removal of the project     *)
(* above it.  A request reads the task, then the caller's membership, then *)
(* the assignee's, then writes, and then works off a list of follow-ups:   *)
(* events it emits and cache keys it deletes, one after the other.  Other  *)
(* requests run at every await.  A request the code refuses changes        *)
(* nothing: its refusal is Fail.  What the cache keys stand for is the     *)
(* matter of TaskCaches.                                                   *)
(***************************************************************************)
EXTENDS Integers, Sequences

CONSTANTS
  User,       \* users
  TaskId,     \* uuids of Task rows
  Request,    \* request slots: how many HTTP requests can be in flight
  None,       \* SQL null
  Granted,    \* bound: the roles invitations hand out
  Input       \* bound: the update DTOs clients send

VARIABLES
  role,     \* WorkspaceMember rows: the role, or None without a row
  task,     \* the Task rows
  req,      \* the requests in flight
  reached,  \* history: the highest status a task has been stored with
  emitted,  \* history: the events emitted for the task
  lost      \* history: the events a request died owing, not emitted since

vars == <<role, task, req, reached, emitted, lost>>

-----------------------------------------------------------------------------
(* Roles and statuses *)

\* ROLE_HIERARCHY, with no membership below every role.
ROLE_HIERARCHY ==
  [r \in {"VIEWER", "MEMBER", "ADMIN", "OWNER"} |->
    CASE r = "VIEWER" -> 0 [] r = "MEMBER" -> 1 [] r = "ADMIN" -> 2 [] OTHER -> 3]

Role == DOMAIN ROLE_HIERARCHY

ASSUME NoneAssumption == None \notin User \cup TaskId \cup Role
ASSUME GrantedAssumption == Granted \subseteq Role

\* The status enum, in the order of the workflow.
Rank == [s \in {"TODO", "IN_PROGRESS", "REVIEW", "DONE"} |->
  CASE s = "TODO" -> 0 [] s = "IN_PROGRESS" -> 1 [] s = "REVIEW" -> 2 [] OTHER -> 3]

Status == DOMAIN Rank

\* A field the client left out of the DTO.
Undefined == "undefined"

\* UpdateTaskDto: a status, and an assignee that may be cleared with null.
Dto == [status : Status \cup {Undefined}, assignee : User \cup {None, Undefined}]

ASSUME InputAssumption == Input \subseteq Dto

\* A plausible slip: any later status is a move forward.
MayMoveAnywhereAhead(from, to) ==
  to \notin {Undefined, from} => Rank[from] < Rank[to]

\* update's check against TASK_STATUS_TRANSITIONS: the same status passes, and
\* of the others only the next.
MayMove(from, to) ==
  to \notin {Undefined, from} => Rank[to] = Rank[from] + 1

-----------------------------------------------------------------------------
(* Follow-ups of a write *)

Assigned(u) == <<"assigned", u>>        \* TASK_ASSIGNED_EVENT
Completed == <<"completed", None>>      \* TASK_COMPLETED_EVENT
DashboardKey(u) == <<"dashboard", u>>   \* common/cache-keys.ts
StatsKey == <<"stats", None>>

Event == {Assigned(u) : u \in User} \cup {Completed}
Key == {DashboardKey(u) : u \in User} \cup {StatsKey}

EventsIn(todo) == {todo[i] : i \in DOMAIN todo} \cap Event

\* A plausible slip: the key is built from null as well.
DashboardKeysOfNull(a) == <<DashboardKey(a)>>

DashboardKeys(a) == IF a = None THEN <<>> ELSE <<DashboardKey(a)>>

\* A plausible slip: an unchanged assignee is compared with the row written.
TellsUpdated(dto, read, updated) ==
  dto.assignee \in User /\ dto.assignee # updated.assignee

\* update's condition for TASK_ASSIGNED_EVENT, on the assignee READ.
Tells(dto, read, updated) ==
  dto.assignee \in User /\ dto.assignee # read.assignee

\* A plausible slip: compares the DTO with the row the update returned.
CompletesUpdated(dto, read, updated) == dto.status = "DONE" /\ updated.status # "DONE"

\* A plausible slip: the event goes out for REVIEW already.
CompletesInReview(dto, read, updated) ==
  Rank[updated.status] >= Rank["REVIEW"] /\ read.status # updated.status

\* update's condition for TASK_COMPLETED_EVENT, on the status READ.
Completes(dto, read, updated) == dto.status = "DONE" /\ read.status # "DONE"

\* What create has to do after its insert, in order.
AfterCreate(a) ==
  (IF a = None THEN <<>> ELSE <<Assigned(a), DashboardKey(a)>>) \o <<StatsKey>>

\* What update has to do after its write, in order.
AfterUpdate(dto, read, updated) ==
  (IF Tells(dto, read, updated)
     THEN <<Assigned(dto.assignee)>>
            \o DashboardKeys(dto.assignee) \o DashboardKeys(read.assignee)
     ELSE <<>>)
  \o (IF Completes(dto, read, updated) THEN <<Completed>> ELSE <<>>)
  \o (IF dto.status \notin {Undefined, read.status}
        THEN <<StatsKey>> \o DashboardKeys(updated.assignee)
        ELSE <<>>)

\* What remove and restore have to do after their write.
AfterSetDeleted(read) == <<StatsKey>> \o DashboardKeys(read.assignee)

-----------------------------------------------------------------------------
(* Requests *)

NoTask == [st |-> "none", status |-> "TODO", assignee |-> None]
NoDto == [status |-> Undefined, assignee |-> Undefined]

\* pc names the await a request is parked at: the membership lookup of its
\* caller, the one of the assignee, its write, or a follow-up.  read is the
\* task as it found it.  What a request will not look at again is dropped.
Idle == [pc |-> "idle", op |-> "none", task |-> None, dto |-> NoDto,
         read |-> NoTask, todo |-> <<>>]

HasRole(u, minimum) ==
  role[u] # None /\ ROLE_HIERARCHY[role[u]] >= ROLE_HIERARCHY[minimum]

MinRole(op) == IF op = "update" THEN "MEMBER" ELSE "ADMIN"

\* A plausible slip: the assignee is taken as it comes.
AnyAssignee(a) == TRUE

\* requireWorkspaceMember, for a DTO that names an assignee.
MayAssign(a) == a \in User => role[a] # None

\* A plausible slip: the lookup overlooks deletedAt.
FoundEvenDeleted(t) == task[t].st \in {"live", "deleted"}

\* requireTaskMembership: a soft-deleted task is not found.
Found(t) == task[t].st = "live"

\* The row after task.update: undefined fields stay as they are NOW.
Updated(row, dto) ==
  [row EXCEPT !.status = IF dto.status = Undefined THEN @ ELSE dto.status,
              !.assignee = IF dto.assignee = Undefined THEN @ ELSE dto.assignee]

\* A request for task t that has todo left to do.
Following(t, todo) ==
  IF todo = <<>> THEN Idle
  ELSE [Idle EXCEPT !.pc = "follow", !.todo = todo,
                    !.task = IF EventsIn(todo) = {} THEN None ELSE t]

-----------------------------------------------------------------------------
(* Actions *)

\* create: MEMBER or above, an assignee who is a member; the new row is TODO.
\* An invitation between its lookups and its insert commutes with it, and the
\* foreign key refuses the insert when the project is gone.
CreateTask(r, u, t, a) ==
  /\ req[r] = Idle
  /\ HasRole(u, "MEMBER")
  /\ MayAssign(a)
  /\ task[t].st = "none"
  /\ task' = [task EXCEPT ![t] =
       [st |-> "live", status |-> "TODO", assignee |-> a]]
  /\ req' = [req EXCEPT ![r] = Following(t, AfterCreate(a))]
  /\ UNCHANGED <<role, reached, emitted, lost>>

\* update reads the task.  The check of the transition comes after the lookups
\* but only looks at what is read here: a DTO it will refuse is left out.
UpdateRead(r, t, d) ==
  /\ req[r] = Idle
  /\ Found(t)
  /\ MayMove(task[t].status, d.status)
  /\ req' = [req EXCEPT ![r] =
       [Idle EXCEPT !.pc = "member", !.op = "update", !.task = t,
                    !.dto = d, !.read = task[t]]]
  /\ UNCHANGED <<role, task, reached, emitted, lost>>

\* remove and restore read the task; restore whether or not it is deleted.
RemoveRead(r, t) ==
  /\ req[r] = Idle
  /\ Found(t)
  /\ req' = [req EXCEPT ![r] =
       [Idle EXCEPT !.pc = "member", !.op = "remove", !.task = t,
                    !.read.assignee = task[t].assignee]]
  /\ UNCHANGED <<role, task, reached, emitted, lost>>

RestoreRead(r, t) ==
  /\ req[r] = Idle
  /\ task[t].st \in {"live", "deleted"}
  /\ req' = [req EXCEPT ![r] =
       [Idle EXCEPT !.pc = "member", !.op = "restore", !.task = t,
                    !.read.assignee = task[t].assignee]]
  /\ UNCHANGED <<role, task, reached, emitted, lost>>

\* The membership of the caller u, and assertMinRole on it.
CheckRole(r, u) ==
  /\ req[r].pc = "member"
  /\ HasRole(u, MinRole(req[r].op))
  /\ req' = [req EXCEPT ![r].pc =
       IF req[r].dto.assignee \in User THEN "assign" ELSE "write"]
  /\ UNCHANGED <<role, task, reached, emitted, lost>>

CheckAssignee(r) ==
  /\ req[r].pc = "assign"
  /\ MayAssign(req[r].dto.assignee)
  /\ req' = [req EXCEPT ![r].pc = "write"]
  /\ UNCHANGED <<role, task, reached, emitted, lost>>

\* task.update by id, whatever has become of the row since (it throws when the
\* row is gone: Fail).
UpdateWrite(r) ==
  /\ req[r].pc = "write" /\ req[r].op = "update"
  /\ LET t == req[r].task
         new == Updated(task[t], req[r].dto)
     IN /\ task[t].st # "gone"
        /\ task' = [task EXCEPT ![t] = new]
        /\ reached' = [reached EXCEPT ![t] =
             IF Rank[new.status] > @ THEN Rank[new.status] ELSE @]
        /\ req' = [req EXCEPT ![r] =
             Following(t, AfterUpdate(req[r].dto, req[r].read, new))]
  /\ UNCHANGED <<role, emitted, lost>>

\* The write of remove or restore: deletedAt is set or cleared.
SetDeleted(r) ==
  /\ req[r].pc = "write" /\ req[r].op \in {"remove", "restore"}
  /\ LET t == req[r].task IN
       /\ task[t].st # "gone"
       /\ task' = [task EXCEPT ![t].st =
            IF req[r].op = "remove" THEN "deleted" ELSE "live"]
       /\ req' = [req EXCEPT ![r] = Following(t, AfterSetDeleted(req[r].read))]
  /\ UNCHANGED <<role, reached, emitted, lost>>

\* eventEmitter.emit, where the handler has come to it.
Announce(r) ==
  /\ req[r].pc = "follow"
  /\ LET todo == req[r].todo IN
       /\ Head(todo) \in Event
       /\ emitted' = [emitted EXCEPT ![req[r].task] = @ \cup {Head(todo)}]
       /\ lost' = [lost EXCEPT ![req[r].task] = @ \ {Head(todo)}]
       /\ req' = [req EXCEPT ![r] = Following(req[r].task, Tail(todo))]
  /\ UNCHANGED <<role, task, reached>>

\* cache.del never throws; the handler returns after the last follow-up.
Invalidate(r) ==
  /\ req[r].pc = "follow"
  /\ Head(req[r].todo) \in Key
  /\ req' = [req EXCEPT ![r] = Following(req[r].task, Tail(req[r].todo))]
  /\ UNCHANGED <<role, task, reached, emitted, lost>>

\* A check refuses, a database error rejects the promise the request waits
\* for, or the process dies: what is written stays, what was to follow does
\* not happen.
Fail(r) ==
  /\ req[r] # Idle
  /\ lost' = [t \in TaskId |->
       IF req[r].task = t
         THEN lost[t] \cup (EventsIn(req[r].todo) \ emitted[t]) ELSE lost[t]]
  /\ req' = [req EXCEPT ![r] = Idle]
  /\ UNCHANGED <<role, task, reached, emitted>>

\* workspaces.service inviteMember: an upsert that adds a member or changes a
\* role; there is no way out of a workspace.
Invite(u, ro) ==
  /\ role' = [role EXCEPT ![u] = ro]
  /\ UNCHANGED <<task, req, reached, emitted, lost>>

\* projects.service remove: the foreign keys cascade to the tasks.
RemoveProject ==
  /\ \E t \in TaskId : task[t].st \in {"live", "deleted"}
  /\ task' = [t \in TaskId |->
       IF task[t].st = "none" THEN task[t] ELSE [NoTask EXCEPT !.st = "gone"]]
  /\ UNCHANGED <<role, req, reached, emitted, lost>>

-----------------------------------------------------------------------------
\* The creator of the workspace is its OWNER.
Init ==
  /\ \E owner \in User :
       role = [u \in User |-> IF u = owner THEN "OWNER" ELSE None]
  /\ task = [t \in TaskId |-> NoTask]
  /\ req = [r \in Request |-> Idle]
  /\ reached = [t \in TaskId |-> 0]
  /\ emitted = [t \in TaskId |-> {}]
  /\ lost = [t \in TaskId |-> {}]

Step(r) ==
  \/ \E u \in User, t \in TaskId, a \in User \cup {None} : CreateTask(r, u, t, a)
  \/ \E t \in TaskId : \/ \E d \in Input : UpdateRead(r, t, d)
                       \/ RemoveRead(r, t)
                       \/ RestoreRead(r, t)
  \/ \E u \in User : CheckRole(r, u)
  \/ CheckAssignee(r)
  \/ UpdateWrite(r)
  \/ SetDeleted(r)
  \/ Announce(r)
  \/ Invalidate(r)
  \/ Fail(r)

Next ==
  \/ \E r \in Request : Step(r)
  \/ \E u \in User, ro \in Granted : Invite(u, ro)
  \/ RemoveProject

Spec == Init /\ [][Next]_vars

-----------------------------------------------------------------------------
(* Properties *)

TaskRow ==
  [st : {"none", "live", "deleted", "gone"}, status : Status,
   assignee : User \cup {None}]

RequestRecord ==
  [pc : {"idle", "member", "assign", "write", "follow"},
   op : {"none", "update", "remove", "restore"},
   task : TaskId \cup {None}, dto : Dto,
   read : TaskRow, todo : Seq(Event \cup Key)]

\* Rows, closures and history have their shapes; no key is built from null.
TypeOK ==
  /\ role \in [User -> Role \cup {None}]
  /\ task \in [TaskId -> TaskRow]
  /\ req \in [Request -> RequestRecord]
  /\ reached \in [TaskId -> 0 .. 3]
  /\ emitted \in [TaskId -> SUBSET Event]
  /\ lost \in [TaskId -> SUBSET Event]

\* The event has been emitted for the task, a request is about to emit it, or
\* one died between its write and the emit.
Owed(t, event) ==
  \/ event \in emitted[t] \cup lost[t]
  \/ \E r \in Request : req[r].task = t /\ event \in EventsIn(req[r].todo)

\* No status is skipped: although every update checks the transition against a
\* status that may be stale when it writes, the highest status a task has been
\* stored with grows one step at a time (tasks.service.ts update).
NoStatusSkipped ==
  [][\A t \in TaskId : reached'[t] <= reached[t] + 1]_vars

\* Of the updates that race to store DONE at least one announces it, although
\* each looks only at the status it read (tasks.service.ts update).
DoneIsAnnounced ==
  \A t \in TaskId : reached[t] = Rank["DONE"] => Owed(t, Completed)

\* TaskCompleted is never emitted for a task that was never DONE.
OnlyDoneIsAnnounced ==
  \A t \in TaskId : Completed \in emitted[t] => reached[t] = Rank["DONE"]

\* Whoever is assigned to a task has been told of it, although an update that
\* read the same assignee emits nothing, whatever was written in between
\* (tasks.service.ts create, update).
AssigneeIsTold ==
  \A t \in TaskId :
    task[t].assignee # None => Owed(t, Assigned(task[t].assignee))

\* The assignee of a task is a member of its workspace, whoever is invited,
\* demoted or assigned meanwhile (requireWorkspaceMember).
AssigneeIsMember ==
  \A t \in TaskId : task[t].assignee # None => role[task[t].assignee] # None

\* A soft-deleted task that no update which found it alive is still holding.
Frozen(t) ==
  /\ task[t].st = "deleted"
  /\ \A r \in Request : ~(req[r].op = "update" /\ req[r].task = t)

\* Such a task keeps its content, and no update gets hold of it, until it is
\* restored as it was or its project goes (requireTaskMembership, restore).
FrozenUntilRestored ==
  [][\A t \in TaskId : Frozen(t) =>
       \/ task'[t].st = "gone"
       \/ /\ task'[t].status = task[t].status
          /\ task'[t].assignee = task[t].assignee
          /\ task'[t].st = "live" \/ Frozen(t)']_vars

(* A claim of the API documentation that the interleavings refute *)

\* tasks.controller.ts: "Status changes must follow TODO -> IN_PROGRESS ->
\* REVIEW -> DONE; illegal transitions are rejected."  Two updates read
\* IN_PROGRESS; one stores REVIEW and another request DONE before the second
\* stores REVIEW.
StatusNeverMovesBack ==
  [][\A t \in TaskId :
       task'[t].st # "gone" => Rank[task[t].status] <= Rank[task'[t].status]]_vars

=============================================================================
