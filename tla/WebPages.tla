------------------------------ MODULE WebPages ------------------------------
(***************************************************************************)
(* The pages of the web client on organizations, workspaces, projects and  *)
(* tasks, in one tab.  A page loads its rows with a Promise.all of GETs,   *)
(* offers buttons by the role and the rows it shows, names what it shows   *)
(* in a dialog, calls the API for the ids of its URL, and loads again.     *)
(* Nothing cancels a load, and a page whose URL changes to another row of  *)
(* the same kind keeps its state.  Others change the rows meanwhile.  The  *)
(* server answers each call in one step here; Tenancy and TaskWorkflow     *)
(* have its awaits.                                                        *)
(***************************************************************************)
EXTENDS Routes, FiniteSets, Functions

CONSTANTS
  Org, Workspace, Project, Task,
  Up,         \* the row each row is in
  None,       \* null, undefined
  Roles,      \* bound: the roles of the user that behaviours start with
  Statuses,   \* bound: the statuses of tasks that behaviours start with
  Begin,      \* bound: the pages that behaviours start on
  Granted,    \* bound: the roles others give the user
  MaxOthers,  \* bound: changes others make
  MaxEvents   \* bound: calls the user makes, navigations and those changes

Tenant == Org \cup Workspace
Row == Tenant \cup Project \cup Task
List == {"organizations", "workspaces", "dashboard"}
Address == Tenant \cup Project \cup List

ASSUME UpAssumption ==
  /\ \A w \in Workspace : Up[w] \in Org
  /\ \A p \in Project : Up[p] \in Workspace
  /\ \A k \in Task : Up[k] \in Project

ASSUME IdsAssumption ==
  /\ Org \cap (Workspace \cup Project \cup Task \cup List) = {}
  /\ Workspace \cap (Project \cup Task \cup List) = {}
  /\ Project \cap (Task \cup List) = {}
  /\ Task \cap List = {}

VARIABLES
  past,    \* the states of the rows and of the user's roles, the last one now
  page,    \* the page the tab shows
  loads,   \* the loads of that page under way
  sent,    \* how many loads have been sent
  calls,   \* the mutations under way
  others,  \* how many changes others have made
  events   \* how many calls, navigations and such changes there were

vars == <<past, page, loads, sent, calls, others, events>>

Now == past[Len(past)]

-----------------------------------------------------------------------------
(* The server *)

TASK_STATUS_TRANSITIONS ==
  [s \in {"TODO", "IN_PROGRESS", "REVIEW", "DONE"} |->
    CASE s = "TODO" -> "IN_PROGRESS" [] s = "IN_PROGRESS" -> "REVIEW"
      [] s = "REVIEW" -> "DONE" [] OTHER -> None]

Status == DOMAIN TASK_STATUS_TRANSITIONS

ASSUME BoundsAssumption ==
  Roles \subseteq Role /\ Granted \subseteq Role /\ Statuses \subseteq Status /\ Begin \subseteq Address

TenantOf(n) ==
  CASE n \in Tenant -> n [] n \in Project -> Up[n] [] n \in Task -> Up[Up[n]] [] OTHER -> None

\* onDelete: Cascade.
Below(n) ==
  {m \in Row : m = n \/ (m \notin Org /\ (Up[m] = n
      \/ (m \notin Workspace /\ (Up[Up[m]] = n \/ (m \in Task /\ Up[Up[Up[m]]] = n)))))}

Removed(s, n) ==
  [mark |-> [m \in Row |-> IF m \in Below(n) THEN "gone" ELSE s.mark[m]],
   role |-> [t \in Tenant |-> IF t \in Below(n) THEN None ELSE s.role[t]]]

Ranks(role, min) == role # None /\ ROLE_HIERARCHY[role] >= ROLE_HIERARCHY[min]

\* A GET finds the row, and the user a member.
Readable(s, a, part) ==
  a \notin List =>
    /\ s.role[TenantOf(a)] # None
    /\ part # "tenant" => s.mark[a] # "gone"

-----------------------------------------------------------------------------
(* The pages *)

\* tasks.controller, as far as the pages call it.
TasksController ==
  [create |-> Guarded("MEMBER", "result"),
   update |-> Guarded("MEMBER", "row"),
   remove |-> Guarded("ADMIN", "row")]

\* A button: the route it calls, the role and the marks of the row shown it
\* asks for, and whether the page then loads again or is left.
Button(route, gate, marks, then) ==
  [min |-> route.min, gate |-> gate, marks |-> marks, then |-> then]

AnyMark == {"plain", "archived"}

OrganizationsPage ==
  [create |-> Button(OrganizationsController.create, None, AnyMark, "load")]

\* Every organization of the user is on offer, whatever the role in it.
WorkspacesPage ==
  [create |-> Button(WorkspacesController.create, None, AnyMark, "load")]

OrganizationDetailPage ==
  [inviteMember |-> Button(OrganizationsController.inviteMember, "ADMIN", AnyMark, "load"),
   archive |-> Button(OrganizationsController.archive, "OWNER", {"plain"}, "load"),
   remove |-> Button(OrganizationsController.remove, "OWNER", {"plain"}, "leave")]

WorkspaceDetailPage ==
  [inviteMember |-> Button(WorkspacesController.inviteMember, "ADMIN", AnyMark, "load"),
   createProject |-> Button(ProjectsController.create, "ADMIN", AnyMark, "load"),
   archive |-> Button(WorkspacesController.archive, "OWNER", {"plain"}, "load"),
   remove |-> Button(WorkspacesController.remove, "OWNER", {"plain"}, "leave")]

ProjectButtons(deleteGate) ==
  [archive |-> Button(ProjectsController.archive, "ADMIN", {"plain"}, "load"),
   restore |-> Button(ProjectsController.restore, "ADMIN", {"archived"}, "load"),
   remove |-> Button(ProjectsController.remove, deleteGate, AnyMark, "leave"),
   createTask |-> Button(TasksController.create, "MEMBER", AnyMark, "load"),
   advanceTask |-> Button(TasksController.update, "MEMBER", AnyMark, "load"),
   editTask |-> Button(TasksController.update, "MEMBER", AnyMark, "load"),
   removeTask |-> Button(TasksController.remove, "ADMIN", AnyMark, "load")]

\* A plausible slip: whoever may manage a project is offered to delete it.
ProjectDetailPageManaged == ProjectButtons("ADMIN")

ProjectDetailPage == ProjectButtons("OWNER")

DashboardPage == [op \in {} |-> None]

Buttons(a) ==
  CASE a \in Org -> OrganizationDetailPage [] a \in Workspace -> WorkspaceDetailPage
    [] a \in Project -> ProjectDetailPage [] a = "organizations" -> OrganizationsPage
    [] a = "workspaces" -> WorkspacesPage [] OTHER -> DashboardPage

\* The GETs of a page's load.  The lists of the pages without buttons on a row
\* count as one; the statistics may come from the cache (TaskCaches).
Gets(a) ==
  CASE a \in Workspace -> {"self", "children"}
    [] a \in Project -> {"tenant", "self", "children"} [] OTHER -> {"self"}

\* The pages one component of the router serves.
Component(a) ==
  CASE a \in Org -> Org [] a \in Workspace -> Workspace [] a \in Project -> Project
    [] OTHER -> {a}

TaskButton == {"advanceTask", "editTask", "removeTask"}

\* restore and Move to call at once, the others from a dialog.
Dialog(op) == op \notin {"restore", "advanceTask"}

Closed == [op |-> None, on |-> None, saw |-> None]

NewLoad(a, no) == [no |-> no, at |-> a, from |-> Len(past)]

\* A component as it mounts: load is the one its effect has sent; seen, failed
\* and mine (history) are the loads answered and the last change made here.
Mounted(a, no) ==
  [at |-> a, load |-> no, shown |-> None, dialog |-> Closed,
   seen |-> {}, failed |-> {}, mine |-> [time |-> 0, load |-> 0]]

\* A plausible slip: the effect of the project page depends on workspaceId only.
DepsOfWorkspace(a) == IF a \in Project THEN Up[a] ELSE a

\* The dependencies of the effect that loads.
Deps(a) == a

\* The URL becomes that of a: another component mounts, or the one mounted
\* keeps its state and its effect runs if what it depends on has changed.
\* The loads and the dialogs of a component that unmounts have no effect.
Navigate(a) ==
  IF a = page.at THEN UNCHANGED <<page, loads, sent>>
  ELSE IF a \notin Component(page.at) THEN
    /\ page' = Mounted(a, sent + 1)
    /\ loads' = {NewLoad(a, sent + 1)}
    /\ sent' = sent + 1
  ELSE IF Deps(a) # Deps(page.at) THEN
    /\ page' = [page EXCEPT !.at = a, !.load = sent + 1, !.mine = [time |-> 0, load |-> 0]]
    /\ loads' = loads \cup {NewLoad(a, sent + 1)}
    /\ sent' = sent + 1
  ELSE
    /\ page' = [page EXCEPT !.at = a, !.load = sent, !.mine = [time |-> 0, load |-> 0]]
    /\ UNCHANGED <<loads, sent>>

Unmount(cs, a) ==
  IF a \in Component(page.at) THEN cs ELSE {[c EXCEPT !.mounted = FALSE] : c \in cs}

\* A link, the sidebar, or the history of the browser.
Visit(a) ==
  /\ a # page.at
  /\ events < MaxEvents
  /\ events' = events + 1
  /\ Navigate(a)
  /\ calls' = Unmount(calls, a)
  /\ UNCHANGED <<past, others>>

-----------------------------------------------------------------------------
(* Loads *)

\* The loads whose fate the page keeps: its effect's, its last change's.
Kept(l) == {l.no} \cap {page.load, page.mine.load}

\* The GET whose answer has the members.
Members(a) == IF a \in Project THEN "tenant" ELSE "self"

\* What the answers say that were read at the times asof: the user's role among
\* the members, the mark of the row, its tasks; since is the oldest of them.
Contents(l, asof) ==
  [of |-> l.at, no |-> l.no,
   role |-> IF l.at \in List THEN None ELSE past[asof[Members(l.at)]].role[TenantOf(l.at)],
   mark |-> IF l.at \in List THEN None ELSE past[asof["self"]].mark[l.at],
   tasks |-> [k \in {m \in Task : Up[m] = l.at} |-> past[asof["children"]].mark[k]],
   since |-> CHOOSE t \in Range(asof) : \A u \in Range(asof) : t <= u]

\* The last answer of the Promise.all arrives.  The server has answered each
\* GET at some time since it was sent.
Loaded(l) ==
  /\ \E asof \in [Gets(l.at) -> l.from .. Len(past)] :
       /\ \A part \in Gets(l.at) : Readable(past[asof[part]], l.at, part)
       /\ page' = [page EXCEPT !.shown = Contents(l, asof), !.seen = @ \cup Kept(l)]
  /\ loads' = loads \ {l}
  /\ UNCHANGED <<past, sent, calls, others, events>>

\* One of them rejects: a toast, and the page stays as it is.
LoadFails(l) ==
  /\ loads' = loads \ {l}
  /\ page' = [page EXCEPT !.failed = @ \cup Kept(l)]
  /\ UNCHANGED <<past, sent, calls, others, events>>

-----------------------------------------------------------------------------
(* Buttons *)

\* hasMinRole on the role among the members shown, the marks shown, and for
\* the buttons of a task that it is listed with a status they go with.
Offered(op, k) ==
  LET sh == page.shown
      b == Buttons(page.at)[op]
  IN /\ b.gate # None => Ranks(sh.role, b.gate) /\ sh.mark \in b.marks
     /\ op \in TaskButton =>
          /\ k \in DOMAIN sh.tasks /\ sh.tasks[k] \in Status
          /\ op = "advanceTask" => TASK_STATUS_TRANSITIONS[sh.tasks[k]] # None

\* What the page shows a button and its call rest on (history).
Sight(k) ==
  [of |-> page.shown.of, role |-> page.shown.role,
   mark |-> IF k = None THEN page.shown.mark ELSE page.shown.tasks[k]]

\* The call a button or its dialog makes: the ids of the URL, but a dialog on
\* a task has the task's own projectId.
Call(op, k, saw) ==
  [no |-> events, op |-> op, at |-> page.at,
   on |-> IF op \in TaskButton THEN k ELSE page.at,
   within |-> IF op \in TaskButton /\ Dialog(op) THEN Up[k] ELSE page.at,
   want |-> IF op = "advanceTask" THEN TASK_STATUS_TRANSITIONS[saw.mark] ELSE None,
   mounted |-> TRUE, st |-> "sent", when |-> 0, saw |-> saw, found |-> None]

Send(call) ==
  /\ events < MaxEvents
  /\ events' = events + 1
  /\ calls' = calls \cup {call}

\* A dialog covers the buttons.
Press(op, k) ==
  /\ page.shown # None /\ page.dialog = Closed
  /\ op \in DOMAIN Buttons(page.at) /\ (k # None <=> op \in TaskButton)
  /\ Offered(op, k)
  /\ IF Dialog(op)
       THEN /\ page' = [page EXCEPT !.dialog = [op |-> op, on |-> k, saw |-> Sight(k)]]
            /\ UNCHANGED <<calls, events>>
       ELSE Send(Call(op, k, Sight(k))) /\ UNCHANGED page
  /\ UNCHANGED <<past, loads, sent, others>>

\* Escape, or a click beside it, while a call may be under way.
Close ==
  /\ page.dialog # Closed
  /\ page' = [page EXCEPT !.dialog = Closed]
  /\ UNCHANGED <<past, loads, sent, calls, others, events>>

\* A dialog stays open across loads and asks for no role again; its button is
\* disabled while its last call is under way.
Confirm ==
  /\ page.dialog # Closed
  /\ LET d == page.dialog IN
       /\ \A c \in calls : c.op = d.op => ~c.mounted
       /\ Send(Call(d.op, d.on, d.saw))
  /\ UNCHANGED <<past, page, loads, sent, others>>

-----------------------------------------------------------------------------
(* Calls *)

Allowed(c) ==
  LET t == IF c.on \in List THEN None ELSE TenantOf(c.on) IN
    /\ t # None => Ranks(Now.role[t], Buttons(c.at)[c.op].min)
    /\ c.on \in Row => Now.mark[c.on] # "gone"
    /\ c.on \in Task => c.within = Up[c.on]
    /\ c.op = "advanceTask" =>
         c.want \in {Now.mark[c.on], TASK_STATUS_TRANSITIONS[Now.mark[c.on]]}

\* What a call makes of the rows; an edit, a new row and an invitation are
\* not told apart from what was there.
Effect(c) ==
  CASE c.op = "archive" -> [Now EXCEPT !.mark[c.on] = "archived"]
    [] c.op = "restore" -> [Now EXCEPT !.mark[c.on] = "plain"]
    [] c.op = "advanceTask" -> [Now EXCEPT !.mark[c.on] = c.want]
    [] c.op \in {"remove", "removeTask"} -> Removed(Now, c.on)
    [] OTHER -> Now

Replaced(c, d) == calls' = (calls \ {c}) \cup {d}

Serve(c) ==
  /\ c.st = "sent"
  /\ Allowed(c)
  /\ past' = Append(past, Effect(c))
  /\ Replaced(c, [c EXCEPT !.st = "ok", !.when = Len(past) + 1])
  /\ UNCHANGED <<page, loads, sent, others, events>>

\* The role and the mark the server refuses the call with (history).
Found(c) ==
  IF c.on \in List THEN None ELSE [role |-> Now.role[TenantOf(c.on)], mark |-> Now.mark[c.on]]

Refuse(c) ==
  /\ c.st = "sent"
  /\ ~Allowed(c)
  /\ Replaced(c, [c EXCEPT !.st = "refused", !.found = Found(c)])
  /\ UNCHANGED <<past, page, loads, sent, others, events>>

\* The call or its answer is lost, or it fails on something no page shows: a
\* slug that is taken, an e-mail address nobody has.
Lose(c) ==
  /\ c.st \in {"sent", "ok"}
  /\ Replaced(c, [c EXCEPT !.st = "lost"])
  /\ UNCHANGED <<past, page, loads, sent, others, events>>

\* A plausible slip: the page does not load again.
ReloadNothing(c) == {}

\* load() as the handler captured it: for the URL of the click.
Reload(c) == {NewLoad(c.at, sent + 1)}

\* Where the page of a removed row goes.
Parent(n) ==
  CASE n \in Org -> "organizations" [] n \in Workspace -> "workspaces" [] OTHER -> Up[n]

\* The answer arrives: a toast if it failed; else the dialog is closed, and
\* the page loads again or navigates, wherever the user is by now.
Answer(c) ==
  /\ c.st # "sent"
  /\ LET then == Buttons(c.at)[c.op].then
         dialog == IF page.dialog.op = c.op THEN Closed ELSE page.dialog
     IN CASE c.st = "ok" /\ then = "leave" ->
               /\ Navigate(Parent(c.on))
               /\ calls' = Unmount(calls \ {c}, Parent(c.on))
          [] c.st = "ok" /\ then = "load" /\ c.mounted ->
               /\ page' = [page EXCEPT !.dialog = dialog,
                    !.mine = IF c.at = page.at THEN [time |-> c.when, load |-> sent + 1] ELSE @]
               /\ loads' = loads \cup Reload(c)
               /\ sent' = sent + 1
               /\ calls' = calls \ {c}
          [] OTHER ->
               /\ calls' = calls \ {c}
               /\ UNCHANGED <<page, loads, sent>>
  /\ UNCHANGED <<past, others, events>>

-----------------------------------------------------------------------------
(* Others *)

Others ==
  /\ others < MaxOthers /\ events < MaxEvents
  /\ others' = others + 1
  /\ events' = events + 1
  /\ \/ \E t \in Tenant, ro \in Granted :
          /\ Now.mark[t] # "gone" /\ Now.role[t] # ro
          /\ past' = Append(past, [Now EXCEPT !.role[t] = ro])
     \/ \E n \in Tenant \cup Project, m \in AnyMark :
          /\ Now.mark[n] \in AnyMark \ {m} /\ (m = "plain" => n \in Project)
          /\ past' = Append(past, [Now EXCEPT !.mark[n] = m])
     \/ \E n \in Row :
          /\ Now.mark[n] # "gone"
          /\ past' = Append(past, Removed(Now, n))
     \/ \E k \in Task :
          /\ Now.mark[k] \in Status /\ TASK_STATUS_TRANSITIONS[Now.mark[k]] # None
          /\ past' = Append(past, [Now EXCEPT !.mark[k] = TASK_STATUS_TRANSITIONS[@]])
  /\ UNCHANGED <<page, loads, sent, calls>>

-----------------------------------------------------------------------------
Init ==
  /\ \E ro \in Roles, s \in Statuses :
       past = <<[mark |-> [n \in Row |-> IF n \in Task THEN s ELSE "plain"],
                 role |-> [t \in Tenant |-> ro]]>>
  /\ \E a \in Begin : page = Mounted(a, 1) /\ loads = {NewLoad(a, 1)}
  /\ sent = 1
  /\ calls = {}
  /\ others = 0
  /\ events = 0

Next ==
  \/ \E a \in Address : Visit(a)
  \/ \E l \in loads : Loaded(l) \/ LoadFails(l)
  \/ \E k \in Task \cup {None} :
       \E op \in DOMAIN Buttons(page.at) : Press(op, k)
  \/ Close \/ Confirm
  \/ \E c \in calls : Serve(c) \/ Refuse(c) \/ Lose(c) \/ Answer(c)
  \/ Others

Spec == Init /\ [][Next]_vars

-----------------------------------------------------------------------------
(* Properties *)

\* What a call rests on is not what its button saw: the role, the row it is
\* for, or the row the page showed is another.
Stale(c) ==
  c.saw.of # c.at \/ c.saw.role # c.found.role \/ c.saw.mark # c.found.mark

\* The server refuses what a page offers by role only if the role, the row or
\* the page has changed since the page read it: the gates of the pages
\* (lib/roles.ts:4) ask for no less than the routes of the controllers.
RefusedOnlyIfStale ==
  \A c \in calls :
    c.st = "refused" /\ Buttons(c.at)[c.op].gate # None => Stale(c)

\* A page shows, and its dialogs name, another row than the one its calls are
\* for only while the load of that one is under way, after it has failed, or
\* when a load of the row left behind has been answered after it.
NamedIsAddressed ==
  page.shown # None /\ page.shown.of # page.at =>
    \/ \E l \in loads : l.no = page.load /\ l.at = page.at
    \/ page.load \in page.failed
    \/ page.load \in page.seen /\ page.load # page.shown.no

\* Once its loads are answered a page shows the change made from it last,
\* unless the load after the change failed or an older one came in behind it.
OwnChangeShown ==
  page.mine.time # 0 /\ loads = {} /\ page.shown # None /\ page.shown.of = page.at =>
    \/ page.shown.since >= page.mine.time
    \/ page.mine.load \in page.failed
    \/ page.mine.load \in page.seen /\ page.shown.no < page.mine.load

=============================================================================
