------------------------------ MODULE Tenancy ------------------------------
(***************************************************************************)
(* Organizations, workspaces and projects: their controllers and services, *)
(* behind RolesGuard, WorkspaceAccessService and the audit interceptor.    *)
(* The rows form a tree that foreign keys hold together: organization,     *)
(* workspace, project, task, and a task's comments and attachments, which  *)
(* Contents adds to this module.  A request is a list of awaits it works   *)
(* off: the guard, the interceptor's read, the checks of the service, its  *)
(* write, and the audit row nobody waits for.  Other requests run at every *)
(* await.  A request that is refused, or that dies, is Fail.               *)
(***************************************************************************)
EXTENDS Routes, Naturals, Sequences, FiniteSets

CONSTANTS
  User, Org, Workspace, Project, Task, Comment, Attachment,  \* uuids of rows
  Request,   \* bound: the HTTP requests of a behaviour, each served once
  None,      \* SQL null, undefined
  Slug,      \* slugs clients ask for
  Key,       \* storage keys of uploaded files
  Granted,   \* bound: the roles invitations hand out
  Given,     \* the rows behaviours start with, each with its parent
  Beginnings \* the roles, and the rows soft-deleted, behaviours start with

VARIABLES
  row,      \* the rows of the tree
  role,     \* OrganizationMember and WorkspaceMember rows: the role, or None
  req,      \* the requests
  audit,    \* AuditLog rows, each with the row its write replaced (history)
  unseated  \* history: tenants where an invitation replaced an OWNER's role

tenancyVars == <<row, role, req, audit, unseated>>

Tenant == Org \cup Workspace
Id == Tenant \cup Project \cup Task \cup Comment \cup Attachment

ASSUME IdsAssumption ==
  /\ None \notin Id \cup Key \cup Slug \cup Role
  /\ Org \cap (Workspace \cup Project \cup Task \cup Comment \cup Attachment) = {}
  /\ Workspace \cap (Project \cup Task \cup Comment \cup Attachment) = {}
  /\ Project \cap (Task \cup Comment \cup Attachment) = {}
  /\ Task \cap (Comment \cup Attachment) = {}
  /\ Comment \cap Attachment = {}

-----------------------------------------------------------------------------
(* Roles *)

\* The membership lookup of user u in tenant t, and assertMinRole on it.
HasRole(u, t, minimum) ==
  role[t][u] # None /\ ROLE_HIERARCHY[role[t][u]] >= ROLE_HIERARCHY[minimum]

ASSUME GrantedAssumption == Granted \subseteq Role

\* Every tenant a behaviour starts with has been created with an OWNER.
ASSUME BeginningsAssumption ==
  \A b \in Beginnings :
    /\ b.role \in [Tenant -> [User -> Role \cup {None}]]
    /\ b.deleted \subseteq Comment \cup Attachment
    /\ \A t \in Tenant \cap DOMAIN Given : \E u \in User : b.role[t][u] = "OWNER"
    /\ \A t \in Tenant \ DOMAIN Given, u \in User : b.role[t][u] = None

-----------------------------------------------------------------------------
(* Rows *)

\* up is the foreign key; label the slug or the storage key; mark stands for
\* isArchived and deletedAt; by for authorId and uploaderId; body for the
\* columns an update may change.
NoRow == [st |-> "none", up |-> None, label |-> None, mark |-> "plain",
          by |-> None, body |-> "written"]

\* The ids a row may have above it.
Above(n) ==
  CASE n \in Org -> {None} [] n \in Workspace -> Org [] n \in Project -> Workspace
    [] n \in Task -> Project [] OTHER -> Task

\* The rows a behaviour starts with are ones the services could have created.
ASSUME GivenAssumption ==
  /\ DOMAIN Given \subseteq Id
  /\ \A n \in DOMAIN Given :
       /\ Given[n].up \in Above(n) /\ (n \in Org \/ Given[n].up \in DOMAIN Given)
       /\ n \in Tenant => Given[n].label \in Slug
       /\ n \in Attachment => Given[n].label \in Key
  /\ \A m, n \in Tenant \cap DOMAIN Given :
       Given[m].up = Given[n].up /\ Given[m].label = Given[n].label => m = n
  /\ \A m, n \in Attachment \cap DOMAIN Given : Given[m].label = Given[n].label => m = n

Live(n) == row[n].st = "live"
Children(S) == {n \in Id : Live(n) /\ row[n].up \in S}

\* onDelete: Cascade, down the five levels of the tree.
Cascade(n) ==
  LET below == Children({n})
      below2 == Children(below)
      below3 == Children(below2)
  IN {n} \cup below \cup below2 \cup below3 \cup Children(below3)

\* The tenant a row belongs to.
Scope(n) ==
  CASE n \in Tenant -> n
    [] n \in Project -> row[n].up
    [] n \in Task -> row[row[n].up].up
    [] OTHER -> row[row[row[n].up].up].up

\* requireTaskMembership treats a soft-deleted task as missing.
Findable(n) == Live(n) /\ (n \in Task => row[n].mark = "plain")

\* The slug is taken: of all organizations, or among those of one.
Taken(kind, parent, slug) ==
  \E n \in IF kind = "org" THEN Org ELSE Workspace :
    Live(n) /\ row[n].up = parent /\ row[n].label = slug

\* A plausible slip: the schema has no unique index on slugs.
StorableWithoutIndex(kind, parent, slug) == parent # None => Live(parent)

\* The foreign key and the unique index, whatever was looked up before.
Storable(kind, parent, slug) ==
  /\ parent # None => Live(parent)
  /\ kind \in {"org", "ws"} => ~Taken(kind, parent, slug)

\* The row after a write by id: only the columns of the route change.
Written(old, op) ==
  CASE op = "update" -> [old EXCEPT !.body = "edited"]
    [] op = "archive" -> [old EXCEPT !.mark = "archived"]
    [] op = "remove" -> [old EXCEPT !.mark = "deleted"]
    [] op = "restore" -> [old EXCEPT !.mark = "plain"]

-----------------------------------------------------------------------------
(* Requests *)

\* at and on are the ids of the URL (or the parent named in the body); read
\* is what a later await uses of what an earlier one found; overtaken
\* (history) names what others changed after the request had looked at it.
Free == [kind |-> "none", op |-> "none", user |-> None, at |-> None,
         on |-> None, label |-> None, min |-> "VIEWER", todo |-> <<>>,
         prev |-> None, replaced |-> None, read |-> None, overtaken |-> {}]

Done == [Free EXCEPT !.op = "done"]

At(r, await) == req[r].todo # <<>> /\ Head(req[r].todo) = await
Ahead(r, await) == \E i \in DOMAIN req[r].todo : req[r].todo[i] = await

\* Request q having come to its next await; nothing is kept of one that has
\* come to its end.
Continued(q) ==
  IF Tail(q.todo) = <<>> THEN Done ELSE [q EXCEPT !.todo = Tail(@)]

Advance(r) == req' = [req EXCEPT ![r] = Continued(@)]

\* The request has made the last check of its caller's role.
Cleared(r) == \A await \in {"guard", "role", "member", "task"} : ~Ahead(r, await)

\* The other requests when request r writes row n: those that have read it
\* for the audit log and are yet to write it are overtaken.
RowOvertaken(r, n) ==
  [q \in Request |->
    IF q # r /\ req[q].on = n /\ req[q].prev # None
         /\ (Ahead(q, "write") \/ Ahead(q, "delete"))
      THEN [req[q] EXCEPT !.overtaken = @ \cup {"row"}] ELSE req[q]]

\* A request arrives.
Begin(r, kind, op, u, at, on, label, route, service) ==
  /\ req[r] = Free
  /\ req' = [req EXCEPT ![r] =
       [Free EXCEPT !.kind = kind, !.op = op, !.user = u, !.at = at, !.on = on,
                    !.label = label, !.min = route.min,
                    !.todo = Awaits(route, service)]]
  /\ UNCHANGED <<row, role, audit, unseated>>

BeginOrganization(r, u) ==
  \E op \in DOMAIN OrganizationsService :
    \E o \in IF op = "create" THEN {None} ELSE {n \in Org : Live(n)},
       s \in IF op = "create" THEN Slug ELSE {None} :
      Begin(r, "org", op, u, o, o, s,
            OrganizationsController[op], OrganizationsService[op])

BeginWorkspace(r, u) ==
  \E op \in DOMAIN WorkspacesService :
    \E t \in {n \in IF op = "create" THEN Org ELSE Workspace : Live(n)},
       s \in IF op = "create" THEN Slug ELSE {None} :
      Begin(r, "ws", op, u, t, IF op = "create" THEN None ELSE t, s,
            WorkspacesController[op], WorkspacesService[op])

\* The URL may pair any project with any workspace.
BeginProject(r, u) ==
  \E op \in DOMAIN ProjectsService :
    \E w \in {n \in Workspace : Live(n)},
       p \in IF op = "create" THEN {None} ELSE {n \in Project : Live(n)} :
      Begin(r, "project", op, u, w, p, None,
            ProjectsController[op], ProjectsService[op])

-----------------------------------------------------------------------------
(* Awaits *)

\* RolesGuard: the tenant is resolved from the URL.
Guard(r) ==
  /\ At(r, "guard")
  /\ Findable(req[r].at)
  /\ HasRole(req[r].user, Scope(req[r].at), req[r].min)
  /\ Advance(r)
  /\ UNCHANGED <<row, role, audit, unseated>>

\* fetchEntity, null if the row is not there.
Before(r) ==
  /\ At(r, "before")
  /\ LET n == req[r].on IN
       req' = [req EXCEPT ![r] =
         [Continued(@) EXCEPT !.prev = IF Live(n) THEN row[n] ELSE None]]
  /\ UNCHANGED <<row, role, audit, unseated>>

\* fetchEntity swallows an error of the database.
BeforeFails(r) ==
  /\ At(r, "before")
  /\ Advance(r)
  /\ UNCHANGED <<row, role, audit, unseated>>

\* assertOrgRole, and the same check of workspaces.service create.
CheckRole(r) ==
  /\ At(r, "role")
  /\ HasRole(req[r].user, req[r].at, req[r].min)
  /\ Advance(r)
  /\ UNCHANGED <<row, role, audit, unseated>>

\* projects.service requireMembership.
CheckMember(r) ==
  /\ At(r, "member")
  /\ HasRole(req[r].user, req[r].at, "VIEWER")
  /\ Advance(r)
  /\ UNCHANGED <<row, role, audit, unseated>>

\* A plausible slip: the project is looked up by its id alone.
WithinAny(w, p) == Live(p)

Within(w, p) == Live(p) /\ row[p].up = w

\* findWithinWorkspace.
FindWithin(r) ==
  /\ At(r, "within")
  /\ Within(req[r].at, req[r].on)
  /\ Advance(r)
  /\ UNCHANGED <<row, role, audit, unseated>>

LookUpSlug(r) ==
  /\ At(r, "slug")
  /\ ~Taken(req[r].kind, req[r].at, req[r].label)
  /\ Advance(r)
  /\ UNCHANGED <<row, role, audit, unseated>>

\* The organization's name for the invitation; null once it is gone.
ReadName(r) ==
  /\ At(r, "name")
  /\ req' = [req EXCEPT ![r] =
       [Continued(@) EXCEPT !.read = IF Live(req[r].at) THEN "name" ELSE None]]
  /\ UNCHANGED <<row, role, audit, unseated>>

IdsOf(kind) ==
  CASE kind = "org" -> Org [] kind = "ws" -> Workspace
    [] kind = "project" -> Project [] kind = "comment" -> Comment
    [] OTHER -> Attachment

\* A fresh uuid.  Which of the unused ids it is makes no difference.
Unused(kind) == {n \in IdsOf(kind) : row[n].st = "none"}
Fresh(kind) == CHOOSE n \in Unused(kind) : TRUE

\* A plausible slip: the member row of the creator is left to a later call.
WithoutMember(t, u) == role

\* members: { create: { userId, role: OWNER } }, in the same transaction.
WithOwner(t, u) == [role EXCEPT ![t][u] = "OWNER"]

\* create of a service: the row, and for a tenant its first member with it.
Insert(r) ==
  /\ At(r, "insert")
  /\ LET q == req[r] IN
       /\ Storable(q.kind, q.at, q.label)
       /\ Unused(q.kind) # {}
       /\ LET n == Fresh(q.kind) IN
            /\ row' = [row EXCEPT ![n] =
                 [NoRow EXCEPT !.st = "live", !.up = q.at, !.label = q.label,
                    !.by = IF q.kind \in {"comment", "attachment"}
                             THEN q.user ELSE None]]
            /\ role' = IF n \in Tenant THEN WithOwner(n, q.user) ELSE role
            /\ req' = [req EXCEPT ![r] =
                 IF Tail(q.todo) = <<>> THEN Done ELSE [Continued(q) EXCEPT !.on = n]]
  /\ UNCHANGED <<audit, unseated>>

\* update by id, of a row that may have changed since it was looked up.
Write(r) ==
  /\ At(r, "write")
  /\ LET q == req[r] IN
       /\ Live(q.on)
       /\ row' = [row EXCEPT ![q.on] = Written(@, q.op)]
       /\ req' = [RowOvertaken(r, q.on) EXCEPT ![r] =
            [Continued(q) EXCEPT !.replaced = row[q.on]]]
  /\ UNCHANGED <<role, audit, unseated>>

\* delete by id: the rows below go with it, and the memberships.
Delete(r) ==
  /\ At(r, "delete")
  /\ LET q == req[r]
         gone == Cascade(q.on)
     IN /\ Live(q.on)
        /\ row' = [n \in Id |->
             IF n \in gone THEN [NoRow EXCEPT !.st = "gone"] ELSE row[n]]
        /\ role' = [t \in Tenant |->
             IF t \in gone THEN [u \in User |-> None] ELSE role[t]]
        /\ req' = [req EXCEPT ![r] = [Continued(@) EXCEPT !.replaced = row[q.on]]]
  /\ UNCHANGED <<audit, unseated>>

\* A plausible slip: no foreign key ties a membership to its tenant.
MemberStorableLoosely(t) == TRUE

MemberStorable(t) == Live(t)

\* inviteMember's upsert, and the event it emits right after; a user who loses
\* rank may have requests that were cleared with the rank they had.
Upsert(r, invitee, ro) ==
  /\ At(r, "upsert")
  /\ LET t == req[r].at
         old == role[t][invitee]
         lower == old # None /\ ROLE_HIERARCHY[ro] < ROLE_HIERARCHY[old]
     IN /\ MemberStorable(t)
        /\ role' = [role EXCEPT ![t][invitee] = ro]
        /\ unseated' = IF old = "OWNER" THEN unseated \cup {t} ELSE unseated
        /\ req' = [q \in Request |->
             IF q = r THEN Continued(req[r])
             ELSE IF lower /\ req[q].user = invitee /\ Cleared(q)
               THEN [req[q] EXCEPT !.overtaken = @ \cup {"role"}]
             ELSE req[q]]
  /\ UNCHANGED <<row, audit>>

\* A plausible slip: the row is fetched when the log is written.
PreviousAsOfNow(q) == row[q.on]

PreviousValue(q) == q.prev

\* auditLog.create, which nobody waits for.
Audit(r) ==
  /\ At(r, "audit")
  /\ LET q == req[r] IN
       audit' = audit \cup
         {[entity |-> q.on, previous |-> PreviousValue(q),
           replaced |-> q.replaced, raced |-> "row" \in q.overtaken]}
  /\ req' = [req EXCEPT ![r] = Done]
  /\ UNCHANGED <<row, role, unseated>>

\* A check refuses, the database fails, or the process dies.
Fail(r) ==
  /\ req[r].todo # <<>>
  /\ req' = [req EXCEPT ![r] = Done]
  /\ UNCHANGED <<row, role, audit, unseated>>

\* A task is soft-deleted or restored: TaskWorkflow has the detail.
SetTaskDeleted(k) ==
  /\ Live(k)
  /\ row' = [row EXCEPT ![k].mark = IF @ = "plain" THEN "deleted" ELSE "plain"]
  /\ UNCHANGED <<role, req, audit, unseated>>

-----------------------------------------------------------------------------
TenancyInit ==
  /\ \E b \in Beginnings :
       /\ role = b.role
       /\ row = [n \in Id |->
            IF n \in DOMAIN Given
              THEN [NoRow EXCEPT !.st = "live", !.up = Given[n].up,
                                 !.label = Given[n].label, !.by = Given[n].by,
                                 !.mark = IF n \in b.deleted THEN "deleted" ELSE @]
              ELSE NoRow]
  /\ req = [r \in Request |-> Free]
  /\ audit = {}
  /\ unseated = {}

TenancyStep(r) ==
  \/ \E u \in User : BeginOrganization(r, u) \/ BeginWorkspace(r, u) \/ BeginProject(r, u)
  \/ Guard(r) \/ Before(r) \/ BeforeFails(r)
  \/ CheckRole(r) \/ CheckMember(r) \/ FindWithin(r)
  \/ LookUpSlug(r) \/ ReadName(r)
  \/ Write(r) \/ Delete(r)
  \/ \E u \in User, ro \in Granted : Upsert(r, u, ro)
  \/ Audit(r)

=============================================================================
