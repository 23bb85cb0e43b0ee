------------------------------ MODULE Contents ------------------------------
(***************************************************************************)
(* What hangs on a task: comments.service.ts, attachments.service.ts with  *)
(* the files of the storage service, and their controllers, composed with  *)
(* the tenants of Tenancy that decide who may touch them and whose removal *)
(* takes them away.  Comments and attachments are soft-deleted; a file is  *)
(* stored before its row and never deleted.                                *)
(***************************************************************************)
EXTENDS Tenancy

VARIABLES
  file,      \* the keys the storage service holds a file for
  stranded,  \* history: keys a failed create or a cascade left without a row
  edit       \* history: comments an edit found alive and has yet to write

vars == <<tenancyVars, file, stranded, edit>>

-----------------------------------------------------------------------------
(* Routes *)

\* Only create carries @Roles: the others rely on their service.
CommentsController ==
  [create |-> Guarded("MEMBER", "result"),
   update |-> Open("VIEWER", "row"),
   remove |-> Open("VIEWER", "row"),
   restore |-> Open("VIEWER", "row")]

CommentsService ==
  [create |-> <<"task", "insert">>,
   update |-> <<"task", "comment", "write">>,
   remove |-> <<"task", "comment", "write">>,
   restore |-> <<"task", "comment", "write">>]

AttachmentsController ==
  [create |-> Guarded("MEMBER", "result"),
   download |-> Open("VIEWER", "nothing"),
   remove |-> Open("VIEWER", "row"),
   restore |-> Open("VIEWER", "row")]

\* A plausible slip: the upload is not awaited.
AttachmentsServiceHasty ==
  [create |-> <<"task", "insert", "upload">>,
   download |-> <<"task", "attachment", "stream">>,
   remove |-> <<"task", "attachment", "write">>,
   restore |-> <<"task", "attachment", "write">>]

AttachmentsService ==
  [create |-> <<"task", "upload", "insert">>,
   download |-> <<"task", "attachment", "stream">>,
   remove |-> <<"task", "attachment", "write">>,
   restore |-> <<"task", "attachment", "write">>]

\* Keys begin with a fresh uuid.  It is drawn at once, the file stored later.
Drawn ==
  file \cup {req[r].label : r \in Request} \cup {row[a].label : a \in Attachment}

\* The URL may pair any comment or attachment with any task.
BeginComment(r, u) ==
  \E op \in DOMAIN CommentsService :
    \E k \in {n \in Task : Live(n)},
       c \in IF op = "create" THEN {None} ELSE {n \in Comment : Live(n)} :
      Begin(r, "comment", op, u, k, c, None,
            CommentsController[op], CommentsService[op])

BeginAttachment(r, u) ==
  \E op \in DOMAIN AttachmentsService :
    \E k \in {n \in Task : Live(n)},
       a \in IF op = "create" THEN {None} ELSE {n \in Attachment : Live(n)},
       key \in IF op = "create" THEN Key \ Drawn ELSE {None} :
      Begin(r, "attachment", op, u, k, a, key,
            AttachmentsController[op], AttachmentsService[op])

-----------------------------------------------------------------------------
(* Awaits *)

\* requireTaskMembership, with assertMinRole in create; the role is kept.
FindTask(r) ==
  /\ At(r, "task")
  /\ LET q == req[r] IN
       /\ Findable(q.at)
       /\ HasRole(q.user, Scope(q.at), q.min)
       /\ req' = [req EXCEPT ![r] =
            [Continued(q) EXCEPT !.read =
               IF q.kind = "attachment" THEN role[Scope(q.at)][q.user] ELSE None]]
  /\ UNCHANGED <<row, role, audit, unseated, file, stranded, edit>>

\* A plausible slip: the lookup forgets deletedAt.
OwnEvenDeleted(c, k, u, op) == Live(c) /\ row[c].up = k /\ row[c].by = u

\* requireOwnComment, and requireOwnDeletedComment for restore.
Own(c, k, u, op) ==
  /\ Live(c)
  /\ row[c].up = k
  /\ op # "restore" => row[c].mark = "plain"
  /\ row[c].by = u

FindComment(r) ==
  /\ At(r, "comment")
  /\ LET q == req[r] IN
       /\ Own(q.on, q.at, q.user, q.op)
       /\ edit' = IF q.op = "update" /\ row[q.on].mark = "plain"
                    THEN edit \cup {<<r, q.on>>} ELSE edit
  /\ Advance(r)
  /\ UNCHANGED <<row, role, audit, unseated, file, stranded>>

\* requireAttachment and requireDeletedAttachment, then the uploader or a role
\* of ADMIN or above, as read with the task; a download needs neither.
MayHandle(a, k, u, held, op) ==
  /\ Live(a)
  /\ row[a].up = k
  /\ op # "restore" => row[a].mark = "plain"
  /\ \/ op = "download"
     \/ row[a].by = u
     \/ ROLE_HIERARCHY[held] >= ROLE_HIERARCHY["ADMIN"]

FindAttachment(r) ==
  /\ At(r, "attachment")
  /\ LET q == req[r] IN
       /\ MayHandle(q.on, q.at, q.user, q.read, q.op)
       /\ req' = [req EXCEPT ![r] =
            [Continued(q) EXCEPT !.label =
               IF q.op = "download" THEN row[q.on].label ELSE None]]
  /\ UNCHANGED <<row, role, audit, unseated, file, stranded, edit>>

\* storage.upload writes the file under the key.
Upload(r) ==
  /\ At(r, "upload")
  /\ file' = file \cup {req[r].label}
  /\ Advance(r)
  /\ UNCHANGED <<row, role, audit, unseated, stranded, edit>>

\* storage.getStream opens the file, and the answer is piped from it.
Stream(r) ==
  /\ At(r, "stream")
  /\ req[r].label \in file
  /\ Advance(r)
  /\ UNCHANGED <<row, role, audit, unseated, file, stranded, edit>>

\* A step of the tenants' requests.  A removal reaches down to attachments.
Tenants(r) ==
  /\ TenancyStep(r)
  /\ stranded' = stranded \cup
       {row[a].label : a \in {b \in Attachment : Live(b) /\ row'[b].st = "gone"}}
  /\ edit' = edit \ {e \in edit : e[1] = r}
  /\ UNCHANGED file

\* The file of a create that dies between its upload and its row stays.
Abort(r) ==
  /\ Fail(r)
  /\ stranded' = IF Ahead(r, "insert") /\ req[r].label \in file
                   THEN stranded \cup {req[r].label} ELSE stranded
  /\ edit' = edit \ {e \in edit : e[1] = r}
  /\ UNCHANGED file

\* Insert is the same for all services.
Store(r) == Insert(r) /\ UNCHANGED <<file, stranded, edit>>

-----------------------------------------------------------------------------
Init ==
  /\ TenancyInit
  /\ file = {Given[a].label : a \in Attachment \cap DOMAIN Given}
  /\ stranded = {}
  /\ edit = {}

Step(r) ==
  \/ \E u \in User : \/ (BeginComment(r, u) /\ UNCHANGED <<file, stranded, edit>>)
                     \/ (BeginAttachment(r, u) /\ UNCHANGED <<file, stranded, edit>>)
  \/ FindTask(r) \/ FindComment(r) \/ FindAttachment(r)
  \/ Upload(r) \/ Stream(r)
  \/ Store(r) \/ Tenants(r) \/ Abort(r)

Next ==
  \/ \E r \in Request : Step(r)
  \/ \E k \in Task : SetTaskDeleted(k) /\ UNCHANGED <<file, stranded, edit>>

Spec == Init /\ [][Next]_vars

-----------------------------------------------------------------------------
(* Properties *)

\* A row that leaves with the one above it.
Cascaded(n) ==
  /\ row[n].up # None
  /\ row[row[n].up].st = "live" /\ row'[row[n].up].st = "gone"

\* u holds, in the tenant row n belongs to, what the route demands of him, and
\* a comment or an attachment is his own or his to clean up.
Entitled(u, n, min) ==
  /\ HasRole(u, Scope(n), min)
  /\ n \in Comment => row[n].by = u
  /\ n \in Attachment => row[n].by = u \/ HasRole(u, Scope(n), "ADMIN")

\* A row is only ever changed by a request whose caller is entitled to it in
\* the row's OWN workspace, whatever the URL paired it with, unless the caller
\* lost rank after the last check (RolesGuard, findWithinWorkspace,
\* requireOwnComment, requireAttachment).
WritesStayInTenant ==
  [][\A n \in Id \ Task :
       Live(n) /\ row'[n] # row[n] /\ ~Cascaded(n) =>
         \E r \in Request :
           /\ req'[r] # req[r]
           /\ req[r].on = n
           /\ "role" \in req[r].overtaken \/ Entitled(req[r].user, n, req[r].min)]_vars

\* Parents outlive their children, memberships their tenants never, and slugs
\* are unique although each is looked up awaits before the insert.
TreeSound ==
  /\ \A n \in Id : Live(n) /\ row[n].up # None => Live(row[n].up)
  /\ \A t \in Tenant, u \in User : role[t][u] # None => Live(t)
  /\ \A m, n \in Tenant :
       /\ Live(m) /\ Live(n) /\ row[m].up = row[n].up
       /\ row[m].label = row[n].label
       => m = n

\* A tenant has an OWNER from its first moment, "even if a later step fails"
\* (organizations.service.ts:26); only an invitation that replaces the role of
\* an OWNER, his own included, can leave it without one.
OwnerlessOnlyByInvite ==
  \A t \in Tenant :
    Live(t) => t \in unseated \/ \E u \in User : role[t][u] = "OWNER"

\* The invitation that is announced has the organization's name, although the
\* removal of the organization may come between the role check and the read:
\* organization!.name is never reached with null (organizations.service.ts
\* inviteMember).
InvitationIsNamed ==
  [][\A r \in Request :
       At(r, "upsert") /\ req'[r].todo = <<"audit">> /\ req[r].kind = "org" =>
         req[r].read = "name"]_vars

\* The log says what a write replaced, or null where the read failed, unless
\* another request wrote the row between the read and the write.
AuditTellsThePast ==
  \A a \in audit : a.previous \in {None, a.replaced} \/ a.raced

\* Every attachment, soft-deleted or not, has a file of its own; a file without
\* a row is about to get one, or was left by a failed create or a cascade; a
\* download finds its file although others remove and restore the attachment
\* (attachments.service.ts create, getDownload).
FilesAccounted ==
  /\ \A a \in Attachment : Live(a) => row[a].label \in file
  /\ \A a, b \in Attachment :
       Live(a) /\ Live(b) /\ row[a].label = row[b].label => a = b
  /\ \A k \in file \ stranded :
       \/ \E a \in Attachment : Live(a) /\ row[a].label = k
       \/ \E r \in Request : req[r].label = k /\ Ahead(r, "insert")
  /\ \A r \in Request : At(r, "stream") => req[r].label \in file

\* A soft-deleted comment keeps its text, unless an edit that found it alive
\* was already under way (requireOwnComment).
DeletedCommentFrozen ==
  [][\A c \in Comment :
       row[c].mark = "deleted" /\ row'[c].st = "live" /\ row'[c].body # row[c].body =>
         \E r \in Request : <<r, c>> \in edit]_vars

=============================================================================
