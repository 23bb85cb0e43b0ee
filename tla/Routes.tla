------------------------------- MODULE Routes -------------------------------
(***************************************************************************)
(* The tables the modules of the API and of the web pages share: the       *)
(* hierarchy of roles, what each route of the controllers demands of its   *)
(* caller, and the awaits its service goes through.                        *)
(***************************************************************************)
EXTENDS Naturals, Sequences

(* Roles *)

ROLE_HIERARCHY ==
  [r \in {"VIEWER", "MEMBER", "ADMIN", "OWNER"} |->
    CASE r = "VIEWER" -> 0 [] r = "MEMBER" -> 1 [] r = "ADMIN" -> 2 [] OTHER -> 3]

Role == DOMAIN ROLE_HIERARCHY

-----------------------------------------------------------------------------
(* Routes: what a controller demands, and the awaits of its service *)

\* @UseGuards(RolesGuard) with @Roles(min), and what @AuditLog records.
Guarded(min, log) == [min |-> min, guard |-> <<"guard">>, log |-> log]
Open(min, log) == [min |-> min, guard |-> <<>>, log |-> log]

OrganizationsController ==
  [create |-> Open("VIEWER", "nothing"),
   update |-> Guarded("ADMIN", "row"),
   archive |-> Guarded("OWNER", "row"),
   remove |-> Guarded("OWNER", "row"),
   inviteMember |-> Guarded("ADMIN", "result")]

OrganizationsService ==
  [create |-> <<"slug", "insert">>,
   update |-> <<"role", "write">>,
   archive |-> <<"role", "write">>,
   remove |-> <<"role", "delete">>,
   inviteMember |-> <<"role", "name", "upsert">>]

\* create has no guard: its service asks for an ADMIN of the organization.
WorkspacesController ==
  [create |-> Open("ADMIN", "nothing"),
   update |-> Guarded("ADMIN", "row"),
   archive |-> Guarded("OWNER", "row"),
   remove |-> Guarded("OWNER", "row"),
   inviteMember |-> Guarded("ADMIN", "result")]

WorkspacesService ==
  [create |-> <<"role", "slug", "insert">>,
   update |-> <<"write">>,
   archive |-> <<"write">>,
   remove |-> <<"delete">>,
   inviteMember |-> <<"upsert">>]

ProjectsController ==
  [create |-> Guarded("MEMBER", "result"),
   update |-> Guarded("ADMIN", "row"),
   archive |-> Guarded("ADMIN", "row"),
   restore |-> Guarded("ADMIN", "row"),
   remove |-> Guarded("OWNER", "row")]

ProjectsService ==
  [create |-> <<"member", "insert">>,
   update |-> <<"within", "write">>,
   archive |-> <<"within", "write">>,
   restore |-> <<"within", "write">>,
   remove |-> <<"within", "delete">>]

\* The awaits of a request: guards run before interceptors, the interceptor
\* reads the row its route names, and the audit row follows the answer.
Awaits(route, service) ==
  route.guard \o (IF route.log = "row" THEN <<"before">> ELSE <<>>)
    \o service \o (IF route.log = "nothing" THEN <<>> ELSE <<"audit">>)

=============================================================================
