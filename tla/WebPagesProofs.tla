--------------------------- MODULE WebPagesProofs ---------------------------
(***************************************************************************)
(* Proofs about WebPages, for any tree of rows, any bounds and any number  *)
(* of loads and calls under way: a page shows and names another row than   *)
(* it calls for, misses a change made from it, or offers what the server   *)
(* refuses, only for the reasons its properties list.                      *)
(***************************************************************************)
EXTENDS WebPages, TLAPS

Mark == AnyMark \cup {"gone"} \cup Status
State == [mark : [Row -> Mark], role : [Tenant -> Role \cup {None}]]

PastOK ==
  /\ past \in Seq(State)
  /\ Len(past) >= 1
  /\ sent \in Nat

\* A load is under way, or its fate is known.
Awaited(no) ==
  (\E l \in loads : l.no = no) \/ no \in page.failed \/ no \in page.seen

\* What is shown is of the page if its own load brought it, and says the change
\* made here if it was loaded after it.
ShownOK(sh) ==
  /\ sh.no \in 1 .. sent /\ sh.since \in Nat
  /\ sh.role \in Role \cup {None}
  /\ \A k \in DOMAIN sh.tasks : k \in Task /\ Up[k] = sh.of
  /\ sh.no = page.load => sh.of = page.at
  /\ page.mine.time # 0 /\ sh.no >= page.mine.load => sh.since >= page.mine.time

\* What a button or a dialog of the page at rests on passed the gate; a button
\* of a task belongs to a task of the row that was shown.
Backed(op, on, at, saw) ==
  /\ op \in DOMAIN Buttons(at)
  /\ Buttons(at)[op].gate # None => saw.role \in Role /\ Ranks(saw.role, Buttons(at)[op].gate)
  /\ Buttons(at)[op].gate # None /\ op \notin TaskButton => saw.mark \in Buttons(at)[op].marks
  /\ op \in TaskButton => on \in Task /\ Up[on] = saw.of /\ saw.mark \in Status
  /\ op = "advanceTask" => TASK_STATUS_TRANSITIONS[saw.mark] \in Status

PageField == {"at", "load", "shown", "dialog", "seen", "failed", "mine"}

PageOK ==
  /\ page = [f \in PageField |-> page[f]]
  /\ page.at \in Address
  /\ page.load \in 1 .. sent /\ Awaited(page.load)
  /\ page.mine.time \in 0 .. Len(past) /\ page.mine.load \in Nat
  /\ page.mine.time # 0 => page.mine.load \in 1 .. sent /\ Awaited(page.mine.load)
  /\ page.shown # None => ShownOK(page.shown)
  /\ page.dialog # Closed => Backed(page.dialog.op, page.dialog.on, page.at, page.dialog.saw)

\* A load sent with the last change, or after it, was sent when the server had
\* made it.
LoadOK(l) ==
  /\ l.no \in 1 .. sent /\ l.at \in Address /\ l.from \in 1 .. Len(past)
  /\ l.no = page.load => l.at = page.at
  /\ page.mine.time # 0 /\ l.no >= page.mine.load => l.from >= page.mine.time

CallField == {"no", "op", "at", "on", "within", "want", "mounted", "st", "when", "saw", "found"}

CallOK(c) ==
  /\ c = [f \in CallField |-> c[f]]
  /\ c.at \in Address
  /\ c.when \in 0 .. Len(past)
  /\ Backed(c.op, c.on, c.at, c.saw)
  /\ c.op \notin TaskButton => c.on = c.at
  /\ c.op \in TaskButton => c.within = IF Dialog(c.op) THEN Up[c.on] ELSE c.at
  /\ c.op = "advanceTask" => c.want = TASK_STATUS_TRANSITIONS[c.saw.mark]
  /\ c.st = "refused" /\ Buttons(c.at)[c.op].gate # None => Stale(c)

Inv ==
  /\ PastOK
  /\ PageOK
  /\ \A l \in loads : LoadOK(l)
  /\ \A c \in calls : CallOK(c)

-----------------------------------------------------------------------------
(* The tables *)

LEMMA RoleFacts ==
  /\ Role = {"VIEWER", "MEMBER", "ADMIN", "OWNER"}
  /\ \A r \in Role : ROLE_HIERARCHY[r] \in 0 .. 3
  /\ ROLE_HIERARCHY["VIEWER"] = 0 /\ ROLE_HIERARCHY["MEMBER"] = 1
  /\ ROLE_HIERARCHY["ADMIN"] = 2 /\ ROLE_HIERARCHY["OWNER"] = 3
  BY DEF Role, ROLE_HIERARCHY

LEMMA StatusFacts ==
  /\ Status = {"TODO", "IN_PROGRESS", "REVIEW", "DONE"}
  /\ \A s \in Status : TASK_STATUS_TRANSITIONS[s] \in Status \cup {None}
  BY DEF Status, TASK_STATUS_TRANSITIONS

LEMMA Apart ==
  \A n :
    /\ n \in Org => n \notin Workspace \cup Project \cup Task \cup List
    /\ n \in Workspace => n \notin Org \cup Project \cup Task \cup List
    /\ n \in Project => n \notin Org \cup Workspace \cup Task \cup List
    /\ n \in Task => n \notin Org \cup Workspace \cup Project \cup List
    /\ n \in List <=> n \in {"organizations", "workspaces", "dashboard"}
  BY IdsAssumption DEF List

\* A gate asks for a row of the tree and for no less than the route demands.
GateOK(b) ==
  b.gate # None =>
    /\ b.gate \in Role /\ b.min \in Role
    /\ ROLE_HIERARCHY[b.gate] >= ROLE_HIERARCHY[b.min]
    /\ b.marks \subseteq AnyMark

\* The page leaves only what has a page above it.
LEMMA ButtonsCover ==
  \A a : \A op \in DOMAIN Buttons(a) :
    /\ GateOK(Buttons(a)[op])
    /\ Buttons(a)[op].gate # None => a \in Tenant \cup Project
    /\ Buttons(a)[op].then = "leave" => a \in Tenant \cup Project /\ op \notin TaskButton
  <1> SUFFICES ASSUME NEW a, NEW op \in DOMAIN Buttons(a)
               PROVE /\ GateOK(Buttons(a)[op])
                     /\ Buttons(a)[op].gate # None => a \in Tenant \cup Project
                     /\ Buttons(a)[op].then = "leave" => a \in Tenant \cup Project /\ op \notin TaskButton
    OBVIOUS
  <1> USE RoleFacts DEF GateOK, Button, AnyMark, TaskButton, Guarded, Open
  <1>1. CASE a \in Org
    <2>1. Buttons(a) = OrganizationDetailPage
      BY <1>1, Apart DEF Buttons
    <2>2. QED
      BY <1>1, <2>1 DEF OrganizationDetailPage, OrganizationsController, Tenant
  <1>2. CASE a \in Workspace
    <2>1. Buttons(a) = WorkspaceDetailPage
      BY <1>2, Apart DEF Buttons
    <2>2. QED
      BY <1>2, <2>1 DEF WorkspaceDetailPage, WorkspacesController, ProjectsController, Tenant
  <1>3. CASE a \in Project
    <2>1. Buttons(a) = ProjectDetailPage
      BY <1>3, Apart DEF Buttons
    <2>2. QED
      BY <1>3, <2>1 DEF ProjectDetailPage, ProjectButtons, ProjectsController, TasksController
  <1>4. CASE a \notin Org \cup Workspace \cup Project
    <2>1. CASE a = "organizations"
      BY <1>4, <2>1 DEF Buttons, OrganizationsPage, OrganizationsController
    <2>2. CASE a = "workspaces"
      BY <1>4, <2>2 DEF Buttons, WorkspacesPage, WorkspacesController
    <2>3. CASE a \notin {"organizations", "workspaces"}
      BY <1>4, <2>3 DEF Buttons, DashboardPage
    <2>4. QED
      BY <2>1, <2>2, <2>3
  <1>5. QED
    BY <1>1, <1>2, <1>3, <1>4

\* A component keeps its buttons while its URL changes.
LEMMA ComponentKeeps ==
  ASSUME NEW a \in Address, NEW b \in Address, a \in Component(b)
  PROVE Buttons(a) = Buttons(b)
  <1>1. CASE b \in Org \/ b \in Workspace \/ b \in Project
    BY <1>1, Apart DEF Component, Buttons
  <1>2. CASE b \notin Org \cup Workspace \cup Project
    BY <1>2 DEF Component
  <1>3. QED
    BY <1>1, <1>2

-----------------------------------------------------------------------------
(* The server *)

LEMMA NowTyped == ASSUME PastOK PROVE Now \in State
  BY DEF PastOK, Now

LEMMA TenantTyped == ASSUME NEW n, n \in Tenant \cup Project \cup Task PROVE TenantOf(n) \in Tenant
  <1>1. CASE n \in Tenant
    BY <1>1, Apart DEF TenantOf, Tenant
  <1>2. CASE n \in Project
    BY <1>2, Apart, UpAssumption DEF TenantOf, Tenant
  <1>3. CASE n \in Task
    BY <1>3, Apart, UpAssumption DEF TenantOf, Tenant
  <1>4. QED
    BY <1>1, <1>2, <1>3

LEMMA RemovedTyped == ASSUME NEW s \in State, NEW n PROVE Removed(s, n) \in State
  BY DEF Removed, State, Mark

LEMMA EffectTyped == ASSUME PastOK, NEW c, CallOK(c) PROVE Effect(c) \in State
  <1>1. Now \in State
    BY NowTyped
  <1>2. CASE c.op \in {"archive", "restore", "advanceTask"}
    <2>1. \E m \in Mark : Effect(c) = [Now EXCEPT !.mark[c.on] = m]
      BY <1>2 DEF Effect, CallOK, Backed, Mark, AnyMark
    <2>2. QED
      BY <1>1, <2>1 DEF State
  <1>3. CASE c.op \in {"remove", "removeTask"}
    BY <1>1, <1>3, RemovedTyped DEF Effect
  <1>4. CASE c.op \notin {"archive", "restore", "advanceTask", "remove", "removeTask"}
    BY <1>1, <1>4 DEF Effect
  <1>5. QED
    BY <1>2, <1>3, <1>4

\* The server takes a step, or none: what the tab knows stays, and so do the
\* calls that it does not answer.
LEMMA ServerKeeps ==
  ASSUME Inv, UNCHANGED <<page, loads, sent>>,
         past' = past \/ \E s \in State : past' = Append(past, s)
  PROVE /\ PastOK' /\ PageOK' /\ \A l \in loads' : LoadOK(l)'
        /\ Len(past') >= Len(past)
        /\ \A c \in calls : CallOK(c)'
  <1>1. PastOK' /\ Len(past') >= Len(past) /\ Len(past) \in Nat /\ Len(past') \in Nat
    <2>1. past \in Seq(State) /\ Len(past) \in Nat /\ Len(past) >= 1 /\ sent' \in Nat
      BY DEF Inv, PastOK
    <2>2. past' \in Seq(State) /\ Len(past') \in {Len(past), Len(past) + 1}
      BY <2>1
    <2>3. QED
      BY <2>1, <2>2 DEF PastOK
  <1>2. PageOK'
    <2>1. PageOK /\ page' = page /\ loads' = loads /\ sent' = sent
      BY DEF Inv
    <2>2. page.mine.time \in 0 .. Len(past')
      BY <1>1, <2>1 DEF PageOK
    <2>3. Awaited(page.load)' /\ (page.mine.time # 0 => Awaited(page.mine.load)')
      BY <2>1 DEF PageOK, Awaited
    <2>4. page.shown # None => ShownOK(page.shown)'
      BY <2>1 DEF PageOK, ShownOK
    <2>5. QED
      BY <2>1, <2>2, <2>3, <2>4 DEF PageOK, Backed
  <1>3. \A l \in loads' : LoadOK(l)'
    BY <1>1 DEF Inv, LoadOK, PageOK
  <1>4. \A c \in calls : CallOK(c)'
    BY <1>1 DEF Inv, CallOK, Backed, Stale
  <1>5. QED
    BY <1>1, <1>2, <1>3, <1>4

LEMMA ServeKeeps == ASSUME Inv, NEW c \in calls, Serve(c) PROVE Inv'
  <1>1. CallOK(c) /\ Effect(c) \in State
    BY EffectTyped DEF Inv
  <1>2. /\ PastOK' /\ PageOK' /\ \A l \in loads' : LoadOK(l)'
        /\ \A d \in calls : CallOK(d)'
    BY <1>1, ServerKeeps DEF Serve
  <1>3. ASSUME NEW d, d = [c EXCEPT !.st = "ok", !.when = Len(past) + 1] PROVE CallOK(d)'
    <2>1. Len(past') = Len(past) + 1 /\ Len(past) \in Nat
      BY <1>1 DEF Serve, Inv, PastOK
    <2>2. /\ d.op = c.op /\ d.at = c.at /\ d.on = c.on /\ d.saw = c.saw /\ d.want = c.want
          /\ d.within = c.within /\ d.when = Len(past) + 1 /\ d.st = "ok"
          /\ d = [f \in CallField |-> d[f]]
      BY <1>1, <1>3 DEF CallOK, CallField
    <2>3. QED
      BY <1>1, <2>1, <2>2 DEF CallOK, Backed
  <1>4. QED
    BY <1>2, <1>3 DEF Serve, Replaced, Inv

LEMMA LoseKeeps == ASSUME Inv, NEW c \in calls, Lose(c) PROVE Inv'
  <1>1. CallOK([c EXCEPT !.st = "lost"])'
    BY DEF Inv, CallOK, CallField, Backed, Lose
  <1>2. QED
    BY <1>1, ServerKeeps DEF Lose, Replaced, Inv

\* A call that passed its gate and is refused finds a role or a mark that is
\* not the one the gate saw.
LEMMA RefusedStale ==
  ASSUME PastOK, NEW c, CallOK(c), ~Allowed(c), Buttons(c.at)[c.op].gate # None,
         c.saw.of = c.at, c.saw.role = Found(c).role, c.saw.mark = Found(c).mark
  PROVE FALSE
  <1> DEFINE b == Buttons(c.at)[c.op]
  <1>1. /\ GateOK(b) /\ c.at \in Tenant \cup Project
    BY ButtonsCover DEF CallOK, Backed
  <1>2. /\ c.on \in Tenant \cup Project \cup Task /\ c.on \notin List
        /\ c.op \notin TaskButton <=> c.on \in Tenant \cup Project
    BY <1>1, Apart DEF CallOK, Backed, Tenant
  <1>3. c.saw.role = Now.role[TenantOf(c.on)] /\ c.saw.mark = Now.mark[c.on]
    BY <1>2 DEF Found
  <1>4. TenantOf(c.on) # None => Ranks(Now.role[TenantOf(c.on)], b.min)
    <2>1. /\ c.saw.role \in Role /\ b.gate \in Role /\ b.min \in Role
          /\ ROLE_HIERARCHY[c.saw.role] >= ROLE_HIERARCHY[b.gate]
          /\ ROLE_HIERARCHY[b.gate] >= ROLE_HIERARCHY[b.min]
      BY <1>1 DEF CallOK, Backed, Ranks, GateOK
    <2>2. \A x, y, z \in Role :
            /\ ROLE_HIERARCHY[x] >= ROLE_HIERARCHY[y] /\ ROLE_HIERARCHY[y] >= ROLE_HIERARCHY[z]
            => ROLE_HIERARCHY[x] >= ROLE_HIERARCHY[z]
      BY RoleFacts
    <2>3. c.saw.role # None /\ ROLE_HIERARCHY[c.saw.role] >= ROLE_HIERARCHY[b.min]
      <3>1. c.saw.role # None
        BY <1>1 DEF CallOK, Backed, Ranks
      <3>2. QED
        BY <2>1, <2>2, <3>1
    <2>4. QED
      BY <1>3, <2>3 DEF Ranks
  <1>5. Now.mark[c.on] # "gone"
    <2>1. CASE c.op \in TaskButton
      BY <1>3, <2>1, StatusFacts DEF CallOK, Backed
    <2>2. CASE c.op \notin TaskButton
      <3>1. c.saw.mark \in b.marks
        BY <2>2 DEF CallOK, Backed
      <3>2. "gone" \notin b.marks
        BY <1>1 DEF GateOK, AnyMark
      <3>3. QED
        BY <1>3, <3>1, <3>2
    <2>3. QED
      BY <2>1, <2>2
  <1>6. c.on \in Task => c.within = Up[c.on]
    BY <1>2, Apart DEF CallOK, Backed, Tenant
  <1>7. c.op = "advanceTask" => c.want = TASK_STATUS_TRANSITIONS[Now.mark[c.on]]
    BY <1>3 DEF CallOK
  <1>8. QED
    BY <1>2, <1>4, <1>5, <1>6, <1>7 DEF Allowed

LEMMA RefuseKeeps == ASSUME Inv, NEW c \in calls, Refuse(c) PROVE Inv'
  <1>1. CallOK(c) /\ PastOK
    BY DEF Inv
  <1>2. ASSUME NEW d, d = [c EXCEPT !.st = "refused", !.found = Found(c)] PROVE CallOK(d)'
    <2>1. /\ d.op = c.op /\ d.at = c.at /\ d.on = c.on /\ d.saw = c.saw /\ d.want = c.want
          /\ d.within = c.within /\ d.when = c.when /\ d.found = Found(c)
          /\ d = [f \in CallField |-> d[f]]
      BY <1>1, <1>2 DEF CallOK, CallField
    <2>2. Buttons(d.at)[d.op].gate # None => Stale(d)
      BY <1>1, <2>1, RefusedStale DEF Refuse, Stale
    <2>3. QED
      BY <1>1, <2>1, <2>2 DEF CallOK, Backed, Stale, Refuse
  <1>3. QED
    BY <1>2, ServerKeeps DEF Refuse, Replaced, Inv

LEMMA OthersKeeps == ASSUME Inv, Others PROVE Inv'
  <1>1. Now \in State
    BY NowTyped DEF Inv
  <1>2. \E s \in State : past' = Append(past, s)
    <2>1. ASSUME NEW t \in Tenant, NEW ro \in Granted
          PROVE [Now EXCEPT !.role[t] = ro] \in State
      BY <1>1, BoundsAssumption DEF State
    <2>2. ASSUME NEW n, NEW m \in AnyMark PROVE [Now EXCEPT !.mark[n] = m] \in State
      BY <1>1 DEF State, Mark
    <2>3. ASSUME NEW n PROVE Removed(Now, n) \in State
      BY <1>1, RemovedTyped
    <2>4. ASSUME NEW k \in Task, Now.mark[k] \in Status, TASK_STATUS_TRANSITIONS[Now.mark[k]] # None
          PROVE [Now EXCEPT !.mark[k] = TASK_STATUS_TRANSITIONS[@]] \in State
      BY <1>1, <2>4, StatusFacts DEF State, Mark
    <2>5. QED
      BY <2>1, <2>2, <2>3, <2>4 DEF Others
  <1>3. QED
    BY <1>2, ServerKeeps DEF Others, Inv

-----------------------------------------------------------------------------
(* The tab *)

LEMMA MountedFacts ==
  \A a, no : LET m == Mounted(a, no) IN
    /\ m = [f \in PageField |-> m[f]]
    /\ m.at = a /\ m.load = no /\ m.shown = None /\ m.dialog = Closed
    /\ m.seen = {} /\ m.failed = {} /\ m.mine.time = 0 /\ m.mine.load = 0
  BY DEF Mounted, PageField

LEMMA InitInv == Init => Inv
  <1> SUFFICES ASSUME Init PROVE Inv
    OBVIOUS
  <1>1. PastOK
    <2>1. PICK ro \in Roles, s \in Statuses :
            past = <<[mark |-> [n \in Row |-> IF n \in Task THEN s ELSE "plain"],
                      role |-> [t \in Tenant |-> ro]]>>
      BY DEF Init
    <2>2. [mark |-> [n \in Row |-> IF n \in Task THEN s ELSE "plain"],
           role |-> [t \in Tenant |-> ro]] \in State
      BY BoundsAssumption DEF State, Mark, AnyMark
    <2>3. QED
      BY <2>1, <2>2 DEF PastOK, Init
  <1>2. PICK a \in Begin : page = Mounted(a, 1) /\ loads = {NewLoad(a, 1)}
    BY DEF Init
  <1>3. PageOK /\ \A l \in loads : LoadOK(l)
    BY <1>1, <1>2, BoundsAssumption, MountedFacts
    DEF Init, PageOK, LoadOK, NewLoad, Awaited, PastOK
  <1>4. QED
    BY <1>1, <1>3 DEF Init, Inv

\* The URL of the tab becomes that of another page.
LEMMA NavigateKeeps ==
  ASSUME Inv, NEW a \in Address, Navigate(a), past' = past
  PROVE PastOK' /\ PageOK' /\ \A l \in loads' : LoadOK(l)'
  <1>1. PastOK /\ PageOK /\ (\A l \in loads : LoadOK(l)) /\ Len(past) \in Nat
    BY DEF Inv, PastOK
  <1>2. CASE a = page.at
    <2>1. UNCHANGED <<page, loads, sent>>
      BY <1>2 DEF Navigate
    <2>2. QED
      BY <2>1, ServerKeeps
  <1>3. CASE a # page.at /\ a \notin Component(page.at)
    <2>1. /\ page' = Mounted(a, sent + 1) /\ sent' = sent + 1
          /\ loads' = {NewLoad(a, sent + 1)}
      BY <1>3 DEF Navigate
    <2>2. QED
      BY <1>1, <2>1, MountedFacts DEF PastOK, PageOK, LoadOK, NewLoad, Awaited
  <1>4. CASE a # page.at /\ a \in Component(page.at)
    <2>1. sent' = sent + 1 /\ loads' = loads \cup {NewLoad(a, sent + 1)}
      BY <1>4 DEF Navigate, Deps
    <2>2. /\ page'.at = a /\ page'.load = sent + 1
          /\ page'.mine.time = 0 /\ page'.mine.load = 0
          /\ page'.shown = page.shown /\ page'.dialog = page.dialog
          /\ page'.seen = page.seen /\ page'.failed = page.failed
          /\ page' = [f \in PageField |-> page'[f]]
      <3>1. page' = [page EXCEPT !.at = a, !.load = sent + 1, !.mine = [time |-> 0, load |-> 0]]
        BY <1>4 DEF Navigate, Deps
      <3>2. QED
        BY <1>1, <3>1 DEF PageOK, PageField
    <2>3. Buttons(a) = Buttons(page.at)
      BY <1>1, <1>4, ComponentKeeps DEF PageOK
    <2>4. PageOK'
      <3>1. Awaited(page.load)'
        <4>1. NewLoad(a, sent + 1) \in loads' /\ NewLoad(a, sent + 1).no = sent + 1
          BY <2>1 DEF NewLoad
        <4>2. QED
          BY <2>2, <4>1 DEF Awaited
      <3>2. ASSUME page.shown # None PROVE ShownOK(page.shown)'
        <4>1. ShownOK(page.shown) /\ sent \in Nat
          BY <1>1, <3>2 DEF PageOK, PastOK
        <4>2. QED
          BY <2>1, <2>2, <4>1 DEF ShownOK
      <3>3. page.dialog # Closed => Backed(page.dialog.op, page.dialog.on, a, page.dialog.saw)
        BY <1>1, <2>3 DEF PageOK, Backed
      <3>4. page.dialog # Closed =>
              Backed(page'.dialog.op, page'.dialog.on, page'.at, page'.dialog.saw)
        BY <2>2, <3>3
      <3>5. page'.load \in 1 .. sent' /\ page'.mine.time = 0 /\ page'.mine.load = 0
        BY <1>1, <2>1, <2>2 DEF PastOK
      <3>6. 0 \in 0 .. Len(past')
        BY <1>1, <2>1 DEF PastOK
      <3>7. QED
        <4>1. page' = [f \in PageField |-> page'[f]] /\ page'.at \in Address
          BY <1>1, <1>4, <2>2
        <4>2. page'.mine.time \in 0 .. Len(past') /\ page'.mine.load \in Nat
          BY <3>5, <3>6
        <4>3. page'.dialog # Closed =>
                Backed(page'.dialog.op, page'.dialog.on, page'.at, page'.dialog.saw)
          BY <2>2, <3>4
        <4>4. page'.shown # None => ShownOK(page.shown)'
          BY <2>2, <3>2
        <4>5. QED
          BY <3>1, <3>5, <4>1, <4>2, <4>3, <4>4 DEF PageOK, Backed
    <2>5. \A l \in loads' : LoadOK(l)'
      <3>1. \A l \in loads : LoadOK(l)'
        BY <1>1, <2>1, <2>2 DEF PageOK, PastOK, LoadOK
      <3>2. ASSUME NEW l, l = NewLoad(a, sent + 1) PROVE LoadOK(l)'
        BY <1>1, <2>1, <2>2, <3>2 DEF PageOK, PastOK, LoadOK, NewLoad
      <3>3. QED
        BY <2>1, <3>1, <3>2
    <2>6. QED
      BY <1>1, <2>1, <2>4, <2>5 DEF PastOK
  <1>5. QED
    BY <1>2, <1>3, <1>4

\* The calls that a page is left with.
LEMMA UnmountKeeps ==
  ASSUME NEW cs, \A c \in cs : CallOK(c)', NEW a
  PROVE \A c \in Unmount(cs, a) : CallOK(c)'
  <1>1. ASSUME NEW c \in cs, NEW d, d = [c EXCEPT !.mounted = FALSE] PROVE CallOK(d)'
    <2>1. CallOK(c)'
      OBVIOUS
    <2>2. /\ d.op = c.op /\ d.at = c.at /\ d.on = c.on /\ d.saw = c.saw /\ d.want = c.want
          /\ d.within = c.within /\ d.when = c.when /\ d.st = c.st /\ d.found = c.found
          /\ d = [f \in CallField |-> d[f]]
      BY <1>1, <2>1 DEF CallOK, CallField
    <2>3. QED
      BY <2>1, <2>2 DEF CallOK, Backed, Stale
  <1>2. QED
    BY <1>1 DEF Unmount

\* What the tab does leaves the calls as they are.
LEMMA CallsKept == ASSUME Inv, past' = past PROVE \A c \in calls : CallOK(c)'
  BY DEF Inv, CallOK, Backed, Stale

LEMMA VisitKeeps == ASSUME Inv, NEW a \in Address, Visit(a) PROVE Inv'
  <1>1. past' = past /\ Navigate(a) /\ calls' = Unmount(calls, a)
    BY DEF Visit
  <1>2. QED
    BY <1>1, NavigateKeeps, CallsKept, UnmountKeeps DEF Inv

LEMMA DialogKeeps ==
  ASSUME Inv, past' = past, UNCHANGED <<loads, sent>>, NEW d,
         page' = [page EXCEPT !.dialog = d],
         d # Closed => Backed(d.op, d.on, page.at, d.saw)
  PROVE PastOK' /\ PageOK' /\ \A l \in loads' : LoadOK(l)'
  <1>1. PageOK /\ PastOK /\ \A l \in loads : LoadOK(l)
    BY DEF Inv
  <1>2. /\ page'.at = page.at /\ page'.load = page.load /\ page'.mine = page.mine
        /\ page'.shown = page.shown /\ page'.dialog = d
        /\ page'.seen = page.seen /\ page'.failed = page.failed
        /\ page' = [f \in PageField |-> page'[f]]
    BY <1>1 DEF PageOK, PageField
  <1>3. PageOK'
    <2>1. Awaited(page.load)' /\ (page.mine.time # 0 => Awaited(page.mine.load)')
      BY <1>1, <1>2 DEF PageOK, Awaited
    <2>2. page.shown # None => ShownOK(page.shown)'
      BY <1>1, <1>2 DEF PageOK, ShownOK
    <2>3. d # Closed => Backed(d.op, d.on, page'.at, d.saw)
      BY <1>2
    <2>4. QED
      BY <1>1, <1>2, <2>1, <2>2, <2>3 DEF PageOK, Backed
  <1>4. \A l \in loads' : LoadOK(l)'
    BY <1>1, <1>2 DEF LoadOK
  <1>5. QED
    BY <1>1, <1>3, <1>4 DEF PastOK

\* A button that is offered passed its gate.
LEMMA OfferedBacked ==
  ASSUME Inv, page.shown # None, NEW op \in DOMAIN Buttons(page.at), NEW k,
         k # None <=> op \in TaskButton, Offered(op, k)
  PROVE Backed(op, k, page.at, Sight(k))
  <1>1. ShownOK(page.shown)
    BY DEF Inv, PageOK
  <1>2. op \in TaskButton =>
          /\ k \in Task /\ Up[k] = page.shown.of /\ page.shown.tasks[k] \in Status
          /\ op = "advanceTask" => TASK_STATUS_TRANSITIONS[page.shown.tasks[k]] \in Status
    BY <1>1, StatusFacts DEF Offered, ShownOK
  <1>3. Buttons(page.at)[op].gate # None =>
          /\ page.shown.role \in Role /\ Ranks(page.shown.role, Buttons(page.at)[op].gate)
          /\ page.shown.mark \in Buttons(page.at)[op].marks
    BY <1>1 DEF Offered, ShownOK, Ranks
  <1>4. QED
    BY <1>2, <1>3 DEF Backed, Sight, TaskButton

LEMMA SentOK ==
  ASSUME Inv, NEW op, NEW k, NEW saw, Backed(op, k, page.at, saw), NEW c, c = Call(op, k, saw)
  PROVE CallOK(c)
  <1>1. /\ c.op = op /\ c.at = page.at /\ c.saw = saw /\ c.when = 0 /\ c.st = "sent"
        /\ c.on = IF op \in TaskButton THEN k ELSE page.at
        /\ c.within = IF op \in TaskButton /\ Dialog(op) THEN Up[k] ELSE page.at
        /\ c.want = IF op = "advanceTask" THEN TASK_STATUS_TRANSITIONS[saw.mark] ELSE None
        /\ c = [f \in CallField |-> c[f]]
    BY DEF Call, CallField
  <1>2. page.at \in Address /\ 0 \in 0 .. Len(past)
    BY DEF Inv, PageOK, PastOK
  <1>3. QED
    BY <1>1, <1>2 DEF CallOK, Backed

LEMMA SendKeeps ==
  ASSUME Inv, past' = past, NEW op, NEW k, NEW saw, Backed(op, k, page.at, saw),
         Send(Call(op, k, saw))
  PROVE \A c \in calls' : CallOK(c)'
  <1>1. ASSUME NEW c, c = Call(op, k, saw) PROVE CallOK(c)'
    BY <1>1, SentOK DEF CallOK, Backed, Stale
  <1>2. QED
    BY <1>1, CallsKept DEF Send

LEMMA PressKeeps == ASSUME Inv, NEW op, NEW k, Press(op, k) PROVE Inv'
  <1>1. Backed(op, k, page.at, Sight(k))
    BY OfferedBacked DEF Press
  <1>2. CASE Dialog(op)
    <2> DEFINE d == [op |-> op, on |-> k, saw |-> Sight(k)]
    <2>1. \E e : e = d /\ page' = [page EXCEPT !.dialog = e]
      BY <1>2 DEF Press
    <2>2. UNCHANGED <<past, calls, loads, sent>>
      BY <1>2 DEF Press
    <2>3. PastOK' /\ PageOK' /\ \A l \in loads' : LoadOK(l)'
      BY <1>1, <2>1, <2>2, DialogKeeps
    <2>4. QED
      BY <2>2, <2>3, CallsKept DEF Inv
  <1>3. CASE ~Dialog(op)
    <2>1. Send(Call(op, k, Sight(k))) /\ UNCHANGED <<past, page, loads, sent>>
      BY <1>3 DEF Press
    <2>2. \A c \in calls' : CallOK(c)'
      BY <1>1, <2>1, SendKeeps
    <2>3. QED
      BY <2>1, <2>2, ServerKeeps DEF Inv
  <1>4. QED
    BY <1>2, <1>3

LEMMA CloseKeeps == ASSUME Inv, Close PROVE Inv'
  BY DialogKeeps, CallsKept DEF Close, Inv

LEMMA ConfirmKeeps == ASSUME Inv, Confirm PROVE Inv'
  <1>1. Backed(page.dialog.op, page.dialog.on, page.at, page.dialog.saw)
    BY DEF Confirm, Inv, PageOK
  <1>2. \A c \in calls' : CallOK(c)'
    BY <1>1, SendKeeps DEF Confirm
  <1>3. QED
    BY <1>2, ServerKeeps DEF Confirm, Inv

-----------------------------------------------------------------------------
(* Answers *)

\* What a load brings was read after it was sent.
LEMMA ContentsOK ==
  ASSUME PastOK, NEW l, l.at \in Address, l.from \in 1 .. Len(past),
         NEW asof \in [Gets(l.at) -> l.from .. Len(past)]
  PROVE LET sh == Contents(l, asof) IN
          /\ sh.no = l.no /\ sh.of = l.at
          /\ sh.role \in Role \cup {None}
          /\ \A k \in DOMAIN sh.tasks : k \in Task /\ Up[k] = l.at
          /\ sh.since \in Nat /\ sh.since >= l.from
  <1> DEFINE sh == Contents(l, asof)
  <1>1. Range(asof) \subseteq Nat /\ \A t \in Range(asof) : t >= l.from
    BY DEF Range, PastOK
  <1>2. \E t \in Range(asof) : \A u \in Range(asof) : t <= u
    <2>1. Range(asof) = {asof[x] : x \in Gets(l.at)}
      BY DEF Range
    <2>2. \A x \in Gets(l.at) : asof[x] \in Int
      BY <1>1, <2>1
    <2>3. CASE Gets(l.at) = {"self", "children"}
      BY <2>1, <2>2, <2>3
    <2>4. CASE Gets(l.at) = {"tenant", "self", "children"}
      <3> DEFINE x == asof["tenant"]
                 y == asof["self"]
                 z == asof["children"]
      <3>1. Range(asof) = {x, y, z} /\ x \in Int /\ y \in Int /\ z \in Int
        BY <2>1, <2>2, <2>4
      <3>2. \/ x <= y /\ x <= z
            \/ y <= x /\ y <= z
            \/ z <= x /\ z <= y
        BY <3>1
      <3>3. QED
        BY <3>1, <3>2
    <2>5. CASE Gets(l.at) = {"self"}
      BY <2>1, <2>2, <2>5
    <2>6. QED
      BY <2>3, <2>4, <2>5, Apart DEF Gets
  <1>3. sh.since \in Nat /\ sh.since >= l.from
    BY <1>1, <1>2 DEF Contents
  <1>4. sh.role \in Role \cup {None}
    <2>1. CASE l.at \in List
      BY <2>1 DEF Contents
    <2>2. CASE l.at \notin List
      <3>1. l.at \in Tenant \cup Project
        BY <2>2 DEF Address
      <3>2. Members(l.at) \in Gets(l.at)
        BY <3>1, Apart DEF Members, Gets, Tenant
      <3>3. past[asof[Members(l.at)]] \in State
        BY <3>2 DEF PastOK
      <3>4. QED
        BY <2>2, <3>1, <3>3, TenantTyped DEF Contents, State
    <2>3. QED
      BY <2>1, <2>2
  <1>5. QED
    BY <1>3, <1>4 DEF Contents

\* A load is answered, or fails: its fate is kept if anybody may ask for it.
LEMMA FateKept ==
  ASSUME Inv, NEW l \in loads, loads' = loads \ {l}, sent' = sent,
         page'.load = page.load, page'.mine = page.mine,
         page'.seen \cup page'.failed = page.seen \cup page.failed \cup Kept(l)
  PROVE /\ Awaited(page.load)'
        /\ page.mine.time # 0 => Awaited(page.mine.load)'
  <1>1. Awaited(page.load) /\ (page.mine.time # 0 => Awaited(page.mine.load))
    BY DEF Inv, PageOK
  <1>2. \A no \in {page.load, page.mine.load} :
          l.no = no => no \in page'.seen \cup page'.failed
    BY DEF Kept
  <1>3. ASSUME NEW no \in {page.load, page.mine.load}, Awaited(no)
        PROVE (\E m \in loads' : m.no = no) \/ no \in page'.failed \/ no \in page'.seen
    BY <1>2, <1>3 DEF Awaited
  <1>4. QED
    BY <1>1, <1>3 DEF Awaited

LEMMA LoadedKeeps == ASSUME Inv, NEW l \in loads, Loaded(l) PROVE Inv'
  <1>1. PICK asof \in [Gets(l.at) -> l.from .. Len(past)] :
          page' = [page EXCEPT !.shown = Contents(l, asof), !.seen = @ \cup Kept(l)]
    BY DEF Loaded
  <1>2. loads' = loads \ {l} /\ UNCHANGED <<past, sent, calls>>
    BY DEF Loaded
  <1>3. PICK sh : sh = Contents(l, asof)
    OBVIOUS
  <1>4. PageOK /\ PastOK /\ LoadOK(l) /\ (\A m \in loads : LoadOK(m))
    BY DEF Inv
  <1>5. /\ page'.at = page.at /\ page'.load = page.load /\ page'.mine = page.mine
        /\ page'.shown = sh /\ page'.dialog = page.dialog
        /\ page'.seen = page.seen \cup Kept(l) /\ page'.failed = page.failed
        /\ page' = [f \in PageField |-> page'[f]]
    BY <1>1, <1>3, <1>4 DEF PageOK, PageField
  <1>6. ShownOK(sh)'
    <2>1. /\ sh.no = l.no /\ sh.of = l.at /\ sh.role \in Role \cup {None}
          /\ \A k \in DOMAIN sh.tasks : k \in Task /\ Up[k] = l.at
          /\ sh.since \in Nat /\ sh.since >= l.from
      BY <1>3, <1>4, ContentsOK DEF LoadOK
    <2>2. page.mine.time # 0 /\ sh.no >= page.mine.load => sh.since >= page.mine.time
      BY <1>4, <2>1 DEF LoadOK, PageOK, PastOK
    <2>3. QED
      BY <1>2, <1>4, <1>5, <2>1, <2>2 DEF ShownOK, LoadOK
  <1>7. Awaited(page.load)' /\ (page.mine.time # 0 => Awaited(page.mine.load)')
    BY <1>2, <1>5, FateKept
  <1>8. PageOK'
    BY <1>2, <1>4, <1>5, <1>6, <1>7 DEF PageOK, Backed
  <1>9. \A m \in loads' : LoadOK(m)'
    BY <1>2, <1>4, <1>5 DEF LoadOK
  <1>10. QED
    BY <1>2, <1>4, <1>8, <1>9, CallsKept DEF Inv, PastOK

LEMMA LoadFailsKeeps == ASSUME Inv, NEW l \in loads, LoadFails(l) PROVE Inv'
  <1>1. loads' = loads \ {l} /\ UNCHANGED <<past, sent, calls>>
    BY DEF LoadFails
  <1>2. PageOK /\ PastOK /\ \A m \in loads : LoadOK(m)
    BY DEF Inv
  <1>3. /\ page'.at = page.at /\ page'.load = page.load /\ page'.mine = page.mine
        /\ page'.shown = page.shown /\ page'.dialog = page.dialog
        /\ page'.seen = page.seen /\ page'.failed = page.failed \cup Kept(l)
        /\ page' = [f \in PageField |-> page'[f]]
    BY <1>2 DEF PageOK, PageField, LoadFails
  <1>4. page.shown # None => ShownOK(page.shown)'
    BY <1>1, <1>2, <1>3 DEF PageOK, ShownOK
  <1>5. Awaited(page.load)' /\ (page.mine.time # 0 => Awaited(page.mine.load)')
    <2>1. page'.seen \cup page'.failed = page.seen \cup page.failed \cup Kept(l)
      BY <1>3
    <2>2. QED
      BY <1>1, <1>3, <2>1, FateKept
  <1>6. PageOK'
    BY <1>1, <1>2, <1>3, <1>4, <1>5 DEF PageOK, Backed
  <1>7. \A m \in loads' : LoadOK(m)'
    BY <1>1, <1>2, <1>3 DEF LoadOK
  <1>8. QED
    BY <1>1, <1>2, <1>6, <1>7, CallsKept DEF Inv, PastOK

\* The page is left for the one above it.
LEMMA LeaveKeeps ==
  ASSUME Inv, NEW c \in calls, Buttons(c.at)[c.op].then = "leave", past' = past,
         Navigate(Parent(c.on)), calls' = Unmount(calls \ {c}, Parent(c.on))
  PROVE Inv'
  <1>1. c.on \in Tenant \cup Project
    BY ButtonsCover DEF Inv, CallOK, Backed
  <1>2. Parent(c.on) \in Address
    BY <1>1, Apart, UpAssumption DEF Parent, Address, Tenant, List
  <1>3. \A d \in Unmount(calls \ {c}, Parent(c.on)) : CallOK(d)'
    BY CallsKept, UnmountKeeps
  <1>4. QED
    BY <1>2, <1>3, NavigateKeeps DEF Inv

\* The page loads again what the call was made from.
LEMMA ReloadKeeps ==
  ASSUME Inv, NEW c \in calls, past' = past, sent' = sent + 1, NEW d,
         d = page.dialog \/ d = Closed, NEW m,
         m = page.mine \/ m = [time |-> c.when, load |-> sent + 1],
         page' = [page EXCEPT !.dialog = d, !.mine = m],
         loads' = loads \cup Reload(c), calls' = calls \ {c}
  PROVE Inv'
  <1>1. PageOK /\ PastOK /\ CallOK(c) /\ \A l \in loads : LoadOK(l)
    BY DEF Inv
  <1>2. /\ page'.at = page.at /\ page'.load = page.load /\ page'.mine = m
        /\ page'.shown = page.shown /\ page'.dialog = d
        /\ page'.seen = page.seen /\ page'.failed = page.failed
        /\ page' = [f \in PageField |-> page'[f]]
    BY <1>1 DEF PageOK, PageField
  <1>3. /\ m.time \in 0 .. Len(past) /\ m.load \in Nat
        /\ m = page.mine \/ m.load = sent + 1
    BY <1>1 DEF PageOK, PastOK, CallOK
  <1>4. PICK l : Reload(c) = {l} /\ l.no = sent + 1 /\ l.at = c.at /\ l.from = Len(past)
    <2>1. LET l == NewLoad(c.at, sent + 1) IN
            Reload(c) = {l} /\ l.no = sent + 1 /\ l.at = c.at /\ l.from = Len(past)
      BY DEF Reload, NewLoad
    <2>2. QED
      BY <2>1
  <1>5. Awaited(page.load)' /\ (m.time # 0 => m.load \in 1 .. sent' /\ Awaited(page.mine.load)')
    <2>1. Awaited(page.load)'
      BY <1>1, <1>2 DEF PageOK, Awaited
    <2>2. CASE m = page.mine
      <3>1. page.mine.time # 0 => page.mine.load \in 1 .. sent /\ Awaited(page.mine.load)
        BY <1>1 DEF PageOK
      <3>2. sent \in Nat /\ page.mine.load \in Nat
        BY <1>1 DEF PageOK, PastOK
      <3>3. page.mine.time # 0 => page.mine.load \in 1 .. sent'
        BY <3>1, <3>2
      <3>4. page.mine.time # 0 => Awaited(page.mine.load)'
        BY <1>2, <2>2, <3>1 DEF Awaited
      <3>5. QED
        BY <2>1, <2>2, <3>3, <3>4
    <2>3. CASE m.load = sent + 1
      <3>1. l \in loads' /\ l.no = m.load /\ sent \in Nat
        BY <1>1, <1>4, <2>3 DEF PastOK
      <3>2. QED
        BY <1>2, <2>1, <2>3, <3>1 DEF Awaited
    <2>4. QED
      BY <1>3, <2>2, <2>3, <2>1
  <1>6. ASSUME page.shown # None PROVE ShownOK(page.shown)'
    <2>1. ShownOK(page.shown) /\ sent \in Nat
      BY <1>1, <1>6 DEF PageOK, PastOK
    <2>2. QED
      BY <1>2, <1>3, <2>1 DEF ShownOK
  <1>7. d # Closed => Backed(d.op, d.on, page.at, d.saw)
    BY <1>1 DEF PageOK
  <1>8. PageOK'
    <2>1. d # Closed => Backed(d.op, d.on, page'.at, d.saw)
      BY <1>2, <1>7
    <2>2. page.at \in Address /\ page.load \in 1 .. sent' /\ m.time \in 0 .. Len(past')
      BY <1>1, <1>3 DEF PageOK, PastOK
    <2>3. QED
      BY <1>2, <1>3, <1>5, <1>6, <2>1, <2>2 DEF PageOK, Backed
  <1>9. \A k \in loads' : LoadOK(k)'
    <2>1. \A k \in loads : LoadOK(k)'
      BY <1>1, <1>2, <1>3 DEF LoadOK, PastOK
    <2>2. LoadOK(l)'
      <3>1. l.no \in 1 .. sent' /\ l.from \in 1 .. Len(past') /\ l.at \in Address
        BY <1>1, <1>4 DEF PastOK, CallOK
      <3>2. l.no # page'.load /\ l.from >= page'.mine.time
        <4>1. page.load \in 1 .. sent /\ sent \in Nat /\ Len(past) \in Nat
          BY <1>1 DEF PageOK, PastOK
        <4>2. m.time <= Len(past)
          BY <1>3, <4>1
        <4>3. QED
          BY <1>2, <1>4, <4>1, <4>2
      <3>3. QED
        BY <3>1, <3>2 DEF LoadOK
    <2>3. QED
      BY <1>4, <2>1, <2>2
  <1>10. QED
    BY <1>1, <1>8, <1>9, CallsKept DEF Inv, PastOK

LEMMA AnswerKeeps == ASSUME Inv, NEW c \in calls, Answer(c) PROVE Inv'
  <1> DEFINE then == Buttons(c.at)[c.op].then
  <1>1. past' = past
    BY DEF Answer
  <1>2. CASE c.st = "ok" /\ then = "leave"
    BY <1>1, <1>2, LeaveKeeps DEF Answer
  <1>3. CASE c.st = "ok" /\ then = "load" /\ c.mounted
    <2> DEFINE d == IF page.dialog.op = c.op THEN Closed ELSE page.dialog
               m == IF c.at = page.at THEN [time |-> c.when, load |-> sent + 1] ELSE page.mine
    <2>1. /\ page' = [page EXCEPT !.dialog = d, !.mine = m]
          /\ loads' = loads \cup Reload(c) /\ sent' = sent + 1 /\ calls' = calls \ {c}
      BY <1>3 DEF Answer
    <2>2. QED
      BY <1>1, <2>1, ReloadKeeps
  <1>4. CASE ~(c.st = "ok" /\ then = "leave") /\ ~(c.st = "ok" /\ then = "load" /\ c.mounted)
    <2>1. calls' = calls \ {c} /\ UNCHANGED <<page, loads, sent>>
      BY <1>4 DEF Answer
    <2>2. QED
      BY <1>1, <2>1, ServerKeeps DEF Inv
  <1>5. QED
    BY <1>2, <1>3, <1>4

-----------------------------------------------------------------------------
(* The theorems *)

LEMMA NextInv == Inv /\ [Next]_vars => Inv'
  <1> SUFFICES ASSUME Inv, [Next]_vars PROVE Inv'
    OBVIOUS
  <1>1. CASE \E a \in Address : Visit(a)
    BY <1>1, VisitKeeps
  <1>2. CASE \E l \in loads : Loaded(l) \/ LoadFails(l)
    BY <1>2, LoadedKeeps, LoadFailsKeeps
  <1>3. CASE \E k \in Task \cup {None} : \E op \in DOMAIN Buttons(page.at) : Press(op, k)
    BY <1>3, PressKeeps
  <1>4. CASE Close \/ Confirm
    BY <1>4, CloseKeeps, ConfirmKeeps
  <1>5. CASE \E c \in calls : Serve(c) \/ Refuse(c) \/ Lose(c) \/ Answer(c)
    BY <1>5, ServeKeeps, RefuseKeeps, LoseKeeps, AnswerKeeps
  <1>6. CASE Others
    BY <1>6, OthersKeeps
  <1>7. CASE UNCHANGED vars
    BY <1>7, ServerKeeps DEF vars, Inv
  <1>8. QED
    BY <1>1, <1>2, <1>3, <1>4, <1>5, <1>6, <1>7 DEF Next

LEMMA InvHolds == Spec => []Inv
  BY InitInv, NextInv, PTL DEF Spec

\* What the pages offer by role is refused only when the role, the row or the
\* page is no longer what the button saw: for every tree of rows the gates of
\* the pages cover the routes they call (lib/roles.ts:4).
THEOREM Gates == Spec => []RefusedOnlyIfStale
  <1>1. Inv => RefusedOnlyIfStale
    BY DEF Inv, CallOK, RefusedOnlyIfStale
  <1>2. QED
    BY <1>1, InvHolds, PTL

\* A page and its dialogs name another row than the page calls for only while
\* a load is awaited, has failed, or was overtaken by an older one, however
\* often the URL changes under the page (ProjectDetailPage.tsx:372).
THEOREM Naming == Spec => []NamedIsAddressed
  <1>1. Inv => NamedIsAddressed
    BY DEF Inv, PageOK, LoadOK, ShownOK, Awaited, NamedIsAddressed
  <1>2. QED
    BY <1>1, InvHolds, PTL

\* With no load under way a page shows the last change made from it, unless
\* the load after it failed or an older one was answered later, in every order
\* of the answers (ProjectDetailPage.tsx:357).
THEOREM Showing == Spec => []OwnChangeShown
  <1>1. Inv => OwnChangeShown
    BY DEF Inv, PastOK, PageOK, ShownOK, Awaited, OwnChangeShown
  <1>2. QED
    BY <1>1, InvHolds, PTL

=============================================================================
