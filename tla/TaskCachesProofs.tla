-------------------------- MODULE TaskCachesProofs --------------------------
(***************************************************************************)
(* Proofs about TaskCaches, for any users and any number of requests.      *)
(***************************************************************************)
EXTENDS TaskCaches, TLAPS

-----------------------------------------------------------------------------
(* The inductive invariant *)

Status == {"TODO", "IN_PROGRESS"}
Name == {"members", "workspaces", "projects", "tasks"}

Row == [st : {"none", "live", "deleted", "gone"}, status : Status, assignee : User \cup {None}]

RequestOK(r) ==
  /\ req[r] \in [pc : {"free", "set", "write", "del", "done"}, key : Key \cup {None},
                 old : SUBSET Name, write : Input \cup {NoWrite}, read : Row,
                 todo : Seq(Key)]
  /\ req[r].pc = "set" => req[r].key \in Key
  /\ req[r].pc = "write" => req[r].write \in Input /\ req[r].write.op \in TaskOp
  /\ (req[r].pc = "del") <=> (req[r].todo # <<>>)

Shaped ==
  /\ task \in Row
  /\ cache = [k \in Key |-> cache[k]]
  /\ cause = [k \in Key |-> cause[k]]
  /\ req = [r \in Request |-> req[r]]
  /\ \A r \in Request : RequestOK(r)

Inv == Shaped /\ StaleIsExcused

-----------------------------------------------------------------------------
(* Keys and lists of keys *)

Lists(s, k) == \E i \in DOMAIN s : s[i] = k

LEMMA KeyKinds ==
  ASSUME NEW k \in Key
  PROVE \/ k = StatsKey
        \/ \E u \in User : k = DashboardKey(u) /\ k[2] = u /\ k # StatsKey
  BY DEF Key, StatsKey, DashboardKey

LEMMA ListsConcat ==
  ASSUME NEW s \in Seq(Key), NEW t \in Seq(Key), NEW k
  PROVE /\ s \o t \in Seq(Key)
        /\ Lists(s, k) \/ Lists(t, k) => Lists(s \o t, k)
  <1>1. s \o t \in Seq(Key)
    OBVIOUS
  <1>2. ASSUME NEW i \in DOMAIN s, s[i] = k PROVE Lists(s \o t, k)
    <2>1. i \in DOMAIN (s \o t) /\ (s \o t)[i] = k
      BY <1>2
    <2>2. QED
      BY <2>1 DEF Lists
  <1>3. ASSUME NEW i \in DOMAIN t, t[i] = k PROVE Lists(s \o t, k)
    <2>1. i + Len(s) \in DOMAIN (s \o t) /\ (s \o t)[i + Len(s)] = k
      BY <1>3
    <2>2. QED
      BY <2>1 DEF Lists
  <1>4. QED
    BY <1>1, <1>2, <1>3 DEF Lists

LEMMA ListsTail ==
  ASSUME NEW s \in Seq(Key), s # <<>>, NEW k
  PROVE /\ Tail(s) \in Seq(Key) /\ Head(s) \in Key
        /\ Lists(s, k) /\ k # Head(s) => Lists(Tail(s), k)
  <1>1. Tail(s) \in Seq(Key) /\ Head(s) \in Key
    OBVIOUS
  <1>2. ASSUME NEW i \in DOMAIN s, s[i] = k, k # Head(s) PROVE Lists(Tail(s), k)
    <2>1. i - 1 \in DOMAIN Tail(s) /\ Tail(s)[i - 1] = k
      BY <1>2
    <2>2. QED
      BY <2>1 DEF Lists
  <1>3. QED
    BY <1>1, <1>2 DEF Lists

LEMMA ListsStats ==
  <<StatsKey>> \in Seq(Key) /\ Lists(<<StatsKey>>, StatsKey)
  <1>1. StatsKey \in Key
    BY DEF Key
  <1>2. 1 \in DOMAIN <<StatsKey>> /\ <<StatsKey>>[1] = StatsKey
    OBVIOUS
  <1>3. QED
    BY <1>1, <1>2 DEF Lists

LEMMA ListsDashboards ==
  ASSUME NEW a
  PROVE /\ Dashboards(a) \in Seq(Key)
        /\ a \in User => Lists(Dashboards(a), DashboardKey(a))
  <1>1. CASE a \in User
    <2>1. DashboardKey(a) \in Key
      BY <1>1 DEF Key
    <2>2. 1 \in DOMAIN <<DashboardKey(a)>> /\ <<DashboardKey(a)>>[1] = DashboardKey(a)
      OBVIOUS
    <2>3. QED
      BY <1>1, <2>1, <2>2 DEF Lists, Dashboards
  <1>2. CASE a \notin User
    BY <1>2 DEF Dashboards
  <1>3. QED
    BY <1>1, <1>2

LEMMA ListsUpdate ==
  ASSUME NEW w, NEW read, NEW updated
  PROVE /\ AfterUpdate(w, read, updated) \in Seq(Key)
        /\ \A u \in User :
             w.assignee \in User /\ w.assignee # read.assignee /\ u \in {w.assignee, read.assignee}
               => Lists(AfterUpdate(w, read, updated), DashboardKey(u))
        /\ w.status \notin {Undefined, read.status} =>
             /\ Lists(AfterUpdate(w, read, updated), StatsKey)
             /\ updated.assignee \in User =>
                  Lists(AfterUpdate(w, read, updated), DashboardKey(updated.assignee))
  <1> DEFINE first == IF w.assignee \in User /\ w.assignee # read.assignee
                        THEN Dashboards(w.assignee) \o Dashboards(read.assignee) ELSE <<>>
             second == IF w.status \notin {Undefined, read.status}
                         THEN <<StatsKey>> \o Dashboards(updated.assignee) ELSE <<>>
  <1>1. /\ first \in Seq(Key)
        /\ \A u \in User :
             w.assignee \in User /\ w.assignee # read.assignee /\ u \in {w.assignee, read.assignee}
               => Lists(first, DashboardKey(u))
    <2>1. CASE w.assignee \in User /\ w.assignee # read.assignee
      <3>1. first = Dashboards(w.assignee) \o Dashboards(read.assignee)
        BY <2>1
      <3>2. QED
        BY <3>1, ListsDashboards, ListsConcat
    <2>2. CASE ~(w.assignee \in User /\ w.assignee # read.assignee)
      BY <2>2
    <2>3. QED
      BY <2>1, <2>2
  <1>2. /\ second \in Seq(Key)
        /\ w.status \notin {Undefined, read.status} =>
             /\ Lists(second, StatsKey)
             /\ updated.assignee \in User => Lists(second, DashboardKey(updated.assignee))
    <2>1. CASE w.status \notin {Undefined, read.status}
      <3>1. second = <<StatsKey>> \o Dashboards(updated.assignee)
        BY <2>1
      <3>2. QED
        BY <3>1, ListsDashboards, ListsStats, ListsConcat
    <2>2. CASE w.status \in {Undefined, read.status}
      BY <2>2
    <2>3. QED
      BY <2>1, <2>2
  <1>3. AfterUpdate(w, read, updated) = first \o second
    BY DEF AfterUpdate
  <1> HIDE DEF first, second
  <1>4. QED
    BY <1>1, <1>2, <1>3, ListsConcat

LEMMA ListsForgets ==
  ASSUME NEW w \in Input, NEW read, NEW updated
  PROVE Forgets(w, read, updated) \in Seq(Key)
  <1>1. /\ Dashboards(w.assignee) \o <<StatsKey>> \in Seq(Key)
        /\ <<StatsKey>> \o Dashboards(read.assignee) \in Seq(Key)
        /\ <<StatsKey>> \in Seq(Key) /\ <<>> \in Seq(Key)
    BY ListsDashboards, ListsStats, ListsConcat
  <1>2. QED
    BY <1>1, ListsUpdate DEF Forgets, Input

-----------------------------------------------------------------------------
(* A write deletes the key of an entry it changes, unless it is silent *)

Outcome(w) ==
  /\ task' = TaskAfter(task, w)
  /\ w.op = "inviteMember" \/ member' = member
  /\ w.op \in {"createProject", "archiveProject", "restoreProject", "removeProject"} \/ open' = open
  /\ w.op \in TaskOp => Exists(task)

\* Only the coming and going of the task, its status and its assignee show in
\* a dashboard, when no project or member comes or goes.
LEMMA ChangedDashboard ==
  ASSUME NEW u \in User, NEW k, k = DashboardKey(u), k # StatsKey,
         member' = member, open' = open,
         (Exists(task) /\ task.assignee = u) <=> (Exists(task') /\ task'.assignee = u),
         Exists(task) /\ task.assignee = u => task'.status = task.status
  PROVE Changed(k) = {}
  <1>1. k[2] = u
    BY DEF DashboardKey
  <1>2. View(k, task, member, open) = View(k, task', member', open')
    BY <1>1 DEF View, Dashboard
  <1>3. QED
    BY <1>2 DEF Changed

LEMMA ChangedStats ==
  ASSUME member' = member, open' = open, Exists(task) <=> Exists(task'),
         Exists(task) => task'.status = task.status
  PROVE Changed(StatsKey) = {}
  <1>1. View(StatsKey, task, member, open) = View(StatsKey, task', member', open')
    BY DEF View, Stats
  <1>2. QED
    BY <1>1 DEF Changed

LEMMA UpdateAnswered ==
  ASSUME NEW w \in Input, w.op = "updateTask", NEW read, NEW k \in Key,
         task \in Row, Outcome(w), Changed(k) # {}, ~Silent(w, read, k)
  PROVE Lists(AfterUpdate(w, read, task'), k)
  <1>1. /\ task' = [task EXCEPT
             !.status = IF w.status = Undefined THEN task.status ELSE w.status,
             !.assignee = IF w.assignee = Undefined THEN task.assignee ELSE w.assignee]
        /\ member' = member /\ open' = open
        /\ Exists(task)
    BY DEF Outcome, TaskAfter, TaskOp
  <1>2. /\ task'.st = task.st
        /\ task'.status = IF w.status = Undefined THEN task.status ELSE w.status
        /\ task'.assignee = IF w.assignee = Undefined THEN task.assignee ELSE w.assignee
    BY <1>1 DEF Row
  <1>3. Exists(task')
    BY <1>1, <1>2 DEF Exists
  <1>4. CASE k = StatsKey
    <2>1. task'.status # task.status
      BY <1>1, <1>3, <1>4, ChangedStats
    <2>2. w.status \notin {Undefined, read.status}
      BY <1>2, <2>1 DEF Silent
    <2>3. QED
      BY <1>4, <2>2, ListsUpdate
  <1>5. ASSUME NEW u \in User, k = DashboardKey(u), k[2] = u, k # StatsKey
        PROVE Lists(AfterUpdate(w, read, task'), k)
    <2>1. CASE task.assignee = u /\ task'.assignee = u
      <3>1. task'.status # task.status
        BY <1>1, <1>3, <1>5, <2>1, ChangedDashboard
      <3>2. w.status \notin {Undefined, read.status}
        BY <1>2, <3>1 DEF Silent
      <3>3. QED
        BY <1>5, <2>1, <3>2, ListsUpdate
    <2>2. CASE task.assignee = u /\ task'.assignee # u
      <3>1. w.assignee \in User /\ w.assignee # u
        BY <1>2, <1>5, <2>2 DEF Silent, Input
      <3>2. read.assignee = u
        BY <1>5, <2>2, <3>1 DEF Silent
      <3>3. QED
        BY <1>5, <3>1, <3>2, ListsUpdate
    <2>3. CASE task.assignee # u /\ task'.assignee = u
      <3>1. w.assignee = u
        BY <1>2, <2>3
      <3>2. read.assignee # u
        BY <1>5, <2>3, <3>1 DEF Silent
      <3>3. QED
        BY <1>5, <3>1, <3>2, ListsUpdate
    <2>4. CASE task.assignee # u /\ task'.assignee # u
      BY <1>1, <1>5, <2>4, ChangedDashboard
    <2>5. QED
      BY <2>1, <2>2, <2>3, <2>4
  <1>6. QED
    BY <1>4, <1>5, KeyKinds

LEMMA WriteAnswered ==
  ASSUME NEW w \in Input, NEW read, NEW k \in Key,
         task \in Row, Outcome(w), w.op = "createTask" => task.st = "none",
         Changed(k) # {}, ~Silent(w, read, k)
  PROVE Lists(Forgets(w, read, task'), k)
  <1>1. CASE w.op = "updateTask"
    <2>1. Forgets(w, read, task') = AfterUpdate(w, read, task')
      BY <1>1 DEF Forgets
    <2>2. QED
      BY <1>1, <2>1, UpdateAnswered
  <1>2. CASE w.op = "createTask"
    <2>1. /\ task' = [st |-> "live", status |-> "TODO", assignee |-> w.assignee]
          /\ member' = member /\ open' = open
          /\ Forgets(w, read, task') = Dashboards(w.assignee) \o <<StatsKey>>
      BY <1>2 DEF Outcome, TaskAfter, Forgets
    <2>2. ~Exists(task)
      BY <1>2 DEF Exists
    <2>3. ASSUME NEW u \in User, k = DashboardKey(u), k # StatsKey
          PROVE Lists(Forgets(w, read, task'), k)
      <3>1. w.assignee = u
        BY <2>1, <2>2, <2>3, ChangedDashboard
      <3>2. QED
        BY <2>1, <2>3, <3>1, ListsDashboards, ListsStats, ListsConcat
    <2>4. CASE k = StatsKey
      BY <2>1, <2>4, ListsDashboards, ListsStats, ListsConcat
    <2>5. QED
      BY <2>3, <2>4, KeyKinds
  <1>3. CASE w.op \in {"removeTask", "restoreTask"}
    \* A soft-deleted task counts like any other: nothing changes.
    <2>1. /\ task' = [task EXCEPT !.st = IF w.op = "removeTask" THEN "deleted" ELSE "live"]
          /\ member' = member /\ open' = open /\ Exists(task)
      BY <1>3 DEF Outcome, TaskAfter, TaskOp
    <2>2. Exists(task') /\ task'.status = task.status /\ task'.assignee = task.assignee
      BY <2>1 DEF Row, Exists
    <2>3. QED
      BY <2>1, <2>2, ChangedDashboard, ChangedStats, KeyKinds
  <1>4. CASE w.op = "inviteMember"
    BY <1>4 DEF Silent
  <1>5. CASE w.op \in {"createProject", "archiveProject", "restoreProject", "removeProject"}
    <2>1. k = StatsKey
      BY <1>5 DEF Silent
    <2>2. Forgets(w, read, task') = <<StatsKey>>
      BY <1>5 DEF Forgets
    <2>3. QED
      BY <2>1, <2>2, ListsStats
  <1>6. QED
    BY <1>1, <1>2, <1>3, <1>4, <1>5 DEF Input

-----------------------------------------------------------------------------
(* Every step preserves the invariant *)

LEMMA RowAfter ==
  ASSUME NEW w \in Input, task \in Row
  PROVE TaskAfter(task, w) \in Row
  <1>1. CASE w.op = "createTask"
    BY <1>1 DEF TaskAfter, Row, Input, Status
  <1>2. CASE w.op = "updateTask"
    <2>1. /\ w.status = Undefined \/ w.status \in Status
          /\ w.assignee = Undefined \/ w.assignee \in User \cup {None}
      BY <1>2 DEF Input, Status
    <2>2. QED
      BY <1>2, <2>1 DEF TaskAfter, Row
  <1>3. CASE w.op \notin {"createTask", "updateTask"}
    BY <1>3 DEF TaskAfter, Row, Status
  <1>4. QED
    BY <1>1, <1>2, <1>3

LEMMA ChangedParts == \A k \in Key : Changed(k) \in SUBSET Name
  <1>1. ASSUME NEW k \in Key PROVE Part[k] \subseteq Name
    BY DEF Part, Name
  <1>2. QED
    BY <1>1 DEF Changed

LEMMA FreeFields ==
  ASSUME NEW x, NEW p, NEW k, x = [Free EXCEPT !.pc = p, !.key = k]
  PROVE x = [pc |-> p, key |-> k, old |-> {}, write |-> NoWrite,
             read |-> NoTask, todo |-> <<>>]
  BY DEF Free

LEMMA WriteFields ==
  ASSUME NEW x, NEW w, NEW read, x = [Free EXCEPT !.pc = "write", !.write = w, !.read = read]
  PROVE x = [pc |-> "write", key |-> None, old |-> {}, write |-> w,
             read |-> read, todo |-> <<>>]
  BY DEF Free

LEMMA NoTaskRow == NoTask \in Row
  BY DEF NoTask, Row, Status

LEMMA FreeOK ==
  ASSUME NEW r \in Request, req'[r] = Done
  PROVE RequestOK(r)'
  <1>1. req'[r] = [pc |-> "done", key |-> None, old |-> {}, write |-> NoWrite,
                   read |-> NoTask, todo |-> <<>>]
    BY DEF Done, Free
  <1>2. QED
    BY <1>1, NoTaskRow DEF RequestOK

LEMMA DeletingOK ==
  ASSUME NEW r \in Request, NEW todo \in Seq(Key), req'[r] = Deleting(todo)
  PROVE RequestOK(r)' /\ req'[r].todo = todo
  <1>1. CASE todo = <<>>
    <2>1. req'[r] = Done
      BY <1>1 DEF Deleting
    <2>2. QED
      BY <1>1, <2>1, FreeOK DEF Done, Free
  <1>2. CASE todo # <<>>
    <2>1. req'[r] = [pc |-> "del", key |-> None, old |-> {}, write |-> NoWrite,
                     read |-> NoTask, todo |-> todo]
      BY <1>2 DEF Deleting, Free
    <2>2. QED
      BY <1>2, <2>1, NoTaskRow DEF RequestOK
  <1>3. QED
    BY <1>1, <1>2

\* Keys deleted, forgotten and expired apart, an entry stays excused if it is
\* neither changed nor its cause taken away, and nobody stops owing it.
LEMMA Excused ==
  ASSUME StaleIsExcused, NEW k \in Key,
         cache'[k] = cache[k], cause[k] # {} => cause'[k] # {},
         \A r \in Request : Lists(req[r].todo, k) =>
           cause'[k] # {} \/ Lists(req'[r].todo, k)
  PROVE cache'[k] \in {None, {}} \/ Owed(k)' \/ cause'[k] # {}
  BY DEF StaleIsExcused, Owed, Lists

LEMMA ApplyInv ==
  ASSUME Inv, NEW r \in Request, NEW w \in Input, NEW read, Apply(r, w, read),
         req[r].todo = <<>>,
         w.op = "createTask" => task.st = "none",
         w.op \in TaskOp => Exists(task)
  PROVE Inv'
  <1>1. task \in Row /\ Outcome(w)
    BY DEF Inv, Shaped, Apply, Outcome
  <1>2. task' \in Row
    BY <1>1, RowAfter DEF Outcome
  <1> DEFINE todo == Forgets(w, read, task')
  <1>3. todo \in Seq(Key)
    BY ListsForgets
  <1>4. /\ cache' = [k \in Key |-> IF cache[k] = None THEN None ELSE cache[k] \cup Changed(k)]
        /\ cause' = [k \in Key |->
             IF cache[k] # None /\ Changed(k) # {} /\ Silent(w, read, k)
               THEN cause[k] \cup {"silent"} ELSE cause[k]]
    BY DEF Apply
  <1>5. /\ req' = [q \in Request |-> req'[q]]
        /\ req'[r] = Deleting(todo)
        /\ \A q \in Request : q # r =>
             req'[q] = IF req[q].pc = "set"
                         THEN [req[q] EXCEPT !.old = @ \cup Changed(req[q].key)]
                         ELSE req[q]
    BY DEF Apply
  <1> HIDE DEF todo
  <1>6. RequestOK(r)' /\ req'[r].todo = todo
    BY <1>3, <1>5, DeletingOK
  <1>7. ASSUME NEW q \in Request, q # r
        PROVE RequestOK(q)' /\ req'[q].todo = req[q].todo
    <2>1. RequestOK(q)
      BY DEF Inv, Shaped
    <2>2. CASE req[q].pc = "set"
      <3>1. Changed(req[q].key) \in SUBSET Name
        BY <2>1, <2>2, ChangedParts DEF RequestOK
      <3>2. req'[q] = [req[q] EXCEPT !.old = @ \cup Changed(req[q].key)]
        BY <1>5, <1>7, <2>2
      <3>3. QED
        BY <2>1, <2>2, <3>1, <3>2 DEF RequestOK
    <2>3. CASE req[q].pc # "set"
      BY <1>5, <1>7, <2>1, <2>3 DEF RequestOK
    <2>4. QED
      BY <2>2, <2>3
  <1>8. Shaped'
    BY <1>2, <1>4, <1>5, <1>6, <1>7 DEF Shaped
  <1>9. ASSUME NEW k \in Key
        PROVE cache'[k] \in {None, {}} \/ Owed(k)' \/ cause'[k] # {}
    <2>1. CASE cache[k] = None
      BY <1>4, <2>1
    <2>2. CASE cache[k] # None /\ Changed(k) = {}
      <3>1. cache'[k] = cache[k] /\ cause'[k] = cause[k]
        BY <1>4, <2>2
      <3>2. ASSUME NEW q \in Request, Lists(req[q].todo, k)
            PROVE Lists(req'[q].todo, k)
        <4>1. q # r
          BY <3>2 DEF Lists
        <4>2. QED
          BY <1>7, <3>2, <4>1
      <3>3. QED
        BY <3>1, <3>2, Excused DEF Inv
    <2>3. CASE cache[k] # None /\ Changed(k) # {} /\ Silent(w, read, k)
      BY <1>4, <2>3
    <2>4. CASE cache[k] # None /\ Changed(k) # {} /\ ~Silent(w, read, k)
      <3>1. Lists(todo, k)
        BY <1>1, <2>4, WriteAnswered DEF todo
      <3>2. QED
        BY <1>6, <3>1 DEF Owed, Lists
    <2>5. QED
      BY <2>1, <2>2, <2>3, <2>4
  <1>10. QED
    BY <1>8, <1>9 DEF Inv, StaleIsExcused

\* All but one request stay as they are.
LEMMA OneMoves ==
  ASSUME Shaped, NEW r \in Request, NEW x, req' = [req EXCEPT ![r] = x]
  PROVE /\ req' = [q \in Request |-> req'[q]] /\ req'[r] = x
        /\ \A q \in Request : q # r => req'[q] = req[q] /\ RequestOK(q)'
  <1>1. /\ req' = [q \in Request |-> req'[q]] /\ req'[r] = x
        /\ \A q \in Request : q # r => req'[q] = req[q]
    BY DEF Shaped
  <1>2. QED
    BY <1>1 DEF Shaped, RequestOK

LEMMA QueryInv ==
  ASSUME Inv, NEW r \in Request, NEW k \in Key, Query(r, k)
  PROVE Inv'
  <1> DEFINE x == [Free EXCEPT !.pc = "set", !.key = k]
  <1>1. x = [Free EXCEPT !.pc = "set", !.key = k]
    OBVIOUS
  <1>2. /\ req' = [req EXCEPT ![r] = x] /\ req[r] = Free
        /\ UNCHANGED <<task, member, open, cache, cause>>
    BY DEF Query
  <1> HIDE DEF x
  <1>3. x = [pc |-> "set", key |-> k, old |-> {}, write |-> NoWrite,
             read |-> NoTask, todo |-> <<>>]
    BY <1>1, FreeFields
  <1>4. RequestOK(r)'
    <2>1. req'[r] = x
      BY <1>2, OneMoves DEF Inv
    <2>2. QED
      BY <1>3, <2>1, NoTaskRow DEF RequestOK
  <1>5. Shaped'
    BY <1>2, <1>4, OneMoves DEF Inv, Shaped
  <1>6. \A q \in Request : \A key : Lists(req[q].todo, key) => Lists(req'[q].todo, key)
    <2>1. ~\E key : Lists(req[r].todo, key)
      BY <1>2 DEF Free, Lists
    <2>2. QED
      BY <1>2, <2>1, OneMoves DEF Inv
  <1>7. QED
    BY <1>2, <1>5, <1>6, Excused DEF Inv, StaleIsExcused

LEMMA SetInv ==
  ASSUME Inv, NEW r \in Request, Set(r)
  PROVE Inv'
  <1> DEFINE key == req[r].key
  <1>1. /\ key \in Key /\ req[r].todo = <<>>
    BY DEF Inv, Shaped, RequestOK, Set
  <1>2. /\ req' = [req EXCEPT ![r] = Done]
        /\ cache' = [cache EXCEPT ![key] = req[r].old]
        /\ cause' = [cause EXCEPT ![key] = IF req[r].old = {} THEN {} ELSE {"overtaken"}]
        /\ task' = task
    BY DEF Set
  <1> HIDE DEF key
  <1>3. RequestOK(r)'
    BY <1>2, OneMoves, FreeOK DEF Inv
  <1>4. Shaped'
    BY <1>1, <1>2, <1>3, OneMoves DEF Inv, Shaped
  <1>5. cache'[key] = {} \/ cause'[key] # {}
    BY <1>1, <1>2 DEF Inv, Shaped
  <1>6. ASSUME NEW k \in Key, k # key
        PROVE cache'[k] \in {None, {}} \/ Owed(k)' \/ cause'[k] # {}
    <2>1. cache'[k] = cache[k] /\ cause'[k] = cause[k]
      BY <1>2, <1>6 DEF Inv, Shaped
    <2>2. \A q \in Request : Lists(req[q].todo, k) => Lists(req'[q].todo, k)
      <3>1. ~Lists(req[r].todo, k)
        BY <1>1 DEF Lists
      <3>2. QED
        BY <1>2, <3>1, OneMoves DEF Inv
    <2>3. QED
      BY <2>1, <2>2, Excused DEF Inv
  <1>7. QED
    BY <1>4, <1>5, <1>6 DEF Inv, StaleIsExcused

LEMMA ReadTaskInv ==
  ASSUME Inv, NEW r \in Request, NEW w \in Input, ReadTask(r, w)
  PROVE Inv'
  <1> DEFINE x == [Free EXCEPT !.pc = "write", !.write = w, !.read = task]
  <1>1. x = [pc |-> "write", key |-> None, old |-> {}, write |-> w,
             read |-> task, todo |-> <<>>]
    <2>1. x = [Free EXCEPT !.pc = "write", !.write = w, !.read = task]
      OBVIOUS
    <2> HIDE DEF x
    <2>2. QED
      BY <2>1, WriteFields
  <1>2. /\ req' = [req EXCEPT ![r] = x] /\ req[r] = Free /\ w.op \in TaskOp
        /\ UNCHANGED <<task, member, open, cache, cause>>
    BY DEF ReadTask
  <1> HIDE DEF x
  <1>3. RequestOK(r)'
    <2>1. req'[r] = x
      BY <1>2, OneMoves DEF Inv
    <2>2. task \in Row
      BY DEF Inv, Shaped
    <2>3. x.pc = "write" /\ x.write = w /\ x.todo = <<>>
      BY <1>1
    <2>4. x \in [pc : {"free", "set", "write", "del", "done"}, key : Key \cup {None},
                 old : SUBSET Name, write : Input \cup {NoWrite}, read : Row,
                 todo : Seq(Key)]
      BY <1>1, <2>2
    <2>5. QED
      BY <1>2, <2>1, <2>3, <2>4 DEF RequestOK
  <1>4. Shaped'
    BY <1>2, <1>3, OneMoves DEF Inv, Shaped
  <1>5. \A q \in Request : \A key : Lists(req[q].todo, key) => Lists(req'[q].todo, key)
    <2>1. ~\E key : Lists(req[r].todo, key)
      BY <1>2 DEF Free, Lists
    <2>2. QED
      BY <1>2, <2>1, OneMoves DEF Inv
  <1>6. QED
    BY <1>2, <1>4, <1>5, Excused DEF Inv, StaleIsExcused

LEMMA WriteTaskInv ==
  ASSUME Inv, NEW r \in Request, WriteTask(r)
  PROVE Inv'
  <1>1. /\ req[r].write \in Input /\ req[r].write.op \in TaskOp /\ req[r].todo = <<>>
        /\ Exists(task) /\ Apply(r, req[r].write, req[r].read)
    BY DEF WriteTask, Inv, Shaped, RequestOK
  <1>2. req[r].write.op # "createTask"
    BY <1>1 DEF TaskOp
  <1>3. QED
    BY <1>1, <1>2, ApplyInv

LEMMA WriteOtherInv ==
  ASSUME Inv, NEW r \in Request, NEW w \in Input, WriteOther(r, w)
  PROVE Inv'
  <1>1. /\ req[r].todo = <<>> /\ w.op \notin TaskOp /\ Apply(r, w, NoTask)
        /\ w.op = "createTask" => task.st = "none"
    BY DEF WriteOther, Free
  <1>2. QED
    BY <1>1, ApplyInv

\* A key is off the list of r, deleted or not; the others stay on it.
LEMMA DeletedOK ==
  ASSUME Shaped, NEW r \in Request, req[r].pc = "del", Deleted(r)
  PROVE /\ Head(req[r].todo) \in Key
        /\ req' = [q \in Request |-> req'[q]]
        /\ \A q \in Request : RequestOK(q)'
        /\ \A q \in Request, k \in Key :
             k # Head(req[r].todo) /\ Lists(req[q].todo, k) => Lists(req'[q].todo, k)
  <1> DEFINE todo == req[r].todo
  <1>1. todo \in Seq(Key) /\ todo # <<>>
    BY DEF Shaped, RequestOK
  <1>2. /\ Tail(todo) \in Seq(Key) /\ Head(todo) \in Key
        /\ \A k : Lists(todo, k) /\ k # Head(todo) => Lists(Tail(todo), k)
    BY <1>1, ListsTail
  <1>3. req' = [req EXCEPT ![r] = Deleting(Tail(todo))]
    BY DEF Deleted
  <1>4. req'[r] = Deleting(Tail(todo))
    BY <1>3, OneMoves
  <1> HIDE DEF todo
  <1>5. RequestOK(r)' /\ req'[r].todo = Tail(todo)
    BY <1>2, <1>4, DeletingOK
  <1>6. QED
    BY <1>2, <1>3, <1>5, OneMoves DEF todo

LEMMA DelInv ==
  ASSUME Inv, NEW r \in Request, Del(r) \/ DelFails(r)
  PROVE Inv'
  <1> DEFINE key == Head(req[r].todo)
  <1>1. /\ req[r].pc = "del" /\ Deleted(r) /\ task' = task
        /\ \/ /\ cache' = [cache EXCEPT ![key] = None]
              /\ cause' = [cause EXCEPT ![key] = {}]
           \/ /\ cache' = cache
              /\ cause' = [cause EXCEPT ![key] = @ \cup {"failed"}]
    BY DEF Del, DelFails
  <1>2. /\ key \in Key /\ req' = [q \in Request |-> req'[q]]
        /\ \A q \in Request : RequestOK(q)'
        /\ \A q \in Request, k \in Key :
             k # key /\ Lists(req[q].todo, k) => Lists(req'[q].todo, k)
    BY <1>1, DeletedOK DEF Inv
  <1> HIDE DEF key
  <1>3. Shaped'
    BY <1>1, <1>2 DEF Inv, Shaped
  <1>4. cache'[key] = None \/ cause'[key] # {}
    BY <1>1, <1>2 DEF Inv, Shaped
  <1>5. ASSUME NEW k \in Key, k # key
        PROVE cache'[k] \in {None, {}} \/ Owed(k)' \/ cause'[k] # {}
    <2>1. cache'[k] = cache[k] /\ cause'[k] = cause[k]
      BY <1>1, <1>5 DEF Inv, Shaped
    <2>2. QED
      BY <1>2, <1>5, <2>1, Excused DEF Inv
  <1>6. QED
    BY <1>3, <1>4, <1>5 DEF Inv, StaleIsExcused

LEMMA FailInv ==
  ASSUME Inv, NEW r \in Request, Fail(r)
  PROVE Inv'
  <1>1. /\ req' = [req EXCEPT ![r] = Done] /\ cache' = cache /\ task' = task
        /\ cause' = [k \in Key |->
             IF Lists(req[r].todo, k) THEN cause[k] \cup {"failed"} ELSE cause[k]]
    BY DEF Fail, Lists
  <1>2. RequestOK(r)'
    BY <1>1, OneMoves, FreeOK DEF Inv
  <1>3. Shaped'
    BY <1>1, <1>2, OneMoves DEF Inv, Shaped
  <1>4. ASSUME NEW k \in Key
        PROVE cache'[k] \in {None, {}} \/ Owed(k)' \/ cause'[k] # {}
    <2>1. cache'[k] = cache[k] /\ (cause[k] # {} => cause'[k] # {})
      BY <1>1
    <2>2. \A q \in Request : Lists(req[q].todo, k) =>
            cause'[k] # {} \/ Lists(req'[q].todo, k)
      BY <1>1, OneMoves DEF Inv
    <2>3. QED
      BY <2>1, <2>2, Excused DEF Inv
  <1>5. QED
    BY <1>3, <1>4 DEF Inv, StaleIsExcused

LEMMA ExpireInv ==
  ASSUME Inv, NEW key \in Key, Expire(key)
  PROVE Inv'
  <1>1. /\ cache' = [cache EXCEPT ![key] = None] /\ cause' = [cause EXCEPT ![key] = {}]
        /\ UNCHANGED <<task, req>>
    BY DEF Expire
  <1>2. Shaped'
    BY <1>1 DEF Inv, Shaped, RequestOK
  <1>3. cache'[key] = None
    BY <1>1 DEF Inv, Shaped
  <1>4. ASSUME NEW k \in Key, k # key
        PROVE cache'[k] \in {None, {}} \/ Owed(k)' \/ cause'[k] # {}
    <2>1. cache'[k] = cache[k] /\ cause'[k] = cause[k]
      BY <1>1, <1>4 DEF Inv, Shaped
    <2>2. QED
      BY <1>1, <2>1, Excused DEF Inv
  <1>5. QED
    BY <1>2, <1>3, <1>4 DEF Inv, StaleIsExcused

LEMMA InitInv == Init => Inv
  <1> SUFFICES ASSUME Init PROVE Inv
    OBVIOUS
  <1>1. task \in Row
    BY NoTaskRow DEF Init, Row, Status
  <1>2. ASSUME NEW r \in Request PROVE RequestOK(r)
    <2>1. req[r] = [pc |-> "free", key |-> None, old |-> {}, write |-> NoWrite,
                    read |-> NoTask, todo |-> <<>>]
      BY DEF Init, Free
    <2>2. QED
      BY <2>1, NoTaskRow DEF RequestOK
  <1>3. Shaped
    BY <1>1, <1>2 DEF Init, Shaped
  <1>4. StaleIsExcused
    BY DEF Init, StaleIsExcused
  <1>5. QED
    BY <1>3, <1>4 DEF Inv

LEMMA NextInv == Inv /\ [Next]_vars => Inv'
  <1> SUFFICES ASSUME Inv, [Next]_vars PROVE Inv'
    OBVIOUS
  <1>1. ASSUME NEW r \in Request, Step(r) PROVE Inv'
    BY <1>1, QueryInv, SetInv, ReadTaskInv, WriteTaskInv, WriteOtherInv, DelInv, FailInv
       DEF Step
  <1>2. CASE UNCHANGED vars
    <2>1. UNCHANGED <<task, cache, req, cause>>
      BY <1>2 DEF vars
    <2>2. \A r \in Request : RequestOK(r) => RequestOK(r)'
      BY <2>1 DEF RequestOK
    <2>3. StaleIsExcused'
      BY <2>1 DEF Inv, StaleIsExcused, Owed
    <2>4. QED
      BY <2>1, <2>2, <2>3 DEF Inv, Shaped
  <1>3. QED
    BY <1>1, <1>2, ExpireInv DEF Next

-----------------------------------------------------------------------------
(* Theorems *)

\* The inductive invariant: the shape of rows, entries and requests, and
\* StaleIsExcused, which needs no other strengthening.
THEOREM InvHolds == Spec => []Inv
  BY InitInv, NextInv, PTL DEF Spec

\* getStats, getDashboard and the deletions of the services that write: an
\* entry that lies is about to be deleted or has one of the listed causes, for
\* any number of readers and writers.
THEOREM LiesHaveCauses == Spec => []StaleIsExcused
  <1>1. Inv => StaleIsExcused
    BY DEF Inv
  <1>2. QED
    BY <1>1, InvHolds, PTL

=============================================================================
