------------------------- MODULE TaskWorkflowProofs -------------------------
(***************************************************************************)
(* Proofs about TaskWorkflow, for any users, tasks and requests.  What a   *)
(* parked update has read may be stale, but it is only ever stale in one   *)
(* direction: the status it read was reached, and the assignee it read was *)
(* told.  That is the part of Inv that carries the argument.               *)
(***************************************************************************)
EXTENDS TaskWorkflow, SequenceTheorems, TLAPS

FollowUp == Event \cup Key

\* What a parked request can rely on.
RequestOK(q) ==
  /\ q.op # "none" =>
       /\ q.task \in TaskId /\ task[q.task].st # "none"
       /\ q.todo = <<>> /\ q.pc # "follow"
  /\ q.op = "update" =>
       /\ MayMove(q.read.status, q.dto.status)
       /\ Rank[q.read.status] <= reached[q.task]
       /\ q.read.assignee # None => Owed(q.task, Assigned(q.read.assignee))
       /\ q.pc = "write" => MayAssign(q.dto.assignee)
  /\ q.pc = "follow" => q.todo # <<>>
  /\ EventsIn(q.todo) # {} => q.task \in TaskId
  /\ Completed \in EventsIn(q.todo) => reached[q.task] = 3

\* What holds of a task.
TaskOK(t) ==
  /\ Rank[task[t].status] <= reached[t]
  /\ task[t].assignee # None =>
       role[task[t].assignee] # None /\ Owed(t, Assigned(task[t].assignee))
  /\ Completed \in emitted[t] \cup lost[t] => reached[t] = 3
  /\ reached[t] = 3 => Owed(t, Completed)

Inv ==
  /\ TypeOK
  /\ \A r \in Request : RequestOK(req[r])
  /\ \A t \in TaskId : TaskOK(t)

-----------------------------------------------------------------------------
\* The statuses and their order (task-status.enum.ts).
LEMMA RankFacts ==
  /\ Status = {"TODO", "IN_PROGRESS", "REVIEW", "DONE"}
  /\ Rank["TODO"] = 0 /\ Rank["IN_PROGRESS"] = 1
  /\ Rank["REVIEW"] = 2 /\ Rank["DONE"] = 3
  /\ \A s \in Status : Rank[s] \in 0 .. 3 /\ (Rank[s] = 3 <=> s = "DONE")
  /\ Undefined \notin Status
  BY DEF Status, Rank, Undefined

\* Events and keys are told apart by their names.
LEMMA KindFacts ==
  /\ \A u \in User : /\ Assigned(u) \in Event /\ Assigned(u) # Completed
                     /\ DashboardKey(u) \in Key /\ DashboardKey(u) \notin Event
  /\ Completed \in Event
  /\ StatsKey \in Key /\ StatsKey \notin Event
  /\ \A k \in Key : k \notin Event
  BY DEF Event, Key, Assigned, Completed, DashboardKey, StatsKey

\* The events of a list of follow-ups, by the way it is built.
LEMMA EventsMember ==
  ASSUME NEW s, NEW e
  PROVE  e \in EventsIn(s) <=> e \in Event /\ \E i \in DOMAIN s : s[i] = e
  BY DEF EventsIn

LEMMA EventsConcat ==
  ASSUME NEW s \in Seq(FollowUp), NEW t \in Seq(FollowUp)
  PROVE  s \o t \in Seq(FollowUp) /\ EventsIn(s \o t) = EventsIn(s) \cup EventsIn(t)
  <1> DEFINE c == s \o t
  <1>1. \A i \in DOMAIN s : i \in DOMAIN c /\ c[i] = s[i]
    OBVIOUS
  <1>2. \A i \in DOMAIN t : i + Len(s) \in DOMAIN c /\ c[i + Len(s)] = t[i]
    OBVIOUS
  <1>3. \A i \in DOMAIN c :
          \/ i \in DOMAIN s /\ c[i] = s[i]
          \/ i - Len(s) \in DOMAIN t /\ c[i] = t[i - Len(s)]
    <2>1. /\ Len(s) \in Nat /\ DOMAIN s = 1 .. Len(s)
          /\ Len(t) \in Nat /\ DOMAIN t = 1 .. Len(t)
          /\ DOMAIN c = 1 .. Len(s) + Len(t)
      OBVIOUS
    <2>2. \A i \in 1 .. Len(s) + Len(t) :
            c[i] = IF i <= Len(s) THEN s[i] ELSE t[i - Len(s)]
      BY ConcatProperties
    <2> HIDE DEF c
    <2>3. QED
      BY <2>1, <2>2
  <1>4. c \in Seq(FollowUp)
    OBVIOUS
  <1> HIDE DEF c
  <1>5. ASSUME NEW e
        PROVE  e \in EventsIn(c) <=> e \in EventsIn(s) \/ e \in EventsIn(t)
    <2>1. (\E i \in DOMAIN c : c[i] = e)
            => (\E i \in DOMAIN s : s[i] = e) \/ (\E i \in DOMAIN t : t[i] = e)
      BY <1>3
    <2>2. (\E i \in DOMAIN s : s[i] = e) => \E i \in DOMAIN c : c[i] = e
      BY <1>1
    <2>3. (\E i \in DOMAIN t : t[i] = e) => \E i \in DOMAIN c : c[i] = e
      BY <1>2
    <2>4. QED
      BY <2>1, <2>2, <2>3, EventsMember
  <1>6. QED
    BY <1>4, <1>5 DEF c

LEMMA EventsHeadTail ==
  ASSUME NEW s \in Seq(FollowUp), s # <<>>
  PROVE  /\ Head(s) \in FollowUp /\ Tail(s) \in Seq(FollowUp)
         /\ EventsIn(s) = ({Head(s)} \cap Event) \cup EventsIn(Tail(s))
  <1> DEFINE h == Head(s)
             t == Tail(s)
  <1>1. 1 \in DOMAIN s /\ h = s[1]
    OBVIOUS
  <1>2. \A i \in DOMAIN t : i + 1 \in DOMAIN s /\ t[i] = s[i + 1]
    OBVIOUS
  <1>3. \A i \in DOMAIN s : i = 1 \/ (i - 1 \in DOMAIN t /\ s[i] = t[i - 1])
    OBVIOUS
  <1>4. h \in FollowUp /\ t \in Seq(FollowUp)
    OBVIOUS
  <1> HIDE DEF h, t
  <1>5. ASSUME NEW e
        PROVE  e \in EventsIn(s) <=> (e = h /\ e \in Event) \/ e \in EventsIn(t)
    <2>1. (\E i \in DOMAIN s : s[i] = e) => e = h \/ \E i \in DOMAIN t : t[i] = e
      BY <1>1, <1>3
    <2>2. (\E i \in DOMAIN t : t[i] = e) => \E i \in DOMAIN s : s[i] = e
      BY <1>2
    <2>3. e = h => \E i \in DOMAIN s : s[i] = e
      BY <1>1
    <2>4. QED
      BY <2>1, <2>2, <2>3, EventsMember
  <1>6. QED
    BY <1>4, <1>5 DEF h, t

LEMMA EventsShort ==
  /\ <<>> \in Seq(FollowUp) /\ EventsIn(<<>>) = {}
  /\ \A k \in Key : <<k>> \in Seq(FollowUp) /\ EventsIn(<<k>>) = {}
  /\ \A e \in Event : <<e>> \in Seq(FollowUp) /\ EventsIn(<<e>>) = {e}
  <1>1. <<>> \in Seq(FollowUp) /\ EventsIn(<<>>) = {}
    BY DEF EventsIn
  <1>2. ASSUME NEW x \in FollowUp
        PROVE  <<x>> \in Seq(FollowUp) /\ EventsIn(<<x>>) = {x} \cap Event
    BY DEF EventsIn
  <1>3. QED
    BY <1>1, <1>2, KindFacts DEF FollowUp

LEMMA IdleTyped ==
  Idle \in RequestRecord /\ NoTask \in TaskRow /\ NoDto \in Dto
  BY RankFacts DEF Idle, NoTask, NoDto, RequestRecord, TaskRow, Dto

\* The lists that create, update, remove and restore leave themselves.
LEMMA AfterFacts ==
  /\ \A a \in User \cup {None} :
       /\ AfterCreate(a) \in Seq(FollowUp)
       /\ EventsIn(AfterCreate(a)) = IF a = None THEN {} ELSE {Assigned(a)}
  /\ \A x \in TaskRow : /\ AfterSetDeleted(x) \in Seq(FollowUp)
                        /\ EventsIn(AfterSetDeleted(x)) = {}
  /\ \A d \in Dto, x, y \in TaskRow :
       /\ AfterUpdate(d, x, y) \in Seq(FollowUp)
       /\ EventsIn(AfterUpdate(d, x, y)) =
            (IF Tells(d, x, y) THEN {Assigned(d.assignee)} ELSE {})
              \cup (IF Completes(d, x, y) THEN {Completed} ELSE {})
  <1>1. \A a \in User \cup {None} :
          DashboardKeys(a) \in Seq(FollowUp) /\ EventsIn(DashboardKeys(a)) = {}
    BY KindFacts, EventsShort DEF DashboardKeys
  <1>2. <<StatsKey>> \in Seq(FollowUp) /\ EventsIn(<<StatsKey>>) = {}
    BY KindFacts, EventsShort
  <1>3. ASSUME NEW a \in User \cup {None}
        PROVE  /\ AfterCreate(a) \in Seq(FollowUp)
               /\ EventsIn(AfterCreate(a)) = IF a = None THEN {} ELSE {Assigned(a)}
    <2>1. PICK p : p = IF a = None THEN <<>> ELSE <<Assigned(a), DashboardKey(a)>>
      OBVIOUS
    <2>2. /\ p \in Seq(FollowUp)
          /\ EventsIn(p) = IF a = None THEN {} ELSE {Assigned(a)}
      <3>1. CASE a = None
        BY <2>1, <3>1, EventsShort
      <3>2. CASE a # None
        <4>1. Assigned(a) \in FollowUp /\ DashboardKey(a) \in FollowUp
                /\ Assigned(a) \in Event /\ DashboardKey(a) \notin Event
          BY <3>2, KindFacts DEF FollowUp
        <4>2. PICK e, k : e = Assigned(a) /\ k = DashboardKey(a)
          OBVIOUS
        <4>3. p = <<e, k>> /\ e \in FollowUp /\ k \in FollowUp
                /\ e \in Event /\ k \notin Event
          BY <2>1, <3>2, <4>1, <4>2
        <4>4. p \in Seq(FollowUp) /\ EventsIn(p) = {e}
          BY <4>3 DEF EventsIn
        <4>5. QED
          BY <3>2, <4>2, <4>4
      <3>3. QED
        BY <3>1, <3>2
    <2>3. AfterCreate(a) = p \o <<StatsKey>>
      BY <2>1 DEF AfterCreate
    <2>4. PICK k : k = <<StatsKey>>
      OBVIOUS
    <2>5. k \in Seq(FollowUp) /\ EventsIn(k) = {} /\ AfterCreate(a) = p \o k
      BY <1>2, <2>3, <2>4
    <2>6. p \o k \in Seq(FollowUp) /\ EventsIn(p \o k) = EventsIn(p) \cup EventsIn(k)
      BY <2>2, <2>5, EventsConcat
    <2>7. QED
      BY <2>2, <2>5, <2>6
  <1>4. ASSUME NEW x \in TaskRow
        PROVE  /\ AfterSetDeleted(x) \in Seq(FollowUp)
               /\ EventsIn(AfterSetDeleted(x)) = {}
    <2>1. PICK k, l : k = <<StatsKey>> /\ l = DashboardKeys(x.assignee)
      OBVIOUS
    <2>2. /\ k \in Seq(FollowUp) /\ EventsIn(k) = {}
          /\ l \in Seq(FollowUp) /\ EventsIn(l) = {}
      BY <1>1, <1>2, <2>1 DEF TaskRow
    <2>3. AfterSetDeleted(x) = k \o l
      BY <2>1 DEF AfterSetDeleted
    <2>4. QED
      BY <2>2, <2>3, EventsConcat
  <1>5. ASSUME NEW d \in Dto, NEW x \in TaskRow, NEW y \in TaskRow
        PROVE  /\ AfterUpdate(d, x, y) \in Seq(FollowUp)
               /\ EventsIn(AfterUpdate(d, x, y)) =
                    (IF Tells(d, x, y) THEN {Assigned(d.assignee)} ELSE {})
                      \cup (IF Completes(d, x, y) THEN {Completed} ELSE {})
    <2>1. PICK e, k, l : /\ e = <<Assigned(d.assignee)>>
                         /\ k = DashboardKeys(d.assignee)
                         /\ l = DashboardKeys(x.assignee)
      OBVIOUS
    <2>2. PICK p, q, s :
            /\ p = IF Tells(d, x, y) THEN e \o k \o l ELSE <<>>
            /\ q = IF Completes(d, x, y) THEN <<Completed>> ELSE <<>>
            /\ s = IF d.status \notin {Undefined, x.status}
                     THEN <<StatsKey>> \o DashboardKeys(y.assignee) ELSE <<>>
      OBVIOUS
    <2>3. /\ p \in Seq(FollowUp)
          /\ EventsIn(p) = IF Tells(d, x, y) THEN {Assigned(d.assignee)} ELSE {}
      <3>1. CASE Tells(d, x, y)
        <4>1. d.assignee \in User /\ x.assignee \in User \cup {None}
          BY <3>1 DEF Tells, TaskRow
        <4>2. /\ e \in Seq(FollowUp) /\ EventsIn(e) = {Assigned(d.assignee)}
              /\ k \in Seq(FollowUp) /\ EventsIn(k) = {}
              /\ l \in Seq(FollowUp) /\ EventsIn(l) = {}
          BY <1>1, <2>1, <4>1, KindFacts, EventsShort
        <4>3. /\ e \o k \in Seq(FollowUp)
              /\ EventsIn(e \o k) = {Assigned(d.assignee)}
          BY <4>2, EventsConcat
        <4>4. PICK ek : ek = e \o k
          OBVIOUS
        <4>5. p = ek \o l /\ ek \in Seq(FollowUp)
                /\ EventsIn(ek) = {Assigned(d.assignee)}
          BY <2>2, <3>1, <4>3, <4>4
        <4>6. QED
          BY <3>1, <4>2, <4>5, EventsConcat
      <3>2. CASE ~Tells(d, x, y)
        BY <2>2, <3>2, EventsShort
      <3>3. QED
        BY <3>1, <3>2
    <2>4. /\ q \in Seq(FollowUp)
          /\ EventsIn(q) = IF Completes(d, x, y) THEN {Completed} ELSE {}
      BY <2>2, EventsShort, KindFacts
    <2>5. s \in Seq(FollowUp) /\ EventsIn(s) = {}
      <3>1. AfterSetDeleted(y) = <<StatsKey>> \o DashboardKeys(y.assignee)
        BY DEF AfterSetDeleted
      <3>2. QED
        BY <1>4, <2>2, <3>1, EventsShort
    <2>6. AfterUpdate(d, x, y) = p \o q \o s
      BY <2>1, <2>2 DEF AfterUpdate
    <2>7. PICK pq : pq = p \o q
      OBVIOUS
    <2>8. pq \in Seq(FollowUp) /\ EventsIn(pq) = EventsIn(p) \cup EventsIn(q)
      BY <2>3, <2>4, <2>7, EventsConcat
    <2>9. /\ pq \o s \in Seq(FollowUp)
          /\ EventsIn(pq \o s) = EventsIn(p) \cup EventsIn(q)
      BY <2>5, <2>8, EventsConcat
    <2>10. QED
      BY <2>3, <2>4, <2>6, <2>7, <2>9
  <1>6. QED
    BY <1>3, <1>4, <1>5

\* The record of a request with a list of follow-ups.
LEMMA FollowingFacts ==
  ASSUME NEW t \in TaskId \cup {None}, NEW todo \in Seq(FollowUp),
         EventsIn(todo) # {} => t \in TaskId
  PROVE  /\ Following(t, todo) \in RequestRecord
         /\ Following(t, todo).op = "none"
         /\ Following(t, todo).todo = todo
         /\ Following(t, todo).pc = "follow" => todo # <<>>
         /\ EventsIn(todo) # {} => Following(t, todo).task = t
  <1>1. CASE todo = <<>>
    BY <1>1, IdleTyped, EventsShort DEF Following, Idle
  <1>2. CASE todo # <<>>
    BY <1>2, IdleTyped DEF Following, Idle, RequestRecord, FollowUp
  <1>3. QED
    BY <1>1, <1>2

LEMMA InitInv == Init => Inv
  <1> SUFFICES ASSUME Init PROVE Inv
    OBVIOUS
  <1>1. role \in [User -> Role \cup {None}]
    BY DEF Init, Role, ROLE_HIERARCHY
  <1>2. TypeOK
    BY <1>1, IdleTyped, RankFacts DEF Init, TypeOK
  <1>3. \A r \in Request : RequestOK(req[r])
    BY EventsShort DEF Init, RequestOK, Idle
  <1>4. \A t \in TaskId : TaskOK(t)
    BY RankFacts DEF Init, TaskOK, NoTask
  <1>5. QED
    BY <1>2, <1>3, <1>4 DEF Inv

-----------------------------------------------------------------------------
\* Replacing the record of one request: what it owed must be settled or still
\* be owed, and what was settled must stay so.
LEMMA OwedStays ==
  ASSUME Inv, NEW r \in Request, NEW x, req' = [req EXCEPT ![r] = x],
         \A t \in TaskId : emitted[t] \cup lost[t] \subseteq emitted'[t] \cup lost'[t],
         \A t \in TaskId, e \in EventsIn(req[r].todo) :
           req[r].task = t =>
             \/ e \in emitted'[t] \cup lost'[t]
             \/ x.task = t /\ e \in EventsIn(x.todo)
  PROVE  \A t \in TaskId, e \in Event : Owed(t, e) => Owed(t, e)'
  <1>1. req'[r] = x /\ \A q \in Request : q # r => req'[q] = req[q]
    BY DEF Inv, TypeOK
  <1>2. ASSUME NEW t \in TaskId, NEW e \in Event, Owed(t, e)
        PROVE  Owed(t, e)'
    <2>1. CASE e \in emitted[t] \cup lost[t]
      BY <2>1 DEF Owed
    <2>2. CASE \E q \in Request : req[q].task = t /\ e \in EventsIn(req[q].todo)
      <3>1. PICK q \in Request : req[q].task = t /\ e \in EventsIn(req[q].todo)
        BY <2>2
      <3>2. CASE q = r
        BY <1>1, <3>1, <3>2 DEF Owed
      <3>3. CASE q # r
        BY <1>1, <3>1, <3>3 DEF Owed
      <3>4. QED
        BY <3>2, <3>3
    <2>3. QED
      BY <1>2, <2>1, <2>2 DEF Owed
  <1>3. QED
    BY <1>2

\* What RequestOK and TaskOK say survives a step that settles nothing less,
\* keeps the rows in place and their history growing, and takes no membership.
LEMMA RequestStays ==
  ASSUME Inv, NEW q \in Request,
         \A t \in TaskId, e \in Event : Owed(t, e) => Owed(t, e)',
         \A t \in TaskId : /\ task[t].st # "none" => task'[t].st # "none"
                           /\ reached[t] <= reached'[t] /\ reached'[t] \in 0 .. 3,
         \A u \in User : role[u] # None => role'[u] # None,
         req'[q] = req[q]
  PROVE  RequestOK(req[q])'
  <1>1. req[q] \in RequestRecord /\ RequestOK(req[q])
    BY DEF Inv, TypeOK
  <1>2. req[q].op = "update" =>
          /\ Rank[req[q].read.status] <= reached'[req[q].task]
          /\ req[q].read.assignee # None =>
               Owed(req[q].task, Assigned(req[q].read.assignee))'
          /\ req[q].pc = "write" => MayAssign(req[q].dto.assignee)'
    <2>1. req[q].read.status \in Status /\ req[q].read.assignee \in User \cup {None}
      BY <1>1 DEF RequestRecord, TaskRow
    <2>2. Rank[req[q].read.status] \in 0 .. 3
      BY <2>1, RankFacts
    <2>3. ASSUME req[q].op = "update"
          PROVE  Rank[req[q].read.status] <= reached'[req[q].task]
      <3>1. /\ req[q].task \in TaskId
            /\ Rank[req[q].read.status] <= reached[req[q].task]
        BY <1>1, <2>3 DEF RequestOK
      <3>2. reached[req[q].task] \in 0 .. 3
        BY <3>1 DEF Inv, TypeOK
      <3>3. QED
        BY <2>2, <3>1, <3>2
    <2>4. req[q].op = "update" /\ req[q].read.assignee # None =>
            Owed(req[q].task, Assigned(req[q].read.assignee))'
      BY <1>1, <2>1, KindFacts DEF RequestOK
    <2>5. MayAssign(req[q].dto.assignee) => MayAssign(req[q].dto.assignee)'
      BY DEF MayAssign
    <2>6. QED
      BY <1>1, <2>3, <2>4, <2>5 DEF RequestOK
  <1>3. Completed \in EventsIn(req[q].todo) => reached'[req[q].task] = 3
    <2>1. SUFFICES ASSUME Completed \in EventsIn(req[q].todo)
                   PROVE  reached'[req[q].task] = 3
      OBVIOUS
    <2>2. req[q].task \in TaskId /\ reached[req[q].task] = 3
      BY <1>1, <2>1 DEF RequestOK
    <2>3. QED
      BY <2>2
  <1>4. QED
    BY <1>1, <1>2, <1>3 DEF RequestOK

LEMMA TaskStays ==
  ASSUME Inv, NEW t \in TaskId,
         \A e \in Event : Owed(t, e) => Owed(t, e)',
         \/ task'[t].status = task[t].status
         \/ Rank[task'[t].status] = 0,
         \/ task'[t].assignee = task[t].assignee
         \/ task'[t].assignee = None,
         \A u \in User : role[u] # None => role'[u] # None,
         reached'[t] = reached[t],
         Completed \in emitted'[t] \cup lost'[t] => reached[t] = 3
  PROVE  TaskOK(t)'
  <1>1. TaskOK(t) /\ task[t] \in TaskRow /\ reached[t] \in 0 .. 3
    BY DEF Inv, TypeOK
  <1>2. Rank[task'[t].status] <= reached'[t]
    BY <1>1 DEF TaskOK
  <1>3. PICK a, c : a = task'[t].assignee /\ c = Completed
    OBVIOUS
  <1>4. a # None => role'[a] # None /\ Owed(t, Assigned(a))'
    <2>1. SUFFICES ASSUME a # None
                   PROVE  role'[a] # None /\ Owed(t, Assigned(a))'
      OBVIOUS
    <2>2. a = task[t].assignee /\ a \in User
      BY <1>1, <1>3, <2>1 DEF TaskRow
    <2>3. PICK e \in Event : e = Assigned(a)
      BY <2>2, KindFacts
    <2>4. role[a] # None /\ Owed(t, e)
      BY <1>1, <2>1, <2>2, <2>3 DEF TaskOK
    <2>5. QED
      BY <2>2, <2>3, <2>4 DEF Assigned
  <1>5. reached'[t] = 3 => Owed(t, c)'
    BY <1>1, <1>3, KindFacts DEF TaskOK
  <1>6. QED
    BY <1>2, <1>3, <1>4, <1>5 DEF TaskOK, Completed

\* A step that only moves one request, to an acceptable record that owes the
\* same events, keeps Inv.
LEMMA OnlyRequest ==
  ASSUME Inv, NEW r \in Request, NEW x \in RequestRecord, RequestOK(x),
         req' = [req EXCEPT ![r] = x],
         EventsIn(req[r].todo) # {} =>
           x.task = req[r].task /\ EventsIn(req[r].todo) \subseteq EventsIn(x.todo),
         UNCHANGED <<role, task, reached, emitted, lost>>
  PROVE  Inv'
  <1>1. TypeOK'
    BY DEF Inv, TypeOK
  <1>2. req'[r] = x /\ \A q \in Request : q # r => req'[q] = req[q]
    BY DEF Inv, TypeOK
  <1>3. \A t \in TaskId, e \in Event : Owed(t, e) => Owed(t, e)'
    BY OwedStays
  <1>4. ASSUME NEW q \in Request PROVE RequestOK(req[q])'
    <2>1. CASE q # r
      <3>1. \A t \in TaskId : reached[t] <= reached'[t] /\ reached'[t] \in 0 .. 3
        BY DEF Inv, TypeOK
      <3>2. QED
        BY <1>2, <1>3, <2>1, <3>1, RequestStays
    <2>2. CASE q = r
      <3>1. x.op = "update" => x.task \in TaskId
        BY DEF RequestOK
      <3>2. x.read.assignee \in User \cup {None}
        BY DEF RequestRecord, TaskRow
      <3>3. x.op = "update" /\ x.read.assignee # None =>
              Owed(x.task, Assigned(x.read.assignee))'
        BY <1>3, <3>1, <3>2, KindFacts DEF RequestOK
      <3>4. QED
        BY <1>2, <2>2, <3>3 DEF RequestOK, MayAssign
    <2>3. QED
      BY <2>1, <2>2
  <1>5. ASSUME NEW t \in TaskId PROVE TaskOK(t)'
    <2>1. Completed \in emitted'[t] \cup lost'[t] => reached[t] = 3
      BY DEF Inv, TaskOK
    <2>2. QED
      BY <1>3, <2>1, TaskStays
  <1>6. QED
    BY <1>1, <1>4, <1>5 DEF Inv

LEMMA ReadInv ==
  ASSUME Inv, NEW r \in Request, NEW t \in TaskId,
         RemoveRead(r, t) \/ RestoreRead(r, t) \/ \E d \in Input : UpdateRead(r, t, d)
  PROVE  Inv'
  <1>1. task[t] \in TaskRow /\ TaskOK(t)
    BY DEF Inv, TypeOK
  <1>2. EventsIn(Idle.todo) = {}
    BY EventsShort DEF Idle
  <1>3. ASSUME NEW op \in {"remove", "restore"},
               req[r] = Idle, task[t].st # "none",
               req' = [req EXCEPT ![r] =
                 [Idle EXCEPT !.pc = "member", !.op = op, !.task = t,
                              !.read.assignee = task[t].assignee]],
               UNCHANGED <<role, task, reached, emitted, lost>>
        PROVE  Inv'
    <2> DEFINE x == [Idle EXCEPT !.pc = "member", !.op = op, !.task = t,
                                 !.read.assignee = task[t].assignee]
    <2>1. [NoTask EXCEPT !.assignee = task[t].assignee] \in TaskRow
      BY <1>1, IdleTyped DEF TaskRow, NoTask
    <2>2. x = [Idle EXCEPT !.pc = "member", !.op = op, !.task = t,
                           !.read = [NoTask EXCEPT !.assignee = task[t].assignee]]
      BY DEF Idle
    <2>3. x \in RequestRecord
      BY <2>1, <2>2, IdleTyped DEF RequestRecord
    <2>4. /\ x.op = op /\ x.task = t /\ x.todo = <<>> /\ x.pc = "member"
      BY DEF Idle
    <2> HIDE DEF x
    <2>5. RequestOK(x)
      BY <1>3, <2>4, EventsShort DEF RequestOK
    <2>6. QED
      BY <1>2, <1>3, <2>3, <2>5, OnlyRequest DEF x
  <1>4. ASSUME NEW d \in Input, UpdateRead(r, t, d)
        PROVE  Inv'
    <2> DEFINE x == [Idle EXCEPT !.pc = "member", !.op = "update", !.task = t,
                                 !.dto = d, !.read = task[t]]
    <2>1. x \in RequestRecord
      BY <1>1, IdleTyped, InputAssumption DEF RequestRecord
    <2>2. /\ x.pc = "member" /\ x.op = "update" /\ x.task = t /\ x.dto = d
          /\ x.read = task[t] /\ x.todo = <<>>
      BY DEF Idle
    <2>3. req' = [req EXCEPT ![r] = x] /\ req[r] = Idle
            /\ UNCHANGED <<role, task, reached, emitted, lost>>
      BY <1>4 DEF UpdateRead
    <2> HIDE DEF x
    <2>4. RequestOK(x)
      BY <1>1, <1>4, <2>2, EventsShort DEF RequestOK, UpdateRead, Found, TaskOK
    <2>5. QED
      BY <1>2, <2>1, <2>3, <2>4, OnlyRequest
  <1>5. CASE RemoveRead(r, t)
    BY <1>3, <1>5 DEF RemoveRead, Found
  <1>6. CASE RestoreRead(r, t)
    BY <1>3, <1>6 DEF RestoreRead
  <1>7. QED
    BY <1>4, <1>5, <1>6

LEMMA CheckInv ==
  ASSUME Inv, NEW r \in Request,
         CheckAssignee(r) \/ \E u \in User : CheckRole(r, u)
  PROVE  Inv'
  <1>1. req[r] \in RequestRecord /\ RequestOK(req[r])
    BY DEF Inv, TypeOK
  <1>2. PICK pc \in {"assign", "write"} :
          /\ req' = [req EXCEPT ![r].pc = pc]
          /\ pc = "write" => MayAssign(req[r].dto.assignee)
          /\ req[r].pc # "follow"
          /\ UNCHANGED <<role, task, reached, emitted, lost>>
    <2>1. CASE CheckAssignee(r)
      BY <2>1 DEF CheckAssignee
    <2>2. ASSUME NEW u \in User, CheckRole(r, u)
          PROVE  \E pc \in {"assign", "write"} :
                   /\ req' = [req EXCEPT ![r].pc = pc]
                   /\ pc = "write" => MayAssign(req[r].dto.assignee)
                   /\ req[r].pc # "follow"
                   /\ UNCHANGED <<role, task, reached, emitted, lost>>
      BY <2>2 DEF CheckRole, MayAssign
    <2>3. QED
      BY <2>1, <2>2
  <1> DEFINE x == [req[r] EXCEPT !.pc = pc]
  <1>3. /\ x \in RequestRecord
        /\ x.pc = pc /\ x.op = req[r].op /\ x.task = req[r].task
        /\ x.dto = req[r].dto /\ x.read = req[r].read /\ x.todo = req[r].todo
    BY <1>1 DEF RequestRecord
  <1>4. req' = [req EXCEPT ![r] = x]
    BY <1>2 DEF Inv, TypeOK
  <1> HIDE DEF x
  <1>5. RequestOK(x)
    BY <1>1, <1>2, <1>3 DEF RequestOK
  <1>6. QED
    BY <1>2, <1>3, <1>4, <1>5, OnlyRequest

LEMMA InvalidateInv ==
  ASSUME Inv, NEW r \in Request, Invalidate(r)
  PROVE  Inv'
  <1>1. /\ req[r] \in RequestRecord /\ RequestOK(req[r]) /\ req[r].pc = "follow"
    BY DEF Inv, TypeOK, Invalidate
  <1>2. PICK todo, t : todo = req[r].todo /\ t = req[r].task
    OBVIOUS
  <1>3. todo \in Seq(FollowUp) /\ todo # <<>> /\ t \in TaskId \cup {None}
    BY <1>1, <1>2 DEF RequestRecord, RequestOK, FollowUp
  <1>4. Tail(todo) \in Seq(FollowUp) /\ EventsIn(Tail(todo)) = EventsIn(todo)
    <2>1. Head(todo) \notin Event
      BY <1>2, KindFacts DEF Invalidate
    <2>2. /\ Tail(todo) \in Seq(FollowUp)
          /\ EventsIn(todo) = ({Head(todo)} \cap Event) \cup EventsIn(Tail(todo))
      BY <1>3, EventsHeadTail
    <2>3. QED
      BY <2>1, <2>2
  <1>5. EventsIn(Tail(todo)) # {} => t \in TaskId
    BY <1>1, <1>2, <1>4 DEF RequestOK
  <1>6. PICK x : x = Following(t, Tail(todo))
    OBVIOUS
  <1>7. /\ x \in RequestRecord /\ x.op = "none"
        /\ EventsIn(x.todo) = EventsIn(todo)
        /\ x.pc = "follow" => x.todo # <<>>
        /\ EventsIn(todo) # {} => x.task = t
    <2>1. PICK rest : rest = Tail(todo)
      OBVIOUS
    <2>2. /\ rest \in Seq(FollowUp) /\ (EventsIn(rest) # {} => t \in TaskId)
          /\ EventsIn(rest) = EventsIn(todo) /\ x = Following(t, rest)
      BY <1>4, <1>5, <1>6, <2>1
    <2>3. /\ x \in RequestRecord /\ x.op = "none" /\ x.todo = rest
          /\ x.pc = "follow" => rest # <<>>
          /\ EventsIn(rest) # {} => x.task = t
      BY <1>3, <2>2, FollowingFacts
    <2>4. QED
      BY <2>2, <2>3
  <1>8. RequestOK(x)
    BY <1>1, <1>2, <1>4, <1>5, <1>7 DEF RequestOK
  <1>9. QED
    BY <1>2, <1>6, <1>7, <1>8, OnlyRequest DEF Invalidate

-----------------------------------------------------------------------------
\* A write: one row changes, and the request that wrote it owes what it owes.
LEMMA WriteInv ==
  ASSUME Inv, NEW r \in Request, NEW t \in TaskId, NEW row \in TaskRow,
         NEW todo \in Seq(FollowUp), NEW high \in 0 .. 3,
         EventsIn(req[r].todo) = {}, row.st # "none",
         task' = [task EXCEPT ![t] = row],
         req' = [req EXCEPT ![r] = Following(t, todo)],
         reached' = [reached EXCEPT ![t] = high],
         UNCHANGED <<role, emitted, lost>>,
         reached[t] <= high, Rank[row.status] <= high,
         row.assignee # None =>
           /\ role[row.assignee] # None
           /\ \/ Owed(t, Assigned(row.assignee))
              \/ Assigned(row.assignee) \in EventsIn(todo),
         high = 3 => reached[t] = 3 \/ Completed \in EventsIn(todo),
         Completed \in EventsIn(todo) => high = 3
  PROVE  Inv'
  <1>1. PICK x : x = Following(t, todo)
    OBVIOUS
  <1>2. /\ x \in RequestRecord /\ x.op = "none" /\ x.todo = todo
        /\ x.pc = "follow" => todo # <<>>
        /\ EventsIn(todo) # {} => x.task = t
    BY <1>1, FollowingFacts
  <1>3. /\ req'[r] = x /\ \A q \in Request : q # r => req'[q] = req[q]
        /\ task'[t] = row /\ \A s \in TaskId : s # t => task'[s] = task[s]
        /\ reached'[t] = high /\ \A s \in TaskId : s # t => reached'[s] = reached[s]
    BY <1>1 DEF Inv, TypeOK
  <1>4. TypeOK'
    BY <1>1, <1>2 DEF Inv, TypeOK
  <1>5. \A s \in TaskId, e \in Event : Owed(s, e) => Owed(s, e)'
    BY OwedStays
  <1>6. \A e \in EventsIn(todo) : Owed(t, e)'
    BY <1>2, <1>3 DEF Owed
  <1>7. ASSUME NEW q \in Request PROVE RequestOK(req[q])'
    <2>1. CASE q # r
      <3>1. \A s \in TaskId : /\ task[s].st # "none" => task'[s].st # "none"
                              /\ reached[s] <= reached'[s] /\ reached'[s] \in 0 .. 3
        BY <1>3 DEF Inv, TypeOK
      <3>2. QED
        BY <1>3, <1>5, <2>1, <3>1, RequestStays
    <2>2. CASE q = r
      BY <1>2, <1>3, <2>2 DEF RequestOK
    <2>3. QED
      BY <2>1, <2>2
  <1>8. ASSUME NEW s \in TaskId PROVE TaskOK(s)'
    <2>1. TaskOK(s) /\ reached[s] \in 0 .. 3
      BY DEF Inv, TypeOK
    <2>2. CASE s # t
      BY <1>3, <1>5, <2>1, <2>2, TaskStays DEF TaskOK
    <2>3. CASE s = t
      <3>1. PICK e, c : e = Assigned(row.assignee) /\ c = Completed
        OBVIOUS
      <3>2. row.assignee # None => Owed(t, e)'
        BY <1>5, <1>6, <3>1, KindFacts DEF TaskRow
      <3>3. reached'[t] = 3 => Owed(t, c)'
        BY <1>3, <1>5, <1>6, <2>1, <2>3, <3>1, KindFacts DEF TaskOK
      <3>4. Completed \in emitted[t] \cup lost[t] => high = 3
        BY <2>1, <2>3 DEF TaskOK
      <3>5. QED
        BY <1>3, <2>3, <3>1, <3>2, <3>3, <3>4 DEF TaskOK, Completed, Assigned
    <2>4. QED
      BY <2>2, <2>3
  <1>9. QED
    BY <1>4, <1>7, <1>8 DEF Inv

LEMMA CreateInv ==
  ASSUME Inv, NEW r \in Request, NEW u \in User, NEW t \in TaskId,
         NEW a \in User \cup {None}, CreateTask(r, u, t, a)
  PROVE  Inv'
  <1> DEFINE row == [st |-> "live", status |-> "TODO", assignee |-> a]
             todo == AfterCreate(a)
  <1>1. row \in TaskRow /\ Rank[row.status] = 0
    BY RankFacts DEF TaskRow
  <1>2. /\ todo \in Seq(FollowUp)
        /\ EventsIn(todo) = IF a = None THEN {} ELSE {Assigned(a)}
    BY AfterFacts
  <1>3. EventsIn(req[r].todo) = {}
    BY EventsShort DEF CreateTask, Idle
  <1>4. reached[t] \in 0 .. 3 /\ reached' = [reached EXCEPT ![t] = reached[t]]
    BY DEF CreateTask, Inv, TypeOK
  <1>5. row.assignee # None =>
          role[row.assignee] # None /\ Assigned(row.assignee) \in EventsIn(todo)
    BY <1>2 DEF CreateTask, MayAssign
  <1>6. /\ Completed \notin EventsIn(todo)
        /\ task' = [task EXCEPT ![t] = row]
        /\ req' = [req EXCEPT ![r] = Following(t, todo)]
        /\ UNCHANGED <<role, emitted, lost>>
    BY <1>2, KindFacts DEF CreateTask
  <1>7. row.st # "none"
    OBVIOUS
  <1> HIDE DEF row, todo
  <1>8. Rank[row.status] <= reached[t] /\ reached[t] <= reached[t]
    BY <1>1, <1>4
  <1>9. QED
    BY <1>1, <1>2, <1>3, <1>4, <1>5, <1>6, <1>7, <1>8, WriteInv


\* An update's write: the highest status grows by at most one.
LEMMA WriteBound ==
  ASSUME Inv, NEW r \in Request, UpdateWrite(r)
  PROVE  LET t == req[r].task
             row == Updated(task[t], req[r].dto)
         IN /\ t \in TaskId /\ row \in TaskRow
            /\ Rank[row.status] \in 0 .. 3 /\ reached[t] \in 0 .. 3
            /\ Rank[row.status] <= reached[t] + 1
            /\ Rank[row.status] > reached[t] =>
                 /\ row.status = req[r].dto.status
                 /\ req[r].dto.status # req[r].read.status
  <1> DEFINE q == req[r]
             t == q.task
             row == Updated(task[t], q.dto)
  <1>1. /\ q \in RequestRecord /\ RequestOK(q) /\ q.op = "update" /\ q.pc = "write"
    BY DEF Inv, TypeOK, UpdateWrite
  <1>2. /\ t \in TaskId /\ task[t] \in TaskRow /\ TaskOK(t)
        /\ reached[t] \in 0 .. 3
    BY <1>1 DEF RequestOK, Inv, TypeOK
  <1>3. /\ q.dto \in Dto /\ q.read \in TaskRow
        /\ q.dto.status \in Status \cup {Undefined}
        /\ q.dto.assignee \in User \cup {None, Undefined}
        /\ q.read.status \in Status
    BY <1>1 DEF RequestRecord, Dto, TaskRow
  <1>4. row.status = IF q.dto.status = Undefined THEN task[t].status ELSE q.dto.status
    BY <1>2 DEF Updated, TaskRow
  <1>5. row \in TaskRow
    BY <1>2, <1>3 DEF Updated, TaskRow
  <1>6. /\ Rank[q.read.status] <= reached[t] /\ MayMove(q.read.status, q.dto.status)
        /\ Rank[task[t].status] <= reached[t]
    BY <1>1, <1>2 DEF RequestOK, TaskOK
  <1> HIDE DEF q, t, row
  <1>7. Rank[row.status] \in 0 .. 3 /\ Rank[q.read.status] \in 0 .. 3
    BY <1>3, <1>5, RankFacts DEF TaskRow
  <1>8. /\ Rank[row.status] <= reached[t] + 1
        /\ Rank[row.status] > reached[t] =>
             row.status = q.dto.status /\ q.dto.status # q.read.status
    <2>1. CASE q.dto.status = Undefined
      BY <1>2, <1>4, <1>6, <1>7, <2>1
    <2>2. CASE q.dto.status = q.read.status /\ q.dto.status # Undefined
      BY <1>2, <1>4, <1>6, <1>7, <2>2
    <2>3. CASE q.dto.status \notin {Undefined, q.read.status}
      BY <1>2, <1>4, <1>6, <1>7, <2>3 DEF MayMove
    <2>4. QED
      BY <2>1, <2>2, <2>3
  <1>9. QED
    BY <1>2, <1>5, <1>7, <1>8 DEF q, t, row

LEMMA UpdateWriteInv ==
  ASSUME Inv, NEW r \in Request, UpdateWrite(r)
  PROVE  Inv'
  <1>1. PICK t, d, x, row, todo :
          /\ t = req[r].task /\ d = req[r].dto /\ x = req[r].read
          /\ row = Updated(task[t], d) /\ todo = AfterUpdate(d, x, row)
    OBVIOUS
  <1>2. /\ req[r] \in RequestRecord /\ RequestOK(req[r])
        /\ req[r].op = "update" /\ req[r].pc = "write"
    BY DEF Inv, TypeOK, UpdateWrite
  <1>3. /\ t \in TaskId /\ row \in TaskRow
        /\ Rank[row.status] \in 0 .. 3 /\ reached[t] \in 0 .. 3
        /\ Rank[row.status] > reached[t] =>
             row.status = d.status /\ d.status # x.status
    BY <1>1, WriteBound
  <1>4. PICK high : high = IF Rank[row.status] > reached[t] THEN Rank[row.status]
                                                            ELSE reached[t]
    OBVIOUS
  <1>5. high \in 0 .. 3 /\ reached[t] <= high /\ Rank[row.status] <= high
    BY <1>3, <1>4
  <1>6. /\ d \in Dto /\ x \in TaskRow /\ task[t] \in TaskRow /\ TaskOK(t)
        /\ d.status \in Status \cup {Undefined}
        /\ d.assignee \in User \cup {None, Undefined}
        /\ x.status \in Status /\ row.status \in Status
    BY <1>1, <1>2, <1>3 DEF RequestRecord, Inv, TypeOK, Dto, TaskRow
  <1>7. /\ todo \in Seq(FollowUp)
        /\ EventsIn(todo) = (IF Tells(d, x, row) THEN {Assigned(d.assignee)} ELSE {})
                              \cup (IF Completes(d, x, row) THEN {Completed} ELSE {})
    BY <1>1, <1>3, <1>6, AfterFacts
  <1>8. /\ task' = [task EXCEPT ![t] = row]
        /\ req' = [req EXCEPT ![r] = Following(t, todo)]
        /\ reached' = [reached EXCEPT ![t] = high]
        /\ UNCHANGED <<role, emitted, lost>>
        /\ task[t].st # "gone"
    BY <1>1, <1>3, <1>4 DEF UpdateWrite, Inv, TypeOK
  <1>9. /\ row.st = task[t].st
        /\ row.status = IF d.status = Undefined THEN task[t].status ELSE d.status
        /\ row.assignee = IF d.assignee = Undefined THEN task[t].assignee ELSE d.assignee
    BY <1>1, <1>6 DEF Updated, TaskRow
  <1>10. row.st # "none" /\ EventsIn(req[r].todo) = {}
    BY <1>1, <1>2, <1>9, EventsShort DEF RequestOK
  <1>11. row.assignee # None =>
           /\ role[row.assignee] # None
           /\ \/ Owed(t, Assigned(row.assignee))
              \/ Assigned(row.assignee) \in EventsIn(todo)
    <2>1. CASE row.assignee = task[t].assignee
      BY <1>6, <2>1 DEF TaskOK
    <2>2. CASE row.assignee = d.assignee /\ d.assignee # None /\ d.assignee # Undefined
      <3>1. d.assignee \in User
        BY <1>6, <2>2
      <3>2. role[d.assignee] # None
        BY <1>1, <1>2, <3>1 DEF RequestOK, MayAssign
      <3>3. CASE x.assignee = d.assignee
        BY <1>1, <1>2, <2>2, <3>2, <3>3 DEF RequestOK
      <3>4. CASE x.assignee # d.assignee
        BY <1>7, <2>2, <3>1, <3>2, <3>4 DEF Tells
      <3>5. QED
        BY <3>3, <3>4
    <2>3. QED
      BY <1>9, <2>1, <2>2
  <1>12. high = 3 => reached[t] = 3 \/ Completed \in EventsIn(todo)
    <2>1. SUFFICES ASSUME high = 3, reached[t] # 3
                   PROVE  Completed \in EventsIn(todo)
      OBVIOUS
    <2>2. Rank[row.status] = 3 /\ Rank[row.status] > reached[t]
      BY <1>3, <1>4, <2>1
    <2>3. d.status = "DONE" /\ x.status # "DONE"
      BY <1>3, <1>6, <2>2, RankFacts
    <2>4. QED
      BY <1>7, <2>3 DEF Completes
  <1>13. Completed \in EventsIn(todo) => high = 3
    <2>1. SUFFICES ASSUME Completed \in EventsIn(todo) PROVE high = 3
      OBVIOUS
    <2>2. Completes(d, x, row)
      BY <1>7, <2>1, KindFacts DEF Tells
    <2>3. row.status = "DONE"
      BY <1>9, <2>2 DEF Completes, Undefined
    <2>4. QED
      BY <1>3, <1>5, <2>3, RankFacts
  <1>14. QED
    BY <1>3, <1>5, <1>7, <1>8, <1>10, <1>11, <1>12, <1>13, WriteInv

LEMMA SetDeletedInv ==
  ASSUME Inv, NEW r \in Request, SetDeleted(r)
  PROVE  Inv'
  <1>1. PICK t, x, st, row, todo :
          /\ t = req[r].task /\ x = req[r].read
          /\ st = IF req[r].op = "remove" THEN "deleted" ELSE "live"
          /\ row = [task[t] EXCEPT !.st = st] /\ todo = AfterSetDeleted(x)
    OBVIOUS
  <1>2. /\ req[r] \in RequestRecord /\ RequestOK(req[r])
        /\ req[r].op \in {"remove", "restore"}
    BY DEF Inv, TypeOK, SetDeleted
  <1>3. /\ t \in TaskId /\ EventsIn(req[r].todo) = {}
    BY <1>1, <1>2, EventsShort DEF RequestOK
  <1>4. /\ task[t] \in TaskRow /\ TaskOK(t) /\ reached[t] \in 0 .. 3
        /\ x \in TaskRow
    BY <1>1, <1>2, <1>3 DEF RequestRecord, Inv, TypeOK
  <1>5. /\ row \in TaskRow /\ row.st # "none" /\ row.status = task[t].status
        /\ row.assignee = task[t].assignee
    BY <1>1, <1>4 DEF TaskRow
  <1>6. todo \in Seq(FollowUp) /\ EventsIn(todo) = {}
    BY <1>1, <1>4, AfterFacts
  <1>7. /\ task' = [task EXCEPT ![t] = row]
        /\ req' = [req EXCEPT ![r] = Following(t, todo)]
        /\ reached' = [reached EXCEPT ![t] = reached[t]]
        /\ UNCHANGED <<role, emitted, lost>>
    BY <1>1, <1>3, <1>4 DEF SetDeleted, Inv, TypeOK
  <1>8. PICK high : high = reached[t]
    OBVIOUS
  <1>9. /\ high \in 0 .. 3 /\ reached[t] <= high /\ Rank[row.status] <= high
        /\ reached' = [reached EXCEPT ![t] = high]
        /\ row.assignee # None =>
             role[row.assignee] # None /\ Owed(t, Assigned(row.assignee))
        /\ high = 3 => reached[t] = 3
        /\ Completed \notin EventsIn(todo)
    BY <1>4, <1>5, <1>6, <1>7, <1>8 DEF TaskOK
  <1>10. QED
    BY <1>3, <1>5, <1>6, <1>7, <1>9, WriteInv

-----------------------------------------------------------------------------
\* Emitting: the event moves from what the request owes to what was emitted.
LEMMA AnnounceInv ==
  ASSUME Inv, NEW r \in Request, Announce(r)
  PROVE  Inv'
  <1>1. req[r] \in RequestRecord /\ RequestOK(req[r]) /\ req[r].pc = "follow"
    BY DEF Inv, TypeOK, Announce
  <1>2. PICK todo, t, e, rest : /\ todo = req[r].todo /\ t = req[r].task
                                /\ e = Head(todo) /\ rest = Tail(todo)
    OBVIOUS
  <1>3. todo \in Seq(FollowUp) /\ todo # <<>> /\ e \in Event
    BY <1>1, <1>2 DEF RequestRecord, RequestOK, FollowUp, Announce
  <1>4. /\ rest \in Seq(FollowUp)
        /\ EventsIn(todo) = {e} \cup EventsIn(rest)
    BY <1>2, <1>3, EventsHeadTail
  <1>5. t \in TaskId /\ (Completed \in EventsIn(todo) => reached[t] = 3)
    BY <1>1, <1>2, <1>4 DEF RequestOK
  <1>6. PICK x : x = Following(t, rest)
    OBVIOUS
  <1>7. /\ x \in RequestRecord /\ x.op = "none" /\ x.todo = rest
        /\ x.pc = "follow" => x.todo # <<>>
        /\ EventsIn(rest) # {} => x.task = t
    <2>1. t \in TaskId \cup {None} /\ (EventsIn(rest) # {} => t \in TaskId)
      BY <1>5
    <2>2. QED
      BY <1>4, <1>6, <2>1, FollowingFacts
  <1>8. /\ emitted' = [emitted EXCEPT ![t] = @ \cup {e}]
        /\ lost' = [lost EXCEPT ![t] = @ \ {e}]
        /\ req' = [req EXCEPT ![r] = x]
        /\ UNCHANGED <<role, task, reached>>
    BY <1>2, <1>6 DEF Announce
  <1>9. /\ emitted'[t] = emitted[t] \cup {e} /\ lost'[t] = lost[t] \ {e}
        /\ \A s \in TaskId : s # t => emitted'[s] = emitted[s] /\ lost'[s] = lost[s]
        /\ req'[r] = x /\ \A q \in Request : q # r => req'[q] = req[q]
    BY <1>5, <1>8 DEF Inv, TypeOK
  <1>10. TypeOK'
    BY <1>3, <1>7, <1>8 DEF Inv, TypeOK
  <1>11. \A s \in TaskId, v \in Event : Owed(s, v) => Owed(s, v)'
    <2>1. \A s \in TaskId : emitted[s] \cup lost[s] \subseteq emitted'[s] \cup lost'[s]
      BY <1>9
    <2>2. \A s \in TaskId, v \in EventsIn(req[r].todo) :
            req[r].task = s => \/ v \in emitted'[s] \cup lost'[s]
                               \/ x.task = s /\ v \in EventsIn(x.todo)
      BY <1>2, <1>4, <1>7, <1>9
    <2>3. QED
      BY <1>8, <2>1, <2>2, OwedStays
  <1>12. \A s \in TaskId : reached[s] <= reached'[s] /\ reached'[s] \in 0 .. 3
    BY <1>8 DEF Inv, TypeOK
  <1>13. ASSUME NEW q \in Request PROVE RequestOK(req[q])'
    <2>1. CASE q # r
      BY <1>8, <1>9, <1>11, <1>12, <2>1, RequestStays
    <2>2. CASE q = r
      <3>1. /\ EventsIn(x.todo) # {} => x.task = t
            /\ Completed \in EventsIn(x.todo) => reached'[t] = 3
        BY <1>4, <1>5, <1>7, <1>8
      <3>2. QED
        BY <1>5, <1>7, <1>9, <2>2, <3>1 DEF RequestOK
    <2>3. QED
      BY <2>1, <2>2
  <1>14. ASSUME NEW s \in TaskId PROVE TaskOK(s)'
    <2>1. Completed \in emitted'[s] \cup lost'[s] => reached[s] = 3
      <3>1. Completed \in emitted[s] \cup lost[s] => reached[s] = 3
        BY DEF Inv, TaskOK
      <3>2. QED
        BY <1>4, <1>5, <1>9, <3>1
    <2>2. QED
      BY <1>8, <1>11, <2>1, TaskStays
  <1>15. QED
    BY <1>10, <1>13, <1>14 DEF Inv

\* Failing: what the request owed is lost, and remembered as such.
LEMMA FailInv ==
  ASSUME Inv, NEW r \in Request, Fail(r)
  PROVE  Inv'
  <1>1. req[r] \in RequestRecord /\ RequestOK(req[r])
    BY DEF Inv, TypeOK
  <1>2. PICK x, o, t : x = Idle /\ o = EventsIn(req[r].todo) /\ t = req[r].task
    OBVIOUS
  <1>3. /\ o \subseteq Event /\ (o # {} => t \in TaskId)
        /\ Completed \in o => reached[t] = 3
    BY <1>1, <1>2 DEF RequestOK, EventsIn
  <1>4. /\ x \in RequestRecord /\ x.op = "none" /\ x.pc = "idle"
        /\ x.todo = <<>> /\ EventsIn(x.todo) = {}
    BY <1>2, IdleTyped, EventsShort DEF Idle
  <1>5. /\ req' = [req EXCEPT ![r] = x]
        /\ lost' = [s \in TaskId |->
                     IF t = s THEN lost[s] \cup (o \ emitted[s]) ELSE lost[s]]
        /\ UNCHANGED <<role, task, reached, emitted>>
    BY <1>2 DEF Fail
  <1>6. /\ req'[r] = x /\ \A q \in Request : q # r => req'[q] = req[q]
        /\ \A s \in TaskId :
             lost'[s] = IF t = s THEN lost[s] \cup (o \ emitted[s]) ELSE lost[s]
    BY <1>5 DEF Inv, TypeOK
  <1>7. TypeOK'
    BY <1>3, <1>4, <1>5 DEF Inv, TypeOK
  <1>8. \A s \in TaskId, v \in Event : Owed(s, v) => Owed(s, v)'
    <2>1. \A s \in TaskId : emitted[s] \cup lost[s] \subseteq emitted'[s] \cup lost'[s]
      BY <1>5, <1>6
    <2>2. \A s \in TaskId, v \in EventsIn(req[r].todo) :
            req[r].task = s => v \in emitted'[s] \cup lost'[s]
      BY <1>2, <1>5, <1>6
    <2>3. QED
      BY <1>5, <2>1, <2>2, OwedStays
  <1>9. \A s \in TaskId : reached[s] <= reached'[s] /\ reached'[s] \in 0 .. 3
    BY <1>5 DEF Inv, TypeOK
  <1>10. ASSUME NEW q \in Request PROVE RequestOK(req[q])'
    <2>1. CASE q # r
      BY <1>5, <1>6, <1>8, <1>9, <2>1, RequestStays
    <2>2. CASE q = r
      BY <1>4, <1>6, <2>2 DEF RequestOK
    <2>3. QED
      BY <2>1, <2>2
  <1>11. ASSUME NEW s \in TaskId PROVE TaskOK(s)'
    <2>1. Completed \in emitted'[s] \cup lost'[s] => reached[s] = 3
      <3>1. Completed \in emitted[s] \cup lost[s] => reached[s] = 3
        BY DEF Inv, TaskOK
      <3>2. QED
        BY <1>3, <1>5, <1>6, <3>1
    <2>2. QED
      BY <1>5, <1>8, <2>1, TaskStays
  <1>12. QED
    BY <1>7, <1>10, <1>11 DEF Inv

\* An invitation only ever adds a membership or changes its role.
LEMMA InviteInv ==
  ASSUME Inv, NEW u \in User, NEW ro \in Granted, Invite(u, ro)
  PROVE  Inv'
  <1>1. ro \in Role /\ ro # None
    BY NoneAssumption, GrantedAssumption
  <1>2. /\ role' = [role EXCEPT ![u] = ro]
        /\ UNCHANGED <<task, req, reached, emitted, lost>>
    BY DEF Invite
  <1>3. TypeOK'
    BY <1>1, <1>2 DEF Inv, TypeOK
  <1>4. \A v \in User : role[v] # None => role'[v] # None
    BY <1>1, <1>2 DEF Inv, TypeOK
  <1>5. \A s \in TaskId, v \in Event : Owed(s, v) => Owed(s, v)'
    BY <1>2 DEF Owed
  <1>6. \A s \in TaskId : reached[s] <= reached'[s] /\ reached'[s] \in 0 .. 3
    BY <1>2 DEF Inv, TypeOK
  <1>7. \A q \in Request : RequestOK(req[q])'
    BY <1>2, <1>4, <1>5, <1>6, RequestStays
  <1>8. \A t \in TaskId : TaskOK(t)'
    <2>1. \A t \in TaskId : Completed \in emitted'[t] \cup lost'[t] => reached[t] = 3
      BY <1>2 DEF Inv, TaskOK
    <2>2. QED
      BY <1>2, <1>4, <1>5, <2>1, TaskStays
  <1>9. QED
    BY <1>3, <1>7, <1>8 DEF Inv

LEMMA RemoveProjectInv ==
  ASSUME Inv, RemoveProject
  PROVE  Inv'
  <1>1. PICK gone : gone = [NoTask EXCEPT !.st = "gone"]
    OBVIOUS
  <1>2. gone = [st |-> "gone", status |-> "TODO", assignee |-> None]
    BY <1>1 DEF NoTask
  <1>3. gone \in TaskRow /\ Rank[gone.status] = 0 /\ gone.assignee = None
    BY <1>2, RankFacts DEF TaskRow
  <1>4. /\ task' = [t \in TaskId |-> IF task[t].st = "none" THEN task[t] ELSE gone]
        /\ UNCHANGED <<role, req, reached, emitted, lost>>
    BY <1>1 DEF RemoveProject
  <1>5. TypeOK'
    BY <1>3, <1>4 DEF Inv, TypeOK
  <1>6. \A s \in TaskId, v \in Event : Owed(s, v) => Owed(s, v)'
    BY <1>4 DEF Owed
  <1>7. \A s \in TaskId : /\ task[s].st # "none" => task'[s].st # "none"
                          /\ reached[s] <= reached'[s] /\ reached'[s] \in 0 .. 3
    BY <1>2, <1>4 DEF Inv, TypeOK
  <1>8. \A q \in Request : RequestOK(req[q])'
    BY <1>4, <1>6, <1>7, RequestStays
  <1>9. ASSUME NEW t \in TaskId PROVE TaskOK(t)'
    <2>1. Completed \in emitted'[t] \cup lost'[t] => reached[t] = 3
      BY <1>4 DEF Inv, TaskOK
    <2>2. /\ task'[t].status = task[t].status \/ Rank[task'[t].status] = 0
          /\ task'[t].assignee = task[t].assignee \/ task'[t].assignee = None
      BY <1>3, <1>4
    <2>3. QED
      BY <1>4, <1>6, <2>1, <2>2, TaskStays
  <1>10. QED
    BY <1>5, <1>8, <1>9 DEF Inv

LEMMA NextInv == Inv /\ [Next]_vars => Inv'
  <1> SUFFICES ASSUME Inv, [Next]_vars PROVE Inv'
    OBVIOUS
  <1>1. ASSUME NEW r \in Request, Step(r) PROVE Inv'
    BY <1>1, CreateInv, ReadInv, CheckInv, UpdateWriteInv, SetDeletedInv,
       AnnounceInv, InvalidateInv, FailInv DEF Step
  <1>2. ASSUME NEW u \in User, NEW ro \in Granted, Invite(u, ro) PROVE Inv'
    BY <1>2, InviteInv
  <1>3. CASE RemoveProject
    BY <1>3, RemoveProjectInv
  <1>4. CASE UNCHANGED vars
    BY <1>4 DEF vars, Inv, TypeOK, RequestOK, TaskOK, Owed, MayAssign
  <1>5. QED
    BY <1>1, <1>2, <1>3, <1>4 DEF Next

-----------------------------------------------------------------------------
\* Inv is an inductive invariant of the specification.
THEOREM InvHolds == Spec => []Inv
  <1>1. Init => Inv
    BY InitInv
  <1>2. Inv /\ [Next]_vars => Inv'
    BY NextInv
  <1>3. QED
    BY <1>1, <1>2, PTL DEF Spec

\* Rows, parked requests and history keep their shapes, and no follow-up names
\* a user that is null (tasks.service.ts).
THEOREM TypeCorrect == Spec => []TypeOK
  <1>1. Inv => TypeOK
    BY DEF Inv
  <1>2. QED
    BY <1>1, InvHolds, PTL

\* However updates race, one of those that stored DONE announces it.
THEOREM DoneAnnounced == Spec => []DoneIsAnnounced
  <1>1. Inv => DoneIsAnnounced
    BY RankFacts DEF Inv, TaskOK, DoneIsAnnounced
  <1>2. QED
    BY <1>1, InvHolds, PTL

\* TaskCompleted goes out only for a task that has been DONE.
THEOREM OnlyDone == Spec => []OnlyDoneIsAnnounced
  <1>1. Inv => OnlyDoneIsAnnounced
    BY RankFacts DEF Inv, TaskOK, OnlyDoneIsAnnounced
  <1>2. QED
    BY <1>1, InvHolds, PTL

\* The assignee of a task has been told of it, however updates race.
THEOREM AssigneeTold == Spec => []AssigneeIsTold
  <1>1. Inv => AssigneeIsTold
    BY DEF Inv, TaskOK, AssigneeIsTold
  <1>2. QED
    BY <1>1, InvHolds, PTL

\* The assignee of a task is a member of its workspace.
THEOREM AssigneeMember == Spec => []AssigneeIsMember
  <1>1. Inv => AssigneeIsMember
    BY DEF Inv, TaskOK, AssigneeIsMember
  <1>2. QED
    BY <1>1, InvHolds, PTL

-----------------------------------------------------------------------------
\* No step raises the highest status of a task by more than one.
LEMMA ReachedStep ==
  ASSUME Inv, [Next]_vars, NEW t \in TaskId
  PROVE  reached'[t] <= reached[t] + 1
  <1>1. reached \in [TaskId -> 0 .. 3]
    BY DEF Inv, TypeOK
  <1>2. CASE UNCHANGED reached
    BY <1>1, <1>2
  <1>3. ASSUME NEW r \in Request, UpdateWrite(r)
        PROVE  reached'[t] <= reached[t] + 1
    <2>1. PICK s, row : s = req[r].task /\ row = Updated(task[s], req[r].dto)
      OBVIOUS
    <2>2. /\ s \in TaskId /\ Rank[row.status] \in 0 .. 3
          /\ Rank[row.status] <= reached[s] + 1
      BY <1>3, <2>1, WriteBound
    <2>3. reached' = [reached EXCEPT ![s] =
            IF Rank[row.status] > reached[s] THEN Rank[row.status] ELSE reached[s]]
      BY <1>3, <2>1 DEF UpdateWrite
    <2>4. reached[s] \in 0 .. 3 /\ reached[t] \in 0 .. 3
      BY <1>1, <2>2
    <2>5. reached'[s] <= reached[s] + 1
      BY <1>1, <2>2, <2>3, <2>4
    <2>6. s # t => reached'[t] = reached[t]
      BY <1>1, <2>2, <2>3
    <2>7. QED
      BY <2>4, <2>5, <2>6
  <1>4. [Next]_vars => UNCHANGED reached \/ \E r \in Request : UpdateWrite(r)
    BY DEF Next, Step, vars, CreateTask, UpdateRead, RemoveRead, RestoreRead,
           CheckRole, CheckAssignee, SetDeleted, Announce, Invalidate, Fail,
           Invite, RemoveProject
  <1>5. QED
    BY <1>2, <1>3, <1>4

\* No status is skipped, although every update checks the transition against a
\* status that may be stale when it writes (tasks.service.ts update).
THEOREM NoSkip == Spec => NoStatusSkipped
  <1>1. Inv /\ [Next]_vars =>
          [\A t \in TaskId : reached'[t] <= reached[t] + 1]_vars
    BY ReachedStep
  <1>2. QED
    BY <1>1, InvHolds, PTL DEF Spec, NoStatusSkipped

-----------------------------------------------------------------------------
\* What FrozenUntilRestored asks of a step, for one task.
Thawed(t) ==
  \/ task'[t].st = "gone"
  \/ /\ task'[t].status = task[t].status
     /\ task'[t].assignee = task[t].assignee
     /\ task'[t].st = "live" \/ Frozen(t)'

\* A step that parks no update on a frozen task and keeps its content.
LEMMA NoneParked ==
  ASSUME Inv, NEW t \in TaskId, Frozen(t), NEW r \in Request, NEW x,
         req' = [req EXCEPT ![r] = x], x.op = "update" => x.task # t,
         task'[t].status = task[t].status,
         task'[t].assignee = task[t].assignee,
         task'[t].st \in {"deleted", "live"}
  PROVE  Thawed(t)
  <1>1. req'[r] = x /\ \A q \in Request : q # r => req'[q] = req[q]
    BY DEF Inv, TypeOK
  <1>2. \A q \in Request : ~(req'[q].op = "update" /\ req'[q].task = t)
    BY <1>1 DEF Frozen
  <1>3. QED
    BY <1>2 DEF Thawed, Frozen

LEMMA FrozenStep ==
  ASSUME Inv, [Next]_vars, NEW t \in TaskId, Frozen(t)
  PROVE  Thawed(t)
  <1>1. task \in [TaskId -> TaskRow] /\ task[t].st = "deleted" /\ task[t] \in TaskRow
    BY DEF Inv, TypeOK, Frozen
  <1>2. ASSUME NEW s, NEW todo PROVE Following(s, todo).op = "none"
    BY DEF Following, Idle
  <1>3. ASSUME NEW r \in Request, NEW u \in User, NEW s \in TaskId,
               NEW a \in User \cup {None}, CreateTask(r, u, s, a)
        PROVE  Thawed(t)
    <2>1. task'[t] = task[t]
      BY <1>1, <1>3 DEF CreateTask
    <2>2. QED
      BY <1>1, <1>2, <1>3, <2>1, NoneParked DEF CreateTask
  <1>4. ASSUME NEW r \in Request, NEW s \in TaskId,
               \/ RemoveRead(r, s) \/ RestoreRead(r, s)
               \/ \E d \in Input : UpdateRead(r, s, d)
        PROVE  Thawed(t)
    <2>1. ASSUME NEW x, req' = [req EXCEPT ![r] = x], task' = task,
                 x.op = "update" => x.task # t
          PROVE  Thawed(t)
      BY <1>1, <2>1, NoneParked
    <2>2. CASE RemoveRead(r, s)
      <3>1. PICK x : x = [Idle EXCEPT !.pc = "member", !.op = "remove", !.task = s,
                                      !.read.assignee = task[s].assignee]
        OBVIOUS
      <3>2. x.op # "update"
        BY <3>1 DEF Idle
      <3>3. req' = [req EXCEPT ![r] = x] /\ task' = task
        BY <2>2, <3>1 DEF RemoveRead
      <3>4. QED
        BY <2>1, <3>2, <3>3
    <2>3. CASE RestoreRead(r, s)
      <3>1. PICK x : x = [Idle EXCEPT !.pc = "member", !.op = "restore", !.task = s,
                                      !.read.assignee = task[s].assignee]
        OBVIOUS
      <3>2. x.op # "update"
        BY <3>1 DEF Idle
      <3>3. req' = [req EXCEPT ![r] = x] /\ task' = task
        BY <2>3, <3>1 DEF RestoreRead
      <3>4. QED
        BY <2>1, <3>2, <3>3
    <2>4. ASSUME NEW d \in Input, UpdateRead(r, s, d)
          PROVE  Thawed(t)
      <3>1. PICK x : x = [Idle EXCEPT !.pc = "member", !.op = "update", !.task = s,
                                      !.dto = d, !.read = task[s]]
        OBVIOUS
      <3>2. x.task = s /\ s # t
        BY <1>1, <2>4, <3>1 DEF UpdateRead, Found, Idle
      <3>3. req' = [req EXCEPT ![r] = x] /\ task' = task
        BY <2>4, <3>1 DEF UpdateRead
      <3>4. QED
        BY <2>1, <3>2, <3>3
    <2>5. QED
      BY <1>4, <2>2, <2>3, <2>4
  <1>5. ASSUME NEW r \in Request,
               CheckAssignee(r) \/ \E u \in User : CheckRole(r, u)
        PROVE  Thawed(t)
    <2>1. req[r] \in RequestRecord
      BY DEF Inv, TypeOK
    <2>2. PICK pc : req' = [req EXCEPT ![r].pc = pc] /\ task' = task
      BY <1>5 DEF CheckRole, CheckAssignee
    <2>3. PICK x : x = [req[r] EXCEPT !.pc = pc]
      OBVIOUS
    <2>4. x.op = req[r].op /\ x.task = req[r].task
      BY <2>1, <2>3 DEF RequestRecord
    <2>5. req' = [req EXCEPT ![r] = x]
      BY <2>2, <2>3 DEF Inv, TypeOK
    <2>6. x.op = "update" => x.task # t
      BY <2>4 DEF Frozen
    <2>7. QED
      BY <1>1, <2>2, <2>5, <2>6, NoneParked
  <1>6. ASSUME NEW r \in Request, UpdateWrite(r)
        PROVE  Thawed(t)
    <2>1. req[r].op = "update" /\ req[r].task # t
      BY <1>6 DEF UpdateWrite, Frozen
    <2>2. task'[t] = task[t]
      BY <1>1, <1>6, <2>1 DEF UpdateWrite
    <2>3. PICK todo : req' = [req EXCEPT ![r] = Following(req[r].task, todo)]
      BY <1>6 DEF UpdateWrite
    <2>4. QED
      BY <1>1, <1>2, <2>2, <2>3, NoneParked
  <1>7. ASSUME NEW r \in Request, SetDeleted(r)
        PROVE  Thawed(t)
    <2>1. PICK st \in {"deleted", "live"} :
            task' = [task EXCEPT ![req[r].task].st = st]
      BY <1>7 DEF SetDeleted
    <2>2. PICK todo : req' = [req EXCEPT ![r] = Following(req[r].task, todo)]
      BY <1>7 DEF SetDeleted
    <2>3. /\ task'[t].status = task[t].status
          /\ task'[t].assignee = task[t].assignee
          /\ task'[t].st \in {"deleted", "live"}
      <3>1. task'[t] = IF req[r].task = t THEN [task[t] EXCEPT !.st = st] ELSE task[t]
        BY <1>1, <2>1
      <3>2. QED
        BY <1>1, <3>1 DEF TaskRow
    <2>4. QED
      BY <1>2, <2>2, <2>3, NoneParked
  <1>8. ASSUME NEW r \in Request, Announce(r) \/ Invalidate(r) \/ Fail(r)
        PROVE  Thawed(t)
    <2>1. PICK x : req' = [req EXCEPT ![r] = x] /\ x.op = "none" /\ task' = task
      <3>1. Idle.op = "none"
        BY DEF Idle
      <3>2. QED
        BY <1>2, <1>8, <3>1 DEF Announce, Invalidate, Fail
    <2>2. QED
      BY <1>1, <2>1, NoneParked
  <1>9. CASE UNCHANGED <<task, req>>
    BY <1>9 DEF Thawed, Frozen
  <1>10. CASE RemoveProject
    <2>1. task'[t] = [NoTask EXCEPT !.st = "gone"]
      BY <1>1, <1>10 DEF RemoveProject
    <2>2. QED
      BY <2>1 DEF Thawed, NoTask
  <1>11. QED
    BY <1>3, <1>4, <1>5, <1>6, <1>7, <1>8, <1>9, <1>10
       DEF Next, Step, vars, Invite

\* A deleted task that no update still holds stays as it is until restored.
THEOREM FrozenForNow == Spec => FrozenUntilRestored
  <1>1. Inv /\ [Next]_vars =>
          [\A t \in TaskId : Frozen(t) =>
             \/ task'[t].st = "gone"
             \/ /\ task'[t].status = task[t].status
                /\ task'[t].assignee = task[t].assignee
                /\ task'[t].st = "live" \/ Frozen(t)']_vars
    BY FrozenStep DEF Thawed
  <1>2. QED
    BY <1>1, InvHolds, PTL DEF Spec, FrozenUntilRestored

=============================================================================
