--------------------------- MODULE NotificationProofs ---------------------------
(***************************************************************************)
(* Proofs about the two halves of a notification, for any sizes.           *)
(*                                                                         *)
(* NotificationDelivery, from the event to the row: the run of a worker    *)
(* either holds the lock of its job or is one that lost it (RunOK);        *)
(* everything else follows from that and from how the runs of a job are    *)
(* counted (JobOK).                                                        *)
(*                                                                         *)
(* NotificationBell, from the row to the screen: what is still to come for *)
(* a row, its push and the PATCHes that have succeeded, makes the count    *)
(* what it has to be (Balance) and the entries of the list what they have  *)
(* to be (ListOK).                                                         *)
(***************************************************************************)
EXTENDS NotificationDelivery, NotificationBell,
        FunctionTheorems, FiniteSetTheorems, WellFoundedInduction, TLAPS

-----------------------------------------------------------------------------
(* NotificationDelivery: the invariant *)

Busy(w) == worker[w].pc # "idle"

\* How runs are counted, and what they have left behind.
JobOK(j) ==
  /\ job[j].st \in {"none", "adding", "lost"} => job[j].starts = 0
  /\ job[j].st \in {"none", "adding", "waiting", "delayed"} =>
       /\ job[j].starts = job[j].made + job[j].stalled
       /\ job[j].made < Attempts /\ job[j].stalled <= MaxStalled
  /\ job[j].st = "active" =>
       /\ job[j].starts = job[j].made + job[j].stalled + 1
       /\ job[j].made < Attempts /\ job[j].stalled <= MaxStalled
  /\ \A n \in rows[j] \cup mails[j] \cup job[j].cut : n <= job[j].starts
  /\ \A n \in mails[j] : \/ n \in job[j].cut
                         \/ n = job[j].starts /\ job[j].st \in {"active", "completed"}
  /\ job[j].st = "completed" =>
       job[j].starts \in rows[j] /\ (j \in Mailed => job[j].starts \in mails[j])

\* What a run has done so far, and that it holds the lock or has lost it.
RunOK(w) ==
  Busy(w) =>
    LET j == worker[w].job  n == worker[w].run IN
      /\ n <= job[j].starts
      /\ Holds(w) \/ n \in job[j].cut
      /\ worker[w].pc \in {"push", "lookup", "done"} => n \in rows[j]
      /\ worker[w].pc = "done" /\ j \in Mailed => n \in mails[j]
      /\ worker[w].pc \in {"create", "push", "lookup"} => n \notin mails[j]

\* No two workers are in the same run.
Apart ==
  \A v, w \in Worker :
    v # w /\ Busy(v) /\ Busy(w) /\ worker[v].job = worker[w].job
      => worker[v].run # worker[w].run

Inv ==
  /\ TypeOK
  /\ \A j \in Job : JobOK(j)
  /\ \A w \in Worker : RunOK(w)
  /\ Apart
  /\ PushedIsStored

-----------------------------------------------------------------------------
LEMMA Sorts ==
  /\ Run = 1 .. Attempts + MaxStalled
  /\ Attempts \in Nat /\ Attempts >= 1 /\ MaxStalled \in Nat
  /\ NoRun.pc = "idle" /\ NoRun \notin RunRecord
  BY LimitAssumption DEF Run, NoRun, RunRecord

LEMMA InitInv == Init => Inv
  <1> SUFFICES ASSUME Init PROVE Inv
    OBVIOUS
  <1>1. NoJob \in JobRecord
    BY Sorts DEF NoJob, JobRecord, Ended
  <1>2. TypeOK
    BY <1>1 DEF Init, TypeOK
  <1>3. QED
    BY <1>2, Sorts
    DEF Init, Inv, JobOK, RunOK, Apart, Busy, PushedIsStored, NoJob

\* What the types say of one worker that is busy and of one job.
LEMMA BusyTyped ==
  ASSUME TypeOK, NEW w \in Worker, Busy(w)
  PROVE  worker[w] \in RunRecord /\ worker[w].job \in Job /\ worker[w].run \in Run
  BY Sorts DEF TypeOK, Busy, RunRecord, NoRun

-----------------------------------------------------------------------------
\* A job that nobody runs yet changes its place: Emit, Enqueue, Refuse, Promote.
LEMMA JobMoves ==
  ASSUME Inv, NEW j \in Job, NEW x \in JobRecord,
         job' = [job EXCEPT ![j] = x],
         x.starts = job[j].starts, x.made = job[j].made,
         x.stalled = job[j].stalled, x.cut = job[j].cut,
         job[j].st \in {"none", "adding", "delayed"},
         x.st \in {"adding", "waiting", "lost"},
         x.st \in {"adding", "lost"} => job[j].starts = 0,
         UNCHANGED <<worker, rows, mails, socket, seen>>
  PROVE  Inv'
  <1>1. job'[j] = x /\ \A k \in Job : k # j => job'[k] = job[k]
    BY DEF Inv, TypeOK
  <1>2. TypeOK'
    BY DEF Inv, TypeOK
  <1>3. ASSUME NEW k \in Job PROVE JobOK(k)'
    BY <1>1 DEF Inv, JobOK
  <1>4. ASSUME NEW w \in Worker PROVE RunOK(w)'
    <2>1. CASE Busy(w)
      <3>1. worker[w].job \in Job
        BY <2>1, BusyTyped DEF Inv
      <3>2. Holds(w) => worker[w].job # j
        BY DEF Holds
      <3>3. QED
        BY <1>1, <3>1, <3>2 DEF Inv, RunOK, Busy, Holds
    <2>2. CASE ~Busy(w)
      BY <2>2 DEF RunOK, Busy
    <2>3. QED
      BY <2>1, <2>2
  <1>5. (Apart /\ PushedIsStored)'
    BY DEF Inv, Apart, Busy, PushedIsStored
  <1>6. QED
    BY <1>2, <1>3, <1>4, <1>5 DEF Inv

LEMMA QueueInv ==
  ASSUME Inv, NEW j \in Job,
         (\E w \in Worker : Emit(j, w)) \/ Enqueue(j) \/ Refuse(j) \/ Promote(j)
  PROVE  Inv'
  <1>1. job[j] \in JobRecord /\ JobOK(j)
    BY DEF Inv, TypeOK
  <1>2. CASE \E w \in Worker : Emit(j, w)
    <2>1. PICK w \in Worker : Emit(j, w)
      BY <1>2
    <2>2. PICK x : x = [job[j] EXCEPT !.st = "adding", !.owner = w]
      OBVIOUS
    <2>3. /\ x \in JobRecord /\ x.st = "adding" /\ x.starts = job[j].starts
          /\ x.made = job[j].made /\ x.stalled = job[j].stalled /\ x.cut = job[j].cut
      BY <1>1, <2>2 DEF JobRecord
    <2>4. job' = [job EXCEPT ![j] = x]
      BY <2>1, <2>2 DEF Emit
    <2>5. QED
      BY <1>1, <2>1, <2>3, <2>4, JobMoves DEF Emit, JobOK
  <1>3. CASE Enqueue(j) \/ Promote(j)
    <2>1. PICK x : x = [job[j] EXCEPT !.st = "waiting",
                                      !.owner = IF Promote(j) THEN job[j].owner ELSE None]
      OBVIOUS
    <2>2. /\ x \in JobRecord /\ x.st = "waiting" /\ x.starts = job[j].starts
          /\ x.made = job[j].made /\ x.stalled = job[j].stalled /\ x.cut = job[j].cut
      BY <1>1, <2>1 DEF JobRecord
    <2>3. job' = [job EXCEPT ![j] = x]
      BY <1>1, <1>3, <2>1 DEF Enqueue, Promote, JobRecord
    <2>4. QED
      BY <1>1, <1>3, <2>2, <2>3, JobMoves DEF Enqueue, Promote
  <1>4. CASE Refuse(j)
    <2>1. PICK x : x = [job[j] EXCEPT !.st = "lost", !.owner = None]
      OBVIOUS
    <2>2. /\ x \in JobRecord /\ x.st = "lost" /\ x.starts = job[j].starts
          /\ x.made = job[j].made /\ x.stalled = job[j].stalled /\ x.cut = job[j].cut
      BY <1>1, <2>1 DEF JobRecord, Ended
    <2>3. job' = [job EXCEPT ![j] = x]
      BY <1>4, <2>1 DEF Refuse
    <2>4. QED
      BY <1>1, <1>4, <2>2, <2>3, JobMoves DEF Refuse, JobOK
  <1>5. QED
    BY <1>2, <1>3, <1>4

-----------------------------------------------------------------------------
\* A waiting job is taken: the new run is later than all runs there are.
LEMMA TakeInv ==
  ASSUME Inv, NEW w \in Worker, NEW j \in Job, Take(w, j)
  PROVE  Inv'
  <1> DEFINE n == job[j].starts + 1
  <1>1. /\ job[j] \in JobRecord /\ JobOK(j) /\ job[j].st = "waiting" /\ ~Busy(w)
        /\ worker \in [Worker -> RunRecord \cup {NoRun}] /\ job \in [Job -> JobRecord]
    BY Sorts DEF Inv, TypeOK, Take, Busy
  <1>2. PICK x : x = [job[j] EXCEPT !.st = "active", !.owner = w, !.starts = n]
    OBVIOUS
  <1>3. PICK r : r = [pc |-> "create", job |-> j, run |-> n]
    OBVIOUS
  <1>4. n \in Run
    BY <1>1, Sorts DEF JobOK, JobRecord
  <1>5. /\ x \in JobRecord /\ x.st = "active" /\ x.owner = w /\ x.starts = n
        /\ x.made = job[j].made /\ x.stalled = job[j].stalled /\ x.cut = job[j].cut
    <2>1. n \in 0 .. Attempts + MaxStalled
      BY <1>4, Sorts
    <2>2. QED
      BY <1>1, <1>2, <2>1 DEF JobRecord
  <1>6. r \in RunRecord /\ r.pc = "create" /\ r.job = j /\ r.run = n
    BY <1>3, <1>4 DEF RunRecord
  <1>7. job' = [job EXCEPT ![j] = x] /\ worker' = [worker EXCEPT ![w] = r]
    BY <1>1, <1>2, <1>3 DEF Take, JobRecord
  <1>8. /\ job'[j] = x /\ \A k \in Job : k # j => job'[k] = job[k]
        /\ worker'[w] = r /\ \A v \in Worker : v # w => worker'[v] = worker[v]
        /\ UNCHANGED <<rows, mails, socket, seen>>
    BY <1>1, <1>7 DEF Take
  <1>9. TypeOK'
    BY <1>1, <1>5, <1>6, <1>7, <1>8 DEF Inv, TypeOK
  <1>10. ASSUME NEW k \in Job PROVE JobOK(k)'
    <2>1. CASE k = j
      BY <1>1, <1>5, <1>8, <2>1 DEF Inv, TypeOK, JobOK, JobRecord, Run
    <2>2. CASE k # j
      BY <1>8, <2>2 DEF Inv, JobOK
    <2>3. QED
      BY <2>1, <2>2
  <1>11. \A m \in rows[j] \cup mails[j] : m # n
    BY <1>1 DEF JobOK, JobRecord, Inv, TypeOK, Run
  <1>12. ASSUME NEW v \in Worker, v # w, Busy(v), worker[v].job = j
         PROVE  worker[v].run < n /\ worker[v].run \in job[j].cut
    <2>1. worker[v].run <= job[j].starts /\ (Holds(v) \/ worker[v].run \in job[j].cut)
      BY <1>12 DEF Inv, RunOK
    <2>2. ~Holds(v)
      BY <1>1, <1>12 DEF Holds
    <2>3. worker[v].run \in Int /\ job[j].starts \in Int
      BY <1>1, <1>12, BusyTyped, Sorts DEF Inv, JobRecord
    <2>4. QED
      BY <2>1, <2>2, <2>3
  <1>13. ASSUME NEW v \in Worker PROVE RunOK(v)'
    <2>1. CASE v = w
      <3>1. Holds(w)' /\ n <= x.starts
        BY <1>1, <1>4, <1>5, <1>6, <1>8 DEF Holds, Run
      <3>2. QED
        BY <1>6, <1>8, <1>11, <2>1, <3>1 DEF RunOK
    <2>2. CASE v # w /\ Busy(v) /\ worker[v].job = j
      <3>1. worker[v].run \in Int /\ n \in Int
        BY <1>4, <2>2, BusyTyped DEF Inv, Run
      <3>2. QED
        BY <1>5, <1>8, <1>12, <2>2, <3>1 DEF Inv, RunOK, Busy, Holds
    <2>3. CASE v # w /\ Busy(v) /\ worker[v].job # j
      <3>1. worker[v].job \in Job
        BY <2>3, BusyTyped DEF Inv
      <3>2. QED
        BY <1>8, <2>3, <3>1 DEF Inv, RunOK, Busy, Holds
    <2>4. CASE v # w /\ ~Busy(v)
      BY <1>8, <2>4 DEF RunOK, Busy
    <2>5. QED
      BY <2>1, <2>2, <2>3, <2>4
  <1>14. Apart'
    <2>1. \A v \in Worker : v # w /\ Busy(v)' /\ worker'[v].job = j => worker'[v].run # n
      <3>1. SUFFICES ASSUME NEW v \in Worker, v # w, Busy(v)', worker'[v].job = j
                     PROVE  worker'[v].run # n
        OBVIOUS
      <3>2. Busy(v) /\ worker[v].job = j /\ worker'[v] = worker[v]
        BY <1>8, <3>1 DEF Busy
      <3>3. worker[v].run < n /\ worker[v].run \in Int /\ n \in Int
        BY <1>4, <1>12, <3>1, <3>2, BusyTyped DEF Inv, Run
      <3>4. QED
        BY <3>2, <3>3
    <2>2. QED
      BY <1>6, <1>8, <2>1 DEF Inv, Apart, Busy
  <1>15. PushedIsStored'
    BY <1>8 DEF Inv, PushedIsStored
  <1>16. QED
    BY <1>9, <1>10, <1>13, <1>14, <1>15 DEF Inv

-----------------------------------------------------------------------------
\* Worker w moves to pc; R and M are the rows and mails of its job afterwards.
GoesOn(w, pc, R, M) ==
  LET j == worker[w].job  n == worker[w].run IN
    /\ Busy(w) /\ pc \in {"push", "lookup", "done"}
    /\ worker' = [worker EXCEPT ![w].pc = pc]
    /\ R \in SUBSET Run /\ rows[j] \subseteq R /\ R \subseteq rows[j] \cup {n} /\ n \in R
    /\ M \in SUBSET Run /\ mails[j] \subseteq M /\ M \subseteq mails[j] \cup {n}
    /\ pc = "done" /\ j \in Mailed => n \in M
    /\ pc \in {"push", "lookup"} =>
         M = mails[j] /\ worker[w].pc \in {"create", "push", "lookup"}
    /\ rows' = [rows EXCEPT ![j] = R] /\ mails' = [mails EXCEPT ![j] = M]
    /\ seen' \in [Socket -> SUBSET (Job \X Run)]
    /\ \A s \in Socket : seen'[s] \subseteq seen[s] \cup {<<j, n>>}
    /\ UNCHANGED <<job, socket>>

\* A run gets on: it may add itself to the rows or the mails of its job.
LEMMA RunGoesOn ==
  ASSUME Inv, NEW w \in Worker, NEW pc, NEW R, NEW M, GoesOn(w, pc, R, M)
  PROVE  Inv'
  <1> USE DEF GoesOn
  <1> DEFINE j == worker[w].job
             n == worker[w].run
  <1>1. /\ worker[w] \in RunRecord /\ j \in Job /\ n \in Run
        /\ worker \in [Worker -> RunRecord \cup {NoRun}]
        /\ rows \in [Job -> SUBSET Run] /\ mails \in [Job -> SUBSET Run]
        /\ job \in [Job -> JobRecord]
    BY BusyTyped DEF Inv, TypeOK
  <1>2. PICK r : r = [worker[w] EXCEPT !.pc = pc]
    OBVIOUS
  <1>3. r \in RunRecord /\ r.pc = pc /\ r.job = j /\ r.run = n
    BY <1>1, <1>2 DEF RunRecord
  <1>4. /\ worker' = [worker EXCEPT ![w] = r]
        /\ worker'[w] = r /\ \A v \in Worker : v # w => worker'[v] = worker[v]
    BY <1>1, <1>2
  <1>5. /\ rows'[j] = R /\ mails'[j] = M
        /\ \A k \in Job : k # j => rows'[k] = rows[k] /\ mails'[k] = mails[k]
    BY <1>1
  <1>6. \A k \in Job : rows[k] \subseteq rows'[k] /\ mails[k] \subseteq mails'[k]
    BY <1>5
  <1>7. TypeOK'
    BY <1>1, <1>3, <1>4 DEF Inv, TypeOK
  <1>8. n <= job[j].starts /\ (Holds(w) \/ n \in job[j].cut)
    BY DEF Inv, RunOK
  <1>9. ASSUME NEW k \in Job PROVE JobOK(k)'
    <2>1. CASE k = j
      <3>1. \A m \in R \cup M \cup job[j].cut : m <= job[j].starts
        BY <1>1, <1>8 DEF Inv, JobOK
      <3>2. \A m \in M : \/ m \in job[j].cut
                         \/ m = job[j].starts /\ job[j].st \in {"active", "completed"}
        BY <1>1, <1>8 DEF Inv, JobOK, Holds
      <3>3. QED
        BY <1>1, <1>5, <1>6, <2>1, <3>1, <3>2 DEF Inv, JobOK
    <2>2. CASE k # j
      BY <1>5, <2>2 DEF Inv, JobOK
    <2>3. QED
      BY <2>1, <2>2
  <1>10. ASSUME NEW v \in Worker PROVE RunOK(v)'
    <2>1. CASE v = w
      <3>1. Holds(w)' <=> Holds(w)
        BY <1>3, <1>4 DEF Holds
      <3>2. worker[w].pc \in {"create", "push", "lookup"} => n \notin mails[j]
        BY DEF Inv, RunOK
      <3>3. QED
        BY <1>3, <1>4, <1>5, <1>8, <2>1, <3>1, <3>2 DEF RunOK
    <2>2. CASE v # w /\ Busy(v)
      <3>1. /\ worker[v].job \in Job /\ worker'[v] = worker[v]
            /\ worker[v].job = j => worker[v].run # n
        BY <1>4, <2>2, BusyTyped DEF Inv, Apart
      <3>2. worker[v].run \in mails'[worker[v].job] <=> worker[v].run \in mails[worker[v].job]
        BY <1>5, <1>6, <3>1
      <3>3. QED
        BY <1>6, <2>2, <3>1, <3>2 DEF Inv, RunOK, Busy, Holds
    <2>3. CASE v # w /\ ~Busy(v)
      BY <1>4, <2>3 DEF RunOK, Busy
    <2>4. QED
      BY <2>1, <2>2, <2>3
  <1>11. Apart'
    BY <1>3, <1>4 DEF Inv, Apart, Busy
  <1>12. PushedIsStored'
    <2>1. SUFFICES ASSUME NEW s \in Socket, NEW q \in seen'[s]
                   PROVE  q[2] \in rows'[q[1]]
      BY DEF PushedIsStored
    <2>2. CASE q = <<j, n>>
      BY <1>5, <2>2
    <2>3. CASE q # <<j, n>>
      <3>1. q \in seen[s] /\ q[1] \in Job
        BY <2>1, <2>3 DEF Inv, TypeOK
      <3>2. QED
        BY <1>6, <3>1 DEF Inv, PushedIsStored
    <2>4. QED
      BY <2>2, <2>3
  <1>13. QED
    BY <1>7, <1>9, <1>10, <1>11, <1>12 DEF Inv

\* The steps of a run that end in Create, Push or Mail.
LEMMA AdvanceInv ==
  ASSUME Inv, NEW w \in Worker, Create(w) \/ Push(w) \/ Mail(w)
  PROVE  Inv'
  <1> DEFINE j == worker[w].job
             n == worker[w].run
  <1>1. /\ Busy(w) /\ RunOK(w) /\ j \in Job /\ n \in Run
        /\ rows \in [Job -> SUBSET Run] /\ mails \in [Job -> SUBSET Run]
        /\ seen \in [Socket -> SUBSET (Job \X Run)]
    <2>1. Busy(w)
      BY DEF Create, Push, Mail, Busy
    <2>2. QED
      BY <2>1, BusyTyped DEF Inv, TypeOK
  <1>2. CASE Create(w)
    <2>1. rows' = [rows EXCEPT ![j] = rows[j] \cup {n}] /\ mails' = [mails EXCEPT ![j] = mails[j]]
      BY <1>1, <1>2 DEF Create
    <2>2. (rows[j] \cup {n}) \in SUBSET Run /\ mails[j] \in SUBSET Run
      BY <1>1
    <2>3. /\ worker' = [worker EXCEPT ![w].pc = "push"] /\ worker[w].pc = "create"
          /\ UNCHANGED <<job, socket, seen>>
      BY <1>2 DEF Create
    <2>4. /\ rows[j] \subseteq rows[j] \cup {n} /\ n \in rows[j] \cup {n}
          /\ \A t \in Socket : seen'[t] \subseteq seen[t] \cup {<<j, n>>}
      BY <2>3
    <2>5. GoesOn(w, "push", rows[j] \cup {n}, mails[j])
      BY <1>1, <2>1, <2>2, <2>3, <2>4 DEF GoesOn
    <2>6. QED
      BY <2>5, RunGoesOn
  <1>3. CASE Push(w)
    <2>1. PICK pc : pc = IF j \in Mailed THEN "lookup" ELSE "done"
      OBVIOUS
    <2>2. /\ worker' = [worker EXCEPT ![w].pc = pc]
          /\ rows' = [rows EXCEPT ![j] = rows[j]] /\ mails' = [mails EXCEPT ![j] = mails[j]]
      BY <1>1, <1>3, <2>1 DEF Push
    <2>3. rows[j] \in SUBSET Run /\ mails[j] \in SUBSET Run /\ n \in rows[j]
      BY <1>1, <1>3 DEF Push, RunOK
    <2>4. /\ seen' \in [Socket -> SUBSET (Job \X Run)]
          /\ \A s \in Socket : seen'[s] \subseteq seen[s] \cup {<<j, n>>}
      <3>1. seen' = [s \in Socket |->
                       IF socket[s] = w THEN seen[s] \cup {<<j, n>>} ELSE seen[s]]
        BY <1>3 DEF Push
      <3>2. QED
        BY <1>1, <3>1
    <2>5. /\ worker[w].pc = "push" /\ UNCHANGED <<job, socket>>
          /\ pc \in {"push", "lookup", "done"} /\ (j \in Mailed => pc = "lookup")
      BY <1>3, <2>1 DEF Push
    <2>6. rows[j] \subseteq rows[j] \cup {n} /\ mails[j] \subseteq mails[j] \cup {n}
      OBVIOUS
    <2>7. (pc = "done" /\ j \in Mailed => n \in mails[j])
      BY <2>5
    <2>8. GoesOn(w, pc, rows[j], mails[j])
      BY <1>1, <2>2, <2>3, <2>4, <2>5, <2>6, <2>7 DEF GoesOn
    <2>9. QED
      BY <2>8, RunGoesOn
  <1>4. CASE Mail(w)
    <2>1. mails' = [mails EXCEPT ![j] = mails[j] \cup {n}] /\ rows' = [rows EXCEPT ![j] = rows[j]]
      BY <1>1, <1>4 DEF Mail
    <2>2. rows[j] \in SUBSET Run /\ (mails[j] \cup {n}) \in SUBSET Run /\ n \in rows[j]
      BY <1>1, <1>4 DEF Mail, RunOK
    <2>3. /\ worker' = [worker EXCEPT ![w].pc = "done"] /\ worker[w].pc = "lookup"
          /\ UNCHANGED <<job, socket, seen>>
      BY <1>4 DEF Mail
    <2>4. /\ rows[j] \subseteq rows[j] \cup {n} /\ mails[j] \subseteq mails[j] \cup {n}
          /\ n \in mails[j] \cup {n}
          /\ \A t \in Socket : seen'[t] \subseteq seen[t] \cup {<<j, n>>}
      BY <2>3
    <2>5. GoesOn(w, "done", rows[j], mails[j] \cup {n})
      BY <1>1, <2>1, <2>2, <2>3, <2>4 DEF GoesOn
    <2>6. QED
      BY <2>5, RunGoesOn
  <1>5. QED
    BY <1>2, <1>3, <1>4

-----------------------------------------------------------------------------
\* Job j becomes x and the workers of D drop their runs.
Settles(j, x, D) ==
  /\ x \in JobRecord /\ D \in SUBSET Worker
  /\ job' = [job EXCEPT ![j] = x]
  /\ worker' = [v \in Worker |-> IF v \in D THEN NoRun ELSE worker[v]]
  /\ UNCHANGED <<rows, mails, socket, seen>>
  /\ x.starts = job[j].starts /\ job[j].cut \subseteq x.cut
  /\ \A m \in x.cut : m <= x.starts
  /\ x.st \in {"waiting", "delayed", "completed", "failed"}
  /\ x.st \in {"waiting", "delayed"} =>
       x.starts = x.made + x.stalled /\ x.made < Attempts /\ x.stalled <= MaxStalled
  /\ x.st = "completed" =>
       x.starts \in rows[j] /\ (j \in Mailed => x.starts \in mails[j])
  /\ \A m \in mails[j] : m \in x.cut \/ (m = x.starts /\ x.st = "completed")
  /\ \A v \in Worker : Busy(v) /\ worker[v].job = j /\ worker[v].run = x.starts
       => v \in D \/ worker[v].run \in x.cut

\* The active run of a job is settled: whoever is in it is done or has lost it.
LEMMA RunSettled ==
  ASSUME Inv, NEW j \in Job, NEW x, NEW D, Settles(j, x, D)
  PROVE  Inv'
  <1> USE DEF Settles
  <1>1. /\ job \in [Job -> JobRecord] /\ worker \in [Worker -> RunRecord \cup {NoRun}]
        /\ job'[j] = x /\ \A k \in Job : k # j => job'[k] = job[k]
    BY DEF Inv, TypeOK
  <1>2. \A v \in Worker : IF v \in D THEN worker'[v] = NoRun /\ ~Busy(v)'
                                     ELSE worker'[v] = worker[v] /\ (Busy(v)' <=> Busy(v))
    BY Sorts DEF Busy
  <1>3. TypeOK'
    BY <1>1 DEF Inv, TypeOK
  <1>4. ASSUME NEW k \in Job PROVE JobOK(k)'
    <2>1. CASE k = j
      BY <1>1, <2>1 DEF Inv, JobOK
    <2>2. CASE k # j
      BY <1>1, <2>2 DEF Inv, JobOK
    <2>3. QED
      BY <2>1, <2>2
  <1>5. ASSUME NEW v \in Worker PROVE RunOK(v)'
    <2>1. CASE v \in D \/ ~Busy(v)
      BY <1>2, <2>1 DEF RunOK
    <2>2. CASE v \notin D /\ Busy(v) /\ worker[v].job = j
      <3>1. worker[v].run \in x.cut
        BY <2>2 DEF Inv, RunOK, Holds
      <3>2. QED
        BY <1>1, <1>2, <2>2, <3>1 DEF Inv, RunOK
    <2>3. CASE v \notin D /\ Busy(v) /\ worker[v].job # j
      <3>1. worker[v].job \in Job
        BY <2>3, BusyTyped DEF Inv
      <3>2. QED
        BY <1>1, <1>2, <2>3, <3>1 DEF Inv, RunOK, Holds
    <2>4. QED
      BY <2>1, <2>2, <2>3
  <1>6. Apart'
    BY <1>2 DEF Inv, Apart
  <1>7. QED
    BY <1>3, <1>4, <1>5, <1>6 DEF Inv, PushedIsStored

\* Worker w drops its run, and the jobs of J, still being added, are lost.
Drops(w, J) ==
  /\ J \in SUBSET {j \in Job : job[j].st = "adding"}
  /\ worker' = [worker EXCEPT ![w] = NoRun]
  /\ job' = [j \in Job |-> IF j \in J THEN [job[j] EXCEPT !.st = "lost", !.owner = None]
                                      ELSE job[j]]
  /\ socket' \in [Socket -> Worker \cup {None}]
  /\ UNCHANGED <<rows, mails, seen>>

\* A run is dropped, and with it the jobs its process was adding.
LEMMA RunDropped ==
  ASSUME Inv, NEW w \in Worker, NEW J, Drops(w, J)
  PROVE  Inv'
  <1> USE DEF Drops
  <1>1. job \in [Job -> JobRecord] /\ worker \in [Worker -> RunRecord \cup {NoRun}]
    BY DEF Inv, TypeOK
  <1>2. \A k \in Job :
          /\ job'[k] \in JobRecord
          /\ job'[k].starts = job[k].starts /\ job'[k].made = job[k].made
          /\ job'[k].stalled = job[k].stalled /\ job'[k].cut = job[k].cut
          /\ job'[k] = job[k] \/ (job[k].st = "adding" /\ job'[k].st = "lost")
    <2>1. TAKE k \in Job
    <2>2. job[k] \in JobRecord
      BY <1>1
    <2>3. CASE k \notin J
      <3>1. job'[k] = job[k]
        BY <2>3
      <3>2. QED
        BY <2>2, <3>1
    <2>4. CASE k \in J
      <3>1. PICK x : x = [job[k] EXCEPT !.st = "lost", !.owner = None]
        OBVIOUS
      <3>2. job'[k] = x /\ job[k].st = "adding"
        BY <2>4, <3>1
      <3>3. /\ x \in JobRecord /\ x.st = "lost" /\ x.starts = job[k].starts
            /\ x.made = job[k].made /\ x.stalled = job[k].stalled /\ x.cut = job[k].cut
        BY <2>2, <3>1 DEF JobRecord, Ended
      <3>4. QED
        BY <3>2, <3>3
    <2>5. QED
      BY <2>3, <2>4
  <1>3. \A v \in Worker : IF v = w THEN ~Busy(v)'
                                   ELSE worker'[v] = worker[v] /\ (Busy(v)' <=> Busy(v))
    BY <1>1, Sorts DEF Busy
  <1>4. TypeOK'
    BY <1>1, <1>2 DEF Inv, TypeOK
  <1>5. ASSUME NEW k \in Job PROVE JobOK(k)'
    <2>1. JobOK(k) /\ rows' = rows /\ mails' = mails
      BY DEF Inv
    <2>2. CASE job'[k] = job[k]
      BY <2>1, <2>2 DEF JobOK
    <2>3. CASE job[k].st = "adding" /\ job'[k].st = "lost"
      <3>1. /\ job'[k].starts = job[k].starts /\ job'[k].cut = job[k].cut
        BY <1>2
      <3>2. QED
        BY <2>1, <2>3, <3>1 DEF JobOK
    <2>4. QED
      BY <1>2, <2>2, <2>3
  <1>6. ASSUME NEW v \in Worker PROVE RunOK(v)'
    <2>1. CASE v = w \/ ~Busy(v)
      BY <1>3, <2>1 DEF RunOK
    <2>2. CASE v # w /\ Busy(v)
      <3>1. worker[v].job \in Job /\ worker'[v] = worker[v]
        BY <1>3, <2>2, BusyTyped DEF Inv
      <3>2. Holds(v) => Holds(v)'
        BY <1>2, <3>1 DEF Holds
      <3>3. job'[worker[v].job].starts = job[worker[v].job].starts
            /\ job'[worker[v].job].cut = job[worker[v].job].cut
        BY <1>2, <3>1
      <3>4. RunOK(v) /\ rows' = rows /\ mails' = mails
        BY DEF Inv
      <3>5. QED
        BY <2>2, <3>1, <3>2, <3>3, <3>4 DEF RunOK, Busy
    <2>3. QED
      BY <2>1, <2>2
  <1>7. Apart'
    <2>1. SUFFICES ASSUME NEW v \in Worker, NEW u \in Worker, v # u, Busy(v)', Busy(u)',
                          worker'[v].job = worker'[u].job
                   PROVE  worker'[v].run # worker'[u].run
      BY DEF Apart
    <2>2. Busy(v) /\ Busy(u) /\ worker'[v] = worker[v] /\ worker'[u] = worker[u]
      BY <1>3, <2>1
    <2>3. QED
      BY <2>1, <2>2 DEF Inv, Apart
  <1>8. QED
    BY <1>4, <1>5, <1>6, <1>7 DEF Inv, PushedIsStored

\* Complete and Throw: a run that has lost the lock leaves the job as it is.
LEMMA RunEnds ==
  ASSUME Inv, NEW w \in Worker, Complete(w) \/ Throw(w)
  PROVE  Inv'
  <1> DEFINE j == worker[w].job
             n == worker[w].run
  <1>1. /\ Busy(w) /\ RunOK(w) /\ j \in Job /\ n \in Run /\ JobOK(j)
        /\ job \in [Job -> JobRecord] /\ worker \in [Worker -> RunRecord \cup {NoRun}]
        /\ socket \in [Socket -> Worker \cup {None}]
    <2>1. Busy(w)
      BY DEF Complete, Throw, MayThrow, Busy
    <2>2. QED
      BY <2>1, BusyTyped DEF Inv, TypeOK
  <1>2. /\ worker' = [worker EXCEPT ![w] = NoRun]
        /\ worker' = [v \in Worker |-> IF v \in {w} THEN NoRun ELSE worker[v]]
        /\ UNCHANGED <<rows, mails, socket, seen>>
    BY <1>1 DEF Complete, Throw
  <1>3. CASE ~Holds(w)
    <2>1. job' = job
      BY <1>3 DEF Complete, Throw
    <2>2. job' = [k \in Job |-> IF k \in {} THEN [job[k] EXCEPT !.st = "lost", !.owner = None]
                                            ELSE job[k]]
      BY <1>1, <2>1
    <2>3. Drops(w, {})
      BY <1>1, <1>2, <2>2 DEF Drops
    <2>4. QED
      BY <2>3, RunDropped
  <1>4. CASE Holds(w)
    <2>1. /\ job[j] \in JobRecord /\ job[j].st = "active" /\ job[j].starts = n
          /\ \A m \in job[j].cut : m <= job[j].starts
      BY <1>1, <1>4 DEF Holds, JobOK
    <2>2. \A v \in Worker : Busy(v) /\ worker[v].job = j /\ worker[v].run = n => v \in {w}
      BY <1>1 DEF Inv, Apart
    <2>3. CASE Complete(w)
      <3>1. PICK x : x = [job[j] EXCEPT !.st = "completed", !.owner = None]
        OBVIOUS
      <3>2. /\ x \in JobRecord /\ x.st = "completed"
            /\ x.starts = job[j].starts /\ x.cut = job[j].cut
        BY <2>1, <3>1 DEF JobRecord, Ended
      <3>3. job' = [job EXCEPT ![j] = x]
        BY <1>4, <2>3, <3>1 DEF Complete
      <3>4. /\ n \in rows[j] /\ (j \in Mailed => n \in mails[j])
            /\ \A m \in mails[j] : m \in x.cut \/ m = n
        BY <1>1, <2>1, <2>3, <3>2 DEF Complete, RunOK, JobOK
      <3>5. Settles(j, x, {w})
        BY <1>2, <2>1, <2>2, <3>2, <3>3, <3>4 DEF Settles
      <3>6. QED
        BY <1>1, <3>5, RunSettled
    <2>4. CASE Throw(w)
      <3>1. PICK x : x = [job[j] EXCEPT !.st = IF Retries(j) THEN "delayed" ELSE "failed",
                                        !.owner = None, !.made = @ + 1]
        OBVIOUS
      <3>2. /\ job[j].made \in Nat /\ job[j].made < Attempts /\ job[j].stalled \in Nat
            /\ n = job[j].made + job[j].stalled + 1 /\ job[j].stalled <= MaxStalled
        BY <1>1, <2>1, Sorts DEF JobOK, JobRecord
      <3>3. job[j].made + 1 \in 0 .. Attempts
        <4>1. \A made \in Nat : made < Attempts => made + 1 \in 0 .. Attempts
          BY Sorts
        <4>2. QED
          BY <3>2, <4>1
      <3>4. /\ x \in JobRecord /\ x.starts = n /\ x.cut = job[j].cut
            /\ x.made = job[j].made + 1 /\ x.stalled = job[j].stalled
            /\ (x.st = "delayed" /\ Retries(j)) \/ x.st = "failed"
        BY <2>1, <3>1, <3>3 DEF JobRecord, Ended
      <3>5. job' = [job EXCEPT ![j] = x]
        BY <1>4, <2>4, <3>1 DEF Throw
      <3>6. \A m \in mails[j] : m \in x.cut
        BY <1>1, <2>1, <2>4, <3>4 DEF Throw, MayThrow, RunOK, JobOK
      <3>7. x.st \in {"waiting", "delayed"} =>
              x.starts = x.made + x.stalled /\ x.made < Attempts /\ x.stalled <= MaxStalled
        <4>1. \A made \in Nat, stalled \in Nat :
                made + stalled + 1 = (made + 1) + stalled
          OBVIOUS
        <4>2. x.starts = x.made + x.stalled /\ x.stalled <= MaxStalled
          BY <3>2, <3>4, <4>1
        <4>3. Retries(j) => x.made < Attempts
          BY <3>4 DEF Retries
        <4>4. QED
          BY <3>4, <4>2, <4>3
      <3>8. Settles(j, x, {w})
        BY <1>2, <2>1, <2>2, <3>4, <3>5, <3>6, <3>7 DEF Settles
      <3>9. QED
        BY <1>1, <3>8, RunSettled
    <2>5. QED
      BY <2>3, <2>4
  <1>5. QED
    BY <1>3, <1>4

\* The run whose lock is lost joins the cut, whether it goes on or is gone.
LEMMA StallInv ==
  ASSUME Inv, NEW j \in Job, Stall(j)
  PROVE  Inv'
  <1>1. /\ job[j] \in JobRecord /\ JobOK(j) /\ job[j].st = "active"
        /\ worker \in [Worker -> RunRecord \cup {NoRun}]
    BY DEF Inv, TypeOK, Stall, LockLost
  <1>2. PICK x : x = [job[j] EXCEPT
          !.st = IF job[j].stalled < MaxStalled THEN "waiting" ELSE "failed",
          !.owner = None, !.stalled = @ + 1, !.cut = @ \cup {job[j].starts}]
    OBVIOUS
  <1>3. /\ job[j].made \in Nat /\ job[j].made < Attempts
        /\ job[j].stalled \in Nat /\ job[j].stalled <= MaxStalled
        /\ job[j].starts = job[j].made + job[j].stalled + 1
    BY <1>1, Sorts DEF JobOK, JobRecord
  <1>4. job[j].starts \in Run /\ job[j].stalled + 1 \in 0 .. MaxStalled + 1
    <2>1. \A made \in Nat, stalled \in Nat : made < Attempts /\ stalled <= MaxStalled =>
            /\ made + stalled + 1 \in 1 .. Attempts + MaxStalled
            /\ stalled + 1 \in 0 .. MaxStalled + 1
      BY Sorts
    <2>2. QED
      BY <1>3, <2>1 DEF Run
  <1>5. /\ x \in JobRecord /\ x.starts = job[j].starts /\ x.cut = job[j].cut \cup {job[j].starts}
        /\ x.made = job[j].made /\ x.stalled = job[j].stalled + 1
        /\ (x.st = "waiting" /\ job[j].stalled < MaxStalled) \/ x.st = "failed"
    BY <1>1, <1>2, <1>4 DEF JobRecord, Ended
  <1>6. job' = [job EXCEPT ![j] = x]
    BY <1>2 DEF Stall
  <1>7. /\ worker' = [v \in Worker |-> IF v \in {} THEN NoRun ELSE worker[v]]
        /\ UNCHANGED <<rows, mails, socket, seen>>
    BY <1>1 DEF Stall
  <1>8. \A m \in x.cut : m <= x.starts
    BY <1>1, <1>3, <1>5 DEF JobOK
  <1>9. \A m \in mails[j] : m \in x.cut
    BY <1>1, <1>5 DEF JobOK
  <1>10. /\ x.st \in {"waiting", "delayed"} =>
              x.starts = x.made + x.stalled /\ x.made < Attempts /\ x.stalled <= MaxStalled
         /\ x.st \in {"waiting", "failed"} /\ x.starts \in x.cut /\ job[j].cut \subseteq x.cut
    BY <1>3, <1>5, Sorts
  <1>11. Settles(j, x, {})
    BY <1>5, <1>6, <1>7, <1>8, <1>9, <1>10 DEF Settles
  <1>12. QED
    BY <1>11, RunSettled

LEMMA CrashInv ==
  ASSUME Inv, NEW w \in Worker, Crash(w)
  PROVE  Inv'
  <1> DEFINE J == {j \in Job : job[j].st = "adding" /\ job[j].owner = w}
  <1>1. /\ job' = [j \in Job |-> IF j \in J THEN [job[j] EXCEPT !.st = "lost", !.owner = None]
                                            ELSE job[j]]
        /\ worker' = [worker EXCEPT ![w] = NoRun] /\ UNCHANGED <<rows, mails, seen>>
    BY DEF Crash
  <1>2. socket' \in [Socket -> Worker \cup {None}]
    BY DEF Crash, Inv, TypeOK
  <1>3. J \in SUBSET {j \in Job : job[j].st = "adding"}
    OBVIOUS
  <1>4. Drops(w, J)
    BY <1>1, <1>2, <1>3 DEF Drops
  <1>5. QED
    BY <1>4, RunDropped

\* Tabs come and go; a tab closed has been shown nothing.
LEMMA TabInv ==
  ASSUME Inv, NEW s \in Socket, (\E w \in Worker : Connect(s, w)) \/ Disconnect(s)
  PROVE  Inv'
  <1>1. /\ UNCHANGED <<job, worker, rows, mails>>
        /\ socket' \in [Socket -> Worker \cup {None}]
        /\ seen' \in [Socket -> SUBSET (Job \X Run)]
        /\ \A t \in Socket : seen'[t] \subseteq seen[t]
    BY DEF Inv, TypeOK, Connect, Disconnect
  <1>2. TypeOK'
    BY <1>1 DEF Inv, TypeOK
  <1>3. (\A j \in Job : JobOK(j)') /\ (\A w \in Worker : RunOK(w)') /\ Apart'
    BY <1>1 DEF Inv, JobOK, RunOK, Busy, Holds, Apart
  <1>4. PushedIsStored'
    BY <1>1 DEF Inv, PushedIsStored
  <1>5. QED
    BY <1>2, <1>3, <1>4 DEF Inv

LEMMA NextInv == Inv /\ [Next]_vars => Inv'
  <1> SUFFICES ASSUME Inv, [Next]_vars PROVE Inv'
    OBVIOUS
  <1>1. ASSUME NEW j \in Job, NEW w \in Worker, Emit(j, w) \/ Take(w, j) PROVE Inv'
    BY <1>1, QueueInv, TakeInv
  <1>2. ASSUME NEW j \in Job, Enqueue(j) \/ Refuse(j) \/ Promote(j) \/ Stall(j) PROVE Inv'
    BY <1>2, QueueInv, StallInv
  <1>3. ASSUME NEW w \in Worker, Advance(w) PROVE Inv'
    BY <1>3, AdvanceInv, RunEnds DEF Advance
  <1>4. ASSUME NEW w \in Worker, Crash(w) PROVE Inv'
    BY <1>4, CrashInv
  <1>5. ASSUME NEW s \in Socket, (\E w \in Worker : Connect(s, w)) \/ Disconnect(s) PROVE Inv'
    BY <1>5, TabInv
  <1>6. CASE UNCHANGED vars
    BY <1>6 DEF vars, Inv, TypeOK, JobOK, RunOK, Busy, Holds, Apart, PushedIsStored
  <1>7. QED
    BY <1>1, <1>2, <1>3, <1>4, <1>5, <1>6 DEF Next

\* The inductive invariant, whatever the jobs, processes, tabs and limits.
THEOREM InvHolds == Spec => []Inv
  <1>1. QED
    BY InitInv, NextInv, PTL DEF Spec

-----------------------------------------------------------------------------
\* The variables keep their shapes; in particular no job is run more often
\* than the attempts and the forgiven stalls allow.
THEOREM TypeCorrect == Spec => []TypeOK
  <1>1. Inv => TypeOK
    BY DEF Inv
  <1>2. QED
    BY <1>1, InvHolds, PTL

\* The run that completed a job inserted its row and mailed it where it must.
THEOREM Completed == Spec => []CompletedIsDelivered
  <1>1. Inv => CompletedIsDelivered
    BY DEF Inv, JobOK, CompletedIsDelivered
  <1>2. QED
    BY <1>1, InvHolds, PTL

\* Of two runs that mailed the earlier had lost its lock.
THEOREM MailedTwice == Spec => []MailedTwiceOnlyIfStalled
  <1>1. Inv => MailedTwiceOnlyIfStalled
    <2>1. SUFFICES ASSUME Inv, NEW j \in Job, NEW m \in mails[j], NEW n \in mails[j],
                          m < n, m \notin job[j].cut
                   PROVE  FALSE
      BY DEF MailedTwiceOnlyIfStalled
    <2>2. m \in Run /\ n \in Run /\ m \in Int /\ n \in Int
      <3>1. mails \in [Job -> SUBSET Run] /\ Run \subseteq Int
        BY <2>1, Sorts DEF Inv, TypeOK
      <3>2. QED
        BY <3>1
    <2>3. m = job[j].starts /\ n <= job[j].starts
      BY <2>1 DEF Inv, JobOK
    <2>4. QED
      BY <2>1, <2>2, <2>3
  <1>2. QED
    BY <1>1, InvHolds, PTL

\* What a tab was shown is stored.
THEOREM Pushed == Spec => []PushedIsStored
  <1>1. Inv => PushedIsStored
    BY DEF Inv
  <1>2. QED
    BY <1>1, InvHolds, PTL

\* Once a job has ended, only runs that lost their lock add to it.
THEOREM LateEffects == Spec => LateEffectsAreStalled
  <1> DEFINE Late == \A j \in Job : job[j].st \in Ended =>
               (rows'[j] \ rows[j]) \cup (mails'[j] \ mails[j]) \subseteq job[j].cut
  <1>1. ASSUME Inv, NEW w \in Worker, Create(w) \/ Mail(w) PROVE Late
    <2>1. /\ Busy(w) /\ RunOK(w)
          /\ rows \in [Job -> SUBSET Run] /\ mails \in [Job -> SUBSET Run]
      BY <1>1 DEF Create, Mail, Busy, Inv, TypeOK
    <2>2. \A k \in Job :
            (rows'[k] \ rows[k]) \cup (mails'[k] \ mails[k])
              \subseteq IF k = worker[w].job THEN {worker[w].run} ELSE {}
      BY <1>1, <2>1 DEF Create, Mail
    <2>3. job[worker[w].job].st \in Ended => worker[w].run \in job[worker[w].job].cut
      BY <2>1 DEF RunOK, Holds, Ended
    <2>4. QED
      BY <2>2, <2>3
  <1>2. ASSUME Inv, [Next]_vars, ~ \E w \in Worker : Create(w) \/ Mail(w)
        PROVE  UNCHANGED <<rows, mails>>
    BY <1>2 DEF Next, vars, Emit, Take, Enqueue, Refuse, Promote, Stall, Advance, Push,
                Complete, Throw, Crash, Connect, Disconnect
  <1>3. Inv /\ [Next]_vars => [Late]_vars
    BY <1>1, <1>2
  <1>4. QED
    BY <1>3, InvHolds, PTL DEF Spec, LateEffectsAreStalled

-----------------------------------------------------------------------------
\* A step of the queue or of a run, seen by the abstract specification.
LEMMA PromiseMoves ==
  ASSUME TypeOK, NEW j \in Job, \A k \in Job : k # j => job'[k].st = job[k].st
  PROVE  Promise' = [Promise EXCEPT ![j] = PromiseOf(job'[j].st)]
  <1>1. \A k \in Job : k # j => PromiseOf(job'[k].st) = PromiseOf(job[k].st)
    BY DEF PromiseOf
  <1>2. Promise' = [k \in Job |-> PromiseOf(job'[k].st)]
    BY DEF Promise, PromiseOf
  <1>3. QED
    BY <1>1, <1>2 DEF Promise

\* Every step of the pipeline is a step of AtLeastOnce or changes nothing of it.
LEMMA StepImplements == Inv /\ [Next]_vars => [Abstract!Next]_Abstract!vars
  <1> SUFFICES ASSUME Inv, [Next]_vars PROVE [Abstract!Next]_Abstract!vars
    OBVIOUS
  <1>1. /\ TypeOK /\ job \in [Job -> JobRecord]
        /\ \A j \in Job : Promise[j] = PromiseOf(job[j].st)
    BY DEF Inv, TypeOK, Promise
  <1>2. ASSUME \A k \in Job : PromiseOf(job'[k].st) = PromiseOf(job[k].st)
        PROVE  Promise' = Promise
    BY <1>2 DEF Promise, PromiseOf
  \* Steps that end a promise without a delivery.
  <1>3. ASSUME UNCHANGED rows,
               \A k \in Job : \/ PromiseOf(job'[k].st) = PromiseOf(job[k].st)
                              \/ Promise[k] = "pending" /\ PromiseOf(job'[k].st) = "given up"
        PROVE  Abstract!GiveUp
    <2> DEFINE J == {k \in Job : Promise[k] = "pending" /\ PromiseOf(job'[k].st) = "given up"}
    <2>1. Promise' = [k \in Job |-> PromiseOf(job'[k].st)]
      BY DEF Promise, PromiseOf
    <2>2. \A k \in Job : PromiseOf(job'[k].st) = IF k \in J THEN "given up" ELSE Promise[k]
      BY <1>1, <1>3
    <2>3. Promise' = [k \in Job |-> IF k \in J THEN "given up" ELSE Promise[k]]
      BY <2>1, <2>2
    <2>4. J \in SUBSET {k \in Job : Promise[k] = "pending"}
      OBVIOUS
    <2>5. QED
      BY <1>3, <2>3, <2>4 DEF Abstract!GiveUp
  <1>4. CASE \E j \in Job, w \in Worker : Emit(j, w)
    <2>1. PICK j \in Job, w \in Worker : Emit(j, w)
      BY <1>4
    <2>2. /\ job[j].st = "none" /\ job'[j].st = "adding" /\ UNCHANGED rows
          /\ \A k \in Job : k # j => job'[k].st = job[k].st
      BY <1>1, <2>1 DEF Emit, JobRecord
    <2>3. Promise[j] = "none" /\ PromiseOf(job'[j].st) = "pending"
      BY <1>1, <2>2 DEF PromiseOf
    <2>4. Abstract!Ask(j)
      BY <1>1, <2>2, <2>3, PromiseMoves DEF Abstract!Ask
    <2>5. QED
      BY <2>4 DEF Abstract!Next
  <1>5. CASE \E w \in Worker : Create(w)
    <2>1. PICK w \in Worker : Create(w)
      BY <1>5
    <2> DEFINE j == worker[w].job
               n == worker[w].run
    <2>2. Busy(w) /\ j \in Job /\ n \in Run /\ n <= job[j].starts
      <3>1. Busy(w)
        BY <2>1 DEF Create, Busy
      <3>2. QED
        BY <3>1, BusyTyped DEF Inv, RunOK
    <2>3. rows' = [rows EXCEPT ![j] = @ \cup {n}] /\ Promise' = Promise
      BY <2>1, <1>2 DEF Create
    <2>4. Promise[j] # "none"
      <3>1. job[j].starts # 0
        BY <1>1, <2>2, Sorts DEF JobRecord
      <3>2. job[j].st # "none"
        BY <2>2, <3>1 DEF Inv, JobOK
      <3>3. QED
        BY <1>1, <2>2, <3>2 DEF PromiseOf
    <2>5. Abstract!Store(j)
      BY <2>2, <2>3, <2>4 DEF Abstract!Store, Run
    <2>6. QED
      BY <2>2, <2>5 DEF Abstract!Next
  <1>6. CASE \E w \in Worker : Complete(w)
    <2>1. PICK w \in Worker : Complete(w)
      BY <1>6
    <2> DEFINE j == worker[w].job
    <2>2. /\ Busy(w) /\ j \in Job /\ worker[w].run \in rows[j] /\ UNCHANGED rows
      <3>1. Busy(w) /\ UNCHANGED rows
        BY <2>1 DEF Complete, Busy
      <3>2. QED
        BY <2>1, <3>1, BusyTyped DEF Inv, RunOK, Complete
    <2>3. CASE Holds(w)
      <3>1. /\ job[j].st = "active" /\ job'[j].st = "completed"
            /\ \A k \in Job : k # j => job'[k].st = job[k].st
        BY <1>1, <2>1, <2>2, <2>3 DEF Complete, Holds, JobRecord
      <3>2. Promise[j] = "pending" /\ PromiseOf(job'[j].st) = "delivered"
        BY <1>1, <2>2, <3>1 DEF PromiseOf
      <3>3. Abstract!Settle(j)
        BY <1>1, <2>2, <3>1, <3>2, PromiseMoves DEF Abstract!Settle
      <3>4. QED
        BY <2>2, <3>3 DEF Abstract!Next
    <2>4. CASE ~Holds(w)
      BY <1>2, <2>1, <2>2, <2>4 DEF Complete, Abstract!vars
    <2>5. QED
      BY <2>3, <2>4
  <1>7. CASE \E w \in Worker : Throw(w) \/ Crash(w)
    <2>1. PICK w \in Worker : Throw(w) \/ Crash(w)
      BY <1>7
    <2>2. UNCHANGED rows
      BY <2>1 DEF Throw, Crash
    <2>3. \A k \in Job : \/ job'[k].st = job[k].st
                         \/ job[k].st = "active" /\ job'[k].st \in {"delayed", "failed"}
                         \/ job[k].st = "adding" /\ job'[k].st = "lost"
      <3>1. CASE Crash(w)
        BY <1>1, <3>1 DEF Crash, JobRecord
      <3>2. CASE Throw(w)
        <4>1. worker[w].job \in Job
          BY <3>2, BusyTyped DEF Throw, MayThrow, Busy, Inv
        <4>2. CASE Holds(w)
          BY <1>1, <3>2, <4>1, <4>2 DEF Throw, Holds, JobRecord
        <4>3. CASE ~Holds(w)
          BY <3>2, <4>3 DEF Throw
        <4>4. QED
          BY <4>2, <4>3
      <3>3. QED
        BY <2>1, <3>1, <3>2
    <2>4. \A k \in Job : \/ PromiseOf(job'[k].st) = PromiseOf(job[k].st)
                         \/ Promise[k] = "pending" /\ PromiseOf(job'[k].st) = "given up"
      BY <1>1, <2>3 DEF PromiseOf
    <2>5. QED
      BY <1>3, <2>2, <2>4 DEF Abstract!Next
  <1>8. CASE \E j \in Job : Refuse(j) \/ Stall(j)
    <2>1. PICK j \in Job : Refuse(j) \/ Stall(j)
      BY <1>8
    <2>2. /\ UNCHANGED rows /\ job[j].st \in {"adding", "active"}
          /\ job'[j].st \in {"lost", "waiting", "failed"}
          /\ \A k \in Job : k # j => job'[k].st = job[k].st
      BY <1>1, <2>1 DEF Refuse, Stall, LockLost, JobRecord
    <2>3. \A k \in Job : \/ PromiseOf(job'[k].st) = PromiseOf(job[k].st)
                         \/ Promise[k] = "pending" /\ PromiseOf(job'[k].st) = "given up"
      BY <1>1, <2>2 DEF PromiseOf
    <2>4. QED
      BY <1>3, <2>2, <2>3 DEF Abstract!Next
  <1>9. CASE \E j \in Job : Enqueue(j) \/ Promote(j) \/ \E w \in Worker : Take(w, j)
    <2>1. PICK j \in Job : Enqueue(j) \/ Promote(j) \/ \E w \in Worker : Take(w, j)
      BY <1>9
    <2>2. /\ UNCHANGED rows /\ job[j].st \in {"adding", "delayed", "waiting"}
          /\ job'[j].st \in {"waiting", "active"}
          /\ \A k \in Job : k # j => job'[k].st = job[k].st
      <3>1. CASE Enqueue(j) \/ Promote(j)
        BY <1>1, <3>1 DEF Enqueue, Promote, JobRecord
      <3>2. CASE \E w \in Worker : Take(w, j)
        BY <1>1, <3>2 DEF Take, JobRecord
      <3>3. QED
        BY <2>1, <3>1, <3>2
    <2>3. Promise' = Promise
      BY <1>2, <2>2 DEF PromiseOf
    <2>4. QED
      BY <2>2, <2>3 DEF Abstract!vars
  <1>10. CASE \/ UNCHANGED vars
              \/ \E w \in Worker : Push(w) \/ Mail(w)
              \/ \E s \in Socket : Disconnect(s) \/ \E w \in Worker : Connect(s, w)
    <2>1. UNCHANGED <<job, rows>>
      BY <1>10 DEF vars, Push, Mail, Connect, Disconnect
    <2>2. QED
      BY <1>2, <2>1 DEF Abstract!vars
  <1>11. QED
    BY <1>4, <1>5, <1>6, <1>7, <1>8, <1>9, <1>10 DEF Next, Advance

\* The pipeline implements at-least-once delivery, for any jobs and limits.
THEOREM Implements == Spec => ImplementsAtLeastOnce
  <1>1. Init => Abstract!Init
    BY DEF Init, Abstract!Init, Promise, PromiseOf, NoJob
  <1>2. QED
    BY <1>1, StepImplements, InvHolds, PTL DEF Spec, ImplementsAtLeastOnce, Abstract!Spec

-----------------------------------------------------------------------------
(* NotificationBell: the shapes *)

Cell == {"none", "unread", "read"}
Entry == [id : Notification, read : BOOLEAN, pushed : BOOLEAN]
Patch ==
  [id : Notification, twin : BOOLEAN, no : Nat, all : BOOLEAN,
   st : {"sent", "ok", "lost"}, mounted : BOOLEAN]

\* The variables have their shapes, and calls were sent at a time that has been.
BellTypes ==
  /\ past \in Seq([Notification -> Cell]) /\ past # <<>>
  /\ unsent \subseteq Notification
  /\ wire \in Seq(Notification)
  /\ count \in Nat
  /\ asked \subseteq 1 .. Len(past)
  /\ page \in [st : {"closed", "spinner", "list"}, items : SUBSET Entry, unreadOnly : BOOLEAN]
  /\ loads \subseteq [no : Nat, from : 1 .. Len(past), unreadOnly : BOOLEAN]
  /\ marks \subseteq Patch
  /\ clicks \in Nat
  /\ drift \in BOOLEAN
  /\ blurred \subseteq Notification

-----------------------------------------------------------------------------
(* The states of the rows *)

LEMMA RowFacts ==
  ASSUME past \in Seq([Notification -> Cell]), past # <<>>
  PROVE  /\ Len(past) \in Nat /\ Len(past) >= 1
         /\ Row \in [Notification -> Cell]
         /\ \A t \in 1 .. Len(past) : past[t] \in [Notification -> Cell]
  BY DEF Row

LEMMA PutFacts ==
  ASSUME past \in Seq([Notification -> Cell]), past # <<>>,
         NEW n \in Notification, NEW st \in Cell, Put(n, st)
  PROVE  /\ past' \in Seq([Notification -> Cell]) /\ past' # <<>>
         /\ Len(past') = Len(past) + 1
         /\ Row' = [Row EXCEPT ![n] = st]
         /\ \A t \in 1 .. Len(past) : past'[t] = past[t]
         /\ past'[Len(past')] = Row'
  <1> DEFINE r == [Row EXCEPT ![n] = st]
  <1>1. Row \in [Notification -> Cell] /\ Len(past) \in Nat /\ Len(past) >= 1
    BY RowFacts
  <1>2. r \in [Notification -> Cell]
    BY <1>1
  <1>3. past' = Append(past, r)
    BY DEF Put
  <1> HIDE DEF r
  <1>4. /\ past' \in Seq([Notification -> Cell]) /\ Len(past') = Len(past) + 1
        /\ past'[Len(past) + 1] = r
        /\ \A t \in 1 .. Len(past) : past'[t] = past[t]
    BY <1>2, <1>3
  <1>5. Row' = r
    BY <1>4 DEF Row
  <1> QED
    BY <1>1, <1>4, <1>5 DEF r, Row

-----------------------------------------------------------------------------
(* The answers to the PATCHes of mark all *)

AllRead(m) ==
  /\ m.st = "ok" /\ Batch(m) \ {m} = {}
  /\ count' = Decremented(count)
  /\ marks' = marks \ {m}
  /\ page' = IF m.mounted THEN [page EXCEPT !.items = ReadAllItems(page.items, m)] ELSE page
  /\ blurred' = IF m.mounted
                  THEN blurred \cup {i.id : i \in {j \in page.items : Row[j.id] # "read"}}
                  ELSE blurred
  /\ asked' = asked \cup {Len(past)}

OneRead(m) ==
  /\ m.st = "ok" /\ Batch(m) \ {m} # {}
  /\ count' = Decremented(count)
  /\ marks' = marks \ {m}
  /\ UNCHANGED <<page, blurred, asked>>

GivenUp(m) ==
  /\ m.st = "lost"
  /\ count' = count
  /\ marks' = (marks \ Batch(m)) \cup
                {[o EXCEPT !.all = FALSE, !.mounted = FALSE] : o \in Batch(m) \ {m}}
  /\ page' = page
  /\ blurred' = blurred \cup {o.id : o \in Batch(m)}
                  \cup {i.id : i \in {j \in page.items : Row[j.id] = "read"}}
  /\ asked' = asked \cup {Len(past)}

LEMMA OfAllCases ==
  ASSUME NEW m \in Patch, MarkedOfAll(m)
  PROVE  /\ AllRead(m) \/ OneRead(m) \/ GivenUp(m)
         /\ m.all
         /\ drift' = (drift \/ Clamped(m))
         /\ UNCHANGED <<past, unsent, link, wire, loads, clicks, upsets>>
  <1>1. m.st \in {"ok", "lost"}
    BY DEF MarkedOfAll, Patch
  <1>2. CASE m.st = "ok" /\ Batch(m) \ {m} = {}
    <2>1. AllRead(m)
      BY <1>2, Zenon DEF MarkedOfAll, AllRead
    <2> QED
      BY <2>1 DEF MarkedOfAll, server
  <1>3. CASE m.st = "ok" /\ Batch(m) \ {m} # {}
    <2>1. OneRead(m)
      BY <1>3, "ok" # "lost", Zenon DEF MarkedOfAll, OneRead
    <2> QED
      BY <2>1 DEF MarkedOfAll, server
  <1>4. CASE m.st = "lost"
    <2>1. GivenUp(m)
      BY <1>4, "ok" # "lost", Zenon DEF MarkedOfAll, GivenUp
    <2> QED
      BY <2>1 DEF MarkedOfAll, server
  <1> QED
    BY <1>1, <1>2, <1>3, <1>4

-----------------------------------------------------------------------------
(* Types *)

LEMMA BellInitTypes == BellInit => BellTypes
  <1> SUFFICES ASSUME BellInit PROVE BellTypes
    OBVIOUS
  <1>1. PICK S \in SUBSET Notification :
          past = <<[n \in Notification |-> IF n \in S THEN "unread" ELSE "none"]>>
    BY DEF BellInit
  <1>2. past \in Seq([Notification -> Cell]) /\ past # <<>> /\ Len(past) = 1
    BY <1>1 DEF Cell
  <1>3. page \in [st : {"closed", "spinner", "list"}, items : SUBSET Entry, unreadOnly : BOOLEAN]
    BY DEF BellInit, NoPage
  <1>4. asked \subseteq 1 .. Len(past) /\ wire \in Seq(Notification)
    BY <1>2 DEF BellInit
  <1> QED
    BY <1>2, <1>3, <1>4 DEF BellInit, BellTypes

LEMMA ListingType ==
  ASSUME NEW row \in [Notification -> Cell], NEW u \in BOOLEAN
  PROVE  Listing(row, u) \subseteq Entry
  <1> SUFFICES ASSUME NEW n \in Notification
               PROVE  [id |-> n, read |-> row[n] = "read", pushed |-> FALSE] \in Entry
    BY DEF Listing
  <1>1. (row[n] = "read") \in BOOLEAN
    OBVIOUS
  <1> QED
    BY <1>1 DEF Entry

LEMMA PageFacts ==
  ASSUME page \in [st : {"closed", "spinner", "list"}, items : SUBSET Entry, unreadOnly : BOOLEAN],
         NEW items \in SUBSET Entry
  PROVE  /\ [page EXCEPT !.items = items] \in
              [st : {"closed", "spinner", "list"}, items : SUBSET Entry, unreadOnly : BOOLEAN]
         /\ [page EXCEPT !.st = "list", !.items = items] \in
              [st : {"closed", "spinner", "list"}, items : SUBSET Entry, unreadOnly : BOOLEAN]
  OBVIOUS

LEMMA BellTypesStep ==
  ASSUME BellTypes, [BellNext]_bellVars
  PROVE  BellTypes'
  <1> USE DEF BellTypes, server, bell, shown
  <1>0. /\ Len(past) \in Nat /\ Len(past) >= 1
        /\ \A t \in 1 .. Len(past) : past[t] \in [Notification -> Cell]
    BY RowFacts
  <1>1. ASSUME NEW n \in Notification, Store(n) PROVE BellTypes'
    <2>1. Put(n, "unread") /\ "unread" \in Cell
      BY <1>1 DEF Store, Cell
    <2> QED
      BY <1>0, <1>1, <2>1, PutFacts DEF Store
  <1>2. ASSUME NEW n \in Notification, PushToUser(n) PROVE BellTypes'
    <2>1. wire' \in Seq(Notification)
      <3>1. wire' = wire \/ wire' = Append(wire, n)
        BY <1>2 DEF PushToUser
      <3>2. wire \in Seq(Notification)
        OBVIOUS
      <3> HIDE DEF BellTypes, server, bell, shown
      <3> QED
        BY <3>1, <3>2
    <2>2. drift' \in BOOLEAN /\ blurred' \subseteq Notification
      BY <1>2 DEF PushToUser
    <2> QED
      BY <1>2, <2>1, <2>2 DEF PushToUser
  <1>3. ASSUME NEW n \in Notification, SkipPush(n) PROVE BellTypes'
    BY <1>3 DEF SkipPush
  <1>4. ASSUME NEW n \in Notification, ReadElsewhere(n) PROVE BellTypes'
    <2>1. Put(n, "read") /\ "read" \in Cell
      BY <1>4 DEF ReadElsewhere, Cell
    <2> QED
      BY <1>0, <1>4, <2>1, PutFacts DEF ReadElsewhere
  <1>5. CASE LinkUp
    BY <1>5 DEF LinkUp
  <1>6. CASE LinkDown
    BY <1>6 DEF LinkDown
  <1>7. CASE OnPush
    <2>1. wire # <<>> /\ wire' = Tail(wire) /\ count' = count + 1
      BY <1>7 DEF OnPush, Counted
    <2>2. Head(wire) \in Notification /\ wire' \in Seq(Notification)
      BY <2>1
    <2>3. [id |-> Head(wire), read |-> FALSE, pushed |-> TRUE] \in Entry
      BY <2>2 DEF Entry
    <2>4. page' \in [st : {"closed", "spinner", "list"}, items : SUBSET Entry, unreadOnly : BOOLEAN]
      BY <1>7, <2>3 DEF OnPush, Prepended
    <2> QED
      BY <1>7, <2>1, <2>2, <2>4 DEF OnPush
  <1>8. ASSUME NEW from \in asked, Refreshed(from) PROVE BellTypes'
    <2>1. PICK t \in from .. Len(past) :
            /\ count' = Cardinality(Unread(past[t]))
            /\ drift' = \E n \in Notification : ~Exact(n, t)
      BY <1>8 DEF Refreshed
    <2>2. Unread(past[t]) \in SUBSET Notification
      BY DEF Unread
    <2>3. count' \in Nat
      BY <2>1, <2>2, NotificationAssumption, FS_Subset, FS_CardinalityType
    <2> QED
      BY <1>8, <2>1, <2>3 DEF Refreshed
  <1>9. ASSUME NEW from \in asked, RefreshFails(from) PROVE BellTypes'
    BY <1>9 DEF RefreshFails
  <1>10. CASE Open
    <2>1. NewLoad(FALSE) \in [no : Nat, from : 1 .. Len(past), unreadOnly : BOOLEAN]
      BY <1>0 DEF NewLoad
    <2>2. page' \in [st : {"closed", "spinner", "list"}, items : SUBSET Entry, unreadOnly : BOOLEAN]
      BY <1>10 DEF Open, NoPage
    <2>3. clicks' \in Nat
      BY <1>10 DEF Open, Click
    <2> QED
      BY <1>10, <2>1, <2>2, <2>3 DEF Open
  <1>11. CASE Leave
    <2>1. ASSUME NEW m \in marks PROVE [m EXCEPT !.mounted = FALSE] \in Patch
      BY DEF Patch
    <2> QED
      BY <1>11, <2>1 DEF Leave, NoPage
  <1>12. CASE Toggle
    <2>1. NewLoad(~page.unreadOnly) \in [no : Nat, from : 1 .. Len(past), unreadOnly : BOOLEAN]
      BY <1>0 DEF NewLoad
    <2>2. page' \in [st : {"closed", "spinner", "list"}, items : SUBSET Entry, unreadOnly : BOOLEAN]
      BY <1>12 DEF Toggle
    <2>3. clicks' \in Nat
      BY <1>12 DEF Toggle, Click
    <2> QED
      BY <1>12, <2>1, <2>2, <2>3 DEF Toggle
  <1>13. CASE MarkAll
    <2>1. ASSUME NEW i \in UnreadItems PROVE Mark(i.id, Twin(i), TRUE) \in Patch
      BY DEF Mark, Patch, UnreadItems, Entry, Twin
    <2>2. marks' \subseteq Patch
      BY <1>13, <2>1 DEF MarkAll
    <2>3. clicks' \in Nat
      BY <1>13 DEF MarkAll, Click
    <2> QED
      BY <1>13, <2>2, <2>3 DEF MarkAll
  <1>14. ASSUME NEW item \in page.items, MarkRead(item) PROVE BellTypes'
    <2>1. Mark(item.id, FALSE, FALSE) \in Patch
      BY DEF Mark, Patch, Entry
    <2>2. clicks' \in Nat
      BY <1>14 DEF MarkRead, Click
    <2> QED
      BY <1>14, <2>1, <2>2 DEF MarkRead
  <1>15. ASSUME NEW l \in loads, Loaded(l) PROVE BellTypes'
    <2>1. PICK t \in l.from .. Len(past) :
            /\ page' = [page EXCEPT !.st = "list", !.items = Listing(past[t], l.unreadOnly)]
            /\ blurred' = IF l.unreadOnly # page.unreadOnly THEN Notification
                            ELSE {n \in Notification : Doubtful(n, t)}
      BY <1>15 DEF Loaded
    <2>2. Listing(past[t], l.unreadOnly) \subseteq Entry
      <3>1. l.from \in 1 .. Len(past) /\ l.unreadOnly \in BOOLEAN
        OBVIOUS
      <3>2. past[t] \in [Notification -> Cell]
        BY <1>0, <3>1
      <3> HIDE DEF BellTypes, server, bell, shown
      <3> QED
        BY <3>1, <3>2, ListingType
    <2>3. page' \in [st : {"closed", "spinner", "list"}, items : SUBSET Entry, unreadOnly : BOOLEAN]
      <3>1. page' = [page EXCEPT !.st = "list", !.items = Listing(past[t], l.unreadOnly)]
        BY <2>1
      <3>2. page \in [st : {"closed", "spinner", "list"}, items : SUBSET Entry, unreadOnly : BOOLEAN]
        OBVIOUS
      <3> HIDE DEF BellTypes, server, bell, shown
      <3> QED
        BY <2>2, <3>1, <3>2, PageFacts
    <2>4. blurred' \subseteq Notification
      BY <2>1
    <2>5. loads' \subseteq loads
      BY <1>15 DEF Loaded
    <2> QED
      BY <1>15, <2>3, <2>4, <2>5 DEF Loaded
  <1>16. ASSUME NEW l \in loads, LoadFails(l) PROVE BellTypes'
    BY <1>16 DEF LoadFails
  <1>17. ASSUME NEW m \in marks, Serve(m) PROVE BellTypes'
    <2>1. m.id \in Notification /\ [m EXCEPT !.st = "ok"] \in Patch /\ "read" \in Cell
      BY DEF Patch, Cell
    <2>2. CASE Put(m.id, "read") /\ UNCHANGED drift
      <3>1. /\ past' \in Seq([Notification -> Cell]) /\ past' # <<>>
            /\ Len(past') = Len(past) + 1
        BY <2>1, <2>2, PutFacts
      <3>2. marks' \subseteq Patch
        BY <1>17, <2>1 DEF Serve
      <3> QED
        BY <1>0, <1>17, <2>2, <3>1, <3>2 DEF Serve
    <2>3. CASE UNCHANGED past
      BY <1>17, <2>1, <2>3 DEF Serve
    <2> QED
      BY <1>17, <2>2, <2>3 DEF Serve
  <1>18. ASSUME NEW m \in marks, Lose(m) PROVE BellTypes'
    <2>1. m.id \in Notification /\ [m EXCEPT !.st = "lost"] \in Patch
      BY DEF Patch
    <2> QED
      BY <1>18, <2>1 DEF Lose
  <1>19. ASSUME NEW m \in marks, Marked(m) PROVE BellTypes'
    <2>1. ReadItems(page.items, m) \subseteq Entry
      BY DEF ReadItems, Entry
    <2>2. page' \in [st : {"closed", "spinner", "list"}, items : SUBSET Entry, unreadOnly : BOOLEAN]
      BY <1>19, <2>1 DEF Marked
    <2>3. count' \in Nat /\ drift' \in BOOLEAN
      BY <1>19 DEF Marked, Decremented, Clamped
    <2>4. marks' \subseteq Patch
      BY <1>19 DEF Marked
    <2> QED
      BY <1>19, <2>2, <2>3, <2>4 DEF Marked
  <1>20. ASSUME NEW m \in marks, MarkedOfAll(m) PROVE BellTypes'
    <2>1. ReadAllItems(page.items, m) \subseteq Entry
      BY DEF ReadAllItems, Entry
    <2>2. /\ \A i \in page.items : i.id \in Notification
          /\ \A o \in Batch(m) : o.id \in Notification
          /\ \A o \in Batch(m) : [o EXCEPT !.all = FALSE, !.mounted = FALSE] \in Patch
      <3>1. page.items \subseteq Entry /\ Batch(m) \subseteq Patch
        BY DEF Batch
      <3> HIDE DEF BellTypes, server, bell, shown
      <3>2. \A i \in page.items : i.id \in Notification
        BY <3>1 DEF Entry
      <3>3. \A o \in Batch(m) : o.id \in Notification
        BY <3>1 DEF Patch
      <3>4. \A o \in Batch(m) : [o EXCEPT !.all = FALSE, !.mounted = FALSE] \in Patch
        BY <3>1 DEF Patch
      <3> QED
        BY <3>2, <3>3, <3>4
    <2>3. /\ AllRead(m) \/ OneRead(m) \/ GivenUp(m)
          /\ drift' \in BOOLEAN
          /\ UNCHANGED <<past, unsent, link, wire, loads, clicks, upsets>>
      <3> HIDE DEF BellTypes, server, bell, shown
      <3>1. m \in Patch
        BY DEF BellTypes
      <3>2. /\ AllRead(m) \/ OneRead(m) \/ GivenUp(m)
            /\ drift' = (drift \/ Clamped(m))
            /\ UNCHANGED <<past, unsent, link, wire, loads, clicks, upsets>>
        BY <1>20, <3>1, OfAllCases
      <3> QED
        BY <3>2
    <2>4. CASE AllRead(m)
      <3>1. page' \in [st : {"closed", "spinner", "list"}, items : SUBSET Entry, unreadOnly : BOOLEAN]
        <4>1. page' = [page EXCEPT !.items = ReadAllItems(page.items, m)] \/ page' = page
          BY <2>4 DEF AllRead
        <4>2. page \in [st : {"closed", "spinner", "list"}, items : SUBSET Entry, unreadOnly : BOOLEAN]
          OBVIOUS
        <4> HIDE DEF BellTypes, server, bell, shown
        <4>3. [page EXCEPT !.items = ReadAllItems(page.items, m)] \in
                [st : {"closed", "spinner", "list"}, items : SUBSET Entry, unreadOnly : BOOLEAN]
          BY <2>1, <4>2, PageFacts
        <4> QED
          BY <4>1, <4>2, <4>3, Zenon
      <3>2. blurred' \subseteq Notification
        BY <2>2, <2>4 DEF AllRead
      <3>3. count' \in Nat /\ asked' \subseteq 1 .. Len(past) /\ marks' \subseteq Patch
        BY <1>0, <2>4 DEF AllRead, Decremented
      <3> QED
        BY <2>3, <3>1, <3>2, <3>3
    <2>5. CASE OneRead(m)
      BY <2>3, <2>5 DEF OneRead, Decremented
    <2>6. CASE GivenUp(m)
      <3>1. blurred' \subseteq Notification
        BY <2>2, <2>6 DEF GivenUp
      <3>2. marks' \subseteq Patch
        BY <2>2, <2>6 DEF GivenUp
      <3>3. count' = count /\ asked' = asked \cup {Len(past)}
        BY <2>6 DEF GivenUp
      <3>4. page' \in [st : {"closed", "spinner", "list"}, items : SUBSET Entry, unreadOnly : BOOLEAN]
        BY <2>6 DEF GivenUp
      <3>5. asked' \subseteq 1 .. Len(past)
        <4>1. asked \subseteq 1 .. Len(past) /\ Len(past) \in 1 .. Len(past)
          BY <1>0
        <4> QED
          BY <3>3, <4>1, Zenon
      <3> QED
        BY <2>3, <3>1, <3>2, <3>3, <3>4, <3>5
    <2> QED
      BY <2>3, <2>4, <2>5, <2>6
  <1>21. CASE UNCHANGED bellVars
    BY <1>21 DEF bellVars
  <1> QED
    BY <1>1, <1>2, <1>3, <1>4, <1>5, <1>6, <1>7, <1>8, <1>9, <1>10, <1>11, <1>12, <1>13,
       <1>14, <1>15, <1>16, <1>17, <1>18, <1>19, <1>20, <1>21 DEF BellNext

-----------------------------------------------------------------------------
(* The pushes: which of them are yet to arrive *)

\* A push is sent once: it is not sent while it is under way, nor twice.
WireOK ==
  /\ \A i, k \in DOMAIN wire : wire[i] = wire[k] => i = k
  /\ \A i \in DOMAIN wire : wire[i] \notin unsent

LEMMA WireFrame ==
  ASSUME [BellNext]_bellVars
  PROVE  \/ \E n \in Notification : Store(n) \/ PushToUser(n) \/ SkipPush(n)
         \/ LinkDown \/ OnPush
         \/ UNCHANGED <<unsent, wire>>
  BY DEF BellNext, bellVars, server, bell, ReadElsewhere, LinkUp, Refreshed, RefreshFails,
         Open, Leave, Toggle, MarkAll, MarkRead, Loaded, LoadFails, Serve, Lose, Marked,
         MarkedOfAll

LEMMA PendingFrame == UNCHANGED <<unsent, wire>> => \A n : Pending(n)' = Pending(n)
  BY DEF Pending

\* A push that is sent to a connected tab stays pending.
LEMMA SentStaysPending ==
  ASSUME BellTypes, WireOK, NEW n \in unsent,
         unsent' = unsent \ {n}, wire' = Append(wire, n)
  PROVE  WireOK' /\ \A k \in Notification : Pending(k)' = Pending(k)
  <1>1. /\ wire \in Seq(Notification) /\ n \in Notification
        /\ Len(wire) \in Nat
        /\ \A i \in DOMAIN wire : wire[i] # n
        /\ DOMAIN wire = 1 .. Len(wire)
    BY DEF BellTypes, WireOK
  <1>2. /\ DOMAIN wire' = 1 .. Len(wire) + 1
        /\ \A i \in DOMAIN wire : wire'[i] = wire[i]
        /\ wire'[Len(wire) + 1] = n
    BY <1>1
  <1>3. WireOK'
    <2>1. ASSUME NEW i \in DOMAIN wire', NEW k \in DOMAIN wire', wire'[i] = wire'[k]
          PROVE  i = k
      BY <1>1, <1>2, <2>1 DEF WireOK
    <2>2. ASSUME NEW i \in DOMAIN wire' PROVE wire'[i] \notin unsent'
      BY <1>1, <1>2 DEF WireOK
    <2> QED
      BY <2>1, <2>2 DEF WireOK
  <1>4. ASSUME NEW k \in Notification PROVE Pending(k)' = Pending(k)
    <2>1. (\E i \in DOMAIN wire' : wire'[i] = k) <=> k = n \/ \E i \in DOMAIN wire : wire[i] = k
      BY <1>1, <1>2
    <2> QED
      BY <2>1 DEF Pending
  <1> QED
    BY <1>3, <1>4

\* The push that arrives is no longer pending; the others are as before.
LEMMA HeardIsNotPending ==
  ASSUME BellTypes, WireOK, OnPush, NEW h, h = Head(wire)
  PROVE  /\ h \in Notification
         /\ WireOK'
         /\ Pending(h) /\ ~ Pending(h)'
         /\ \A k \in Notification \ {h} : Pending(k)' = Pending(k)
  <1>1. /\ wire \in Seq(Notification) /\ wire # <<>> /\ wire' = Tail(wire) /\ unsent' = unsent
        /\ Len(wire) \in Nat /\ Len(wire) >= 1 /\ DOMAIN wire = 1 .. Len(wire)
    BY DEF BellTypes, OnPush, server
  <1>2. /\ DOMAIN wire' = 1 .. Len(wire) - 1
        /\ \A i \in 1 .. Len(wire) - 1 : wire'[i] = wire[i + 1]
        /\ h = wire[1] /\ h \in Notification
    BY <1>1
  <1>3. ASSUME NEW i \in DOMAIN wire' PROVE i + 1 \in DOMAIN wire /\ wire'[i] = wire[i + 1] /\ i + 1 # 1
    BY <1>1, <1>2
  <1>4. WireOK'
    <2>1. ASSUME NEW i \in DOMAIN wire', NEW k \in DOMAIN wire', wire'[i] = wire'[k]
          PROVE  i = k
      <3>1. i + 1 = k + 1
        BY <1>3, <2>1 DEF WireOK
      <3> QED
        BY <1>1, <1>2, <3>1
    <2>2. ASSUME NEW i \in DOMAIN wire' PROVE wire'[i] \notin unsent'
      BY <1>1, <1>3 DEF WireOK
    <2> QED
      BY <2>1, <2>2 DEF WireOK
  <1>5. 1 \in DOMAIN wire
    BY <1>1
  <1>6. Pending(h)
    BY <1>2, <1>5 DEF Pending
  <1>7. ~ Pending(h)'
    <2>1. h \notin unsent
      BY <1>2, <1>5 DEF WireOK
    <2>2. ASSUME NEW i \in DOMAIN wire' PROVE wire'[i] # h
      BY <1>2, <1>3, <1>5 DEF WireOK
    <2>3. Pending(h)' <=> h \in unsent \/ \E i \in DOMAIN wire' : wire'[i] = h
      BY <1>1 DEF Pending
    <2> QED
      BY <2>1, <2>2, <2>3
  <1>8. ASSUME NEW k \in Notification \ {h} PROVE Pending(k)' = Pending(k)
    <2>1. ASSUME NEW i \in DOMAIN wire, wire[i] = k
          PROVE  \E j \in DOMAIN wire' : wire'[j] = k
      <3>1. i - 1 \in DOMAIN wire' /\ wire'[i - 1] = wire[i]
        BY <1>1, <1>2, <2>1
      <3> QED
        BY <2>1, <3>1
    <2> QED
      BY <1>1, <1>3, <2>1 DEF Pending
  <1> QED
    BY <1>2, <1>4, <1>6, <1>7, <1>8

\* Whatever else happens to the pushes, one that is pending was, or has its
\* row stored by the step.
LEMMA PendingStep ==
  ASSUME BellTypes, WireOK, [BellNext]_bellVars, NEW n \in Notification, Pending(n)', ~ Pending(n)
  PROVE  Store(n)
  <1>1. ASSUME NEW k \in Notification, Store(k), k # n PROVE FALSE
    BY <1>1 DEF Store, Pending, bell
  <1>2. ASSUME NEW k \in Notification, PushToUser(k) PROVE FALSE
    <2>1. CASE link = "on"
      BY <1>2, <2>1, SentStaysPending DEF PushToUser
    <2>2. CASE link # "on"
      BY <1>2, <2>2 DEF PushToUser, Pending
    <2> QED
      BY <2>1, <2>2
  <1>3. ASSUME NEW k \in Notification, SkipPush(k) PROVE FALSE
    BY <1>3 DEF SkipPush, Pending
  <1>4. CASE LinkDown
    BY <1>4 DEF LinkDown, Pending, server
  <1>5. CASE OnPush
    BY <1>5, HeardIsNotPending
  <1> QED
    BY <1>1, <1>2, <1>3, <1>4, <1>5, WireFrame, PendingFrame

\* What may happen to the rows whose push is pending.
RowsPending == \A n \in Notification : Pending(n) => Row[n] # "none"

LEMMA WireOKStep ==
  ASSUME BellTypes, WireOK, RowsPending, [BellNext]_bellVars
  PROVE  WireOK'
  <1>1. ASSUME NEW k \in Notification, Store(k) PROVE WireOK'
    <2>1. ~ Pending(k)
      BY <1>1 DEF Store, RowsPending
    <2> QED
      BY <1>1, <2>1 DEF Store, WireOK, Pending, bell
  <1>2. ASSUME NEW k \in Notification, PushToUser(k) PROVE WireOK'
    <2>1. CASE link = "on"
      BY <1>2, <2>1, SentStaysPending DEF PushToUser
    <2>2. CASE link # "on"
      BY <1>2, <2>2 DEF PushToUser, WireOK
    <2> QED
      BY <2>1, <2>2
  <1>3. ASSUME NEW k \in Notification, SkipPush(k) PROVE WireOK'
    BY <1>3 DEF SkipPush, WireOK
  <1>4. CASE LinkDown
    BY <1>4 DEF LinkDown, WireOK, server
  <1>5. CASE OnPush
    BY <1>5, HeardIsNotPending
  <1>6. CASE UNCHANGED <<unsent, wire>>
    BY <1>6 DEF WireOK
  <1> QED
    BY <1>1, <1>2, <1>3, <1>4, <1>5, <1>6, WireFrame

-----------------------------------------------------------------------------
(* The rows: one that is stored stays, and one that is read stays read *)

RowsKept == \A t \in 1 .. Len(past) : \A n \in Notification : past[t][n] # "none" => Row[n] # "none"

ItemsStored == \A i \in page.items : Row[i.id] # "none"

MarksStored ==
  \A m \in marks : Row[m.id] # "none" /\ (m.st = "ok" => Row[m.id] = "read")

RowsOK == RowsKept /\ RowsPending /\ ItemsStored /\ MarksStored

LEMMA RowFrame ==
  ASSUME [BellNext]_bellVars
  PROVE  \/ \E n \in Notification : Store(n) \/ ReadElsewhere(n)
         \/ \E m \in marks : Serve(m) /\ Put(m.id, "read")
         \/ UNCHANGED past
  BY DEF BellNext, bellVars, server, PushToUser, SkipPush, LinkUp, LinkDown, OnPush, Refreshed,
         RefreshFails, Open, Leave, Toggle, MarkAll, MarkRead, Loaded, LoadFails, Serve, Lose,
         Marked, MarkedOfAll

\* Rows only go from none to unread and from unread to read.
LEMMA RowStep ==
  ASSUME BellTypes, [BellNext]_bellVars
  PROVE  /\ \A n \in Notification : /\ Row[n] # "none" => Row'[n] # "none"
                                    /\ Row[n] = "read" => Row'[n] = "read"
         /\ Len(past') \in Nat /\ Len(past') >= Len(past)
         /\ past'[Len(past')] = Row'
         /\ \A t \in 1 .. Len(past) : past'[t] = past[t]
         /\ \A t \in 1 .. Len(past') : t \in 1 .. Len(past) \/ t = Len(past')
  <1>1. /\ past \in Seq([Notification -> Cell]) /\ past # <<>>
        /\ Len(past) \in Nat /\ Len(past) >= 1 /\ Row \in [Notification -> Cell]
    BY RowFacts DEF BellTypes
  <1>2. ASSUME NEW n \in Notification, NEW st \in {"unread", "read"}, Put(n, st),
               st = "unread" => Row[n] = "none"
        PROVE  /\ \A k \in Notification : /\ Row[k] # "none" => Row'[k] # "none"
                                          /\ Row[k] = "read" => Row'[k] = "read"
               /\ Len(past') = Len(past) + 1
               /\ past'[Len(past')] = Row'
               /\ \A t \in 1 .. Len(past) : past'[t] = past[t]
    <2>1. st \in Cell
      BY DEF Cell
    <2>2. /\ Row' = [Row EXCEPT ![n] = st] /\ Len(past') = Len(past) + 1
          /\ past'[Len(past')] = Row'
          /\ \A t \in 1 .. Len(past) : past'[t] = past[t]
      BY <1>1, <1>2, <2>1, PutFacts
    <2> QED
      BY <1>1, <1>2, <2>2
  <1>3. CASE \E n \in Notification : Store(n) \/ ReadElsewhere(n)
    BY <1>1, <1>2, <1>3 DEF Store, ReadElsewhere
  <1>4. CASE \E m \in marks : Serve(m) /\ Put(m.id, "read")
    <2>1. \A m \in marks : m.id \in Notification
      BY DEF BellTypes, Patch
    <2> QED
      BY <1>1, <1>2, <1>4, <2>1
  <1>5. CASE UNCHANGED past
    BY <1>1, <1>5 DEF Row
  <1> QED
    BY <1>3, <1>4, <1>5, RowFrame

LEMMA ItemsFrame ==
  ASSUME [BellNext]_bellVars
  PROVE  \/ OnPush \/ Open \/ Leave
         \/ \E l \in loads : Loaded(l)
         \/ \E m \in marks : Marked(m) \/ MarkedOfAll(m)
         \/ Toggle
         \/ UNCHANGED page
  BY DEF BellNext, bellVars, shown, Store, PushToUser, SkipPush, ReadElsewhere, LinkUp, LinkDown,
         Refreshed, RefreshFails, MarkAll, MarkRead, LoadFails, Serve, Lose

\* What a step can put on the page.
LEMMA ItemsStep ==
  ASSUME BellTypes, [BellNext]_bellVars, NEW i \in page'.items
  PROVE  \/ \E j \in page.items : j.id = i.id
         \/ i.id \in Notification /\ Pending(i.id)
         \/ i.id \in Notification /\ \E t \in 1 .. Len(past) : past[t][i.id] # "none"
  <1>0. page \in [st : {"closed", "spinner", "list"}, items : SUBSET Entry, unreadOnly : BOOLEAN]
    BY DEF BellTypes
  <1>1. CASE OnPush
    <2>1. 1 \in DOMAIN wire /\ wire[1] = Head(wire) /\ Head(wire) \in Notification
      BY <1>1 DEF BellTypes, OnPush
    <2>2. CASE page.st = "list"
      <3>1. i \in page.items \/ i = [id |-> Head(wire), read |-> FALSE, pushed |-> TRUE]
        BY <1>0, <1>1, <2>2 DEF OnPush, Prepended
      <3> QED
        BY <2>1, <3>1 DEF Pending
    <2>3. CASE page.st # "list"
      BY <1>1, <2>3 DEF OnPush, Prepended
    <2> QED
      BY <2>2, <2>3
  <1>2. CASE Open \/ Leave
    <2>1. page' = [NoPage EXCEPT !.st = "spinner"] \/ page' = NoPage
      BY <1>2 DEF Open, Leave
    <2>2. page'.items = {}
      BY <2>1 DEF NoPage
    <2> QED
      BY <2>2
  <1>3. ASSUME NEW l \in loads, Loaded(l) PROVE \E t \in 1 .. Len(past) : past[t][i.id] # "none" /\ i.id \in Notification
    <2>1. PICK t \in l.from .. Len(past) :
            page' = [page EXCEPT !.st = "list", !.items = Listing(past[t], l.unreadOnly)]
      BY <1>3 DEF Loaded
    <2>2. i \in Listing(past[t], l.unreadOnly)
      BY <1>0, <2>1
    <2>3. i.id \in Notification /\ past[t][i.id] \in {"unread", "read"}
      BY <2>2 DEF Listing
    <2>4. t \in 1 .. Len(past)
      BY RowFacts DEF BellTypes
    <2> QED
      BY <2>3, <2>4
  <1>4. ASSUME NEW m \in marks, Marked(m) PROVE \E j \in page.items : j.id = i.id
    <2>1. CASE page' = page
      BY <2>1
    <2>2. CASE page' = [page EXCEPT !.items = ReadItems(page.items, m)]
      <3>1. i \in ReadItems(page.items, m)
        BY <1>0, <2>2
      <3>2. PICK j \in page.items : i = IF j.id = m.id THEN [j EXCEPT !.read = TRUE] ELSE j
        BY <3>1 DEF ReadItems
      <3> QED
        BY <1>0, <3>2 DEF Entry
    <2> QED
      BY <1>4, <2>1, <2>2 DEF Marked
  <1>5. ASSUME NEW m \in marks, MarkedOfAll(m) PROVE \E j \in page.items : j.id = i.id
    <2>0. AllRead(m) \/ OneRead(m) \/ GivenUp(m)
      BY <1>5, OfAllCases DEF BellTypes
    <2>1. CASE page' = page
      BY <2>1
    <2>2. CASE page' = [page EXCEPT !.items = ReadAllItems(page.items, m)]
      <3>1. i \in ReadAllItems(page.items, m)
        BY <1>0, <2>2
      <3>2. PICK j \in page.items : i = [j EXCEPT !.read = TRUE]
        BY <3>1 DEF ReadAllItems
      <3> QED
        BY <1>0, <3>2 DEF Entry
    <2> QED
      BY <2>0, <2>1, <2>2 DEF AllRead, OneRead, GivenUp
  <1>6. CASE Toggle
    BY <1>0, <1>6 DEF Toggle
  <1>7. CASE UNCHANGED page
    BY <1>7
  <1> QED
    BY <1>1, <1>2, <1>3, <1>4, <1>5, <1>6, <1>7, ItemsFrame

LEMMA MarksFrame ==
  ASSUME [BellNext]_bellVars
  PROVE  \/ Leave \/ MarkAll
         \/ \E item \in page.items : MarkRead(item)
         \/ \E m \in marks : Serve(m) \/ Lose(m) \/ Marked(m) \/ MarkedOfAll(m)
         \/ UNCHANGED marks
  BY DEF BellNext, bellVars, server, bell, shown, Store, PushToUser, SkipPush, ReadElsewhere,
         LinkUp, LinkDown, OnPush, Refreshed, RefreshFails, Open, Toggle, Loaded, LoadFails

\* A PATCH is new, or goes on: its answer comes, it is lost or its page is left.
SamePatch(m, o) == m.id = o.id /\ m.no = o.no /\ m.twin = o.twin

Fresh(m) ==
  /\ m.no = clicks /\ m.st = "sent" /\ m.mounted /\ \E i \in page.items : i.id = m.id
  /\ clicks' = clicks + 1

LEMMA MarksStep ==
  ASSUME BellTypes, [BellNext]_bellVars, NEW m \in marks'
  PROVE  \/ \E o \in marks : /\ SamePatch(m, o)
                             /\ m.st = o.st \/ m.st = "lost" \/ (m.st = "ok" /\ Serve(o))
                             /\ m.all => o.all
         \/ Fresh(m)
  <1>1. CASE Leave
    <2>1. PICK o \in marks : m = [o EXCEPT !.mounted = FALSE]
      BY <1>1 DEF Leave
    <2> QED
      BY <2>1 DEF BellTypes, Patch, SamePatch
  <1>2. CASE MarkAll
    <2>1. m \in marks \/ \E i \in UnreadItems : m = Mark(i.id, Twin(i), TRUE)
      BY <1>2 DEF MarkAll
    <2> QED
      BY <1>2, <2>1 DEF MarkAll, Click, Mark, UnreadItems, Fresh, SamePatch
  <1>3. ASSUME NEW item \in page.items, MarkRead(item) PROVE m \in marks \/ Fresh(m)
    <2>1. m \in marks \/ m = Mark(item.id, FALSE, FALSE)
      BY <1>3 DEF MarkRead
    <2> QED
      BY <1>3, <2>1 DEF MarkRead, Click, Mark, Fresh
  <1>4. ASSUME NEW o \in marks, Serve(o), m = [o EXCEPT !.st = "ok"]
        PROVE  SamePatch(m, o) /\ m.st = "ok" /\ (m.all => o.all)
    BY <1>4 DEF BellTypes, Patch, SamePatch
  <1>5. ASSUME NEW o \in marks, Lose(o), m = [o EXCEPT !.st = "lost"]
        PROVE  SamePatch(m, o) /\ m.st = "lost" /\ (m.all => o.all)
    BY <1>5 DEF BellTypes, Patch, SamePatch
  <1>6. ASSUME NEW o \in marks, MarkedOfAll(o) 
        PROVE  \E k \in marks : SamePatch(m, k) /\ m.st = k.st /\ (m.all => k.all)
    <2>1. AllRead(o) \/ OneRead(o) \/ GivenUp(o)
      BY <1>6, OfAllCases DEF BellTypes
    <2>2. CASE m \in marks
      BY <2>2 DEF SamePatch
    <2>3. CASE m \notin marks
      <3>1. GivenUp(o)
        BY <2>1, <2>3 DEF AllRead, OneRead
      <3>2. PICK k \in Batch(o) : m = [k EXCEPT !.all = FALSE, !.mounted = FALSE]
        BY <2>3, <3>1 DEF GivenUp
      <3>3. k \in marks /\ k \in Patch
        BY DEF Batch, BellTypes
      <3> QED
        BY <3>2, <3>3 DEF Patch, SamePatch
    <2> QED
      BY <2>2, <2>3
  <1>7. ASSUME m \in marks PROVE SamePatch(m, m)
    BY DEF SamePatch
  <1>8. CASE m \in marks
    BY <1>7, <1>8
  <1>9. ASSUME NEW o \in marks, Serve(o) PROVE m \in marks \/ m = [o EXCEPT !.st = "ok"]
    BY <1>9 DEF Serve
  <1>10. ASSUME NEW o \in marks, Lose(o) PROVE m \in marks \/ m = [o EXCEPT !.st = "lost"]
    BY <1>10 DEF Lose
  <1>11. ASSUME NEW o \in marks, Marked(o) PROVE m \in marks
    BY <1>11 DEF Marked
  <1> QED
    BY <1>1, <1>2, <1>3, <1>4, <1>5, <1>6, <1>8, <1>9, <1>10, <1>11, MarksFrame

\* A row that is served is read then.
LEMMA ServeReads ==
  ASSUME BellTypes, NEW m \in marks, Serve(m), Row[m.id] # "none"
  PROVE  Row'[m.id] = "read"
  <1>1. m.id \in Notification /\ "read" \in Cell
    BY DEF BellTypes, Patch, Cell
  <1>2. Row \in [Notification -> Cell]
    BY RowFacts DEF BellTypes
  <1>3. CASE Row[m.id] = "unread"
    <2>1. Row' = [Row EXCEPT ![m.id] = "read"]
      BY <1>1, <1>3, PutFacts DEF Serve, BellTypes
    <2> QED
      BY <1>1, <1>2, <2>1
  <1>4. CASE Row[m.id] = "read"
    BY <1>4 DEF Serve, Row
  <1> QED
    BY <1>1, <1>2, <1>3, <1>4 DEF Cell

LEMMA RowsOKStep ==
  ASSUME BellTypes, WireOK, RowsOK, [BellNext]_bellVars
  PROVE  RowsOK'
  <1>0. /\ \A n \in Notification : /\ Row[n] # "none" => Row'[n] # "none"
                                   /\ Row[n] = "read" => Row'[n] = "read"
        /\ past'[Len(past')] = Row'
        /\ \A t \in 1 .. Len(past) : past'[t] = past[t]
        /\ \A t \in 1 .. Len(past') : t \in 1 .. Len(past) \/ t = Len(past')
    BY RowStep
  <1>1. RowsKept'
    <2> SUFFICES ASSUME NEW t \in 1 .. Len(past'), NEW n \in Notification, past'[t][n] # "none"
                 PROVE  Row'[n] # "none"
      BY DEF RowsKept
    <2> QED
      BY <1>0 DEF RowsOK, RowsKept
  <1>2. RowsPending'
    <2> SUFFICES ASSUME NEW n \in Notification, Pending(n)' PROVE Row'[n] # "none"
      BY DEF RowsPending
    <2>1. CASE Pending(n)
      BY <1>0, <2>1 DEF RowsOK, RowsPending
    <2>2. CASE ~ Pending(n)
      <3>1. Store(n) /\ "unread" \in Cell
        BY <2>2, PendingStep DEF Cell
      <3>2. Row' = [Row EXCEPT ![n] = "unread"]
        BY <3>1, PutFacts DEF Store, BellTypes
      <3>3. Row \in [Notification -> Cell]
        BY RowFacts DEF BellTypes
      <3> QED
        BY <3>2, <3>3
    <2> QED
      BY <2>1, <2>2
  <1>3. ItemsStored'
    <2> SUFFICES ASSUME NEW i \in page'.items PROVE Row'[i.id] # "none"
      BY DEF ItemsStored
    <2>1. \A j \in page.items : j.id \in Notification
      BY DEF BellTypes, Entry
    <2> QED
      BY <1>0, <2>1, ItemsStep DEF RowsOK, ItemsStored, RowsPending, RowsKept
  <1>4. MarksStored'
    <2> SUFFICES ASSUME NEW m \in marks'
                 PROVE  Row'[m.id] # "none" /\ (m.st = "ok" => Row'[m.id] = "read")
      BY DEF MarksStored
    <2>1. CASE Fresh(m)
      <3>1. \A j \in page.items : j.id \in Notification
        BY DEF BellTypes, Entry
      <3> QED
        BY <1>0, <2>1, <3>1 DEF Fresh, RowsOK, ItemsStored
    <2>2. ASSUME NEW o \in marks, SamePatch(m, o),
                 m.st = o.st \/ m.st = "lost" \/ (m.st = "ok" /\ Serve(o))
          PROVE  Row'[m.id] # "none" /\ (m.st = "ok" => Row'[m.id] = "read")
      <3>1. o.id \in Notification /\ m.id = o.id
        BY <2>2 DEF BellTypes, Patch, SamePatch
      <3>2. Serve(o) => Row'[o.id] = "read"
        BY ServeReads DEF RowsOK, MarksStored
      <3> QED
        BY <1>0, <2>2, <3>1, <3>2 DEF RowsOK, MarksStored
    <2> QED
      BY <2>1, <2>2, MarksStep
  <1> QED
    BY <1>1, <1>2, <1>3, <1>4 DEF RowsOK

-----------------------------------------------------------------------------
(* The PATCHes: a click makes one for each entry, and those of one mark all *)
(* are on the same page *)

Coherent(S) ==
  /\ \A m, o \in S : SamePatch(m, o) => m = o
  /\ \A m, o \in S : m.no = o.no /\ m.all /\ o.all => m.mounted = o.mounted

PatchesOK == Coherent(marks) /\ \A m \in marks : m.no < clicks

LEMMA ClicksStep == BellTypes /\ [BellNext]_bellVars => clicks' \in {clicks, clicks + 1}
  BY DEF BellNext, bellVars, Click, Store, PushToUser, SkipPush, ReadElsewhere, LinkUp, LinkDown,
         OnPush, Refreshed, RefreshFails, Open, Leave, Toggle, MarkAll, MarkRead, Loaded,
         LoadFails, Serve, Lose, Marked, MarkedOfAll

\* A PATCH that is replaced by its next state.
LEMMA Replaced ==
  ASSUME BellTypes, PatchesOK, NEW m \in marks, NEW p \in Patch, SamePatch(p, m),
         p.all = m.all, p.mounted = m.mounted,
         NEW S, S = (marks \ {m}) \cup {p}
  PROVE  Coherent(S)
  <1>1. ASSUME NEW k \in marks, SamePatch(p, k) PROVE k = m
    <2>1. SamePatch(m, k)
      BY <1>1 DEF SamePatch
    <2> QED
      BY <2>1 DEF PatchesOK, Coherent
  <1>2. ASSUME NEW k \in marks, SamePatch(k, p) PROVE k = m
    <2>1. SamePatch(m, k)
      BY <1>2 DEF SamePatch
    <2> QED
      BY <2>1 DEF PatchesOK, Coherent
  <1>3. p.no = m.no
    BY DEF SamePatch
  <1>4. ASSUME NEW k \in S, NEW o \in S, SamePatch(k, o) PROVE k = o
    BY <1>1, <1>2, <1>4 DEF PatchesOK, Coherent
  <1>5. ASSUME NEW k \in S, NEW o \in S, k.no = o.no, k.all, o.all PROVE k.mounted = o.mounted
    BY <1>3, <1>5 DEF PatchesOK, Coherent
  <1> QED
    BY <1>4, <1>5 DEF Coherent

\* PATCHes that are made by one click.
LEMMA Added ==
  ASSUME BellTypes, PatchesOK, NEW F \in SUBSET Patch,
         \A m \in F : m.no = clicks /\ m.mounted,
         \A m, o \in F : SamePatch(m, o) => m = o,
         NEW S, S = marks \cup F
  PROVE  Coherent(S)
  <1>1. \A k \in marks : k.no \in Nat /\ k.no # clicks
    BY DEF PatchesOK, Coherent, BellTypes, Patch
  <1>2. ASSUME NEW k \in S, NEW o \in S, SamePatch(k, o) PROVE k = o
    <2>1. CASE k \in marks /\ o \in marks
      BY <1>2, <2>1 DEF PatchesOK, Coherent
    <2>2. CASE k \in F /\ o \in F
      BY <1>2, <2>2
    <2>3. k.no = o.no
      BY <1>2 DEF SamePatch
    <2> QED
      BY <1>1, <2>1, <2>2, <2>3
  <1>3. ASSUME NEW k \in S, NEW o \in S, k.no = o.no, k.all, o.all PROVE k.mounted = o.mounted
    <2>1. CASE k \in marks /\ o \in marks
      BY <1>3, <2>1 DEF PatchesOK, Coherent
    <2>2. CASE k \in F /\ o \in F
      BY <2>2 DEF Patch
    <2> QED
      BY <1>1, <1>3, <2>1, <2>2
  <1> QED
    BY <1>2, <1>3 DEF Coherent

LEMMA PatchesOKStep ==
  ASSUME BellTypes, PatchesOK, [BellNext]_bellVars
  PROVE  PatchesOK'
  <1>0. marks \subseteq Patch /\ clicks \in Nat /\ clicks' \in {clicks, clicks + 1}
    BY ClicksStep DEF BellTypes
  <1>1. \A m \in marks' : m.no < clicks'
    <2> SUFFICES ASSUME NEW m \in marks' PROVE m.no < clicks'
      OBVIOUS
    <2>1. CASE Fresh(m)
      BY <1>0, <2>1 DEF Fresh
    <2>2. ASSUME NEW o \in marks, SamePatch(m, o) PROVE m.no < clicks'
      <3>1. m.no = o.no /\ o.no \in Nat /\ o.no < clicks
        BY <1>0, <2>2 DEF SamePatch, PatchesOK, Patch
      <3> QED
        BY <1>0, <3>1
    <2> QED
      BY <2>1, <2>2, MarksStep
  <1>2. ASSUME Leave PROVE Coherent(marks')
    <2>1. \A m \in marks' : \E o \in marks : m = [o EXCEPT !.mounted = FALSE]
      BY <1>2 DEF Leave
    <2>2. ASSUME NEW k \in marks', NEW o \in marks', SamePatch(k, o)
          PROVE  k = o
      <3>1. PICK a \in marks : k = [a EXCEPT !.mounted = FALSE]
        BY <2>1
      <3>2. PICK b \in marks : o = [b EXCEPT !.mounted = FALSE]
        BY <2>1
      <3>3. SamePatch(a, b)
        BY <1>0, <2>2, <3>1, <3>2 DEF SamePatch, Patch
      <3> QED
        BY <3>1, <3>2, <3>3 DEF PatchesOK, Coherent
    <2>3. \A k \in marks' : k.mounted = FALSE
      BY <1>0, <2>1 DEF Patch
    <2> QED
      BY <2>2, <2>3 DEF Coherent
  <1>3. ASSUME MarkAll PROVE Coherent(marks')
    <2> DEFINE F == {Mark(item.id, Twin(item), TRUE) : item \in UnreadItems}
    <2>1. marks' = marks \cup F
      BY <1>3 DEF MarkAll
    <2>2. F \in SUBSET Patch
      <3>1. ASSUME NEW i \in UnreadItems PROVE Mark(i.id, Twin(i), TRUE) \in Patch
        BY <1>0 DEF BellTypes, Mark, Patch, UnreadItems, Entry, Twin
      <3> QED
        BY <3>1
    <2>3. /\ \A m \in F : m.no = clicks /\ m.mounted
          /\ \A m, o \in F : SamePatch(m, o) => m = o
      <3>1. ASSUME NEW m \in F, NEW o \in F, SamePatch(m, o) PROVE m = o
        <4>1. PICK i \in UnreadItems : m = Mark(i.id, Twin(i), TRUE)
          OBVIOUS
        <4>2. PICK k \in UnreadItems : o = Mark(k.id, Twin(k), TRUE)
          OBVIOUS
        <4>3. i.id = k.id /\ Twin(i) = Twin(k)
          BY <3>1, <4>1, <4>2 DEF Mark, SamePatch
        <4> QED
          BY <4>1, <4>2, <4>3
      <3> QED
        BY <3>1 DEF Mark
    <2> HIDE DEF F
    <2> QED
      BY <2>1, <2>2, <2>3, Added
  <1>4. ASSUME NEW item \in page.items, MarkRead(item) PROVE Coherent(marks')
    <2>1. Mark(item.id, FALSE, FALSE) \in Patch
      BY <1>0 DEF BellTypes, Mark, Patch, Entry
    <2>2. Mark(item.id, FALSE, FALSE).no = clicks /\ Mark(item.id, FALSE, FALSE).mounted
      BY DEF Mark
    <2> QED
      BY <1>4, <2>1, <2>2, Added DEF MarkRead
  <1>5. ASSUME NEW m \in marks, Serve(m) PROVE Coherent(marks')
    <2>1. PICK p : p = [m EXCEPT !.st = "ok"]
      OBVIOUS
    <2>2. p \in Patch /\ SamePatch(p, m) /\ p.all = m.all /\ p.mounted = m.mounted
      BY <1>0, <2>1 DEF Patch, SamePatch
    <2>3. marks' = (marks \ {m}) \cup {p}
      BY <1>5, <2>1 DEF Serve
    <2> QED
      BY <2>2, <2>3, Replaced
  <1>6. ASSUME NEW m \in marks, Lose(m) PROVE Coherent(marks')
    <2>1. PICK p : p = [m EXCEPT !.st = "lost"]
      OBVIOUS
    <2>2. p \in Patch /\ SamePatch(p, m) /\ p.all = m.all /\ p.mounted = m.mounted
      BY <1>0, <2>1 DEF Patch, SamePatch
    <2>3. marks' = (marks \ {m}) \cup {p}
      BY <1>6, <2>1 DEF Lose
    <2> QED
      BY <2>2, <2>3, Replaced
  <1>7. ASSUME marks' \subseteq marks PROVE Coherent(marks')
    BY <1>7 DEF PatchesOK, Coherent
  <1>8. ASSUME NEW m \in marks, GivenUp(m) PROVE Coherent(marks')
    <2>1. \A k \in marks' : \/ k \in marks \ Batch(m)
                            \/ \E o \in Batch(m) : k = [o EXCEPT !.all = FALSE, !.mounted = FALSE]
      BY <1>8 DEF GivenUp
    <2>2. Batch(m) \subseteq marks
      BY DEF Batch
    <2>3. ASSUME NEW k \in marks', NEW o \in marks', SamePatch(k, o)
          PROVE  k = o
      <3>1. CASE k \in marks \ Batch(m) /\ o \in marks \ Batch(m)
        BY <2>3, <3>1 DEF PatchesOK, Coherent
      <3>2. ASSUME NEW b \in Batch(m), k = [b EXCEPT !.all = FALSE, !.mounted = FALSE]
            PROVE  k = o
        <4>1. CASE o \in marks \ Batch(m)
          <5>1. SamePatch(b, o)
            BY <1>0, <2>2, <2>3, <3>2 DEF SamePatch, Patch
          <5> QED
            BY <2>2, <4>1, <5>1 DEF PatchesOK, Coherent
        <4>2. ASSUME NEW c \in Batch(m), o = [c EXCEPT !.all = FALSE, !.mounted = FALSE]
              PROVE  k = o
          <5>1. SamePatch(b, c)
            BY <1>0, <2>2, <2>3, <3>2, <4>2 DEF SamePatch, Patch
          <5>2. b = c
            BY <2>2, <5>1 DEF PatchesOK, Coherent
          <5> QED
            BY <3>2, <4>2, <5>2
        <4> QED
          BY <2>1, <4>1, <4>2
      <3>3. ASSUME NEW c \in Batch(m), o = [c EXCEPT !.all = FALSE, !.mounted = FALSE],
                   k \in marks \ Batch(m)
            PROVE  FALSE
        <4>1. SamePatch(k, c)
          BY <1>0, <2>2, <2>3, <3>3 DEF SamePatch, Patch
        <4> QED
          BY <2>2, <3>3, <4>1 DEF PatchesOK, Coherent
      <3> QED
        BY <2>1, <3>1, <3>2, <3>3
    <2>4. ASSUME NEW k \in marks', k.all PROVE k \in marks
      <3>1. ASSUME NEW o \in Batch(m) PROVE [o EXCEPT !.all = FALSE, !.mounted = FALSE].all = FALSE
        BY <1>0, <2>2 DEF Patch
      <3> QED
        BY <2>1, <2>4, <3>1
    <2>5. Coherent(marks)
      BY DEF PatchesOK
    <2> QED
      BY <2>3, <2>4, <2>5 DEF Coherent
  <1>9. ASSUME NEW m \in marks, Marked(m) \/ MarkedOfAll(m) PROVE marks' \subseteq marks \/ GivenUp(m)
    BY <1>0, <1>9, OfAllCases DEF Marked, AllRead, OneRead
  <1>10. Coherent(marks')
    BY <1>2, <1>3, <1>4, <1>5, <1>6, <1>7, <1>8, <1>9, MarksFrame
  <1> QED
    BY <1>1, <1>10 DEF PatchesOK, Coherent, SamePatch

-----------------------------------------------------------------------------
(* Counting.  What agrees for every notification agrees in all: there is no *)
(* smallest set of notifications it does not agree for.                    *)

LEMMA OneMore ==
  ASSUME NEW I, IsFiniteSet(I), NEW A, NEW T \in SUBSET I, NEW n \in T
  PROVE  /\ Cardinality(A \cap (T \ {n})) \in Nat
         /\ Cardinality(A \cap T) = Cardinality(A \cap (T \ {n})) + (IF n \in A THEN 1 ELSE 0)
  <1> DEFINE U == A \cap (T \ {n})
  <1>1. U \in SUBSET I
    OBVIOUS
  <1>2. IsFiniteSet(U) /\ Cardinality(U) \in Nat
    BY <1>1, FS_Subset, FS_CardinalityType
  <1>3. n \notin U
    OBVIOUS
  <1>4. CASE n \in A
    <2>1. A \cap T = U \cup {n}
      BY <1>4
    <2> HIDE DEF U
    <2>2. Cardinality(U \cup {n}) = Cardinality(U) + 1
      BY <1>2, <1>3, FS_AddElement
    <2> QED
      BY <1>2, <1>4, <2>1, <2>2 DEF U
  <1>5. CASE n \notin A
    <2>1. A \cap T = U
      BY <1>5
    <2> HIDE DEF U
    <2>2. Cardinality(A \cap T) = Cardinality(U) + 0
      BY <1>2, <2>1
    <2> QED
      BY <1>2, <1>5, <2>2 DEF U
  <1> QED
    BY <1>4, <1>5, <1>2

Over(f, T) == {m \in DOMAIN f : f[m] \in T}
Fiber(f, n) == {m \in DOMAIN f : f[m] = n}

LEMMA OneFiberMore ==
  ASSUME NEW f, IsFiniteSet(DOMAIN f), NEW T, NEW n \in T
  PROVE  /\ Cardinality(Over(f, T \ {n})) \in Nat
         /\ Cardinality(Fiber(f, n)) \in Nat
         /\ Cardinality(Over(f, T)) = Cardinality(Over(f, T \ {n})) + Cardinality(Fiber(f, n))
  <1> DEFINE X == Over(f, T \ {n})
             Y == Fiber(f, n)
  <1>1. X \in SUBSET DOMAIN f /\ Y \in SUBSET DOMAIN f /\ X \cap Y = {} /\ Over(f, T) = X \cup Y
    BY DEF Over, Fiber
  <1> HIDE DEF X, Y
  <1>2. /\ IsFiniteSet(X) /\ Cardinality(X) \in Nat
        /\ IsFiniteSet(Y) /\ Cardinality(Y) \in Nat
    BY <1>1, FS_Subset, FS_CardinalityType
  <1>3. Cardinality(X \cup Y) = Cardinality(X) + Cardinality(Y) - Cardinality(X \cap Y)
    BY <1>2, FS_Union
  <1>4. Cardinality(X \cap Y) = 0
    BY <1>1, FS_EmptySet
  <1>5. Cardinality(X \cup Y) = Cardinality(X) + Cardinality(Y)
    BY <1>2, <1>3, <1>4
  <1> QED
    BY <1>1, <1>2, <1>5 DEF X, Y

Even(I, A, P, B, f) ==
  \A n \in I : (IF n \in A THEN 1 ELSE 0) + (IF n \in P THEN 1 ELSE 0) =
               (IF n \in B THEN 1 ELSE 0) + Cardinality(Fiber(f, n))

LEMMA SumsOfSums ==
  ASSUME NEW a \in Nat, NEW p \in Nat, NEW b \in Nat, NEW o \in Nat, a + p = b + o,
         NEW i \in Nat, NEW j \in Nat, NEW k \in Nat, NEW l \in Nat, i + j = k + l
  PROVE  (a + i) + (p + j) = (b + k) + (o + l)
  OBVIOUS

LEMMA Fibers ==
  ASSUME NEW I, IsFiniteSet(I), NEW A \in SUBSET I, NEW P \in SUBSET I, NEW B \in SUBSET I,
         NEW M, IsFiniteSet(M), NEW f \in [M -> I],
         Even(I, A, P, B, f)
  PROVE  Cardinality(A) + Cardinality(P) = Cardinality(B) + Cardinality(M)
  <1> DEFINE EvenIn(T) == Cardinality(A \cap T) + Cardinality(P \cap T) =
                            Cardinality(B \cap T) + Cardinality(Over(f, T))
             Odd == {T \in SUBSET I : ~ EvenIn(T)}
  <1>1. EvenIn({})
    <2>1. A \cap {} = {} /\ P \cap {} = {} /\ B \cap {} = {} /\ Over(f, {}) = {}
      BY DEF Over
    <2> QED
      BY <2>1, FS_EmptySet
  <1>2. ASSUME NEW T \in SUBSET I, NEW n \in T, EvenIn(T \ {n})
        PROVE  EvenIn(T)
    <2>1. /\ Cardinality(A \cap (T \ {n})) \in Nat
          /\ Cardinality(A \cap T) = Cardinality(A \cap (T \ {n})) + (IF n \in A THEN 1 ELSE 0)
      BY OneMore
    <2>2. /\ Cardinality(P \cap (T \ {n})) \in Nat
          /\ Cardinality(P \cap T) = Cardinality(P \cap (T \ {n})) + (IF n \in P THEN 1 ELSE 0)
      BY OneMore
    <2>3. /\ Cardinality(B \cap (T \ {n})) \in Nat
          /\ Cardinality(B \cap T) = Cardinality(B \cap (T \ {n})) + (IF n \in B THEN 1 ELSE 0)
      BY OneMore
    <2>5. Cardinality(A \cap (T \ {n})) + Cardinality(P \cap (T \ {n})) =
            Cardinality(B \cap (T \ {n})) + Cardinality(Over(f, T \ {n}))
      BY <1>2
    <2>6. (IF n \in A THEN 1 ELSE 0) + (IF n \in P THEN 1 ELSE 0) =
            (IF n \in B THEN 1 ELSE 0) + Cardinality(Fiber(f, n))
      BY DEF Even
    <2>7. /\ Cardinality(Over(f, T \ {n})) \in Nat
          /\ Cardinality(Fiber(f, n)) \in Nat
          /\ Cardinality(Over(f, T)) =
               Cardinality(Over(f, T \ {n})) + Cardinality(Fiber(f, n))
      <3>1. DOMAIN f = M
        OBVIOUS
      <3> QED
        BY <3>1, OneFiberMore
    <2> DEFINE a == Cardinality(A \cap (T \ {n}))
               p == Cardinality(P \cap (T \ {n}))
               b == Cardinality(B \cap (T \ {n}))
               o == Cardinality(Over(f, T \ {n}))
               i == IF n \in A THEN 1 ELSE 0
               j == IF n \in P THEN 1 ELSE 0
               k == IF n \in B THEN 1 ELSE 0
               l == Cardinality(Fiber(f, n))
    <2>8. /\ a \in Nat /\ p \in Nat /\ b \in Nat /\ o \in Nat /\ a + p = b + o
          /\ i \in Nat /\ j \in Nat /\ k \in Nat /\ l \in Nat /\ i + j = k + l
      BY <2>1, <2>2, <2>3, <2>5, <2>6, <2>7
    <2>9. /\ Cardinality(A \cap T) = a + i /\ Cardinality(P \cap T) = p + j
          /\ Cardinality(B \cap T) = b + k /\ Cardinality(Over(f, T)) = o + l
      BY <2>1, <2>2, <2>3, <2>7
    <2> HIDE DEF a, p, b, o, i, j, k, l
    <2>10. (a + i) + (p + j) = (b + k) + (o + l)
      BY <2>8, SumsOfSums
    <2> QED
      BY <2>9, <2>10
  <1>3. Odd = {}
    <2> SUFFICES ASSUME Odd # {} PROVE FALSE
      OBVIOUS
    <2> HIDE DEF EvenIn
    <2>1. IsWellFoundedOn(StrictSubsetOrdering(I), SUBSET I)
      BY FS_StrictSubsetOrderingWellFounded, FS_FiniteSubsetsOfFinite
    <2>2. PICK T \in Odd : \A U \in Odd : <<U, T>> \notin StrictSubsetOrdering(I)
      BY <2>1, WFMin
    <2>3. PICK n : n \in T
      BY <1>1, <2>2
    <2>4. <<T \ {n}, T>> \in StrictSubsetOrdering(I)
      BY <2>2, <2>3 DEF StrictSubsetOrdering
    <2>5. EvenIn(T \ {n})
      BY <2>2, <2>4
    <2> QED
      BY <1>2, <2>2, <2>3, <2>5
  <1>4. EvenIn(I)
    BY <1>3
  <1>5. A \cap I = A /\ P \cap I = P /\ B \cap I = B /\ Over(f, I) = M
    BY DEF Over
  <1> QED
    BY <1>4, <1>5

\* Marking the members of a set one to one leaves their number.
LEMMA Remapped ==
  ASSUME NEW S, IsFiniteSet(S), NEW g, g \in [S -> {g[m] : m \in S}],
         \A m, o \in S : g[m] = g[o] => m = o,
         NEW T, T = {g[m] : m \in S}
  PROVE  IsFiniteSet(T) /\ Cardinality(T) = Cardinality(S)
  <1>1. g \in Bijection(S, T)
    BY DEF Bijection, Injection, Surjection, IsInjective
  <1> QED
    BY <1>1, FS_Bijection DEF ExistsBijection

-----------------------------------------------------------------------------
(* The count: with the pushes that are yet to arrive it makes the unread    *)
(* rows, and the PATCHes that have succeeded and are yet to be answered     *)

Pendings == {n \in Notification : Pending(n)}

Oks == {m \in marks : m.st = "ok"}

Balance ==
  /\ IsFiniteSet(Oks)
  /\ ~drift /\ asked = {} =>
       count + Cardinality(Pendings) = Cardinality(Unread(Row)) + Cardinality(Oks)

LEMMA Finite ==
  ASSUME BellTypes, IsFiniteSet(Oks)
  PROVE  /\ IsFiniteSet(Pendings) /\ Cardinality(Pendings) \in Nat
         /\ IsFiniteSet(Unread(Row)) /\ Cardinality(Unread(Row)) \in Nat
         /\ Cardinality(Oks) \in Nat
         /\ count \in Nat
  <1>1. Pendings \in SUBSET Notification /\ Unread(Row) \in SUBSET Notification
    BY DEF Pendings, Unread
  <1> QED
    BY <1>1, NotificationAssumption, FS_Subset, FS_CardinalityType DEF BellTypes

LEMMA SameTerms ==
  /\ UNCHANGED past => Unread(Row)' = Unread(Row)
  /\ UNCHANGED <<unsent, wire>> => Pendings' = Pendings
  /\ UNCHANGED marks => Oks' = Oks
  BY DEF Unread, Row, Pendings, Pending, Oks

LEMMA Stored ==
  ASSUME BellTypes, WireOK, RowsOK, Balance, NEW n \in Notification, Store(n)
  PROVE  Balance'
  <1>1. /\ n \notin Unread(Row) /\ ~ Pending(n) /\ n \notin Pendings
    BY DEF Store, RowsOK, RowsPending, Unread, Pendings
  <1>2. Unread(Row)' = Unread(Row) \cup {n}
    <2>1. Row' = [Row EXCEPT ![n] = "unread"] /\ Row \in [Notification -> Cell]
      BY PutFacts, RowFacts DEF Store, BellTypes, Cell
    <2> QED
      BY <2>1 DEF Unread
  <1>3. Pendings' = Pendings \cup {n}
    BY DEF Store, Pendings, Pending, bell
  <1>4. Oks' = Oks /\ count' = count /\ asked' = asked /\ drift' = drift
    BY DEF Store, Oks, bell
  <1>5. /\ Cardinality(Unread(Row) \cup {n}) = Cardinality(Unread(Row)) + 1
        /\ Cardinality(Pendings \cup {n}) = Cardinality(Pendings) + 1
    BY <1>1, Finite, FS_AddElement DEF Balance
  <1>6. Cardinality(Unread(Row)') = Cardinality(Unread(Row)) + 1 /\ Cardinality(Pendings') = Cardinality(Pendings) + 1
    BY <1>2, <1>3, <1>5
  <1> QED
    BY <1>4, <1>6, Finite DEF Balance

LEMMA Arrived ==
  ASSUME BellTypes, WireOK, Balance, OnPush
  PROVE  Balance'
  <1>1. PICK h : h = Head(wire)
    OBVIOUS
  <1>2. /\ h \in Notification
        /\ Pending(h) /\ ~ Pending(h)'
        /\ \A k \in Notification \ {h} : Pending(k)' = Pending(k)
    BY <1>1, HeardIsNotPending
  <1>3. Pendings' = Pendings \ {h} /\ h \in Pendings
    BY <1>2 DEF Pendings
  <1>4. /\ Unread(Row)' = Unread(Row) /\ Oks' = Oks
        /\ count' = count + 1 /\ asked' = asked /\ drift' = drift
    BY SameTerms DEF OnPush, Counted, server
  <1>5. Cardinality(Pendings \ {h}) = Cardinality(Pendings) - 1
    BY <1>3, Finite, FS_RemoveElement DEF Balance
  <1>6. Cardinality(Pendings') = Cardinality(Pendings) - 1 /\ Cardinality(Unread(Row)') = Cardinality(Unread(Row))
    BY <1>3, <1>4, <1>5
  <1> QED
    BY <1>4, <1>6, Finite DEF Balance

\* An answer that no notification has crossed restores the balance.
LEMMA Recounted ==
  ASSUME BellTypes, Balance, NEW from \in asked, Refreshed(from)
  PROVE  Balance'
  <1>1. PICK t \in from .. Len(past) :
          /\ count' = Cardinality(Unread(past[t]))
          /\ drift' = \E n \in Notification : ~Exact(n, t)
    BY DEF Refreshed
  <1>2. Unread(Row)' = Unread(Row) /\ Oks' = Oks /\ Pendings' = Pendings
    BY SameTerms DEF Refreshed, server
  <1>3. ASSUME \A n \in Notification : Exact(n, t)
        PROVE  Cardinality(Unread(past[t])) + Cardinality(Pendings) =
                 Cardinality(Unread(Row)) + Cardinality(Oks)
    <2> DEFINE f == [m \in Oks |-> m.id]
    <2>1. f \in [Oks -> Notification]
      BY DEF Oks, BellTypes, Patch
    <2>2. /\ Unread(past[t]) \in SUBSET Notification /\ Pendings \in SUBSET Notification
          /\ Unread(Row) \in SUBSET Notification
      BY DEF Unread, Pendings
    <2>3. ASSUME NEW n \in Notification
          PROVE  (IF n \in Unread(past[t]) THEN 1 ELSE 0) + (IF n \in Pendings THEN 1 ELSE 0) =
                 (IF n \in Unread(Row) THEN 1 ELSE 0) + Cardinality(Fiber(f, n))
      <3>1. Fiber(f, n) = {m \in marks : m.id = n /\ m.st = "ok"}
        BY DEF Oks, Fiber
      <3>2. /\ n \in Unread(past[t]) <=> past[t][n] = "unread"
            /\ n \in Pendings <=> Pending(n)
            /\ n \in Unread(Row) <=> Row[n] = "unread"
        BY DEF Unread, Pendings
      <3>3. Exact(n, t)
        BY <1>3
      <3> QED
        BY <3>1, <3>2, <3>3 DEF Exact
    <2>4. PICK A, B, P, M : A = Unread(past[t]) /\ B = Unread(Row) /\ P = Pendings /\ M = Oks
      OBVIOUS
    <2>5. IsFiniteSet(M)
      BY <2>4 DEF Balance
    <2> HIDE DEF f
    <2>6. /\ f \in [M -> Notification]
          /\ A \in SUBSET Notification /\ P \in SUBSET Notification /\ B \in SUBSET Notification
          /\ Even(Notification, A, P, B, f)
      BY <2>1, <2>2, <2>3, <2>4 DEF Even
    <2>7. Cardinality(A) + Cardinality(P) = Cardinality(B) + Cardinality(M)
      BY <2>5, <2>6, NotificationAssumption, Fibers
    <2> QED
      BY <2>4, <2>7
  <1> QED
    BY <1>1, <1>2, <1>3 DEF Balance

LEMMA LeftAlike ==
  ASSUME BellTypes, PatchesOK, Balance, Leave
  PROVE  Balance'
  <1> DEFINE g == [m \in Oks |-> [m EXCEPT !.mounted = FALSE]]
  <1>1. \A m \in Oks : m \in Patch /\ m \in marks
    BY DEF Oks, BellTypes
  <1>2. ASSUME NEW m \in Oks, NEW o \in Oks, g[m] = g[o] PROVE m = o
    <2>1. SamePatch(m, o)
      <3>1. [m EXCEPT !.mounted = FALSE] = [o EXCEPT !.mounted = FALSE]
        BY <1>2
      <3> QED
        BY <1>1, <3>1 DEF Patch, SamePatch
    <2> QED
      BY <1>1, <2>1 DEF PatchesOK, Coherent
  <1>3. Oks' = {g[m] : m \in Oks}
    <2>1. marks' = {[m EXCEPT !.mounted = FALSE] : m \in marks}
      BY DEF Leave
    <2>2. \A m \in marks : [m EXCEPT !.mounted = FALSE].st = m.st
      BY DEF BellTypes, Patch
    <2> QED
      BY <2>1, <2>2 DEF Oks
  <1>4. g \in [Oks -> {g[m] : m \in Oks}]
    OBVIOUS
  <1> HIDE DEF g
  <1>5. IsFiniteSet(Oks') /\ Cardinality(Oks') = Cardinality(Oks)
    BY <1>2, <1>3, <1>4, Remapped DEF Balance
  <1>6. /\ Unread(Row)' = Unread(Row) /\ Pendings' = Pendings
        /\ count' = count /\ asked' = asked /\ drift' = drift
    BY SameTerms DEF Leave, server, bell
  <1> QED
    BY <1>5, <1>6 DEF Balance

LEMMA Served ==
  ASSUME BellTypes, PatchesOK, Balance, NEW m \in marks, Serve(m)
  PROVE  Balance'
  <1>1. PICK p : p = [m EXCEPT !.st = "ok"]
    OBVIOUS
  <1>2. m \in Patch /\ m.id \in Notification /\ m.st = "sent"
    BY DEF BellTypes, Patch, Serve
  <1>3. SamePatch(p, m) /\ p.st = "ok"
    BY <1>1, <1>2 DEF Patch, SamePatch
  <1>4. p \notin Oks
    BY <1>2, <1>3 DEF PatchesOK, Coherent, Oks
  <1>5. Oks' = Oks \cup {p}
    BY <1>1, <1>2, <1>3 DEF Serve, Oks
  <1>6. IsFiniteSet(Oks') /\ Cardinality(Oks') = Cardinality(Oks) + 1
    BY <1>4, <1>5, FS_AddElement DEF Balance
  <1>7. count' = count /\ asked' = asked /\ Pendings' = Pendings
    BY SameTerms DEF Serve
  <1>8. CASE Row[m.id] = "unread"
    <2>1. Row' = [Row EXCEPT ![m.id] = "read"] /\ Row \in [Notification -> Cell] /\ drift' = drift
      BY <1>2, <1>8, PutFacts, RowFacts DEF Serve, BellTypes, Cell
    <2>2. Unread(Row)' = Unread(Row) \ {m.id} /\ m.id \in Unread(Row)
      BY <1>2, <1>8, <2>1 DEF Unread
    <2>3. Cardinality(Unread(Row)') = Cardinality(Unread(Row)) - 1
      BY <2>2, Finite, FS_RemoveElement DEF Balance
    <2> QED
      BY <1>6, <1>7, <2>1, <2>3, Finite DEF Balance
  <1>9. CASE Row[m.id] # "unread"
    BY <1>6, <1>9 DEF Serve, Balance
  <1> QED
    BY <1>8, <1>9

\* A success counts down; it finds the count above zero or causes drift.
LEMMA Answered ==
  ASSUME BellTypes, Balance, NEW m \in marks, marks' = marks \ {m},
         count' = IF m.st = "ok" THEN Decremented(count) ELSE count,
         drift' = (drift \/ Clamped(m)),
         asked \subseteq asked', UNCHANGED <<past, unsent, wire>>
  PROVE  Balance'
  <1>1. Oks' = Oks \ {m}
    BY DEF Oks
  <1>2. /\ IsFiniteSet(Oks \ {m})
        /\ Cardinality(Oks \ {m}) = IF m \in Oks THEN Cardinality(Oks) - 1 ELSE Cardinality(Oks)
    BY FS_RemoveElement DEF Balance
  <1>3. Unread(Row)' = Unread(Row) /\ Pendings' = Pendings
    BY SameTerms
  <1>4. m \in Oks <=> m.st = "ok"
    BY DEF Oks
  <1>5. asked' = {} => asked = {}
    OBVIOUS
  <1>6. CASE m.st = "ok"
    <2>1. IsFiniteSet(Oks') /\ Cardinality(Oks') = Cardinality(Oks) - 1
      BY <1>1, <1>2, <1>4, <1>6
    <2>2. ~ drift' => ~ drift /\ count # 0
      BY <1>6 DEF Clamped
    <2>3. count # 0 => count' = count - 1
      BY <1>6, Finite DEF Decremented, Balance
    <2> QED
      BY <1>3, <1>5, <2>1, <2>2, <2>3, Finite DEF Balance
  <1>7. CASE m.st # "ok"
    <2>1. Oks' = Oks /\ count' = count
      BY <1>1, <1>4, <1>7
    <2> QED
      BY <1>3, <1>5, <2>1 DEF Balance
  <1> QED
    BY <1>6, <1>7

LEMMA GivenUpFinite ==
  ASSUME BellTypes, PatchesOK, IsFiniteSet(Oks), NEW m \in marks, GivenUp(m)
  PROVE  IsFiniteSet(Oks')
  <1> DEFINE Left(o) == [o EXCEPT !.all = FALSE, !.mounted = FALSE]
             g == [o \in Oks |-> IF o \in Batch(m) THEN Left(o) ELSE o]
  <1>1. \A o \in Oks : o \in Patch /\ o \in marks
    BY DEF Oks, BellTypes
  <1>2. ASSUME NEW o \in Patch
        PROVE  SamePatch(Left(o), o) /\ Left(o).st = o.st
    BY DEF Patch, SamePatch
  <1>3. ASSUME NEW k \in Oks, NEW o \in Oks, g[k] = g[o] PROVE k = o
    <2>1. SamePatch(g[k], k) /\ SamePatch(g[o], o)
      BY <1>1, <1>2 DEF SamePatch
    <2>2. SamePatch(k, o)
      BY <1>3, <2>1 DEF SamePatch
    <2> QED
      BY <1>1, <2>2 DEF PatchesOK, Coherent
  <1>4. Oks' \subseteq {g[o] : o \in Oks}
    <2> SUFFICES ASSUME NEW k \in Oks' PROVE \E o \in Oks : k = g[o]
      OBVIOUS
    <2>1. k \in marks' /\ k.st = "ok"
      BY DEF Oks
    <2>2. CASE k \in marks \ Batch(m)
      BY <2>1, <2>2 DEF Oks
    <2>3. ASSUME NEW o \in Batch(m), k = Left(o) PROVE \E q \in Oks : k = g[q]
      <3>1. o \in marks /\ o \in Patch
        BY DEF Batch, BellTypes
      <3>2. o \in Oks
        BY <1>2, <2>1, <2>3, <3>1 DEF Oks
      <3> QED
        BY <2>3, <3>2
    <2> QED
      BY <2>1, <2>2, <2>3 DEF GivenUp
  <1>5. g \in [Oks -> {g[o] : o \in Oks}]
    OBVIOUS
  <1> HIDE DEF g
  <1>6. IsFiniteSet({g[o] : o \in Oks})
    BY <1>3, <1>5, Remapped
  <1> QED
    BY <1>4, <1>6, FS_Subset

LEMMA BalanceStep ==
  ASSUME BellTypes, WireOK, RowsOK, PatchesOK, Balance, [BellNext]_bellVars
  PROVE  Balance'
  <1>1. ASSUME NEW n \in Notification, PushToUser(n) PROVE Balance'
    <2>1. CASE link = "on"
      <3>1. \A k \in Notification : Pending(k)' = Pending(k)
        BY <1>1, <2>1, SentStaysPending DEF PushToUser
      <3>2. Pendings' = Pendings
        BY <3>1 DEF Pendings
      <3>3. UNCHANGED <<past, marks, count, asked, drift>>
        BY <1>1, <2>1 DEF PushToUser
      <3> QED
        BY <3>2, <3>3, SameTerms DEF Balance
    <2>2. CASE link # "on"
      BY <1>1, <2>2, SameTerms DEF PushToUser, Balance
    <2> QED
      BY <2>1, <2>2
  <1>2. ASSUME NEW n \in Notification, SkipPush(n) \/ ReadElsewhere(n) PROVE Balance'
    BY <1>2, SameTerms DEF SkipPush, ReadElsewhere, Balance
  <1>3. CASE LinkDown
    <2>1. UNCHANGED <<past, unsent, marks, count, asked>>
      BY <1>3 DEF LinkDown, server
    <2>2. CASE wire = <<>>
      <3>1. UNCHANGED <<wire, drift>>
        BY <1>3, <2>2 DEF LinkDown, BellTypes
      <3> QED
        BY <2>1, <3>1, SameTerms DEF Balance
    <2>3. CASE wire # <<>>
      BY <1>3, <2>1, <2>3, SameTerms DEF LinkDown, Balance
    <2> QED
      BY <2>2, <2>3
  <1>4. ASSUME NEW from \in asked, RefreshFails(from) PROVE Balance'
    BY <1>4, SameTerms DEF RefreshFails, Balance
  <1>5. CASE Open \/ Toggle \/ LinkUp \/ UNCHANGED bellVars
    <2>1. UNCHANGED <<past, unsent, wire, marks, count, asked, drift>>
      BY <1>5 DEF Open, Toggle, LinkUp, server, bell, bellVars
    <2> QED
      BY <2>1, SameTerms DEF Balance
  <1>6. ASSUME NEW l \in loads, Loaded(l) \/ LoadFails(l) PROVE Balance'
    <2>1. UNCHANGED <<past, unsent, wire, marks, count, asked, drift>>
      BY <1>6 DEF Loaded, LoadFails, server, bell
    <2> QED
      BY <2>1, SameTerms DEF Balance
  <1>7. ASSUME MarkAll \/ \E item \in page.items : MarkRead(item) PROVE Balance'
    <2>1. UNCHANGED <<past, unsent, wire, count, asked, drift>>
      BY <1>7 DEF MarkAll, MarkRead, server, bell
    <2>2. Oks' = Oks
      BY <1>7 DEF MarkAll, MarkRead, Mark, Oks
    <2> QED
      BY <2>1, <2>2, SameTerms DEF Balance
  <1>8. ASSUME NEW m \in marks, Lose(m) PROVE Balance'
    <2>1. [m EXCEPT !.st = "lost"].st = "lost"
      BY DEF BellTypes, Patch
    <2>2. Oks' \subseteq Oks
      BY <1>8, <2>1 DEF Lose, Oks
    <2>3. IsFiniteSet(Oks')
      BY <2>2, FS_Subset DEF Balance
    <2> QED
      BY <1>8, <2>3 DEF Lose, Balance
  <1>9. ASSUME NEW m \in marks, Marked(m) PROVE Balance'
    BY <1>9, Answered DEF Marked, server
  <1>10. ASSUME NEW m \in marks, MarkedOfAll(m) PROVE Balance'
    <2>1. /\ AllRead(m) \/ OneRead(m) \/ GivenUp(m)
          /\ drift' = (drift \/ Clamped(m))
          /\ UNCHANGED <<past, unsent, wire>>
      BY <1>10, OfAllCases DEF BellTypes
    <2>2. CASE AllRead(m) \/ OneRead(m)
      <3>1. /\ marks' = marks \ {m} /\ count' = Decremented(count) /\ m.st = "ok"
            /\ asked \subseteq asked'
        BY <2>2 DEF AllRead, OneRead
      <3> QED
        BY <2>1, <3>1, Answered
    <2>3. CASE GivenUp(m)
      <3>1. asked' # {}
        BY <2>3 DEF GivenUp
      <3> QED
        BY <2>3, <3>1, GivenUpFinite DEF Balance
    <2> QED
      BY <2>1, <2>2, <2>3
  <1> QED
    BY <1>1, <1>2, <1>3, <1>4, <1>5, <1>6, <1>7, <1>8, <1>9, <1>10, Stored, Arrived, Recounted,
       LeftAlike, Served DEF BellNext

-----------------------------------------------------------------------------
(* The list: what it shows of a notification it need agree on.  One that is *)
(* read may be shown as unread as long as an answer will correct it.        *)

Entries(n) == {i \in page.items : i.id = n}

Excuse(n) == \E m \in marks : m.mounted /\ (m.all \/ (m.id = n /\ m.st = "ok"))

Listed(n) ==
  /\ \A m \in marks : m.id = n => m.mounted
  /\ Pending(n) =>
       Row[n] = "unread" /\ Entries(n) = {} /\ \A m \in marks : m.id # n
  /\ ~ Pending(n) =>
       /\ Row[n] = "none" => Entries(n) = {}
       /\ Row[n] = "unread" => \E i : Entries(n) = {i} /\ ~ i.read
       /\ Row[n] = "read" => \/ \E i : Entries(n) = {i} /\ (i.read \/ Excuse(n))
                             \/ Entries(n) = {} /\ page.unreadOnly

ListOK ==
  page.st = "list" /\ loads = {} => \A n \in Notification \ blurred : Listed(n)

LEMMA ListedFrame ==
  ASSUME NEW n, Row'[n] = Row[n], Pending(n)' = Pending(n), UNCHANGED <<page, marks>>, Listed(n)
  PROVE  Listed(n)'
  <1>1. Entries(n)' = Entries(n) /\ Excuse(n)' = Excuse(n)
    BY DEF Entries, Excuse
  <1>2. (Row[n])' = Row[n]
    BY DEF Row
  <1> QED
    BY <1>1, <1>2 DEF Listed

\* A push that arrives lists its notification, as unread.
LEMMA ListedPush ==
  ASSUME BellTypes, WireOK, OnPush, page.st = "list", NEW n \in Notification, Listed(n)
  PROVE  Listed(n)'
  <1>1. PICK h : h = Head(wire)
    OBVIOUS
  <1>2. /\ h \in Notification
        /\ Pending(h) /\ ~ Pending(h)'
        /\ \A k \in Notification \ {h} : Pending(k)' = Pending(k)
    BY <1>1, HeardIsNotPending
  <1>3. PICK e : e = [id |-> h, read |-> FALSE, pushed |-> TRUE]
    OBVIOUS
  <1>4. /\ page'.items = page.items \cup {e} /\ page'.unreadOnly = page.unreadOnly
        /\ e.id = h /\ ~ e.read
    BY <1>1, <1>3 DEF OnPush, Prepended, BellTypes
  <1>5. marks' = marks /\ Row' = Row
    BY DEF OnPush, server, Row
  <1>6. CASE n = h
    <2>1. Entries(n) = {} /\ Row[n] = "unread" /\ \A m \in marks : m.id # n
      BY <1>2, <1>6 DEF Listed
    <2>2. Entries(n)' = {e}
      BY <1>4, <1>6, <2>1 DEF Entries
    <2> QED
      BY <1>2, <1>4, <1>5, <1>6, <2>1, <2>2 DEF Listed
  <1>7. CASE n # h
    <2>1. Entries(n)' = Entries(n) /\ Excuse(n)' = Excuse(n)
      BY <1>4, <1>5, <1>7 DEF Entries, Excuse
    <2> QED
      BY <1>2, <1>4, <1>5, <1>7, <2>1 DEF Listed
  <1> QED
    BY <1>6, <1>7

LEMMA ListedStore ==
  ASSUME BellTypes, RowsOK, NEW k \in Notification, Store(k), NEW n \in Notification, Listed(n)
  PROVE  Listed(n)'
  <1>1. Row' = [Row EXCEPT ![k] = "unread"] /\ Row \in [Notification -> Cell]
    BY PutFacts, RowFacts DEF Store, BellTypes, Cell
  <1>2. UNCHANGED <<page, marks>> /\ Row[k] = "none" /\ wire' = wire /\ unsent' = unsent \cup {k}
    BY DEF Store, shown, bell
  <1>3. CASE n = k
    <2>1. ~ Pending(n) /\ Entries(n) = {} /\ \A m \in marks : m.id # n
      BY <1>2, <1>3 DEF RowsOK, RowsPending, MarksStored, Listed
    <2>2. Pending(n)' /\ Entries(n)' = {} /\ Row'[n] = "unread"
      BY <1>1, <1>2, <1>3, <2>1 DEF Pending, Entries
    <2> QED
      BY <1>2, <2>1, <2>2 DEF Listed
  <1>4. CASE n # k
    <2>1. Pending(n)' = Pending(n)
      BY <1>2, <1>4 DEF Pending
    <2> QED
      BY <1>1, <1>2, <1>4, <2>1, ListedFrame
  <1> QED
    BY <1>3, <1>4

\* Clicks mark what is listed, so nothing whose push is pending.
LEMMA ListedClick ==
  ASSUME NEW F, marks' = marks \cup F,
         \A m \in F : m.mounted /\ \E i \in page.items : i.id = m.id,
         UNCHANGED <<past, unsent, wire, page>>, NEW n \in Notification, Listed(n)
  PROVE  Listed(n)'
  <1>1. Row' = Row /\ Pending(n)' = Pending(n) /\ Entries(n)' = Entries(n)
    BY DEF Row, Pending, Entries
  <1>2. Excuse(n) => Excuse(n)'
    BY DEF Excuse
  <1>3. \A m \in marks' : m.id = n => m.mounted
    BY DEF Listed
  <1>4. Pending(n) => \A m \in marks' : m.id # n
    BY DEF Listed, Entries
  <1> QED
    BY <1>1, <1>2, <1>3, <1>4 DEF Listed

LEMMA ListedServe ==
  ASSUME BellTypes, NEW m \in marks, Serve(m), NEW n \in Notification, Listed(n)
  PROVE  Listed(n)'
  <1>1. PICK p : p = [m EXCEPT !.st = "ok"]
    OBVIOUS
  <1>2. m \in Patch /\ m.id \in Notification /\ m.st = "sent"
    BY DEF BellTypes, Patch, Serve
  <1>3. p.id = m.id /\ p.st = "ok" /\ p.all = m.all /\ p.mounted = m.mounted
    BY <1>1, <1>2 DEF Patch
  <1>4. marks' = (marks \ {m}) \cup {p} /\ page' = page
    BY <1>1 DEF Serve, shown
  <1>5. Pending(n)' = Pending(n) /\ Entries(n)' = Entries(n)
    BY <1>4 DEF Serve, Pending, Entries
  <1>6. Excuse(n) => Excuse(n)'
    BY <1>2, <1>3, <1>4 DEF Excuse
  <1>7. /\ \A o \in marks' : o.id = n => o.mounted
        /\ (\A o \in marks : o.id # n) => \A o \in marks' : o.id # n
    BY <1>3, <1>4 DEF Listed
  <1>8. Row'[n] = Row[n] \/ (n = m.id /\ Row[n] = "unread" /\ Row'[n] = "read")
    <2>1. CASE Row[m.id] = "unread"
      <3>1. Row' = [Row EXCEPT ![m.id] = "read"] /\ Row \in [Notification -> Cell]
        BY <1>2, <2>1, PutFacts, RowFacts DEF Serve, BellTypes, Cell
      <3> QED
        BY <2>1, <3>1
    <2>2. CASE Row[m.id] # "unread"
      BY <2>2 DEF Serve, Row
    <2> QED
      BY <2>1, <2>2
  <1>9. CASE Row'[n] = Row[n]
    BY <1>4, <1>5, <1>6, <1>7, <1>9 DEF Listed
  <1>10. CASE n = m.id /\ Row[n] = "unread" /\ Row'[n] = "read"
    <2>1. ~ Pending(n) /\ m.mounted
      BY <1>10 DEF Listed
    <2>2. Excuse(n)'
      BY <1>3, <1>4, <1>10, <2>1 DEF Excuse
    <2> QED
      BY <1>5, <1>7, <1>10, <2>1, <2>2 DEF Listed
  <1> QED
    BY <1>8, <1>9, <1>10

LEMMA ListedLose ==
  ASSUME BellTypes, NEW m \in marks, Lose(m), NEW n \in Notification, n # m.id, Listed(n)
  PROVE  Listed(n)'
  <1>1. PICK p : p = [m EXCEPT !.st = "lost"]
    OBVIOUS
  <1>2. p.id = m.id /\ p.all = m.all /\ p.mounted = m.mounted
    BY <1>1 DEF BellTypes, Patch
  <1>3. marks' = (marks \ {m}) \cup {p} /\ page' = page /\ Row' = Row
    BY <1>1 DEF Lose, server, Row
  <1>4. Pending(n)' = Pending(n) /\ Entries(n)' = Entries(n)
    BY <1>3 DEF Lose, server, Pending, Entries
  <1>5. Excuse(n) => Excuse(n)'
    BY <1>2, <1>3 DEF Excuse
  <1>6. /\ \A o \in marks' : o.id = n => o.mounted
        /\ (\A o \in marks : o.id # n) => \A o \in marks' : o.id # n
    BY <1>2, <1>3 DEF Listed
  <1> QED
    BY <1>3, <1>4, <1>5, <1>6 DEF Listed

\* Items that are set to read.
LEMMA ReadEntry ==
  ASSUME NEW i \in Entry
  PROVE  [i EXCEPT !.read = TRUE].id = i.id /\ [i EXCEPT !.read = TRUE].read
  BY DEF Entry

LEMMA ListedMarked ==
  ASSUME BellTypes, RowsOK, NEW m \in marks, Marked(m), NEW n \in Notification, Listed(n)
  PROVE  Listed(n)'
  <1>1. /\ marks' = marks \ {m} /\ Row' = Row /\ Pending(n)' = Pending(n)
        /\ ~ m.all /\ page'.unreadOnly = page.unreadOnly
    BY DEF Marked, server, Row, Pending, BellTypes
  <1>2. /\ \A o \in marks' : o.id = n => o.mounted
        /\ (\A o \in marks : o.id # n) => \A o \in marks' : o.id # n
    BY <1>1 DEF Listed
  <1>3. CASE m.st = "ok" /\ m.mounted /\ m.id = n
    <2>1. Row[n] = "read" /\ ~ Pending(n)
      BY <1>3 DEF RowsOK, MarksStored, Listed
    <2>2. page'.items = ReadItems(page.items, m)
      BY <1>3 DEF Marked, BellTypes
    <2>3. Entries(n)' = {[i EXCEPT !.read = TRUE] : i \in Entries(n)}
      <3>1. \A i \in page.items : [i EXCEPT !.read = TRUE].id = i.id
        BY ReadEntry DEF BellTypes
      <3> QED
        BY <1>3, <2>2, <3>1 DEF Entries, ReadItems
    <2>4. CASE Entries(n) = {}
      BY <1>1, <1>2, <2>1, <2>3, <2>4 DEF Listed
    <2>5. ASSUME NEW i, Entries(n) = {i} PROVE Listed(n)'
      <3>1. i \in Entry
        BY <2>5 DEF Entries, BellTypes
      <3>2. Entries(n)' = {[i EXCEPT !.read = TRUE]} /\ [i EXCEPT !.read = TRUE].read
        BY <2>3, <2>5, <3>1, ReadEntry
      <3> QED
        BY <1>1, <1>2, <2>1, <3>2 DEF Listed
    <2> QED
      BY <2>1, <2>4, <2>5 DEF Listed
  <1>4. CASE ~ (m.st = "ok" /\ m.mounted /\ m.id = n)
    <2>1. Entries(n)' = Entries(n)
      <3>1. CASE page' = page
        BY <3>1 DEF Entries
      <3>2. CASE page' = [page EXCEPT !.items = ReadItems(page.items, m)] /\ m.id # n
        <4>1. \A i \in page.items : [i EXCEPT !.read = TRUE].id = i.id
          BY ReadEntry DEF BellTypes
        <4>2. page'.items = ReadItems(page.items, m)
          BY <3>2 DEF BellTypes
        <4> QED
          BY <3>2, <4>1, <4>2 DEF Entries, ReadItems
      <3> QED
        BY <1>4, <3>1, <3>2 DEF Marked
    <2>2. Excuse(n) => Excuse(n)'
      BY <1>1, <1>4 DEF Excuse
    <2> QED
      BY <1>1, <1>2, <2>1, <2>2 DEF Listed
  <1> QED
    BY <1>3, <1>4

\* The last answer of mark all sets what is listed by then.
LEMMA ListedAllRead ==
  ASSUME BellTypes, NEW m \in marks, m.all, AllRead(m), UNCHANGED <<past, unsent, wire>>,
         NEW n \in Notification \ blurred', Listed(n)
  PROVE  Listed(n)'
  <1>1. /\ marks' = marks \ {m} /\ Row' = Row /\ Pending(n)' = Pending(n)
        /\ page'.unreadOnly = page.unreadOnly
    BY DEF AllRead, Row, Pending, BellTypes
  <1>2. /\ \A o \in marks' : o.id = n => o.mounted
        /\ (\A o \in marks : o.id # n) => \A o \in marks' : o.id # n
    BY <1>1 DEF Listed
  <1>3. CASE m.mounted
    <2>1. page'.items = ReadAllItems(page.items, m)
      BY <1>3 DEF AllRead, BellTypes
    <2>2. Entries(n)' = {[i EXCEPT !.read = TRUE] : i \in Entries(n)}
      <3>1. \A i \in page.items : [i EXCEPT !.read = TRUE].id = i.id
        BY ReadEntry DEF BellTypes
      <3>2. page'.items = {[i EXCEPT !.read = TRUE] : i \in page.items}
        BY <2>1 DEF ReadAllItems
      <3>3. Entries(n)' = {k \in page'.items : k.id = n}
        BY DEF Entries
      <3>4. ASSUME NEW k \in Entries(n)' PROVE \E i \in Entries(n) : k = [i EXCEPT !.read = TRUE]
        <4>1. PICK i \in page.items : k = [i EXCEPT !.read = TRUE]
          BY <3>2, <3>3
        <4> QED
          BY <3>1, <3>3, <4>1 DEF Entries
      <3>5. ASSUME NEW i \in Entries(n) PROVE [i EXCEPT !.read = TRUE] \in Entries(n)'
        <4>1. i \in page.items /\ i.id = n
          BY DEF Entries
        <4> QED
          BY <3>1, <3>2, <3>3, <4>1
      <3> QED
        BY <3>4, <3>5
    <2>3. \A i \in Entries(n) : Row[n] = "read"
      BY <1>3 DEF Entries, AllRead
    <2>4. CASE Entries(n) = {}
      BY <1>1, <1>2, <2>2, <2>4 DEF Listed
    <2>5. ASSUME NEW i, Entries(n) = {i} PROVE Listed(n)'
      <3>1. i \in Entry
        BY <2>5 DEF Entries, BellTypes
      <3>2. Entries(n)' = {[i EXCEPT !.read = TRUE]} /\ [i EXCEPT !.read = TRUE].read
        BY <2>2, <2>5, <3>1, ReadEntry
      <3> QED
        BY <1>1, <1>2, <2>3, <2>5, <3>2 DEF Listed
    <2>6. Row[n] \in Cell
      BY RowFacts DEF BellTypes
    <2>7. Entries(n) = {} \/ \E i : Entries(n) = {i}
      BY <2>6 DEF Listed, Cell
    <2> QED
      BY <2>4, <2>5, <2>7
  <1>4. CASE ~ m.mounted
    <2>1. Entries(n)' = Entries(n)
      BY <1>4 DEF AllRead, Entries
    <2>2. Excuse(n) => Excuse(n)'
      BY <1>1, <1>4 DEF Excuse
    <2> QED
      BY <1>1, <1>2, <2>1, <2>2 DEF Listed
  <1> QED
    BY <1>3, <1>4

LEMMA ListedOneRead ==
  ASSUME BellTypes, PatchesOK, NEW m \in marks, m.all, OneRead(m),
         UNCHANGED <<past, unsent, wire>>, NEW n \in Notification, Listed(n)
  PROVE  Listed(n)'
  <1>1. /\ marks' = marks \ {m} /\ Row' = Row /\ Pending(n)' = Pending(n) /\ page' = page
        /\ Entries(n)' = Entries(n)
    BY DEF OneRead, Row, Pending, Entries
  <1>2. PICK o \in marks \ {m} : o.all /\ o.no = m.no
    BY DEF OneRead, Batch
  <1>3. o.mounted = m.mounted
    BY <1>2 DEF PatchesOK, Coherent
  <1>4. Excuse(n) => Excuse(n)'
    BY <1>1, <1>2, <1>3 DEF Excuse
  <1>5. /\ \A k \in marks' : k.id = n => k.mounted
        /\ (\A k \in marks : k.id # n) => \A k \in marks' : k.id # n
    BY <1>1 DEF Listed
  <1> QED
    BY <1>1, <1>4, <1>5 DEF Listed

LEMMA ListedGivenUp ==
  ASSUME BellTypes, NEW m \in marks, GivenUp(m), UNCHANGED <<past, unsent, wire>>,
         NEW n \in Notification \ blurred', Listed(n)
  PROVE  Listed(n)'
  <1>1. /\ Row' = Row /\ Pending(n)' = Pending(n) /\ page' = page
        /\ Entries(n)' = Entries(n)
    BY DEF GivenUp, Row, Pending, Entries
  <1>2. /\ \A o \in Batch(m) : o.id # n
        /\ \A i \in Entries(n) : Row[n] # "read"
    BY DEF GivenUp, Entries
  <1>3. ASSUME NEW k \in marks', k.id = n PROVE k \in marks
    <2>1. ASSUME NEW o \in Batch(m), k = [o EXCEPT !.all = FALSE, !.mounted = FALSE] PROVE FALSE
      <3>1. o \in Patch
        BY DEF Batch, BellTypes
      <3>2. k.id = o.id
        BY <2>1, <3>1 DEF Patch
      <3> QED
        BY <1>2, <1>3, <3>2
    <2> QED
      BY <2>1 DEF GivenUp
  <1> QED
    BY <1>1, <1>2, <1>3 DEF Listed

\* An answer lists what was, and what is if nothing makes that doubtful.
LEMMA ListedLoaded ==
  ASSUME BellTypes, RowsOK, NEW l \in loads, Loaded(l), NEW n \in Notification \ blurred'
  PROVE  Listed(n)'
  <1>1. PICK t \in l.from .. Len(past) :
          /\ page' = [page EXCEPT !.st = "list", !.items = Listing(past[t], l.unreadOnly)]
          /\ blurred' = IF l.unreadOnly # page.unreadOnly THEN Notification
                          ELSE {k \in Notification : Doubtful(k, t)}
    BY DEF Loaded
  <1>2. l.unreadOnly = page.unreadOnly /\ ~ Doubtful(n, t)
    BY <1>1
  <1>3. /\ marks' = marks /\ Row' = Row /\ Pending(n)' = Pending(n)
        /\ page'.unreadOnly = page.unreadOnly /\ page'.items = Listing(past[t], page.unreadOnly)
    BY <1>1, <1>2 DEF Loaded, server, bell, Row, Pending, BellTypes
  <1>4. past[t] \in [Notification -> Cell] /\ Row \in [Notification -> Cell]
    BY RowFacts DEF BellTypes
  <1> DEFINE e == [id |-> n, read |-> past[t][n] = "read", pushed |-> FALSE]
  <1>5. Entries(n)' = IF past[t][n] = "unread" \/ (past[t][n] = "read" /\ ~ page.unreadOnly)
                        THEN {e} ELSE {}
    BY <1>3 DEF Entries, Listing
  <1>6. e.read <=> past[t][n] = "read"
    OBVIOUS
  <1> HIDE DEF e
  <1>7. CASE Pending(n)
    <2>1. past[t][n] = "none" /\ Row[n] # "read" /\ \A m \in marks : m.id # n
      BY <1>2, <1>7 DEF Doubtful
    <2>2. Row[n] = "unread"
      BY <1>4, <1>7, <2>1 DEF RowsOK, RowsPending, Cell
    <2> QED
      BY <1>3, <1>5, <1>7, <2>1, <2>2 DEF Listed
  <1>8. CASE ~ Pending(n)
    <2>1. past[t][n] = Row[n] /\ \A m \in marks : m.id = n => m.mounted
      BY <1>2, <1>8 DEF Doubtful
    <2> QED
      BY <1>3, <1>5, <1>6, <1>8, <2>1 DEF Listed
  <1> QED
    BY <1>7, <1>8

\* A page that is opened or left shows no list, and a checkbox asks for one.
LEMMA NoneCame ==
  ASSUME Open \/ Leave \/ Toggle
  PROVE  page'.st # "list" \/ loads' # {}
  <1>1. CASE Open \/ Leave
    <2>1. page' = [NoPage EXCEPT !.st = "spinner"] \/ page' = NoPage
      BY <1>1 DEF Open, Leave
    <2> QED
      BY <2>1 DEF NoPage
  <1>2. CASE Toggle
    <2>1. NewLoad(~page.unreadOnly) \in loads'
      BY <1>2 DEF Toggle
    <2> QED
      BY <2>1
  <1> QED
    BY <1>1, <1>2

\* Only an answer to a load makes a list agree that did not have to before.
LEMMA ListedBefore ==
  ASSUME BellTypes, ListOK, [BellNext]_bellVars, page'.st = "list", loads' = {},
         NEW n \in Notification \ blurred'
  PROVE  \/ page.st = "list" /\ Listed(n)
         \/ \E l \in loads : Loaded(l)
  <1>0. page \in [st : {"closed", "spinner", "list"}, items : SUBSET Entry, unreadOnly : BOOLEAN]
    BY DEF BellTypes
  <1>1. SUFFICES ASSUME ~ \E l \in loads : Loaded(l)
                 PROVE  page.st = "list" /\ loads = {} /\ n \notin blurred
    BY DEF ListOK
  <1>2. CASE \E k \in Notification : Store(k) \/ PushToUser(k) \/ SkipPush(k) \/ ReadElsewhere(k)
    BY <1>2 DEF Store, PushToUser, SkipPush, ReadElsewhere, shown
  <1>3. CASE LinkUp \/ LinkDown \/ OnPush
    BY <1>0, <1>3 DEF LinkUp, LinkDown, OnPush, Prepended, shown
  <1>4. CASE \E from \in asked : Refreshed(from) \/ RefreshFails(from)
    BY <1>4 DEF Refreshed, RefreshFails, shown
  <1>5. CASE Open \/ Leave \/ Toggle
    BY <1>5, NoneCame
  <1>6. CASE MarkAll \/ \E item \in page.items : MarkRead(item)
    BY <1>6 DEF MarkAll, MarkRead, shown
  <1>7. CASE \E l \in loads : LoadFails(l)
    BY <1>7 DEF LoadFails
  <1>8. CASE \E m \in marks : Serve(m) \/ Lose(m) \/ Marked(m)
    BY <1>0, <1>8 DEF Serve, Lose, Marked, shown
  <1>9. ASSUME NEW m \in marks, MarkedOfAll(m)
        PROVE  page.st = "list" /\ loads = {} /\ n \notin blurred
    <2>1. AllRead(m) \/ OneRead(m) \/ GivenUp(m)
      BY <1>9, OfAllCases DEF BellTypes
    <2>2. loads' = loads
      BY <1>9 DEF MarkedOfAll
    <2> QED
      BY <1>0, <2>1, <2>2 DEF AllRead, OneRead, GivenUp
  <1>10. CASE UNCHANGED bellVars
    BY <1>10 DEF bellVars
  <1> QED
    BY <1>1, <1>2, <1>3, <1>4, <1>5, <1>6, <1>7, <1>8, <1>9, <1>10 DEF BellNext

LEMMA ListOKStep ==
  ASSUME BellTypes, WireOK, RowsOK, PatchesOK, ListOK, [BellNext]_bellVars
  PROVE  ListOK'
  <1> SUFFICES ASSUME page'.st = "list", loads' = {}, NEW n \in Notification \ blurred'
               PROVE  Listed(n)'
    BY DEF ListOK
  <1>1. CASE \E l \in loads : Loaded(l)
    BY <1>1, ListedLoaded
  <1>2. CASE page.st = "list" /\ Listed(n)
    <2>1. ASSUME NEW k \in Notification, Store(k) PROVE Listed(n)'
      BY <1>2, <2>1, ListedStore
    <2>2. ASSUME NEW k \in Notification, PushToUser(k) PROVE Listed(n)'
      <3>1. Pending(n)' = Pending(n)
        <4>1. CASE link = "on"
          BY <2>2, <4>1, SentStaysPending DEF PushToUser
        <4>2. CASE link # "on"
          BY <2>2, <4>2 DEF PushToUser, Pending
        <4> QED
          BY <4>1, <4>2
      <3>2. UNCHANGED <<past, page, marks>>
        BY <2>2 DEF PushToUser
      <3> QED
        BY <1>2, <3>1, <3>2, ListedFrame DEF Row
    <2>3. ASSUME NEW k \in Notification, SkipPush(k) PROVE Listed(n)'
      <3>1. UNCHANGED <<past, page, marks>> /\ Pending(n)' = Pending(n)
        BY <2>3 DEF SkipPush, Pending
      <3> QED
        BY <1>2, <3>1, ListedFrame DEF Row
    <2>4. ASSUME NEW k \in Notification, ReadElsewhere(k) PROVE Listed(n)'
      <3>1. UNCHANGED <<page, marks>> /\ Pending(n)' = Pending(n) /\ n # k
        BY <2>4 DEF ReadElsewhere, Pending
      <3>2. Row' = [Row EXCEPT ![k] = "read"] /\ Row \in [Notification -> Cell]
        BY <2>4, PutFacts, RowFacts DEF ReadElsewhere, BellTypes, Cell
      <3> QED
        BY <1>2, <3>1, <3>2, ListedFrame
    <2>5. CASE LinkDown
      <3>1. UNCHANGED <<past, page, marks>> /\ Pending(n)' = Pending(n)
        BY <2>5 DEF LinkDown, Pending, server
      <3> QED
        BY <1>2, <3>1, ListedFrame DEF Row
    <2>6. CASE LinkUp \/ (\E from \in asked : Refreshed(from) \/ RefreshFails(from)) \/ UNCHANGED bellVars
      <3>1. UNCHANGED <<past, unsent, wire, page, marks>>
        BY <2>6 DEF LinkUp, Refreshed, RefreshFails, server, shown, bellVars
      <3> QED
        BY <1>2, <3>1, ListedFrame, PendingFrame DEF Row
    <2>7. CASE OnPush
      BY <1>2, <2>7, ListedPush
    <2>8. CASE Open \/ Leave \/ Toggle
      BY <2>8, NoneCame
    <2>15. ASSUME NEW l \in loads, LoadFails(l) PROVE Listed(n)'
      <3>1. blurred' = Notification
        BY <2>15 DEF LoadFails
      <3> QED
        BY <3>1
    <2>9. CASE MarkAll
      <3> DEFINE F == {Mark(item.id, Twin(item), TRUE) : item \in UnreadItems}
      <3>1. marks' = marks \cup F /\ UNCHANGED <<past, unsent, wire, page>>
        BY <2>9 DEF MarkAll, server, bell, shown
      <3>2. \A m \in F : m.mounted /\ \E i \in page.items : i.id = m.id
        BY DEF Mark, UnreadItems
      <3> HIDE DEF F
      <3> QED
        BY <1>2, <3>1, <3>2, ListedClick
    <2>10. ASSUME NEW item \in page.items, MarkRead(item) PROVE Listed(n)'
      <3> DEFINE F == {Mark(item.id, FALSE, FALSE)}
      <3>1. marks' = marks \cup F /\ UNCHANGED <<past, unsent, wire, page>>
        BY <2>10 DEF MarkRead, server, bell, shown
      <3>2. \A m \in F : m.mounted /\ \E i \in page.items : i.id = m.id
        BY DEF Mark
      <3> HIDE DEF F
      <3> QED
        BY <1>2, <3>1, <3>2, ListedClick
    <2>11. ASSUME NEW m \in marks, Serve(m) PROVE Listed(n)'
      BY <1>2, <2>11, ListedServe
    <2>12. ASSUME NEW m \in marks, Lose(m) PROVE Listed(n)'
      <3>1. n # m.id
        BY <2>12 DEF Lose
      <3> QED
        BY <1>2, <2>12, <3>1, ListedLose
    <2>13. ASSUME NEW m \in marks, Marked(m) PROVE Listed(n)'
      BY <1>2, <2>13, ListedMarked
    <2>14. ASSUME NEW m \in marks, MarkedOfAll(m) PROVE Listed(n)'
      <3>1. /\ AllRead(m) \/ OneRead(m) \/ GivenUp(m)
            /\ m.all /\ UNCHANGED <<past, unsent, wire>>
        BY <2>14, OfAllCases DEF BellTypes
      <3> QED
        BY <1>2, <3>1, ListedAllRead, ListedOneRead, ListedGivenUp
    <2> QED
      BY <1>1, <2>1, <2>2, <2>3, <2>4, <2>5, <2>6, <2>7, <2>8, <2>9, <2>10, <2>11, <2>12, <2>13,
         <2>14, <2>15 DEF BellNext
  <1> QED
    BY <1>1, <1>2, ListedBefore

-----------------------------------------------------------------------------
(* The invariant *)

BellInv == BellTypes /\ WireOK /\ RowsOK /\ PatchesOK /\ Balance /\ ListOK

LEMMA BellInitInv == BellInit => BellInv
  <1> SUFFICES ASSUME BellInit PROVE BellInv
    OBVIOUS
  <1>1. BellTypes
    BY BellInitTypes
  <1>2. wire = <<>> /\ unsent = {} /\ marks = {} /\ page = NoPage /\ page.items = {} /\ page.st = "closed"
    BY DEF BellInit, NoPage
  <1>3. \A n : ~ Pending(n)
    BY <1>2 DEF Pending
  <1>4. RowsKept
    <2>1. Len(past) = 1
      BY DEF BellInit
    <2> QED
      BY <2>1 DEF RowsKept, Row
  <1>5. Oks = {} /\ asked # {}
    BY <1>2 DEF Oks, BellInit
  <1>6. Balance
    BY <1>5, FS_EmptySet DEF Balance
  <1>7. WireOK
    BY <1>2 DEF WireOK
  <1>8. PatchesOK /\ ListOK
    BY <1>2 DEF PatchesOK, Coherent, ListOK
  <1> QED
    BY <1>1, <1>2, <1>3, <1>4, <1>6, <1>7, <1>8
       DEF BellInv, RowsOK, RowsPending, ItemsStored, MarksStored

LEMMA BellInvStep == BellInv /\ [BellNext]_bellVars => BellInv'
  BY BellTypesStep, WireOKStep, RowsOKStep, PatchesOKStep, BalanceStep, ListOKStep
     DEF BellInv, RowsOK

\* The inductive invariant of bell and list: whatever is stored, pushed, lost,
\* loaded and marked, in whatever order, the count with what is still to come
\* makes the unread rows, and the list shows what it has to or an answer that
\* is under way will (NotificationsContext.tsx, NotificationsPage.tsx).
THEOREM BellInvHolds == BellSpec => []BellInv
  BY BellInitInv, BellInvStep, PTL DEF BellSpec

\* The bell agrees with the rows, for any notifications and any number of
\* clicks, answers and pushes under way (NotificationsContext.tsx).
THEOREM Counting == BellSpec => []CountAgrees
  <1>1. BellInv => CountAgrees
    <2> SUFFICES ASSUME BellInv, Quiet, ~ drift PROVE count = Cardinality(Unread(Row))
      BY DEF CountAgrees
    <2>1. Pendings = {} /\ Oks = {}
      BY DEF Quiet, Pendings, Pending, Oks
    <2>2. count + 0 = Cardinality(Unread(Row)) + 0
      BY <2>1, FS_EmptySet DEF BellInv, Balance, Quiet
    <2>3. count \in Nat /\ Cardinality(Unread(Row)) \in Nat
      BY Finite DEF BellInv, Balance
    <2> QED
      BY <2>2, <2>3
  <1> QED
    BY <1>1, BellInvHolds, PTL

\* The list agrees with the rows on every notification that is not excepted,
\* for any notifications, loads and PATCHes (NotificationsPage.tsx).
THEOREM Agreeing == BellSpec => []ListAgrees
  <1>1. BellInv => ListAgrees
    <2> SUFFICES ASSUME BellInv, Quiet, page.st = "list", NEW n \in Notification \ blurred
                 PROVE  /\ Row[n] = "unread" \/ (Row[n] = "read" /\ ~page.unreadOnly)
                             => Cardinality(Entries(n)) = 1
                        /\ \A i \in Entries(n) : i.read <=> Row[n] = "read"
      BY DEF ListAgrees, Entries
    <2>1. Listed(n) /\ ~ Pending(n) /\ ~ Excuse(n)
      BY DEF BellInv, ListOK, Quiet, Pending, Excuse
    <2>2. Row[n] \in Cell
      BY RowFacts DEF BellInv, BellTypes
    <2>3. ASSUME NEW i, Entries(n) = {i} PROVE Cardinality(Entries(n)) = 1 /\ i.read \in BOOLEAN
      <3>1. i \in Entry
        BY <2>3 DEF Entries, BellInv, BellTypes
      <3> QED
        BY <2>3, <3>1, FS_Singleton DEF Entry
    <2> QED
      BY <2>1, <2>2, <2>3 DEF Listed, Cell
  <1> QED
    BY <1>1, BellInvHolds, PTL

=============================================================================
