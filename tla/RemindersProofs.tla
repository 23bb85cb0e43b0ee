--------------------------- MODULE RemindersProofs ---------------------------
(***************************************************************************)
(* Proofs about Reminders, for any tasks, members, processes and patterns, *)
(* any numbers of attempts and forgiven stalls, and any number of upsets.  *)
(***************************************************************************)
EXTENDS Reminders, TLAPS

-----------------------------------------------------------------------------
(* The inductive invariant *)

Subject == Task \cup User

Firing == [st : {"none", "waiting", "active", "completed", "failed"},
           owner : Process \cup {None}, starts : Nat, made : Nat,
           stalled : Nat, broken : SUBSET Nat, found : SUBSET Subject]
Scan == [pc : {"idle", "find", "all"}, key : Key \cup {None}, run : Nat,
         rejected : BOOLEAN]
Call == [by : Process, key : Key, run : Nat, for : Subject, step : {"add", "count"}]
Item == [for : Subject, key : Key, run : Nat, skip : BOOLEAN]

Shaped ==
  /\ firing \in [Key -> Firing]
  /\ scan \in [Process -> Scan]
  /\ calls \subseteq Call
  /\ queued \subseteq Item

\* Every process adds a pattern under the same name.
Registered == {<<p, None>> : p \in Pattern}

Scheduled ==
  /\ config \in [Process -> Pattern]
  /\ schedule \subseteq Registered
  /\ \A key \in Key : firing[key].st # "none" => key \in schedule

\* All runs of a job but the last have thrown or lost their lock; so has the
\* last one, unless it is still going on or has completed.
Broken ==
  \A key \in Key : \A n \in 1 .. firing[key].starts :
    \/ n \in firing[key].broken
    \/ n = firing[key].starts /\ firing[key].st \in {"active", "completed"}

\* Run n of a job has started.
Known(key, n) == key \in Registered /\ n \in 1 .. firing[key].starts

ScanOK(w) ==
  /\ scan[w].pc = "idle" => scan[w] = NoScan
  /\ scan[w].pc # "idle" => Known(scan[w].key, scan[w].run)
  /\ scan[w].rejected => scan[w].pc = "all"
  /\ scan[w].pc = "find" =>
       \A c \in calls \cup queued : c.key = scan[w].key => c.run # scan[w].run

Same(c, d) == c.for = d.for /\ c.key = d.key /\ c.run = d.run

\* A run calls once for each task or member.
Once ==
  /\ \A c \in calls \cup queued : Known(c.key, c.run)
  /\ \A c, d \in calls : Same(c, d) => c = d
  /\ \A c, d \in queued : Same(c, d) => c = d
  /\ \A c \in calls, d \in queued : ~Same(c, d)
  /\ \A v, w \in Process :
       /\ scan[v].pc # "idle" /\ scan[w].pc # "idle"
       /\ scan[v].key = scan[w].key /\ scan[v].run = scan[w].run
       => v = w

Queued(key, n, x) == \E q \in queued : q.for = x /\ q.key = key /\ q.run = n

\* A run that may still complete has called for everyone it found.
Promised(w) ==
  Holds(w) /\ scan[w].pc = "all" /\ ~scan[w].rejected =>
    \A x \in firing[scan[w].key].found :
      \/ Queued(scan[w].key, scan[w].run, x)
      \/ \E c \in CallsOf(w) : c.for = x

Inv ==
  /\ Shaped /\ Scheduled /\ Broken
  /\ (\A w \in Process : ScanOK(w)) /\ Once
  /\ \A w \in Process : Promised(w)
  /\ CompletedLeavesNoneOut

-----------------------------------------------------------------------------
(* Lemmas *)

LEMMA Keys == Registered \subseteq Key
  BY DEF Registered, Key

LEMMA KnownKeeps ==
  ASSUME NEW key, NEW n, Known(key, n), Shaped, Shaped',
         \A k \in Key : firing'[k].starts >= firing[k].starts
  PROVE Known(key, n)'
  <1>1. key \in Key /\ firing[key].starts \in Nat /\ firing'[key].starts \in Nat
    BY Keys DEF Known, Shaped, Firing
  <1>2. QED
    BY <1>1 DEF Known

\* No firing changes but that of key, and no run of it is found to hold its
\* lock that did not before.
Settled(key) ==
  /\ \A k \in Key : k # key => firing'[k] = firing[k]
  /\ firing'[key].starts = firing[key].starts
  /\ firing'[key].st # "active"
  /\ firing[key].st \notin {"none", "completed"} /\ firing'[key].st # "none"

\* A firing is settled: nothing else happens, but that runs end.
LEMMA Settles ==
  ASSUME Inv, NEW key \in Key, Shaped', Settled(key),
         \A n \in firing[key].broken : n \in firing'[key].broken,
         \/ firing[key].starts \in firing'[key].broken
         \/ firing'[key].st = "completed",
         \A w \in Process : scan'[w] = scan[w] \/ scan'[w] = NoScan,
         UNCHANGED <<config, schedule, calls, queued>>,
         firing'[key].st = "completed" =>
           \A x \in firing'[key].found : Queued(key, firing[key].starts, x)
  PROVE Inv'
  <1>1. \A k \in Key : firing'[k].starts = firing[k].starts /\ firing[k].starts \in Nat
    BY DEF Settled, Inv, Shaped, Firing
  <1>2. \A k, n : Known(k, n)' <=> Known(k, n)
    BY <1>1, Keys DEF Known
  <1>3. Scheduled'
    BY DEF Inv, Scheduled, Settled
  <1>4. Broken'
    <2>1. ASSUME NEW k \in Key, NEW n \in 1 .. firing[k].starts
          PROVE \/ n \in firing'[k].broken
                \/ n = firing[k].starts /\ firing'[k].st \in {"active", "completed"}
      BY <2>1 DEF Inv, Broken, Settled
    <2>2. QED
      BY <1>1, <2>1 DEF Broken
  <1>5. \A w \in Process : ScanOK(w)'
    <2>1. ASSUME NEW w \in Process PROVE ScanOK(w)'
      <3>1. CASE scan'[w] = scan[w]
        BY <1>2, <3>1 DEF Inv, ScanOK
      <3>2. CASE scan'[w] = NoScan
        BY <3>2 DEF ScanOK, NoScan
      <3>3. QED
        BY <3>1, <3>2
    <2>2. QED
      BY <2>1
  <1>6. Once'
    <2>1. \A w \in Process : scan'[w].pc # "idle" => scan'[w] = scan[w]
      BY DEF NoScan
    <2>2. QED
      BY <1>2, <2>1 DEF Inv, Once, Same
  <1>7. \A w \in Process : Promised(w)'
    <2>1. ASSUME NEW w \in Process, Holds(w)', scan'[w].pc = "all" /\ ~scan'[w].rejected
          PROVE (\A x \in firing[scan[w].key].found :
                   \/ Queued(scan[w].key, scan[w].run, x)
                   \/ \E c \in CallsOf(w) : c.for = x)'
      <3>1. scan'[w] = scan[w]
        BY <2>1 DEF NoScan
      <3>2. scan[w].key \in Key
        BY <2>1, <3>1, Keys DEF Inv, ScanOK, Known
      <3>3. scan[w].key # key
        BY <2>1, <3>1 DEF Settled, Holds
      <3>4. firing'[scan[w].key] = firing[scan[w].key]
        BY <3>2, <3>3 DEF Settled
      <3>5. Holds(w)
        BY <2>1, <3>1, <3>4 DEF Holds
      <3>6. CallsOf(w)' = CallsOf(w)
        BY <3>1 DEF CallsOf
      <3>7. \A x \in firing[scan[w].key].found :
              Queued(scan[w].key, scan[w].run, x) \/ \E c \in CallsOf(w) : c.for = x
        BY <2>1, <3>1, <3>5 DEF Inv, Promised
      <3>8. QED
        BY <3>1, <3>4, <3>6, <3>7 DEF Queued
    <2>2. QED
      BY <2>1 DEF Promised
  <1>8. CompletedLeavesNoneOut'
    <2>1. ASSUME NEW k \in Key, firing'[k].st = "completed", NEW x \in firing'[k].found
          PROVE \E q \in queued : q.for = x /\ q.key = k /\ q.run = firing'[k].starts
      <3>1. CASE k = key
        BY <1>1, <2>1, <3>1 DEF Queued
      <3>2. CASE k # key
        BY <2>1, <3>2 DEF Settled, Inv, CompletedLeavesNoneOut
      <3>3. QED
        BY <3>1, <3>2
    <2>2. QED
      BY <2>1 DEF CompletedLeavesNoneOut
  <1>9. QED
    BY <1>3, <1>4, <1>5, <1>6, <1>7, <1>8 DEF Inv

\* Runs end, or processes; no firing changes.
LEMMA Dropped ==
  ASSUME Inv, firing' = firing, queued' = queued, schedule' = schedule,
         config' \in [Process -> Pattern], Shaped',
         \A w \in Process :
           \/ scan'[w] = NoScan
           \/ scan'[w] = scan[w] /\ \A c \in calls : c.by = w => c \in calls',
         calls' \subseteq calls
  PROVE Inv'
  <1>1. \A k, n : Known(k, n)' <=> Known(k, n)
    BY DEF Known
  <1>2. Scheduled' /\ Broken' /\ CompletedLeavesNoneOut'
    BY DEF Inv, Scheduled, Broken, CompletedLeavesNoneOut
  <1>3. \A w \in Process : ScanOK(w)'
    <2>1. ASSUME NEW w \in Process PROVE ScanOK(w)'
      <3>1. CASE scan'[w] = scan[w]
        BY <1>1, <3>1 DEF Inv, ScanOK
      <3>2. CASE scan'[w] = NoScan
        BY <3>2 DEF ScanOK, NoScan
      <3>3. QED
        BY <3>1, <3>2
    <2>2. QED
      BY <2>1
  <1>4. Once'
    <2>1. \A w \in Process : scan'[w].pc # "idle" => scan'[w] = scan[w]
      BY DEF NoScan
    <2>2. QED
      BY <1>1, <2>1 DEF Inv, Once, Same
  <1>5. \A w \in Process : Promised(w)'
    <2>1. ASSUME NEW w \in Process, Holds(w)', scan'[w].pc = "all" /\ ~scan'[w].rejected
          PROVE (\A x \in firing[scan[w].key].found :
                   \/ Queued(scan[w].key, scan[w].run, x)
                   \/ \E c \in CallsOf(w) : c.for = x)'
      <3>1. scan'[w] = scan[w] /\ \A c \in calls : c.by = w => c \in calls'
        BY <2>1 DEF NoScan
      <3>2. CallsOf(w) \subseteq CallsOf(w)'
        BY <3>1 DEF CallsOf
      <3>3. Holds(w)
        BY <2>1, <3>1 DEF Holds
      <3>4. \A x \in firing[scan[w].key].found :
              Queued(scan[w].key, scan[w].run, x) \/ \E c \in CallsOf(w) : c.for = x
        BY <2>1, <3>1, <3>3 DEF Inv, Promised
      <3>5. QED
        BY <3>1, <3>2, <3>4 DEF Queued
    <2>2. QED
      BY <2>1 DEF Promised
  <1>6. QED
    BY <1>2, <1>3, <1>4, <1>5 DEF Inv

-----------------------------------------------------------------------------
(* The actions *)

LEMMA RegisterKeeps ==
  ASSUME Inv, NEW w \in Process, Register(w)
  PROVE Inv'
  <1>1. schedule' \subseteq Registered /\ schedule \subseteq schedule'
    BY DEF Inv, Scheduled, Register, ScheduleKey, Registered
  <1>2. UNCHANGED <<config, firing, scan, calls, queued>>
    BY DEF Register
  <1>3. Scheduled'
    BY <1>1, <1>2 DEF Inv, Scheduled
  <1>4. Shaped' /\ Broken' /\ CompletedLeavesNoneOut'
    BY <1>2 DEF Inv, Shaped, Broken, CompletedLeavesNoneOut
  <1>5. (\A v \in Process : ScanOK(v)') /\ Once'
    BY <1>2 DEF Inv, ScanOK, Once, Same, Known
  <1>6. \A v \in Process : Promised(v)'
    BY <1>2 DEF Inv, Promised, Holds, CallsOf, Queued
  <1>7. QED
    BY <1>3, <1>4, <1>5, <1>6 DEF Inv

LEMMA FireKeeps ==
  ASSUME Inv, NEW key \in Key, Fire(key)
  PROVE Inv'
  <1>1. PICK f : f = [firing[key] EXCEPT !.st = "waiting"]
    OBVIOUS
  <1>2. firing' = [firing EXCEPT ![key] = f]
    BY <1>1 DEF Fire
  <1>3. f \in Firing /\ f.st = "waiting" /\ f.starts = firing[key].starts
        /\ f.broken = firing[key].broken
    BY <1>1 DEF Inv, Shaped, Firing
  <1>4. UNCHANGED <<config, schedule, scan, calls, queued>> /\ key \in schedule
    BY DEF Fire
  <1>5. /\ \A k \in Key : k # key => firing'[k] = firing[k]
        /\ firing'[key] = f
    BY <1>2 DEF Inv, Shaped
  <1>6. Shaped'
    BY <1>2, <1>3, <1>4 DEF Inv, Shaped
  <1>7. Scheduled'
    BY <1>3, <1>4, <1>5 DEF Inv, Scheduled
  <1>8. \A k, n : Known(k, n)' <=> Known(k, n)
    BY <1>3, <1>5, Keys DEF Known
  <1>9. Broken'
    <2>1. firing[key].st = "none"
      BY DEF Fire
    <2>2. \A n \in 1 .. firing[key].starts : n \in firing[key].broken
      BY <2>1 DEF Inv, Broken
    <2>3. QED
      BY <1>3, <1>5, <2>2 DEF Inv, Broken
  <1>10. (\A v \in Process : ScanOK(v)') /\ Once'
    BY <1>4, <1>8 DEF Inv, ScanOK, Once, Same
  <1>11. \A v \in Process : Promised(v)'
    <2>1. ASSUME NEW v \in Process, Holds(v)', scan[v].pc = "all"
          PROVE firing'[scan[v].key] = firing[scan[v].key] /\ Holds(v)
      <3>1. scan[v].key \in Key
        BY <2>1, Keys DEF Inv, ScanOK, Known
      <3>2. scan[v].key # key
        BY <1>3, <1>4, <1>5, <2>1 DEF Holds
      <3>3. QED
        BY <1>4, <1>5, <2>1, <3>1, <3>2 DEF Holds
    <2>2. QED
      BY <1>4, <2>1 DEF Inv, Promised, CallsOf, Queued
  <1>12. CompletedLeavesNoneOut'
    BY <1>3, <1>4, <1>5 DEF Inv, CompletedLeavesNoneOut
  <1>13. QED
    BY <1>6, <1>7, <1>9, <1>10, <1>11, <1>12 DEF Inv

LEMMA RestartKeeps ==
  ASSUME Inv, NEW w \in Process, NEW p \in Pattern, Restart(w, p)
  PROVE Inv'
  <1>1. NoScan \in Scan
    BY DEF NoScan, Scan
  <1>2. /\ firing' = firing /\ queued' = queued /\ schedule' = schedule
        /\ calls' \subseteq calls /\ scan'[w] = NoScan
        /\ \A v \in Process : v # w => scan'[v] = scan[v]
        /\ \A c \in calls : c.by # w => c \in calls'
    BY DEF Restart, Inv, Shaped
  <1>3. config' \in [Process -> Pattern]
    BY DEF Restart, Inv, Scheduled
  <1>4. Shaped'
    BY <1>1, <1>2 DEF Restart, Inv, Shaped
  <1>5. QED
    BY <1>2, <1>3, <1>4, Dropped

LEMMA TakeKeeps ==
  ASSUME Inv, NEW w \in Process, NEW key \in Key, Take(w, key)
  PROVE Inv'
  <1>1. PICK f : f = [firing[key] EXCEPT !.st = "active", !.owner = w, !.starts = firing[key].starts + 1]
    OBVIOUS
  <1>2. PICK s : s = [NoScan EXCEPT !.pc = "find", !.key = key, !.run = firing[key].starts + 1]
    OBVIOUS
  <1>3. firing' = [firing EXCEPT ![key] = f]
    BY <1>1 DEF Take
  <1>4. scan' = [scan EXCEPT ![w] = s]
    BY <1>2 DEF Take
  <1>5. firing[key] \in Firing /\ firing[key].starts \in Nat
    BY DEF Inv, Shaped, Firing
  <1>6. /\ f \in Firing /\ f.st = "active" /\ f.starts = firing[key].starts + 1
        /\ f.broken = firing[key].broken
    <2>1. PICK n \in Nat : n = firing[key].starts + 1
      BY <1>5
    <2>2. f = [firing[key] EXCEPT !.st = "active", !.owner = w, !.starts = n]
      BY <1>1, <2>1
    <2>3. f \in Firing
      BY <1>5, <2>2 DEF Firing
    <2>4. f.st = "active" /\ f.starts = n /\ f.broken = firing[key].broken
      BY <1>5, <2>2 DEF Firing
    <2>5. QED
      BY <2>1, <2>3, <2>4
  <1>7. s \in Scan /\ s.pc = "find" /\ s.key = key /\ s.run = firing[key].starts + 1 /\ ~s.rejected
    <2>1. PICK n \in Nat : n = firing[key].starts + 1
      BY <1>5
    <2>2. s = [pc |-> "find", key |-> key, run |-> n, rejected |-> FALSE]
      BY <1>2, <2>1 DEF NoScan
    <2>3. s \in Scan
      BY <2>2 DEF Scan
    <2>4. QED
      BY <2>1, <2>2, <2>3
  <1>8. /\ UNCHANGED <<config, schedule, calls, queued>>
        /\ scan[w] = NoScan /\ firing[key].st = "waiting"
    BY DEF Take
  <1>9. /\ \A k \in Key : k # key => firing'[k] = firing[k]
        /\ firing'[key] = f
        /\ \A v \in Process : v # w => scan'[v] = scan[v]
        /\ scan'[w] = s
    BY <1>3, <1>4 DEF Inv, Shaped
  <1>10. Shaped'
    BY <1>3, <1>4, <1>6, <1>7, <1>8 DEF Inv, Shaped
  <1>11. Scheduled' /\ key \in Registered
    BY <1>8, <1>9 DEF Inv, Scheduled
  <1>12. \A k, n : Known(k, n) => Known(k, n)' /\ ~(k = key /\ n = s.run)
    <2>1. \A k \in Key : firing'[k].starts >= firing[k].starts
      <3>1. \A k \in Key : firing[k].starts \in Nat
        BY DEF Inv, Shaped, Firing
      <3>2. QED
        BY <1>6, <1>9, <3>1
    <2>2. \A k, n : Known(k, n) => Known(k, n)'
      BY <1>10, <2>1, KnownKeeps DEF Inv
    <2>3. \A n : Known(key, n) => n # s.run
      BY <1>5, <1>7 DEF Known
    <2>4. QED
      BY <2>2, <2>3
  <1>13. Known(key, s.run)'
    BY <1>5, <1>6, <1>7, <1>9, <1>11 DEF Known
  <1>14. Broken'
    <2>1. \A n \in 1 .. firing[key].starts : n \in firing[key].broken
      BY <1>8 DEF Inv, Broken
    <2>2. \A n \in 1 .. f.starts : n \in f.broken \/ n = f.starts
      BY <1>5, <1>6, <2>1
    <2>3. QED
      BY <1>6, <1>9, <2>2 DEF Inv, Broken
  <1>15. \A v \in Process : ScanOK(v)'
    <2>1. ASSUME NEW v \in Process, v # w PROVE ScanOK(v)'
      BY <1>8, <1>9, <1>12, <2>1 DEF Inv, ScanOK
    <2>2. ScanOK(w)'
      <3>1. \A c \in calls \cup queued : c.key = key => c.run # s.run
        BY <1>12 DEF Inv, Once
      <3>2. QED
        BY <1>7, <1>8, <1>9, <1>13, <3>1 DEF ScanOK
    <2>3. QED
      BY <2>1, <2>2
  <1>16. Once'
    <2>1. \A v \in Process : v # w /\ scan[v].pc # "idle" => ~(scan[v].key = key /\ scan[v].run = s.run)
      BY <1>12 DEF Inv, ScanOK
    <2>2. \A u, v \in Process :
            /\ scan'[u].pc # "idle" /\ scan'[v].pc # "idle"
            /\ scan'[u].key = scan'[v].key /\ scan'[u].run = scan'[v].run
            => u = v
      BY <1>7, <1>9, <2>1 DEF Inv, Once
    <2>3. QED
      BY <1>8, <1>12, <2>2 DEF Inv, Once, Same
  <1>17. \A v \in Process : Promised(v)'
    <2>1. Promised(w)'
      BY <1>7, <1>9 DEF Promised
    <2>2. ASSUME NEW v \in Process, v # w, Holds(v)', scan[v].pc = "all"
          PROVE firing'[scan[v].key] = firing[scan[v].key] /\ Holds(v)
      <3>1. scan[v].key \in Key /\ ~(scan[v].key = key /\ scan[v].run = s.run)
        BY <1>12, <2>2, Keys DEF Inv, ScanOK, Known
      <3>2. scan[v].key # key
        BY <1>6, <1>7, <1>9, <2>2, <3>1 DEF Holds
      <3>3. QED
        BY <1>9, <2>2, <3>1, <3>2 DEF Holds
    <2>3. QED
      BY <1>8, <1>9, <2>1, <2>2 DEF Inv, Promised, CallsOf, Queued
  <1>18. CompletedLeavesNoneOut'
    BY <1>6, <1>8, <1>9 DEF Inv, CompletedLeavesNoneOut
  <1>19. QED
    BY <1>10, <1>11, <1>14, <1>15, <1>16, <1>17, <1>18 DEF Inv

LEMMA FindKeeps ==
  ASSUME Inv, NEW w \in Process, Find(w)
  PROVE Inv'
  <1>1. PICK key, n, found, step :
          /\ key = scan[w].key /\ n = scan[w].run
          /\ found = IF kind = "daily" THEN DueTasks ELSE User
          /\ step = IF kind = "daily" THEN "add" ELSE "count"
    OBVIOUS
  <1>2. PICK new : new = {[by |-> w, key |-> key, run |-> n, for |-> x, step |-> step] : x \in found}
    OBVIOUS
  <1>3. /\ scan[w].pc = "find" /\ Known(key, n) /\ key \in Key /\ n \in Nat
        /\ \A c \in calls \cup queued : c.key = key => c.run # n
    <2>1. scan[w].pc = "find" /\ ScanOK(w) /\ scan[w] \in Scan
      BY DEF Find, Inv, Shaped
    <2>2. QED
      BY <1>1, <2>1, Keys DEF ScanOK, Known, Scan
  <1>4. found \subseteq Subject /\ step \in {"add", "count"}
    BY <1>1 DEF Subject, DueTasks
  <1>5. calls' = calls \cup new
    BY <1>1, <1>2 DEF Find
  <1>6. firing' = IF Holds(w) THEN [firing EXCEPT ![key].found = found] ELSE firing
    BY <1>1 DEF Find
  <1>7. PICK s : s = [scan[w] EXCEPT !.pc = "all"]
    OBVIOUS
  <1>8. s \in Scan /\ s.pc = "all" /\ s.key = key /\ s.run = n /\ s.rejected = scan[w].rejected
    BY <1>1, <1>7 DEF Inv, Shaped, Scan
  <1>9. scan' = [scan EXCEPT ![w] = s] /\ UNCHANGED <<config, schedule, queued>>
    BY <1>7 DEF Find
  <1>10. scan'[w] = s /\ \A v \in Process : v # w => scan'[v] = scan[v]
    BY <1>9 DEF Inv, Shaped
  <1>11. PICK f : f = IF Holds(w) THEN [firing[key] EXCEPT !.found = found] ELSE firing[key]
    OBVIOUS
  <1>12. f \in Firing /\ \A x \in {"st", "owner", "starts", "broken"} : f[x] = firing[key][x]
    <2>1. firing[key] \in Firing
      BY <1>3 DEF Inv, Shaped
    <2>2. CASE Holds(w)
      <3>1. f = [firing[key] EXCEPT !.found = found]
        BY <1>11, <2>2
      <3>2. QED
        BY <1>4, <2>1, <3>1 DEF Firing
    <2>3. CASE ~Holds(w)
      BY <1>11, <2>1, <2>3
    <2>4. QED
      BY <2>2, <2>3
  <1>13. firing' = [firing EXCEPT ![key] = f]
    BY <1>6, <1>11, <1>3 DEF Inv, Shaped
  <1>14. /\ \A k \in Key : k # key => firing'[k] = firing[k]
         /\ firing'[key] = f /\ f.st = firing[key].st /\ f.owner = firing[key].owner
         /\ f.starts = firing[key].starts /\ f.broken = firing[key].broken
    BY <1>3, <1>12, <1>13 DEF Inv, Shaped
  <1>15. \A c \in new : c \in Call /\ c.by = w /\ c.key = key /\ c.run = n
    <2>1. ASSUME NEW x \in found
          PROVE [by |-> w, key |-> key, run |-> n, for |-> x, step |-> step] \in Call
      BY <1>3, <1>4, <2>1 DEF Call
    <2>2. QED
      BY <1>2, <2>1
  <1>16. \A c, d \in new : c.for = d.for => c = d
    BY <1>2
  <1>17. Shaped'
    BY <1>5, <1>8, <1>9, <1>12, <1>13, <1>15 DEF Inv, Shaped
  <1>18. Scheduled' /\ Broken'
    BY <1>9, <1>14 DEF Inv, Scheduled, Broken
  <1>19. \A k, m : Known(k, m)' <=> Known(k, m)
    BY <1>14, Keys DEF Known
  <1>20. \A v \in Process : ScanOK(v)'
    <2>1. ASSUME NEW v \in Process, v # w PROVE ScanOK(v)'
      <3>1. scan[v].pc = "find" => ~(scan[v].key = key /\ scan[v].run = n)
        BY <1>1, <1>3, <2>1 DEF Inv, Once
      <3>2. scan[v].pc = "find" => \A c \in new : c.key = scan[v].key => c.run # scan[v].run
        BY <1>15, <3>1
      <3>3. QED
        BY <1>5, <1>9, <1>10, <1>19, <2>1, <3>2 DEF Inv, ScanOK
    <2>2. ScanOK(w)'
      BY <1>3, <1>8, <1>10, <1>19 DEF Inv, ScanOK
    <2>3. QED
      BY <2>1, <2>2
  <1>21. Once'
    <2>1. \A c \in new, d \in calls \cup queued : ~Same(c, d)
      BY <1>3, <1>15 DEF Same
    <2>2. \A c, d \in new : Same(c, d) => c = d
      BY <1>16 DEF Same
    <2>3. \A c, d \in calls' : Same(c, d) => c = d
      <3>1. \A c, d : Same(c, d) => Same(d, c)
        BY DEF Same
      <3>2. QED
        BY <1>5, <2>1, <2>2, <3>1 DEF Inv, Once
    <2>4. \A c \in calls' \cup queued' : Known(c.key, c.run)'
      BY <1>3, <1>5, <1>9, <1>15, <1>19 DEF Inv, Once
    <2>5. \A c \in calls', d \in queued' : ~Same(c, d)
      BY <1>5, <1>9, <2>1 DEF Inv, Once
    <2>6. \A u, v \in Process :
            /\ scan'[u].pc # "idle" /\ scan'[v].pc # "idle"
            /\ scan'[u].key = scan'[v].key /\ scan'[u].run = scan'[v].run
            => u = v
      BY <1>1, <1>3, <1>8, <1>10 DEF Inv, Once
    <2>7. QED
      BY <1>9, <2>3, <2>4, <2>5, <2>6 DEF Inv, Once, Same
  <1>22. \A v \in Process : Promised(v)'
    <2>1. ASSUME NEW v \in Process, v # w, Holds(v)', scan[v].pc = "all" /\ ~scan[v].rejected
          PROVE (\A x \in firing[scan[v].key].found :
                   \/ Queued(scan[v].key, scan[v].run, x)
                   \/ \E c \in CallsOf(v) : c.for = x)'
      <3>1. scan'[v] = scan[v] /\ scan[v].key \in Key
        BY <1>10, <2>1, Keys DEF Inv, ScanOK, Known
      <3>2. Holds(v)
        BY <1>14, <2>1, <3>1 DEF Holds
      <3>3. Holds(w) => scan[v].key # key
        BY <1>1, <2>1, <3>2 DEF Holds
      <3>4. firing'[scan[v].key] = firing[scan[v].key]
        BY <1>11, <1>14, <3>1, <3>3
      <3>5. CallsOf(v) \subseteq CallsOf(v)'
        BY <1>5, <3>1 DEF CallsOf
      <3>6. \A x \in firing[scan[v].key].found :
              Queued(scan[v].key, scan[v].run, x) \/ \E c \in CallsOf(v) : c.for = x
        BY <2>1, <3>2 DEF Inv, Promised
      <3>7. QED
        BY <1>9, <3>1, <3>4, <3>5, <3>6 DEF Queued
    <2>2. Holds(w)' => f.found = found
      <3>1. Holds(w)' => Holds(w)
        BY <1>1, <1>8, <1>10, <1>14 DEF Holds
      <3>2. firing[key] \in Firing
        BY <1>3 DEF Inv, Shaped
      <3>3. Holds(w) => f = [firing[key] EXCEPT !.found = found]
        BY <1>11
      <3>4. [firing[key] EXCEPT !.found = found].found = found
        BY <3>2 DEF Firing
      <3>5. QED
        BY <3>1, <3>3, <3>4
    <2>3. \A x \in found : \E c \in CallsOf(w)' : c.for = x
      <3>1. ASSUME NEW x \in found
            PROVE \E c \in new : c.for = x
        <4>1. PICK c : c = [by |-> w, key |-> key, run |-> n, for |-> x, step |-> step]
          OBVIOUS
        <4>2. c \in new
          BY <1>2, <3>1, <4>1
        <4>3. c.for = x
          BY <4>1
        <4>4. QED
          BY <4>2, <4>3
      <3>2. new \subseteq CallsOf(w)'
        BY <1>5, <1>8, <1>10, <1>15 DEF CallsOf
      <3>3. QED
        BY <3>1, <3>2
    <2>4. Promised(w)'
      BY <1>8, <1>10, <1>14, <2>2, <2>3 DEF Promised
    <2>5. ASSUME NEW v \in Process, v # w PROVE Promised(v)'
      BY <1>10, <2>1, <2>5 DEF Promised
    <2>6. QED
      BY <2>4, <2>5
  <1>23. CompletedLeavesNoneOut'
    <2>1. firing[key].st = "completed" => f = firing[key]
      BY <1>1, <1>11 DEF Holds
    <2>2. \A k \in Key : firing'[k].st = "completed" => firing'[k] = firing[k]
      BY <1>14, <2>1
    <2>3. QED
      BY <1>9, <2>2 DEF Inv, CompletedLeavesNoneOut
  <1>24. QED
    BY <1>17, <1>18, <1>20, <1>21, <1>22, <1>23 DEF Inv

\* A call is answered: it makes way for the next one, or for what it has put on
\* the queue, or its run is rejected.
LEMMA Answers ==
  ASSUME Inv, NEW c \in calls, NEW d \in Call, NEW q \in Item,
         Same(d, c), d.by = c.by, Same(q, c),
         UNCHANGED <<config, schedule, firing>>,
         scan' = scan \/ (c \in CallsOf(c.by) /\ scan' = [scan EXCEPT ![c.by].rejected = TRUE]),
         \/ calls' = (calls \ {c}) \cup {d} /\ queued' = queued
         \/ calls' = calls \ {c} /\ queued' = queued \cup {q}
         \/ calls' = calls \ {c} /\ queued' = queued
            /\ (c \in CallsOf(c.by) => scan' = [scan EXCEPT ![c.by].rejected = TRUE])
  PROVE Inv'
  <1>1. c \in Call /\ c.by \in Process /\ scan[c.by] \in Scan
    BY DEF Inv, Shaped, Call
  <1>2. PICK s : s = [scan[c.by] EXCEPT !.rejected = TRUE]
    OBVIOUS
  <1>3. s \in Scan /\ s.pc = scan[c.by].pc /\ s.key = scan[c.by].key /\ s.run = scan[c.by].run /\ s.rejected
    BY <1>1, <1>2 DEF Scan
  <1>4. scan' = scan \/ (c \in CallsOf(c.by) /\ scan' = [scan EXCEPT ![c.by] = s])
    BY <1>2
  <1>5. /\ \A w \in Process : w # c.by => scan'[w] = scan[w]
        /\ scan'[c.by] = scan[c.by] \/ (c \in CallsOf(c.by) /\ scan'[c.by] = s)
    BY <1>1, <1>4 DEF Inv, Shaped
  <1>6. \A w \in Process :
          scan'[w].pc = scan[w].pc /\ scan'[w].key = scan[w].key /\ scan'[w].run = scan[w].run
    BY <1>3, <1>5
  <1>7. Shaped'
    <2>1. scan' \in [Process -> Scan]
      BY <1>1, <1>3, <1>4 DEF Inv, Shaped
    <2>2. calls' \subseteq Call /\ queued' \subseteq Item
      BY DEF Inv, Shaped
    <2>3. QED
      BY <2>1, <2>2 DEF Inv, Shaped
  <1>8. Scheduled' /\ Broken'
    BY DEF Inv, Scheduled, Broken
  <1>9. \A k, m : Known(k, m)' <=> Known(k, m)
    BY DEF Known
  <1>10. /\ \A x \in calls' : x \in calls \/ x = d
         /\ \A x \in queued' : x \in queued \/ x = q
         /\ queued \subseteq queued'
         /\ c # d => c \notin calls'
    OBVIOUS
  <1>11. c \in CallsOf(c.by) => scan[c.by].pc = "all"
    <2>1. ASSUME c \in CallsOf(c.by) PROVE scan[c.by].pc = "all"
      <3>1. c.key = scan[c.by].key /\ c.run = scan[c.by].run /\ Known(c.key, c.run)
        BY <2>1 DEF CallsOf, Inv, Once
      <3>2. scan[c.by].pc # "find"
        BY <1>1, <3>1 DEF Inv, ScanOK
      <3>3. scan[c.by].pc # "idle"
        <4>1. ScanOK(c.by) /\ c.run # 0
          BY <1>1, <3>1 DEF Inv, Known
        <4>2. QED
          BY <3>1, <4>1 DEF ScanOK, NoScan
      <3>4. QED
        BY <1>1, <3>2, <3>3 DEF Scan
    <2>2. QED
      BY <2>1
  <1>12. \A w \in Process : ScanOK(w)'
    <2>1. ASSUME NEW w \in Process PROVE ScanOK(w)'
      <3>1. scan[w].pc = "idle" => scan'[w] = NoScan
        BY <1>5, <1>11, <2>1 DEF Inv, ScanOK
      <3>2. scan'[w].rejected => scan'[w].pc = "all"
        BY <1>5, <1>3, <1>11, <2>1 DEF Inv, ScanOK
      <3>3. scan[w].pc = "find" =>
              \A x \in calls' \cup queued' : x.key = scan[w].key => x.run # scan[w].run
        <4>1. scan[w].pc = "find" =>
                \A x \in calls \cup queued : x.key = scan[w].key => x.run # scan[w].run
          BY <2>1 DEF Inv, ScanOK
        <4>2. QED
          BY <1>10, <4>1 DEF Same
      <3>4. scan[w].pc # "idle" => Known(scan[w].key, scan[w].run)
        BY <2>1 DEF Inv, ScanOK
      <3>5. QED
        BY <1>6, <1>9, <3>1, <3>2, <3>3, <3>4, <2>1 DEF ScanOK
    <2>2. QED
      BY <2>1
  <1>13. Once'
    <2>1. \A x, y : Same(x, y) => Same(y, x)
      BY DEF Same
    <2>2. \A x, y, z : Same(x, y) /\ Same(y, z) => Same(x, z)
      BY DEF Same
    <2>3. \A x \in calls : Same(x, c) => x = c
      BY DEF Inv, Once
    <2>4. \A x \in queued : ~Same(x, c)
      BY <2>1 DEF Inv, Once
    <2>5. \A x \in calls' : Same(x, d) => x = d
      BY <1>10, <2>2, <2>3
    <2>6. \A x, y \in calls' : Same(x, y) => x = y
      <3>1. \A x, y \in calls : Same(x, y) => x = y
        BY DEF Inv, Once
      <3>2. QED
        BY <1>10, <2>1, <2>5, <3>1
    <2>7. \A x \in queued : ~Same(x, q) /\ ~Same(x, d)
      BY <2>2, <2>4
    <2>8. \A x, y \in queued' : Same(x, y) => x = y
      <3>1. \A x, y \in queued : Same(x, y) => x = y
        BY DEF Inv, Once
      <3>2. QED
        BY <1>10, <2>1, <2>7, <3>1
    <2>9. \A x \in calls', y \in queued' : ~Same(x, y)
      <3>1. \A x \in calls, y \in queued : ~Same(x, y)
        BY DEF Inv, Once
      <3>2. CASE queued' = queued
        BY <1>10, <2>1, <2>7, <3>1, <3>2
      <3>3. CASE calls' = calls \ {c} /\ queued' = queued \cup {q}
        <4>1. \A x \in calls' : x \in calls /\ ~Same(x, q)
          BY <2>2, <2>3, <3>3
        <4>2. QED
          BY <3>1, <3>3, <4>1
      <3>4. QED
        BY <3>2, <3>3
    <2>10. \A x \in calls' \cup queued' : Known(x.key, x.run)'
      <3>1. \A x \in calls \cup queued : Known(x.key, x.run)
        BY DEF Inv, Once
      <3>2. Known(d.key, d.run) /\ Known(q.key, q.run)
        BY <3>1 DEF Same
      <3>3. QED
        BY <1>9, <1>10, <3>1, <3>2
    <2>11. \A v, w \in Process :
             /\ scan'[v].pc # "idle" /\ scan'[w].pc # "idle"
             /\ scan'[v].key = scan'[w].key /\ scan'[v].run = scan'[w].run
             => v = w
      BY <1>6 DEF Inv, Once
    <2>12. QED
      BY <2>6, <2>8, <2>9, <2>10, <2>11 DEF Once, Same
  <1>14. \A w \in Process : Promised(w)'
    <2>1. ASSUME NEW w \in Process, Holds(w)', scan'[w].pc = "all" /\ ~scan'[w].rejected
          PROVE (\A x \in firing[scan[w].key].found :
                   \/ Queued(scan[w].key, scan[w].run, x)
                   \/ \E e \in CallsOf(w) : e.for = x)'
      <3>1. scan'[w] = scan[w]
        BY <1>3, <1>5, <2>1
      <3>2. Holds(w)
        BY <2>1, <3>1 DEF Holds
      <3>3. \A x \in firing[scan[w].key].found :
              Queued(scan[w].key, scan[w].run, x) \/ \E e \in CallsOf(w) : e.for = x
        BY <2>1, <3>1, <3>2 DEF Inv, Promised
      <3>4. ASSUME NEW x, Queued(scan[w].key, scan[w].run, x)
            PROVE Queued(scan[w].key, scan[w].run, x)'
        BY <1>10, <3>1, <3>4 DEF Queued
      <3>5. ASSUME NEW e \in CallsOf(w), e # c PROVE e \in CallsOf(w)'
        BY <3>1, <3>5 DEF CallsOf
      <3>6. ASSUME c \in CallsOf(w)
            PROVE Queued(scan[w].key, scan[w].run, c.for)' \/ \E e \in CallsOf(w)' : e.for = c.for
        <4>1. c.by = w /\ c.key = scan[w].key /\ c.run = scan[w].run
          BY <3>6 DEF CallsOf
        <4>2. CASE calls' = (calls \ {c}) \cup {d} /\ queued' = queued
          <5>1. d \in CallsOf(w)' /\ d.for = c.for
            BY <3>1, <4>1, <4>2 DEF CallsOf, Same
          <5>2. QED
            BY <5>1
        <4>3. CASE calls' = calls \ {c} /\ queued' = queued \cup {q}
          BY <3>1, <4>1, <4>3 DEF Queued, Same
        <4>4. CASE c \in CallsOf(c.by) => scan' = [scan EXCEPT ![c.by].rejected = TRUE]
          <5>1. scan' = [scan EXCEPT ![c.by] = s] /\ w = c.by
            BY <1>2, <3>6, <4>1, <4>4
          <5>2. scan'[w].rejected
            BY <1>1, <1>3, <5>1 DEF Inv, Shaped
          <5>3. QED
            BY <2>1, <5>2
        <4>5. QED
          BY <4>2, <4>3, <4>4
      <3>7. QED
        BY <3>1, <3>3, <3>4, <3>5, <3>6
    <2>2. QED
      BY <2>1 DEF Promised
  <1>15. CompletedLeavesNoneOut'
    BY <1>10 DEF Inv, CompletedLeavesNoneOut
  <1>16. QED
    BY <1>7, <1>8, <1>12, <1>13, <1>14, <1>15 DEF Inv

LEMMA CountKeeps ==
  ASSUME Inv, NEW c \in calls, Count(c)
  PROVE Inv'
  <1>1. c \in Call /\ c.step = "count"
    BY DEF Inv, Shaped, Count
  <1>2. PICK d : d = [c EXCEPT !.step = "add"]
    OBVIOUS
  <1>3. d \in Call /\ Same(d, c) /\ d.by = c.by
    BY <1>1, <1>2 DEF Call, Same
  <1>4. PICK q : q = [Stored(c) EXCEPT !.skip = TRUE]
    OBVIOUS
  <1>5. q \in Item /\ Same(q, c)
    BY <1>1, <1>4 DEF Call, Same, Stored, Item
  <1>6. /\ UNCHANGED <<config, schedule, firing, scan>>
        /\ \/ calls' = (calls \ {c}) \cup {d} /\ queued' = queued
           \/ calls' = calls \ {c} /\ queued' = queued \cup {q}
    BY <1>2, <1>4 DEF Count
  <1>7. QED
    BY <1>3, <1>5, <1>6, Answers

LEMMA AddKeeps ==
  ASSUME Inv, NEW c \in calls, Add(c)
  PROVE Inv'
  <1>1. c \in Call
    BY DEF Inv, Shaped
  <1>2. Stored(c) \in Item /\ Same(Stored(c), c) /\ Same(c, c)
    BY <1>1 DEF Call, Same, Stored, Item
  <1>3. /\ UNCHANGED <<config, schedule, firing, scan>>
        /\ calls' = calls \ {c} /\ queued' = queued \cup {Stored(c)}
    BY DEF Add
  <1>4. QED
    BY <1>1, <1>2, <1>3, Answers

LEMMA RejectKeeps ==
  ASSUME Inv, NEW c \in calls, NEW taken \in BOOLEAN, Reject(c, taken)
  PROVE Inv'
  <1>1. c \in Call
    BY DEF Inv, Shaped
  <1>2. Stored(c) \in Item /\ Same(Stored(c), c) /\ Same(c, c)
    BY <1>1 DEF Call, Same, Stored, Item
  <1>3. /\ UNCHANGED <<config, schedule, firing>> /\ calls' = calls \ {c}
        /\ queued' = queued \/ queued' = queued \cup {Stored(c)}
        /\ scan' = scan \/ (c \in CallsOf(c.by) /\ scan' = [scan EXCEPT ![c.by].rejected = TRUE])
    BY DEF Reject
  <1>4. c \in CallsOf(c.by) => scan' = [scan EXCEPT ![c.by].rejected = TRUE]
    BY DEF Reject
  <1>5. QED
    BY <1>1, <1>2, <1>3, <1>4, Answers

\* Nothing of a firing changes that runs look at, and the lock is given up.
LEMMA CompleteKeeps ==
  ASSUME Inv, NEW w \in Process, Complete(w)
  PROVE Inv'
  <1>1. /\ UNCHANGED <<config, schedule, calls, queued>>
        /\ scan' = [scan EXCEPT ![w] = NoScan] /\ NoScan \in Scan
    BY DEF Complete, NoScan, Scan
  <1>2. scan' \in [Process -> Scan] /\ \A v \in Process : scan'[v] = scan[v] \/ scan'[v] = NoScan
    BY <1>1 DEF Inv, Shaped
  <1>3. CASE ~Holds(w)
    <2>1. firing' = firing
      BY <1>3 DEF Complete
    <2>2. Shaped' /\ config' \in [Process -> Pattern]
      BY <1>1, <1>2, <2>1 DEF Inv, Shaped, Scheduled
    <2>3. QED
      BY <1>1, <1>2, <2>1, <2>2, Dropped
  <1>4. CASE Holds(w)
    <2>1. PICK key : key = scan[w].key
      OBVIOUS
    <2>2. /\ scan[w].pc = "all" /\ ~scan[w].rejected /\ CallsOf(w) = {}
          /\ key \in Key /\ firing[key] \in Firing
          /\ firing[key].st = "active" /\ firing[key].starts = scan[w].run
      BY <1>4, <2>1, Keys DEF Complete, Answered, Holds, Inv, ScanOK, Known, Shaped
    <2>3. PICK f : f = [firing[key] EXCEPT !.st = "completed", !.owner = None]
      OBVIOUS
    <2>4. firing' = [firing EXCEPT ![key] = f]
      BY <1>4, <2>1, <2>3 DEF Complete
    <2>5. /\ f \in Firing /\ f.st = "completed" /\ f.starts = firing[key].starts
          /\ f.broken = firing[key].broken /\ f.found = firing[key].found
      BY <2>2, <2>3 DEF Firing
    <2>6. firing'[key] = f /\ \A k \in Key : k # key => firing'[k] = firing[k]
      BY <2>2, <2>4 DEF Inv, Shaped
    <2>7. Shaped'
      BY <1>1, <1>2, <2>4, <2>5 DEF Inv, Shaped
    <2>8. \A x \in f.found : Queued(key, firing[key].starts, x)
      BY <1>4, <2>1, <2>2, <2>5 DEF Inv, Promised
    <2>9. Settled(key)
      BY <2>2, <2>5, <2>6 DEF Settled
    <2>10. QED
      BY <1>1, <1>2, <2>2, <2>5, <2>6, <2>7, <2>8, <2>9, Settles
  <1>5. QED
    BY <1>3, <1>4

LEMMA ThrowKeeps ==
  ASSUME Inv, NEW w \in Process, Throw(w)
  PROVE Inv'
  <1>1. /\ UNCHANGED <<config, schedule, calls, queued>>
        /\ scan' = [scan EXCEPT ![w] = NoScan] /\ NoScan \in Scan
    BY DEF Throw, NoScan, Scan
  <1>2. scan' \in [Process -> Scan] /\ \A v \in Process : scan'[v] = scan[v] \/ scan'[v] = NoScan
    BY <1>1 DEF Inv, Shaped
  <1>3. CASE ~Holds(w)
    <2>1. firing' = firing
      BY <1>3 DEF Throw
    <2>2. Shaped' /\ config' \in [Process -> Pattern]
      BY <1>1, <1>2, <2>1 DEF Inv, Shaped, Scheduled
    <2>3. QED
      BY <1>1, <1>2, <2>1, <2>2, Dropped
  <1>4. CASE Holds(w)
    <2>1. PICK key, n : key = scan[w].key /\ n = scan[w].run
      OBVIOUS
    <2>2. scan[w].pc # "idle"
      BY DEF Throw, Inv, ScanOK
    <2>3. /\ key \in Key /\ firing[key] \in Firing /\ n \in Nat
          /\ firing[key].st = "active" /\ firing[key].starts = n
      BY <1>4, <2>1, <2>2, Keys DEF Holds, Inv, ScanOK, Known, Shaped, Scan
    <2>4. PICK st \in {"waiting", "failed"}, made \in Nat, broken \in SUBSET Nat :
            /\ st = IF firing[key].made + 1 < Attempts THEN "waiting" ELSE "failed"
            /\ made = firing[key].made + 1
            /\ broken = firing[key].broken \cup {n}
      <3>1. firing[key].made + 1 \in Nat
        BY <2>3 DEF Firing
      <3>2. \E st \in {"waiting", "failed"} :
              st = IF firing[key].made + 1 < Attempts THEN "waiting" ELSE "failed"
        OBVIOUS
      <3>3. firing[key].broken \cup {n} \in SUBSET Nat
        BY <2>3 DEF Firing
      <3>4. QED
        BY <3>1, <3>2, <3>3
    <2>5. PICK f : f = [firing[key] EXCEPT !.st = st, !.owner = None, !.made = made, !.broken = broken]
      OBVIOUS
    <2>6. firing' = [firing EXCEPT ![key] = f]
      BY <1>4, <2>1, <2>4, <2>5 DEF Throw
    <2>7. f \in Firing /\ f.st = st /\ f.starts = firing[key].starts /\ f.broken = broken
      <3>1. broken \in SUBSET Nat
        BY <2>3, <2>4 DEF Firing
      <3>2. f \in Firing
        BY <2>3, <2>5, <3>1 DEF Firing
      <3>3. f.st = st /\ f.broken = broken
        BY <2>3, <2>5 DEF Firing
      <3>4. f.starts = firing[key].starts
        BY <2>3, <2>5 DEF Firing
      <3>5. QED
        BY <3>2, <3>3, <3>4
    <2>8. firing'[key] = f /\ \A k \in Key : k # key => firing'[k] = firing[k]
      BY <2>3, <2>6 DEF Inv, Shaped
    <2>9. Shaped'
      BY <1>1, <1>2, <2>6, <2>7 DEF Inv, Shaped
    <2>10. Settled(key)
      BY <2>3, <2>4, <2>7, <2>8 DEF Settled
    <2>11. QED
      BY <1>1, <1>2, <2>3, <2>4, <2>7, <2>8, <2>9, <2>10, Settles
  <1>5. QED
    BY <1>3, <1>4

LEMMA StallKeeps ==
  ASSUME Inv, NEW key \in Key, Stall(key)
  PROVE Inv'
  <1>1. UNCHANGED <<config, schedule, scan, calls, queued>> /\ firing[key].st = "active"
    BY DEF Stall
  <1>2. firing[key] \in Firing
    BY DEF Inv, Shaped
  <1>3. PICK st \in {"waiting", "failed"}, stalled \in Nat, broken \in SUBSET Nat :
          /\ st = IF firing[key].stalled < MaxStalled THEN "waiting" ELSE "failed"
          /\ stalled = firing[key].stalled + 1
          /\ broken = firing[key].broken \cup {firing[key].starts}
    <2>1. firing[key].stalled + 1 \in Nat
      BY <1>2 DEF Firing
    <2>2. \E st \in {"waiting", "failed"} :
            st = IF firing[key].stalled < MaxStalled THEN "waiting" ELSE "failed"
      OBVIOUS
    <2>3. firing[key].broken \cup {firing[key].starts} \in SUBSET Nat
      BY <1>2 DEF Firing
    <2>4. QED
      BY <2>1, <2>2, <2>3
  <1>4. PICK f : f = [firing[key] EXCEPT !.st = st, !.owner = None, !.stalled = stalled, !.broken = broken]
    OBVIOUS
  <1>5. firing' = [firing EXCEPT ![key] = f]
    BY <1>3, <1>4 DEF Stall
  <1>6. f \in Firing /\ f.st = st /\ f.starts = firing[key].starts /\ f.broken = broken
    <2>1. broken \in SUBSET Nat
      BY <1>2, <1>3 DEF Firing
    <2>2. f \in Firing
      BY <1>2, <1>4, <2>1 DEF Firing
    <2>3. f.st = st /\ f.broken = broken
      BY <1>2, <1>4 DEF Firing
    <2>4. f.starts = firing[key].starts
      BY <1>2, <1>4 DEF Firing
    <2>5. QED
      BY <2>2, <2>3, <2>4
  <1>7. firing'[key] = f /\ \A k \in Key : k # key => firing'[k] = firing[k]
    BY <1>5 DEF Inv, Shaped
  <1>8. Shaped'
    BY <1>1, <1>5, <1>6 DEF Inv, Shaped
  <1>9. Settled(key)
    BY <1>1, <1>3, <1>6, <1>7 DEF Settled
  <1>10. QED
    BY <1>1, <1>3, <1>6, <1>7, <1>8, <1>9, Settles

LEMMA Unmoved ==
  ASSUME Inv, UNCHANGED <<config, schedule, firing, scan, calls, queued>>
  PROVE Inv'
  <1>1. Shaped' /\ config' \in [Process -> Pattern]
    BY DEF Inv, Shaped, Scheduled
  <1>2. QED
    BY <1>1, Dropped

LEMMA Begins == Init => Inv
  <1> SUFFICES ASSUME Init PROVE Inv
    OBVIOUS
  <1>1. firing \in [Key -> Firing] /\ \A key \in Key : firing[key] = NoFiring
    BY DEF Init, NoFiring, Firing
  <1>2. scan \in [Process -> Scan] /\ \A w \in Process : scan[w] = NoScan
    BY DEF Init, NoScan, Scan
  <1>3. calls = {} /\ queued = {} /\ schedule = {} /\ config \in [Process -> Pattern]
    BY DEF Init
  <1>4. NoFiring.st = "none" /\ NoFiring.starts = 0
    BY DEF NoFiring
  <1>5. NoScan.pc = "idle" /\ NoScan.rejected = FALSE
    BY DEF NoScan
  <1>6. Shaped /\ Scheduled
    BY <1>1, <1>2, <1>3, <1>4 DEF Shaped, Scheduled
  <1>7. Broken /\ CompletedLeavesNoneOut
    BY <1>1, <1>4 DEF Broken, CompletedLeavesNoneOut
  <1>8. (\A w \in Process : ScanOK(w)) /\ Once
    BY <1>2, <1>3, <1>5 DEF ScanOK, Once
  <1>9. \A w \in Process : Promised(w)
    BY <1>2, <1>5 DEF Promised
  <1>10. QED
    BY <1>6, <1>7, <1>8, <1>9 DEF Inv

LEMMA NextKeeps == Inv /\ [Next]_vars => Inv'
  <1> SUFFICES ASSUME Inv, [Next]_vars PROVE Inv'
    OBVIOUS
  <1>1. ASSUME NEW w \in Process, Register(w) \/ Find(w) \/ Complete(w) \/ Throw(w)
        PROVE Inv'
    BY <1>1, RegisterKeeps, FindKeeps, CompleteKeeps, ThrowKeeps
  <1>2. ASSUME NEW w \in Process, NEW p \in Pattern, Restart(w, p) PROVE Inv'
    BY <1>2, RestartKeeps
  <1>3. ASSUME NEW w \in Process, NEW key \in Key, Take(w, key) PROVE Inv'
    BY <1>3, TakeKeeps
  <1>4. ASSUME NEW key \in Key, Fire(key) \/ Stall(key) PROVE Inv'
    BY <1>4, FireKeeps, StallKeeps
  <1>5. ASSUME NEW c \in calls, Count(c) \/ Add(c) PROVE Inv'
    BY <1>5, CountKeeps, AddKeeps
  <1>6. ASSUME NEW c \in calls, NEW taken \in BOOLEAN, Reject(c, taken) PROVE Inv'
    BY <1>6, RejectKeeps
  <1>7. ASSUME NEW k \in Task, NEW done \in BOOLEAN, NEW a \in User \cup {None},
               ChangeTask(k, done, a)
        PROVE Inv'
    BY <1>7, Unmoved DEF ChangeTask
  <1>8. CASE UNCHANGED vars
    BY <1>8, Unmoved DEF vars
  <1>9. QED
    BY <1>1, <1>2, <1>3, <1>4, <1>5, <1>6, <1>7, <1>8 DEF Next

-----------------------------------------------------------------------------
(* The theorems *)

\* The invariant holds in every behaviour.
THEOREM InvHolds == Spec => []Inv
  BY Begins, NextKeeps, PTL DEF Spec

\* However many processes register, run, retry and stall, nobody is notified
\* twice in a period but by a repeated run or a second pattern
\* (queue-scheduler.service, daily-reminder and weekly-summary processors).
THEOREM OncePerPeriod == Spec => []TwiceOnlyIfRepeated
  <1>1. ASSUME Inv PROVE TwiceOnlyIfRepeated
    <2>1. SUFFICES ASSUME NEW a \in queued, NEW b \in queued, a # b, a.for = b.for,
                          a.key[1] = b.key[1]
                   PROVE a.key = b.key /\ \E n \in firing[a.key].broken : n \in {a.run, b.run}
      BY DEF TwiceOnlyIfRepeated
    <2>2. Known(a.key, a.run) /\ Known(b.key, b.run)
      BY <1>1 DEF Inv, Once
    <2>3. a.key = b.key
      BY <2>1, <2>2 DEF Known, Registered
    <2>4. a.run # b.run
      BY <1>1, <2>1, <2>3 DEF Inv, Once, Same
    <2>5. PICK key : key = a.key
      OBVIOUS
    <2>6. key \in Key /\ a.run \in 1 .. firing[key].starts /\ b.run \in 1 .. firing[key].starts
      BY <2>2, <2>3, <2>5, Keys DEF Known
    <2>7. \A n \in 1 .. firing[key].starts : n \in firing[key].broken \/ n = firing[key].starts
      BY <1>1, <2>6 DEF Inv, Broken
    <2>8. a.run \in firing[key].broken \/ b.run \in firing[key].broken
      BY <2>4, <2>6, <2>7
    <2>9. QED
      BY <2>3, <2>5, <2>8
  <1>2. QED
    BY <1>1, InvHolds, PTL

\* A job that has completed left nobody out whom its last run found
\* (Promise.all of the processors).
THEOREM NoneLeftOut == Spec => []CompletedLeavesNoneOut
  <1>1. Inv => CompletedLeavesNoneOut
    BY DEF Inv
  <1>2. QED
    BY <1>1, InvHolds, PTL

=============================================================================
