--------------------------- MODULE ContentsProofs ---------------------------
(***************************************************************************)
(* Proofs about Contents, and with it Tenancy: for any rows, users and     *)
(* number of requests, interleaved at every await, nobody writes rows he   *)
(* is not entitled to, the tree of rows stays whole, tenants keep their    *)
(* owners, and files, audit rows and invitations say what happened.        *)
(***************************************************************************)
EXTENDS Contents, TLAPS

-----------------------------------------------------------------------------
(* The lists of awaits *)

Await == {"guard", "before", "role", "member", "task", "within", "comment",
          "attachment", "slug", "name", "upload", "stream", "insert", "write",
          "delete", "upsert", "audit"}

\* The awaits of every route come in this order.
Place ==
  [a \in Await |->
    CASE a = "guard" -> 0 [] a = "before" -> 1 [] a \in {"role", "member", "task"} -> 2
      [] a \in {"within", "comment", "attachment", "slug", "name"} -> 3
      [] a \in {"upload", "stream"} -> 4
      [] a \in {"insert", "write", "delete", "upsert"} -> 5 [] OTHER -> 6]

Left(s) == {s[i] : i \in DOMAIN s}

Ordered(s) ==
  /\ s \in Seq(Await)
  /\ \A i, j \in DOMAIN s : i < j => Place[s[i]] < Place[s[j]]

LEMMA Places ==
  /\ \A a \in Await : Place[a] \in 0 .. 6
  /\ Place["guard"] = 0 /\ Place["before"] = 1
  /\ \A a \in {"role", "member", "task"} : Place[a] = 2
  /\ \A a \in {"within", "comment", "attachment", "slug", "name"} : Place[a] = 3
  /\ \A a \in {"upload", "stream"} : Place[a] = 4
  /\ \A a \in {"insert", "write", "delete", "upsert"} : Place[a] = 5
  /\ Place["audit"] = 6
  BY DEF Place, Await

\* Working off the first await leaves the others, which come after it.
LEMMA TailLeft ==
  ASSUME NEW s, Ordered(s), s # <<>>
  PROVE /\ Head(s) \in Left(s) /\ Ordered(Tail(s)) /\ Tail(s) # s
        /\ Left(Tail(s)) = Left(s) \ {Head(s)}
        /\ \A a \in Left(Tail(s)) : Place[Head(s)] < Place[a]
  <1>1. s \in Seq(Await) /\ Len(s) \in Nat \ {0} /\ Head(s) = s[1]
    BY DEF Ordered
  <1>2. /\ Tail(s) \in Seq(Await) /\ Len(Tail(s)) = Len(s) - 1
        /\ \A i \in 1 .. Len(s) - 1 : Tail(s)[i] = s[i + 1]
    BY <1>1
  <1>3. Ordered(Tail(s))
    BY <1>1, <1>2 DEF Ordered
  <1>4. \A a \in Left(Tail(s)) : a \in Left(s) /\ Place[Head(s)] < Place[a]
    <2>1. ASSUME NEW i \in DOMAIN Tail(s)
          PROVE Tail(s)[i] \in Left(s) /\ Place[Head(s)] < Place[Tail(s)[i]]
      <3>1. i \in 1 .. Len(s) - 1 /\ i + 1 \in DOMAIN s /\ 1 \in DOMAIN s /\ 1 < i + 1
        BY <1>1, <1>2
      <3>2. Tail(s)[i] = s[i + 1]
        BY <1>2, <3>1
      <3>3. QED
        BY <1>1, <3>1, <3>2 DEF Ordered, Left
    <2>2. QED
      BY <2>1 DEF Left
  <1>5. \A a \in Left(s) : a = Head(s) \/ a \in Left(Tail(s))
    <2>1. ASSUME NEW i \in DOMAIN s, i # 1 PROVE s[i] \in Left(Tail(s))
      <3>1. i - 1 \in DOMAIN Tail(s) /\ Tail(s)[i - 1] = s[i]
        BY <1>1, <1>2, <2>1
      <3>2. QED
        BY <3>1 DEF Left
    <2>2. QED
      BY <1>1, <2>1 DEF Left
  <1>6. Head(s) \in Left(s) /\ Head(s) \in Await
    BY <1>1 DEF Left
  <1>7. Head(s) \notin Left(Tail(s))
    BY <1>4, <1>6, Places
  <1>8. QED
    BY <1>1, <1>2, <1>3, <1>4, <1>5, <1>6, <1>7

LEMMA ConcatLeft ==
  ASSUME NEW s, NEW t, Ordered(s), Ordered(t),
         \A a \in Left(s), b \in Left(t) : Place[a] < Place[b]
  PROVE Ordered(s \o t) /\ Left(s \o t) = Left(s) \cup Left(t)
  <1>1. s \in Seq(Await) /\ t \in Seq(Await) /\ Len(s) \in Nat /\ Len(t) \in Nat
    BY DEF Ordered
  <1>2. /\ s \o t \in Seq(Await) /\ DOMAIN (s \o t) = 1 .. Len(s) + Len(t)
        /\ \A i \in 1 .. Len(s) : (s \o t)[i] = s[i]
        /\ \A i \in 1 .. Len(t) : (s \o t)[Len(s) + i] = t[i]
    BY <1>1
  <1>3. \A i \in 1 .. Len(s) + Len(t) : i \in 1 .. Len(s) \/ \E j \in 1 .. Len(t) : i = Len(s) + j
    <2>1. ASSUME NEW i \in 1 .. Len(s) + Len(t), i \notin 1 .. Len(s)
          PROVE i - Len(s) \in 1 .. Len(t) /\ i = Len(s) + (i - Len(s))
      BY <1>1, <2>1
    <2>2. QED
      BY <2>1
  <1>4. Left(s \o t) = Left(s) \cup Left(t)
    <2>1. Left(s \o t) \subseteq Left(s) \cup Left(t)
      BY <1>1, <1>2, <1>3 DEF Left
    <2>2. Left(s) \subseteq Left(s \o t)
      <3>1. ASSUME NEW i \in DOMAIN s PROVE s[i] \in Left(s \o t)
        <4>1. i \in DOMAIN (s \o t) /\ (s \o t)[i] = s[i]
          BY <1>1, <1>2
        <4>2. QED
          BY <4>1 DEF Left
      <3>2. QED
        BY <3>1 DEF Left
    <2>3. Left(t) \subseteq Left(s \o t)
      <3>1. ASSUME NEW i \in DOMAIN t PROVE t[i] \in Left(s \o t)
        <4>1. Len(s) + i \in DOMAIN (s \o t) /\ (s \o t)[Len(s) + i] = t[i]
          BY <1>1, <1>2
        <4>2. QED
          BY <4>1 DEF Left
      <3>2. QED
        BY <3>1 DEF Left
    <2>4. QED
      BY <2>1, <2>2, <2>3
  <1>5. ASSUME NEW i \in DOMAIN (s \o t), NEW j \in DOMAIN (s \o t), i < j
        PROVE Place[(s \o t)[i]] < Place[(s \o t)[j]]
    <2>1. CASE j \in 1 .. Len(s)
      BY <1>1, <1>2, <1>5, <2>1 DEF Ordered
    <2>2. CASE i \in 1 .. Len(s) /\ j \notin 1 .. Len(s)
      <3>1. PICK k \in 1 .. Len(t) : j = Len(s) + k
        BY <1>2, <1>3, <2>2
      <3>2. (s \o t)[i] = s[i] /\ (s \o t)[j] = t[k] /\ i \in DOMAIN s /\ k \in DOMAIN t
        BY <1>1, <1>2, <2>2, <3>1
      <3>3. QED
        BY <3>2 DEF Left
    <2>3. CASE i \notin 1 .. Len(s) /\ j \notin 1 .. Len(s)
      <3>1. PICK h \in 1 .. Len(t) : i = Len(s) + h
        BY <1>2, <1>3, <2>3
      <3>2. PICK k \in 1 .. Len(t) : j = Len(s) + k
        BY <1>2, <1>3, <2>3
      <3>3. (s \o t)[i] = t[h] /\ (s \o t)[j] = t[k] /\ h < k
        <4>1. h < k
          BY <1>1, <1>5, <3>1, <3>2
        <4>2. QED
          BY <1>2, <3>1, <3>2, <4>1
      <3>4. h \in DOMAIN t /\ k \in DOMAIN t
        BY <1>1
      <3>5. QED
        BY <3>3, <3>4 DEF Ordered
    <2>4. QED
      BY <2>1, <2>2, <2>3
  <1>6. QED
    BY <1>2, <1>4, <1>5 DEF Ordered

LEMMA ShortLists ==
  /\ Ordered(<<>>) /\ Left(<<>>) = {}
  /\ \A a \in Await : Ordered(<<a>>) /\ Left(<<a>>) = {a}
  /\ \A a, b \in Await :
       Place[a] < Place[b] => Ordered(<<a, b>>) /\ Left(<<a, b>>) = {a, b}
  /\ \A a, b, c \in Await :
       Place[a] < Place[b] /\ Place[b] < Place[c] =>
         Ordered(<<a, b, c>>) /\ Left(<<a, b, c>>) = {a, b, c}
  <1>1. Ordered(<<>>) /\ Left(<<>>) = {}
    BY DEF Ordered, Left
  <1>2. ASSUME NEW a \in Await PROVE Ordered(<<a>>) /\ Left(<<a>>) = {a}
    <2>1. <<a>> \in Seq(Await) /\ DOMAIN <<a>> = 1 .. 1 /\ <<a>>[1] = a
      OBVIOUS
    <2>2. Ordered(<<a>>)
      BY <2>1 DEF Ordered
    <2>3. QED
      BY <2>1, <2>2 DEF Left
  <1>3. ASSUME NEW a \in Await, NEW b \in Await, Place[a] < Place[b]
        PROVE Ordered(<<a, b>>) /\ Left(<<a, b>>) = {a, b}
    <2>1. /\ <<a, b>> \in Seq(Await) /\ DOMAIN <<a, b>> = {1, 2}
          /\ <<a, b>>[1] = a /\ <<a, b>>[2] = b
      OBVIOUS
    <2>2. Ordered(<<a, b>>)
      BY <1>3, <2>1 DEF Ordered
    <2>3. QED
      BY <2>1, <2>2 DEF Left
  <1>4. ASSUME NEW a \in Await, NEW b \in Await, NEW c \in Await,
               Place[a] < Place[b], Place[b] < Place[c]
        PROVE Ordered(<<a, b, c>>) /\ Left(<<a, b, c>>) = {a, b, c}
    <2>1. /\ <<a, b, c>> \in Seq(Await) /\ DOMAIN <<a, b, c>> = {1, 2, 3}
          /\ <<a, b, c>>[1] = a /\ <<a, b, c>>[2] = b /\ <<a, b, c>>[3] = c
      OBVIOUS
    <2>2. Place[a] < Place[c]
      BY <1>4, Places
    <2>3. Ordered(<<a, b, c>>)
      BY <1>4, <2>1, <2>2 DEF Ordered
    <2>4. QED
      BY <2>1, <2>3 DEF Left
  <1>5. QED
    BY <1>1, <1>2, <1>3, <1>4

\* The awaits of a route are those of its service, with the guard and the
\* interceptor's before and after them.
LEMMA RouteAwaits ==
  ASSUME NEW route, NEW service,
         Ordered(route.guard), Left(route.guard) \subseteq {"guard"},
         route.log \in {"row", "result", "nothing"},
         Ordered(service), \A a \in Left(service) : Place[a] \in 2 .. 5
  PROVE /\ Ordered(Awaits(route, service))
        /\ Left(Awaits(route, service)) =
             Left(route.guard)
               \cup (IF route.log = "row" THEN {"before"} ELSE {}) \cup Left(service)
               \cup (IF route.log = "nothing" THEN {} ELSE {"audit"})
  <1> DEFINE before == IF route.log = "row" THEN <<"before">> ELSE <<>>
             after == IF route.log = "nothing" THEN <<>> ELSE <<"audit">>
             Befores == IF route.log = "row" THEN {"before"} ELSE {}
             Afters == IF route.log = "nothing" THEN {} ELSE {"audit"}
  <1>1. "before" \in Await /\ "audit" \in Await
    BY DEF Await
  <1>2. /\ Ordered(before) /\ Left(before) = Befores
        /\ Ordered(after) /\ Left(after) = Afters
    BY <1>1, ShortLists
  <1> HIDE DEF before, after, Befores, Afters
  <1>3. /\ Ordered(route.guard \o before)
        /\ Left(route.guard \o before) = Left(route.guard) \cup Befores
    BY <1>2, ConcatLeft, Places DEF Befores
  <1>4. /\ Ordered(route.guard \o before \o service)
        /\ Left(route.guard \o before \o service) =
             Left(route.guard) \cup Befores \cup Left(service)
    BY <1>3, ConcatLeft, Places DEF Befores
  <1>5. /\ Ordered(route.guard \o before \o service \o after)
        /\ Left(route.guard \o before \o service \o after) =
             Left(route.guard) \cup Befores \cup Left(service) \cup Afters
    BY <1>2, <1>4, ConcatLeft, Places DEF Befores, Afters
  <1>6. Awaits(route, service) = route.guard \o before \o service \o after
    BY DEF Awaits, before, after
  <1>7. QED
    BY <1>5, <1>6 DEF Befores, Afters

-----------------------------------------------------------------------------
(* What the tables of routes promise *)

Writing(L) == "write" \in L \/ "delete" \in L

\* What the awaits left of a request of a kind and operation can be.
Plan(kind, op, L) ==
  /\ "insert" \in L =>
       /\ op = "create"
       /\ L \cap {"before", "within", "comment", "attachment", "name",
                  "stream", "write", "delete", "upsert"} = {}
  /\ Writing(L) =>
       L \cap {"member", "slug", "name", "upload", "stream", "insert", "upsert"} = {}
  /\ "write" \in L => op \in {"update", "archive", "remove", "restore"}
  /\ "delete" \in L => kind \in {"org", "ws", "project"} /\ op = "remove"
  /\ "upsert" \in L => kind \in {"org", "ws"} /\ op = "inviteMember"
  /\ "role" \in L /\ Writing(L) => kind \in {"org", "ws"}
  /\ "guard" \in L /\ Writing(L) => kind \in {"org", "ws", "project"}
  /\ "before" \in L => Writing(L)
  /\ "task" \in L => kind \in {"comment", "attachment"}
  /\ "task" \in L /\ Writing(L) /\ kind = "attachment" => "attachment" \in L
  /\ "name" \in L => kind = "org" /\ "upsert" \in L
  /\ "attachment" \in L => kind = "attachment"
  /\ "upload" \in L => kind = "attachment" /\ "insert" \in L
  /\ "stream" \in L => kind = "attachment" /\ op = "download"
  /\ kind = "comment" =>
       L \subseteq {"guard", "before", "task", "comment", "insert", "write", "audit"}
  /\ kind = "comment" /\ Writing(L) /\ "comment" \notin L => L \subseteq {"write", "audit"}

\* No route writes before it has checked, announces before it has read, or
\* stores a row before its file.
Checks(kind, L) ==
  /\ Writing(L) => "guard" \in L \/ "role" \in L \/ "task" \in L
  /\ kind = "project" /\ Writing(L) => "within" \in L
  /\ kind = "comment" /\ Writing(L) => "comment" \in L
  /\ kind = "attachment" /\ Writing(L) => "attachment" \in L
  /\ kind = "org" /\ "upsert" \in L => "name" \in L
  /\ kind = "attachment" /\ "insert" \in L => "upload" \in L
  /\ "stream" \in L => "attachment" \in L

\* route and service are what the tables say of operation op of a kind.
Promised(kind, op, route, service) ==
  /\ Ordered(Awaits(route, service)) /\ Awaits(route, service) # <<>>
  /\ Plan(kind, op, Left(Awaits(route, service)))
  /\ Checks(kind, Left(Awaits(route, service)))
  /\ route.min \in Role

LEMMA Awaitable ==
  /\ "guard" \in Await
  /\ {"role", "member", "task"} \subseteq Await
  /\ {"within", "comment", "attachment", "slug", "name", "upload", "stream"} \subseteq Await
  /\ {"insert", "write", "delete", "upsert"} \subseteq Await
  /\ Place["upload"] = 4 /\ Place["stream"] = 4
  BY Places DEF Await

LEMMA GuardLists ==
  /\ Ordered(<<>>) /\ Left(<<>>) = {}
  /\ Ordered(<<"guard">>) /\ Left(<<"guard">>) = {"guard"}
  BY ShortLists, Awaitable

LEMMA RouteShapes ==
  ASSUME NEW route, NEW service, Ordered(service),
         \A a \in Left(service) : Place[a] \in 2 .. 5
  PROVE /\ Ordered(Awaits(route, service))
             \/ route.guard \notin {<<>>, <<"guard">>} \/ route.log \notin {"row", "result", "nothing"}
        /\ route.guard = <<>> /\ route.log = "nothing" =>
             Left(Awaits(route, service)) = Left(service)
        /\ route.guard = <<"guard">> /\ route.log = "result" =>
             Left(Awaits(route, service)) = {"guard"} \cup Left(service) \cup {"audit"}
        /\ route.guard = <<"guard">> /\ route.log = "row" =>
             Left(Awaits(route, service)) = {"guard"} \cup {"before"} \cup Left(service) \cup {"audit"}
        /\ route.guard = <<>> /\ route.log = "row" =>
             Left(Awaits(route, service)) = {"before"} \cup Left(service) \cup {"audit"}
  <1>1. CASE route.guard = <<>> /\ route.log \in {"row", "result", "nothing"}
    <2>1. /\ Ordered(Awaits(route, service))
          /\ Left(Awaits(route, service)) =
               {} \cup (IF route.log = "row" THEN {"before"} ELSE {}) \cup Left(service)
                  \cup (IF route.log = "nothing" THEN {} ELSE {"audit"})
      BY <1>1, RouteAwaits, GuardLists
    <2>2. {"guard"} # {}
      OBVIOUS
    <2>3. <<>> # <<"guard">>
      BY <2>2, GuardLists
    <2>4. QED
      BY <1>1, <2>1, <2>3
  <1>2. CASE route.guard = <<"guard">> /\ route.log \in {"row", "result", "nothing"}
    <2>1. /\ Ordered(Awaits(route, service))
          /\ Left(Awaits(route, service)) =
               {"guard"} \cup (IF route.log = "row" THEN {"before"} ELSE {}) \cup Left(service)
                  \cup (IF route.log = "nothing" THEN {} ELSE {"audit"})
      BY <1>2, RouteAwaits, GuardLists
    <2>2. {"guard"} # {}
      OBVIOUS
    <2>3. <<>> # <<"guard">>
      BY <2>2, GuardLists
    <2>4. QED
      BY <1>2, <2>1, <2>3
  <1>3. QED
    BY <1>1, <1>2

LEMMA OrganizationRoutes ==
  ASSUME NEW op \in DOMAIN OrganizationsService
  PROVE Promised("org", op, OrganizationsController[op], OrganizationsService[op])
  <1> DEFINE route == OrganizationsController[op]
             service == OrganizationsService[op]
             todo == Awaits(route, service)
  <1> HIDE DEF route, service
  <1>1. CASE op = "create"
    <2>1. /\ service = <<"slug", "insert">> /\ route.log = "nothing" /\ route.min \in Role
          /\ route.guard = <<>>
      BY <1>1 DEF OrganizationsService, OrganizationsController, Guarded, Open,
         Role, ROLE_HIERARCHY, route, service
    <2>2. /\ Ordered(service) /\ Left(service) = {"slug", "insert"}
          /\ \A a \in Left(service) : Place[a] \in 2 .. 5
      BY <2>1, ShortLists, Awaitable, Places
    <2>3. Ordered(todo) /\ Left(todo) = Left(service)
      BY <2>1, <2>2, RouteShapes
    <2>4. QED
      BY <1>1, <2>1, <2>2, <2>3, GuardLists
         DEF Promised, Plan, Checks, Writing, route, service
  <1>2. CASE op \in {"update", "archive"}
    <2>1. /\ service = <<"role", "write">> /\ route.log = "row" /\ route.min \in Role
          /\ route.guard = <<"guard">>
      BY <1>2 DEF OrganizationsService, OrganizationsController, Guarded, Open,
         Role, ROLE_HIERARCHY, route, service
    <2>2. /\ Ordered(service) /\ Left(service) = {"role", "write"}
          /\ \A a \in Left(service) : Place[a] \in 2 .. 5
      BY <2>1, ShortLists, Awaitable, Places
    <2>3. Ordered(todo) /\ Left(todo) = {"guard"} \cup {"before"} \cup Left(service) \cup {"audit"}
      BY <2>1, <2>2, RouteShapes
    <2>4. QED
      BY <1>2, <2>1, <2>2, <2>3, GuardLists
         DEF Promised, Plan, Checks, Writing, route, service
  <1>3. CASE op = "remove"
    <2>1. /\ service = <<"role", "delete">> /\ route.log = "row" /\ route.min \in Role
          /\ route.guard = <<"guard">>
      BY <1>3 DEF OrganizationsService, OrganizationsController, Guarded, Open,
         Role, ROLE_HIERARCHY, route, service
    <2>2. /\ Ordered(service) /\ Left(service) = {"role", "delete"}
          /\ \A a \in Left(service) : Place[a] \in 2 .. 5
      BY <2>1, ShortLists, Awaitable, Places
    <2>3. Ordered(todo) /\ Left(todo) = {"guard"} \cup {"before"} \cup Left(service) \cup {"audit"}
      BY <2>1, <2>2, RouteShapes
    <2>4. QED
      BY <1>3, <2>1, <2>2, <2>3, GuardLists
         DEF Promised, Plan, Checks, Writing, route, service
  <1>4. CASE op = "inviteMember"
    <2>1. /\ service = <<"role", "name", "upsert">> /\ route.log = "result" /\ route.min \in Role
          /\ route.guard = <<"guard">>
      BY <1>4 DEF OrganizationsService, OrganizationsController, Guarded, Open,
         Role, ROLE_HIERARCHY, route, service
    <2>2. /\ Ordered(service) /\ Left(service) = {"role", "name", "upsert"}
          /\ \A a \in Left(service) : Place[a] \in 2 .. 5
      BY <2>1, ShortLists, Awaitable, Places
    <2>3. Ordered(todo) /\ Left(todo) = {"guard"} \cup Left(service) \cup {"audit"}
      BY <2>1, <2>2, RouteShapes
    <2>4. QED
      BY <1>4, <2>1, <2>2, <2>3, GuardLists
         DEF Promised, Plan, Checks, Writing, route, service
  <1>5. QED
    BY <1>1, <1>2, <1>3, <1>4 DEF OrganizationsService

LEMMA WorkspaceRoutes ==
  ASSUME NEW op \in DOMAIN WorkspacesService
  PROVE Promised("ws", op, WorkspacesController[op], WorkspacesService[op])
  <1> DEFINE route == WorkspacesController[op]
             service == WorkspacesService[op]
             todo == Awaits(route, service)
  <1> HIDE DEF route, service
  <1>1. CASE op = "create"
    <2>1. /\ service = <<"role", "slug", "insert">> /\ route.log = "nothing" /\ route.min \in Role
          /\ route.guard = <<>>
      BY <1>1 DEF WorkspacesService, WorkspacesController, Guarded, Open,
         Role, ROLE_HIERARCHY, route, service
    <2>2. /\ Ordered(service) /\ Left(service) = {"role", "slug", "insert"}
          /\ \A a \in Left(service) : Place[a] \in 2 .. 5
      BY <2>1, ShortLists, Awaitable, Places
    <2>3. Ordered(todo) /\ Left(todo) = Left(service)
      BY <2>1, <2>2, RouteShapes
    <2>4. QED
      BY <1>1, <2>1, <2>2, <2>3, GuardLists
         DEF Promised, Plan, Checks, Writing, route, service
  <1>2. CASE op \in {"update", "archive"}
    <2>1. /\ service = <<"write">> /\ route.log = "row" /\ route.min \in Role
          /\ route.guard = <<"guard">>
      BY <1>2 DEF WorkspacesService, WorkspacesController, Guarded, Open,
         Role, ROLE_HIERARCHY, route, service
    <2>2. /\ Ordered(service) /\ Left(service) = {"write"}
          /\ \A a \in Left(service) : Place[a] \in 2 .. 5
      BY <2>1, ShortLists, Awaitable, Places
    <2>3. Ordered(todo) /\ Left(todo) = {"guard"} \cup {"before"} \cup Left(service) \cup {"audit"}
      BY <2>1, <2>2, RouteShapes
    <2>4. QED
      BY <1>2, <2>1, <2>2, <2>3, GuardLists
         DEF Promised, Plan, Checks, Writing, route, service
  <1>3. CASE op = "remove"
    <2>1. /\ service = <<"delete">> /\ route.log = "row" /\ route.min \in Role
          /\ route.guard = <<"guard">>
      BY <1>3 DEF WorkspacesService, WorkspacesController, Guarded, Open,
         Role, ROLE_HIERARCHY, route, service
    <2>2. /\ Ordered(service) /\ Left(service) = {"delete"}
          /\ \A a \in Left(service) : Place[a] \in 2 .. 5
      BY <2>1, ShortLists, Awaitable, Places
    <2>3. Ordered(todo) /\ Left(todo) = {"guard"} \cup {"before"} \cup Left(service) \cup {"audit"}
      BY <2>1, <2>2, RouteShapes
    <2>4. QED
      BY <1>3, <2>1, <2>2, <2>3, GuardLists
         DEF Promised, Plan, Checks, Writing, route, service
  <1>4. CASE op = "inviteMember"
    <2>1. /\ service = <<"upsert">> /\ route.log = "result" /\ route.min \in Role
          /\ route.guard = <<"guard">>
      BY <1>4 DEF WorkspacesService, WorkspacesController, Guarded, Open,
         Role, ROLE_HIERARCHY, route, service
    <2>2. /\ Ordered(service) /\ Left(service) = {"upsert"}
          /\ \A a \in Left(service) : Place[a] \in 2 .. 5
      BY <2>1, ShortLists, Awaitable, Places
    <2>3. Ordered(todo) /\ Left(todo) = {"guard"} \cup Left(service) \cup {"audit"}
      BY <2>1, <2>2, RouteShapes
    <2>4. QED
      BY <1>4, <2>1, <2>2, <2>3, GuardLists
         DEF Promised, Plan, Checks, Writing, route, service
  <1>5. QED
    BY <1>1, <1>2, <1>3, <1>4 DEF WorkspacesService

LEMMA ProjectRoutes ==
  ASSUME NEW op \in DOMAIN ProjectsService
  PROVE Promised("project", op, ProjectsController[op], ProjectsService[op])
  <1> DEFINE route == ProjectsController[op]
             service == ProjectsService[op]
             todo == Awaits(route, service)
  <1> HIDE DEF route, service
  <1>1. CASE op = "create"
    <2>1. /\ service = <<"member", "insert">> /\ route.log = "result" /\ route.min \in Role
          /\ route.guard = <<"guard">>
      BY <1>1 DEF ProjectsService, ProjectsController, Guarded, Open,
         Role, ROLE_HIERARCHY, route, service
    <2>2. /\ Ordered(service) /\ Left(service) = {"member", "insert"}
          /\ \A a \in Left(service) : Place[a] \in 2 .. 5
      BY <2>1, ShortLists, Awaitable, Places
    <2>3. Ordered(todo) /\ Left(todo) = {"guard"} \cup Left(service) \cup {"audit"}
      BY <2>1, <2>2, RouteShapes
    <2>4. QED
      BY <1>1, <2>1, <2>2, <2>3, GuardLists
         DEF Promised, Plan, Checks, Writing, route, service
  <1>2. CASE op \in {"update", "archive", "restore"}
    <2>1. /\ service = <<"within", "write">> /\ route.log = "row" /\ route.min \in Role
          /\ route.guard = <<"guard">>
      BY <1>2 DEF ProjectsService, ProjectsController, Guarded, Open,
         Role, ROLE_HIERARCHY, route, service
    <2>2. /\ Ordered(service) /\ Left(service) = {"within", "write"}
          /\ \A a \in Left(service) : Place[a] \in 2 .. 5
      BY <2>1, ShortLists, Awaitable, Places
    <2>3. Ordered(todo) /\ Left(todo) = {"guard"} \cup {"before"} \cup Left(service) \cup {"audit"}
      BY <2>1, <2>2, RouteShapes
    <2>4. QED
      BY <1>2, <2>1, <2>2, <2>3, GuardLists
         DEF Promised, Plan, Checks, Writing, route, service
  <1>3. CASE op = "remove"
    <2>1. /\ service = <<"within", "delete">> /\ route.log = "row" /\ route.min \in Role
          /\ route.guard = <<"guard">>
      BY <1>3 DEF ProjectsService, ProjectsController, Guarded, Open,
         Role, ROLE_HIERARCHY, route, service
    <2>2. /\ Ordered(service) /\ Left(service) = {"within", "delete"}
          /\ \A a \in Left(service) : Place[a] \in 2 .. 5
      BY <2>1, ShortLists, Awaitable, Places
    <2>3. Ordered(todo) /\ Left(todo) = {"guard"} \cup {"before"} \cup Left(service) \cup {"audit"}
      BY <2>1, <2>2, RouteShapes
    <2>4. QED
      BY <1>3, <2>1, <2>2, <2>3, GuardLists
         DEF Promised, Plan, Checks, Writing, route, service
  <1>4. QED
    BY <1>1, <1>2, <1>3 DEF ProjectsService

LEMMA CommentRoutes ==
  ASSUME NEW op \in DOMAIN CommentsService
  PROVE Promised("comment", op, CommentsController[op], CommentsService[op])
  <1> DEFINE route == CommentsController[op]
             service == CommentsService[op]
             todo == Awaits(route, service)
  <1> HIDE DEF route, service
  <1>1. CASE op = "create"
    <2>1. /\ service = <<"task", "insert">> /\ route.log = "result" /\ route.min \in Role
          /\ route.guard = <<"guard">>
      BY <1>1 DEF CommentsService, CommentsController, Guarded, Open,
         Role, ROLE_HIERARCHY, route, service
    <2>2. /\ Ordered(service) /\ Left(service) = {"task", "insert"}
          /\ \A a \in Left(service) : Place[a] \in 2 .. 5
      BY <2>1, ShortLists, Awaitable, Places
    <2>3. Ordered(todo) /\ Left(todo) = {"guard"} \cup Left(service) \cup {"audit"}
      BY <2>1, <2>2, RouteShapes
    <2>4. QED
      BY <1>1, <2>1, <2>2, <2>3, GuardLists
         DEF Promised, Plan, Checks, Writing, route, service
  <1>2. CASE op \in {"update", "remove", "restore"}
    <2>1. /\ service = <<"task", "comment", "write">> /\ route.log = "row" /\ route.min \in Role
          /\ route.guard = <<>>
      BY <1>2 DEF CommentsService, CommentsController, Guarded, Open,
         Role, ROLE_HIERARCHY, route, service
    <2>2. /\ Ordered(service) /\ Left(service) = {"task", "comment", "write"}
          /\ \A a \in Left(service) : Place[a] \in 2 .. 5
      BY <2>1, ShortLists, Awaitable, Places
    <2>3. Ordered(todo) /\ Left(todo) = {"before"} \cup Left(service) \cup {"audit"}
      BY <2>1, <2>2, RouteShapes
    <2>4. QED
      BY <1>2, <2>1, <2>2, <2>3, GuardLists
         DEF Promised, Plan, Checks, Writing, route, service
  <1>3. QED
    BY <1>1, <1>2 DEF CommentsService

LEMMA AttachmentRoutes ==
  ASSUME NEW op \in DOMAIN AttachmentsService
  PROVE Promised("attachment", op, AttachmentsController[op], AttachmentsService[op])
  <1> DEFINE route == AttachmentsController[op]
             service == AttachmentsService[op]
             todo == Awaits(route, service)
  <1> HIDE DEF route, service
  <1>1. CASE op = "create"
    <2>1. /\ service = <<"task", "upload", "insert">> /\ route.log = "result" /\ route.min \in Role
          /\ route.guard = <<"guard">>
      BY <1>1 DEF AttachmentsService, AttachmentsController, Guarded, Open,
         Role, ROLE_HIERARCHY, route, service
    <2>2. /\ Ordered(service) /\ Left(service) = {"task", "upload", "insert"}
          /\ \A a \in Left(service) : Place[a] \in 2 .. 5
      BY <2>1, ShortLists, Awaitable, Places
    <2>3. Ordered(todo) /\ Left(todo) = {"guard"} \cup Left(service) \cup {"audit"}
      BY <2>1, <2>2, RouteShapes
    <2>4. QED
      BY <1>1, <2>1, <2>2, <2>3, GuardLists
         DEF Promised, Plan, Checks, Writing, route, service
  <1>2. CASE op = "download"
    <2>1. /\ service = <<"task", "attachment", "stream">> /\ route.log = "nothing" /\ route.min \in Role
          /\ route.guard = <<>>
      BY <1>2 DEF AttachmentsService, AttachmentsController, Guarded, Open,
         Role, ROLE_HIERARCHY, route, service
    <2>2. /\ Ordered(service) /\ Left(service) = {"task", "attachment", "stream"}
          /\ \A a \in Left(service) : Place[a] \in 2 .. 5
      BY <2>1, ShortLists, Awaitable, Places
    <2>3. Ordered(todo) /\ Left(todo) = Left(service)
      BY <2>1, <2>2, RouteShapes
    <2>4. QED
      BY <1>2, <2>1, <2>2, <2>3, GuardLists
         DEF Promised, Plan, Checks, Writing, route, service
  <1>3. CASE op \in {"remove", "restore"}
    <2>1. /\ service = <<"task", "attachment", "write">> /\ route.log = "row" /\ route.min \in Role
          /\ route.guard = <<>>
      BY <1>3 DEF AttachmentsService, AttachmentsController, Guarded, Open,
         Role, ROLE_HIERARCHY, route, service
    <2>2. /\ Ordered(service) /\ Left(service) = {"task", "attachment", "write"}
          /\ \A a \in Left(service) : Place[a] \in 2 .. 5
      BY <2>1, ShortLists, Awaitable, Places
    <2>3. Ordered(todo) /\ Left(todo) = {"before"} \cup Left(service) \cup {"audit"}
      BY <2>1, <2>2, RouteShapes
    <2>4. QED
      BY <1>3, <2>1, <2>2, <2>3, GuardLists
         DEF Promised, Plan, Checks, Writing, route, service
  <1>4. QED
    BY <1>1, <1>2, <1>3 DEF AttachmentsService

\* What is promised of the awaits left stays so as they are worked off.
LEMMA PlanShrinks ==
  ASSUME NEW s, NEW kind, NEW op, Ordered(s), s # <<>>, Plan(kind, op, Left(s))
  PROVE Plan(kind, op, Left(Tail(s)))
  <1> DEFINE L == Left(s)
             M == Left(Tail(s))
             h == Head(s)
  <1>1. h \in L /\ M = L \ {h} /\ \A a \in M : Place[h] < Place[a]
    BY TailLeft
  <1>2. h \in Await
    BY <1>1 DEF Ordered, Left
  <1> HIDE DEF L, M, h
  <1>3. \A a \in L : a # h => a \in M
    BY <1>1
  <1>4. "before" \in M => Writing(M)
    <2>1. "before" \in M => h # "write" /\ h # "delete"
      BY <1>1, <1>2, Places
    <2>2. QED
      BY <1>1, <1>3, <2>1 DEF Plan, Writing, L
  <1>5. "task" \in M /\ Writing(M) /\ kind = "attachment" => "attachment" \in M
    <2>1. "task" \in M => h # "attachment"
      BY <1>1, <1>2, Places
    <2>2. QED
      BY <1>1, <1>3, <2>1 DEF Plan, Writing, L
  <1>6. /\ "name" \in M => kind = "org" /\ "upsert" \in M
        /\ "upload" \in M => kind = "attachment" /\ "insert" \in M
    <2>1. ("name" \in M => h # "upsert") /\ ("upload" \in M => h # "insert")
      BY <1>1, <1>2, Places
    <2>2. QED
      BY <1>1, <1>3, <2>1 DEF Plan, L
  <1>7. M \subseteq L
    BY <1>1
  <1>8. kind = "comment" /\ Writing(M) /\ "comment" \notin M => M \subseteq {"write", "audit"}
    <2>1. CASE h = "comment"
      <3>1. M \cap {"guard", "before", "task", "comment"} = {}
        BY <1>1, <2>1, Places
      <3>2. QED
        BY <1>7, <3>1 DEF Plan, Writing, L
    <2>2. CASE h # "comment"
      BY <1>3, <1>7, <2>2 DEF Plan, Writing, L
    <2>3. QED
      BY <2>1, <2>2
  <1>9. Plan(kind, op, M)
    BY <1>4, <1>5, <1>6, <1>7, <1>8 DEF Plan, Writing, L
  <1>10. QED
    BY <1>9 DEF M

-----------------------------------------------------------------------------
(* The tree *)

Kinds == {"org", "ws", "project", "comment", "attachment"}

LEMMA Ids ==
  /\ None \notin Id
  /\ Tenant \subseteq Id
  /\ IdsOf("org") = Org /\ IdsOf("ws") = Workspace /\ IdsOf("project") = Project
  /\ IdsOf("comment") = Comment /\ IdsOf("attachment") = Attachment
  /\ \A n \in Org : Above(n) = {None}
  /\ \A n \in Workspace : Above(n) = Org
  /\ \A n \in Project : Above(n) = Workspace
  /\ \A n \in Task : Above(n) = Project
  /\ \A n \in Comment \cup Attachment : Above(n) = Task
  /\ \A n \in Id : n \notin Org => Above(n) \subseteq Id
  <1>1. \A n \in Workspace : n \notin Org
    BY IdsAssumption
  <1>2. \A n \in Project : n \notin Org /\ n \notin Workspace
    BY IdsAssumption
  <1>3. \A n \in Task : n \notin Org /\ n \notin Workspace /\ n \notin Project
    BY IdsAssumption
  <1>4. \A n \in Comment \cup Attachment :
          n \notin Org /\ n \notin Workspace /\ n \notin Project /\ n \notin Task
    BY IdsAssumption
  <1>5. /\ \A n \in Org : Above(n) = {None}
        /\ \A n \in Workspace : Above(n) = Org
        /\ \A n \in Project : Above(n) = Workspace
        /\ \A n \in Task : Above(n) = Project
        /\ \A n \in Comment \cup Attachment : Above(n) = Task
    BY <1>1, <1>2, <1>3, <1>4 DEF Above
  <1>6. None \notin Id /\ Tenant \subseteq Id
    BY IdsAssumption DEF Id
  <1>7. /\ IdsOf("org") = Org /\ IdsOf("ws") = Workspace /\ IdsOf("project") = Project
        /\ IdsOf("comment") = Comment /\ IdsOf("attachment") = Attachment
    BY DEF IdsOf
  <1>8. \A n \in Id : n \notin Org => Above(n) \subseteq Id
    BY <1>5 DEF Id, Tenant
  <1>9. QED
    BY <1>5, <1>6, <1>7, <1>8

LEMMA Apart ==
  /\ \A n \in Org : n \notin Workspace /\ n \notin Project /\ n \notin Task /\ n \notin Comment /\ n \notin Attachment
  /\ \A n \in Workspace : n \notin Project /\ n \notin Task /\ n \notin Comment /\ n \notin Attachment
  /\ \A n \in Project : n \notin Task /\ n \notin Comment /\ n \notin Attachment
  /\ \A n \in Task : n \notin Comment /\ n \notin Attachment
  /\ \A n \in Comment : n \notin Attachment
  BY IdsAssumption

RowField == {"st", "up", "label", "mark", "by", "body"}
ReqField == {"kind", "op", "user", "at", "on", "label", "min", "todo", "prev",
             "replaced", "read", "overtaken"}

RowsTyped ==
  /\ row = [n \in Id |-> row[n]]
  /\ \A n \in Id :
       /\ row[n] = [f \in RowField |-> row[n][f]]
       /\ row[n].st \in {"none", "live", "gone"}
       /\ ~Live(n) => row[n].mark = "plain"

ReqsTyped ==
  /\ req = [r \in Request |-> req[r]]
  /\ \A r \in Request : req[r] = [f \in ReqField |-> req[r][f]]

RoleTyped == role \in [Tenant -> [User -> Role \cup {None}]]

\* Every row hangs on one that is there.
Rooted ==
  \A n \in Id :
    Live(n) => row[n].up \in Above(n) /\ (n \notin Org => Live(row[n].up))

Seated == \A t \in Tenant, u \in User : role[t][u] # None => Live(t)

SlugsApart ==
  \A m, n \in Tenant :
    Live(m) /\ Live(n) /\ row[m].up = row[n].up /\ row[m].label = row[n].label => m = n

Tree == RowsTyped /\ ReqsTyped /\ RoleTyped /\ Rooted /\ Seated /\ SlugsApart

\* What no step does: a row that is gone does not come back, and none that is
\* there moves.
Moves ==
  \A n \in Id :
    /\ row[n].st # "none" => row'[n].st # "none"
    /\ row[n].st # "none" /\ row'[n].st = "live" =>
         /\ row[n].st = "live"
         /\ row'[n].up = row[n].up /\ row'[n].by = row[n].by
         /\ row'[n].label = row[n].label

LEMMA TreeIsSound == Tree => TreeSound
  BY Ids DEF Tree, TreeSound, Rooted, Seated, SlugsApart

Depth(n) ==
  CASE n \in Org -> 0 [] n \in Workspace -> 1 [] n \in Project -> 2
    [] n \in Task -> 3 [] OTHER -> 4

LEMMA Depths ==
  /\ \A n \in Id : Depth(n) \in 0 .. 4
  /\ \A n \in Id, p \in Id : p \in Above(n) => Depth(n) = Depth(p) + 1
  <1>1. /\ \A n \in Org : Depth(n) = 0
        /\ \A n \in Workspace : Depth(n) = 1
        /\ \A n \in Project : Depth(n) = 2
        /\ \A n \in Task : Depth(n) = 3
        /\ \A n \in Comment \cup Attachment : Depth(n) = 4
    BY Apart DEF Depth
  <1>2. QED
    BY <1>1, Ids DEF Id, Tenant

\* A cascade takes every row below the one it starts from.
LEMMA CascadeCloses ==
  ASSUME Tree, NEW on \in Id
  PROVE /\ on \in Cascade(on) /\ Cascade(on) \subseteq Id
        /\ \A n \in Cascade(on) : n # on => Live(n) /\ row[n].up \in Cascade(on)
        /\ \A n \in Id : Live(n) /\ row[n].up \in Cascade(on) => n \in Cascade(on)
  <1> DEFINE c1 == Children({on})
             c2 == Children(c1)
             c3 == Children(c2)
             c4 == Children(c3)
  <1>1. Cascade(on) = {on} \cup c1 \cup c2 \cup c3 \cup c4
    BY DEF Cascade
  <1>2. ASSUME NEW S, S \subseteq Id, NEW k \in Nat, \A m \in S : Depth(m) >= k
        PROVE /\ Children(S) \subseteq Id
              /\ \A m \in Children(S) : Live(m) /\ row[m].up \in S /\ Depth(m) >= k + 1
    <2>1. ASSUME NEW m \in Children(S) PROVE Depth(m) >= k + 1
      <3>1. m \in Id /\ Live(m) /\ row[m].up \in S /\ row[m].up \in Id
        BY <1>2, <2>1 DEF Children
      <3>2. row[m].up \in Above(m)
        BY <3>1 DEF Tree, Rooted
      <3>3. Depth(m) = Depth(row[m].up) + 1 /\ Depth(row[m].up) \in 0 .. 4
        BY <3>1, <3>2, Depths
      <3>4. QED
        BY <1>2, <3>1, <3>3
    <2>2. QED
      BY <2>1 DEF Children
  <1>3. c1 \subseteq Id /\ \A m \in c1 : Live(m) /\ row[m].up = on /\ Depth(m) >= 1
    <2>1. ASSUME NEW m \in c1 PROVE Live(m) /\ row[m].up = on /\ Depth(m) >= 1
      <3>1. m \in Id /\ Live(m) /\ row[m].up = on
        BY <2>1 DEF Children
      <3>2. Depth(m) = Depth(on) + 1 /\ Depth(on) \in 0 .. 4
        BY <3>1, Depths DEF Tree, Rooted
      <3>3. QED
        BY <3>1, <3>2
    <2>2. QED
      BY <2>1 DEF Children
  <1> HIDE DEF c1
  <1>4. c2 \subseteq Id /\ \A m \in c2 : Live(m) /\ row[m].up \in c1 /\ Depth(m) >= 2
    <2>1. /\ c2 \subseteq Id
          /\ \A m \in c2 : Live(m) /\ row[m].up \in c1 /\ Depth(m) >= 1 + 1
      BY <1>2, <1>3
    <2>2. QED
      BY <2>1
  <1> HIDE DEF c2
  <1>5. c3 \subseteq Id /\ \A m \in c3 : Live(m) /\ row[m].up \in c2 /\ Depth(m) >= 3
    <2>1. /\ c3 \subseteq Id
          /\ \A m \in c3 : Live(m) /\ row[m].up \in c2 /\ Depth(m) >= 2 + 1
      BY <1>2, <1>4
    <2>2. QED
      BY <2>1
  <1> HIDE DEF c3
  <1>6. c4 \subseteq Id /\ \A m \in c4 : Live(m) /\ row[m].up \in c3 /\ Depth(m) >= 4
    <2>1. /\ c4 \subseteq Id
          /\ \A m \in c4 : Live(m) /\ row[m].up \in c3 /\ Depth(m) >= 3 + 1
      BY <1>2, <1>5
    <2>2. QED
      BY <2>1
  <1> HIDE DEF c4
  <1>7. ASSUME NEW n \in Id, Live(n), row[n].up \in Cascade(on) PROVE n \in Cascade(on)
    <2>1. row[n].up \notin c4
      <3>1. SUFFICES ASSUME row[n].up \in c4 PROVE FALSE
        OBVIOUS
      <3>2. Depth(row[n].up) >= 4 /\ row[n].up \in Id
        BY <1>6, <3>1
      <3>3. Depth(n) = Depth(row[n].up) + 1 /\ Depth(n) \in 0 .. 4 /\ Depth(row[n].up) \in 0 .. 4
        BY <1>7, <3>2, Depths DEF Tree, Rooted
      <3>4. QED
        BY <3>2, <3>3
    <2>2. CASE row[n].up = on
      BY <1>1, <1>7, <2>2 DEF Children, c1
    <2>3. CASE row[n].up \in c1
      BY <1>1, <1>7, <2>3 DEF Children, c2
    <2>4. CASE row[n].up \in c2
      BY <1>1, <1>7, <2>4 DEF Children, c3
    <2>5. CASE row[n].up \in c3
      BY <1>1, <1>7, <2>5 DEF Children, c4
    <2>6. QED
      BY <1>1, <1>7, <2>1, <2>2, <2>3, <2>4, <2>5
  <1>8. Cascade(on) \subseteq Id /\ on \in Cascade(on)
    BY <1>1, <1>3, <1>4, <1>5, <1>6
  <1>9. ASSUME NEW n \in Cascade(on), n # on PROVE Live(n) /\ row[n].up \in Cascade(on)
    <2>1. n \in c1 \/ n \in c2 \/ n \in c3 \/ n \in c4
      BY <1>1, <1>9
    <2>2. Live(n) /\ (row[n].up = on \/ row[n].up \in c1 \/ row[n].up \in c2 \/ row[n].up \in c3)
      BY <1>3, <1>4, <1>5, <1>6, <2>1
    <2>3. QED
      BY <1>1, <2>2
  <1>10. QED
    BY <1>7, <1>8, <1>9

LEMMA Scopes ==
  ASSUME Tree, NEW n \in Id, Live(n)
  PROVE /\ Scope(n) \in Tenant
        /\ n \in Tenant => Scope(n) = n
        /\ n \in Project => Scope(n) = row[n].up
        /\ n \in Comment \cup Attachment => Scope(n) = Scope(row[n].up)
  <1> DEFINE p == row[n].up
             g == row[p].up
             h == row[g].up
  <1>1. n \notin Org => p \in Above(n) /\ Live(p) /\ p \in Id
    BY Ids DEF Tree, Rooted
  <1>2. CASE n \in Tenant
    BY <1>2, Apart DEF Scope, Tenant
  <1>3. CASE n \in Project
    <2>1. p \in Workspace
      BY <1>1, <1>3, Ids, Apart
    <2>2. Scope(n) = p
      BY <1>3, Apart DEF Scope, Tenant
    <2>3. QED
      BY <1>3, <2>1, <2>2, Apart DEF Tenant
  <1>4. CASE n \in Task
    <2>1. p \in Project /\ Live(p)
      BY <1>1, <1>4, Ids, Apart
    <2>2. g \in Workspace
      BY <2>1, Ids, Apart DEF Tree, Rooted, Id
    <2>3. Scope(n) = g
      BY <1>4, Apart DEF Scope, Tenant
    <2>4. QED
      BY <1>4, <2>2, <2>3, Apart DEF Tenant
  <1>5. CASE n \in Comment \cup Attachment
    <2>1. p \in Task /\ Live(p)
      BY <1>1, <1>5, Ids, Apart
    <2>2. g \in Project /\ Live(g)
      BY <2>1, Ids, Apart DEF Tree, Rooted, Id
    <2>3. h \in Workspace
      BY <2>2, Ids, Apart DEF Tree, Rooted, Id
    <2>4. Scope(n) = h /\ Scope(p) = h
      BY <1>5, <2>1, Apart DEF Scope, Tenant
    <2>5. QED
      BY <1>5, <2>3, <2>4, Apart DEF Tenant
  <1>6. QED
    BY <1>2, <1>3, <1>4, <1>5 DEF Id

\* A row that is there after a step was in the same tenant before it.
LEMMA ScopeMoves ==
  ASSUME Tree, Tree', Moves,
         NEW n \in Tenant \cup Project \cup Task, row[n].st # "none", Live(n)'
  PROVE /\ Live(n) /\ Scope(n)' = Scope(n)
        /\ Scope(n) \in Tenant /\ Live(Scope(n)) /\ row'[Scope(n)].st = "live"
  <1> DEFINE p == row[n].up
             g == row[p].up
  <1>1. n \in Id /\ Live(n) /\ row'[n].up = p
    BY DEF Moves, Live, Id
  <1>2. n \notin Org => p \in Above(n) /\ p \in Id /\ Live(p) /\ row'[p].st = "live"
    <2>1. n \notin Org => p \in Above(n) /\ Live(p) /\ p \in Id
      BY <1>1, Ids DEF Tree, Rooted
    <2>2. n \notin Org => row'[p].st = "live"
      BY <1>1 DEF Tree, Rooted, Live
    <2>3. QED
      BY <2>1, <2>2
  <1>3. CASE n \in Tenant
    BY <1>1, <1>3, Apart DEF Scope, Tenant, Live
  <1>4. CASE n \in Project
    <2>1. p \in Workspace
      BY <1>2, <1>4, Ids, Apart
    <2>2. Scope(n) = p /\ Scope(n)' = p
      BY <1>1, <1>4, Apart DEF Scope, Tenant
    <2>3. QED
      BY <1>1, <1>2, <1>4, <2>1, <2>2, Apart DEF Tenant
  <1>5. CASE n \in Task
    <2>1. p \in Project /\ p \notin Org /\ Live(p) /\ row'[p].st = "live" /\ p \in Id
      BY <1>2, <1>5, Ids, Apart
    <2>2. row'[p].up = g
      BY <2>1 DEF Moves, Live
    <2>3. g \in Workspace /\ Live(g)
      BY <2>1, Ids DEF Tree, Rooted
    <2>4. row'[g].st = "live"
      BY <2>1, <2>2 DEF Tree, Rooted, Live
    <2>5. Scope(n) = g /\ Scope(n)' = g
      BY <1>1, <1>5, <2>2, Apart DEF Scope, Tenant
    <2>6. QED
      BY <1>1, <2>3, <2>4, <2>5 DEF Tenant, Live
  <1>6. QED
    BY <1>3, <1>4, <1>5

-----------------------------------------------------------------------------
(* The requests *)

Lefts(r) == Left(req[r].todo)

\* The requests are ones the routes begin.
Lined(r) ==
  /\ Ordered(req[r].todo)
  /\ Plan(req[r].kind, req[r].op, Lefts(r))
  /\ req[r].todo # <<>> => req[r].min \in Role /\ req[r].user \in User

\* Their ids are of rows of the right kind.
Targeted(r) ==
  LET q == req[r] IN
  /\ "insert" \in Lefts(r) =>
       /\ q.kind \in Kinds /\ \A n \in IdsOf(q.kind) : q.at \in Above(n)
       /\ q.kind = "attachment" => q.label \in Key
  /\ Writing(Lefts(r)) =>
       /\ q.kind \in Kinds /\ q.on \in IdsOf(q.kind) /\ q.at \in Id
       /\ row[q.on].st # "none" /\ row[q.at].st # "none"
       /\ q.kind \in {"org", "ws"} => q.on = q.at
       /\ q.kind = "project" => q.at \in Workspace
       /\ q.kind \in {"comment", "attachment"} => q.at \in Task
  /\ "upsert" \in Lefts(r) => q.at \in Tenant /\ row[q.at].st # "none"
  /\ "stream" \in Lefts(r) => q.on \in Attachment

\* A request that is about to write has a caller of the rank its route demands,
\* and for an attachment of the rank it remembers.
RoleKept(r) ==
  LET q == req[r] IN
  Writing(Lefts(r)) /\ {"guard", "role", "task"} \cap Lefts(r) = {} /\ Live(q.at) =>
    \/ "role" \in q.overtaken
    \/ /\ HasRole(q.user, Scope(q.at), q.min)
       /\ q.kind = "attachment" =>
            /\ q.read \in Role
            /\ ROLE_HIERARCHY[role[Scope(q.at)][q.user]] >= ROLE_HIERARCHY[q.read]

\* It has looked the row up under the row of its URL.
Linked(r) ==
  LET q == req[r] IN
  Writing(Lefts(r)) /\ Live(q.on) =>
    /\ q.kind = "project" /\ "within" \notin Lefts(r) => row[q.on].up = q.at
    /\ q.kind = "comment" /\ "comment" \notin Lefts(r) =>
         row[q.on].up = q.at /\ row[q.on].by = q.user
    /\ q.kind = "attachment" /\ "attachment" \notin Lefts(r) =>
         /\ row[q.on].up = q.at
         /\ row[q.on].by = q.user \/ ROLE_HIERARCHY[q.read] >= ROLE_HIERARCHY["ADMIN"]

Named(r) ==
  LET q == req[r] IN
  q.kind = "org" /\ "upsert" \in Lefts(r) /\ "name" \notin Lefts(r) =>
    q.read = "name" \/ row[q.at].st = "gone"

\* What it has read for the audit log is what its write replaces.
Past(r) ==
  LET q == req[r] IN
  /\ "before" \in Lefts(r) \/ "insert" \in Lefts(r) => q.prev = None
  /\ Lefts(r) # {} /\ q.prev # None =>
       \/ "row" \in q.overtaken
       \/ Writing(Lefts(r)) /\ (q.prev = row[q.on] \/ row[q.on].st = "gone")
       \/ ~Writing(Lefts(r)) /\ q.prev = q.replaced

\* Its file is there once it has been stored or found.
Stored(r) ==
  LET q == req[r] IN
  /\ q.kind = "attachment" /\ "insert" \in Lefts(r) /\ "upload" \notin Lefts(r) =>
       q.label \in file
  /\ "stream" \in Lefts(r) /\ "attachment" \notin Lefts(r) => q.label \in file

Editing(r) ==
  LET q == req[r] IN
  /\ q.kind = "comment" /\ q.op = "update" /\ "write" \in Lefts(r)
  /\ "comment" \notin Lefts(r)
  => <<r, q.on>> \in edit

ReqInv(r) ==
  /\ Lined(r) /\ Targeted(r) /\ RoleKept(r) /\ Linked(r) /\ Named(r) /\ Past(r)
  /\ Stored(r) /\ Editing(r)

\* What a step of another request leaves of request r.
Spared(r) ==
  /\ \A f \in ReqField : f # "overtaken" => req'[r][f] = req[r][f]
  /\ req[r].overtaken \subseteq req'[r].overtaken
  /\ \A t \in Tenant :
       Live(t)' /\ req[r].user \in User /\ role[t][req[r].user] # None /\ Cleared(r) =>
         \/ "role" \in req'[r].overtaken
         \/ role'[t][req[r].user] = role[t][req[r].user]
         \/ /\ role'[t][req[r].user] # None
            /\ ROLE_HIERARCHY[role'[t][req[r].user]] >= ROLE_HIERARCHY[role[t][req[r].user]]
  /\ Writing(Lefts(r)) /\ req[r].prev # None =>
       \/ row'[req[r].on] = row[req[r].on] \/ row'[req[r].on].st = "gone"
       \/ "row" \in req'[r].overtaken
  /\ file \subseteq file'
  /\ \A n : <<r, n>> \in edit => <<r, n>> \in edit'

LEMMA Ranks == \A x \in Role : ROLE_HIERARCHY[x] \in 0 .. 3
  BY DEF Role, ROLE_HIERARCHY

LEMMA ClearedLefts ==
  ASSUME NEW r
  PROVE Cleared(r) <=> {"guard", "role", "member", "task"} \cap Lefts(r) = {}
  BY DEF Cleared, Ahead, Lefts, Left

\* What other requests do, other requests survive.
LEMMA OthersKept ==
  ASSUME Tree, Tree', Moves, NEW r \in Request, ReqInv(r), Spared(r)
  PROVE ReqInv(r)'
  <1>1. /\ req'[r].todo = req[r].todo /\ req'[r].kind = req[r].kind
        /\ req'[r].op = req[r].op /\ req'[r].user = req[r].user
        /\ req'[r].at = req[r].at /\ req'[r].on = req[r].on
        /\ req'[r].label = req[r].label /\ req'[r].min = req[r].min
        /\ req'[r].prev = req[r].prev /\ req'[r].read = req[r].read
        /\ req'[r].replaced = req[r].replaced
        /\ req[r].overtaken \subseteq req'[r].overtaken
    BY DEF Spared, ReqField
  <1>2. Lefts(r)' = Lefts(r)
    BY <1>1 DEF Lefts
  <1>3. Lined(r)'
    BY <1>1, <1>2 DEF ReqInv, Lined
  <1>4. \A k \in Kinds : IdsOf(k) \subseteq Id
    BY Ids DEF Kinds, Id, Tenant
  <1>5. Targeted(r)'
    BY <1>1, <1>2, <1>4, Ids DEF ReqInv, Targeted, Moves
  <1>6. RoleKept(r)'
    <2>1. PICK at, u, min, read :
            /\ at = req[r].at /\ u = req[r].user /\ min = req[r].min /\ read = req[r].read
            /\ at = req'[r].at /\ u = req'[r].user /\ min = req'[r].min /\ read = req'[r].read
      BY <1>1
    <2>2. SUFFICES ASSUME Writing(Lefts(r)), {"guard", "role", "task"} \cap Lefts(r) = {},
                          row'[at].st = "live", "role" \notin req'[r].overtaken
                   PROVE /\ HasRole(u, Scope(at), min)'
                         /\ req[r].kind = "attachment" =>
                              /\ read \in Role
                              /\ ROLE_HIERARCHY[role[Scope(at)][u]]' >= ROLE_HIERARCHY[read]
      BY <1>1, <1>2, <2>1 DEF RoleKept, Live
    <2>3. at \in Tenant \cup Project \cup Task /\ row[at].st # "none" /\ min \in Role
      <3>1. req[r].todo # <<>>
        BY <2>2, ShortLists DEF Lefts, Writing
      <3>2. at \in Tenant \/ at \in Workspace \/ at \in Task
        BY <1>4, <2>1, <2>2, Ids DEF ReqInv, Targeted, Kinds, Tenant
      <3>3. QED
        BY <2>1, <2>2, <3>1, <3>2 DEF ReqInv, Targeted, Lined, Tenant
    <2>4. PICK s : s = Scope(at) /\ s = Scope(at)' /\ s \in Tenant /\ Live(at) /\ row'[s].st = "live"
      BY <2>2, <2>3, ScopeMoves DEF Live
    <2>5. "role" \notin req[r].overtaken
      BY <1>1, <2>2
    <2>6. /\ HasRole(u, s, min)
          /\ req[r].kind = "attachment" =>
               read \in Role /\ ROLE_HIERARCHY[role[s][u]] >= ROLE_HIERARCHY[read]
      BY <2>1, <2>2, <2>4, <2>5 DEF ReqInv, RoleKept
    <2>7. Cleared(r)
      <3>1. "member" \notin Lefts(r)
        BY <2>2 DEF ReqInv, Lined, Plan
      <3>2. QED
        BY <2>2, <3>1, ClearedLefts
    <2>8. u \in User
      BY <2>1, <2>2, ShortLists DEF ReqInv, Lined, Lefts, Writing
    <2>9. role[s][u] \in Role /\ role'[s][u] \in Role
          /\ \/ role'[s][u] = role[s][u]
             \/ ROLE_HIERARCHY[role'[s][u]] >= ROLE_HIERARCHY[role[s][u]]
      <3>1. /\ role'[s][u] # None
            /\ \/ role'[s][u] = role[s][u]
               \/ ROLE_HIERARCHY[role'[s][u]] >= ROLE_HIERARCHY[role[s][u]]
        BY <2>1, <2>2, <2>4, <2>6, <2>7, <2>8 DEF Spared, HasRole, Live
      <3>2. QED
        BY <2>4, <2>6, <2>8, <3>1 DEF Tree, RoleTyped, HasRole
    <2>10. /\ HasRole(u, s, min)'
           /\ req[r].kind = "attachment" =>
                read \in Role /\ ROLE_HIERARCHY[role'[s][u]] >= ROLE_HIERARCHY[read]
      <3>1. None \notin Role
        BY IdsAssumption
      <3>2. QED
        BY <2>3, <2>6, <2>9, <3>1, Ranks DEF HasRole
    <2>11. QED
      BY <2>4, <2>10 DEF HasRole
  <1>7. Linked(r)'
    BY <1>1, <1>2, <1>4 DEF ReqInv, Linked, Targeted, Moves, Live
  <1>8. Named(r)'
    <2>1. "upsert" \in Lefts(r) /\ row[req[r].at].st = "gone" => row'[req[r].at].st = "gone"
      <3>1. "upsert" \in Lefts(r) => req[r].at \in Id
        BY Ids DEF ReqInv, Targeted
      <3>2. QED
        BY <3>1 DEF Moves, Tree, RowsTyped
    <2>2. QED
      BY <1>1, <1>2, <2>1 DEF ReqInv, Named
  <1>9. Past(r)'
    <2>1. Writing(Lefts(r)) /\ row[req[r].on].st = "gone" => row'[req[r].on].st = "gone"
      <3>1. Writing(Lefts(r)) => req[r].on \in Id
        BY <1>4 DEF ReqInv, Targeted
      <3>2. QED
        BY <3>1 DEF Moves, Tree, RowsTyped
    <2>2. QED
      BY <1>1, <1>2, <2>1 DEF ReqInv, Past, Spared
  <1>10. Stored(r)' /\ Editing(r)'
    BY <1>1, <1>2 DEF ReqInv, Stored, Editing, Spared
  <1>11. QED
    BY <1>3, <1>5, <1>6, <1>7, <1>8, <1>9, <1>10 DEF ReqInv

-----------------------------------------------------------------------------
(* The request that takes a step *)

LEMMA Idle ==
  ASSUME NEW r, req'[r].todo = <<>>
  PROVE ReqInv(r)'
  <1>1. Lefts(r)' = {} /\ Ordered(req'[r].todo)
    BY ShortLists DEF Lefts
  <1>2. Lined(r)'
    BY <1>1 DEF Lined, Plan, Writing
  <1>3. QED
    BY <1>1, <1>2 DEF ReqInv, Targeted, RoleKept, Linked, Named, Past, Stored, Editing, Writing

\* It works off its first await and stays the request it is.
Onward(r) ==
  /\ req[r].todo # <<>> /\ req'[r].todo = Tail(req[r].todo)
  /\ req'[r].todo # <<>> =>
       \A f \in {"kind", "op", "user", "at", "min", "overtaken"} : req'[r][f] = req[r][f]

\* What the awaits before a write find out, or leave behind.
Checked(r) ==
  LET q == req[r]
      d == req'[r]
      h == Head(q.todo)
  IN
  /\ row' = row /\ role' = role /\ file \subseteq file'
  /\ Onward(r)
  /\ h \notin {"insert", "write", "delete", "upsert", "audit"}
  /\ d.todo # <<>> =>
       /\ d.on = q.on /\ d.replaced = q.replaced
       /\ d.label = q.label \/ h = "attachment"
       /\ d.read = q.read \/ h \in {"name", "task"}
       /\ d.prev = q.prev \/ (h = "before" /\ d.prev \in {None, row[q.on]})
       /\ h = "guard" => HasRole(q.user, Scope(q.at), q.min)
       /\ h = "role" => HasRole(q.user, q.at, q.min)
       /\ h = "task" =>
            /\ HasRole(q.user, Scope(q.at), q.min)
            /\ q.kind = "attachment" => d.read = role[Scope(q.at)][q.user]
       /\ h = "within" => row[q.on].up = q.at
       /\ h = "comment" =>
            /\ row[q.on].up = q.at /\ row[q.on].by = q.user
            /\ q.op = "update" => <<r, q.on>> \in edit'
       /\ h = "attachment" =>
            /\ row[q.on].up = q.at
            /\ \/ q.op = "download"
               \/ row[q.on].by = q.user
               \/ ROLE_HIERARCHY[q.read] >= ROLE_HIERARCHY["ADMIN"]
            /\ q.op = "download" => Live(q.on) /\ d.label = row[q.on].label
       /\ h = "name" => d.read = "name" \/ row[q.at].st # "live"
       /\ h = "upload" => q.label \in file'

FilesHeld == \A a \in Attachment : Live(a) => row[a].label \in file

LEMMA OnwardLefts ==
  ASSUME NEW r, ReqInv(r), Onward(r)
  PROVE /\ Head(req[r].todo) \in Lefts(r) /\ Head(req[r].todo) \in Await
        /\ Lefts(r)' = Lefts(r) \ {Head(req[r].todo)}
        /\ \A a \in Lefts(r)' : Place[Head(req[r].todo)] < Place[a]
        /\ Lined(r)'
  <1>1. Ordered(req[r].todo) /\ req[r].todo # <<>> /\ req'[r].todo = Tail(req[r].todo)
    BY DEF ReqInv, Lined, Onward
  <1>2. /\ Head(req[r].todo) \in Lefts(r)
        /\ Lefts(r)' = Lefts(r) \ {Head(req[r].todo)}
        /\ \A a \in Lefts(r)' : Place[Head(req[r].todo)] < Place[a]
        /\ Ordered(req'[r].todo)
    BY <1>1, TailLeft DEF Lefts
  <1>3. Head(req[r].todo) \in Await
    BY <1>1, <1>2 DEF Ordered, Lefts, Left
  <1>4. Lined(r)'
    <2>1. CASE req'[r].todo = <<>>
      BY <2>1, Idle DEF ReqInv
    <2>2. CASE req'[r].todo # <<>>
      <3>1. /\ req'[r].kind = req[r].kind /\ req'[r].op = req[r].op
            /\ req'[r].min = req[r].min /\ req'[r].user = req[r].user
        BY <2>2 DEF Onward
      <3>2. Plan(req'[r].kind, req'[r].op, Left(Tail(req[r].todo)))
        BY <1>1, <3>1, PlanShrinks DEF ReqInv, Lined, Lefts
      <3>3. QED
        BY <1>1, <1>2, <3>1, <3>2 DEF ReqInv, Lined, Lefts
    <2>3. QED
      BY <2>1, <2>2
  <1>5. QED
    BY <1>2, <1>3, <1>4

\* After the write only the audit row is left.
LEMMA Late ==
  ASSUME NEW r, ReqInv(r), Onward(r),
         Head(req[r].todo) \in {"insert", "write", "delete", "upsert"},
         req'[r].todo # <<>> =>
           \/ req'[r].prev = None \/ "row" \in req'[r].overtaken
           \/ req'[r].prev = req'[r].replaced
  PROVE ReqInv(r)'
  <1>1. CASE req'[r].todo = <<>>
    BY <1>1, Idle
  <1>2. CASE req'[r].todo # <<>>
    <2>1. Lined(r)' /\ \A a \in Lefts(r)' : 5 < Place[a]
      BY OnwardLefts, Places
    <2>2. Lefts(r)' \cap {"guard", "before", "role", "member", "task", "within",
                          "comment", "attachment", "slug", "name", "upload", "stream",
                          "insert", "write", "delete", "upsert"} = {}
      BY <2>1, Places
    <2>3. Past(r)'
      BY <1>2, <2>2 DEF Past, Writing
    <2>4. QED
      BY <2>1, <2>2, <2>3
         DEF ReqInv, Targeted, RoleKept, Linked, Named, Stored, Editing, Writing
  <1>3. QED
    BY <1>1, <1>2

LEMMA CheckedKeeps ==
  ASSUME Tree, FilesHeld, NEW r, ReqInv(r), Checked(r)
  PROVE ReqInv(r)'
  <1>1. SUFFICES ASSUME req'[r].todo # <<>> PROVE ReqInv(r)'
    BY Idle
  <1>2. PICK q, d, h : q = req[r] /\ d = req'[r] /\ h = Head(q.todo)
    OBVIOUS
  <1>3. PICK L : L = Lefts(r)
    OBVIOUS
  <1>4. PICK M : M = Lefts(r)'
    OBVIOUS
  <1>5. /\ h \in L /\ h \in Await /\ M = L \ {h} /\ Lined(r)'
        /\ \A a \in M : Place[h] < Place[a]
    BY <1>2, <1>3, <1>4, OnwardLefts DEF Checked
  <1>6. /\ d.kind = q.kind /\ d.op = q.op /\ d.user = q.user /\ d.at = q.at
        /\ d.on = q.on /\ d.min = q.min /\ d.overtaken = q.overtaken
        /\ d.replaced = q.replaced
    BY <1>1, <1>2 DEF Checked, Onward
  <1>7. row' = row /\ role' = role /\ file \subseteq file'
    BY DEF Checked
  <1>8. M \subseteq L /\ Plan(q.kind, q.op, L)
    BY <1>2, <1>3, <1>5 DEF ReqInv, Lined
  <1>9. q.user \in User /\ q.min \in Role
    BY <1>2 DEF ReqInv, Lined, Checked, Onward
  <1>10. Targeted(r)'
    <2>1. h = "attachment" => "insert" \notin M
      BY <1>5, <1>8 DEF Plan
    <2>2. d.label = q.label \/ h = "attachment"
      BY <1>1, <1>2 DEF Checked
    <2>3. QED
      BY <1>2, <1>3, <1>4, <1>6, <1>7, <1>8, <2>1, <2>2 DEF ReqInv, Targeted, Writing
  <1>11. RoleKept(r)'
    <2>1. PICK t : t = Scope(q.at) /\ t = Scope(q.at)'
      BY <1>7 DEF Scope
    <2>2. SUFFICES ASSUME Writing(M), {"guard", "role", "task"} \cap M = {}, Live(q.at),
                          "role" \notin q.overtaken
                   PROVE /\ HasRole(q.user, t, q.min)
                         /\ q.kind = "attachment" =>
                              /\ d.read \in Role
                              /\ ROLE_HIERARCHY[role[t][q.user]] >= ROLE_HIERARCHY[d.read]
      <3>1. PICK at : at = q.at /\ at = req'[r].at
        BY <1>2, <1>6
      <3>2. Scope(at)' = t
        BY <2>1, <3>1 DEF Scope
      <3>3. RoleKept(r)' <=>
              (Writing(M) /\ {"guard", "role", "task"} \cap M = {} /\ Live(at)' =>
                 \/ "role" \in d.overtaken
                 \/ /\ HasRole(d.user, t, d.min)'
                    /\ d.kind = "attachment" =>
                         /\ d.read \in Role
                         /\ ROLE_HIERARCHY[role'[t][d.user]] >= ROLE_HIERARCHY[d.read])
        BY <1>2, <1>4, <3>1, <3>2 DEF RoleKept, HasRole
      <3>4. Live(at)' = Live(q.at) /\ HasRole(d.user, t, d.min)' = HasRole(q.user, t, q.min)
        BY <1>6, <1>7, <3>1 DEF Live, HasRole
      <3>5. QED
        BY <1>6, <1>7, <2>2, <3>3, <3>4
    <2>3. Writing(L)
      BY <1>8, <2>2 DEF Writing
    <2>4. /\ q.kind \in {"org", "ws"} => q.at \in Tenant
          /\ q.at \in Id /\ t \in Tenant
      <3>1. q.kind \in {"org", "ws"} => q.at \in Tenant
        BY <1>2, <1>3, <2>3, Ids DEF ReqInv, Targeted, Tenant
      <3>2. q.at \in Id
        BY <1>2, <1>3, <2>3 DEF ReqInv, Targeted
      <3>3. QED
        BY <2>1, <2>2, <3>1, <3>2, Scopes
    <2>5. CASE h \notin {"guard", "role", "task"}
      <3>1. {"guard", "role", "task"} \cap L = {}
        BY <1>5, <2>2, <2>5
      <3>2. /\ HasRole(q.user, t, q.min)
            /\ q.kind = "attachment" =>
                 q.read \in Role /\ ROLE_HIERARCHY[role[t][q.user]] >= ROLE_HIERARCHY[q.read]
        BY <1>2, <1>3, <2>1, <2>2, <2>3, <3>1 DEF ReqInv, RoleKept
      <3>3. d.read = q.read \/ h = "name"
        BY <1>1, <1>2, <2>5 DEF Checked
      <3>4. h = "name" => q.kind = "org"
        BY <1>5, <1>8 DEF Plan
      <3>5. QED
        BY <3>2, <3>3, <3>4
    <2>6. CASE h = "guard"
      <3>1. q.kind # "attachment"
        BY <1>5, <1>8, <2>3, <2>6 DEF Plan
      <3>2. QED
        BY <1>1, <1>2, <2>1, <2>6, <3>1 DEF Checked
    <2>7. CASE h = "role"
      <3>1. q.kind \in {"org", "ws"}
        BY <1>5, <1>8, <2>3, <2>7 DEF Plan
      <3>2. t = q.at
        BY <2>1, <2>2, <2>4, <3>1, Scopes
      <3>3. QED
        BY <1>1, <1>2, <2>7, <3>1, <3>2 DEF Checked
    <2>8. CASE h = "task"
      <3>1. HasRole(q.user, t, q.min) /\ (q.kind = "attachment" => d.read = role[t][q.user])
        BY <1>1, <1>2, <2>1, <2>8 DEF Checked
      <3>2. role[t][q.user] \in Role
        BY <1>9, <2>4, <3>1 DEF Tree, RoleTyped, HasRole
      <3>3. QED
        BY <3>1, <3>2, Ranks
    <2>9. QED
      BY <2>5, <2>6, <2>7, <2>8
  <1>12. Linked(r)'
    <2>1. SUFFICES ASSUME Writing(M), Live(q.on)
          PROVE /\ q.kind = "project" /\ "within" \notin M => row[q.on].up = q.at
                /\ q.kind = "comment" /\ "comment" \notin M =>
                     row[q.on].up = q.at /\ row[q.on].by = q.user
                /\ q.kind = "attachment" /\ "attachment" \notin M =>
                     /\ row[q.on].up = q.at
                     /\ row[q.on].by = q.user
                        \/ ROLE_HIERARCHY[d.read] >= ROLE_HIERARCHY["ADMIN"]
      BY <1>2, <1>4, <1>6, <1>7 DEF Linked, Live
    <2>2. Writing(L)
      BY <1>8, <2>1 DEF Writing
    <2>3. Linked(r)
      BY DEF ReqInv
    <2>4. q.kind = "project" /\ "within" \notin M => row[q.on].up = q.at
      BY <1>1, <1>2, <1>3, <1>5, <2>1, <2>2, <2>3 DEF Checked, Linked
    <2>5. q.kind = "comment" /\ "comment" \notin M =>
            row[q.on].up = q.at /\ row[q.on].by = q.user
      BY <1>1, <1>2, <1>3, <1>5, <2>1, <2>2, <2>3 DEF Checked, Linked
    <2>6. ASSUME q.kind = "attachment", "attachment" \notin M
          PROVE /\ row[q.on].up = q.at
                /\ row[q.on].by = q.user \/ ROLE_HIERARCHY[d.read] >= ROLE_HIERARCHY["ADMIN"]
      <3>1. h # "name" /\ h # "task"
        <4>1. h # "name"
          BY <1>5, <1>8, <2>6 DEF Plan
        <4>2. h = "task" => "attachment" \in L
          BY <1>5, <1>8, <2>2, <2>6 DEF Plan
        <4>3. QED
          BY <1>5, <2>6, <4>1, <4>2
      <3>2. d.read = q.read
        BY <1>1, <1>2, <3>1 DEF Checked
      <3>3. q.op # "download" \/ h # "attachment"
        <4>1. "write" \in L \/ "delete" \in L
          BY <2>2 DEF Writing
        <4>2. q.op # "download"
          BY <1>8, <2>6, <4>1 DEF Plan
        <4>3. QED
          BY <4>2
      <3>4. CASE h = "attachment"
        BY <1>1, <1>2, <3>2, <3>3, <3>4 DEF Checked
      <3>5. CASE h # "attachment"
        BY <1>2, <1>3, <1>5, <2>1, <2>2, <2>3, <2>6, <3>2, <3>5 DEF Linked
      <3>6. QED
        BY <3>4, <3>5
    <2>7. QED
      BY <2>4, <2>5, <2>6
  <1>13. Named(r)'
    <2>1. SUFFICES ASSUME q.kind = "org", "upsert" \in M, "name" \notin M
          PROVE d.read = "name" \/ row[q.at].st = "gone"
      BY <1>2, <1>4, <1>6, <1>7 DEF Named
    <2>2. q.at \in Id /\ row[q.at].st # "none"
      BY <1>2, <1>3, <1>8, <2>1, Ids DEF ReqInv, Targeted
    <2>3. CASE h = "name"
      BY <1>1, <1>2, <2>2, <2>3 DEF Checked, Tree, RowsTyped
    <2>4. CASE h # "name"
      <3>1. h # "task"
        BY <1>5, <1>8, <2>1 DEF Plan
      <3>2. d.read = q.read
        BY <1>1, <1>2, <2>4, <3>1 DEF Checked
      <3>3. "upsert" \in L /\ "name" \notin L
        BY <1>5, <2>1, <2>4
      <3>4. QED
        BY <1>2, <1>3, <2>1, <3>2, <3>3 DEF ReqInv, Named
    <2>5. QED
      BY <2>3, <2>4
  <1>14. Past(r)'
    <2>1. d.prev = q.prev \/ (h = "before" /\ d.prev \in {None, row[q.on]})
      BY <1>1, <1>2 DEF Checked
    <2>2. h = "before" => "before" \notin M /\ "insert" \notin M /\ Writing(M)
      <3>1. h = "before" => Writing(L)
        BY <1>5, <1>8 DEF Plan
      <3>2. h = "before" => "insert" \notin L
        BY <1>5, <1>8 DEF Plan
      <3>3. QED
        BY <1>5, <3>1, <3>2 DEF Writing
    <2>3. /\ L # {}
          /\ Writing(M) <=> Writing(L)
          /\ ("before" \in M => "before" \in L) /\ ("insert" \in M => "insert" \in L)
      <3>1. h # "write" /\ h # "delete"
        BY <1>2 DEF Checked
      <3>2. QED
        BY <1>5, <3>1 DEF Writing
    <2>4. CASE d.prev = q.prev
      BY <1>2, <1>3, <1>4, <1>6, <1>7, <2>3, <2>4 DEF ReqInv, Past
    <2>5. CASE h = "before" /\ d.prev \in {None, row[q.on]}
      BY <1>2, <1>4, <1>6, <1>7, <2>2, <2>5 DEF Past
    <2>6. QED
      BY <2>1, <2>4, <2>5
  <1>15. Stored(r)'
    <2>1. SUFFICES /\ q.kind = "attachment" /\ "insert" \in M /\ "upload" \notin M => d.label \in file'
                   /\ "stream" \in M /\ "attachment" \notin M => d.label \in file'
      BY <1>2, <1>4, <1>6 DEF Stored
    <2>2. d.label = q.label \/ h = "attachment"
      BY <1>1, <1>2 DEF Checked
    <2>3. ASSUME q.kind = "attachment", "insert" \in M, "upload" \notin M
          PROVE d.label \in file'
      <3>1. "insert" \in L /\ h # "attachment"
        BY <1>5, <1>8, <2>3 DEF Plan
      <3>2. CASE h = "upload"
        BY <1>1, <1>2, <2>2, <3>1, <3>2 DEF Checked
      <3>3. CASE h # "upload"
        BY <1>2, <1>3, <1>5, <1>7, <2>2, <2>3, <3>1, <3>3 DEF ReqInv, Stored
      <3>4. QED
        BY <3>2, <3>3
    <2>4. ASSUME "stream" \in M, "attachment" \notin M
          PROVE d.label \in file'
      <3>1. "stream" \in L /\ q.op = "download"
        BY <1>5, <1>8, <2>4 DEF Plan
      <3>2. CASE h = "attachment"
        <4>1. Live(q.on) /\ d.label = row[q.on].label
          BY <1>1, <1>2, <3>1, <3>2 DEF Checked
        <4>2. q.on \in Attachment
          BY <1>2, <1>3, <3>1 DEF ReqInv, Targeted
        <4>3. QED
          BY <1>7, <4>1, <4>2 DEF FilesHeld
      <3>3. CASE h # "attachment"
        BY <1>2, <1>3, <1>5, <1>7, <2>2, <2>4, <3>1, <3>3 DEF ReqInv, Stored
      <3>4. QED
        BY <3>2, <3>3
    <2>5. QED
      BY <2>3, <2>4
  <1>16. Editing(r)'
    <2>1. SUFFICES ASSUME q.kind = "comment", q.op = "update", "write" \in M, "comment" \notin M
          PROVE <<r, q.on>> \in edit'
      BY <1>2, <1>4, <1>6 DEF Editing
    <2>2. h = "comment"
      <3>1. SUFFICES ASSUME h # "comment" PROVE FALSE
        OBVIOUS
      <3>2. "comment" \notin L /\ Writing(L)
        BY <1>5, <2>1, <3>1 DEF Writing
      <3>3. h \in {"write", "audit"}
        BY <1>5, <1>8, <2>1, <3>2 DEF Plan
      <3>4. QED
        BY <1>2, <3>3 DEF Checked
    <2>3. QED
      BY <1>1, <1>2, <2>1, <2>2 DEF Checked
  <1>17. QED
    BY <1>5, <1>10, <1>11, <1>12, <1>13, <1>14, <1>15, <1>16 DEF ReqInv

-----------------------------------------------------------------------------
(* Steps that change no row and no role *)

LEMMA Shapes ==
  /\ Free = [f \in ReqField |-> Free[f]] /\ Free.todo = <<>>
  /\ Done = [f \in ReqField |-> Done[f]] /\ Done.todo = <<>>
  BY DEF Free, Done, ReqField

\* Only request r changes.
Alone(r) ==
  /\ ReqsTyped'
  /\ \A q \in Request : q # r => req'[q] = req[q]

LEMMA Serves ==
  ASSUME ReqsTyped, NEW r \in Request, NEW d, d = [f \in ReqField |-> d[f]],
         req' = [req EXCEPT ![r] = d]
  PROVE Alone(r) /\ req'[r] = d
  <1>1. req'[r] = d /\ \A q \in Request : q # r => req'[q] = req[q]
    BY DEF ReqsTyped
  <1>2. req' = [q \in Request |-> req'[q]]
    BY DEF ReqsTyped
  <1>3. \A q \in Request : req'[q] = [f \in ReqField |-> req'[q][f]]
    BY <1>1 DEF ReqsTyped
  <1>4. QED
    BY <1>1, <1>2, <1>3 DEF Alone, ReqsTyped

LEMMA Continues ==
  ASSUME ReqsTyped, NEW r \in Request, req[r].todo # <<>>
  PROVE /\ Continued(req[r]) = [f \in ReqField |-> Continued(req[r])[f]]
        /\ Continued(req[r]).todo = Tail(req[r].todo)
        /\ Continued(req[r]).todo # <<>> =>
             \A f \in ReqField : f # "todo" => Continued(req[r])[f] = req[r][f]
  <1>1. PICK q : q = req[r] /\ q = [f \in ReqField |-> q[f]]
    BY DEF ReqsTyped
  <1>2. PICK c : c = [q EXCEPT !.todo = Tail(@)]
    OBVIOUS
  <1>3. /\ c = [f \in ReqField |-> c[f]] /\ c.todo = Tail(q.todo)
        /\ \A f \in ReqField : f # "todo" => c[f] = q[f]
    BY <1>1, <1>2 DEF ReqField
  <1>4. CASE Tail(q.todo) = <<>>
    BY <1>1, <1>4, Shapes DEF Continued
  <1>5. CASE Tail(q.todo) # <<>>
    <2>1. Continued(req[r]) = c
      BY <1>1, <1>2, <1>5 DEF Continued
    <2>2. QED
      BY <1>1, <1>3, <2>1
  <1>6. QED
    BY <1>4, <1>5

LEMMA QuietTree ==
  ASSUME Tree, row' = row, role' = role, ReqsTyped'
  PROVE Tree' /\ Moves
  <1>1. RowsTyped' /\ RoleTyped'
    BY DEF Tree, RowsTyped, RoleTyped, Live
  <1>2. Rooted' /\ Seated' /\ SlugsApart'
    BY DEF Tree, Rooted, Seated, SlugsApart, Live
  <1>3. Moves
    BY DEF Moves
  <1>4. QED
    BY <1>1, <1>2, <1>3 DEF Tree

\* A request begins as its route promises.
LEMMA BeginKeeps ==
  ASSUME Tree, NEW r \in Request, NEW kind \in Kinds, NEW op, NEW u \in User, NEW at, NEW on,
         NEW label, NEW route, NEW service,
         Begin(r, kind, op, u, at, on, label, route, service),
         Promised(kind, op, route, service),
         op = "create" =>
           /\ \A n \in IdsOf(kind) : at \in Above(n)
           /\ kind = "attachment" => label \in Key,
         op # "create" =>
           /\ on \in IdsOf(kind) /\ Live(on) /\ at \in Id /\ Live(at)
           /\ kind \in {"org", "ws"} => on = at
           /\ kind = "project" => at \in Workspace
           /\ kind \in {"comment", "attachment"} => at \in Task
  PROVE /\ Alone(r) /\ ReqInv(r)'
        /\ req'[r].kind = kind /\ req'[r].label = label
        /\ Lefts(r)' = Left(Awaits(route, service))
  <1>1. PICK d : d = [Free EXCEPT !.kind = kind, !.op = op, !.user = u, !.at = at,
                        !.on = on, !.label = label, !.min = route.min,
                        !.todo = Awaits(route, service)]
    OBVIOUS
  <1>2. /\ d = [f \in ReqField |-> d[f]]
        /\ d.kind = kind /\ d.op = op /\ d.user = u /\ d.at = at /\ d.on = on
        /\ d.label = label /\ d.min = route.min /\ d.todo = Awaits(route, service)
        /\ d.prev = None
    BY <1>1 DEF Free, ReqField
  <1>3. req' = [req EXCEPT ![r] = d] /\ row' = row /\ role' = role
    BY <1>1 DEF Begin
  <1>4. Alone(r) /\ req'[r] = d
    BY <1>2, <1>3, Serves DEF Tree
  <1>5. PICK L : L = Left(Awaits(route, service)) /\ L = Lefts(r)'
    BY <1>2, <1>4 DEF Lefts
  <1>6. Plan(kind, op, L) /\ Checks(kind, L)
    BY <1>5 DEF Promised
  <1>7. Lined(r)'
    BY <1>2, <1>4, <1>5, <1>6 DEF Lined, Promised
  <1>8. Targeted(r)'
    <2>1. /\ "insert" \in L => op = "create"
          /\ Writing(L) => op # "create"
          /\ "upsert" \in L => op # "create" /\ kind \in {"org", "ws"}
          /\ "stream" \in L => op # "create" /\ kind = "attachment"
      BY <1>6 DEF Plan, Writing
    <2>2. kind \in {"org", "ws"} /\ op # "create" => at \in Tenant
      BY Ids DEF Tenant
    <2>3. QED
      BY <1>2, <1>3, <1>4, <1>5, <2>1, <2>2, Ids DEF Targeted, Live
  <1>9. RoleKept(r)' /\ Linked(r)' /\ Named(r)' /\ Stored(r)' /\ Editing(r)'
    <2>1. RoleKept(r)'
      BY <1>5, <1>6 DEF Checks, RoleKept
    <2>2. Linked(r)'
      BY <1>2, <1>4, <1>5, <1>6 DEF Checks, Linked
    <2>3. Named(r)' /\ Stored(r)'
      BY <1>2, <1>4, <1>5, <1>6 DEF Checks, Named, Stored
    <2>4. Editing(r)'
      BY <1>2, <1>4, <1>5, <1>6 DEF Checks, Editing, Writing
    <2>5. QED
      BY <2>1, <2>2, <2>3, <2>4
  <1>10. Past(r)'
    BY <1>2, <1>4, <1>5 DEF Past
  <1>11. QED
    BY <1>2, <1>4, <1>5, <1>7, <1>8, <1>9, <1>10 DEF ReqInv

LEMMA OrganizationBegins ==
  ASSUME Tree, NEW r \in Request, NEW u \in User, BeginOrganization(r, u)
  PROVE Alone(r) /\ ReqInv(r)' /\ req'[r].kind = "org"
  <1>0. PICK op \in DOMAIN OrganizationsService :
          \E o \in IF op = "create" THEN {None} ELSE {n \in Org : Live(n)},
             s \in IF op = "create" THEN Slug ELSE {None} :
            Begin(r, "org", op, u, o, o, s,
                  OrganizationsController[op], OrganizationsService[op])
    BY DEF BeginOrganization
  <1>1. PICK o \in IF op = "create" THEN {None} ELSE {n \in Org : Live(n)},
             s \in IF op = "create" THEN Slug ELSE {None} :
          Begin(r, "org", op, u, o, o, s,
                  OrganizationsController[op], OrganizationsService[op])
    BY <1>0
  <1>2. /\ op = "create" => \A n \in IdsOf("org") : o \in Above(n)
        /\ op # "create" => o \in IdsOf("org") /\ Live(o) /\ o \in Id
    BY <1>1, Ids DEF Id, Tenant
  <1>3. QED
    BY <1>1, <1>2, OrganizationRoutes, BeginKeeps DEF Kinds

LEMMA WorkspaceBegins ==
  ASSUME Tree, NEW r \in Request, NEW u \in User, BeginWorkspace(r, u)
  PROVE Alone(r) /\ ReqInv(r)' /\ req'[r].kind = "ws"
  <1>0. PICK op \in DOMAIN WorkspacesService :
          \E t \in {n \in IF op = "create" THEN Org ELSE Workspace : Live(n)},
             s \in IF op = "create" THEN Slug ELSE {None} :
            Begin(r, "ws", op, u, t, IF op = "create" THEN None ELSE t, s,
                  WorkspacesController[op], WorkspacesService[op])
    BY DEF BeginWorkspace
  <1>1. PICK t \in {n \in IF op = "create" THEN Org ELSE Workspace : Live(n)},
             s \in IF op = "create" THEN Slug ELSE {None} :
          Begin(r, "ws", op, u, t, IF op = "create" THEN None ELSE t, s,
                  WorkspacesController[op], WorkspacesService[op])
    BY <1>0
  <1>2. /\ op = "create" => \A n \in IdsOf("ws") : t \in Above(n)
        /\ op # "create" => t \in IdsOf("ws") /\ Live(t) /\ t \in Id
    BY <1>1, Ids DEF Id, Tenant
  <1>3. QED
    BY <1>1, <1>2, WorkspaceRoutes, BeginKeeps DEF Kinds

LEMMA ProjectBegins ==
  ASSUME Tree, NEW r \in Request, NEW u \in User, BeginProject(r, u)
  PROVE Alone(r) /\ ReqInv(r)' /\ req'[r].kind = "project"
  <1>0. PICK op \in DOMAIN ProjectsService :
          \E w \in {n \in Workspace : Live(n)},
             p \in IF op = "create" THEN {None} ELSE {n \in Project : Live(n)} :
            Begin(r, "project", op, u, w, p, None,
                  ProjectsController[op], ProjectsService[op])
    BY DEF BeginProject
  <1>1. PICK w \in {n \in Workspace : Live(n)},
             p \in IF op = "create" THEN {None} ELSE {n \in Project : Live(n)} :
          Begin(r, "project", op, u, w, p, None,
                  ProjectsController[op], ProjectsService[op])
    BY <1>0
  <1>2. /\ op = "create" => \A n \in IdsOf("project") : w \in Above(n)
        /\ op # "create" => p \in IdsOf("project") /\ Live(p)
        /\ w \in Id /\ Live(w) /\ w \in Workspace
    BY <1>1, Ids DEF Id, Tenant
  <1>3. QED
    BY <1>1, <1>2, ProjectRoutes, BeginKeeps DEF Kinds

LEMMA CommentBegins ==
  ASSUME Tree, NEW r \in Request, NEW u \in User, BeginComment(r, u)
  PROVE Alone(r) /\ ReqInv(r)' /\ req'[r].kind = "comment"
  <1>0. PICK op \in DOMAIN CommentsService :
          \E k \in {n \in Task : Live(n)},
             c \in IF op = "create" THEN {None} ELSE {n \in Comment : Live(n)} :
            Begin(r, "comment", op, u, k, c, None,
                  CommentsController[op], CommentsService[op])
    BY DEF BeginComment
  <1>1. PICK k \in {n \in Task : Live(n)},
             c \in IF op = "create" THEN {None} ELSE {n \in Comment : Live(n)} :
          Begin(r, "comment", op, u, k, c, None,
                  CommentsController[op], CommentsService[op])
    BY <1>0
  <1>2. /\ op = "create" => \A n \in IdsOf("comment") : k \in Above(n)
        /\ op # "create" => c \in IdsOf("comment") /\ Live(c)
        /\ k \in Id /\ Live(k) /\ k \in Task
    BY <1>1, Ids DEF Id
  <1>3. QED
    BY <1>1, <1>2, CommentRoutes, BeginKeeps DEF Kinds

LEMMA AttachmentBegins ==
  ASSUME Tree, NEW r \in Request, NEW u \in User, BeginAttachment(r, u)
  PROVE /\ Alone(r) /\ ReqInv(r)'
        /\ "insert" \in Lefts(r)' => req'[r].label \in Key \ Drawn
  <1>0. PICK op \in DOMAIN AttachmentsService :
          \E k \in {n \in Task : Live(n)},
             a \in IF op = "create" THEN {None} ELSE {n \in Attachment : Live(n)},
             key \in IF op = "create" THEN Key \ Drawn ELSE {None} :
            Begin(r, "attachment", op, u, k, a, key,
                  AttachmentsController[op], AttachmentsService[op])
    BY DEF BeginAttachment
  <1>1. PICK k \in {n \in Task : Live(n)},
             a \in IF op = "create" THEN {None} ELSE {n \in Attachment : Live(n)},
             key \in IF op = "create" THEN Key \ Drawn ELSE {None} :
          Begin(r, "attachment", op, u, k, a, key,
                  AttachmentsController[op], AttachmentsService[op])
    BY <1>0
  <1>2. /\ op = "create" => \A n \in IdsOf("attachment") : k \in Above(n)
        /\ op # "create" => a \in IdsOf("attachment") /\ Live(a)
        /\ k \in Id /\ Live(k) /\ k \in Task
        /\ op = "create" => key \in Key \ Drawn
    BY <1>1, Ids DEF Id
  <1>3. Promised("attachment", op, AttachmentsController[op], AttachmentsService[op])
    BY <1>1, AttachmentRoutes
  <1>4. /\ Alone(r) /\ ReqInv(r)' /\ req'[r].label = key
        /\ Lefts(r)' = Left(Awaits(AttachmentsController[op], AttachmentsService[op]))
    BY <1>1, <1>2, <1>3, BeginKeeps DEF Kinds
  <1>5. QED
    BY <1>2, <1>3, <1>4 DEF Promised, Plan

LEMMA Advances ==
  ASSUME Tree, NEW r \in Request, NEW a, At(r, a), Advance(r)
  PROVE /\ Alone(r) /\ Onward(r) /\ Head(req[r].todo) = a
        /\ req'[r].todo # <<>> =>
             \A f \in ReqField : f # "todo" => req'[r][f] = req[r][f]
  <1>1. req[r].todo # <<>> /\ Head(req[r].todo) = a
    BY DEF At
  <1>2. req' = [req EXCEPT ![r] = Continued(req[r])]
    BY DEF Advance
  <1>3. Alone(r) /\ req'[r] = Continued(req[r])
    BY <1>1, <1>2, Continues, Serves DEF Tree
  <1>4. /\ req'[r].todo = Tail(req[r].todo)
        /\ req'[r].todo # <<>> => \A f \in ReqField : f # "todo" => req'[r][f] = req[r][f]
    BY <1>1, <1>3, Continues DEF Tree
  <1>5. QED
    BY <1>1, <1>3, <1>4 DEF Onward, ReqField

\* A check of one await that leaves all else as it was.
LEMMA AdvanceChecks ==
  ASSUME Tree, NEW r \in Request, NEW a, At(r, a), Advance(r),
         row' = row, role' = role, file \subseteq file',
         a \notin {"insert", "write", "delete", "upsert", "audit", "task", "name"},
         a \in {"guard", "role"} => HasRole(req[r].user, IF a = "guard" THEN Scope(req[r].at) ELSE req[r].at, req[r].min),
         a = "within" => row[req[r].on].up = req[r].at,
         a = "comment" =>
           /\ row[req[r].on].up = req[r].at /\ row[req[r].on].by = req[r].user
           /\ req[r].op = "update" => <<r, req[r].on>> \in edit',
         a # "attachment",
         a = "upload" => req[r].label \in file'
  PROVE Alone(r) /\ Checked(r)
  <1>1. /\ Alone(r) /\ Onward(r) /\ Head(req[r].todo) = a
        /\ req'[r].todo # <<>> =>
             \A f \in ReqField : f # "todo" => req'[r][f] = req[r][f]
    BY Advances
  <1>2. req'[r].todo # <<>> =>
          /\ req'[r].on = req[r].on /\ req'[r].replaced = req[r].replaced
          /\ req'[r].label = req[r].label /\ req'[r].read = req[r].read
          /\ req'[r].prev = req[r].prev
    BY <1>1 DEF ReqField
  <1>3. QED
    BY <1>1, <1>2 DEF Checked

LEMMA TenancyChecks ==
  ASSUME Tree, NEW r \in Request, file' = file,
         \/ Guard(r) \/ Before(r) \/ BeforeFails(r) \/ CheckRole(r) \/ CheckMember(r)
         \/ FindWithin(r) \/ LookUpSlug(r) \/ ReadName(r)
  PROVE Alone(r) /\ Checked(r)
  <1>1. CASE Guard(r)
    BY <1>1, AdvanceChecks DEF Guard
  <1>2. CASE Before(r)
    <2>1. PICK v : v \in {None, row[req[r].on]}
             /\ req' = [req EXCEPT ![r] = [Continued(@) EXCEPT !.prev = v]]
      BY <1>2 DEF Before
    <2>2. At(r, "before") /\ req[r].todo # <<>> /\ Head(req[r].todo) = "before"
      BY <1>2 DEF Before, At
    <2>3. PICK c : c = Continued(req[r])
      OBVIOUS
    <2>4. /\ c = [f \in ReqField |-> c[f]] /\ c.todo = Tail(req[r].todo)
          /\ c.todo # <<>> => \A f \in ReqField : f # "todo" => c[f] = req[r][f]
      BY <2>2, <2>3, Continues DEF Tree
    <2>5. PICK d : d = [c EXCEPT !.prev = v]
      OBVIOUS
    <2>6. /\ d = [f \in ReqField |-> d[f]] /\ d.prev = v
          /\ \A f \in ReqField : f # "prev" => d[f] = c[f]
      BY <2>4, <2>5 DEF ReqField
    <2>7. req' = [req EXCEPT ![r] = d]
      BY <2>1, <2>3, <2>5 DEF Tree, ReqsTyped
    <2>8. Alone(r) /\ req'[r] = d
      BY <2>6, <2>7, Serves DEF Tree
    <2>9. Onward(r)
      BY <2>2, <2>4, <2>6, <2>8 DEF Onward, ReqField
    <2>10. QED
      BY <1>2, <2>1, <2>2, <2>4, <2>6, <2>8, <2>9 DEF Checked, ReqField, Before
  <1>3. CASE BeforeFails(r)
    BY <1>3, AdvanceChecks DEF BeforeFails
  <1>4. CASE CheckRole(r)
    BY <1>4, AdvanceChecks DEF CheckRole
  <1>5. CASE CheckMember(r)
    BY <1>5, AdvanceChecks DEF CheckMember
  <1>6. CASE FindWithin(r)
    BY <1>6, AdvanceChecks DEF FindWithin, Within
  <1>7. CASE LookUpSlug(r)
    BY <1>7, AdvanceChecks DEF LookUpSlug
  <1>8. CASE ReadName(r)
    <2>1. PICK v : v = (IF Live(req[r].at) THEN "name" ELSE None)
             /\ req' = [req EXCEPT ![r] = [Continued(@) EXCEPT !.read = v]]
      BY <1>8 DEF ReadName
    <2>2. At(r, "name") /\ req[r].todo # <<>> /\ Head(req[r].todo) = "name"
      BY <1>8 DEF ReadName, At
    <2>3. PICK c : c = Continued(req[r])
      OBVIOUS
    <2>4. /\ c = [f \in ReqField |-> c[f]] /\ c.todo = Tail(req[r].todo)
          /\ c.todo # <<>> => \A f \in ReqField : f # "todo" => c[f] = req[r][f]
      BY <2>2, <2>3, Continues DEF Tree
    <2>5. PICK d : d = [c EXCEPT !.read = v]
      OBVIOUS
    <2>6. /\ d = [f \in ReqField |-> d[f]] /\ d.read = v
          /\ \A f \in ReqField : f # "read" => d[f] = c[f]
      BY <2>4, <2>5 DEF ReqField
    <2>7. req' = [req EXCEPT ![r] = d]
      BY <2>1, <2>3, <2>5 DEF Tree, ReqsTyped
    <2>8. Alone(r) /\ req'[r] = d
      BY <2>6, <2>7, Serves DEF Tree
    <2>9. Onward(r)
      BY <2>2, <2>4, <2>6, <2>8 DEF Onward, ReqField
    <2>10. QED
      BY <1>8, <2>1, <2>2, <2>4, <2>6, <2>8, <2>9 DEF Checked, ReqField, ReadName, Live
  <1>9. QED
    BY <1>1, <1>2, <1>3, <1>4, <1>5, <1>6, <1>7, <1>8

LEMMA TaskChecks ==
  ASSUME Tree, NEW r \in Request, FindTask(r)
  PROVE Alone(r) /\ Checked(r)
  <1>1. PICK v :
          /\ req[r].kind = "attachment" => v = role[Scope(req[r].at)][req[r].user]
          /\ req' = [req EXCEPT ![r] = [Continued(req[r]) EXCEPT !.read = v]]
    BY DEF FindTask
  <1>2. req[r].todo # <<>> /\ Head(req[r].todo) = "task"
    BY DEF FindTask, At
  <1>3. PICK c : c = Continued(req[r])
    OBVIOUS
  <1>4. /\ c = [f \in ReqField |-> c[f]] /\ c.todo = Tail(req[r].todo)
        /\ c.todo # <<>> => \A f \in ReqField : f # "todo" => c[f] = req[r][f]
    BY <1>2, <1>3, Continues DEF Tree
  <1>5. PICK d : d = [c EXCEPT !.read = v]
    OBVIOUS
  <1>6. /\ d = [f \in ReqField |-> d[f]] /\ d.read = v
        /\ \A f \in ReqField : f # "read" => d[f] = c[f]
    BY <1>4, <1>5 DEF ReqField
  <1>7. Alone(r) /\ req'[r] = d
    <2>1. req' = [req EXCEPT ![r] = d]
      BY <1>1, <1>3, <1>5
    <2>2. QED
      BY <1>6, <2>1, Serves DEF Tree
  <1>8. Onward(r)
    BY <1>2, <1>4, <1>6, <1>7 DEF Onward, ReqField
  <1>9. row' = row /\ role' = role /\ file' = file
        /\ HasRole(req[r].user, Scope(req[r].at), req[r].min)
    BY DEF FindTask
  <1>10. QED
    BY <1>1, <1>2, <1>4, <1>6, <1>7, <1>8, <1>9 DEF Checked, ReqField

LEMMA AttachmentChecks ==
  ASSUME Tree, NEW r \in Request, FindAttachment(r)
  PROVE Alone(r) /\ Checked(r)
  <1>1. PICK v :
          /\ req[r].op = "download" => v = row[req[r].on].label
          /\ req' = [req EXCEPT ![r] = [Continued(req[r]) EXCEPT !.label = v]]
    BY DEF FindAttachment
  <1>2. req[r].todo # <<>> /\ Head(req[r].todo) = "attachment"
    BY DEF FindAttachment, At
  <1>3. PICK c : c = Continued(req[r])
    OBVIOUS
  <1>4. /\ c = [f \in ReqField |-> c[f]] /\ c.todo = Tail(req[r].todo)
        /\ c.todo # <<>> => \A f \in ReqField : f # "todo" => c[f] = req[r][f]
    BY <1>2, <1>3, Continues DEF Tree
  <1>5. PICK d : d = [c EXCEPT !.label = v]
    OBVIOUS
  <1>6. /\ d = [f \in ReqField |-> d[f]] /\ d.label = v
        /\ \A f \in ReqField : f # "label" => d[f] = c[f]
    BY <1>4, <1>5 DEF ReqField
  <1>7. Alone(r) /\ req'[r] = d
    <2>1. req' = [req EXCEPT ![r] = d]
      BY <1>1, <1>3, <1>5
    <2>2. QED
      BY <1>6, <2>1, Serves DEF Tree
  <1>8. Onward(r)
    BY <1>2, <1>4, <1>6, <1>7 DEF Onward, ReqField
  <1>9. /\ row' = row /\ role' = role /\ file' = file
        /\ MayHandle(req[r].on, req[r].at, req[r].user, req[r].read, req[r].op)
    BY DEF FindAttachment
  <1>10. QED
    BY <1>1, <1>2, <1>4, <1>6, <1>7, <1>8, <1>9 DEF Checked, ReqField, MayHandle

LEMMA ContentChecks ==
  ASSUME Tree, NEW r \in Request, ReqInv(r), FindComment(r) \/ Upload(r) \/ Stream(r)
  PROVE Alone(r) /\ Checked(r)
  <1>1. CASE FindComment(r)
    <2>1. req[r].op = "update" => <<r, req[r].on>> \in edit'
      BY <1>1 DEF FindComment, Own
    <2>2. row[req[r].on].up = req[r].at /\ row[req[r].on].by = req[r].user
      BY <1>1 DEF FindComment, Own
    <2>3. At(r, "comment") /\ Advance(r) /\ row' = row /\ role' = role /\ file' = file
      BY <1>1 DEF FindComment
    <2>4. QED
      BY <2>1, <2>2, <2>3, AdvanceChecks
  <1>2. CASE Upload(r)
    BY <1>2, AdvanceChecks DEF Upload
  <1>3. CASE Stream(r)
    BY <1>3, AdvanceChecks DEF Stream
  <1>4. QED
    BY <1>1, <1>2, <1>3

\* A request that ends without having done more.
LEMMA Ends ==
  ASSUME Tree, NEW r \in Request, req' = [req EXCEPT ![r] = Done]
  PROVE Alone(r) /\ ReqInv(r)' /\ req'[r] = Done
  <1>1. Alone(r) /\ req'[r] = Done
    BY Shapes, Serves DEF Tree
  <1>2. QED
    BY <1>1, Idle, Shapes

LEMMA QuietOthers ==
  ASSUME Tree, NEW r \in Request, ReqInv(r), req'[r] = req[r], row' = row, role' = role,
         file \subseteq file', \A n : <<r, n>> \in edit => <<r, n>> \in edit'
  PROVE ReqInv(r)'
  <1>1. Lefts(r)' = Lefts(r)
    BY DEF Lefts
  <1>2. Lined(r)' /\ Targeted(r)' /\ Named(r)' /\ Past(r)' /\ Linked(r)'
    BY <1>1 DEF ReqInv, Lined, Targeted, Named, Past, Linked, Live
  <1>3. Stored(r)' /\ Editing(r)'
    BY <1>1 DEF ReqInv, Stored, Editing
  <1>4. RoleKept(r)'
    <2>1. PICK at : at = req[r].at /\ at = req'[r].at
      OBVIOUS
    <2>2. Scope(at)' = Scope(at) /\ Live(at)' = Live(at)
      BY DEF Scope, Live
    <2>3. RoleKept(r)
      BY DEF ReqInv
    <2>4. QED
      BY <1>1, <2>1, <2>2, <2>3 DEF RoleKept, HasRole
  <1>5. QED
    BY <1>2, <1>3, <1>4 DEF ReqInv

-----------------------------------------------------------------------------
(* Steps that change rows or roles *)

\* What request r, and the ones beside it, are after such a step.
LEMMA Survive ==
  ASSUME Tree, Tree', Moves, NEW r \in Request, \A q \in Request : ReqInv(q),
         ReqInv(r)', \A q \in Request : q # r => Spared(q)
  PROVE \A q \in Request : ReqInv(q)'
  <1>1. ASSUME NEW q \in Request, q # r PROVE ReqInv(q)'
    BY <1>1, OthersKept
  <1>2. QED
    BY <1>1

LEMMA HeadIsLeft ==
  ASSUME NEW r, ReqInv(r), NEW a, At(r, a)
  PROVE /\ a \in Lefts(r) /\ req[r].todo # <<>> /\ Head(req[r].todo) = a
        /\ \A b \in Lefts(r) : b # a => Place[a] < Place[b]
        /\ req[r].user \in User /\ req[r].min \in Role
  <1>1. req[r].todo # <<>> /\ Head(req[r].todo) = a
    BY DEF At
  <1>2. QED
    BY <1>1, TailLeft DEF ReqInv, Lined, Lefts

\* A request whose d continues what it was, but for one field.
LEMMA Carries ==
  ASSUME Tree, NEW r \in Request, req[r].todo # <<>>, NEW g \in {"on", "replaced"},
         NEW d, d = [f \in ReqField |-> d[f]], d.todo = Tail(req[r].todo),
         d.todo # <<>> => \A f \in ReqField : f # "todo" /\ f # g => d[f] = req[r][f],
         req'[r] = d
  PROVE Onward(r)
  BY DEF Onward, ReqField

LEMMA InsertSteps ==
  ASSUME Tree, NEW r \in Request, \A q \in Request : ReqInv(q), Insert(r),
         file' = file, edit' = edit
  PROVE /\ Tree' /\ Moves /\ \A q \in Request : ReqInv(q)'
        /\ Alone(r)
        /\ \E n \in IdsOf(req[r].kind) :
             /\ ~Live(n)
             /\ row'[n].st = "live" /\ row'[n].label = req[r].label
             /\ \A m \in Id : m # n => row'[m] = row[m]
             /\ \A t \in Tenant : t # n => role'[t] = role[t]
             /\ n \in Tenant => role'[n][req[r].user] = "OWNER"
        /\ "insert" \notin Lefts(r)'
  <1>1. PICK q, n : q = req[r] /\ n = Fresh(req[r].kind)
    OBVIOUS
  <1>2. /\ "insert" \in Lefts(r) /\ q.todo # <<>> /\ Head(q.todo) = "insert"
        /\ q.user \in User
    BY <1>1, HeadIsLeft DEF Insert
  <1>3. q.kind \in Kinds /\ n \in IdsOf(q.kind) /\ row[n].st = "none" /\ q.at \in Above(n)
    <2>1. n \in Unused(q.kind)
      BY <1>1 DEF Insert, Fresh
    <2>2. QED
      BY <1>1, <1>2, <2>1 DEF Unused, ReqInv, Targeted
  <1>4. n \in Id /\ (n \in Tenant <=> q.kind \in {"org", "ws"})
    BY <1>3, Ids, Apart DEF Kinds, Id, Tenant
  <1>5. PICK by, new :
          new = [NoRow EXCEPT !.st = "live", !.up = q.at, !.label = q.label, !.by = by]
          /\ row' = [row EXCEPT ![n] = new]
    BY <1>1 DEF Insert
  <1>6. /\ new = [f \in RowField |-> new[f]]
        /\ new.st = "live" /\ new.up = q.at /\ new.label = q.label
    BY <1>5 DEF NoRow, RowField
  <1>7. /\ row'[n] = new /\ \A m \in Id : m # n => row'[m] = row[m]
        /\ row' = [m \in Id |-> row'[m]]
    BY <1>4, <1>5 DEF Tree, RowsTyped
  <1>8. /\ role' = IF n \in Tenant THEN [role EXCEPT ![n][q.user] = "OWNER"] ELSE role
        /\ Storable(q.kind, q.at, q.label)
    BY <1>1 DEF Insert, WithOwner
  <1>9. RowsTyped'
    BY <1>6, <1>7 DEF Tree, RowsTyped, Live
  <1>10. RoleTyped'
    BY <1>2, <1>8 DEF Tree, RoleTyped, Role, ROLE_HIERARCHY
  <1>11. /\ \A t \in Tenant : t # n => role'[t] = role[t]
         /\ n \in Tenant => role'[n][q.user] = "OWNER"
    BY <1>2, <1>8 DEF Tree, RoleTyped
  <1>12. n \notin Org => q.at \in Id /\ Live(q.at) /\ q.at # n
    BY <1>3, <1>4, <1>8, Ids DEF Storable, Live
  <1>13. Rooted'
    <2>1. ASSUME NEW m \in Id, row'[m].st = "live"
          PROVE row'[m].up \in Above(m) /\ (m \notin Org => row'[row'[m].up].st = "live")
      <3>1. CASE m = n
        BY <1>3, <1>6, <1>7, <1>12, <3>1 DEF Live
      <3>2. CASE m # n
        <4>1. /\ row[m].up \in Above(m)
              /\ m \notin Org => row[row[m].up].st = "live" /\ row[m].up \in Id
          BY <1>7, <2>1, <3>2, Ids DEF Tree, Rooted, Live
        <4>2. m \notin Org => row[m].up # n
          BY <1>3, <4>1
        <4>3. QED
          BY <1>7, <3>2, <4>1, <4>2
      <3>3. QED
        BY <3>1, <3>2
    <2>2. QED
      BY <2>1 DEF Rooted, Live
  <1>14. Seated'
    <2>1. ASSUME NEW t \in Tenant, NEW u \in User, role'[t][u] # None
          PROVE row'[t].st = "live"
      <3>1. t \in Id
        BY Ids
      <3>2. CASE t = n
        BY <1>6, <1>7, <3>2
      <3>3. CASE t # n
        BY <1>7, <1>11, <2>1, <3>1, <3>3 DEF Tree, Seated, Live
      <3>4. QED
        BY <3>2, <3>3
    <2>2. QED
      BY <2>1 DEF Seated, Live
  <1>15. ASSUME NEW m \in Tenant, m # n, n \in Tenant, row[m].st = "live", row[m].up = q.at,
                row[m].label = q.label
         PROVE FALSE
    <2>1. row[m].up \in Above(m) /\ m \in Id
      BY <1>15, Ids DEF Tree, Rooted, Live
    <2>2. m \in IF q.kind = "org" THEN Org ELSE Workspace
      <3>1. CASE q.kind = "org"
        <4>1. q.at = None
          BY <1>3, <3>1, Ids
        <4>2. m \notin Workspace
          BY <1>15, <2>1, <4>1, Ids DEF Id, Tenant
        <4>3. QED
          BY <3>1, <4>2 DEF Tenant
      <3>2. CASE q.kind = "ws"
        <4>1. q.at \in Org
          BY <1>3, <3>2, Ids
        <4>2. m \notin Org
          BY <1>15, <2>1, <4>1, Ids DEF Id, Tenant
        <4>3. QED
          BY <3>2, <4>2 DEF Tenant
      <3>3. QED
        BY <1>4, <1>15, <3>1, <3>2
    <2>3. QED
      BY <1>4, <1>8, <1>15, <2>2 DEF Storable, Taken, Live
  <1>16. SlugsApart'
    <2>1. ASSUME NEW a \in Tenant, NEW b \in Tenant, row'[a].st = "live", row'[b].st = "live",
                 row'[a].up = row'[b].up, row'[a].label = row'[b].label
          PROVE a = b
      <3>1. a \in Id /\ b \in Id
        BY Ids
      <3>2. CASE a = n /\ b # n
        BY <1>6, <1>7, <1>15, <2>1, <3>1, <3>2
      <3>3. CASE a # n /\ b = n
        BY <1>6, <1>7, <1>15, <2>1, <3>1, <3>3
      <3>4. CASE a # n /\ b # n
        BY <1>7, <2>1, <3>1, <3>4 DEF Tree, SlugsApart, Live
      <3>5. QED
        BY <3>2, <3>3, <3>4
    <2>2. QED
      BY <2>1 DEF SlugsApart, Live
  <1>17. Moves
    BY <1>3, <1>7 DEF Moves
  <1>18. PICK d : d = (IF Tail(q.todo) = <<>> THEN Done ELSE [Continued(q) EXCEPT !.on = n])
                  /\ req' = [req EXCEPT ![r] = d]
    BY <1>1 DEF Insert
  <1>19. /\ d = [f \in ReqField |-> d[f]] /\ d.todo = Tail(q.todo)
         /\ d.todo # <<>> => \A f \in ReqField : f # "todo" /\ f # "on" => d[f] = q[f]
    <2>1. CASE Tail(q.todo) = <<>>
      BY <1>18, <2>1, Shapes
    <2>2. CASE Tail(q.todo) # <<>>
      <3>1. PICK c : c = Continued(q)
        OBVIOUS
      <3>2. /\ c = [f \in ReqField |-> c[f]] /\ c.todo = Tail(q.todo)
            /\ \A f \in ReqField : f # "todo" => c[f] = q[f]
        BY <1>1, <1>2, <2>2, <3>1, Continues DEF Tree
      <3>3. d = [c EXCEPT !.on = n]
        BY <1>18, <2>2, <3>1
      <3>4. QED
        BY <3>2, <3>3 DEF ReqField
    <2>3. QED
      BY <2>1, <2>2
  <1>20. Alone(r) /\ req'[r] = d
    <2>1. req' = [req EXCEPT ![r] = d]
      BY <1>18
    <2>2. d = [f \in ReqField |-> d[f]]
      BY <1>19
    <2>3. QED
      BY <2>1, <2>2, Serves DEF Tree
  <1>21. Onward(r)
    BY <1>1, <1>2, <1>19, <1>20, Carries
  <1>22. ReqInv(r)'
    <2>1. req'[r].todo # <<>> => req'[r].prev = None
      BY <1>1, <1>2, <1>19, <1>20 DEF ReqInv, Past, ReqField
    <2>2. QED
      BY <1>1, <1>2, <1>21, <2>1, Late
  <1>23. Tree'
    BY <1>9, <1>10, <1>13, <1>14, <1>16, <1>20 DEF Tree, Alone
  <1>24. ASSUME NEW p \in Request, p # r PROVE Spared(p)
    <2>1. req'[p] = req[p]
      BY <1>20, <1>24 DEF Alone
    <2>2. Writing(Lefts(p)) => row'[req[p].on] = row[req[p].on]
      <3>1. Writing(Lefts(p)) => req[p].on \in Id /\ row[req[p].on].st # "none"
        BY Ids DEF ReqInv, Targeted, Kinds, Id, Tenant
      <3>2. QED
        BY <1>3, <1>7, <3>1
    <2>3. ASSUME NEW t \in Tenant, req[p].user \in User, role[t][req[p].user] # None
          PROVE role'[t] = role[t]
      <3>1. t # n
        BY <1>3, <2>3 DEF Tree, Seated, Live
      <3>2. QED
        BY <1>11, <3>1
    <2>4. QED
      BY <1>24, <2>1, <2>2, <2>3 DEF Spared
  <1>25. "insert" \notin Lefts(r)'
    BY <1>1, <1>2, <1>21, OnwardLefts
  <1>26. QED
    BY <1>1, <1>3, <1>6, <1>7, <1>11, <1>17, <1>20, <1>22, <1>23, <1>24, <1>25, Survive DEF Live

\* The other requests are marked at most.
Beside(r) ==
  \A q \in Request : q # r =>
    /\ \A f \in ReqField : f # "overtaken" => req'[q][f] = req[q][f]
    /\ req[q].overtaken \subseteq req'[q].overtaken

LEMMA WrittenRows ==
  ASSUME NEW old, old = [f \in RowField |-> old[f]],
         NEW op \in {"update", "archive", "remove", "restore"}
  PROVE /\ Written(old, op) = [f \in RowField |-> Written(old, op)[f]]
        /\ \A f \in RowField \ {"mark", "body"} : Written(old, op)[f] = old[f]
        /\ op # "update" => Written(old, op).body = old.body
  <1>1. PICK w : w = Written(old, op)
    OBVIOUS
  <1>2. /\ op = "update" => w = [old EXCEPT !.body = "edited"]
        /\ op = "archive" => w = [old EXCEPT !.mark = "archived"]
        /\ op = "remove" => w = [old EXCEPT !.mark = "deleted"]
        /\ op = "restore" => w = [old EXCEPT !.mark = "plain"]
    BY <1>1 DEF Written
  <1>3. /\ w = [f \in RowField |-> w[f]]
        /\ \A f \in RowField \ {"mark", "body"} : w[f] = old[f]
        /\ op # "update" => w.body = old.body
    BY <1>2 DEF RowField
  <1>4. QED
    BY <1>1, <1>3

\* A step that alters the columns of one row, and moves nothing.
LEMMA OneRowTree ==
  ASSUME Tree, NEW n \in Id, Live(n), NEW w, row' = [row EXCEPT ![n] = w],
         w = [f \in RowField |-> w[f]],
         \A f \in RowField \ {"mark", "body"} : w[f] = row[n][f],
         role' = role, ReqsTyped'
  PROVE /\ Tree' /\ Moves /\ row'[n] = w
        /\ \A m \in Id : m # n => row'[m] = row[m]
  <1>1. /\ row'[n] = w /\ \A m \in Id : m # n => row'[m] = row[m]
        /\ row' = [m \in Id |-> row'[m]]
    BY DEF Tree, RowsTyped
  <1>2. w.st = row[n].st /\ w.up = row[n].up /\ w.label = row[n].label /\ w.by = row[n].by
    BY DEF RowField
  <1>3. \A m \in Id : /\ row'[m].st = row[m].st /\ row'[m].up = row[m].up
                      /\ row'[m].label = row[m].label /\ row'[m].by = row[m].by
    BY <1>1, <1>2
  <1>4. RowsTyped'
    BY <1>1, <1>3 DEF Tree, RowsTyped, Live
  <1>5. Rooted'
    BY <1>3, Ids DEF Tree, Rooted, Live
  <1>6. Seated' /\ SlugsApart' /\ RoleTyped'
    BY <1>3, Ids DEF Tree, Seated, SlugsApart, RoleTyped, Live
  <1>7. Moves
    BY <1>3 DEF Moves
  <1>8. QED
    BY <1>1, <1>4, <1>5, <1>6, <1>7 DEF Tree

\* Request r continues, with what its write replaced.
LEMMA Replaces ==
  ASSUME Tree, NEW r \in Request, ReqInv(r), NEW a \in {"write", "delete"}, At(r, a),
         NEW d, d = [Continued(req[r]) EXCEPT !.replaced = row[req[r].on]],
         req'[r] = d, Live(req[r].on)
  PROVE d = [f \in ReqField |-> d[f]] /\ Onward(r) /\ ReqInv(r)'
  <1>1. /\ a \in Lefts(r) /\ req[r].todo # <<>> /\ Head(req[r].todo) = a
        /\ Lefts(r) # {} /\ Writing(Lefts(r))
    BY HeadIsLeft DEF Writing
  <1>2. PICK c : c = Continued(req[r])
    OBVIOUS
  <1>3. /\ c = [f \in ReqField |-> c[f]] /\ c.todo = Tail(req[r].todo)
        /\ c.todo # <<>> => \A f \in ReqField : f # "todo" => c[f] = req[r][f]
    BY <1>1, <1>2, Continues DEF Tree
  <1>4. /\ d = [f \in ReqField |-> d[f]] /\ d.replaced = row[req[r].on]
        /\ \A f \in ReqField : f # "replaced" => d[f] = c[f]
    <2>1. PICK w : w = row[req[r].on]
      OBVIOUS
    <2>2. d = [c EXCEPT !.replaced = w]
      BY <1>2, <2>1
    <2>3. c = [f \in ReqField |-> c[f]]
      BY <1>3
    <2>4. d = [f \in ReqField |-> d[f]] /\ d.replaced = w
      BY <2>2, <2>3 DEF ReqField
    <2>5. \A f \in ReqField : f # "replaced" => d[f] = c[f]
      BY <2>2, <2>3 DEF ReqField
    <2>6. QED
      BY <2>1, <2>4, <2>5
  <1>5. /\ d.todo = Tail(req[r].todo)
        /\ d.todo # <<>> => \A f \in ReqField : f # "todo" /\ f # "replaced" => d[f] = req[r][f]
    <2>1. \A f \in ReqField : f # "replaced" => d[f] = c[f]
      BY <1>4
    <2>2. "todo" \in ReqField /\ "todo" # "replaced"
      BY DEF ReqField
    <2>3. d.todo = c.todo
      BY <2>1, <2>2
    <2>4. d.todo = Tail(req[r].todo)
      BY <1>3, <2>3
    <2>5. d.todo # <<>> => \A f \in ReqField : f # "todo" => c[f] = req[r][f]
      BY <1>3, <2>3
    <2>6. QED
      BY <2>1, <2>4, <2>5
  <1>6. Onward(r)
    BY <1>1, <1>4, <1>5, Carries
  <1>7. req'[r].todo # <<>> =>
          \/ req'[r].prev = None \/ "row" \in req'[r].overtaken
          \/ req'[r].prev = req'[r].replaced
    <2>1. \/ req[r].prev = None \/ "row" \in req[r].overtaken
          \/ req[r].prev = row[req[r].on]
      BY <1>1 DEF ReqInv, Past, Live
    <2>2. QED
      BY <1>4, <1>5, <2>1 DEF ReqField
  <1>8. ReqInv(r)'
    BY <1>1, <1>6, <1>7, Late
  <1>9. QED
    BY <1>4, <1>6, <1>8

LEMMA WriteSteps ==
  ASSUME Tree, NEW r \in Request, \A q \in Request : ReqInv(q), Write(r),
         file' = file, \A p \in Request : p # r => \A n : <<p, n>> \in edit => <<p, n>> \in edit'
  PROVE /\ Tree' /\ Moves /\ (\A q \in Request : ReqInv(q)') /\ Beside(r)
        /\ req[r].on \in Id /\ role' = role
        /\ \A m \in Id : m # req[r].on => row'[m] = row[m]
        /\ \A f \in RowField \ {"mark", "body"} : row'[req[r].on][f] = row[req[r].on][f]
        /\ req[r].op # "update" => row'[req[r].on].body = row[req[r].on].body
        /\ "insert" \notin Lefts(r)'
        /\ "insert" \notin Lefts(r) /\ req'[r] # req[r]
  <1>1. PICK on, d : /\ on = req[r].on
                     /\ d = [Continued(req[r]) EXCEPT !.replaced = row[req[r].on]]
    OBVIOUS
  <1>2. /\ Live(on) /\ At(r, "write")
        /\ row' = [row EXCEPT ![on] = Written(row[on], req[r].op)] /\ role' = role
        /\ req' = [RowOvertaken(r, on) EXCEPT ![r] = d]
    <2>1. row' = [row EXCEPT ![req[r].on] = Written(@, req[r].op)]
      BY DEF Write
    <2>2. QED
      BY <1>1, <2>1 DEF Write
  <1>3. /\ "write" \in Lefts(r) /\ req[r].todo # <<>> /\ Head(req[r].todo) = "write"
        /\ Writing(Lefts(r))
    BY <1>2, HeadIsLeft DEF Writing
  <1>4. on \in Id /\ req[r].op \in {"update", "archive", "remove", "restore"}
        /\ "insert" \notin Lefts(r)
    <2>1. req[r].kind \in Kinds /\ on \in IdsOf(req[r].kind)
      BY <1>1, <1>3 DEF ReqInv, Targeted
    <2>2. QED
      BY <1>3, <2>1, Ids DEF ReqInv, Lined, Plan, Kinds, Id, Tenant
  <1>5. /\ req' = [q \in Request |-> req'[q]] /\ req'[r] = d
        /\ \A q \in Request : q # r =>
             req'[q] = IF /\ req[q].on = on /\ req[q].prev # None
                          /\ Ahead(q, "write") \/ Ahead(q, "delete")
                         THEN [req[q] EXCEPT !.overtaken = @ \cup {"row"}] ELSE req[q]
    BY <1>2 DEF RowOvertaken
  <1>6. d = [f \in ReqField |-> d[f]] /\ Onward(r) /\ ReqInv(r)'
    BY <1>1, <1>2, <1>5, Replaces
  <1>7. ASSUME NEW q \in Request, q # r
        PROVE /\ req'[q] = [f \in ReqField |-> req'[q][f]]
              /\ \A f \in ReqField : f # "overtaken" => req'[q][f] = req[q][f]
              /\ req[q].overtaken \subseteq req'[q].overtaken
              /\ Writing(Lefts(q)) /\ req[q].prev # None /\ req[q].on = on =>
                   "row" \in req'[q].overtaken
    <2>1. req[q] = [f \in ReqField |-> req[q][f]]
      BY DEF Tree, ReqsTyped
    <2>2. Ahead(q, "write") \/ Ahead(q, "delete") <=> Writing(Lefts(q))
      BY DEF Ahead, Writing, Lefts, Left
    <2>3. PICK m : m = [req[q] EXCEPT !.overtaken = @ \cup {"row"}]
      OBVIOUS
    <2>4. /\ m = [f \in ReqField |-> m[f]]
          /\ \A f \in ReqField : f # "overtaken" => m[f] = req[q][f]
          /\ m.overtaken = req[q].overtaken \cup {"row"}
      BY <2>1, <2>3 DEF ReqField
    <2>5. \/ req'[q] = m
          \/ req'[q] = req[q] /\ ~(req[q].on = on /\ req[q].prev # None /\ Writing(Lefts(q)))
      BY <1>5, <1>7, <2>2, <2>3
    <2>6. CASE req'[q] = m
      BY <2>4, <2>6
    <2>7. CASE req'[q] = req[q] /\ ~(req[q].on = on /\ req[q].prev # None /\ Writing(Lefts(q)))
      BY <2>1, <2>7
    <2>8. QED
      BY <2>5, <2>6, <2>7
  <1>8. ReqsTyped'
    BY <1>5, <1>6, <1>7 DEF ReqsTyped
  <1>9. row[on] = [f \in RowField |-> row[on][f]]
    BY <1>4 DEF Tree, RowsTyped
  <1>10. /\ Tree' /\ Moves /\ row'[on] = Written(row[on], req[r].op)
         /\ \A m \in Id : m # on => row'[m] = row[m]
    BY <1>2, <1>4, <1>8, <1>9, WrittenRows, OneRowTree
  <1>11. ASSUME NEW q \in Request, q # r PROVE Spared(q)
    <2>1. Writing(Lefts(q)) /\ req[q].on # on => row'[req[q].on] = row[req[q].on]
      <3>1. Writing(Lefts(q)) => req[q].on \in Id
        BY Ids DEF ReqInv, Targeted, Kinds, Id, Tenant
      <3>2. QED
        BY <1>10, <3>1
    <2>2. QED
      BY <1>2, <1>7, <1>11, <2>1 DEF Spared
  <1>12. "insert" \notin Lefts(r)' /\ req'[r] # req[r]
    <2>1. Lefts(r)' = Lefts(r) \ {"write"}
      BY <1>3, <1>6, OnwardLefts
    <2>2. req'[r] = req[r] => Lefts(r)' = Lefts(r)
      BY DEF Lefts
    <2>3. QED
      BY <1>3, <1>4, <2>1, <2>2
  <1>13. \A q \in Request : ReqInv(q)'
    BY <1>6, <1>10, <1>11, Survive
  <1>14. /\ \A f \in RowField \ {"mark", "body"} : row'[on][f] = row[on][f]
         /\ req[r].op # "update" => row'[on].body = row[on].body
    BY <1>4, <1>9, <1>10, WrittenRows
  <1>15. Beside(r)
    BY <1>7 DEF Beside
  <1>16. QED
    BY <1>1, <1>2, <1>4, <1>10, <1>12, <1>13, <1>14, <1>15

LEMMA DeleteSteps ==
  ASSUME Tree, NEW r \in Request, \A q \in Request : ReqInv(q), Delete(r),
         file' = file, \A p \in Request : p # r => \A n : <<p, n>> \in edit => <<p, n>> \in edit'
  PROVE /\ Tree' /\ Moves /\ (\A q \in Request : ReqInv(q)') /\ Alone(r)
        /\ req[r].on \in Id
        /\ \A m \in Id :
             IF m \in Cascade(req[r].on) THEN row'[m].st = "gone" ELSE row'[m] = row[m]
        /\ \A t \in Tenant : row'[t].st = "live" => role'[t] = role[t]
        /\ "insert" \notin Lefts(r)'
        /\ "insert" \notin Lefts(r) /\ req'[r] # req[r]
  <1>1. PICK on, gone, d :
          /\ on = req[r].on /\ gone = Cascade(req[r].on)
          /\ d = [Continued(req[r]) EXCEPT !.replaced = row[req[r].on]]
    OBVIOUS
  <1>2. /\ Live(on) /\ At(r, "delete")
        /\ row' = [n \in Id |-> IF n \in gone THEN [NoRow EXCEPT !.st = "gone"] ELSE row[n]]
        /\ role' = [t \in Tenant |-> IF t \in gone THEN [u \in User |-> None] ELSE role[t]]
        /\ req' = [req EXCEPT ![r] = d]
    <2>1. req' = [req EXCEPT ![r] = [Continued(@) EXCEPT !.replaced = row[req[r].on]]]
      BY DEF Delete
    <2>2. req' = [req EXCEPT ![r] = d]
      BY <1>1, <2>1
    <2>3. QED
      BY <1>1, <2>2 DEF Delete
  <1>3. /\ "delete" \in Lefts(r) /\ req[r].todo # <<>> /\ Head(req[r].todo) = "delete"
        /\ Writing(Lefts(r))
    BY <1>2, HeadIsLeft DEF Writing
  <1>4. on \in Id /\ "insert" \notin Lefts(r)
    <2>1. req[r].kind \in Kinds /\ on \in IdsOf(req[r].kind)
      BY <1>1, <1>3 DEF ReqInv, Targeted
    <2>2. QED
      BY <1>3, <2>1, Ids DEF ReqInv, Lined, Plan, Kinds, Id, Tenant
  <1>5. req'[r] = d
    BY <1>2 DEF Tree, ReqsTyped
  <1>6. d = [f \in ReqField |-> d[f]] /\ Onward(r) /\ ReqInv(r)'
    BY <1>1, <1>2, <1>5, Replaces
  <1>7. Alone(r)
    BY <1>2, <1>6, Serves DEF Tree
  <1>8. \A n \in Id : Live(n) /\ row[n].up \in gone => n \in gone
    BY <1>1, <1>4, CascadeCloses
  <1>9. \A n \in Id : row'[n] = IF n \in gone THEN [NoRow EXCEPT !.st = "gone"] ELSE row[n]
    BY <1>2
  <1>10. PICK bare : /\ bare = [NoRow EXCEPT !.st = "gone"]
                     /\ bare = [f \in RowField |-> bare[f]]
                     /\ bare.st = "gone" /\ bare.mark = "plain"
    <2>1. PICK b : b = [NoRow EXCEPT !.st = "gone"]
      OBVIOUS
    <2>2. b = [f \in RowField |-> b[f]] /\ b.st = "gone" /\ b.mark = "plain"
      BY <2>1 DEF NoRow, RowField
    <2>3. QED
      BY <2>1, <2>2
  <1>11. RowsTyped'
    <2>1. row' = [n \in Id |-> row'[n]]
      BY <1>2
    <2>2. \A n \in Id : row'[n] = bare \/ row'[n] = row[n]
      BY <1>9, <1>10
    <2>3. ASSUME NEW n \in Id
          PROVE /\ row'[n] = [f \in RowField |-> row'[n][f]]
                /\ row'[n].st \in {"none", "live", "gone"}
                /\ row'[n].st # "live" => row'[n].mark = "plain"
      <3>1. CASE row'[n] = bare
        BY <1>10, <3>1
      <3>2. CASE row'[n] = row[n]
        BY <3>2 DEF Tree, RowsTyped, Live
      <3>3. QED
        BY <2>2, <3>1, <3>2
    <2>4. QED
      BY <2>1, <2>3 DEF RowsTyped, Live
  <1>12. \A n \in Id : row'[n].st = "live" => n \notin gone /\ row'[n] = row[n]
    BY <1>9, <1>10
  <1>13. \A n \in Id : n \notin gone => row'[n] = row[n]
    BY <1>9
  <1>14. Rooted'
    <2>1. ASSUME NEW n \in Id, row'[n].st = "live"
          PROVE row'[n].up \in Above(n) /\ (n \notin Org => row'[row'[n].up].st = "live")
      <3>1. n \notin gone /\ row'[n] = row[n]
        BY <1>12, <2>1
      <3>2. /\ row[n].up \in Above(n)
            /\ n \notin Org => row[row[n].up].st = "live" /\ row[n].up \in Id
        BY <2>1, <3>1, Ids DEF Tree, Rooted, Live
      <3>3. row[n].up \notin gone
        BY <1>8, <2>1, <3>1 DEF Live
      <3>4. QED
        BY <1>13, <3>1, <3>2, <3>3
    <2>2. QED
      BY <2>1 DEF Rooted, Live
  <1>15. \A t \in Tenant : role'[t] = IF t \in gone THEN [u \in User |-> None] ELSE role[t]
    BY <1>2
  <1>16. RoleTyped'
    BY <1>2 DEF Tree, RoleTyped
  <1>17. Seated'
    BY <1>13, <1>15, Ids DEF Tree, Seated, Live
  <1>18. SlugsApart'
    BY <1>12, Ids DEF Tree, SlugsApart, Live
  <1>19. Tree'
    BY <1>7, <1>11, <1>14, <1>16, <1>17, <1>18 DEF Tree, Alone
  <1>20. Moves
    BY <1>9, <1>10 DEF Moves
  <1>21. ASSUME NEW q \in Request, q # r PROVE Spared(q)
    <2>1. req'[q] = req[q]
      BY <1>7, <1>21 DEF Alone
    <2>2. Writing(Lefts(q)) => row'[req[q].on] = row[req[q].on] \/ row'[req[q].on].st = "gone"
      <3>1. Writing(Lefts(q)) => req[q].on \in Id
        BY Ids DEF ReqInv, Targeted, Kinds, Id, Tenant
      <3>2. QED
        BY <1>9, <1>10, <3>1
    <2>3. \A t \in Tenant : row'[t].st = "live" => role'[t] = role[t]
      BY <1>12, <1>15, Ids
    <2>4. QED
      BY <1>21, <2>1, <2>2, <2>3 DEF Spared, Live
  <1>22. "insert" \notin Lefts(r)' /\ req'[r] # req[r]
    <2>1. Lefts(r)' = Lefts(r) \ {"delete"}
      BY <1>3, <1>6, OnwardLefts
    <2>2. req'[r] = req[r] => Lefts(r)' = Lefts(r)
      BY DEF Lefts
    <2>3. QED
      BY <1>3, <1>4, <2>1, <2>2
  <1>23. /\ \A m \in Id : IF m \in gone THEN row'[m].st = "gone" ELSE row'[m] = row[m]
         /\ \A t \in Tenant : row'[t].st = "live" => role'[t] = role[t]
    BY <1>9, <1>10, <1>12, <1>15, Ids
  <1>24. QED
    BY <1>1, <1>4, <1>6, <1>7, <1>19, <1>20, <1>21, <1>22, <1>23, Survive

LEMMA UpsertSteps ==
  ASSUME Tree, NEW r \in Request, \A q \in Request : ReqInv(q),
         NEW invitee \in User, NEW ro \in Granted, Upsert(r, invitee, ro),
         file' = file, \A p \in Request : p # r => \A n : <<p, n>> \in edit => <<p, n>> \in edit'
  PROVE /\ Tree' /\ Moves /\ (\A q \in Request : ReqInv(q)') /\ Beside(r)
        /\ req[r].at \in Tenant
        /\ \A t \in Tenant : t # req[r].at => role'[t] = role[t]
        /\ \A u \in User : u # invitee => role'[req[r].at][u] = role[req[r].at][u]
        /\ "insert" \notin Lefts(r)' /\ "insert" \notin Lefts(r)
  <1>1. PICK t, c : t = req[r].at /\ c = Continued(req[r])
    OBVIOUS
  <1>2. PICK lower \in BOOLEAN :
          lower <=> /\ role[t][invitee] # None
                    /\ ROLE_HIERARCHY[ro] < ROLE_HIERARCHY[role[t][invitee]]
    OBVIOUS
  <1>3. /\ At(r, "upsert") /\ Live(t) /\ row' = row
        /\ role' = [role EXCEPT ![t][invitee] = ro]
        /\ req' = [q \in Request |->
             IF q = r THEN c
             ELSE IF lower /\ req[q].user = invitee /\ Cleared(q)
               THEN [req[q] EXCEPT !.overtaken = @ \cup {"role"}]
             ELSE req[q]]
    BY <1>1, <1>2 DEF Upsert, MemberStorable
  <1>4. /\ "upsert" \in Lefts(r) /\ req[r].todo # <<>> /\ Head(req[r].todo) = "upsert"
        /\ Lefts(r) # {}
    BY <1>3, HeadIsLeft
  <1>5. t \in Tenant /\ t \in Id
    BY <1>1, <1>4, Ids DEF ReqInv, Targeted
  <1>6. "insert" \notin Lefts(r) /\ ~Writing(Lefts(r))
    BY <1>4 DEF ReqInv, Lined, Plan, Writing
  <1>7. /\ req'[r] = c /\ c = [f \in ReqField |-> c[f]] /\ c.todo = Tail(req[r].todo)
        /\ c.todo # <<>> => \A f \in ReqField : f # "todo" => c[f] = req[r][f]
        /\ req' = [q \in Request |-> req'[q]]
    BY <1>1, <1>3, <1>4, Continues DEF Tree
  <1>8. Onward(r)
    BY <1>4, <1>7 DEF Onward, ReqField
  <1>9. ReqInv(r)'
    <2>1. req'[r].todo # <<>> =>
            \/ req'[r].prev = None \/ "row" \in req'[r].overtaken
            \/ req'[r].prev = req'[r].replaced
      BY <1>4, <1>6, <1>7 DEF ReqInv, Past, ReqField
    <2>2. QED
      BY <1>4, <1>8, <2>1, Late
  <1>10. ASSUME NEW q \in Request, q # r
         PROVE /\ req'[q] = [f \in ReqField |-> req'[q][f]]
               /\ \A f \in ReqField : f # "overtaken" => req'[q][f] = req[q][f]
               /\ req[q].overtaken \subseteq req'[q].overtaken
               /\ lower /\ req[q].user = invitee /\ Cleared(q) => "role" \in req'[q].overtaken
    <2>1. req[q] = [f \in ReqField |-> req[q][f]]
      BY DEF Tree, ReqsTyped
    <2>2. PICK m : m = [req[q] EXCEPT !.overtaken = @ \cup {"role"}]
      OBVIOUS
    <2>3. /\ m = [f \in ReqField |-> m[f]]
          /\ \A f \in ReqField : f # "overtaken" => m[f] = req[q][f]
          /\ m.overtaken = req[q].overtaken \cup {"role"}
      BY <2>1, <2>2 DEF ReqField
    <2>4. \/ req'[q] = m
          \/ req'[q] = req[q] /\ ~(lower /\ req[q].user = invitee /\ Cleared(q))
      BY <1>3, <1>10, <2>2
    <2>5. CASE req'[q] = m
      BY <2>3, <2>5
    <2>6. CASE req'[q] = req[q] /\ ~(lower /\ req[q].user = invitee /\ Cleared(q))
      BY <2>1, <2>6
    <2>7. QED
      BY <2>4, <2>5, <2>6
  <1>11. ReqsTyped'
    BY <1>7, <1>10 DEF ReqsTyped
  <1>12. /\ \A s \in Tenant : s # t => role'[s] = role[s]
         /\ \A u \in User : u # invitee => role'[t][u] = role[t][u]
         /\ role'[t][invitee] = ro
    BY <1>3, <1>5 DEF Tree, RoleTyped
  <1>13. ro \in Role
    BY GrantedAssumption
  <1>14. RowsTyped' /\ Rooted' /\ SlugsApart' /\ RoleTyped' /\ Seated'
    <2>1. RowsTyped' /\ Rooted' /\ SlugsApart'
      BY <1>3 DEF Tree, RowsTyped, Rooted, SlugsApart, Live
    <2>2. RoleTyped'
      BY <1>3, <1>13 DEF Tree, RoleTyped
    <2>3. Seated'
      BY <1>3, <1>12 DEF Tree, Seated, Live
    <2>4. QED
      BY <2>1, <2>2, <2>3
  <1>15. Tree' /\ Moves
    BY <1>3, <1>11, <1>14 DEF Tree, Moves
  <1>16. ASSUME NEW q \in Request, q # r PROVE Spared(q)
    <2>1. ASSUME NEW s \in Tenant, req[q].user \in User, role[s][req[q].user] # None, Cleared(q)
          PROVE \/ "role" \in req'[q].overtaken
                \/ role'[s][req[q].user] = role[s][req[q].user]
                \/ /\ role'[s][req[q].user] # None
                   /\ ROLE_HIERARCHY[role'[s][req[q].user]] >= ROLE_HIERARCHY[role[s][req[q].user]]
      <3>1. CASE s # t \/ req[q].user # invitee
        BY <1>12, <2>1, <3>1
      <3>2. CASE s = t /\ req[q].user = invitee /\ lower
        BY <1>10, <1>16, <2>1, <3>2
      <3>3. CASE s = t /\ req[q].user = invitee /\ ~lower
        <4>1. role[t][invitee] \in Role
          BY <1>5, <2>1, <3>3 DEF Tree, RoleTyped
        <4>2. ROLE_HIERARCHY[ro] >= ROLE_HIERARCHY[role[t][invitee]]
          <5>1. ~(ROLE_HIERARCHY[ro] < ROLE_HIERARCHY[role[t][invitee]])
            BY <1>2, <2>1, <3>3
          <5>2. QED
            BY <1>13, <4>1, <5>1, Ranks
        <4>3. ro # None
          BY <1>13, IdsAssumption
        <4>4. QED
          BY <1>12, <3>3, <4>2, <4>3
      <3>4. QED
        BY <3>1, <3>2, <3>3
    <2>2. QED
      BY <1>3, <1>10, <1>16, <2>1 DEF Spared
  <1>17. \A q \in Request : ReqInv(q)'
    BY <1>9, <1>15, <1>16, Survive
  <1>18. "insert" \notin Lefts(r)'
    BY <1>6, <1>8, OnwardLefts
  <1>19. Beside(r)
    BY <1>10 DEF Beside
  <1>20. QED
    BY <1>1, <1>5, <1>6, <1>12, <1>15, <1>17, <1>18, <1>19

LEMMA TaskSteps ==
  ASSUME Tree, NEW k \in Task, \A q \in Request : ReqInv(q), SetTaskDeleted(k),
         file' = file, edit' = edit
  PROVE /\ Tree' /\ Moves /\ (\A q \in Request : ReqInv(q)')
        /\ \A m \in Id : m # k => row'[m] = row[m]
  <1>1. PICK w : /\ w = [row[k] EXCEPT !.mark = IF @ = "plain" THEN "deleted" ELSE "plain"]
                 /\ row' = [row EXCEPT ![k] = w]
    BY DEF SetTaskDeleted
  <1>2. k \in Id /\ Live(k) /\ role' = role /\ req' = req
    BY DEF SetTaskDeleted, Id
  <1>3. row[k] = [f \in RowField |-> row[k][f]]
    BY <1>2 DEF Tree, RowsTyped
  <1>4. /\ w = [f \in RowField |-> w[f]]
        /\ \A f \in RowField \ {"mark", "body"} : w[f] = row[k][f]
    BY <1>1, <1>3 DEF RowField
  <1>5. ReqsTyped'
    BY <1>2 DEF Tree, ReqsTyped
  <1>6. Tree' /\ Moves /\ \A m \in Id : m # k => row'[m] = row[m]
    <2>1. row' = [row EXCEPT ![k] = w]
      BY <1>1
    <2>2. QED
      BY <1>2, <1>4, <1>5, <2>1, OneRowTree
  <1>7. ASSUME NEW q \in Request PROVE Spared(q)
    <2>1. Writing(Lefts(q)) => row'[req[q].on] = row[req[q].on]
      <3>1. Writing(Lefts(q)) => req[q].on \in Id /\ req[q].on # k
        BY Ids, Apart DEF ReqInv, Targeted, Kinds, Id, Tenant
      <3>2. QED
        BY <1>6, <3>1
    <2>2. QED
      BY <1>2, <2>1 DEF Spared
  <1>8. \A q \in Request : ReqInv(q)'
    BY <1>6, <1>7, OthersKept
  <1>9. QED
    BY <1>6, <1>8

\* Whoever comes to write a row is entitled to it.
LEMMA WriterEntitled ==
  ASSUME Tree, NEW r \in Request, ReqInv(r), At(r, "write") \/ At(r, "delete"),
         Live(req[r].on)
  PROVE "role" \in req[r].overtaken \/ Entitled(req[r].user, req[r].on, req[r].min)
  <1>1. PICK q, on, at : q = req[r] /\ on = q.on /\ at = q.at
    OBVIOUS
  <1>2. /\ Writing(Lefts(r)) /\ q.user \in User /\ q.min \in Role
        /\ {"guard", "role", "task", "within", "comment", "attachment"} \cap Lefts(r) = {}
    <2>1. PICK a \in {"write", "delete"} : At(r, a)
      OBVIOUS
    <2>2. /\ a \in Lefts(r) /\ \A b \in Lefts(r) : b # a => Place[a] < Place[b]
          /\ req[r].user \in User /\ req[r].min \in Role
      BY <2>1, HeadIsLeft
    <2>3. /\ Place["write"] = 5 /\ Place["delete"] = 5 /\ Place["guard"] = 0
          /\ \A b \in {"role", "task"} : Place[b] = 2
          /\ \A b \in {"within", "comment", "attachment"} : Place[b] = 3
      BY Places
    <2>4. \A b \in {"guard", "role", "task", "within", "comment", "attachment"} : b \notin Lefts(r)
      BY <2>2, <2>3
    <2>5. QED
      BY <1>1, <2>2, <2>4 DEF Writing
  <1>3. /\ q.kind \in Kinds /\ on \in IdsOf(q.kind) /\ at \in Id
        /\ q.kind \in {"org", "ws"} => on = at
        /\ q.kind = "project" => at \in Workspace
        /\ q.kind \in {"comment", "attachment"} => at \in Task
    BY <1>1, <1>2 DEF ReqInv, Targeted
  <1>4. /\ q.kind = "project" => row[on].up = at
        /\ q.kind = "comment" => row[on].up = at /\ row[on].by = q.user
        /\ q.kind = "attachment" =>
             /\ row[on].up = at
             /\ row[on].by = q.user \/ ROLE_HIERARCHY[q.read] >= ROLE_HIERARCHY["ADMIN"]
    BY <1>1, <1>2 DEF ReqInv, Linked
  <1>5. on \in Id /\ (q.kind \notin {"org", "ws"} => on \notin Org)
    BY <1>3, Ids, Apart DEF Kinds, Id, Tenant
  <1>6. Live(at)
    BY <1>1, <1>3, <1>4, <1>5 DEF Kinds, Tree, Rooted
  <1>7. Scope(on) = Scope(at) /\ Scope(at) \in Tenant
    <2>1. CASE q.kind \in {"org", "ws"}
      BY <1>3, <1>6, <2>1, Scopes
    <2>2. CASE q.kind = "project"
      <3>1. on \in Project /\ at \in Tenant
        BY <1>3, <2>2, Ids DEF Tenant
      <3>2. QED
        BY <1>1, <1>3, <1>4, <1>5, <1>6, <2>2, <3>1, Scopes
    <2>3. CASE q.kind \in {"comment", "attachment"}
      <3>1. on \in Comment \cup Attachment
        BY <1>3, <2>3, Ids
      <3>2. QED
        BY <1>1, <1>3, <1>4, <1>5, <1>6, <2>3, <3>1, Scopes
    <2>4. QED
      BY <1>3, <2>1, <2>2, <2>3 DEF Kinds
  <1>8. SUFFICES ASSUME "role" \notin q.overtaken PROVE Entitled(q.user, on, q.min)
    BY <1>1
  <1>9. /\ HasRole(q.user, Scope(on), q.min)
        /\ q.kind = "attachment" =>
             /\ q.read \in Role
             /\ ROLE_HIERARCHY[role[Scope(on)][q.user]] >= ROLE_HIERARCHY[q.read]
    BY <1>1, <1>2, <1>6, <1>7, <1>8 DEF ReqInv, RoleKept
  <1>10. /\ on \in Comment => q.kind = "comment"
         /\ on \in Attachment => q.kind = "attachment"
    BY <1>3, Ids, Apart DEF Kinds, Tenant
  <1>11. q.kind = "attachment" => row[on].by = q.user \/ HasRole(q.user, Scope(on), "ADMIN")
    <2>1. role[Scope(on)][q.user] \in Role /\ "ADMIN" \in Role
      BY <1>2, <1>7, <1>9 DEF Tree, RoleTyped, HasRole, Role, ROLE_HIERARCHY
    <2>2. QED
      BY <1>4, <1>9, <2>1, Ranks DEF HasRole
  <1>12. QED
    BY <1>4, <1>9, <1>10, <1>11 DEF Entitled

-----------------------------------------------------------------------------
(* The files *)

Creating(r) == req[r].kind = "attachment" /\ "insert" \in Lefts(r)

KeysApart ==
  \A a, b \in Attachment : Live(a) /\ Live(b) /\ row[a].label = row[b].label => a = b

\* The key of a file that is to have a row is nobody else's.
KeysDrawn ==
  \A r \in Request :
    Creating(r) =>
      /\ \A a \in Attachment : Live(a) => row[a].label # req[r].label
      /\ \A q \in Request : Creating(q) /\ req[q].label = req[r].label => q = r

Accounted ==
  \A k \in file \ stranded :
    \/ \E a \in Attachment : Live(a) /\ row[a].label = k
    \/ \E r \in Request : Creating(r) /\ req[r].label = k

FilesOK == FilesHeld /\ KeysApart /\ KeysDrawn /\ Accounted

\* A step of request r that stores no attachment.
LEMMA FilesMove ==
  ASSUME FilesOK, NEW r \in Request,
         \A a \in Attachment :
           row'[a].st = "live" => row[a].st = "live" /\ row'[a].label = row[a].label,
         \A a \in Attachment :
           Live(a) /\ row'[a].st # "live" => row[a].label \in stranded',
         file \subseteq file', stranded \subseteq stranded',
         \A q \in Request : q # r =>
           req'[q].kind = req[q].kind /\ req'[q].todo = req[q].todo /\ req'[q].label = req[q].label,
         Creating(r)' => \/ Creating(r) /\ req'[r].label = req[r].label
                         \/ req'[r].label \notin Drawn,
         Creating(r) /\ req[r].label \in file' \ stranded' =>
           Creating(r)' /\ req'[r].label = req[r].label,
         \A k \in file' : k \in file \/ (Creating(r)' /\ k = req'[r].label)
  PROVE FilesOK'
  <1>1. FilesHeld' /\ KeysApart'
    BY DEF FilesOK, FilesHeld, KeysApart, Live
  <1>2. \A q \in Request : q # r =>
          (Creating(q)' <=> Creating(q)) /\ req'[q].label = req[q].label
    BY DEF Creating, Lefts
  <1>3. ASSUME NEW p \in Request, Creating(p)'
        PROVE /\ \A a \in Attachment : row'[a].st = "live" => row'[a].label # req'[p].label
              /\ \A q \in Request : Creating(q)' /\ req'[q].label = req'[p].label => q = p
    <2>1. CASE p # r \/ (Creating(r) /\ req'[r].label = req[r].label)
      <3>1. Creating(p) /\ req'[p].label = req[p].label
        BY <1>2, <1>3, <2>1
      <3>2. \A a \in Attachment : row'[a].st = "live" => row'[a].label # req'[p].label
        BY <3>1 DEF FilesOK, KeysDrawn, Live
      <3>3. ASSUME NEW q \in Request, Creating(q)', req'[q].label = req'[p].label
            PROVE q = p
        <4>1. CASE q # r \/ (Creating(r) /\ req'[r].label = req[r].label)
          BY <1>2, <3>1, <3>3, <4>1 DEF FilesOK, KeysDrawn
        <4>2. CASE q = r /\ req'[r].label \notin Drawn
          BY <3>1, <3>3, <4>2 DEF Drawn
        <4>3. QED
          BY <3>3, <4>1, <4>2
      <3>4. QED
        BY <3>2, <3>3
    <2>2. CASE p = r /\ req'[r].label \notin Drawn
      <3>1. \A a \in Attachment : row'[a].st = "live" => row'[a].label # req'[p].label
        BY <2>2 DEF Drawn
      <3>2. \A q \in Request : Creating(q)' /\ req'[q].label = req'[p].label => q = p
        BY <1>2, <2>2 DEF Drawn
      <3>3. QED
        BY <3>1, <3>2
    <2>3. QED
      BY <1>3, <2>1, <2>2
  <1>4. KeysDrawn'
    BY <1>3 DEF KeysDrawn, Live
  <1>5. ASSUME NEW k \in file' \ stranded'
        PROVE \/ \E a \in Attachment : row'[a].st = "live" /\ row'[a].label = k
              \/ \E p \in Request : Creating(p)' /\ req'[p].label = k
    <2>1. CASE k \in file
      <3>1. CASE \E a \in Attachment : Live(a) /\ row[a].label = k
        <4>1. PICK a \in Attachment : Live(a) /\ row[a].label = k
          BY <3>1
        <4>2. row'[a].st = "live"
          BY <1>5, <4>1
        <4>3. QED
          BY <4>1, <4>2
      <3>2. CASE \E p \in Request : Creating(p) /\ req[p].label = k
        BY <1>2, <1>5, <3>2
      <3>3. QED
        BY <1>5, <2>1, <3>1, <3>2 DEF FilesOK, Accounted
    <2>2. CASE k \notin file
      BY <1>5, <2>2
    <2>3. QED
      BY <2>1, <2>2
  <1>6. Accounted'
    BY <1>5 DEF Accounted, Live
  <1>7. QED
    BY <1>1, <1>4, <1>6 DEF FilesOK

-----------------------------------------------------------------------------
(* The inductive invariant *)

Inv ==
  /\ Tree
  /\ \A r \in Request : ReqInv(r)
  /\ OwnerlessOnlyByInvite /\ AuditTellsThePast
  /\ FilesOK

\* A step of request r that changes no row, no role, and stores no attachment.
LEMMA QuietKeeps ==
  ASSUME Inv, NEW r \in Request, Alone(r), ReqInv(r)', row' = row, role' = role,
         unseated' = unseated, AuditTellsThePast',
         file \subseteq file', stranded \subseteq stranded',
         \A p \in Request : p # r => \A n : <<p, n>> \in edit => <<p, n>> \in edit',
         Creating(r)' => \/ Creating(r) /\ req'[r].label = req[r].label
                         \/ req'[r].label \notin Drawn,
         Creating(r) /\ req[r].label \in file' \ stranded' =>
           Creating(r)' /\ req'[r].label = req[r].label,
         \A k \in file' : k \in file \/ (Creating(r)' /\ k = req'[r].label)
  PROVE Inv' /\ Beside(r)
  <1>1. Tree'
    BY QuietTree DEF Inv, Alone
  <1>2. ASSUME NEW q \in Request PROVE ReqInv(q)'
    <2>1. CASE q = r
      BY <2>1
    <2>2. CASE q # r
      <3>1. req'[q] = req[q]
        BY <2>2 DEF Alone
      <3>2. QED
        BY <2>2, <3>1, QuietOthers DEF Inv
    <2>3. QED
      BY <2>1, <2>2
  <1>3. OwnerlessOnlyByInvite'
    BY DEF Inv, OwnerlessOnlyByInvite, Live
  <1>4. FilesOK'
    BY FilesMove DEF Inv, Alone, Live
  <1>5. Beside(r)
    BY DEF Beside, Alone
  <1>6. QED
    BY <1>1, <1>2, <1>3, <1>4, <1>5 DEF Inv

LEMMA CheckedStep ==
  ASSUME Inv, NEW r \in Request, Alone(r), Checked(r),
         unseated' = unseated, audit' = audit, stranded' = stranded,
         file' = file \/ (At(r, "upload") /\ file' = file \cup {req[r].label}),
         \A p \in Request : p # r => \A n : <<p, n>> \in edit => <<p, n>> \in edit'
  PROVE Inv' /\ Beside(r)
  <1>1. ReqInv(r) /\ Tree /\ FilesHeld
    BY DEF Inv, FilesOK
  <1>2. ReqInv(r)'
    BY <1>1, CheckedKeeps
  <1>3. Onward(r) /\ row' = row /\ role' = role
    BY DEF Checked
  <1>4. Creating(r)' => Creating(r) /\ req'[r].label = req[r].label
    <2>1. SUFFICES ASSUME Creating(r)' PROVE Creating(r) /\ req'[r].label = req[r].label
      OBVIOUS
    <2>2. "insert" \in Lefts(r)
      BY <1>1, <1>3, <2>1, OnwardLefts DEF Creating
    <2>3. req'[r].todo # <<>>
      BY <2>1, ShortLists DEF Creating, Lefts
    <2>4. Head(req[r].todo) # "attachment"
      BY <1>1, <1>3, <2>2, OnwardLefts DEF ReqInv, Lined, Plan
    <2>5. QED
      BY <1>3, <2>1, <2>2, <2>3, <2>4 DEF Checked, Onward, Creating
  <1>5. Creating(r) => Creating(r)'
    <2>1. SUFFICES ASSUME Creating(r) PROVE Creating(r)'
      OBVIOUS
    <2>2. "insert" \in Lefts(r)'
      <3>1. Head(req[r].todo) # "insert"
        BY DEF Checked
      <3>2. QED
        BY <1>1, <1>3, <2>1, <3>1, OnwardLefts DEF Creating
    <2>3. req'[r].todo # <<>>
      BY <2>2, ShortLists DEF Lefts
    <2>4. QED
      BY <1>3, <2>1, <2>2, <2>3 DEF Onward, Creating
  <1>6. At(r, "upload") => Creating(r)
    BY <1>1, HeadIsLeft DEF ReqInv, Lined, Plan, Creating
  <1>7. AuditTellsThePast'
    BY DEF Inv, AuditTellsThePast
  <1>8. QED
    BY <1>2, <1>3, <1>4, <1>5, <1>6, <1>7, QuietKeeps

LEMMA BegunStep ==
  ASSUME Inv, NEW r \in Request, req[r] = Free, Alone(r), ReqInv(r)',
         row' = row, role' = role, unseated' = unseated, audit' = audit,
         file' = file, stranded' = stranded,
         Creating(r)' => req'[r].label \notin Drawn,
         \A p \in Request : p # r => \A n : <<p, n>> \in edit => <<p, n>> \in edit'
  PROVE Inv' /\ Beside(r)
  <1>1. ~Creating(r)
    BY Shapes, ShortLists DEF Creating, Lefts
  <1>2. AuditTellsThePast'
    BY DEF Inv, AuditTellsThePast
  <1>3. QED
    BY <1>1, <1>2, QuietKeeps

LEMMA InsertStep ==
  ASSUME Inv, NEW r \in Request, Store(r)
  PROVE Inv' /\ Beside(r)
  <1>1. /\ Insert(r) /\ file' = file /\ stranded' = stranded /\ edit' = edit
        /\ audit' = audit /\ unseated' = unseated
    BY DEF Store, Insert
  <1>2. Tree /\ \A q \in Request : ReqInv(q)
    BY DEF Inv
  <1>3. /\ Tree' /\ Moves /\ (\A q \in Request : ReqInv(q)') /\ Alone(r)
        /\ "insert" \notin Lefts(r)'
    BY <1>1, <1>2, InsertSteps
  <1>4. PICK n \in IdsOf(req[r].kind) :
          /\ ~Live(n)
          /\ row'[n].st = "live" /\ row'[n].label = req[r].label
          /\ \A m \in Id : m # n => row'[m] = row[m]
          /\ \A t \in Tenant : t # n => role'[t] = role[t]
          /\ n \in Tenant => role'[n][req[r].user] = "OWNER"
    BY <1>1, <1>2, InsertSteps
  <1>5. "insert" \in Lefts(r) /\ "upload" \notin Lefts(r) /\ req[r].user \in User
        /\ req[r].kind \in Kinds
    <2>1. At(r, "insert")
      BY <1>1 DEF Insert
    <2>2. QED
      BY <1>2, <2>1, HeadIsLeft, Places DEF ReqInv, Targeted
  <1>6. OwnerlessOnlyByInvite'
    <2>1. ASSUME NEW t \in Tenant, row'[t].st = "live", t \notin unseated
          PROVE \E u \in User : role'[t][u] = "OWNER"
      <3>1. CASE t = n
        BY <1>4, <1>5, <3>1
      <3>2. CASE t # n
        BY <1>4, <2>1, <3>2, Ids DEF Inv, OwnerlessOnlyByInvite, Live
      <3>3. QED
        BY <3>1, <3>2
    <2>2. QED
      BY <1>1, <2>1 DEF OwnerlessOnlyByInvite, Live
  <1>7. AuditTellsThePast'
    BY <1>1 DEF Inv, AuditTellsThePast
  <1>8. Attachment \subseteq Id
    BY DEF Id
  <1>9. FilesOK'
    <2>1. CASE req[r].kind = "attachment"
      <3>1. n \in Attachment /\ Creating(r) /\ req[r].label \in file
        BY <1>2, <1>4, <1>5, <2>1, Ids DEF Creating, ReqInv, Stored
      <3>2. \A a \in Attachment : a # n => row'[a] = row[a]
        BY <1>4, <1>8
      <3>3. \A a \in Attachment : Live(a) => row[a].label # req[r].label
        BY <3>1 DEF Inv, FilesOK, KeysDrawn
      <3>4. FilesHeld'
        BY <1>1, <1>4, <3>1, <3>2 DEF Inv, FilesOK, FilesHeld, Live
      <3>5. KeysApart'
        BY <1>4, <3>2, <3>3 DEF Inv, FilesOK, KeysApart, Live
      <3>6. ~Creating(r)'
        BY <1>3 DEF Creating
      <3>7. \A q \in Request : q # r =>
              (Creating(q)' <=> Creating(q)) /\ req'[q].label = req[q].label
        BY <1>3 DEF Alone, Creating, Lefts
      <3>8. \A q \in Request : Creating(q) /\ req[q].label = req[r].label => q = r
        BY <3>1 DEF Inv, FilesOK, KeysDrawn
      <3>9. KeysDrawn'
        <4>1. ASSUME NEW p \in Request, Creating(p)', NEW a \in Attachment, row'[a].st = "live"
              PROVE row'[a].label # req'[p].label
          BY <1>4, <3>2, <3>6, <3>7, <3>8, <4>1 DEF Inv, FilesOK, KeysDrawn, Live
        <4>2. ASSUME NEW p \in Request, Creating(p)', NEW q \in Request, Creating(q)',
                     req'[q].label = req'[p].label
              PROVE q = p
          BY <3>6, <3>7, <4>2 DEF Inv, FilesOK, KeysDrawn
        <4>3. QED
          BY <4>1, <4>2 DEF KeysDrawn, Live
      <3>10. ASSUME NEW k \in file \ stranded
             PROVE \/ \E a \in Attachment : row'[a].st = "live" /\ row'[a].label = k
                   \/ \E q \in Request : Creating(q)' /\ req'[q].label = k
        <4>1. CASE \E a \in Attachment : Live(a) /\ row[a].label = k
          BY <1>4, <3>2, <4>1 DEF Live
        <4>2. CASE \E q \in Request : Creating(q) /\ req[q].label = k
          BY <1>4, <3>1, <3>7, <4>2
        <4>3. QED
          BY <3>10, <4>1, <4>2 DEF Inv, FilesOK, Accounted
      <3>11. Accounted'
        BY <1>1, <3>10 DEF Accounted, Live
      <3>12. QED
        BY <3>4, <3>5, <3>9, <3>11 DEF FilesOK
    <2>2. CASE req[r].kind # "attachment"
      <3>1. \A a \in Attachment : row'[a] = row[a]
        <4>1. n \notin Attachment
          BY <1>4, <1>5, <2>2, Ids, Apart DEF Kinds
        <4>2. QED
          BY <1>4, <1>8, <4>1
      <3>2. ~Creating(r) /\ ~Creating(r)'
        BY <1>3, <2>2 DEF Creating
      <3>3. QED
        BY <1>1, <1>3, <3>1, <3>2, FilesMove DEF Inv, Alone, Live
    <2>3. QED
      BY <2>1, <2>2
  <1>10. Beside(r)
    BY <1>3 DEF Beside, Alone
  <1>11. QED
    BY <1>3, <1>6, <1>7, <1>9, <1>10 DEF Inv

\* A step of the tenants on rows or roles, with what Tenants adds to it.
LEMMA TenantsFrame ==
  ASSUME NEW r \in Request, Tenants(r)
  PROVE /\ file' = file /\ stranded \subseteq stranded'
        /\ \A a \in Attachment : Live(a) /\ row'[a].st = "gone" => row[a].label \in stranded'
        /\ row' = row => stranded' = stranded
        /\ \A p \in Request : p # r => \A n : <<p, n>> \in edit => <<p, n>> \in edit'
  <1>1. \A a \in Attachment : row' = row /\ Live(a) => row'[a].st # "gone"
    BY DEF Live
  <1>2. /\ file' = file
        /\ stranded' = stranded \cup
             {row[a].label : a \in {b \in Attachment : Live(b) /\ row'[b].st = "gone"}}
        /\ edit' = edit \ {e \in edit : e[1] = r}
    BY DEF Tenants
  <1>3. row' = row => {b \in Attachment : Live(b) /\ row'[b].st = "gone"} = {}
    BY <1>1
  <1>4. row' = row => stranded' = stranded
    BY <1>2, <1>3
  <1>5. \A p \in Request : p # r => \A n : <<p, n>> \in edit => <<p, n>> \in edit'
    BY <1>2
  <1>6. QED
    BY <1>2, <1>4, <1>5

LEMMA WriteStep ==
  ASSUME Inv, NEW r \in Request, Tenants(r), Write(r)
  PROVE Inv' /\ Beside(r)
  <1>1. Tree /\ \A q \in Request : ReqInv(q)
    BY DEF Inv
  <1>2. /\ Tree' /\ Moves /\ (\A q \in Request : ReqInv(q)') /\ Beside(r)
        /\ req[r].on \in Id /\ role' = role
        /\ \A m \in Id : m # req[r].on => row'[m] = row[m]
        /\ \A f \in RowField \ {"mark", "body"} : row'[req[r].on][f] = row[req[r].on][f]
        /\ "insert" \notin Lefts(r)' /\ "insert" \notin Lefts(r)
    BY <1>1, WriteSteps, TenantsFrame
  <1>3. \A m \in Id : row'[m].st = row[m].st /\ row'[m].label = row[m].label
    BY <1>2 DEF RowField
  <1>4. audit' = audit /\ unseated' = unseated
    BY DEF Write
  <1>5. OwnerlessOnlyByInvite' /\ AuditTellsThePast'
    BY <1>2, <1>3, <1>4, Ids DEF Inv, OwnerlessOnlyByInvite, AuditTellsThePast, Live
  <1>6. FilesOK'
    <2>1. \A a \in Attachment : row'[a].st = row[a].st /\ row'[a].label = row[a].label
      BY <1>3 DEF Id
    <2>2. \A q \in Request : q # r =>
            req'[q].kind = req[q].kind /\ req'[q].todo = req[q].todo /\ req'[q].label = req[q].label
      BY <1>2 DEF Beside, ReqField
    <2>3. QED
      BY <1>2, <2>1, <2>2, TenantsFrame, FilesMove DEF Inv, Creating, Live
  <1>7. QED
    BY <1>2, <1>5, <1>6 DEF Inv

LEMMA DeleteStep ==
  ASSUME Inv, NEW r \in Request, Tenants(r), Delete(r)
  PROVE Inv' /\ Beside(r)
  <1>1. Tree /\ \A q \in Request : ReqInv(q)
    BY DEF Inv
  <1>2. /\ Tree' /\ Moves /\ (\A q \in Request : ReqInv(q)') /\ Alone(r)
        /\ \A m \in Id :
             IF m \in Cascade(req[r].on) THEN row'[m].st = "gone" ELSE row'[m] = row[m]
        /\ \A t \in Tenant : row'[t].st = "live" => role'[t] = role[t]
        /\ "insert" \notin Lefts(r)' /\ "insert" \notin Lefts(r)
    BY <1>1, DeleteSteps, TenantsFrame
  <1>3. \A m \in Id : row'[m].st = "gone" \/ row'[m] = row[m]
    BY <1>2
  <1>4. audit' = audit /\ unseated' = unseated
    BY DEF Delete
  <1>5. OwnerlessOnlyByInvite'
    BY <1>2, <1>3, <1>4, Ids DEF Inv, OwnerlessOnlyByInvite, Live
  <1>6. AuditTellsThePast'
    BY <1>4 DEF Inv, AuditTellsThePast
  <1>7. FilesOK'
    <2>1. \A a \in Attachment : row'[a].st = "gone" \/ row'[a] = row[a]
      BY <1>3 DEF Id
    <2>2. \A a \in Attachment :
            /\ row'[a].st = "live" => row[a].st = "live" /\ row'[a].label = row[a].label
            /\ Live(a) /\ row'[a].st # "live" => row[a].label \in stranded'
      BY <2>1, TenantsFrame DEF Live
    <2>3. QED
      BY <1>2, <2>2, TenantsFrame, FilesMove DEF Inv, Creating, Alone
  <1>8. Beside(r)
    BY <1>2 DEF Beside, Alone
  <1>9. QED
    BY <1>2, <1>5, <1>6, <1>7, <1>8 DEF Inv

LEMMA UpsertStep ==
  ASSUME Inv, NEW r \in Request, Tenants(r), NEW u \in User, NEW ro \in Granted,
         Upsert(r, u, ro)
  PROVE Inv' /\ Beside(r)
  <1>1. Tree /\ \A q \in Request : ReqInv(q)
    BY DEF Inv
  <1>2. /\ Tree' /\ Moves /\ (\A q \in Request : ReqInv(q)') /\ Beside(r)
        /\ req[r].at \in Tenant
        /\ \A t \in Tenant : t # req[r].at => role'[t] = role[t]
        /\ \A v \in User : v # u => role'[req[r].at][v] = role[req[r].at][v]
        /\ "insert" \notin Lefts(r)' /\ "insert" \notin Lefts(r)
    BY <1>1, UpsertSteps, TenantsFrame
  <1>3. /\ audit' = audit /\ row' = row
        /\ unseated' = IF role[req[r].at][u] = "OWNER" THEN unseated \cup {req[r].at} ELSE unseated
    BY DEF Upsert
  <1>4. OwnerlessOnlyByInvite'
    <2>1. ASSUME NEW t \in Tenant, Live(t), t \notin unseated'
          PROVE \E v \in User : role'[t][v] = "OWNER"
      <3>1. PICK v \in User : role[t][v] = "OWNER"
        BY <1>3, <2>1 DEF Inv, OwnerlessOnlyByInvite
      <3>2. t # req[r].at \/ v # u
        BY <1>3, <2>1, <3>1
      <3>3. QED
        BY <1>2, <3>1, <3>2
    <2>2. QED
      BY <1>3, <2>1 DEF OwnerlessOnlyByInvite, Live
  <1>5. AuditTellsThePast'
    BY <1>3 DEF Inv, AuditTellsThePast
  <1>6. FilesOK'
    <2>1. \A q \in Request : q # r =>
            req'[q].kind = req[q].kind /\ req'[q].todo = req[q].todo /\ req'[q].label = req[q].label
      BY <1>2 DEF Beside, ReqField
    <2>2. QED
      BY <1>2, <1>3, <2>1, TenantsFrame, FilesMove DEF Inv, Creating, Live
  <1>7. QED
    BY <1>2, <1>4, <1>5, <1>6 DEF Inv

LEMMA AuditStep ==
  ASSUME Inv, NEW r \in Request, Tenants(r), Audit(r)
  PROVE Inv' /\ Beside(r)
  <1>1. /\ row' = row /\ role' = role /\ unseated' = unseated
        /\ req' = [req EXCEPT ![r] = Done]
        /\ audit' = audit \cup
             {[entity |-> req[r].on, previous |-> req[r].prev,
               replaced |-> req[r].replaced, raced |-> "row" \in req[r].overtaken]}
    BY DEF Audit, PreviousValue
  <1>2. /\ "audit" \in Lefts(r) /\ Lefts(r) # {} /\ ~Writing(Lefts(r))
        /\ "insert" \notin Lefts(r)
    BY HeadIsLeft, Places DEF Audit, Inv, Writing
  <1>3. Alone(r) /\ ReqInv(r)' /\ req'[r] = Done
    BY <1>1, Ends DEF Inv
  <1>4. \/ req[r].prev = None \/ "row" \in req[r].overtaken
        \/ req[r].prev = req[r].replaced
    BY <1>2 DEF Inv, ReqInv, Past
  <1>5. AuditTellsThePast'
    <2>1. PICK a : /\ audit' = audit \cup {a}
                   /\ a = [entity |-> req[r].on, previous |-> req[r].prev,
                           replaced |-> req[r].replaced, raced |-> "row" \in req[r].overtaken]
      BY <1>1
    <2>2. /\ a.previous = req[r].prev /\ a.replaced = req[r].replaced
          /\ a.raced <=> "row" \in req[r].overtaken
      BY <2>1
    <2>3. a.previous \in {None, a.replaced} \/ a.raced
      BY <1>4, <2>2
    <2>4. QED
      BY <2>1, <2>3 DEF Inv, AuditTellsThePast
  <1>6. ~Creating(r) /\ ~Creating(r)'
    BY <1>2, <1>3, Shapes, ShortLists DEF Creating, Lefts
  <1>7. file' = file /\ stranded' = stranded
    BY <1>1, TenantsFrame
  <1>8. QED
    BY <1>1, <1>3, <1>5, <1>6, <1>7, TenantsFrame, QuietKeeps

LEMMA AbortStep ==
  ASSUME Inv, NEW r \in Request, Abort(r)
  PROVE Inv' /\ Beside(r)
  <1>1. /\ row' = row /\ role' = role /\ unseated' = unseated /\ audit' = audit
        /\ req' = [req EXCEPT ![r] = Done] /\ file' = file
        /\ stranded' = IF Ahead(r, "insert") /\ req[r].label \in file
                         THEN stranded \cup {req[r].label} ELSE stranded
        /\ edit' = edit \ {e \in edit : e[1] = r}
    BY DEF Abort, Fail
  <1>2. Alone(r) /\ ReqInv(r)' /\ req'[r] = Done
    BY <1>1, Ends DEF Inv
  <1>3. AuditTellsThePast'
    BY <1>1 DEF Inv, AuditTellsThePast
  <1>4. ~Creating(r)'
    BY <1>2, Shapes, ShortLists DEF Creating, Lefts
  <1>5. Creating(r) => Ahead(r, "insert")
    BY DEF Creating, Lefts, Left, Ahead
  <1>6. \A p \in Request : p # r => \A n : <<p, n>> \in edit => <<p, n>> \in edit'
    BY <1>1
  <1>7. stranded \subseteq stranded' /\ (Creating(r) => req[r].label \notin file' \ stranded')
    BY <1>1, <1>5
  <1>8. QED
    BY <1>1, <1>2, <1>3, <1>4, <1>6, <1>7, QuietKeeps

LEMMA BeginStep ==
  ASSUME Inv, NEW r \in Request, NEW u \in User,
         \/ BeginComment(r, u) /\ UNCHANGED <<file, stranded, edit>>
         \/ BeginAttachment(r, u) /\ UNCHANGED <<file, stranded, edit>>
         \/ /\ BeginOrganization(r, u) \/ BeginWorkspace(r, u) \/ BeginProject(r, u)
            /\ Tenants(r)
  PROVE Inv' /\ Beside(r)
  <1>1. /\ req[r] = Free /\ row' = row /\ role' = role /\ audit' = audit
        /\ unseated' = unseated
    <2>1. CASE BeginComment(r, u) \/ BeginAttachment(r, u)
      BY <2>1 DEF BeginComment, BeginAttachment, Begin
    <2>2. CASE BeginOrganization(r, u) \/ BeginWorkspace(r, u) \/ BeginProject(r, u)
      BY <2>2 DEF BeginOrganization, BeginWorkspace, BeginProject, Begin
    <2>3. QED
      BY <2>1, <2>2
  <1>2. Alone(r) /\ ReqInv(r)' /\ (Creating(r)' => req'[r].label \notin Drawn)
    <2>1. CASE BeginComment(r, u)
      BY <2>1, CommentBegins DEF Inv, Creating
    <2>2. CASE BeginAttachment(r, u)
      BY <2>2, AttachmentBegins DEF Inv, Creating
    <2>3. CASE BeginOrganization(r, u)
      BY <2>3, OrganizationBegins DEF Inv, Creating
    <2>4. CASE BeginWorkspace(r, u)
      BY <2>4, WorkspaceBegins DEF Inv, Creating
    <2>5. CASE BeginProject(r, u)
      BY <2>5, ProjectBegins DEF Inv, Creating
    <2>6. QED
      BY <2>1, <2>2, <2>3, <2>4, <2>5
  <1>3. /\ file' = file /\ stranded' = stranded
        /\ \A p \in Request : p # r => \A n : <<p, n>> \in edit => <<p, n>> \in edit'
    BY <1>1, TenantsFrame
  <1>4. QED
    BY <1>1, <1>2, <1>3, BegunStep

\* The two kinds of steps the disjuncts of Step come to.
LEMMA TenantsKinds ==
  ASSUME NEW r \in Request, Tenants(r)
  PROVE \/ \E u \in User : BeginOrganization(r, u) \/ BeginWorkspace(r, u) \/ BeginProject(r, u)
        \/ Guard(r) \/ Before(r) \/ BeforeFails(r) \/ CheckRole(r) \/ CheckMember(r)
           \/ FindWithin(r) \/ LookUpSlug(r) \/ ReadName(r)
        \/ Write(r) \/ Delete(r) \/ Audit(r)
        \/ \E u \in User, ro \in Granted : Upsert(r, u, ro)
  BY DEF Tenants, TenancyStep

LEMMA StepKeeps ==
  ASSUME Inv, NEW r \in Request, Step(r)
  PROVE Inv' /\ Beside(r)
  <1>1. ReqInv(r) /\ Tree
    BY DEF Inv
  <1>2. ASSUME NEW u \in User,
               \/ BeginComment(r, u) /\ UNCHANGED <<file, stranded, edit>>
               \/ BeginAttachment(r, u) /\ UNCHANGED <<file, stranded, edit>>
        PROVE Inv' /\ Beside(r)
    BY <1>2, BeginStep
  <1>3. CASE FindTask(r)
    BY <1>1, <1>3, TaskChecks, CheckedStep DEF FindTask
  <1>4. CASE FindComment(r)
    <2>1. Alone(r) /\ Checked(r)
      BY <1>1, <1>4, ContentChecks
    <2>2. \A p \in Request : p # r => \A n : <<p, n>> \in edit => <<p, n>> \in edit'
      BY <1>4 DEF FindComment
    <2>3. unseated' = unseated /\ audit' = audit /\ stranded' = stranded /\ file' = file
      BY <1>4 DEF FindComment
    <2>4. QED
      BY <2>1, <2>2, <2>3, CheckedStep
  <1>5. CASE FindAttachment(r)
    BY <1>1, <1>5, AttachmentChecks, CheckedStep DEF FindAttachment
  <1>6. CASE Upload(r)
    BY <1>1, <1>6, ContentChecks, CheckedStep DEF Upload
  <1>7. CASE Stream(r)
    BY <1>1, <1>7, ContentChecks, CheckedStep DEF Stream
  <1>8. CASE Store(r)
    BY <1>8, InsertStep
  <1>9. CASE Abort(r)
    BY <1>9, AbortStep
  <1>10. CASE Tenants(r)
    <2>1. ASSUME NEW u \in User,
                 BeginOrganization(r, u) \/ BeginWorkspace(r, u) \/ BeginProject(r, u)
          PROVE Inv' /\ Beside(r)
      BY <1>10, <2>1, BeginStep
    <2>2. CASE \/ Guard(r) \/ Before(r) \/ BeforeFails(r) \/ CheckRole(r) \/ CheckMember(r)
               \/ FindWithin(r) \/ LookUpSlug(r) \/ ReadName(r)
      <3>1. Alone(r) /\ Checked(r)
        BY <1>1, <1>10, <2>2, TenancyChecks, TenantsFrame
      <3>2. row' = row /\ unseated' = unseated /\ audit' = audit
        BY <2>2 DEF Guard, Before, BeforeFails, CheckRole, CheckMember, FindWithin,
                    LookUpSlug, ReadName
      <3>3. file' = file /\ stranded' = stranded
        BY <1>10, <3>2, TenantsFrame
      <3>4. \A p \in Request : p # r => \A n : <<p, n>> \in edit => <<p, n>> \in edit'
        BY <1>10, TenantsFrame
      <3>5. QED
        BY <3>1, <3>2, <3>3, <3>4, CheckedStep
    <2>3. CASE Write(r)
      BY <1>10, <2>3, WriteStep
    <2>4. CASE Delete(r)
      BY <1>10, <2>4, DeleteStep
    <2>5. CASE Audit(r)
      BY <1>10, <2>5, AuditStep
    <2>6. ASSUME NEW u \in User, NEW ro \in Granted, Upsert(r, u, ro)
          PROVE Inv' /\ Beside(r)
      BY <1>10, <2>6, UpsertStep
    <2>7. QED
      BY <1>10, <2>1, <2>2, <2>3, <2>4, <2>5, <2>6, TenantsKinds
  <1>11. QED
    BY <1>2, <1>3, <1>4, <1>5, <1>6, <1>7, <1>8, <1>9, <1>10 DEF Step

LEMMA TaskStep ==
  ASSUME Inv, NEW k \in Task, SetTaskDeleted(k), UNCHANGED <<file, stranded, edit>>
  PROVE Inv'
  <1>1. /\ Tree' /\ (\A q \in Request : ReqInv(q)')
        /\ \A m \in Id : m # k => row'[m] = row[m]
    BY TaskSteps DEF Inv
  <1>2. role' = role /\ req' = req /\ audit' = audit /\ unseated' = unseated
    BY DEF SetTaskDeleted
  <1>3. /\ \A t \in Tenant : row'[t] = row[t]
        /\ \A a \in Attachment : row'[a] = row[a]
    BY <1>1, Ids, Apart DEF Id, Tenant
  <1>4. OwnerlessOnlyByInvite' /\ AuditTellsThePast'
    BY <1>2, <1>3 DEF Inv, OwnerlessOnlyByInvite, AuditTellsThePast, Live
  <1>5. \A r \in Request : Creating(r)' <=> Creating(r)
    BY <1>2 DEF Creating, Lefts
  <1>6. FilesOK'
    <2>1. FilesHeld' /\ KeysApart'
      BY <1>3 DEF Inv, FilesOK, FilesHeld, KeysApart, Live
    <2>2. KeysDrawn'
      BY <1>2, <1>3, <1>5 DEF Inv, FilesOK, KeysDrawn, Live
    <2>3. Accounted'
      BY <1>2, <1>3, <1>5 DEF Inv, FilesOK, Accounted, Live
    <2>4. QED
      BY <2>1, <2>2, <2>3 DEF FilesOK
  <1>7. QED
    BY <1>1, <1>4, <1>6 DEF Inv

LEMMA Begins == Init => Inv
  <1> SUFFICES ASSUME Init PROVE Inv
    OBVIOUS
  <1>1. PICK b \in Beginnings :
          /\ role = b.role
          /\ row = [n \in Id |->
               IF n \in DOMAIN Given
                 THEN [NoRow EXCEPT !.st = "live", !.up = Given[n].up,
                                    !.label = Given[n].label, !.by = Given[n].by,
                                    !.mark = IF n \in b.deleted THEN "deleted" ELSE @]
                 ELSE NoRow]
    BY DEF Init, TenancyInit
  <1>2. ASSUME NEW n \in Id
        PROVE /\ row[n] = [f \in RowField |-> row[n][f]]
              /\ n \in DOMAIN Given =>
                   row[n].st = "live" /\ row[n].up = Given[n].up /\ row[n].label = Given[n].label
              /\ n \notin DOMAIN Given => row[n] = NoRow /\ row[n].st = "none" /\ row[n].mark = "plain"
    <2>1. PICK m : m = IF n \in b.deleted THEN "deleted" ELSE NoRow.mark
      OBVIOUS
    <2>2. row[n] = IF n \in DOMAIN Given
                     THEN [NoRow EXCEPT !.st = "live", !.up = Given[n].up,
                                        !.label = Given[n].label, !.by = Given[n].by,
                                        !.mark = m]
                     ELSE NoRow
      BY <1>1, <2>1
    <2>3. CASE n \in DOMAIN Given
      <3>1. PICK up, label, by : up = Given[n].up /\ label = Given[n].label /\ by = Given[n].by
        OBVIOUS
      <3>2. row[n] = [NoRow EXCEPT !.st = "live", !.up = up, !.label = label, !.by = by, !.mark = m]
        BY <2>2, <2>3, <3>1
      <3>3. row[n] = [st |-> "live", up |-> up, label |-> label, mark |-> m,
                      by |-> by, body |-> "written"]
        BY <3>2 DEF NoRow
      <3>4. /\ row[n] = [f \in RowField |-> row[n][f]]
            /\ row[n].st = "live" /\ row[n].up = up /\ row[n].label = label
        BY <3>3 DEF RowField
      <3>5. QED
        BY <2>3, <3>1, <3>4
    <2>4. CASE n \notin DOMAIN Given
      <3>1. row[n] = NoRow
        BY <2>2, <2>4
      <3>2. NoRow = [f \in RowField |-> NoRow[f]] /\ NoRow.st = "none" /\ NoRow.mark = "plain"
        BY DEF NoRow, RowField
      <3>3. QED
        BY <2>4, <3>1, <3>2
    <2>5. QED
      BY <2>3, <2>4
  <1>3. \A n \in Id : Live(n) <=> n \in DOMAIN Given
    BY <1>2 DEF Live
  <1>4. DOMAIN Given \subseteq Id
    BY GivenAssumption
  <1>5. req = [r \in Request |-> Free] /\ audit = {} /\ stranded = {}
        /\ file = {Given[a].label : a \in Attachment \cap DOMAIN Given}
    BY DEF Init, TenancyInit
  <1>6. RowsTyped /\ ReqsTyped
    <2>1. row = [n \in Id |-> row[n]]
      BY <1>1
    <2>2. RowsTyped
      BY <1>2, <2>1 DEF RowsTyped, Live
    <2>3. ReqsTyped
      BY <1>5, Shapes DEF ReqsTyped
    <2>4. QED
      BY <2>2, <2>3
  <1>7. RoleTyped
    BY <1>1, BeginningsAssumption DEF RoleTyped
  <1>8. Rooted
    BY <1>2, <1>3, <1>4, GivenAssumption DEF Rooted
  <1>9. Seated
    <2>1. \A t \in Tenant \ DOMAIN Given, u \in User : role[t][u] = None
      BY <1>1, BeginningsAssumption
    <2>2. QED
      BY <1>3, <2>1, Ids DEF Seated
  <1>10. SlugsApart
    <2>1. ASSUME NEW m \in Tenant, NEW n \in Tenant, Live(m), Live(n),
                 row[m].up = row[n].up, row[m].label = row[n].label
          PROVE m = n
      <3>1. m \in Tenant \cap DOMAIN Given /\ n \in Tenant \cap DOMAIN Given
        BY <1>3, <2>1, Ids
      <3>2. Given[m].up = Given[n].up /\ Given[m].label = Given[n].label
        BY <1>2, <2>1, <3>1, Ids
      <3>3. QED
        BY <3>1, <3>2, GivenAssumption
    <2>2. QED
      BY <2>1 DEF SlugsApart
  <1>11. Tree
    BY <1>6, <1>7, <1>8, <1>9, <1>10 DEF Tree
  <1>12. \A r \in Request : req[r].todo = <<>> /\ Lefts(r) = {}
    BY <1>5, Shapes, ShortLists DEF Lefts
  <1>13. ASSUME NEW r \in Request PROVE ReqInv(r)
    <2>1. Lined(r)
      BY <1>12, ShortLists DEF Lined, Plan, Writing
    <2>2. QED
      BY <1>12, <2>1 DEF ReqInv, Targeted, RoleKept, Linked, Named, Past, Stored, Editing, Writing
  <1>14. OwnerlessOnlyByInvite
    <2>1. ASSUME NEW t \in Tenant, Live(t) PROVE \E u \in User : role[t][u] = "OWNER"
      <3>1. t \in Tenant \cap DOMAIN Given
        BY <1>3, <2>1, Ids
      <3>2. \E u \in User : b.role[t][u] = "OWNER"
        BY <3>1, BeginningsAssumption
      <3>3. QED
        BY <1>1, <3>2
    <2>2. QED
      BY <2>1 DEF OwnerlessOnlyByInvite
  <1>15. AuditTellsThePast
    BY <1>5 DEF AuditTellsThePast
  <1>16. FilesOK
    <2>1. \A a \in Attachment : Live(a) => a \in DOMAIN Given /\ row[a].label = Given[a].label
      BY <1>2, <1>3 DEF Id
    <2>2. \A a \in Attachment \cap DOMAIN Given : Live(a) /\ row[a].label = Given[a].label
      BY <1>2, <1>3 DEF Id
    <2>3. FilesHeld /\ Accounted
      BY <1>5, <2>1, <2>2 DEF FilesHeld, Accounted
    <2>4. KeysApart
      BY <2>1, GivenAssumption DEF KeysApart
    <2>5. KeysDrawn
      BY <1>12 DEF KeysDrawn, Creating
    <2>6. QED
      BY <2>3, <2>4, <2>5 DEF FilesOK
  <1>17. QED
    BY <1>11, <1>13, <1>14, <1>15, <1>16 DEF Inv

LEMMA NextKeeps ==
  ASSUME Inv, [Next]_vars
  PROVE Inv'
  <1>1. ASSUME NEW r \in Request, Step(r) PROVE Inv'
    BY <1>1, StepKeeps
  <1>2. ASSUME NEW k \in Task, SetTaskDeleted(k) /\ UNCHANGED <<file, stranded, edit>>
        PROVE Inv'
    BY <1>2, TaskStep
  <1>3. CASE UNCHANGED vars
    <2>1. row' = row /\ role' = role /\ req' = req /\ audit' = audit /\ unseated' = unseated
          /\ file' = file /\ stranded' = stranded /\ edit' = edit
      BY <1>3 DEF vars, tenancyVars
    <2>2. ReqsTyped'
      BY <2>1 DEF Inv, Tree, ReqsTyped
    <2>3. Tree'
      BY <2>1, <2>2, QuietTree DEF Inv
    <2>4. \A r \in Request : ReqInv(r)'
      BY <2>1, QuietOthers DEF Inv
    <2>5. OwnerlessOnlyByInvite' /\ AuditTellsThePast'
      BY <2>1 DEF Inv, OwnerlessOnlyByInvite, AuditTellsThePast, Live
    <2>6. \A r \in Request : Creating(r)' <=> Creating(r)
      BY <2>1 DEF Creating, Lefts
    <2>7. FilesOK'
      BY <2>1, <2>6 DEF Inv, FilesOK, FilesHeld, KeysApart, KeysDrawn, Accounted, Live
    <2>8. QED
      BY <2>3, <2>4, <2>5, <2>7 DEF Inv
  <1>4. QED
    BY <1>1, <1>2, <1>3 DEF Next

\* The invariant holds in every behaviour.
THEOREM InvHolds == Spec => []Inv
  <1>1. Inv /\ [Next]_vars => Inv'
    BY NextKeeps
  <1>2. QED
    BY <1>1, Begins, PTL DEF Spec

\* Parents outlive children, memberships never outlive tenants, and slugs are
\* unique, for any tree and any requests (the foreign keys and unique indexes
\* of the schema under the services' creates and removals).
THEOREM TreeStands == Spec => []TreeSound
  <1>1. Inv => TreeSound
    BY TreeIsSound DEF Inv
  <1>2. QED
    BY <1>1, InvHolds, PTL

\* Only an invitation can leave a tenant without an OWNER (create and
\* inviteMember of organizations.service and workspaces.service).
THEOREM Ownership == Spec => []OwnerlessOnlyByInvite
  <1>1. Inv => OwnerlessOnlyByInvite
    BY DEF Inv
  <1>2. QED
    BY <1>1, InvHolds, PTL

\* The audit log says what a write replaced unless another write raced it
\* (audit.interceptor).
THEOREM AuditTrail == Spec => []AuditTellsThePast
  <1>1. Inv => AuditTellsThePast
    BY DEF Inv
  <1>2. QED
    BY <1>1, InvHolds, PTL

\* Attachments have files of their own, files have rows, and a download finds
\* its file (attachments.service create, getDownload).
THEOREM FilesKept == Spec => []FilesAccounted
  <1>1. ASSUME Inv PROVE FilesAccounted
    <2>1. \A r \in Request : Creating(r) => Ahead(r, "insert")
      BY DEF Creating, Lefts, Left, Ahead
    <2>2. \A k \in file \ stranded :
            \/ \E a \in Attachment : Live(a) /\ row[a].label = k
            \/ \E r \in Request : req[r].label = k /\ Ahead(r, "insert")
      BY <1>1, <2>1 DEF Inv, FilesOK, Accounted
    <2>3. ASSUME NEW r \in Request, At(r, "stream") PROVE req[r].label \in file
      <3>1. ReqInv(r)
        BY <1>1 DEF Inv
      <3>2. "stream" \in Lefts(r) /\ \A a \in Lefts(r) : a # "stream" => Place["stream"] < Place[a]
        BY <2>3, <3>1, HeadIsLeft
      <3>3. Place["attachment"] = 3 /\ Place["stream"] = 4
        BY Places
      <3>4. "attachment" \notin Lefts(r)
        BY <3>2, <3>3
      <3>5. QED
        BY <3>1, <3>2, <3>4 DEF ReqInv, Stored
    <2>4. QED
      BY <1>1, <2>2, <2>3 DEF Inv, FilesOK, FilesHeld, KeysApart, FilesAccounted
  <1>2. QED
    BY <1>1, InvHolds, PTL

-----------------------------------------------------------------------------
(* What a step may never do *)

\* Only these steps touch rows.
LEMMA RowWriters ==
  ASSUME NEW r \in Request, Step(r), row' # row
  PROVE \/ Store(r)
        \/ Tenants(r) /\ (Write(r) \/ Delete(r))
  <1>1. ASSUME NEW u \in User, BeginComment(r, u) \/ BeginAttachment(r, u) PROVE row' = row
    BY <1>1 DEF BeginComment, BeginAttachment, Begin
  <1>2. ASSUME FindTask(r) \/ FindComment(r) \/ FindAttachment(r) \/ Upload(r) \/ Stream(r) \/ Abort(r)
        PROVE row' = row
    BY <1>2 DEF FindTask, FindComment, FindAttachment, Upload, Stream, Abort, Fail
  <1>3. ASSUME Tenants(r) PROVE Write(r) \/ Delete(r)
    <2>1. ASSUME NEW u \in User,
                 BeginOrganization(r, u) \/ BeginWorkspace(r, u) \/ BeginProject(r, u)
          PROVE row' = row
      BY <2>1 DEF BeginOrganization, BeginWorkspace, BeginProject, Begin
    <2>2. ASSUME \/ Guard(r) \/ Before(r) \/ BeforeFails(r) \/ CheckRole(r)
                 \/ CheckMember(r) \/ FindWithin(r) \/ LookUpSlug(r) \/ ReadName(r)
                 \/ Audit(r)
          PROVE row' = row
      BY <2>2 DEF Guard, Before, BeforeFails, CheckRole, CheckMember, FindWithin,
                  LookUpSlug, ReadName, Audit
    <2>3. ASSUME NEW u \in User, NEW ro \in Granted, Upsert(r, u, ro) PROVE row' = row
      BY <2>3 DEF Upsert
    <2>4. QED
      BY <1>3, <2>1, <2>2, <2>3, TenantsKinds
  <1>4. QED
    BY <1>1, <1>2, <1>3 DEF Step

LEMMA EntitledWrites ==
  ASSUME Inv, [Next]_vars, NEW n \in Id, n \notin Task,
         Live(n), row'[n] # row[n], ~Cascaded(n)
  PROVE \E r \in Request :
          /\ req'[r] # req[r]
          /\ req[r].on = n
          /\ "role" \in req[r].overtaken \/ Entitled(req[r].user, n, req[r].min)
  <1>1. Tree /\ \A q \in Request : ReqInv(q)
    BY DEF Inv
  <1>2. PICK r \in Request : Step(r)
    <2>1. ASSUME NEW k \in Task, SetTaskDeleted(k) /\ UNCHANGED <<file, stranded, edit>>
          PROVE FALSE
      <3>1. \A m \in Id : m # k => row'[m] = row[m]
        BY <1>1, <2>1, TaskSteps
      <3>2. QED
        BY <2>1, <3>1
    <2>2. row' # row
      OBVIOUS
    <2>3. QED
      BY <2>1, <2>2 DEF Next, vars, tenancyVars
  <1>3. ~Store(r)
    <2>1. ASSUME Store(r) PROVE FALSE
      <3>1. PICK m : ~Live(m) /\ \A o \in Id : o # m => row'[o] = row[o]
        BY <1>1, <2>1, InsertSteps DEF Store
      <3>2. QED
        BY <3>1
    <2>2. QED
      BY <2>1
  <1>4. Tenants(r) /\ (Write(r) \/ Delete(r))
    BY <1>2, <1>3, RowWriters
  <1>5. file' = file /\ \A p \in Request : p # r => \A o : <<p, o>> \in edit => <<p, o>> \in edit'
    BY <1>4, TenantsFrame
  <1>6. req[r].on = n /\ req'[r] # req[r]
    <2>1. CASE Write(r)
      BY <1>1, <1>5, <2>1, WriteSteps
    <2>2. CASE Delete(r)
      <3>1. /\ req[r].on \in Id /\ req'[r] # req[r]
            /\ \A m \in Id :
                 IF m \in Cascade(req[r].on) THEN row'[m].st = "gone" ELSE row'[m] = row[m]
        BY <1>1, <1>5, <2>2, DeleteSteps
      <3>2. ASSUME n # req[r].on PROVE FALSE
        <4>1. n \in Cascade(req[r].on)
          BY <3>1
        <4>2. row[n].up \in Cascade(req[r].on) /\ row[n].up \in Id
          BY <1>1, <3>1, <3>2, <4>1, CascadeCloses
        <4>3. row[row[n].up].st = "live"
          <5>1. Live(req[r].on)
            BY <2>2 DEF Delete
          <5>2. QED
            BY <1>1, <3>1, <4>2, <5>1, CascadeCloses DEF Live
        <4>4. row'[row[n].up].st = "gone" /\ row[n].up # None
          BY <3>1, <4>2, Ids
        <4>5. QED
          BY <4>3, <4>4 DEF Cascaded
      <3>3. QED
        BY <3>1, <3>2
    <2>3. QED
      BY <1>4, <2>1, <2>2
  <1>7. At(r, "write") \/ At(r, "delete")
    BY <1>4 DEF Write, Delete
  <1>8. "role" \in req[r].overtaken \/ Entitled(req[r].user, n, req[r].min)
    BY <1>1, <1>6, <1>7, WriterEntitled
  <1>9. QED
    BY <1>6, <1>8

\* A row is only changed by a caller entitled to it in the row's own workspace,
\* unless he lost rank after the last check, for any number of requests
\* (RolesGuard, findWithinWorkspace, requireOwnComment, requireAttachment).
THEOREM WritesConfined == Spec => WritesStayInTenant
  <1>1. Inv /\ [Next]_vars =>
          [\A n \in Id \ Task :
             Live(n) /\ row'[n] # row[n] /\ ~Cascaded(n) =>
               \E r \in Request :
                 /\ req'[r] # req[r]
                 /\ req[r].on = n
                 /\ "role" \in req[r].overtaken \/ Entitled(req[r].user, n, req[r].min)]_vars
    BY EntitledWrites
  <1>2. QED
    BY <1>1, InvHolds, PTL DEF Spec, WritesStayInTenant

LEMMA NamedOnce ==
  ASSUME Inv, [Next]_vars, NEW r \in Request,
         At(r, "upsert"), req'[r].todo = <<"audit">>, req[r].kind = "org"
  PROVE req[r].read = "name"
  <1>1. ReqInv(r)
    BY DEF Inv
  <1>2. req[r].todo # <<>> /\ Head(req[r].todo) = "upsert"
    BY DEF At
  <1>3. req'[r].todo # req[r].todo /\ req'[r].todo # <<>>
    BY <1>2
  <1>4. Step(r)
    <2>1. ASSUME NEW p \in Request, Step(p), p # r PROVE FALSE
      <3>1. Beside(p)
        BY <2>1, StepKeeps
      <3>2. QED
        BY <1>3, <2>1, <3>1 DEF Beside, ReqField
    <2>2. ASSUME NEW k \in Task, SetTaskDeleted(k) PROVE FALSE
      BY <1>3, <2>2 DEF SetTaskDeleted
    <2>3. QED
      BY <1>3, <2>1, <2>2 DEF Next, vars, tenancyVars
  <1>5. req[r] # Free
    BY <1>2, Shapes
  <1>6. \E u \in User, ro \in Granted : Upsert(r, u, ro)
    <2>1. ASSUME NEW u \in User, BeginComment(r, u) \/ BeginAttachment(r, u) PROVE FALSE
      BY <1>5, <2>1 DEF BeginComment, BeginAttachment, Begin
    <2>2. ASSUME NEW u \in User,
                 BeginOrganization(r, u) \/ BeginWorkspace(r, u) \/ BeginProject(r, u)
          PROVE FALSE
      BY <1>5, <2>2 DEF BeginOrganization, BeginWorkspace, BeginProject, Begin
    <2>3. ~FindTask(r) /\ ~FindComment(r) /\ ~FindAttachment(r) /\ ~Upload(r) /\ ~Stream(r)
      BY <1>2 DEF FindTask, FindComment, FindAttachment, Upload, Stream, At
    <2>4. ~Store(r)
      BY <1>2 DEF Store, Insert, At
    <2>5. ~Abort(r)
      <3>1. ASSUME Abort(r) PROVE FALSE
        <4>1. Tree /\ req' = [req EXCEPT ![r] = Done]
          BY <3>1 DEF Abort, Fail, Inv
        <4>2. QED
          BY <1>3, <4>1, Ends, Shapes
      <3>2. QED
        BY <3>1
    <2>6. /\ ~Guard(r) /\ ~Before(r) /\ ~BeforeFails(r) /\ ~CheckRole(r) /\ ~CheckMember(r)
          /\ ~FindWithin(r) /\ ~LookUpSlug(r) /\ ~ReadName(r)
          /\ ~Write(r) /\ ~Delete(r) /\ ~Audit(r)
      BY <1>2 DEF Guard, Before, BeforeFails, CheckRole, CheckMember, FindWithin,
                  LookUpSlug, ReadName, Write, Delete, Audit, At
    <2>7. Tenants(r)
      BY <1>4, <2>1, <2>3, <2>4, <2>5 DEF Step
    <2>8. QED
      BY <2>2, <2>6, <2>7, TenantsKinds
  <1>7. Live(req[r].at)
    BY <1>6 DEF Upsert, MemberStorable
  <1>8. /\ "upsert" \in Lefts(r)
        /\ \A b \in Lefts(r) : b # "upsert" => Place["upsert"] < Place[b]
    BY <1>1, HeadIsLeft
  <1>9. "name" \notin Lefts(r)
    BY <1>8, Places
  <1>10. QED
    BY <1>1, <1>7, <1>8, <1>9 DEF ReqInv, Named, Live

\* No invitation is announced without the organization's name, however its
\* removal races the invitation (organizations.service inviteMember).
THEOREM Invitations == Spec => InvitationIsNamed
  <1>1. Inv /\ [Next]_vars =>
          [\A r \in Request :
             At(r, "upsert") /\ req'[r].todo = <<"audit">> /\ req[r].kind = "org" =>
               req[r].read = "name"]_vars
    BY NamedOnce
  <1>2. QED
    BY <1>1, InvHolds, PTL DEF Spec, InvitationIsNamed

LEMMA EditsKnown ==
  ASSUME Inv, [Next]_vars, NEW c \in Comment,
         row[c].mark = "deleted", row'[c].st = "live", row'[c].body # row[c].body
  PROVE \E r \in Request : <<r, c>> \in edit
  <1>1. Tree /\ \A q \in Request : ReqInv(q)
    BY DEF Inv
  <1>2. c \in Id /\ c \notin Task /\ Live(c) /\ row'[c] # row[c]
    BY <1>1, Apart DEF Id, Tree, RowsTyped
  <1>3. PICK r \in Request : Step(r)
    <2>1. ASSUME NEW k \in Task, SetTaskDeleted(k) /\ UNCHANGED <<file, stranded, edit>>
          PROVE FALSE
      <3>1. \A m \in Id : m # k => row'[m] = row[m]
        BY <1>1, <2>1, TaskSteps
      <3>2. QED
        BY <1>2, <2>1, <3>1
    <2>2. QED
      BY <1>2, <2>1 DEF Next, vars, tenancyVars
  <1>4. ~Store(r)
    <2>1. ASSUME Store(r) PROVE FALSE
      <3>1. PICK m : ~Live(m) /\ \A o \in Id : o # m => row'[o] = row[o]
        BY <1>1, <2>1, InsertSteps DEF Store
      <3>2. QED
        BY <1>2, <3>1
    <2>2. QED
      BY <2>1
  <1>5. Tenants(r) /\ (Write(r) \/ Delete(r))
    BY <1>2, <1>3, <1>4, RowWriters
  <1>6. file' = file /\ \A p \in Request : p # r => \A o : <<p, o>> \in edit => <<p, o>> \in edit'
    BY <1>5, TenantsFrame
  <1>7. ~Delete(r)
    <2>1. ASSUME Delete(r) PROVE FALSE
      <3>1. row'[c].st = "gone" \/ row'[c] = row[c]
        BY <1>1, <1>2, <1>6, <2>1, DeleteSteps
      <3>2. QED
        BY <1>2, <3>1
    <2>2. QED
      BY <2>1
  <1>8. req[r].on = c /\ req[r].op = "update"
    BY <1>1, <1>2, <1>5, <1>6, <1>7, WriteSteps
  <1>9. /\ "write" \in Lefts(r)
        /\ \A b \in Lefts(r) : b # "write" => Place["write"] < Place[b]
    BY <1>1, <1>5, <1>7, HeadIsLeft DEF Write
  <1>10. "comment" \notin Lefts(r)
    BY <1>9, Places
  <1>11. req[r].kind = "comment"
    <2>1. req[r].kind \in Kinds /\ c \in IdsOf(req[r].kind)
      BY <1>1, <1>8, <1>9 DEF ReqInv, Targeted, Writing
    <2>2. QED
      BY <2>1, Ids, Apart DEF Kinds
  <1>12. QED
    BY <1>1, <1>8, <1>9, <1>10, <1>11 DEF ReqInv, Editing

\* A soft-deleted comment is only edited by an edit that found it alive
\* (comments.service update, requireOwnComment).
THEOREM DeletedComments == Spec => DeletedCommentFrozen
  <1>1. Inv /\ [Next]_vars =>
          [\A c \in Comment :
             row[c].mark = "deleted" /\ row'[c].st = "live" /\ row'[c].body # row[c].body =>
               \E r \in Request : <<r, c>> \in edit]_vars
    BY EditsKnown
  <1>2. QED
    BY <1>1, InvHolds, PTL DEF Spec, DeletedCommentFrozen

=============================================================================
