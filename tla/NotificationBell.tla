--------------------------- MODULE NotificationBell ---------------------------
(***************************************************************************)
(* The bell and the list of notifications of one signed-in user in one     *)
(* tab: NotificationsContext counts the unread ones, from an answer of the *)
(* API, from pushes over the socket and from its own PATCHes, and          *)
(* NotificationsPage lists them.  The rows change meanwhile, and an answer *)
(* says what held at some time between its request and its arrival.  How   *)
(* rows and pushes come about is NotificationDelivery.                     *)
(***************************************************************************)
EXTENDS Naturals, Sequences, FiniteSets

CONSTANTS
  Notification,  \* ids of the user's notifications
  MaxClicks,     \* bound: what the user does
  MaxUpsets      \* bound: lost connections, pushes and calls, reads in other tabs

ASSUME NotificationAssumption == IsFiniteSet(Notification)

VARIABLES
  past,     \* the states of the rows, none, unread or read; the last one is now
  unsent,   \* rows whose push is yet to be emitted
  link,     \* the socket is off or on; socket.io connects again by itself
  wire,     \* pushes under way
  count,    \* unreadCount
  asked,    \* calls of refreshUnreadCount: the times they were sent
  page,     \* NotificationsPage
  loads,    \* the loads of the page
  marks,    \* PATCHes
  clicks, upsets,  \* how many there were
  drift,    \* history: the count need not agree with the rows
  blurred   \* history: notifications the list need not agree with the rows on

bellVars == <<past, unsent, link, wire, count, asked, page, loads, marks, clicks,
          upsets, drift, blurred>>

server == <<past, unsent>>
bell == <<link, wire, count, asked, drift>>
shown == <<page, loads, blurred>>

Row == past[Len(past)]
Put(n, st) == past' = Append(past, [Row EXCEPT ![n] = st])
Unread(row) == {n \in Notification : row[n] = "unread"}

\* findAllForUser, of the one page the client asks for.
Listing(row, unreadOnly) ==
  {[id |-> n, read |-> row[n] = "read", pushed |-> FALSE] :
     n \in {m \in Notification : row[m] = "unread" \/ (row[m] = "read" /\ ~unreadOnly)}}

-----------------------------------------------------------------------------
(* The server *)

Store(n) ==
  /\ Row[n] = "none"
  /\ Put(n, "unread")
  /\ unsent' = unsent \cup {n}
  /\ UNCHANGED <<bell, shown, marks, clicks, upsets>>

\* A push to a room without a socket is lost.
PushToUser(n) ==
  /\ n \in unsent
  /\ unsent' = unsent \ {n}
  /\ IF link = "on"
       THEN wire' = Append(wire, n) /\ UNCHANGED <<drift, blurred>>
       ELSE /\ drift' = TRUE
            /\ blurred' = blurred \cup {n}
            /\ UNCHANGED wire
  /\ UNCHANGED <<past, link, count, asked, page, loads, marks, clicks, upsets>>

Upset == upsets < MaxUpsets /\ upsets' = upsets + 1

\* The process dies, or process throws on the answer to the insert, before
\* the push; if the job is run again, that is another row.
SkipPush(n) ==
  /\ n \in unsent
  /\ Upset
  /\ unsent' = unsent \ {n}
  /\ drift' = TRUE
  /\ blurred' = blurred \cup {n}
  /\ UNCHANGED <<past, link, wire, count, asked, page, loads, marks, clicks>>

ReadElsewhere(n) ==
  /\ Row[n] = "unread"
  /\ Upset
  /\ Put(n, "read")
  /\ drift' = TRUE
  /\ blurred' = blurred \cup {n}
  /\ UNCHANGED <<unsent, link, wire, count, asked, page, loads, marks, clicks>>

-----------------------------------------------------------------------------
(* NotificationsContext *)

LinkUp ==
  /\ link = "off"
  /\ link' = "on"
  /\ UNCHANGED <<server, wire, count, asked, drift, shown, marks, clicks, upsets>>

\* Nothing asks for the count again when the socket is back.
LinkDown ==
  /\ link = "on"
  /\ Upset
  /\ link' = "off"
  /\ wire' = <<>>
  /\ drift' = (drift \/ wire # <<>>)
  /\ blurred' = blurred \cup {wire[i] : i \in DOMAIN wire}
  /\ UNCHANGED <<server, count, asked, page, loads, marks, clicks>>

\* A plausible slip: a push does not count.
NotCounted(c) == c

Counted(c) == c + 1

\* The page prepends a push to the list it has; one that loads has none.
Prepended(pg, n) ==
  IF pg.st = "list"
    THEN [pg EXCEPT !.items = @ \cup {[id |-> n, read |-> FALSE, pushed |-> TRUE]}]
    ELSE pg

\* The socket's listener.
OnPush ==
  /\ wire # <<>>
  /\ wire' = Tail(wire)
  /\ count' = Counted(count)
  /\ page' = Prepended(page, Head(wire))
  /\ UNCHANGED <<server, link, asked, drift, loads, blurred, marks, clicks, upsets>>

\* The push of row n is yet to arrive.
Pending(n) == n \in unsent \/ \E i \in DOMAIN wire : wire[i] = n

\* Row n as it was counted at time t, with its push and the PATCHes that have
\* succeeded still to come, makes what the row is now (history).
Exact(n, t) ==
  (IF past[t][n] = "unread" THEN 1 ELSE 0) + (IF Pending(n) THEN 1 ELSE 0) =
  (IF Row[n] = "unread" THEN 1 ELSE 0) + Cardinality({m \in marks : m.id = n /\ m.st = "ok"})

\* The answer of refreshUnreadCount is set whatever it has crossed.
Refreshed(from) ==
  /\ from \in asked
  /\ asked' = asked \ {from}
  /\ \E t \in from .. Len(past) :
       /\ count' = Cardinality(Unread(past[t]))
       /\ drift' = (\E n \in Notification : ~Exact(n, t))
  /\ UNCHANGED <<server, link, wire, shown, marks, clicks, upsets>>

\* "The bell just stays at its last known count."
RefreshFails(from) ==
  /\ from \in asked
  /\ Upset
  /\ asked' = asked \ {from}
  /\ drift' = TRUE
  /\ UNCHANGED <<server, link, wire, count, shown, marks, clicks>>

-----------------------------------------------------------------------------
(* NotificationsPage *)

Click == clicks < MaxClicks /\ clicks' = clicks + 1

NoPage == [st |-> "closed", items |-> {}, unreadOnly |-> FALSE]

NewLoad(unreadOnly) == [no |-> clicks, from |-> Len(past), unreadOnly |-> unreadOnly]

Open ==
  /\ page = NoPage
  /\ Click
  /\ page' = [NoPage EXCEPT !.st = "spinner"]
  /\ loads' = {NewLoad(FALSE)}
  /\ UNCHANGED <<server, bell, blurred, marks, upsets>>

\* What the loads and calls of a page that is left would set is gone.
Leave ==
  /\ page # NoPage
  /\ page' = NoPage
  /\ loads' = {}
  /\ marks' = {[m EXCEPT !.mounted = FALSE] : m \in marks}
  /\ UNCHANGED <<server, bell, blurred, clicks, upsets>>

\* The checkbox: its effect loads again and cancels nothing.
Toggle ==
  /\ page.st = "list"
  /\ Click
  /\ page' = [page EXCEPT !.unreadOnly = ~@]
  /\ loads' = loads \cup {NewLoad(~page.unreadOnly)}
  /\ UNCHANGED <<server, bell, blurred, marks, upsets>>

\* Row n as it was listed at time t is not what the page would have to list:
\* its push will list it again, it has changed since, or it is being marked on
\* a page that has been left or before its push has arrived (history).
Doubtful(n, t) ==
  \/ IF Pending(n) THEN past[t][n] # "none" \/ Row[n] = "read" ELSE past[t][n] # Row[n]
  \/ \E m \in marks : m.id = n /\ (~m.mounted \/ Pending(n))

\* The answer replaces the list, and what was prepended, even if the checkbox
\* has changed since it was asked for.
Loaded(l) ==
  /\ \E t \in l.from .. Len(past) :
       /\ page' = [page EXCEPT !.st = "list", !.items = Listing(past[t], l.unreadOnly)]
       /\ blurred' = IF l.unreadOnly # page.unreadOnly THEN Notification
                       ELSE {n \in Notification : Doubtful(n, t)}
  /\ loads' = loads \ {l}
  /\ UNCHANGED <<server, bell, marks, clicks, upsets>>

LoadFails(l) ==
  /\ Upset
  /\ loads' = loads \ {l}
  /\ blurred' = Notification
  /\ UNCHANGED <<server, bell, page, marks, clicks>>

-----------------------------------------------------------------------------
(* Marking as read *)

Mark(n, twin, all) ==
  [id |-> n, twin |-> twin, no |-> clicks, all |-> all, st |-> "sent", mounted |-> TRUE]

UnreadItems == {i \in page.items : ~i.read}

\* The notification is listed once more.
Twin(item) == item.pushed /\ [item EXCEPT !.pushed = FALSE] \in page.items

\* handleMarkRead, of a notification that is rendered as unread.
MarkRead(item) ==
  /\ item \in UnreadItems
  /\ Click
  /\ marks' = marks \cup {Mark(item.id, FALSE, FALSE)}
  /\ UNCHANGED <<server, bell, shown, upsets>>

\* handleMarkAllRead, of all that are: one that is listed twice is marked twice.
MarkAll ==
  /\ UnreadItems # {}
  /\ Click
  /\ marks' = marks \cup {Mark(item.id, Twin(item), TRUE) : item \in UnreadItems}
  /\ UNCHANGED <<server, bell, shown, upsets>>

\* notifications.service markRead.
Serve(m) ==
  /\ m.st = "sent"
  /\ IF Row[m.id] = "unread"
       THEN Put(m.id, "read") /\ UNCHANGED drift
       ELSE drift' = TRUE /\ UNCHANGED past
  /\ marks' = (marks \ {m}) \cup {[m EXCEPT !.st = "ok"]}
  /\ UNCHANGED <<unsent, link, wire, count, asked, shown, clicks, upsets>>

Lose(m) ==
  /\ m.st \in {"sent", "ok"}
  /\ Upset
  /\ marks' = (marks \ {m}) \cup {[m EXCEPT !.st = "lost"]}
  /\ drift' = TRUE
  /\ blurred' = blurred \cup {m.id}
  /\ UNCHANGED <<server, link, wire, count, asked, page, loads, clicks>>

\* Math.max(0, count - 1).
Decremented(c) == IF c > 0 THEN c - 1 ELSE 0

\* A success that finds the count at zero is not counted down (history).
Clamped(m) == m.st = "ok" /\ count = 0

Batch(m) == {o \in marks : o.all /\ o.no = m.no}

\* handleMarkAllRead sets every entry that is listed by now.
ReadAllItems(items, m) == {[i EXCEPT !.read = TRUE] : i \in items}

\* handleMarkRead sets the entries of the notification it has marked.
ReadItems(items, m) ==
  {IF i.id = m.id THEN [i EXCEPT !.read = TRUE] ELSE i : i \in items}

\* The answer of a PATCH: the count, and then the list.
Marked(m) ==
  /\ ~m.all /\ m.st # "sent"
  /\ marks' = marks \ {m}
  /\ count' = IF m.st = "ok" THEN Decremented(count) ELSE count
  /\ drift' = (drift \/ Clamped(m))
  /\ page' = IF m.st = "ok" /\ m.mounted THEN [page EXCEPT !.items = ReadItems(@, m)] ELSE page
  /\ UNCHANGED <<server, link, wire, asked, loads, blurred, clicks, upsets>>

\* Of the PATCHes of one Promise.all each counts down as it is answered.  With
\* the last one all that is listed by then is shown as read; the first that
\* rejects ends the wait; either way the count is asked for again.
MarkedOfAll(m) ==
  /\ m.all /\ m.st # "sent"
  /\ count' = IF m.st = "ok" THEN Decremented(count) ELSE count
  /\ LET rest == Batch(m) \ {m}
         last == m.st = "ok" /\ rest = {}
     IN /\ marks' = IF m.st = "ok" THEN marks \ {m}
                      ELSE (marks \ Batch(m)) \cup
                             {[o EXCEPT !.all = FALSE, !.mounted = FALSE] : o \in rest}
        /\ page' = IF last /\ m.mounted
                     THEN [page EXCEPT !.items = ReadAllItems(@, m)] ELSE page
        /\ blurred' = IF last /\ m.mounted
                        THEN blurred \cup {i.id : i \in {j \in page.items : Row[j.id] # "read"}}
                      ELSE IF m.st = "lost"
                        THEN blurred \cup {o.id : o \in Batch(m)}
                               \cup {i.id : i \in {j \in page.items : Row[j.id] = "read"}}
                      ELSE blurred
        /\ asked' = IF last \/ m.st = "lost" THEN asked \cup {Len(past)} ELSE asked
  /\ drift' = (drift \/ Clamped(m))
  /\ UNCHANGED <<server, link, wire, loads, clicks, upsets>>

-----------------------------------------------------------------------------
BellInit ==
  /\ \E S \in SUBSET Notification :
       past = <<[n \in Notification |-> IF n \in S THEN "unread" ELSE "none"]>>
  /\ unsent = {} /\ link = "off" /\ wire = <<>>
  /\ count = 0 /\ asked = {1}
  /\ page = NoPage /\ loads = {} /\ marks = {}
  /\ clicks = 0 /\ upsets = 0
  /\ drift = FALSE /\ blurred = {}

BellNext ==
  \/ \E n \in Notification : Store(n) \/ PushToUser(n) \/ SkipPush(n) \/ ReadElsewhere(n)
  \/ LinkUp \/ LinkDown \/ OnPush
  \/ \E from \in asked : Refreshed(from) \/ RefreshFails(from)
  \/ Open \/ Leave \/ Toggle \/ MarkAll
  \/ \E item \in page.items : MarkRead(item)
  \/ \E l \in loads : Loaded(l) \/ LoadFails(l)
  \/ \E m \in marks : Serve(m) \/ Lose(m) \/ Marked(m) \/ MarkedOfAll(m)

BellSpec == BellInit /\ [][BellNext]_bellVars

-----------------------------------------------------------------------------
(* Properties *)

\* Nothing is under way.
Quiet == unsent = {} /\ wire = <<>> /\ asked = {} /\ loads = {} /\ marks = {}

\* When nothing is under way the bell counts the unread rows, unless since the
\* last answer that found nothing under way a push was lost, a row was read in
\* another tab or marked twice, a call failed, or an answer crossed a change.
CountAgrees ==
  Quiet /\ ~drift => count = Cardinality(Unread(Row))

\* When nothing is under way the page lists every notification, once, and shows
\* as read what is; unless its push was lost, or met a load whose answer may or
\* may not have had it, or an older answer came in last, or it was pushed while
\* all were being marked, or a call failed.
ListAgrees ==
  Quiet /\ page.st = "list" =>
    \A n \in Notification \ blurred :
      LET entries == {i \in page.items : i.id = n} IN
        /\ Row[n] = "unread" \/ (Row[n] = "read" /\ ~page.unreadOnly) => Cardinality(entries) = 1
        /\ \A i \in entries : i.read <=> Row[n] = "read"

=============================================================================
