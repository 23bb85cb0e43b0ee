------------------------- MODULE MCNotificationBell -------------------------
(* Model-checking instance of NotificationBell. *)
EXTENDS NotificationBell, TLC

Symmetry == Permutations(Notification)

\* States that differ only in what the rows were before the oldest call that is
\* still out have the same future.
Asked == asked \cup {l.from : l \in loads} \cup {Len(past)}
Oldest == CHOOSE t \in Asked : \A u \in Asked : t <= u

View ==
  <<SubSeq(past, Oldest, Len(past)), {t - Oldest : t \in asked},
    {[l EXCEPT !.from = @ - Oldest] : l \in loads},
    unsent, link, wire, count, page, marks, clicks, upsets, drift, blurred>>

=============================================================================
