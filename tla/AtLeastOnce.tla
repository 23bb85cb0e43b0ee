----------------------------- MODULE AtLeastOnce -----------------------------
(***************************************************************************)
(* What the notification pipeline promises for each event and recipient:   *)
(* the notification is stored at least once, or given up; it is never      *)
(* stored more often than it may be tried.                                 *)
(***************************************************************************)
EXTENDS Naturals

CONSTANTS
  Job,     \* notifications to deliver
  Tries    \* how often one may be tried

VARIABLES
  promise,   \* what the pipeline says of a notification
  copies     \* the tries that have stored it

vars == <<promise, copies>>

Init ==
  /\ promise = [j \in Job |-> "none"]
  /\ copies = [j \in Job |-> {}]

\* An event asks for it.
Ask(j) ==
  /\ promise[j] = "none"
  /\ promise' = [promise EXCEPT ![j] = "pending"]
  /\ UNCHANGED copies

\* A try stores it; a slow one may come after the promise was settled.
Store(j) ==
  /\ promise[j] # "none"
  /\ \E n \in 1 .. Tries : copies' = [copies EXCEPT ![j] = @ \cup {n}]
  /\ UNCHANGED promise

\* It counts as delivered once it is stored.
Settle(j) ==
  /\ promise[j] = "pending" /\ copies[j] # {}
  /\ promise' = [promise EXCEPT ![j] = "delivered"]
  /\ UNCHANGED copies

\* Those a process was about to hand over are given up together.
GiveUp ==
  /\ \E J \in SUBSET {j \in Job : promise[j] = "pending"} :
       promise' = [j \in Job |-> IF j \in J THEN "given up" ELSE promise[j]]
  /\ UNCHANGED copies

Next == GiveUp \/ \E j \in Job : Ask(j) \/ Store(j) \/ Settle(j)

Spec == Init /\ [][Next]_vars

=============================================================================
