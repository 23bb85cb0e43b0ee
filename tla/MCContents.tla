----------------------------- MODULE MCContents -----------------------------
EXTENDS Contents, TLC

CONSTANTS alice, bob, o1, o2, o3, w1, w2, w3, w4, p1, p2, p3, k1, c1, c2, a1, a2, s1, s2, f1, f2

\* One organization with two workspaces; a project, a task, a comment and an
\* attachment in the first, a project in the second.
At0(up, label, by) == [up |-> up, label |-> label, by |-> by]

MCGiven ==
  o1 :> At0(None, s1, None) @@ w1 :> At0(o1, s1, None) @@ w2 :> At0(o1, s2, None)
  @@ p1 :> At0(w1, None, None) @@ p2 :> At0(w2, None, None)
  @@ k1 :> At0(p1, None, None)
  @@ c1 :> At0(k1, None, bob) @@ a1 :> At0(k1, f1, bob)

\* alice founded the first workspace, bob the second; what each is in the
\* other's workspace, and in the organization, varies.
Staffed(orgBob, bobInW1, aliceInW2) ==
  [t \in Tenant |->
    CASE t = o1 -> alice :> "OWNER" @@ bob :> orgBob
      [] t = w1 -> alice :> "OWNER" @@ bob :> bobInW1
      [] t = w2 -> alice :> aliceInW2 @@ bob :> "OWNER"
      [] OTHER -> alice :> None @@ bob :> None]

\* The second beginning finds the comment and the attachment soft-deleted.
MCBeginnings ==
  {[role |-> Staffed("ADMIN", "MEMBER", None), deleted |-> {}],
   [role |-> Staffed(None, "ADMIN", "VIEWER"), deleted |-> {c1, a1}]}

Symmetry == Permutations(Request)

=============================================================================
