SPECIFICATION Spec
CONSTANTS
  alice = alice bob = bob
  o1 = o1 o2 = o2 o3 = o3
  w1 = w1 w2 = w2 w3 = w3 w4 = w4
  p1 = p1 p2 = p2 p3 = p3 k1 = k1
  c1 = c1 c2 = c2 a1 = a1 a2 = a2
  s1 = s1 s2 = s2 f1 = f1 f2 = f2
  User = {alice, bob}
  Org = {o1, o2, o3}
  Workspace = {w1, w2, w3, w4}
  Project = {p1, p2, p3}
  Task = {k1}
  Comment = {c1, c2}
  Attachment = {a1, a2}
  Request = {r1, r2}
  None = None
  Slug = {s1, s2}
  Key = {f1, f2}
  Granted = {"VIEWER"}
  Given <- MCGiven
  Beginnings <- MCBeginnings
SYMMETRY Symmetry
CHECK_DEADLOCK FALSE
INVARIANTS TreeSound OwnerlessOnlyByInvite AuditTellsThePast FilesAccounted
PROPERTIES WritesStayInTenant InvitationIsNamed DeletedCommentFrozen
