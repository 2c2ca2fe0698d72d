CONSTANTS
  e1 = e1
  e2 = e2
  p1 = p1
  s1 = s1
  c1 = c1
  c2 = c2
  Episodes = {e1, e2}
  Parents = {p1}
  Sessions = {s1}
  Calls = {c1, c2}
  Optimized = {p1}
  Elsewhere = {}
  Kept = 2
  MaxEdits = 1
  MaxMail = 1
  Ends = {"error"}
SPECIFICATION Spec
SYMMETRY Ids
INVARIANT OneActiveEpisodePerParent
