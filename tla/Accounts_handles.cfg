SPECIFICATION Spec
CONSTANTS
  People = {olga, mats, nina}
  Settled = {olga, mats}
  Links = {l1, l2}
  Handles = {h1, h2, h3}
  Invites = {i1}
  Daemons = {d1}
  Agents = {a1, a2}
  Runs = {r1, r2}
  Slots = {s1, s2}
  Requests = 4
  None = None
SYMMETRY Symmetry
INVARIANTS
  LinkUsedOnce
  HandlesDistinct
PROPERTY
  ActiveRunKeepsAgent
CHECK_DEADLOCK FALSE
