SPECIFICATION Spec
CONSTANTS
  plain = plain
  effort = effort
  model = model
  Specs = {plain, model}
  Removed = Removed
  Profile <- MCProfile
  Default = "default"
  Named = {"model"}
  Procs = {p1, p2, p3}
  NoProc = NoProc
  Fresh = Fresh
  Boxes = {"for_me"}
  Sigs = {x, y}
  NoSig = NoSig
  Cap = 2
  EventCap = 1
  Disturbances = 6
SYMMETRY Symmetry
INVARIANTS TypeOK NoOrphan OwnedCorpse
PROPERTY NeverStaleSpec
