SPECIFICATION Spec
CONSTANTS
  Kinds = {"mode", "row_modes"}
  Modes = {CAP}
  Mixed = {M}
  RowCounts = {8}
  Ids = {i1}
  Boots = {b1,b2}
  Api = {a1}
  MaxRecords = 1
  None = None
  DefaultMode = CAP
  DefaultRows = 8
SYMMETRY Symmetry
INVARIANTS TypeOK ProfileWatched 
 
CHECK_DEADLOCK FALSE
