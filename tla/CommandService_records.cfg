SPECIFICATION Spec
CONSTANTS
  Kinds = {"rows", "restart"}
  Modes = {CAP}
  Mixed = {}
  RowCounts = {8}
  Ids = {i1,i2}
  Boots = {b1,b2}
  Api = {a1}
  MaxRecords = 2
  None = None
  DefaultMode = CAP
  DefaultRows = 8
SYMMETRY Symmetry
INVARIANTS RecordIdsUnique 
PROPERTY RecordIdentityKept
CHECK_DEADLOCK FALSE
