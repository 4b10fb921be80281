SPECIFICATION Spec
CONSTANTS
  Processes = {p1, p2}
  Rows = {r1, r2}
  Modes = {"standalone", "external"}
  None = None
INVARIANTS TypeOK RowsKept UpMeansUpgraded
PROPERTIES NoHalfMigration Upgraded StartUpsEnd
