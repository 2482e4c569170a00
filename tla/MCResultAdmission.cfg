SPECIFICATION Spec
CONSTANTS
  MaxRows = 2
  MaxCount = 4
  MaxRelations = 2
  MaxColumns = 1
  MaxCell = 2
  MaxArrow = 8
  MaxDecoded = 3
  MaxViewRows = 4
  MaxViewBytes = 5
  MaxTables = 3
INVARIANTS
  AdmissionTypeOK
  ExecutesOnlyTheGoverned
  PublishedIsComplete
  AdmittedIsStreamable
  WritersAreClosed
CHECK_DEADLOCK FALSE
