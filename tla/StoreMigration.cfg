SPECIFICATION Spec
CONSTANTS
  Openers = {p1, p2, p3, p4}
  OldRows = {r1}
  None = None
SYMMETRY AnyOpener
INVARIANTS MigrationTypeOK IdentitiesKept OpenedIsMigrated
\* Each process opens the store once.
CHECK_DEADLOCK FALSE
