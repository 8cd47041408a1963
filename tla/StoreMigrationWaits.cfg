SPECIFICATION Spec
CONSTANTS
  Openers = {p1, p2, p3}
  OldRows = {r1}
  None = None
SYMMETRY AnyOpener
INVARIANT ContentionWaits
\* Each process opens the store once.
CHECK_DEADLOCK FALSE
