\* Three threads wait for a fourth at the same time.
CONSTANT
  Joiners = {j1, j2, j3}
SPECIFICATION Spec
INVARIANTS DestroyedUnused NoDoubleJoin
CHECK_DEADLOCK FALSE
