SPECIFICATION Spec
CONSTANTS
  Callers = {c1, c2}
  Addrs = {1, 2}
  Modules = {m1}
  Unmapped = Unmapped
  Ttl = 2
  MaxTime = 3
SYMMETRY CallerSymmetry
INVARIANTS
  EntriesAgeHonestly
  FoundWasThere
  MissingWasMissing
  ForcedIsCurrent
CHECK_DEADLOCK FALSE
