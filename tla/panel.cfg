SPECIFICATION Spec
CONSTANTS
  Procs = {p1, p2}
  Workers = 2
  Starts <- MCStarts
INVARIANTS NoStaleCheck ConfigKept
PROPERTY PageLeadsToWork
