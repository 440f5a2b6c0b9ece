\* Requests one at a time, with write errors, crashes and restarts.
\* Deadlock is off: a server whose file does not load stays down.
CONSTANTS
  Request = {r1, r2}
  Name = {alice, bob, blank}
  Token = {k1}
  Blank = blank
  Entry = {good, bad}
  GoodEntry = {good}
  Idle = Idle
  OneAtATime = TRUE
SPECIFICATION Spec
SYMMETRY Symmetry
INVARIANTS TypeOK SavedTablesLoad FileFollowsMemory
PROPERTIES OneEditAtATime 
CHECK_DEADLOCK FALSE
