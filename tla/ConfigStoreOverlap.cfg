\* Two requests that may overlap; every port entry parses.
\* Deadlock is off: a server whose file does not load stays down.
CONSTANTS
  Request = {r1, r2}
  Name = {alice, bob, blank}
  Token = {k1}
  Blank = blank
  Entry = {good}
  GoodEntry = {good}
  Idle = Idle
  OneAtATime = FALSE
SPECIFICATION Spec
SYMMETRY Symmetry
PROPERTY OneEditAtATime
CHECK_DEADLOCK FALSE
