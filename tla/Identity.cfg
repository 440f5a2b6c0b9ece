\* Starts one at a time; a key for each generation.
CONSTANTS
  Key = {k1, k2, k3, k4, k5}
  TcpOnly = TRUE
  Overlap = FALSE
SYMMETRY KeySymmetry
SPECIFICATION Spec
INVARIANTS TypeOK PinnedIsServed
PROPERTIES PairStays
