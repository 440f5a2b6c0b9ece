\* Two tunnels with a proxy each, or one with two, three bytes, three samples, two restarts.
\* Deadlock is off: the bounds end every behaviour.
CONSTANTS
  Tunnel = {t1, t2}
  Proxy = {p1, p2}
  HistoryCap = 3
  PersistEvery = 2
  MaxBytes = 3
  MaxSamples = 3
  MaxStarts = 3
  Nobody = Nobody
  Torn = Torn
SPECIFICATION Spec
SYMMETRY Symmetry
INVARIANTS TypeOK SampleInWindow OneStepBackPerRestart
PROPERTY SamplesMonotonic
CHECK_DEADLOCK FALSE
