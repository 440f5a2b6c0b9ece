\* One unit is five seconds: pings every 3, timers of 9, a session counts as
\* uptime after 6; frames may take as long as the interval.
SPECIFICATION Spec
CONSTANTS
  Interval = 3
  Timeout = 9
  ControlIdle = 9
  MaxDelay = 3
  BackoffMin = 1
  BackoffMax = 6
  Jitter = 1
  Uptime = 6
INVARIANTS
  TypeOK
  NoFalseAlarm
  LeftInTime
  BackoffFollowsFailures
