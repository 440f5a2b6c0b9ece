\* Three bytes, in one to three writes: a write of three is cut into two chunks,
\* and the reader has room for one byte at a time; below, a plain stream or a
\* WebSocket.
\* Deadlock is off: a stream comes to its end.
CONSTANTS
  MaxPlaintext = 2
  Tag = 1
  Room = 1
  MaxBytes = 3
  MaxCall = 3
SPECIFICATION FairSpec
INVARIANTS TypeOK NeverGarbled EofIsWhole
PROPERTIES FlushedArrives StreamSpec
CHECK_DEADLOCK FALSE
