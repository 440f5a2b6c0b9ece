---------------------------- MODULE TransportStream ----------------------------
(***************************************************************************)
(* One direction of the byte stream below an encrypted session: a TCP or   *)
(* QUIC stream, or a WebSocket made to look like one                       *)
(* (srp-core/src/wss.rs, WsStream), on which every write is a message.     *)
(* tungstenite keeps messages back until a flush or a close, and may send  *)
(* them sooner.  A plain stream is one whose messages are whatever a write *)
(* took, with no boundaries for its reader.                                *)
(***************************************************************************)
EXTENDS Naturals, Sequences, FiniteSetsExt

VARIABLES
    over,      \* what it is: "stream" or "websocket"
    sink,      \* messages tungstenite has been given and keeps
    wire,      \* messages under way
    readBuf,   \* read_buf from read_pos on: what is left of the last message
    below      \* "up", "fin" after a shutdown, or "broken"

transport == <<over, sink, wire, readBuf, below>>

TransportInit == /\ over \in {"stream", "websocket"}
                 /\ sink = <<>> /\ wire = <<>> /\ readBuf = <<>> /\ below = "up"

\* poll_write with a buffer takes its first k octets, or is Pending when k is 0.
\* A WebSocket takes all of it.
Takes(k, buf) ==
    LET message == SubSeq(buf, 1, k)
    IN /\ below = "up"
       /\ over = "websocket" => k \in {0, Len(buf)}
       /\ IF k = 0 THEN UNCHANGED <<sink, wire>>
          ELSE IF over = "websocket" THEN sink' = Append(sink, message) /\ UNCHANGED wire
                                     ELSE wire' = Append(wire, message) /\ UNCHANGED sink
       /\ UNCHANGED <<over, readBuf, below>>

Sends == /\ below = "up" /\ sink # <<>>
         /\ wire' = Append(wire, Head(sink)) /\ sink' = Tail(sink)
         /\ UNCHANGED <<over, readBuf, below>>

\* Seeded bug: poll_flush does nothing, as it may on a plain stream.
SentAnyway == TRUE

\* poll_flush and poll_close are Ready.
Sent == sink = <<>>

Closes == below = "up" /\ Sent /\ below' = "fin" /\ UNCHANGED <<over, sink, wire, readBuf>>

\* Seeded bug: the next message replaces what the reader had no room for.
NextMessageEarly == /\ wire # <<>>
                    /\ readBuf' = Head(wire) /\ wire' = Tail(wire)
                    /\ UNCHANGED <<over, sink, below>>

\* A turn of poll_read's loop when nothing is left of the last message.
NextMessage == /\ readBuf = <<>> /\ wire # <<>>
               /\ readBuf' = Head(wire) /\ wire' = Tail(wire)
               /\ UNCHANGED <<over, sink, below>>

\* poll_read into room for some octets fills k of them.
Fills(k, room) ==
    /\ k \in 1 .. Min({room, Len(readBuf)})
    /\ over = "websocket" => k = Min({room, Len(readBuf)})
    /\ readBuf' = SubSeq(readBuf, k + 1, Len(readBuf))
    /\ UNCHANGED <<over, sink, wire, below>>

Empty == readBuf = <<>> /\ wire = <<>>

\* Seeded bug: an error of the WebSocket is taken for its end.
EndsOnError == Empty /\ below # "up"

\* poll_read fills nothing: the end.  A WebSocket ends with a Close message; one
\* that breaks without it returns an error.
Ends == Empty /\ (below = "fin" \/ (below = "broken" /\ over = "stream"))
Fails == Empty /\ below = "broken"

\* The connection breaks, or the writer's process dies: a part of what was
\* under way still arrives.
Breaks == /\ below # "broken" /\ below' = "broken" /\ sink' = <<>>
          /\ \E k \in 0 .. Len(wire) : wire' = SubSeq(wire, 1, k)
          /\ UNCHANGED <<over, readBuf>>
=============================================================================
