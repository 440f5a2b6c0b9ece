----------------------------- MODULE ByteStream ------------------------------
(***************************************************************************)
(* What the layers above an encrypted session may rely on: one direction   *)
(* of a byte stream.  Bytes arrive in order, unaltered and once; the end   *)
(* of the stream is reported after every byte, unless the connection broke *)
(* before: then it may be reported after any prefix.                       *)
(***************************************************************************)
EXTENDS Naturals, Sequences

CONSTANT Byte

VARIABLES
    accepted,   \* bytes the writer was told are written
    delivered,  \* bytes the reader got
    end,        \* what the writer's end came to: "open", "closed" or "broken"
    seen        \* what the reader was told of it: "open", "eof" or "error"

vars == <<accepted, delivered, end, seen>>

Init == accepted = <<>> /\ delivered = <<>> /\ end = "open" /\ seen = "open"

\* A write takes some bytes.
Accept == /\ end # "closed"
          /\ accepted' \in Seq(Byte) /\ Len(accepted') > Len(accepted)
          /\ SubSeq(accepted', 1, Len(accepted)) = accepted
          /\ UNCHANGED <<delivered, end, seen>>

\* A read returns the next bytes.
Deliver == /\ seen = "open"
           /\ \E k \in Len(delivered) + 1 .. Len(accepted) : delivered' = SubSeq(accepted, 1, k)
           /\ UNCHANGED <<accepted, end, seen>>

Close == end = "open" /\ end' = "closed" /\ UNCHANGED <<accepted, delivered, seen>>
Break == end # "broken" /\ end' = "broken" /\ UNCHANGED <<accepted, delivered, seen>>

Eof == /\ seen = "open" /\ seen' = "eof"
       /\ \/ end = "broken"
          \/ end = "closed" /\ delivered = accepted
       /\ UNCHANGED <<accepted, delivered, end>>

Fail == /\ seen = "open" /\ seen' = "error" /\ end = "broken"
        /\ UNCHANGED <<accepted, delivered, end>>

Next == Accept \/ Deliver \/ Close \/ Break \/ Eof \/ Fail

Spec == Init /\ [][Next]_vars
=============================================================================
