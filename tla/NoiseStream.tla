---------------------------- MODULE NoiseStream -----------------------------
(***************************************************************************)
(* One direction of an encrypted session (srp-core/src/session.rs,         *)
(* NoiseStream): the writer turns every accepted chunk into a record, two  *)
(* octets of length and the ciphertext, and pushes it to the stream below  *)
(* (TransportStream), a plain one that takes as many octets at a time as   *)
(* it likes or a WebSocket of messages; the reader collects the octets, in *)
(* pieces of any size, and decrypts complete records.                      *)
(*                                                                         *)
(* An octet on the wire is known by its record and its place in it.  The   *)
(* cipher accepts a body only if it is exactly the next record's; a header *)
(* read out of place announces a record of arbitrary length.               *)
(***************************************************************************)
EXTENDS TransportStream

CONSTANTS
    MaxPlaintext,  \* MAX_PLAINTEXT
    Tag,           \* octets the cipher adds to a chunk
    Room,          \* room in the reader's buffer
    MaxBytes,      \* bound: bytes written
    MaxCall        \* bound: bytes of one write

ASSUME SizesAssumption == /\ MaxPlaintext \in Nat \ {0} /\ Tag \in Nat \ {0}
                          /\ Room \in Nat \ {0} /\ MaxCall \in Nat \ {0} /\ MaxBytes \in Nat

VARIABLES
    accepted,   \* the bytes given to writes, numbered from 1
    records,    \* the chunks encrypted so far
    writeBuf,   \* write_buf from write_pos on: framed octets not yet pushed
    flushed,    \* bytes accepted when a flush last completed
    wend,       \* the writer: "open", "shut" after a shutdown, "failed" after an error
    stage,      \* read_state: "Len" or "Body"
    need,       \* octets the stage is to collect
    got,        \* octets it has collected
    nonce,      \* records decrypted so far
    plaintext,  \* plaintext from plaintext_pos on
    delivered,  \* the bytes the reader returned
    rend        \* the reader: "open", "eof", "truncated", "garbled" or "failed"

writer == <<accepted, records, writeBuf, flushed, wend>>
framer == <<stage, need, got, nonce, plaintext>>
reader == <<framer, delivered, rend>>
vars == <<writer, transport, reader>>

Octet(r) == [i \in 1..2 + Len(records'[r]) + Tag |-> <<r, i>>]

Init == /\ TransportInit
        /\ accepted = <<>> /\ records = <<>> /\ writeBuf = <<>>
        /\ flushed = 0 /\ wend = "open"
        /\ stage = "Len" /\ need = 2 /\ got = <<>> /\ nonce = 0
        /\ plaintext = <<>> /\ delivered = <<>> /\ rend = "open"
-----------------------------------------------------------------------------
(* The writer.                                                             *)

\* poll_drain: the stream below takes the first k octets of buf; the rest
\* stays for a later poll.
Push(k, buf) == Takes(k, buf) /\ writeBuf' = SubSeq(buf, k + 1, Len(buf))

\* poll_write, poll_flush and poll_shutdown go on only when poll_drain is Ready.
Ready == writeBuf = <<>>

\* A poll that stays pending in poll_drain, whoever calls it.
Drain == /\ wend = "open"
         /\ \E k \in 1..Len(writeBuf) : Push(k, writeBuf)
         /\ UNCHANGED <<accepted, records, flushed, wend, reader>>

\* Seeded bug: a chunk of any size becomes one record.
ChunkWhole(size) == [i \in 1..size |-> Len(accepted) + i]

Chunk(size) == LET k == Min({size, MaxPlaintext}) IN
               [i \in 1..k |-> Len(accepted) + i]

\* poll_write of size bytes accepts one chunk, whether the stream below takes
\* the record now or not.  (One that encrypts the chunk and then meets an error
\* is a Write and then WriteFails.)
Write(size) ==
    /\ wend = "open" /\ Ready
    /\ size > 0 /\ Len(accepted) + size <= MaxBytes
    /\ accepted' = accepted \o Chunk(size)
    /\ records' = Append(records, Chunk(size))
    /\ LET frame == Octet(Len(records) + 1) IN \E k \in 0..Len(frame) : Push(k, frame)
    /\ UNCHANGED <<flushed, wend, reader>>

Flush == /\ wend = "open" /\ below = "up" /\ Ready /\ Sent
         /\ flushed' = Len(accepted)
         /\ UNCHANGED <<accepted, records, writeBuf, wend, transport, reader>>

Shutdown == /\ wend = "open" /\ Ready /\ Closes
            /\ wend' = "shut"
            /\ UNCHANGED <<accepted, records, writeBuf, flushed, reader>>

\* The stream below returns an error to any poll, or takes nothing (WriteZero).
WriteFails == /\ wend = "open" /\ below = "broken" /\ wend' = "failed"
              /\ UNCHANGED <<accepted, records, writeBuf, flushed, transport, reader>>
-----------------------------------------------------------------------------
(* The reader: the turns of poll_read's loop.                              *)

Reading == rend = "open"

\* Buffered plaintext is delivered first, as much as the caller has room for.
Deliver ==
    /\ Reading /\ plaintext # <<>>
    /\ LET k == Min({Room, Len(plaintext)}) IN
       /\ delivered' = delivered \o SubSeq(plaintext, 1, k)
       /\ plaintext' = SubSeq(plaintext, k + 1, Len(plaintext))
    /\ UNCHANGED <<writer, transport, stage, need, got, nonce, rend>>

\* Seeded bug: Pending leaves the placeholder state behind.
AfterPendingFresh == stage' = "Len" /\ need' = 2 /\ got' = <<>>

\* On Pending the state is put back.
AfterPending == UNCHANGED <<stage, need, got>>

Pending ==
    /\ Reading /\ plaintext = <<>> /\ Len(got) < need /\ Empty /\ below = "up"
    /\ AfterPending
    /\ UNCHANGED <<writer, transport, nonce, plaintext, delivered, rend>>

\* The stream below looks for octets, and fills some of the stage's buffer.
Refills == /\ Reading /\ plaintext = <<>> /\ Len(got) < need
           /\ NextMessage
           /\ UNCHANGED <<writer, reader>>

Read(k) ==
    /\ Reading /\ plaintext = <<>> /\ Len(got) < need
    /\ Fills(k, need - Len(got))
    /\ got' = got \o SubSeq(readBuf, 1, k)
    /\ UNCHANGED <<writer, stage, need, nonce, plaintext, delivered, rend>>

\* The length announced by two octets: a record's own if they are its header.
Announced == IF \E r \in DOMAIN records : got = << <<r, 1>>, <<r, 2>> >>
             THEN {Len(records[got[1][1]]) + Tag} ELSE 0..MaxPlaintext + Tag

HeaderRead ==
    /\ Reading /\ plaintext = <<>> /\ stage = "Len" /\ Len(got) = need
    /\ need' \in Announced
    /\ stage' = "Body" /\ got' = <<>>
    /\ UNCHANGED <<writer, transport, nonce, plaintext, delivered, rend>>

\* read_message accepts the body of the next record and of no other.
Genuine == /\ nonce < Len(records)
           /\ got = [i \in 1..Len(records[nonce + 1]) + Tag |-> <<nonce + 1, i + 2>>]

BodyRead ==
    /\ Reading /\ plaintext = <<>> /\ stage = "Body" /\ Len(got) = need
    /\ stage' = "Len" /\ need' = 2 /\ got' = <<>>
    /\ IF Genuine THEN plaintext' = records[nonce + 1] /\ nonce' = nonce + 1 /\ UNCHANGED rend
                  ELSE rend' = "garbled" /\ UNCHANGED <<plaintext, nonce>>
    /\ UNCHANGED <<writer, transport, delivered>>

\* A clean end comes on a record boundary, before any octet of a header.
CleanEnd == stage = "Len" /\ got = <<>>

\* The stream below ends: poll_read fills nothing.
End ==
    /\ Reading /\ plaintext = <<>> /\ Len(got) < need
    /\ Ends
    /\ rend' = IF CleanEnd THEN "eof" ELSE "truncated"
    /\ UNCHANGED <<writer, transport, framer, delivered>>

\* The stream below returns an error instead; the state is put back.
ReadFails ==
    /\ Reading /\ plaintext = <<>> /\ Len(got) < need /\ Fails
    /\ rend' = "failed"
    /\ UNCHANGED <<writer, transport, framer, delivered>>
-----------------------------------------------------------------------------
ReadNext == Deliver \/ Pending \/ (\E k \in 1..need : Read(k))
            \/ Refills \/ HeaderRead \/ BodyRead \/ End \/ ReadFails

\* tungstenite sends on its own, or the connection breaks.
Below == (Sends \/ Breaks) /\ UNCHANGED <<writer, reader>>

Next == \/ Drain \/ (\E size \in 1..MaxCall : Write(size)) \/ Flush \/ Shutdown \/ WriteFails
        \/ ReadNext \/ Below

Spec == Init /\ [][Next]_vars

\* Nothing makes the writer write; a reader goes on reading, and is woken when
\* octets arrive.
FairSpec == Spec /\ WF_vars(ReadNext)
-----------------------------------------------------------------------------
(* Properties.                                                             *)

\* The variables keep their types.
TypeOK ==
    /\ accepted \in Seq(1..MaxBytes) /\ Len(writeBuf) <= 2 + MaxPlaintext + Tag
    /\ flushed \in 0..Len(accepted) /\ wend \in {"open", "shut", "failed"}
    /\ over \in {"stream", "websocket"} /\ below \in {"up", "fin", "broken"}
    /\ over = "stream" => sink = <<>>
    /\ stage \in {"Len", "Body"} /\ need \in 0..MaxPlaintext + Tag + 2 /\ Len(got) <= need
    /\ nonce \in 0..Len(records) /\ rend \in {"open", "eof", "truncated", "garbled", "failed"}

\* However the octets are cut into pieces, the reader never loses the framing:
\* what it has and has yet to read is exactly what the writer pushed, and no
\* record of an honest writer is refused.
NeverGarbled == rend # "garbled"

\* The bytes of a flush arrive, or the connection broke: none is left behind in
\* the writer's buffer or in a half-read record.
FlushedArrives ==
    \A k \in 1..MaxBytes :
        flushed >= k ~> Len(delivered) >= k \/ below = "broken"

\* Over a WebSocket an orderly end is one the writer made: a connection that
\* broke between two records is not mistaken for it, as on a plain stream.
EofIsWhole == over = "websocket" /\ rend = "eof" => wend = "shut" /\ delivered = accepted

\* The session is a byte stream: in order, unaltered, once, and with an end that
\* is reported only after every byte unless the connection broke.
Bytes == INSTANCE ByteStream WITH
    Byte <- 1..MaxBytes,
    end <- IF below = "up" THEN "open" ELSE IF below = "fin" THEN "closed" ELSE "broken",
    seen <- IF rend \in {"truncated", "garbled", "failed"} THEN "error" ELSE rend
StreamSpec == Bytes!Spec
=============================================================================
