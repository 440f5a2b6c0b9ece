-------------------------- MODULE NoiseStreamProofs --------------------------
(***************************************************************************)
(* The framing of NoiseStream for every chunk size, tag, buffer and number *)
(* of bytes: the octets the reader holds, those under way and those the    *)
(* writer keeps are, in this order, the octets of the records from the one *)
(* the reader is at, without a gap.                                        *)
(***************************************************************************)
EXTENDS NoiseStream, SequenceTheorems, TLAPS

\* Octets on the wire of record r of rs.
Size(rs, r) == 2 + Len(rs[r]) + Tag

\* Bytes accepted before record r.
Offset(r) == IF r \in DOMAIN records THEN records[r][1] - 1 ELSE Len(accepted)

\* Bytes are numbered in the order they are accepted, and cut into records.
Numbered(b, from) == \A i \in 1 .. Len(b) : b[i] = from + i
Records == Seq(Seq(1 .. MaxBytes))
Written ==
    /\ accepted \in Seq(1 .. MaxBytes) /\ Numbered(accepted, 0)
    /\ records \in Records
    /\ Offset(1) = 0
    /\ \A r \in DOMAIN records :
          /\ Len(records[r]) \in 1 .. MaxPlaintext
          /\ Numbered(records[r], Offset(r))
          /\ Offset(r) + Len(records[r]) = Offset(r + 1)
          /\ Offset(r + 1) <= Len(accepted)

\* What the reader has decrypted is the bytes of the records before nonce + 1.
Decrypted ==
    /\ nonce \in 0 .. Len(records)
    /\ plaintext \in Seq(1 .. MaxBytes) /\ delivered \in Seq(1 .. MaxBytes)
    /\ Numbered(delivered, 0) /\ Numbered(plaintext, Len(delivered))
    /\ Len(delivered) + Len(plaintext) = Offset(nonce + 1)

\* Octets of one record, in order, from its i-th.
Octets == Nat \X Nat
Piece(m, r, i) == /\ r \in Nat /\ i \in Nat \ {0}
                  /\ \A j \in 1 .. Len(m) : m[j] = <<r, i + j - 1>>
Final(m) == m[Len(m)]

\* An octet of a record there is, and the octet that follows it.
Fits(rs, o) == o[1] \in DOMAIN rs /\ o[2] <= Size(rs, o[1])
After(rs, o) == IF o[2] < Size(rs, o[1]) THEN <<o[1], o[2] + 1>> ELSE <<o[1] + 1, 1>>
Whole(rs, m) == m # <<>> /\ Piece(m, m[1][1], m[1][2]) /\ Fits(rs, Final(m))

\* A buffer and the messages behind it follow one another from octet e on, up
\* to the one before Ahead.
AfterBuf(rs, e, buf) == IF buf = <<>> THEN e ELSE After(rs, Final(buf))
Ahead(rs, e, buf, flow) ==
    IF flow = <<>> THEN AfterBuf(rs, e, buf) ELSE After(rs, Final(Final(flow)))
Line(rs, e, buf, flow) ==
    /\ buf # <<>> => Whole(rs, buf) /\ buf[1] = e
    /\ flow # <<>> => flow[1][1] = AfterBuf(rs, e, buf)
    /\ \A k \in DOMAIN flow : Whole(rs, flow[k])
    /\ \A k \in 1 .. Len(flow) - 1 : flow[k + 1][1] = After(rs, Final(flow[k]))

\* What the reader has collected, and the octet it is to get next.
Collected ==
    /\ got \in Seq(Octets) /\ rend # "garbled"
    /\ \/ stage = "Len" /\ need = 2
       \/ stage = "Body" /\ nonce < Len(records) /\ need = Size(records, nonce + 1) - 2
    /\ Len(got) <= need
    /\ Piece(got, nonce + 1, IF stage = "Len" THEN 1 ELSE 3)
    /\ got # <<>> => nonce < Len(records)
Expected ==
    IF stage = "Body" /\ Len(got) = need THEN <<nonce + 2, 1>>
    ELSE <<nonce + 1, Len(got) + (IF stage = "Len" THEN 1 ELSE 3)>>

\* What is under way continues what the reader has.
Flow == wire \o sink
Chained ==
    /\ readBuf \in Seq(Octets) /\ wire \in Seq(Seq(Octets)) /\ sink \in Seq(Seq(Octets))
    /\ Line(records, Expected, readBuf, Flow)

\* While the connection is whole, what the writer keeps comes next.
Following ==
    IF writeBuf = <<>> THEN <<Len(records) + 1, 1>>
    ELSE <<Len(records), Size(records, Len(records)) - Len(writeBuf) + 1>>
Kept ==
    /\ writeBuf \in Seq(Octets)
    /\ writeBuf # <<>> => records # <<>> /\ Piece(writeBuf, Following[1], Following[2])
    /\ below # "broken" => Ahead(records, Expected, readBuf, Flow) = Following

\* The ends agree.
Ended ==
    /\ wend \in {"open", "shut", "failed"} /\ below \in {"up", "fin", "broken"}
    /\ over \in {"stream", "websocket"}
    /\ rend \in {"open", "eof", "truncated", "garbled", "failed"}
    /\ flushed \in 0 .. Len(accepted)
    /\ over = "stream" => sink = <<>>
    /\ wend = "open" => below # "fin"
    /\ below = "fin" => wend = "shut" /\ writeBuf = <<>> /\ sink = <<>>
    /\ wend = "failed" => below = "broken"
    /\ EofIsWhole

IInv == Written /\ Decrypted /\ Collected /\ Chained /\ Kept /\ Ended
-----------------------------------------------------------------------------
(* Pieces.                                                                 *)

\* The lesser of two numbers, as the model takes it.
LEMMA MinOfTwo == ASSUME NEW a \in Nat, NEW b \in Nat
                  PROVE  Min({a, b}) = IF a <= b THEN a ELSE b
<1>1. PICK x \in {a, b} : \A y \in {a, b} : x <= y
  OBVIOUS
<1>2. Min({a, b}) \in {a, b} /\ \A y \in {a, b} : Min({a, b}) <= y
  BY <1>1 DEF Min
<1>. QED BY <1>2

\* Only the empty sequence has no elements.
LEMMA EmptyIff == ASSUME NEW S, NEW s \in Seq(S) PROVE s = <<>> <=> Len(s) = 0
  BY EmptySeq

\* A record takes room on the wire, more than its header.
LEMMA Sizes == ASSUME NEW rs \in Records, NEW r \in DOMAIN rs
               PROVE  Size(rs, r) \in Nat /\ Size(rs, r) >= 3
  BY SizesAssumption DEF Records, Size

\* A part of a piece is a piece, and begins where it was cut.
LEMMA PartOfPiece ==
    ASSUME NEW m \in Seq(Octets), NEW r, NEW i, Piece(m, r, i),
           NEW a \in 1 .. Len(m), NEW b \in a .. Len(m)
    PROVE  /\ SubSeq(m, a, b) \in Seq(Octets) /\ Len(SubSeq(m, a, b)) = b - a + 1
           /\ Piece(SubSeq(m, a, b), r, i + a - 1)
<1> DEFINE s == SubSeq(m, a, b)
           n == b - a + 1
           h == i + a - 1
<1>1. r \in Nat /\ i \in Nat /\ i >= 1 /\ Len(m) \in Nat
  BY DEF Piece
<1>2. \A j \in 1 .. Len(m) : m[j] = <<r, i + j - 1>>
  BY DEF Piece
<1>3. s \in Seq(Octets) /\ Len(s) = n /\ s = [j \in 1 .. n |-> m[a + j - 1]]
  OBVIOUS
<1>4. ASSUME NEW j \in 1 .. n PROVE m[a + j - 1] = <<r, h + j - 1>>
  <2>1. a + j - 1 \in 1 .. Len(m) /\ i + (a + j - 1) - 1 = h + j - 1
    BY <1>1
  <2> QED BY <2>1, <1>2
<1>5. ASSUME NEW j \in 1 .. n PROVE s[j] = <<r, h + j - 1>>
  <2>1. s[j] = m[a + j - 1]
    BY <1>3
  <2> QED BY <2>1, <1>4
<1>6. h \in Nat \ {0}
  BY <1>1
<1> QED
  BY <1>1, <1>3, <1>5, <1>6 DEF Piece

\* Where a piece begins and ends.
LEMMA PieceEnds ==
    ASSUME NEW m \in Seq(Octets), m # <<>>, NEW r, NEW i, Piece(m, r, i)
    PROVE  /\ Len(m) \in Nat /\ Len(m) >= 1
           /\ m[1] = <<r, i>> /\ Piece(m, m[1][1], m[1][2])
           /\ Final(m) = <<r, i + Len(m) - 1>>
<1>1. Len(m) \in Nat /\ Len(m) >= 1 /\ i \in Nat
  BY DEF Piece
<1>2. m[1] = <<r, i + 1 - 1>> /\ m[Len(m)] = <<r, i + Len(m) - 1>>
  BY <1>1 DEF Piece
<1>3. i + 1 - 1 = i
  BY <1>1
<1> QED
  BY <1>1, <1>2, <1>3 DEF Final

-----------------------------------------------------------------------------
(* Lines of pieces.                                                        *)

Extends(rs2, rs) == \A x \in DOMAIN rs : x \in DOMAIN rs2 /\ rs2[x] = rs[x]

\* The last octet of a message is an octet.
LEMMA FinalOctet == ASSUME NEW rs, NEW m \in Seq(Octets), Whole(rs, m)
                    PROVE  /\ Final(m) \in Octets /\ Final(m)[1] \in DOMAIN rs
                           /\ Final(m)[2] <= Size(rs, Final(m)[1]) /\ m[1] \in Octets
  BY DEF Whole, Fits, Final

\* A line is one of the records there will be.
LEMMA LineExtends ==
    ASSUME NEW rs, NEW rs2, Extends(rs2, rs), NEW e,
           NEW buf \in Seq(Octets), NEW flow \in Seq(Seq(Octets)), Line(rs, e, buf, flow)
    PROVE  Line(rs2, e, buf, flow) /\ Ahead(rs2, e, buf, flow) = Ahead(rs, e, buf, flow)
<1>1. ASSUME NEW m \in Seq(Octets), Whole(rs, m)
      PROVE  Whole(rs2, m) /\ After(rs2, Final(m)) = After(rs, Final(m))
  BY <1>1, FinalOctet DEF Whole, Fits, After, Size, Extends
<1>2. AfterBuf(rs2, e, buf) = AfterBuf(rs, e, buf) /\ (buf # <<>> => Whole(rs2, buf))
  BY <1>1 DEF AfterBuf, Line
<1>3. ASSUME NEW k \in DOMAIN flow
      PROVE  Whole(rs2, flow[k]) /\ After(rs2, Final(flow[k])) = After(rs, Final(flow[k]))
  BY <1>1 DEF Line
<1>4. flow # <<>> => Len(flow) \in DOMAIN flow
  OBVIOUS
<1>5. Ahead(rs2, e, buf, flow) = Ahead(rs, e, buf, flow)
  BY <1>2, <1>3, <1>4 DEF Ahead, Final
<1>6. \A k \in 1 .. Len(flow) - 1 : k \in DOMAIN flow
  OBVIOUS
<1> QED
  BY <1>2, <1>3, <1>5, <1>6 DEF Line

\* A message of the octets that come next makes the line longer.
LEMMA LineAppend ==
    ASSUME NEW rs, NEW e, NEW buf \in Seq(Octets), NEW flow \in Seq(Seq(Octets)),
           Line(rs, e, buf, flow), NEW m \in Seq(Octets), Whole(rs, m),
           m[1] = Ahead(rs, e, buf, flow)
    PROVE  /\ Line(rs, e, buf, Append(flow, m))
           /\ Ahead(rs, e, buf, Append(flow, m)) = After(rs, Final(m))
<1> DEFINE longer == Append(flow, m)
           n == Len(flow)
<1>1. n \in Nat /\ DOMAIN flow = 1 .. n /\ (flow = <<>> <=> n = 0)
  BY LenProperties, EmptySeq
<1>2. Len(longer) = n + 1 /\ longer # <<>> /\ longer[n + 1] = m
  BY AppendProperties
<1>3. \A x \in 1 .. n : longer[x] = flow[x]
  BY AppendProperties
<1>4. DOMAIN longer = 1 .. n + 1
  <2>1. longer \in Seq(Seq(Octets))
    OBVIOUS
  <2> QED
    BY <1>2, <2>1, LenProperties
<1> HIDE DEF longer, n
<1>5. ASSUME NEW k \in DOMAIN longer PROVE Whole(rs, longer[k])
  <2>1. k \in 1 .. n \/ k = n + 1
    BY <1>1, <1>4
  <2> QED
    BY <1>1, <1>2, <1>3, <2>1 DEF Line
<1>6. longer[1][1] = AfterBuf(rs, e, buf)
  <2>1. CASE n = 0
    BY <1>1, <1>2, <2>1 DEF Ahead
  <2>2. CASE n # 0
    BY <1>1, <1>3, <2>2 DEF Line
  <2> QED
    BY <2>1, <2>2
<1>7. ASSUME NEW k \in 1 .. n PROVE longer[k + 1][1] = After(rs, Final(longer[k]))
  <2>1. CASE k = n
    BY <1>1, <1>2, <1>3, <2>1 DEF Ahead, Final, n
  <2>2. CASE k # n
    <3>1. k \in 1 .. n - 1 /\ k + 1 \in 1 .. n
      BY <1>1, <2>2
    <3> QED
      BY <1>3, <3>1 DEF Line, n
  <2> QED
    BY <2>1, <2>2
<1>8. Len(longer) - 1 = n
  BY <1>1, <1>2
<1>9. Ahead(rs, e, buf, longer) = After(rs, Final(m))
  BY <1>2 DEF Ahead, Final
<1>10. Line(rs, e, buf, longer)
  BY <1>2, <1>5, <1>6, <1>7, <1>8 DEF Line
<1> QED
  BY <1>9, <1>10 DEF longer

\* The next message takes the place of an empty buffer.
LEMMA LineNext ==
    ASSUME NEW rs, NEW e, NEW flow \in Seq(Seq(Octets)), Line(rs, e, <<>>, flow), flow # <<>>
    PROVE  /\ Line(rs, e, Head(flow), Tail(flow)) /\ Head(flow) # <<>>
           /\ Ahead(rs, e, Head(flow), Tail(flow)) = Ahead(rs, e, <<>>, flow)
<1> DEFINE rest == Tail(flow)
           n == Len(flow)
<1>1. n \in Nat /\ n >= 1 /\ DOMAIN flow = 1 .. n /\ Head(flow) = flow[1]
  BY LenProperties, EmptySeq
<1>2. rest \in Seq(Seq(Octets)) /\ Len(rest) = n - 1
  BY HeadTailProperties
<1>3. DOMAIN rest = 1 .. n - 1 /\ (rest = <<>> <=> n = 1)
  <2>1. DOMAIN rest = 1 .. Len(rest)
    BY <1>2, LenProperties
  <2>2. rest = <<>> <=> Len(rest) = 0
    BY <1>2, EmptyIff
  <2> QED
    BY <1>1, <1>2, <2>1, <2>2, SMTT(40)
<1>4. \A x \in 1 .. n - 1 : rest[x] = flow[x + 1]
  BY <1>2, HeadTailProperties
<1> HIDE DEF rest, n
<1>5. Whole(rs, flow[1]) /\ flow[1] # <<>> /\ flow[1][1] = e
  BY <1>1 DEF Line, AfterBuf, Whole
<1>6. ASSUME NEW k \in DOMAIN rest PROVE Whole(rs, rest[k])
  <2>1. k + 1 \in DOMAIN flow /\ rest[k] = flow[k + 1]
    BY <1>1, <1>3, <1>4
  <2> QED
    BY <2>1 DEF Line
<1>7. ASSUME NEW k \in 1 .. Len(rest) - 1 PROVE rest[k + 1][1] = After(rs, Final(rest[k]))
  <2>1. k \in 1 .. n - 1 /\ k + 1 \in 1 .. n - 1
    BY <1>1, <1>2
  <2>2. flow[(k + 1) + 1][1] = After(rs, Final(flow[k + 1]))
    BY <2>1 DEF Line, n
  <2> QED
    BY <1>4, <2>1, <2>2
<1>8. rest # <<>> => rest[1][1] = AfterBuf(rs, e, flow[1])
  <2> SUFFICES ASSUME rest # <<>> PROVE rest[1][1] = After(rs, Final(flow[1]))
    BY <1>5 DEF AfterBuf
  <2>1. 1 \in 1 .. n - 1
    BY <1>1, <1>3
  <2>2. flow[1 + 1][1] = After(rs, Final(flow[1]))
    BY <2>1 DEF Line, n
  <2> QED
    BY <1>4, <2>1, <2>2
<1>9. Ahead(rs, e, flow[1], rest) = Ahead(rs, e, <<>>, flow)
  <2>1. CASE n = 1
    BY <1>1, <1>3, <1>5, <2>1 DEF Ahead, AfterBuf, Final, n
  <2>2. CASE n # 1
    <3>1. n - 1 \in 1 .. n - 1 /\ (n - 1) + 1 = n
      BY <1>1, <2>2
    <3>2. rest[n - 1] = flow[n]
      BY <1>4, <3>1
    <3> QED
      BY <1>2, <1>3, <2>2, <3>2 DEF Ahead, Final, n
  <2> QED
    BY <2>1, <2>2
<1>10. Line(rs, e, flow[1], rest)
  BY <1>5, <1>6, <1>7, <1>8 DEF Line
<1> QED
  BY <1>1, <1>5, <1>9, <1>10 DEF rest

\* A part of what was under way is a line.
LEMMA LineCut ==
    ASSUME NEW rs, NEW e, NEW buf, NEW flow \in Seq(Seq(Octets)), Line(rs, e, buf, flow),
           NEW k \in 0 .. Len(flow)
    PROVE  Line(rs, e, buf, SubSeq(flow, 1, k))
<1>1. /\ SubSeq(flow, 1, k) \in Seq(Seq(Octets)) /\ Len(SubSeq(flow, 1, k)) = k
      /\ DOMAIN SubSeq(flow, 1, k) = 1 .. k /\ SubSeq(flow, 1, k) # <<>> => 1 <= k
      /\ \A x \in 1 .. k : SubSeq(flow, 1, k)[x] = flow[x]
      /\ DOMAIN flow = 1 .. Len(flow) /\ Len(flow) \in Nat /\ (1 <= k => flow # <<>>)
  OBVIOUS
<1> QED
  BY <1>1 DEF Line

\* The reader takes octets of the piece it has.
Rest(m, k) == SubSeq(m, k + 1, Len(m))

\* The first octets of a buffer in line are a piece of the record they are of.
LEMMA LineTaken ==
    ASSUME NEW rs \in Records, NEW r, NEW i, NEW buf \in Seq(Octets), buf # <<>>, NEW flow,
           Line(rs, <<r, i>>, buf, flow), NEW k \in 1 .. Len(buf)
    PROVE  /\ r \in DOMAIN rs /\ i + k - 1 <= Size(rs, r)
           /\ SubSeq(buf, 1, k) \in Seq(Octets) /\ Len(SubSeq(buf, 1, k)) = k
           /\ Piece(SubSeq(buf, 1, k), r, i)
           /\ Rest(buf, k) \in Seq(Octets)
           /\ Line(rs, After(rs, <<r, i + k - 1>>), Rest(buf, k), flow)
           /\ Ahead(rs, After(rs, <<r, i + k - 1>>), Rest(buf, k), flow) = Ahead(rs, <<r, i>>, buf, flow)
<1> DEFINE n == Len(buf)
           e == After(rs, <<r, i + k - 1>>)
           rest == Rest(buf, k)
<1>1. Whole(rs, buf) /\ buf[1] = <<r, i>>
  BY DEF Line
<1>2. Piece(buf, r, i) /\ r \in Nat /\ i \in Nat /\ i >= 1
  BY <1>1 DEF Whole, Piece
<1>3. Final(buf) = <<r, i + n - 1>> /\ n \in Nat /\ k <= n
  BY <1>2, PieceEnds
<1>4. r \in DOMAIN rs /\ i + n - 1 <= Size(rs, r) /\ Size(rs, r) \in Nat
  BY <1>1, <1>3, Sizes DEF Whole, Fits
<1>5. /\ SubSeq(buf, 1, k) \in Seq(Octets) /\ Len(SubSeq(buf, 1, k)) = k
      /\ Piece(SubSeq(buf, 1, k), r, i)
  <2>1. k - 1 + 1 = k /\ i + 1 - 1 = i /\ 1 \in 1 .. Len(buf) /\ k \in 1 .. Len(buf)
    BY <1>2, <1>3
  <2> QED
    BY <1>2, <2>1, PartOfPiece
<1>6. i + k - 1 <= Size(rs, r)
  BY <1>2, <1>3, <1>4
<1>7. CASE k = n
  <2>1. rest = <<>>
    BY <1>3, <1>7, SubSeqEmpty DEF Rest
  <2>2. AfterBuf(rs, e, rest) = AfterBuf(rs, <<r, i>>, buf)
    BY <1>3, <1>7, <2>1 DEF AfterBuf
  <2>3. Line(rs, e, rest, flow) /\ Ahead(rs, e, rest, flow) = Ahead(rs, <<r, i>>, buf, flow)
    BY <2>1, <2>2 DEF Line, Ahead
  <2> QED
    BY <1>4, <1>5, <1>6, <2>1, <2>3
<1>8. CASE k # n
  <2>1. k + 1 \in 1 .. n /\ n \in k + 1 .. n
    BY <1>3, <1>8
  <2>2. rest \in Seq(Octets) /\ Len(rest) = n - k /\ Piece(rest, r, i + k)
    <3>1. n - (k + 1) + 1 = n - k /\ i + (k + 1) - 1 = i + k
      BY <1>2, <1>3
    <3> QED
      BY <1>2, <2>1, <3>1, PartOfPiece DEF Rest
  <2>3. rest # <<>>
    <3>1. n - k # 0
      BY <1>3, <1>8
    <3> QED
      BY <2>2, <3>1, EmptyIff
  <2>4. /\ rest[1] = <<r, i + k>> /\ Piece(rest, rest[1][1], rest[1][2])
        /\ Final(rest) = <<r, i + n - 1>>
    <3> DEFINE h == i + k
    <3>1. rest \in Seq(Octets) /\ Piece(rest, r, h)
      BY <2>2
    <3>2. h + (n - k) - 1 = i + n - 1
      BY <1>2, <1>3
    <3> HIDE DEF h
    <3>3. Final(rest) = <<r, h + Len(rest) - 1>>
      BY <3>1, <2>3, PieceEnds
    <3>4. rest[1] = <<r, h>> /\ Piece(rest, rest[1][1], rest[1][2])
      BY <3>1, <2>3, PieceEnds
    <3> QED
      BY <2>2, <3>2, <3>3, <3>4 DEF h
  <2>5. Whole(rs, rest)
    BY <1>4, <2>3, <2>4 DEF Whole, Fits
  <2>6. e = <<r, i + k>>
    BY <1>2, <1>3, <1>4, <1>8 DEF After
  <2>7. AfterBuf(rs, e, rest) = AfterBuf(rs, <<r, i>>, buf)
    BY <1>3, <2>3, <2>4 DEF AfterBuf
  <2>8. Line(rs, e, rest, flow) /\ Ahead(rs, e, rest, flow) = Ahead(rs, <<r, i>>, buf, flow)
    BY <2>3, <2>4, <2>5, <2>6, <2>7 DEF Line, Ahead
  <2> QED
    BY <1>4, <1>5, <1>6, <2>2, <2>8
<1> QED
  BY <1>7, <1>8

-----------------------------------------------------------------------------
(* The steps that move octets.                                             *)

\* One more element at the end of two sequences put together.
LEMMA ConcatAppend ==
    ASSUME NEW S, NEW s \in Seq(S), NEW u \in Seq(S), NEW e \in S
    PROVE  s \o Append(u, e) = Append(s \o u, e)
<1>1. <<e>> \in Seq(S) /\ s \o u \in Seq(S)
  OBVIOUS
<1> QED
  BY <1>1, AppendIsConcat, ConcatAssociative

\* The messages under way are a sequence of pieces.
LEMMA FlowTyped ==
    ASSUME wire \in Seq(Seq(Octets)), sink \in Seq(Seq(Octets))
    PROVE  Flow \in Seq(Seq(Octets)) /\ Len(Flow) = Len(wire) + Len(sink)
  BY DEF Flow

\* The stream below takes a part of what it is offered: nothing, or a message of
\* its own at the end of those under way.
LEMMA FlowGrows ==
    ASSUME wire \in Seq(Seq(Octets)), sink \in Seq(Seq(Octets)), over = "stream" => sink = <<>>,
           over \in {"stream", "websocket"},
           NEW buf \in Seq(Octets), NEW k \in 0 .. Len(buf), Takes(k, buf)
    PROVE  /\ wire' \in Seq(Seq(Octets)) /\ sink' \in Seq(Seq(Octets))
           /\ over' = "stream" => sink' = <<>>
           /\ Flow' = IF k = 0 THEN Flow ELSE Append(Flow, SubSeq(buf, 1, k))
<1> DEFINE message == SubSeq(buf, 1, k)
<1>1. message \in Seq(Octets)
  OBVIOUS
<1>2. CASE k = 0
  BY <1>2 DEF Takes, Flow
<1>3. CASE k # 0 /\ over = "websocket"
  <2>1. sink' = Append(sink, message) /\ wire' = wire /\ over' = over
    BY <1>3 DEF Takes
  <2>2. wire \o Append(sink, message) = Append(wire \o sink, message)
    <3> DEFINE S == Seq(Octets)
    <3>1. wire \in Seq(S) /\ sink \in Seq(S) /\ message \in S
      BY <1>1
    <3> HIDE DEF message, S
    <3> QED BY <3>1, ConcatAppend
  <2>3. sink' \in Seq(Seq(Octets))
    BY <1>1, <2>1, AppendProperties
  <2>4. Flow' = Append(Flow, message)
    BY <2>1, <2>2 DEF Flow
  <2> QED BY <1>3, <2>1, <2>3, <2>4
<1>4. CASE k # 0 /\ over = "stream"
  <2>1. wire' = Append(wire, message) /\ sink' = <<>> /\ sink = <<>> /\ over' = over
    BY <1>4 DEF Takes
  <2>2. Append(wire, message) \o <<>> = Append(wire \o <<>>, message)
    BY <1>1
  <2> QED BY <1>1, <1>4, <2>1, <2>2 DEF Flow
<1> QED
  BY <1>2, <1>3, <1>4

\* The messages under way are as they were, or a message longer.
LEMMA PushKeeps ==
    ASSUME Chained, UNCHANGED reader, records' \in Records, Extends(records', records),
           over \in {"stream", "websocket"}, over = "stream" => sink = <<>>,
           NEW buf \in Seq(Octets), buf # <<>>, NEW r \in DOMAIN records', r = Len(records'),
           NEW i, Piece(buf, r, i), i + Len(buf) - 1 = Size(records', r),
           Ahead(records, Expected, readBuf, Flow) = <<r, i>>,
           NEW k \in 0 .. Len(buf), Push(k, buf)
    PROVE  Chained' /\ Kept' /\ (over' = "stream" => sink' = <<>>)
<1> DEFINE message == SubSeq(buf, 1, k)
<1>1. /\ wire' \in Seq(Seq(Octets)) /\ sink' \in Seq(Seq(Octets))
      /\ over' = "stream" => sink' = <<>>
      /\ Flow' = IF k = 0 THEN Flow ELSE Append(Flow, message)
  BY FlowGrows DEF Chained, Push
<1>2. Flow \in Seq(Seq(Octets))
  BY FlowTyped DEF Chained
<1>3. Expected' = Expected /\ readBuf' = readBuf /\ readBuf \in Seq(Octets)
  BY DEF Push, Takes, reader, framer, Expected, Chained
<1>4. /\ Line(records', Expected, readBuf, Flow)
      /\ Ahead(records', Expected, readBuf, Flow) = <<r, i>>
  BY <1>2, <1>3, LineExtends DEF Chained
<1>5. i \in Nat /\ i >= 1 /\ Len(buf) \in Nat /\ r \in Nat /\ Size(records', r) \in Nat
  BY Sizes DEF Piece
<1>6. CASE k = 0
  <2>1. Flow' = Flow
    BY <1>1, <1>6
  <2>2. Chained'
    BY <1>1, <1>3, <1>4, <2>1 DEF Chained
  <2>3. Ahead(records', Expected', readBuf', Flow') = <<r, i>>
    BY <1>3, <1>4, <2>1
  <2>4. writeBuf' = buf
    BY <1>6 DEF Push
  <2>5. Following' = <<r, i>>
    BY <1>5, <2>4 DEF Following
  <2>6. Kept'
    BY <2>3, <2>4, <2>5 DEF Kept
  <2> QED
    BY <1>1, <2>2, <2>6
<1>7. CASE k # 0
  <2>1. Flow' = Append(Flow, message)
    BY <1>1, <1>7
  <2>2. message \in Seq(Octets) /\ Len(message) = k /\ Piece(message, r, i) /\ message # <<>>
    <3>1. 1 \in 1 .. Len(buf) /\ k \in 1 .. Len(buf) /\ k - 1 + 1 = k /\ i + 1 - 1 = i
      BY <1>5, <1>7
    <3>2. message \in Seq(Octets) /\ Len(message) = k /\ Piece(message, r, i)
      BY <3>1, PartOfPiece
    <3> QED
      BY <1>7, <3>2, EmptyIff
  <2> HIDE DEF message
  <2>3. message[1] = <<r, i>> /\ Piece(message, message[1][1], message[1][2])
        /\ Final(message) = <<r, i + k - 1>>
    BY <2>2, PieceEnds
  <2>4. Whole(records', message)
    BY <1>5, <2>2, <2>3 DEF Whole, Fits
  <2>5. /\ Line(records', Expected', readBuf', Flow')
        /\ Ahead(records', Expected', readBuf', Flow') = After(records', <<r, i + k - 1>>)
    <3>1. /\ Line(records', Expected, readBuf, Append(Flow, message))
          /\ Ahead(records', Expected, readBuf, Append(Flow, message)) = After(records', Final(message))
      <4>1. message \in Seq(Octets) /\ message[1] = Ahead(records', Expected, readBuf, Flow)
        BY <1>4, <2>2, <2>3
      <4> QED
        BY <1>2, <1>3, <1>4, <2>4, <4>1, LineAppend, ZenonT(40)
    <3> QED
      BY <1>3, <2>1, <2>3, <3>1
  <2>6. Chained'
    BY <1>1, <1>3, <2>5 DEF Chained
  <2>7. CASE k = Len(buf)
    <3>1. writeBuf' = <<>>
      BY <1>5, <2>7, SubSeqEmpty DEF Push
    <3>2. After(records', <<r, i + k - 1>>) = <<r + 1, 1>>
      BY <1>5, <2>7 DEF After
    <3>3. Kept'
      BY <2>5, <3>1, <3>2 DEF Kept, Following
    <3> QED
      BY <1>1, <2>6, <3>3
  <2>8. CASE k # Len(buf)
    <3>1. k + 1 \in 1 .. Len(buf) /\ Len(buf) \in k + 1 .. Len(buf) /\ i + (k + 1) - 1 = i + k
          /\ Len(buf) - (k + 1) + 1 = Len(buf) - k /\ Len(buf) - k # 0
      BY <1>5, <2>8
    <3>2. /\ writeBuf' \in Seq(Octets) /\ Len(writeBuf') = Len(buf) - k
          /\ Piece(writeBuf', r, i + k)
      <4>1. writeBuf' = SubSeq(buf, k + 1, Len(buf)) /\ Len(buf) \in Nat
        BY <1>5 DEF Push
      <4>2. /\ SubSeq(buf, k + 1, Len(buf)) \in Seq(Octets)
            /\ Len(SubSeq(buf, k + 1, Len(buf))) = Len(buf) - (k + 1) + 1
            /\ Piece(SubSeq(buf, k + 1, Len(buf)), r, i + (k + 1) - 1)
        BY <3>1, PartOfPiece
      <4> QED
        BY <3>1, <4>1, <4>2
    <3>3. writeBuf' # <<>>
      BY <3>1, <3>2, EmptyIff
    <3>4. Following' = <<r, i + k>>
      BY <1>5, <3>2, <3>3 DEF Following
    <3>5. After(records', <<r, i + k - 1>>) = <<r, i + k>>
      BY <1>5, <2>8 DEF After
    <3>6. Kept'
      BY <2>5, <3>2, <3>3, <3>4, <3>5 DEF Kept
    <3> QED
      BY <1>1, <2>6, <3>6
  <2> QED
    BY <2>7, <2>8
<1> QED
  BY <1>6, <1>7
\* What the transport does by itself, and what it hands to the reader.
LEMMA HeadMoves ==
    ASSUME NEW S, NEW s \in Seq(S), NEW u \in Seq(S), u # <<>>
    PROVE  Append(s, Head(u)) \o Tail(u) = s \o u
<1>1. u = <<Head(u)>> \o Tail(u)
  OBVIOUS
<1>2. <<Head(u)>> \in Seq(S) /\ Tail(u) \in Seq(S) /\ Head(u) \in S
  OBVIOUS
<1>3. Append(s, Head(u)) = s \o <<Head(u)>>
  BY <1>2, AppendIsConcat
<1>4. (s \o <<Head(u)>>) \o Tail(u) = s \o (<<Head(u)>> \o Tail(u))
  BY <1>2, ConcatAssociative
<1> QED
  BY <1>1, <1>3, <1>4

\* The head of two sequences put together is that of the first.
LEMMA HeadOfConcat ==
    ASSUME NEW S, NEW s \in Seq(S), NEW u \in Seq(S), s # <<>>
    PROVE  Head(s \o u) = Head(s) /\ Tail(s \o u) = Tail(s) \o u /\ s \o u # <<>>
  OBVIOUS

\* A cut within the first of two sequences put together.
LEMMA CutOfConcat ==
    ASSUME NEW S, NEW s \in Seq(S), NEW u \in Seq(S), NEW k \in 0 .. Len(s)
    PROVE  SubSeq(s \o u, 1, k) = SubSeq(s, 1, k) /\ SubSeq(s, 1, k) \o <<>> = SubSeq(s, 1, k)
  OBVIOUS

\* tungstenite sends a message it kept.
LEMMA SendsKeeps ==
    ASSUME Chained, Kept, Sends, UNCHANGED <<writer, reader>>
    PROVE  Chained' /\ Kept'
<1> DEFINE M == Seq(Octets)
<1>1. wire \in Seq(M) /\ sink \in Seq(M) /\ sink # <<>>
  BY DEF Chained, Sends
<1>2. wire' = Append(wire, Head(sink)) /\ sink' = Tail(sink) /\ readBuf' = readBuf /\ below' = below
  BY DEF Sends
<1> HIDE DEF M
<1>3. wire' \in Seq(M) /\ sink' \in Seq(M)
  BY <1>1, <1>2, HeadTailProperties, AppendProperties
<1>4. Flow' = Flow
  BY <1>1, <1>2, HeadMoves DEF Flow
<1>5. UNCHANGED <<records, Expected, readBuf, Flow, below, writeBuf, Following>>
  BY <1>2, <1>4 DEF writer, reader, framer, Expected, Following
<1> QED
  BY <1>3, <1>5 DEF Chained, Kept, M

\* The connection breaks and part of what was under way is lost.
LEMMA BreaksKeeps ==
    ASSUME Chained, Kept, Breaks, UNCHANGED <<writer, reader>>
    PROVE  Chained' /\ Kept'
<1> DEFINE M == Seq(Octets)
<1>1. PICK k \in 0 .. Len(wire) : wire' = SubSeq(wire, 1, k)
  BY DEF Breaks
<1>2. wire \in Seq(M) /\ sink \in Seq(M) /\ sink' = <<>> /\ readBuf' = readBuf /\ below' = "broken"
  BY DEF Chained, Breaks
<1> HIDE DEF M
<1>3. wire' \in Seq(M) /\ sink' \in Seq(M)
  BY <1>1, <1>2
<1>4. Flow' = SubSeq(Flow, 1, k) /\ Flow \in Seq(M) /\ k \in 0 .. Len(Flow)
  BY <1>1, <1>2, CutOfConcat DEF Flow
<1>5. UNCHANGED <<records, Expected, readBuf, writeBuf, Following>>
  BY <1>2 DEF writer, reader, framer, Expected, Following
<1>6. Line(records, Expected, readBuf, Flow')
  BY <1>4, LineCut DEF Chained, M
<1> QED
  BY <1>2, <1>3, <1>5, <1>6 DEF Chained, Kept, M

\* The next message reaches the reader.
LEMMA RefillsKeeps ==
    ASSUME Chained, Kept, Refills
    PROVE  Chained' /\ Kept'
<1> DEFINE M == Seq(Octets)
<1>1. /\ wire \in Seq(M) /\ sink \in Seq(M) /\ wire # <<>> /\ readBuf = <<>> /\ sink' = sink
      /\ readBuf' = Head(wire) /\ wire' = Tail(wire) /\ below' = below
  BY DEF Chained, Refills, NextMessage
<1> HIDE DEF M
<1>2. wire' \in Seq(M) /\ sink' \in Seq(M) /\ readBuf' \in M
  BY <1>1, HeadTailProperties
<1>3. Flow' = Tail(Flow) /\ readBuf' = Head(Flow) /\ Flow # <<>> /\ Flow \in Seq(M)
  BY <1>1, HeadOfConcat DEF Flow
<1>4. UNCHANGED <<records, Expected, below, writeBuf, Following>>
  BY <1>1 DEF Refills, writer, reader, framer, Expected, Following
<1>5. Line(records, Expected, <<>>, Flow)
  BY <1>1 DEF Chained
<1>6. /\ Line(records, Expected, readBuf', Flow')
      /\ Ahead(records, Expected, readBuf', Flow') = Ahead(records, Expected, readBuf, Flow)
  BY <1>1, <1>3, <1>5, LineNext DEF M
<1> QED
  BY <1>2, <1>4, <1>6 DEF Chained, Kept, M

\* The header of the next record is its own, and nothing more of it is read.
LEMMA HeaderKeeps ==
    ASSUME Written, Decrypted, Collected, Chained, Kept, HeaderRead
    PROVE  Collected' /\ Chained' /\ Kept'
<1>1. stage = "Len" /\ need = 2 /\ Len(got) = 2 /\ got \in Seq(Octets) /\ got # <<>>
  BY DEF HeaderRead, Collected
<1>2. nonce + 1 \in DOMAIN records /\ nonce \in Nat
  BY <1>1 DEF Collected, Decrypted, Written, Records
<1>3. got = << <<nonce + 1, 1>>, <<nonce + 1, 2>> >>
  <2>1. got[1] = <<nonce + 1, 1 + 1 - 1>> /\ got[2] = <<nonce + 1, 1 + 2 - 1>>
    BY <1>1 DEF Collected, Piece
  <2> QED
    BY <1>1, <2>1
<1>4. need' = Size(records, nonce + 1) - 2
  <2>1. need' = Len(records[got[1][1]]) + Tag
    BY <1>2, <1>3 DEF HeaderRead, Announced
  <2>2. got[1][1] = nonce + 1 /\ Len(records[nonce + 1]) \in Nat
    BY <1>2, <1>3 DEF Written, Records
  <2> QED
    BY <2>1, <2>2, SizesAssumption DEF Size
<1>5. need' > 0 /\ need' \in Nat
  BY <1>2, <1>4, Sizes DEF Written
<1>6. /\ stage' = "Body" /\ got' = <<>> /\ UNCHANGED <<writer, transport, nonce, rend>>
      /\ records' = records
  BY DEF HeaderRead, writer
<1>7. Expected' = Expected
  BY <1>1, <1>2, <1>5, <1>6 DEF Expected
<1>8. UNCHANGED <<records, readBuf, wire, sink, Flow, below, writeBuf, Following>>
  BY <1>6 DEF writer, transport, Flow, Following
<1>9. Chained' /\ Kept'
  BY <1>7, <1>8 DEF Chained, Kept
<1>10. Collected'
  BY <1>2, <1>4, <1>5, <1>6 DEF Collected, Piece, Decrypted
<1> QED
  BY <1>9, <1>10

\* A complete body is the next record's: the reader has no reason to refuse it.
LEMMA BodyIsGenuine ==
    ASSUME Written, Decrypted, Collected, BodyRead
    PROVE  Genuine
<1>1. stage = "Body" /\ nonce < Len(records) /\ need = Size(records, nonce + 1) - 2 /\ Len(got) = need
  BY DEF BodyRead, Collected
<1>2. nonce + 1 \in DOMAIN records /\ nonce \in Nat
  BY <1>1 DEF Decrypted, Written, Records
<1>3. need = Len(records[nonce + 1]) + Tag /\ need \in Nat
  BY <1>1, <1>2, SizesAssumption DEF Size, Written, Records
<1>4. got \in Seq(Octets) /\ \A j \in 1 .. need : got[j] = <<nonce + 1, 3 + j - 1>>
  BY <1>1 DEF Collected, Piece
<1>5. got = [i \in 1 .. need |-> <<nonce + 1, i + 2>>]
  <2>1. got = [i \in 1 .. need |-> got[i]]
    BY <1>1, <1>4
  <2>2. \A j \in 1 .. need : got[j] = <<nonce + 1, j + 2>>
    BY <1>3, <1>4
  <2> QED
    BY <2>1, <2>2
<1> QED
  BY <1>1, <1>3, <1>5 DEF Genuine

\* A record that is complete is opened, and the next header is awaited.
LEMMA BodyKeeps ==
    ASSUME Written, Decrypted, Collected, Chained, Kept, BodyRead
    PROVE  Collected' /\ Chained' /\ Kept'
<1>1. stage = "Body" /\ nonce < Len(records) /\ Len(got) = need /\ nonce \in Nat /\ rend # "garbled"
  BY DEF BodyRead, Collected, Decrypted
<1>2. /\ stage' = "Len" /\ need' = 2 /\ got' = <<>> /\ nonce' = nonce + 1 /\ rend' = rend
      /\ UNCHANGED <<writer, transport>>
  BY BodyIsGenuine DEF BodyRead
<1>3. Expected' = Expected
  BY <1>1, <1>2 DEF Expected
<1>4. UNCHANGED <<records, readBuf, wire, sink, Flow, below, writeBuf, Following>>
  BY <1>2 DEF writer, transport, Flow, Following
<1>5. Chained' /\ Kept'
  BY <1>3, <1>4 DEF Chained, Kept
<1>6. Collected'
  BY <1>1, <1>2 DEF Collected, Piece
<1> QED
  BY <1>5, <1>6

\* The octets the reader takes are the ones it expects.
LEMMA ReadKeeps ==
    ASSUME Written, Decrypted, Collected, Chained, Kept, NEW k \in Nat \ {0}, Read(k)
    PROVE  Collected' /\ Chained' /\ Kept'
<1> DEFINE r == nonce + 1
           off == IF stage = "Len" THEN 1 ELSE 3
           i == Len(got) + off
           taken == SubSeq(readBuf, 1, k)
<1>1. /\ got \in Seq(Octets) /\ Len(got) \in Nat /\ Len(got) < need /\ need \in Nat
      /\ nonce \in Nat /\ i \in Nat /\ off \in {1, 3} /\ stage \in {"Len", "Body"}
  <2>1. got \in Seq(Octets) /\ Len(got) < need /\ nonce \in Nat /\ stage \in {"Len", "Body"}
    BY DEF Read, Collected, Decrypted
  <2>2. need \in Nat
    <3>1. nonce < Len(records) => Size(records, nonce + 1) \in Nat /\ Size(records, nonce + 1) >= 3
      BY <2>1, Sizes DEF Written, Records
    <3> QED
      BY <3>1 DEF Collected
  <2> QED
    BY <2>1, <2>2
<1>2. Expected = <<r, i>>
  BY <1>1 DEF Expected
<1>3. /\ k <= need - Len(got) /\ k \in 1 .. Len(readBuf) /\ readBuf # <<>>
      /\ readBuf' = Rest(readBuf, k) /\ readBuf \in Seq(Octets)
  <2>1. readBuf \in Seq(Octets) /\ Len(readBuf) \in Nat /\ need - Len(got) \in Nat
    BY <1>1 DEF Chained
  <2>2. k \in 1 .. Min({need - Len(got), Len(readBuf)}) /\ readBuf' = Rest(readBuf, k)
    BY DEF Read, Fills, Rest
  <2>3. k <= need - Len(got) /\ k \in 1 .. Len(readBuf)
    BY <2>1, <2>2, MinOfTwo
  <2> QED
    BY <2>1, <2>2, <2>3
<1>4. records \in Records /\ Line(records, <<r, i>>, readBuf, Flow)
  BY <1>2 DEF Written, Chained
<1> HIDE DEF i, r, taken
<1>5. /\ r \in DOMAIN records /\ i + k - 1 <= Size(records, r)
      /\ taken \in Seq(Octets) /\ Len(taken) = k /\ Piece(taken, r, i)
      /\ readBuf' \in Seq(Octets)
      /\ Line(records, After(records, <<r, i + k - 1>>), readBuf', Flow)
      /\ Ahead(records, After(records, <<r, i + k - 1>>), readBuf', Flow)
         = Ahead(records, <<r, i>>, readBuf, Flow)
  <2>1. /\ r \in DOMAIN records /\ i + k - 1 <= Size(records, r)
        /\ taken \in Seq(Octets) /\ Len(taken) = k /\ Piece(taken, r, i)
        /\ Rest(readBuf, k) \in Seq(Octets)
        /\ Line(records, After(records, <<r, i + k - 1>>), Rest(readBuf, k), Flow)
        /\ Ahead(records, After(records, <<r, i + k - 1>>), Rest(readBuf, k), Flow)
           = Ahead(records, <<r, i>>, readBuf, Flow)
    BY <1>3, <1>4, LineTaken DEF taken
  <2> QED
    BY <1>3, <2>1
<1>6. /\ got' = got \o taken /\ UNCHANGED <<writer, stage, need, nonce, rend, over, sink, wire, below>>
  BY DEF Read, Fills, taken
<1>7. got' \in Seq(Octets) /\ Len(got') = Len(got) + k
  BY <1>1, <1>5, <1>6, ConcatProperties
<1>8. ASSUME NEW j \in 1 .. Len(got') PROVE got'[j] = <<r, off + j - 1>>
  <2>1. CASE j <= Len(got)
    <3>1. got'[j] = got[j] /\ j \in 1 .. Len(got)
      BY <1>1, <1>5, <1>6, <2>1
    <3> QED
      BY <3>1 DEF Collected, Piece, r
  <2>2. CASE j > Len(got)
    <3>1. got'[j] = taken[j - Len(got)] /\ j - Len(got) \in 1 .. Len(taken)
      BY <1>1, <1>5, <1>6, <1>7, <2>2
    <3>2. taken[j - Len(got)] = <<r, i + (j - Len(got)) - 1>>
      BY <3>1, <1>5 DEF Piece
    <3>3. i + (j - Len(got)) - 1 = off + j - 1
      BY <1>1 DEF i
    <3> QED
      BY <3>1, <3>2, <3>3
  <2> QED
    BY <1>1, <1>7, <2>1, <2>2
<1>9. nonce < Len(records)
  BY <1>1, <1>4, <1>5 DEF r, Records
<1>10. Collected'
  <2>1. Piece(got', r, off)
    BY <1>1, <1>8 DEF Piece, r
  <2>2. Size(records, nonce + 1)' = Size(records, nonce + 1) /\ records' = records
    BY <1>6 DEF writer
  <2>3. \/ stage = "Len" /\ need = 2
        \/ stage = "Body" /\ nonce < Len(records) /\ need = Size(records, nonce + 1) - 2
    BY DEF Collected
  <2>4. Len(got') <= need
    BY <1>1, <1>3, <1>7
  <2>5. rend # "garbled"
    BY DEF Collected
  <2> QED
    <3>1. got' \in Seq(Octets) /\ rend' # "garbled" /\ Len(got') <= need'
      BY <1>6, <1>7, <2>4, <2>5
    <3>2. \/ stage' = "Len" /\ need' = 2
          \/ stage' = "Body" /\ nonce' < Len(records') /\ need' = Size(records', nonce' + 1) - 2
      BY <1>6, <2>2, <2>3
    <3>3. Piece(got', nonce' + 1, IF stage' = "Len" THEN 1 ELSE 3) /\ nonce' < Len(records')
      BY <1>6, <1>9, <2>1, <2>2 DEF r
    <3> QED
      BY <3>1, <3>2, <3>3 DEF Collected
<1>11. Expected' = After(records, <<r, i + k - 1>>)
  <2>1. Size(records, r) \in Nat /\ Size(records, r) >= 4
    BY <1>5, SizesAssumption DEF Size, Written, Records
  <2>2. CASE stage = "Len"
    <3>1. i + k - 1 < Size(records, r) /\ i + k - 1 + 1 = Len(got') + 1 /\ need = 2
      BY <1>1, <1>3, <1>7, <2>1, <2>2 DEF Collected, i
    <3> QED
      BY <1>6, <2>2, <3>1 DEF Expected, After, r
  <2>3. CASE stage = "Body"
    <3>1. need = Size(records, r) - 2
      BY <2>3 DEF Collected, r
    <3>2. i + k - 1 = Len(got') + 2 /\ nonce + 2 = r + 1
      BY <1>1, <1>7, <2>3 DEF i, r
    <3>3. Len(got') = need <=> ~(i + k - 1 < Size(records, r))
      BY <1>1, <1>3, <1>7, <2>1, <3>1, <3>2, SMTT(40)
    <3>4. Expected' = IF Len(got') = need THEN <<r + 1, 1>> ELSE <<r, Len(got') + 3>>
      BY <1>6, <2>3, <3>2 DEF Expected, r
    <3>5. i + k - 1 + 1 = Len(got') + 3
      BY <1>7, <1>1, <3>2
    <3> QED
      BY <3>3, <3>4, <3>5 DEF After
  <2> QED
    BY <1>1, <2>2, <2>3
<1>12. UNCHANGED <<records, wire, sink, Flow, below, writeBuf, Following>>
  BY <1>6 DEF writer, Flow, Following
<1>13. Chained' /\ Kept'
  BY <1>2, <1>5, <1>11, <1>12 DEF Chained, Kept
<1> QED
  BY <1>10, <1>13
-----------------------------------------------------------------------------
(* The bytes.                                                              *)

\* A chunk: some bytes, the next ones, no more than fit.
LEMMA ChunkFacts ==
    ASSUME accepted \in Seq(1 .. MaxBytes), NEW size \in Nat \ {0}, Len(accepted) + size <= MaxBytes,
           NEW c, c = Chunk(size)
    PROVE  /\ c \in Seq(1 .. MaxBytes) /\ Len(c) \in 1 .. MaxPlaintext /\ Len(c) <= size
           /\ \A i \in 1 .. Len(c) : c[i] = Len(accepted) + i
<1> DEFINE k == Min({size, MaxPlaintext})
<1>1. k = IF size <= MaxPlaintext THEN size ELSE MaxPlaintext
  BY SizesAssumption, MinOfTwo
<1>2. k \in 1 .. MaxPlaintext /\ k <= size /\ k \in Nat
  BY <1>1, SizesAssumption
<1>3. c = [i \in 1 .. k |-> Len(accepted) + i]
  BY DEF Chunk
<1> HIDE DEF k
<1>4. \A i \in 1 .. k : Len(accepted) + i \in 1 .. MaxBytes
  BY <1>2, SizesAssumption
<1> QED
  BY <1>2, <1>3, <1>4

\* The bytes before a record can be counted.
LEMMA OffsetNat == ASSUME Written, NEW r \in 1 .. Len(records) + 1
                   PROVE  Offset(r) \in Nat
<1>1. ASSUME r \in DOMAIN records PROVE records[r][1] \in Nat \ {0}
  <2>1. records[r] \in Seq(1 .. MaxBytes) /\ Len(records[r]) >= 1
    BY <1>1 DEF Written, Records
  <2> QED
    BY <2>1, SizesAssumption
<1>2. Len(accepted) \in Nat
  BY DEF Written
<1>3. CASE r \in DOMAIN records
  <2>1. Offset(r) = records[r][1] - 1
    BY <1>3 DEF Offset
  <2> QED
    BY <1>1, <1>3, <2>1
<1>4. CASE r \notin DOMAIN records
  BY <1>2, <1>4 DEF Offset
<1> QED
  BY <1>3, <1>4

\* No record begins after the last byte.
LEMMA OffsetBound == ASSUME Written, NEW r \in 1 .. Len(records) + 1
                     PROVE  Offset(r) <= Len(accepted) /\ Offset(r) \in Nat
<1>1. Offset(r) \in Nat /\ Len(accepted) \in Nat /\ Len(records) \in Nat
  BY OffsetNat DEF Written, Records
<1>2. CASE r = 1
  BY <1>1, <1>2 DEF Written
<1>3. CASE r # 1
  <2>1. r - 1 \in 1 .. Len(records) /\ (r - 1) + 1 = r
    BY <1>1, <1>3
  <2>2. r - 1 \in DOMAIN records
    BY <2>1 DEF Written, Records
  <2>3. Offset((r - 1) + 1) <= Len(accepted)
    BY <2>2 DEF Written
  <2> QED
    BY <1>1, <2>1, <2>3
<1> QED
  BY <1>2, <1>3

\* A sequence that agrees with the start of another is a cut of it.
LEMMA SamePrefix ==
    ASSUME NEW S, NEW s \in Seq(S), NEW u \in Seq(S), NEW k \in Nat, k = Len(s), k <= Len(u),
           \A i \in 1 .. k : s[i] = u[i]
    PROVE  s = SubSeq(u, 1, k)
<1>1. /\ SubSeq(u, 1, k) \in Seq(S) /\ Len(SubSeq(u, 1, k)) = k
      /\ \A i \in 1 .. k : SubSeq(u, 1, k)[i] = u[i]
  OBVIOUS
<1> QED
  BY <1>1, SeqEqual

\* A write adds a record of the next bytes and changes none there is.
LEMMA WriteBytes ==
    ASSUME Written, NEW size \in Nat \ {0}, Write(size)
    PROVE  /\ Written' /\ Extends(records', records)
           /\ Len(records') = Len(records) + 1 /\ Len(accepted') > Len(accepted)
           /\ \A r \in 1 .. Len(records) + 1 : Offset(r)' = Offset(r)
           /\ \A i \in 1 .. Len(accepted) : accepted'[i] = accepted[i]
<1> DEFINE B == 1 .. MaxBytes
<1>0. PICK c, n, a : c = Chunk(size) /\ n = Len(records) /\ a = Len(accepted)
  OBVIOUS
<1>1. /\ accepted \in Seq(B) /\ records \in Seq(Seq(B)) /\ a + size <= MaxBytes
      /\ accepted' = accepted \o c /\ records' = Append(records, c)
  BY <1>0 DEF Write, Written, Records
<1>2. /\ c \in Seq(B) /\ Len(c) \in 1 .. MaxPlaintext /\ Len(c) <= size /\ Len(c) \in Nat /\ Len(c) >= 1
      /\ \A i \in 1 .. Len(c) : c[i] = a + i
  BY <1>0, <1>1, ChunkFacts, SizesAssumption, SMTT(30)
<1>3. a \in Nat /\ n \in Nat /\ DOMAIN records = 1 .. n
  BY <1>0, <1>1
<1> HIDE DEF B
<1>4. /\ records' \in Seq(Seq(B)) /\ Len(records') = n + 1 /\ records'[n + 1] = c
      /\ \A r \in 1 .. n : records'[r] = records[r]
  BY <1>0, <1>1, <1>2, AppendProperties
<1>5. DOMAIN records' = 1 .. n + 1
  BY <1>4, LenProperties
<1>6. /\ accepted' \in Seq(B) /\ Len(accepted') = a + Len(c)
      /\ \A i \in 1 .. a + Len(c) : accepted'[i] = IF i <= a THEN accepted[i] ELSE c[i - a]
  BY <1>0, <1>1, <1>2, ConcatProperties
<1>7. ASSUME NEW r \in 1 .. n + 1 PROVE Offset(r)' = Offset(r)
  <2>1. CASE r \in 1 .. n
    BY <1>3, <1>4, <1>5, <2>1 DEF Offset
  <2>2. CASE r = n + 1
    <3>1. Offset(r)' = c[1] - 1
      BY <1>3, <1>4, <1>5, <2>2 DEF Offset
    <3>2. c[1] = a + 1
      BY <1>2
    <3>3. Offset(r) = a
      BY <1>0, <1>3, <2>2 DEF Offset
    <3> QED
      BY <1>3, <3>1, <3>2, <3>3
  <2> QED
    BY <1>3, <2>1, <2>2
<1>8. Offset(n + 2)' = a + Len(c) /\ Offset(n + 1)' = a
  <2>1. n + 2 \notin 1 .. n + 1 /\ n + 1 \notin 1 .. n /\ n + 1 \in 1 .. n + 1
    BY <1>3
  <2>2. Offset(n + 1) = a
    BY <1>0, <1>3, <2>1 DEF Offset
  <2> QED
    BY <1>5, <1>6, <1>7, <2>1, <2>2 DEF Offset
<1>9. ASSUME NEW r \in 1 .. n + 1
      PROVE  /\ Len(records'[r]) \in 1 .. MaxPlaintext
             /\ \A i \in 1 .. Len(records'[r]) : records'[r][i] = Offset(r)' + i
             /\ Offset(r)' + Len(records'[r]) = Offset(r + 1)'
             /\ Offset(r + 1)' <= Len(accepted')
  <2>1. CASE r \in 1 .. n
    <3>1. r + 1 \in 1 .. n + 1 /\ r \in DOMAIN records /\ records'[r] = records[r]
      BY <1>3, <1>4, <2>1
    <3>2. Offset(r)' = Offset(r) /\ Offset(r + 1)' = Offset(r + 1)
      BY <1>7, <3>1
    <3>3. Offset(r + 1) <= a
      BY <1>0, <3>1 DEF Written
    <3>4. Offset(r + 1) <= a + Len(c)
      BY <1>0, <1>2, <1>3, <3>1, <3>3, OffsetNat
    <3> QED
      BY <1>6, <3>1, <3>2, <3>4 DEF Written, Numbered
  <2>2. CASE r = n + 1
    <3>1. r + 1 = n + 2
      BY <1>3, <2>2
    <3> QED
      BY <1>2, <1>3, <1>4, <1>6, <1>8, <2>2, <3>1
  <2> QED
    BY <1>3, <2>1, <2>2
<1>10. ASSUME NEW i \in 1 .. Len(accepted') PROVE accepted'[i] = 0 + i
  <2>1. CASE i <= a
    BY <1>0, <1>3, <1>6, <2>1 DEF Written, Numbered
  <2>2. CASE ~(i <= a)
    <3>1. i - a \in 1 .. Len(c) /\ a + (i - a) = i
      BY <1>2, <1>3, <1>6, <2>2
    <3> QED
      BY <1>2, <1>6, <2>2, <3>1
  <2> QED
    BY <2>1, <2>2
<1>11. Offset(1)' = 0
  BY <1>3, <1>7 DEF Written
<1>12. Written'
  BY <1>4, <1>5, <1>6, <1>9, <1>10, <1>11 DEF Written, Numbered, Records, B
<1>13. Extends(records', records) /\ \A i \in 1 .. a : accepted'[i] = accepted[i]
  BY <1>3, <1>4, <1>5, <1>2, <1>6 DEF Extends
<1> QED
  BY <1>0, <1>2, <1>3, <1>4, <1>6, <1>7, <1>12, <1>13

\* A write keeps the chain: its frame is what comes next.
LEMMA WriteKeeps ==
    ASSUME Written, Decrypted, Collected, Chained, Kept, Ended, NEW size \in Nat \ {0}, Write(size)
    PROVE  /\ Written' /\ Decrypted' /\ Collected' /\ Chained' /\ Kept'
           /\ (over' = "stream" => sink' = <<>>)
<1>0. PICK n : n = Len(records)
  OBVIOUS
<1>1. /\ Written' /\ Extends(records', records) /\ records' \in Records /\ Len(records') = n + 1
      /\ \A r \in 1 .. n + 1 : Offset(r)' = Offset(r)
  BY <1>0, WriteBytes DEF Written
<1>2. n \in Nat /\ DOMAIN records = 1 .. n /\ DOMAIN records' = 1 .. n + 1
  BY <1>0, <1>1 DEF Written, Records
<1>3. nonce' = nonce /\ stage' = stage /\ need' = need /\ got' = got /\ rend' = rend
      /\ plaintext' = plaintext /\ delivered' = delivered /\ UNCHANGED reader
  BY DEF Write, reader, framer
<1>4. Decrypted'
  <2>1. nonce + 1 \in 1 .. n + 1 /\ nonce \in 0 .. n + 1
    BY <1>0, <1>2 DEF Decrypted
  <2>2. (Offset(nonce + 1))' = Offset(nonce + 1)
    <3>1. PICK r : r = nonce + 1
      OBVIOUS
    <3>2. Offset(r)' = Offset(r) /\ nonce' + 1 = r
      BY <1>1, <1>3, <2>1, <3>1
    <3> QED
      BY <3>1, <3>2 DEF Offset
  <2> QED
    BY <1>1, <1>3, <2>1, <2>2 DEF Decrypted, Numbered
<1>5. Collected'
  <2>1. nonce < n => Size(records', nonce + 1) = Size(records, nonce + 1)
    BY <1>1, <1>2 DEF Extends, Size, Decrypted
  <2> QED
    BY <1>0, <1>1, <1>2, <1>3, <2>1 DEF Collected, Decrypted
<1>6. PICK frame : frame = Octet(Len(records) + 1)
  OBVIOUS
<1>7. PICK k \in 0 .. Len(frame) : Push(k, frame)
  BY <1>6 DEF Write
<1>8. Size(records', n + 1) \in Nat /\ Size(records', n + 1) >= 3
  BY <1>1, <1>2, Sizes
<1>9. /\ frame \in Seq(Octets) /\ Len(frame) = Size(records', n + 1) /\ Piece(frame, n + 1, 1)
      /\ frame # <<>>
  <2>1. frame = [i \in 1 .. Size(records', n + 1) |-> <<n + 1, i>>]
    BY <1>0, <1>6 DEF Octet, Size
  <2>2. frame \in Seq(Octets) /\ Len(frame) = Size(records', n + 1)
    BY <2>1, <1>2, <1>8 DEF Octets
  <2>3. \A j \in 1 .. Len(frame) : frame[j] = <<n + 1, 1 + j - 1>>
    BY <2>1, <2>2, <1>8
  <2> QED
    BY <1>2, <1>8, <2>2, <2>3, EmptyIff DEF Piece
<1>10. Ahead(records, Expected, readBuf, Flow) = <<n + 1, 1>>
  BY <1>0, <1>7 DEF Push, Takes, Write, Ready, Kept, Following
<1>11. /\ 1 + Len(frame) - 1 = Size(records', n + 1) /\ n + 1 \in DOMAIN records' /\ n + 1 = Len(records')
       /\ over \in {"stream", "websocket"} /\ (over = "stream" => sink = <<>>)
  BY <1>1, <1>2, <1>8, <1>9 DEF Ended
<1>12. Chained' /\ Kept' /\ (over' = "stream" => sink' = <<>>)
  BY <1>1, <1>3, <1>7, <1>9, <1>10, <1>11, PushKeeps
<1> QED
  BY <1>1, <1>4, <1>5, <1>12

\* A drain goes on with the rest of the frame.
LEMMA DrainKeeps ==
    ASSUME Written, Decrypted, Collected, Chained, Kept, Ended, Drain
    PROVE  Chained' /\ Kept' /\ (over' = "stream" => sink' = <<>>)
<1> DEFINE r == Len(records)
           i == Size(records, r) - Len(writeBuf) + 1
<1>1. PICK k \in 1 .. Len(writeBuf) : Push(k, writeBuf)
  BY DEF Drain
<1>2. writeBuf \in Seq(Octets) /\ writeBuf # <<>> /\ k \in 0 .. Len(writeBuf) /\ Len(writeBuf) \in Nat
  BY <1>1 DEF Kept
<1>3. /\ records # <<>> /\ Piece(writeBuf, r, i)
      /\ Ahead(records, Expected, readBuf, Flow) = <<r, i>>
  BY <1>1, <1>2 DEF Kept, Following, Push, Takes
<1>4. r \in DOMAIN records /\ records' = records /\ records \in Records /\ Size(records, r) \in Nat
  BY <1>3, Sizes DEF Drain, Written, Records
<1>5. i + Len(writeBuf) - 1 = Size(records', r) /\ Extends(records', records) /\ UNCHANGED reader
  BY <1>2, <1>4 DEF Extends, Drain
<1>6. over \in {"stream", "websocket"} /\ (over = "stream" => sink = <<>>)
  BY DEF Ended
<1>7. r = Len(records') /\ r \in DOMAIN records' /\ records' \in Records
  BY <1>4
<1> HIDE DEF r, i
<1> QED
  BY <1>1, <1>2, <1>3, <1>4, <1>5, <1>6, <1>7, PushKeeps

\* The bytes the reader returns are the ones it has decrypted.
LEMMA DeliverBytes ==
    ASSUME Decrypted, Deliver
    PROVE  /\ Decrypted' /\ Len(delivered') > Len(delivered)
           /\ Len(delivered') <= Len(delivered) + Len(plaintext)
<1>1. PICK k : k = Min({Room, Len(plaintext)})
  OBVIOUS
<1> DEFINE B == 1 .. MaxBytes
           part == SubSeq(plaintext, 1, k)
           rest == SubSeq(plaintext, k + 1, Len(plaintext))
<1>2. /\ plaintext \in Seq(B) /\ delivered \in Seq(B) /\ plaintext # <<>>
      /\ delivered' = delivered \o part /\ plaintext' = rest
      /\ nonce' = nonce /\ records' = records /\ accepted' = accepted
  BY <1>1 DEF Deliver, Decrypted, writer
<1>3. PICK d, p : d = Len(delivered) /\ p = Len(plaintext)
  OBVIOUS
<1>4. d \in Nat /\ p \in Nat /\ p >= 1
  BY <1>2, <1>3
<1>5. k \in 1 .. p /\ k \in Nat
  BY <1>1, <1>3, <1>4, MinOfTwo, SizesAssumption
<1> HIDE DEF B
<1>6. part \in Seq(B) /\ Len(part) = k /\ \A i \in 1 .. k : part[i] = plaintext[i]
  BY <1>2, <1>3, <1>4, <1>5
<1>7. rest \in Seq(B) /\ Len(rest) = p - k /\ \A i \in 1 .. p - k : rest[i] = plaintext[k + i]
  <2>1. \A i \in k + 1 .. p : plaintext[i] \in B
    BY <1>2, <1>3, <1>5, ElementOfSeq
  <2>2. rest \in Seq(B) /\ Len(rest) = IF k + 1 <= p THEN p - (k + 1) + 1 ELSE 0
    BY <1>3, <1>4, <1>5, <2>1, SubSeqProperties
  <2>3. \A i \in 1 .. p - (k + 1) + 1 : rest[i] = plaintext[(k + 1) + i - 1]
    BY <1>3, <1>4, <1>5, <2>1, SubSeqProperties
  <2>4. Len(rest) = p - k /\ p - (k + 1) + 1 = p - k /\ \A i \in 1 .. p - k : (k + 1) + i - 1 = k + i
    BY <1>4, <1>5, <2>2
  <2> QED
    BY <2>2, <2>3, <2>4
<1> HIDE DEF part, rest
<1>8. /\ delivered' \in Seq(B) /\ Len(delivered') = d + k
      /\ \A i \in 1 .. d + k : delivered'[i] = IF i <= d THEN delivered[i] ELSE part[i - d]
  BY <1>2, <1>3, <1>6, ConcatProperties
<1>9. /\ \A i \in 1 .. d : delivered[i] = 0 + i
      /\ \A i \in 1 .. p : plaintext[i] = d + i
      /\ d + p = Offset(nonce + 1)
  BY <1>3 DEF Decrypted, Numbered
<1>10. ASSUME NEW i \in 1 .. d + k PROVE delivered'[i] = 0 + i
  <2>1. CASE i <= d
    BY <1>4, <1>8, <1>9, <2>1
  <2>2. CASE ~(i <= d)
    <3>1. i - d \in 1 .. k /\ i - d \in 1 .. p /\ d + (i - d) = 0 + i
      BY <1>4, <1>5, <2>2
    <3> QED
      BY <1>6, <1>8, <1>9, <2>2, <3>1
  <2> QED
    BY <2>1, <2>2
<1>11. ASSUME NEW i \in 1 .. p - k PROVE rest[i] = (d + k) + i
  <2>1. k + i \in 1 .. p /\ d + (k + i) = (d + k) + i
    BY <1>4, <1>5
  <2> QED
    BY <1>7, <1>9, <2>1
<1>12. (Offset(nonce + 1))' = d + p
  BY <1>2, <1>9 DEF Offset
<1>13. (d + k) + (p - k) = d + p /\ d + k > d /\ d + k <= d + p
  BY <1>4, <1>5
<1>14. nonce \in 0 .. Len(records)
  BY DEF Decrypted
<1> QED
  BY <1>2, <1>3, <1>7, <1>8, <1>10, <1>11, <1>12, <1>13, <1>14 DEF Decrypted, Numbered, B

\* A decrypted record is the bytes that come next.
LEMMA BodyBytes ==
    ASSUME Written, Decrypted, Collected, BodyRead
    PROVE  Decrypted'
<1>1. PICK r : r = nonce + 1
  OBVIOUS
<1>2. /\ nonce \in Nat /\ nonce < Len(records) /\ r \in DOMAIN records /\ plaintext = <<>>
      /\ r + 1 = nonce' + 1 /\ nonce' \in 0 .. Len(records) /\ nonce' = r
  BY <1>1, BodyIsGenuine DEF BodyRead, Genuine, Decrypted, Written, Records
<1>3. /\ plaintext' = records[r] /\ delivered' = delivered /\ records' = records /\ accepted' = accepted
  BY <1>1, BodyIsGenuine DEF BodyRead, writer
<1>4. Len(delivered) = Offset(r) /\ Len(delivered) \in Nat
  BY <1>1, <1>2 DEF Decrypted
<1>5. /\ records[r] \in Seq(1 .. MaxBytes) /\ Numbered(records[r], Offset(r))
      /\ Offset(r) + Len(records[r]) = Offset(r + 1)
  BY <1>2 DEF Written, Records
<1>6. (Offset(nonce + 1))' = Offset(r + 1)
  BY <1>2, <1>3 DEF Offset
<1> QED
  BY <1>2, <1>3, <1>4, <1>5, <1>6 DEF Decrypted, Numbered
-----------------------------------------------------------------------------
(* The invariant.                                                          *)

\* A reader that finds the orderly end has had every byte.
LEMMA EndIsWhole ==
    ASSUME IInv, Empty, Len(got) < need, plaintext = <<>>, below = "fin"
    PROVE  CleanEnd /\ delivered = accepted
<1>1. /\ writeBuf = <<>> /\ sink = <<>> /\ wire = <<>> /\ readBuf = <<>>
      /\ nonce \in Nat /\ Len(records) \in Nat /\ got \in Seq(Octets) /\ stage \in {"Len", "Body"}
      /\ Len(got) # need
  BY DEF IInv, Ended, Empty, Decrypted, Collected, Written, Records
<1>2. Flow = <<>>
  BY <1>1 DEF Flow
<1>3. Expected = <<Len(records) + 1, 1>>
  BY <1>1, <1>2 DEF IInv, Kept, Ahead, AfterBuf, Following
<1>4. Expected = <<nonce + 1, Len(got) + (IF stage = "Len" THEN 1 ELSE 3)>>
  BY <1>1 DEF Expected
<1>5. nonce = Len(records) /\ stage = "Len" /\ Len(got) = 0
  BY <1>1, <1>3, <1>4
<1>6. Len(delivered) = Len(accepted)
  <2>1. Offset(nonce + 1) = Len(accepted)
    BY <1>1, <1>5 DEF Offset, IInv, Written, Records
  <2>2. Len(delivered) + 0 = Len(accepted) /\ Len(delivered) \in Nat
    BY <2>1 DEF IInv, Decrypted
  <2> QED
    BY <2>2
<1>7. delivered = accepted
  <2>1. delivered \in Seq(1 .. MaxBytes) /\ accepted \in Seq(1 .. MaxBytes)
    BY DEF IInv, Decrypted, Written
  <2>2. \A i \in 1 .. Len(delivered) : delivered[i] = accepted[i]
    BY <1>6 DEF IInv, Decrypted, Written, Numbered
  <2> QED
    BY <1>6, <2>1, <2>2, SeqEqual
<1> QED
  BY <1>1, <1>5, <1>7, EmptyIff DEF CleanEnd

\* The steps that leave the octets and the bytes where they are.
LEMMA StillKeeps ==
    ASSUME Written, Decrypted, Collected, Chained, Kept,
           UNCHANGED <<accepted, records, writeBuf, wire, sink, readBuf, framer, delivered>>,
           below' # "broken" => below # "broken", rend' # "garbled"
    PROVE  Written' /\ Decrypted' /\ Collected' /\ Chained' /\ Kept'
<1>1. UNCHANGED <<accepted, records, writeBuf, wire, sink, readBuf, stage, need, got, nonce,
                  plaintext, delivered, Expected, Flow, Following>>
  BY DEF framer, Expected, Flow, Following
<1>2. Written'
  BY <1>1 DEF Written, Offset
<1>3. Decrypted'
  BY <1>1 DEF Decrypted, Offset
<1>4. Collected' /\ Chained' /\ Kept'
  BY <1>1 DEF Collected, Chained, Kept
<1> QED
  BY <1>2, <1>3, <1>4

\* Every step of the session, its buffers and the stream below keeps the framing.
LEMMA StepIInv == IInv /\ [Next]_vars => IInv'
<1> SUFFICES ASSUME IInv, [Next]_vars PROVE IInv'
  OBVIOUS
<1> USE DEF IInv
<1>1. ASSUME Drain PROVE IInv'
  <2>1. Chained' /\ Kept' /\ (over' = "stream" => sink' = <<>>)
    BY <1>1, DrainKeeps
  <2>2. /\ UNCHANGED <<accepted, records, flushed, wend, reader, over, below>> /\ wend = "open" /\ below = "up"
    BY <1>1 DEF Drain, Push, Takes
  <2>3. Written' /\ Decrypted' /\ Collected'
    BY <2>2 DEF Written, Decrypted, Collected, Offset, reader, framer
  <2>4. Ended'
    BY <2>1, <2>2 DEF Ended, reader, framer, EofIsWhole
  <2> QED
    BY <2>1, <2>3, <2>4
<1>2. ASSUME NEW size \in 1 .. MaxCall, Write(size) PROVE IInv'
  <2>1. size \in Nat \ {0} /\ UNCHANGED <<flushed, wend, reader, over, below>> /\ wend = "open" /\ below = "up"
    BY <1>2, SizesAssumption DEF Write, Push, Takes
  <2>2. Written' /\ Decrypted' /\ Collected' /\ Chained' /\ Kept' /\ (over' = "stream" => sink' = <<>>)
    BY <1>2, <2>1, WriteKeeps
  <2>3. Len(accepted') > Len(accepted) /\ Len(accepted) \in Nat /\ Len(accepted') \in Nat
    BY <1>2, <2>1, <2>2, WriteBytes DEF Written
  <2>4. Ended'
    BY <2>1, <2>2, <2>3 DEF Ended, reader, framer, EofIsWhole
  <2> QED
    BY <2>2, <2>4
<1>3. ASSUME Flush PROVE IInv'
  <2>1. Written' /\ Decrypted' /\ Collected' /\ Chained' /\ Kept'
    BY <1>3, StillKeeps DEF Flush, transport, reader, Collected
  <2>2. Ended'
    BY <1>3 DEF Flush, Ended, transport, reader, EofIsWhole, Written
  <2> QED
    BY <2>1, <2>2
<1>4. ASSUME Shutdown PROVE IInv'
  <2>1. Written' /\ Decrypted' /\ Collected' /\ Chained' /\ Kept'
    BY <1>4, StillKeeps DEF Shutdown, Closes, transport, reader, Collected
  <2>2. Ended'
    BY <1>4 DEF Shutdown, Closes, Ready, Sent, Ended, transport, reader, EofIsWhole
  <2> QED
    BY <2>1, <2>2
<1>5. ASSUME WriteFails PROVE IInv'
  <2>1. Written' /\ Decrypted' /\ Collected' /\ Chained' /\ Kept'
    BY <1>5, StillKeeps DEF WriteFails, transport, reader, Collected
  <2>2. Ended'
    BY <1>5 DEF WriteFails, Ended, transport, reader, EofIsWhole
  <2> QED
    BY <2>1, <2>2
<1>6. ASSUME Deliver PROVE IInv'
  <2>1. Decrypted'
    BY <1>6, DeliverBytes
  <2>2. UNCHANGED <<writer, transport, stage, need, got, nonce, rend>> /\ rend = "open"
    BY <1>6 DEF Deliver, Reading
  <2>3. Written' /\ Collected' /\ Chained' /\ Kept'
    BY <2>2 DEF Written, Offset, Collected, Chained, Kept, Expected, Flow, Following, writer, transport
  <2>4. Ended'
    BY <2>2 DEF Ended, writer, transport, EofIsWhole
  <2> QED
    BY <2>1, <2>3, <2>4
<1>7. ASSUME Pending PROVE IInv'
  <2>1. Written' /\ Decrypted' /\ Collected' /\ Chained' /\ Kept'
    BY <1>7, StillKeeps DEF Pending, AfterPending, transport, writer, framer, Collected
  <2>2. Ended'
    BY <1>7 DEF Pending, AfterPending, Ended, transport, writer, EofIsWhole
  <2> QED
    BY <2>1, <2>2
<1>8. ASSUME NEW k \in 1 .. need, Read(k) PROVE IInv'
  <2>1. k \in Nat \ {0}
    BY DEF Read, Fills
  <2>2. Collected' /\ Chained' /\ Kept'
    BY <1>8, <2>1, ReadKeeps
  <2>3. UNCHANGED <<writer, over, sink, wire, below, nonce, plaintext, delivered, rend>>
    BY <1>8 DEF Read, Fills
  <2>4. Written' /\ Decrypted'
    BY <2>3 DEF Written, Decrypted, Offset, writer
  <2>5. Ended'
    BY <2>3 DEF Ended, writer, EofIsWhole
  <2> QED
    BY <2>2, <2>4, <2>5
<1>9. ASSUME Refills PROVE IInv'
  <2>1. Chained' /\ Kept'
    BY <1>9, RefillsKeeps
  <2>2. UNCHANGED <<writer, reader, over, sink, below>>
    BY <1>9 DEF Refills, NextMessage
  <2>3. Written' /\ Decrypted' /\ Collected'
    BY <2>2 DEF Written, Decrypted, Collected, Offset, writer, reader, framer
  <2>4. Ended'
    BY <2>2 DEF Ended, writer, reader, framer, EofIsWhole
  <2> QED
    BY <2>1, <2>3, <2>4
<1>10. ASSUME HeaderRead PROVE IInv'
  <2>1. Collected' /\ Chained' /\ Kept'
    BY <1>10, HeaderKeeps
  <2>2. UNCHANGED <<writer, transport, nonce, plaintext, delivered, rend>>
    BY <1>10 DEF HeaderRead
  <2>3. Written' /\ Decrypted'
    BY <2>2 DEF Written, Decrypted, Offset, writer
  <2>4. Ended'
    BY <2>2 DEF Ended, writer, transport, EofIsWhole
  <2> QED
    BY <2>1, <2>3, <2>4
<1>11. ASSUME BodyRead PROVE IInv'
  <2>1. Collected' /\ Chained' /\ Kept' /\ Decrypted'
    BY <1>11, BodyKeeps, BodyBytes
  <2>2. UNCHANGED <<writer, transport, delivered, rend>>
    BY <1>11, BodyIsGenuine DEF BodyRead
  <2>3. Written'
    BY <2>2 DEF Written, Offset, writer
  <2>4. Ended'
    BY <2>2 DEF Ended, writer, transport, EofIsWhole
  <2> QED
    BY <2>1, <2>3, <2>4
<1>12. ASSUME End PROVE IInv'
  <2>1. /\ UNCHANGED <<writer, transport, framer, delivered>> /\ rend' \in {"eof", "truncated"}
        /\ rend' = "eof" => CleanEnd
        /\ plaintext = <<>> /\ Len(got) < need /\ Ends
    BY <1>12 DEF End
  <2>2. Written' /\ Decrypted' /\ Collected' /\ Chained' /\ Kept'
    BY <2>1, StillKeeps DEF writer, transport
  <2>3. EofIsWhole'
    <3> SUFFICES ASSUME over' = "websocket", rend' = "eof" PROVE wend' = "shut" /\ delivered' = accepted'
      BY DEF EofIsWhole
    <3>1. Empty /\ below = "fin"
      BY <2>1 DEF Ends, transport
    <3>2. delivered = accepted /\ wend = "shut"
      BY <2>1, <3>1, EndIsWhole DEF Ended
    <3> QED
      BY <2>1, <3>2 DEF writer
  <2>4. Ended'
    BY <2>1, <2>3 DEF Ended, writer, transport
  <2> QED
    BY <2>2, <2>4
<1>13. ASSUME ReadFails PROVE IInv'
  <2>1. UNCHANGED <<writer, transport, framer, delivered>> /\ rend' = "failed"
    BY <1>13 DEF ReadFails
  <2>2. Written' /\ Decrypted' /\ Collected' /\ Chained' /\ Kept'
    BY <2>1, StillKeeps DEF writer, transport
  <2>3. Ended'
    BY <2>1 DEF Ended, writer, transport, EofIsWhole
  <2> QED
    BY <2>2, <2>3
<1>14. ASSUME Below PROVE IInv'
  <2>1. UNCHANGED <<writer, reader, over, readBuf>> /\ (Sends \/ Breaks)
    BY <1>14 DEF Below, Sends, Breaks
  <2>2. Chained' /\ Kept'
    BY <2>1, SendsKeeps, BreaksKeeps
  <2>3. Written' /\ Decrypted' /\ Collected'
    BY <2>1 DEF Written, Decrypted, Collected, Offset, writer, reader, framer
  <2>4. Ended'
    BY <2>1 DEF Ended, writer, reader, framer, EofIsWhole, Sends, Breaks
  <2> QED
    BY <2>2, <2>3, <2>4
<1>15. ASSUME UNCHANGED vars PROVE IInv'
  <2>1. Written' /\ Decrypted' /\ Collected' /\ Chained' /\ Kept'
    BY <1>15, StillKeeps DEF vars, transport, writer, reader, Collected
  <2>2. Ended'
    BY <1>15 DEF vars, Ended, transport, writer, reader, EofIsWhole
  <2> QED
    BY <2>1, <2>2
<1> QED
  BY <1>1, <1>2, <1>3, <1>4, <1>5, <1>6, <1>7, <1>8, <1>9, <1>10, <1>11, <1>12, <1>13, <1>14, <1>15
  DEF Next, ReadNext

\* Nothing has been written or read at first.
LEMMA InitIInv == Init => IInv
<1> SUFFICES ASSUME Init PROVE IInv
  OBVIOUS
<1>1. /\ accepted = <<>> /\ records = <<>> /\ writeBuf = <<>> /\ wire = <<>> /\ sink = <<>>
      /\ readBuf = <<>> /\ got = <<>> /\ plaintext = <<>> /\ delivered = <<>> /\ nonce = 0
      /\ stage = "Len" /\ need = 2 /\ rend = "open" /\ below = "up" /\ wend = "open" /\ flushed = 0
      /\ over \in {"stream", "websocket"}
  BY DEF Init, TransportInit
<1>2. Written /\ Decrypted
  BY <1>1 DEF Written, Records, Numbered, Decrypted, Offset
<1>3. Flow = <<>> /\ Expected = <<1, 1>>
  BY <1>1 DEF Flow, Expected
<1>4. Collected /\ Chained /\ Kept
  BY <1>1, <1>3 DEF Collected, Chained, Kept, Line, Ahead, AfterBuf, Following, Piece
<1>5. Ended
  BY <1>1 DEF Ended, EofIsWhole
<1> QED
  BY <1>2, <1>4, <1>5 DEF IInv

\* What is between the two ends is always the records, in their order.
LEMMA Invariance == Spec => []IInv
<1>1. IInv /\ [Next]_vars => IInv'
  BY StepIInv
<1> QED
  BY <1>1, InitIInv, PTL DEF Spec
-----------------------------------------------------------------------------
(* Theorems.                                                               *)

\* The variables keep their types, and the writer's buffer and the reader's
\* never hold more than one record.
THEOREM TypeCorrect == Spec => []TypeOK
<1>1. IInv => TypeOK
  <2> SUFFICES ASSUME IInv PROVE TypeOK
    OBVIOUS
  <2> USE DEF IInv
  <2>1. Len(records) \in Nat /\ nonce \in 0 .. Len(records) /\ got \in Seq(Octets)
    BY DEF Written, Records, Decrypted, Collected
  <2>2. \A r \in DOMAIN records : Size(records, r) \in Nat /\ 4 <= Size(records, r)
                                  /\ Size(records, r) <= 2 + MaxPlaintext + Tag
    BY SizesAssumption DEF Written, Size, Records
  <2>3. Len(writeBuf) <= 2 + MaxPlaintext + Tag
    <3>1. CASE writeBuf = <<>>
      BY <3>1, SizesAssumption
    <3>2. CASE writeBuf # <<>>
      <4>1. Len(records) \in DOMAIN records
        BY <3>2, <2>1 DEF Kept, Written, Records
      <4>2. Size(records, Len(records)) - Len(writeBuf) + 1 >= 1 /\ Len(writeBuf) \in Nat
        BY <3>2 DEF Kept, Piece, Following
      <4> QED
        BY <2>2, <4>1, <4>2, SizesAssumption
    <3> QED
      BY <3>1, <3>2
  <2>4. need \in 0 .. MaxPlaintext + Tag + 2 /\ Len(got) <= need /\ stage \in {"Len", "Body"}
    <3>1. CASE stage = "Len"
      BY <3>1, SizesAssumption DEF Collected
    <3>2. CASE stage # "Len"
      <4>1. nonce + 1 \in DOMAIN records
        BY <2>1, <3>2 DEF Collected, Written, Records
      <4> QED
        BY <2>2, <3>2, <4>1, SizesAssumption DEF Collected
    <3> QED
      BY <3>1, <3>2
  <2> QED
    BY <2>1, <2>3, <2>4 DEF TypeOK, Written, Ended
<1> QED
  BY <1>1, Invariance, PTL

\* Whatever the sizes and however the octets are cut, no record of an honest
\* writer is refused.
THEOREM AlwaysGenuine == Spec => []NeverGarbled
<1>1. IInv => NeverGarbled
  BY DEF IInv, Collected, NeverGarbled
<1> QED
  BY <1>1, Invariance, PTL

\* Over a WebSocket a clean end is the writer's own, after every byte.
THEOREM EndAlwaysWhole == Spec => []EofIsWhole
<1>1. IInv => EofIsWhole
  BY DEF IInv, Ended
<1> QED
  BY <1>1, Invariance, PTL

\* A step of the session is a step of the byte stream it promises, or none.
LEMMA StepRefines == IInv /\ IInv' /\ [Next]_vars => [Bytes!Next]_(Bytes!vars)
<1> SUFFICES ASSUME IInv, IInv', [Next]_vars PROVE [Bytes!Next]_(Bytes!vars)
  OBVIOUS
<1> USE DEF IInv
<1>1. ASSUME NEW size \in 1 .. MaxCall, Write(size) PROVE Bytes!Accept
  <2>1. /\ UNCHANGED <<delivered, rend, below>> /\ below = "up"
    BY <1>1 DEF Write, Push, Takes, reader
  <2>2. /\ Len(accepted') > Len(accepted) /\ \A i \in 1 .. Len(accepted) : accepted'[i] = accepted[i]
        /\ accepted \in Seq(1 .. MaxBytes) /\ accepted' \in Seq(1 .. MaxBytes)
    BY <1>1, WriteBytes, SizesAssumption DEF Written
  <2>3. SubSeq(accepted', 1, Len(accepted)) = accepted
    BY <2>2
  <2> QED
    BY <2>1, <2>2, <2>3 DEF Bytes!Accept
<1>2. ASSUME Deliver PROVE Bytes!Deliver
  <2>1. UNCHANGED <<accepted, rend, below>> /\ rend = "open"
    BY <1>2 DEF Deliver, Reading, writer, transport
  <2>2. Len(delivered') > Len(delivered)
    BY <1>2, DeliverBytes
  <2>3. /\ delivered \in Seq(1 .. MaxBytes) /\ delivered' \in Seq(1 .. MaxBytes)
        /\ accepted \in Seq(1 .. MaxBytes)
    BY DEF Decrypted, Written
  <2>4. Len(delivered') <= Len(accepted)
    <3>1. Len(delivered') <= Offset(nonce + 1)
      BY <1>2, DeliverBytes DEF Decrypted
    <3>2. Offset(nonce + 1) <= Len(accepted) /\ Offset(nonce + 1) \in Nat
      BY OffsetBound DEF Decrypted
    <3> QED
      BY <2>3, <3>1, <3>2
  <2>5. PICK k : k = Len(delivered')
    OBVIOUS
  <2>6. k \in Len(delivered) + 1 .. Len(accepted) /\ k \in Nat
    BY <2>2, <2>3, <2>4, <2>5
  <2>7. delivered' = SubSeq(accepted, 1, k)
    <3>1. \A i \in 1 .. k : delivered'[i] = accepted[i]
      BY <2>1, <2>3, <2>5, <2>6, SMTT(40) DEF Decrypted, Written, Numbered
    <3> QED
      BY <2>3, <2>5, <2>6, <3>1, SamePrefix
  <2> QED
    BY <2>1, <2>6, <2>7 DEF Bytes!Deliver
<1>3. ASSUME Shutdown PROVE Bytes!Close
  BY <1>3 DEF Shutdown, Closes, writer, reader, Bytes!Close
<1>4. ASSUME End PROVE Bytes!Eof \/ Bytes!Fail
  <2>1. /\ UNCHANGED <<accepted, delivered, below>> /\ rend = "open" /\ plaintext = <<>> /\ Len(got) < need
        /\ Empty /\ rend' = IF CleanEnd THEN "eof" ELSE "truncated"
        /\ below \in {"fin", "broken"}
    BY <1>4 DEF End, Ends, Reading, writer, transport
  <2>2. CASE below = "broken"
    BY <2>1, <2>2 DEF Bytes!Eof, Bytes!Fail
  <2>3. CASE below = "fin"
    <3>1. CleanEnd /\ delivered = accepted
      BY <2>1, <2>3, EndIsWhole
    <3> QED
      BY <2>1, <2>3, <3>1 DEF Bytes!Eof
  <2> QED
    BY <2>1, <2>2, <2>3
<1>5. ASSUME ReadFails PROVE Bytes!Fail
  BY <1>5 DEF ReadFails, Fails, Reading, writer, transport, Bytes!Fail
<1>6. ASSUME Breaks, UNCHANGED <<writer, reader>> PROVE Bytes!Break
  <2>1. UNCHANGED <<accepted, delivered, rend>> /\ below # "broken" /\ below' = "broken"
    BY <1>6 DEF Breaks, writer, reader
  <2> QED
    BY <2>1 DEF Bytes!Break, Ended
<1> DEFINE Same == UNCHANGED <<accepted, delivered, below, rend>>
<1>7. ASSUME Same PROVE UNCHANGED Bytes!vars
  BY <1>7 DEF Bytes!vars
<1> HIDE DEF Same
<1>8. ASSUME Drain \/ Flush \/ WriteFails PROVE Same
  BY <1>8 DEF Drain, Push, Takes, Flush, WriteFails, writer, transport, reader, Same
<1>9. ASSUME Pending \/ Refills \/ HeaderRead PROVE Same
  BY <1>9 DEF Pending, Refills, NextMessage, HeaderRead, writer, transport, reader, Same
<1>10. ASSUME NEW k \in 1 .. need, Read(k) PROVE Same
  BY <1>10 DEF Read, Fills, writer, Same
<1>11. ASSUME BodyRead PROVE Same
  BY <1>11, BodyIsGenuine DEF BodyRead, writer, transport, Same
<1>12. ASSUME Sends, UNCHANGED <<writer, reader>> PROVE Same
  BY <1>12 DEF Sends, writer, reader, Same
<1>13. ASSUME UNCHANGED vars PROVE Same
  BY <1>13 DEF vars, writer, transport, reader, Same
<1> QED
  BY <1>1, <1>2, <1>3, <1>4, <1>5, <1>6, <1>7, <1>8, <1>9, <1>10, <1>11, <1>12, <1>13
  DEF Next, ReadNext, Below, Bytes!Next

\* A new session is a new byte stream.
LEMMA InitRefines == Init => Bytes!Init
  BY DEF Init, TransportInit, Bytes!Init

\* The session is the byte stream the layers above rely on, whatever the chunk
\* sizes, the buffers and the pieces the octets travel in.
THEOREM IsByteStream == Spec => StreamSpec
<1>1. IInv /\ IInv' /\ [Next]_vars => [Bytes!Next]_(Bytes!vars)
  BY StepRefines
<1> QED
  BY <1>1, InitRefines, Invariance, PTL DEF Spec, StreamSpec, Bytes!Spec
==============================================================================
