---------------------------- MODULE EndpointProofs ----------------------------
(***************************************************************************)
(* Proofs about three parts that each live at one end: the reading side of *)
(* a connection (FrameStream), the conflict copies in the share directory  *)
(* of one machine (ConflictMerge), and the supervisor of ygg (Supervisor). *)
(* They share no state, and each part of this module is about one of them. *)
(***************************************************************************)
EXTENDS FrameStream, ConflictMerge, Supervisor, WellFoundedInduction, SequenceTheorems, TLAPS

\* Every set of natural numbers that is not empty has a smallest element.
LEMMA SmallestOf ==
    ASSUME NEW T \in SUBSET Nat, T # {}
    PROVE  \E x \in T : \A y \in T : x <= y
<1> DEFINE R == OpToRel(<, Nat)
<1>1. IsWellFoundedOn(R, Nat)
  BY NatLessThanWellFounded
<1>2. PICK x \in T : \A y \in T : ~ (<<y, x>> \in R)
  <2> HIDE DEF R
  <2> QED BY <1>1, WFMin
<1>3. \A y \in T : x <= y
  <2> SUFFICES ASSUME NEW y \in T, y < x PROVE FALSE
    OBVIOUS
  <2>1. R = {ss \in Nat \X Nat : ss[1] < ss[2]}
    BY DEF OpToRel
  <2>2. <<y, x>> \in {ss \in Nat \X Nat : ss[1] < ss[2]}
    OBVIOUS
  <2> QED BY <1>2, <2>1, <2>2
<1> QED BY <1>3

-----------------------------------------------------------------------------
(***************************************************************************)
(* Frames on a byte stream, for every set of frames and every way in which *)
(* their bytes are cut into pieces.                                        *)
(***************************************************************************)

Byte == 0 .. 255

\* A number is its last byte and the rest.
LEMMA LastByte ==
    ASSUME NEW n \in Nat
    PROVE  n \div 256 \in Nat /\ n % 256 \in Byte /\ n = (n % 256) + 256 * (n \div 256)
  BY DEF Byte

(* The bytes of two sequences joined. *)
JoinOf(a, b, c) ==
    /\ c \in Seq(Byte)
    /\ Len(c) = Len(a) + Len(b)
    /\ \A i \in 1 .. Len(a) : c[i] = a[i]
    /\ \A i \in 1 .. Len(b) : c[Len(a) + i] = b[i]

\* What concatenation does.
LEMMA Joined ==
    ASSUME NEW a \in Seq(Byte), NEW b \in Seq(Byte)
    PROVE  JoinOf(a, b, a \o b)
<1> DEFINE c == a \o b
<1>1. /\ c \in Seq(Byte)
      /\ Len(c) = Len(a) + Len(b)
      /\ \A i \in 1 .. Len(a) + Len(b) : c[i] = IF i <= Len(a) THEN a[i] ELSE b[i - Len(a)]
  BY ConcatProperties
<1>2. Len(a) \in Nat /\ Len(b) \in Nat
  BY LenProperties
<1> HIDE DEF c
<1>3. \A i \in 1 .. Len(a) : c[i] = a[i]
  BY <1>1, <1>2
<1>4. ASSUME NEW i \in 1 .. Len(b) PROVE c[Len(a) + i] = b[i]
  <2>1. Len(a) + i \in 1 .. Len(a) + Len(b) /\ ~(Len(a) + i <= Len(a)) /\ (Len(a) + i) - Len(a) = i
    BY <1>2
  <2> QED BY <2>1, <1>1
<1>5. JoinOf(a, b, c)
  BY <1>1, <1>3, <1>4 DEF JoinOf
<1> QED BY <1>5 DEF c

\* The bound on lengths is a number, which only its four factors are needed of.
LEMMA HugeNumber == Huge \in Nat
  BY DEF Huge

\* The same with its value.
LEMMA HugeValue == Huge = 32 * (256 * (256 * 256))
  BY DEF Huge

\* What lies below the bound is a natural number.
LEMMA BelowHuge ==
    ASSUME NEW n \in 0 .. Huge - 1
    PROVE  n \in Nat /\ n < Huge
  BY HugeNumber

\* The four digits, to the base 256, of a number below 2^29.
LEMMA HighByte ==
    ASSUME NEW n \in Nat, n < Huge, NEW q1 \in Nat, NEW q2 \in Nat, NEW q3 \in Nat,
           NEW b1 \in Byte, NEW b2 \in Byte, NEW b3 \in Byte,
           n = b1 + 256 * q1, q1 = b2 + 256 * q2, q2 = b3 + 256 * q3
    PROVE  q3 < 32
  BY HugeValue, SMT DEF Byte

\* A number below 2^29 is read as it was written.
LEMMA LittleEndian ==
    ASSUME NEW n \in 0 .. Huge - 1
    PROVE  /\ to_le_bytes(n) \in Seq(Byte) /\ Len(to_le_bytes(n)) = 4
           /\ to_le_bytes(n)[4] < 32
           /\ to_le_bytes(n)[1] + 256 * (to_le_bytes(n)[2] + 256 * (to_le_bytes(n)[3] + 256 * to_le_bytes(n)[4])) = n
<1> DEFINE q1 == n \div 256
           q2 == q1 \div 256
           q3 == q2 \div 256
           b1 == n % 256
           b2 == q1 % 256
           b3 == q2 % 256
           b4 == q3 % 256
<1>0. to_le_bytes(n) = <<b1, b2, b3, b4>>
  BY DEF to_le_bytes
<1>1. n \in Nat /\ n < Huge
  BY BelowHuge
<1>2. q1 \in Nat /\ b1 \in Byte /\ n = b1 + 256 * q1
  BY <1>1, LastByte
<1>3. q2 \in Nat /\ b2 \in Byte /\ q1 = b2 + 256 * q2
  BY <1>2, LastByte
<1>4. q3 \in Nat /\ b3 \in Byte /\ q2 = b3 + 256 * q3
  BY <1>3, LastByte
<1>5. q3 < 32
  <2> HIDE DEF q1, q2, q3, b1, b2, b3, b4
  <2> QED BY <1>1, <1>2, <1>3, <1>4, HighByte
<1>6. b4 = q3 /\ b4 \in Byte
  BY <1>4, <1>5, SMT DEF Byte
<1> HIDE DEF q1, q2, q3, b1, b2, b3, b4
<1>7. /\ <<b1, b2, b3, b4>> \in Seq(Byte) /\ Len(<<b1, b2, b3, b4>>) = 4
      /\ <<b1, b2, b3, b4>>[1] = b1 /\ <<b1, b2, b3, b4>>[2] = b2
      /\ <<b1, b2, b3, b4>>[3] = b3 /\ <<b1, b2, b3, b4>>[4] = b4
  BY <1>2, <1>3, <1>4, <1>6
<1>8. b1 + 256 * (b2 + 256 * (b3 + 256 * b4)) = n
  BY <1>2, <1>3, <1>4, <1>6
<1> QED BY <1>0, <1>5, <1>6, <1>7, <1>8

\* The bytes of a frame that may be sent, one by one.
EncodedAs(f, e) ==
    /\ e \in Seq(Byte)
    /\ Len(e) = HeaderLen + Len(f.payload)
    /\ e[1] = MAGIC /\ e[2] = PROTOCOL_VERSION /\ e[3] = f.flags /\ e[4] = f.frame_type
    /\ \A i \in 1 .. 4 : e[4 + i] = to_le_bytes(f.stream_id)[i]
    /\ \A i \in 1 .. 4 : e[8 + i] = to_le_bytes(Len(f.payload))[i]
    /\ \A i \in 1 .. Len(f.payload) : e[HeaderLen + i] = f.payload[i]

\* What Encode makes of a frame.
LEMMA Encoded ==
    ASSUME NEW f \in Frames, ~TooLarge(Len(f.payload))
    PROVE  EncodedAs(f, Encode(f))
<1> DEFINE h == <<MAGIC, PROTOCOL_VERSION, f.flags, f.frame_type>>
           s == to_le_bytes(f.stream_id)
           l == to_le_bytes(Len(f.payload))
           p == f.payload
           c == h \o s
           d == c \o l
           e == d \o p
<1>1. /\ f.frame_type \in FrameType /\ f.flags \in Byte /\ f.stream_id \in 0 .. Huge - 1 /\ p \in Seq(Byte)
      /\ Len(p) \in 0 .. Huge - 1
  <2>1. f \in [frame_type : FrameType, flags : 0 .. 255, stream_id : 0 .. Huge - 1, payload : Seq(0 .. 255)]
    BY FrameAssumption
  <2>2. f.frame_type \in FrameType /\ f.flags \in Byte /\ f.stream_id \in 0 .. Huge - 1 /\ p \in Seq(Byte)
    BY <2>1 DEF Byte
  <2>3. Len(p) \in Nat /\ MAX_PAYLOAD_LEN \in 0 .. Huge - 1 /\ Huge \in Nat
    BY <2>2, FrameAssumption, LenProperties, HugeNumber
  <2>4. Len(p) \in 0 .. Huge - 1
    BY <2>3 DEF TooLarge
  <2> QED BY <2>2, <2>4
<1>2. f.frame_type \in Byte /\ MAGIC \in Byte /\ PROTOCOL_VERSION \in Byte
  BY <1>1 DEF FrameType, MAGIC, PROTOCOL_VERSION, Byte
<1>3. s \in Seq(Byte) /\ Len(s) = 4 /\ l \in Seq(Byte) /\ Len(l) = 4
  BY <1>1, LittleEndian
<1>4. h \in Seq(Byte) /\ Len(h) = 4 /\ h[1] = MAGIC /\ h[2] = PROTOCOL_VERSION /\ h[3] = f.flags /\ h[4] = f.frame_type
  BY <1>1, <1>2
<1> HIDE DEF h, s, l, p
<1>5. JoinOf(h, s, c)
  BY <1>3, <1>4, Joined
<1> HIDE DEF c
<1>c. /\ c \in Seq(Byte) /\ Len(c) = 8
      /\ \A i \in 1 .. 4 : c[i] = h[i] /\ c[4 + i] = s[i]
  BY <1>3, <1>4, <1>5 DEF JoinOf
<1>6. JoinOf(c, l, d)
  BY <1>3, <1>c, Joined
<1> HIDE DEF d
<1>d. /\ d \in Seq(Byte) /\ Len(d) = 12
      /\ \A i \in 1 .. 8 : d[i] = c[i]
      /\ \A i \in 1 .. 4 : d[8 + i] = l[i]
  BY <1>3, <1>c, <1>6 DEF JoinOf
<1>7. JoinOf(d, p, e)
  BY <1>1, <1>d, Joined
<1> HIDE DEF e
<1>e. /\ e \in Seq(Byte) /\ Len(e) = 12 + Len(p)
      /\ \A i \in 1 .. 12 : e[i] = d[i]
      /\ \A i \in 1 .. Len(p) : e[12 + i] = p[i]
  BY <1>d, <1>7 DEF JoinOf
<1>8. e[1] = MAGIC /\ e[2] = PROTOCOL_VERSION /\ e[3] = f.flags /\ e[4] = f.frame_type
  BY <1>4, <1>c, <1>d, <1>e
<1>9. \A i \in 1 .. 4 : e[4 + i] = s[i] /\ e[8 + i] = l[i]
  <2>1. \A i \in 1 .. 4 : 4 + i \in 1 .. 8 /\ 4 + i \in 1 .. 12 /\ 8 + i \in 1 .. 12
    OBVIOUS
  <2> QED BY <2>1, <1>c, <1>d, <1>e
<1>11. Encode(f) = e
  BY DEF Encode, e, d, c, h, s, l, p
<1> QED BY <1>e, <1>8, <1>9, <1>11 DEF EncodedAs, HeaderLen, s, l, p
\* The first bytes of e.
BeginsAs(b, e) == b \in Seq(Byte) /\ Len(b) <= Len(e) /\ \A i \in 1 .. Len(b) : b[i] = e[i]

\* The fields of a frame that may be sent.
LEMMA FrameFields ==
    ASSUME NEW f \in Frames
    PROVE  /\ f = [frame_type |-> f.frame_type, flags |-> f.flags, stream_id |-> f.stream_id, payload |-> f.payload]
           /\ f.frame_type \in FrameType
           /\ f.stream_id \in 0 .. Huge - 1
           /\ f.payload \in Seq(Byte)
           /\ Len(f.payload) \in Nat
           /\ ~TooLarge(Len(f.payload)) => Len(f.payload) \in 0 .. Huge - 1
           /\ ~TooLarge(Len(f.payload)) => ~AboveLimit(Len(f.payload))
<1>1. f \in [frame_type : FrameType, flags : 0 .. 255, stream_id : 0 .. Huge - 1, payload : Seq(0 .. 255)]
  BY FrameAssumption
<1>2. f = [frame_type |-> f.frame_type, flags |-> f.flags, stream_id |-> f.stream_id, payload |-> f.payload]
  BY <1>1
<1>3. f.frame_type \in FrameType /\ f.stream_id \in 0 .. Huge - 1 /\ f.payload \in Seq(Byte)
  BY <1>1 DEF Byte
<1>4. Len(f.payload) \in Nat /\ MAX_PAYLOAD_LEN \in 0 .. Huge - 1 /\ Huge \in Nat
  BY <1>3, FrameAssumption, LenProperties, HugeNumber
<1> HIDE FrameAssumption
<1>5. ~TooLarge(Len(f.payload)) => Len(f.payload) \in 0 .. Huge - 1
  BY <1>4 DEF TooLarge
<1>6. ~TooLarge(Len(f.payload)) => ~AboveLimit(Len(f.payload))
  BY DEF TooLarge, AboveLimit
<1> QED BY <1>2, <1>3, <1>4, <1>5, <1>6

\* Four bytes that to_le_bytes has written are read as the number.
LEMMA ReadsBack ==
    ASSUME NEW n \in 0 .. Huge - 1, NEW b, NEW i \in {4, 8},
           \A j \in 1 .. 4 : b[i + j] = to_le_bytes(n)[j]
    PROVE  from_le_bytes(b, i) = n
<1> DEFINE t == to_le_bytes(n)
<1>1. t \in Seq(Byte) /\ Len(t) = 4 /\ t[4] < 32 /\ t[1] + 256 * (t[2] + 256 * (t[3] + 256 * t[4])) = n
  BY LittleEndian
<1>2. b[i + 1] = t[1] /\ b[i + 2] = t[2] /\ b[i + 3] = t[3] /\ b[i + 4] = t[4]
  OBVIOUS
<1> HIDE DEF t
<1>3. t[4] \in Nat
  <2>1. t \in Seq(Byte) /\ 4 \in 1 .. Len(t)
    BY <1>1
  <2>2. t[4] \in Byte
    BY <2>1, ElementOfSeq
  <2> QED BY <2>2 DEF Byte
<1>4. ~(b[i + 4] >= 32)
  BY <1>1, <1>2, <1>3
<1> QED BY <1>1, <1>2, <1>4 DEF from_le_bytes

\* The header of a frame that was sent is good and tells its length, as soon as recv
\* has it.
LEMMA HeaderRead ==
    ASSUME NEW f \in Frames, ~TooLarge(Len(f.payload)), NEW b, BeginsAs(b, Encode(f)), Len(b) >= HeaderLen
    PROVE  PayloadLen(b) = Len(f.payload) /\ ~BadHeader(b)
<1> DEFINE e == Encode(f)
<1>1. EncodedAs(f, e)
  BY Encoded
<1> HIDE DEF e
<1>2. b \in Seq(Byte) /\ Len(b) >= 12 /\ Len(b) \in Nat /\ \A i \in 1 .. Len(b) : b[i] = e[i]
  BY LenProperties DEF BeginsAs, HeaderLen, e
<1>3. \A i \in 1 .. 12 : b[i] = e[i]
  BY <1>2
<1>4. \A j \in 1 .. 4 : b[8 + j] = to_le_bytes(Len(f.payload))[j]
  <2>1. \A j \in 1 .. 4 : 8 + j \in 1 .. 12
    OBVIOUS
  <2> QED BY <2>1, <1>1, <1>3 DEF EncodedAs
<1>5. PayloadLen(b) = Len(f.payload)
  BY <1>4, FrameFields, ReadsBack DEF PayloadLen
<1>6. b[1] = MAGIC /\ b[2] = PROTOCOL_VERSION
  BY <1>1, <1>3 DEF EncodedAs
<1>7. ~BadHeader(b)
  BY <1>5, <1>6, FrameFields DEF BadHeader
<1> QED BY <1>5, <1>7

\* A complete frame that was sent is decoded as what it was.
LEMMA DecodesEncoded ==
    ASSUME NEW f \in Frames, ~TooLarge(Len(f.payload))
    PROVE  Decodable(Encode(f)) /\ Decoded(Encode(f)) = f
<1> DEFINE e == Encode(f)
           p == SubSeq(e, HeaderLen + 1, Len(e))
<1>1. EncodedAs(f, e)
  BY Encoded
<1> HIDE DEF e
<1>2. Decodable(e)
  BY <1>1, FrameFields DEF EncodedAs, Decodable
<1>3. from_le_bytes(e, 4) = f.stream_id
  BY <1>1, FrameFields, ReadsBack DEF EncodedAs
<1>4. e \in Seq(Byte) /\ Len(f.payload) \in Nat /\ Len(e) = 12 + Len(f.payload) /\ f.payload \in Seq(Byte)
  BY <1>1, FrameFields DEF EncodedAs, HeaderLen
<1>5. p \in Seq(Byte) /\ Len(p) = Len(f.payload) /\ \A i \in 1 .. Len(p) : p[i] = e[12 + i]
  BY <1>4, SubSeqProperties DEF HeaderLen
<1>6. p = f.payload
  <2>1. \A i \in 1 .. Len(p) : p[i] = f.payload[i]
    BY <1>1, <1>5 DEF EncodedAs, HeaderLen
  <2> HIDE DEF p
  <2> QED BY <1>4, <1>5, <2>1, SeqEqual
<1>7. Decoded(e) = [frame_type |-> f.frame_type, flags |-> f.flags, stream_id |-> f.stream_id, payload |-> f.payload]
  BY <1>1, <1>3, <1>6 DEF Decoded, EncodedAs
<1> QED BY <1>2, <1>7, FrameFields DEF e
-----------------------------------------------------------------------------
(***************************************************************************)
(* Where the receiver stands. Every frame has its place in the stream, and *)
(* what is left to read is what the frames have there. As long as no call  *)
(* was dropped, the receiver has read the frames it returned and, in buf,  *)
(* a part of the next one, and nothing else.                               *)
(***************************************************************************)
Arriving == end \in {"no", "all"}

PlaceInv ==
    /\ Len(ends) = Len(sent)
    /\ \A j \in 1 .. Len(sent) : ~TooLarge(Len(sent[j].payload)) /\ ends[j] = Start(j) + Len(Encode(sent[j]))
    /\ \A i, j \in 1 .. Len(sent) : i < j => ends[i] <= Start(j)

PipeInv ==
    /\ Arriving => \A j \in 1 .. Len(sent) : \A i \in 1 .. Len(Encode(sent[j])) :
           Start(j) + i > Position => pipe[Start(j) + i - Position] = Encode(sent[j])[i]
    /\ ~Arriving => pipe = <<>>

\* The receiver has returned the first frames, and holds a proper part of the next.
BufInv ==
    /\ Len(got) <= Len(sent)
    /\ Arriving => Position = Start(Len(got) + 1) + Len(buf)
    /\ buf # <<>> =>
          /\ Len(got) < Len(sent)
          /\ BeginsAs(buf, Encode(sent[Len(got) + 1]))
          /\ Len(buf) < Len(Encode(sent[Len(got) + 1]))
    /\ end = "part" => buf # <<>>

ReceiverInv ==
    lost = "nothing" =>
        /\ Len(got) <= Len(sent) /\ \A i \in 1 .. Len(got) : got[i] = sent[i]
        /\ st = "ready" => BufInv
        /\ st = "eof" => end \notin {"no", "part"}

\* recv goes on reading only while there is room.
RoomInv == Len(buf) >= HeaderLen => ~Complete(buf)

AnyFrame == {Decoded(b) : b \in Seq(Byte)}

StreamInv == StreamTypeOK /\ got \in Seq(AnyFrame) /\ RoomInv /\ PlaceInv /\ PipeInv /\ ReceiverInv

\* The initial states satisfy the invariant.
LEMMA InitStream == StreamInit => StreamInv
<1> SUFFICES ASSUME StreamInit PROVE StreamInv
  OBVIOUS
<1>1. /\ sent = <<>> /\ pipe = <<>> /\ end = "no" /\ buf = <<>> /\ got = <<>> /\ st = "ready" /\ ends = <<>>
      /\ lost = "nothing" /\ Len(<<>>) = 0
  BY DEF StreamInit
<1>2. StreamTypeOK /\ got \in Seq(AnyFrame)
  BY <1>1 DEF StreamTypeOK
<1>3. RoomInv
  BY <1>1 DEF RoomInv, HeaderLen
<1>4. PlaceInv
  BY <1>1 DEF PlaceInv
<1>5. PipeInv
  BY <1>1 DEF PipeInv, Arriving
<1>6. Position = 0 /\ Start(1) = 0
  BY <1>1 DEF Position, Start
<1>7. ReceiverInv
  BY <1>1, <1>6 DEF ReceiverInv, BufInv, Arriving
<1> QED BY <1>2, <1>3, <1>4, <1>5, <1>7 DEF StreamInv

\* The places of the frames follow one another.
LEMMA Places ==
    ASSUME StreamInv
    PROVE  /\ Len(sent) \in Nat /\ Len(ends) = Len(sent) /\ Len(pipe) \in Nat
           /\ \A j \in 1 .. Len(sent) + 1 : Start(j) \in Nat
           /\ \A j \in 1 .. Len(sent) :
                 /\ sent[j] \in Frames /\ ~TooLarge(Len(sent[j].payload))
                 /\ EncodedAs(sent[j], Encode(sent[j]))
                 /\ Len(Encode(sent[j])) \in Nat /\ Len(Encode(sent[j])) >= 12
                 /\ ends[j] \in Nat /\ ends[j] = Start(j) + Len(Encode(sent[j]))
                 /\ Start(j + 1) = ends[j] /\ ends[j] <= Start(Len(sent) + 1)
           /\ Position \in Int
<1>t. StreamTypeOK /\ PlaceInv
  BY DEF StreamInv
<1>1. /\ sent \in Seq(Frames) /\ ends \in Seq(Nat) /\ pipe \in Seq(Byte)
      /\ Len(sent) \in Nat /\ Len(ends) = Len(sent) /\ Len(pipe) \in Nat
  BY <1>t, LenProperties DEF StreamTypeOK, PlaceInv, Byte
<1>2. \A j \in 1 .. Len(sent) : sent[j] \in Frames /\ ends[j] \in Nat /\ ~TooLarge(Len(sent[j].payload))
  BY <1>1, <1>t, ElementOfSeq DEF PlaceInv
<1>3. \A j \in 1 .. Len(sent) + 1 : Start(j) \in Nat
  BY <1>1, <1>2 DEF Start
<1>4. ASSUME NEW j \in 1 .. Len(sent)
      PROVE  EncodedAs(sent[j], Encode(sent[j])) /\ Len(Encode(sent[j])) \in Nat /\ Len(Encode(sent[j])) >= 12
  <2>1. EncodedAs(sent[j], Encode(sent[j])) /\ Len(sent[j].payload) \in Nat
    BY <1>2, Encoded, FrameFields
  <2> QED BY <2>1 DEF EncodedAs, HeaderLen
<1>5. \A j \in 1 .. Len(sent) : Start(j + 1) = ends[j] /\ ends[j] = Start(j) + Len(Encode(sent[j]))
  BY <1>1, <1>t DEF Start, PlaceInv
<1>6. ASSUME NEW j \in 1 .. Len(sent) PROVE ends[j] <= Start(Len(sent) + 1)
  <2>1. Len(sent) \in 1 .. Len(sent) /\ Start(Len(sent) + 1) = ends[Len(sent)]
    BY <1>1, <1>5
  <2>2. CASE j = Len(sent)
    BY <2>1, <2>2, <1>2
  <2>3. CASE j < Len(sent)
    <3>1. ends[j] <= Start(Len(sent))
      BY <2>1, <2>3, <1>t DEF PlaceInv
    <3>2. Start(Len(sent)) <= ends[Len(sent)]
      <4>1. Start(Len(sent)) \in Nat
        BY <2>1, <1>1, <1>3
      <4> QED BY <4>1, <2>1, <1>4, <1>5
    <3>3. Start(Len(sent)) \in Nat /\ ends[j] \in Nat /\ ends[Len(sent)] \in Nat
      BY <2>1, <1>1, <1>2, <1>3
    <3> QED BY <3>1, <3>2, <3>3, <2>1
  <2> QED BY <2>2, <2>3, <1>1
<1>7. Position \in Int
  BY <1>1, <1>3 DEF Position
<1> QED BY <1>1, <1>2, <1>3, <1>4, <1>5, <1>6, <1>7

\* A frame that is sent gets the next place; those before it keep theirs, and so does
\* the receiver.
LEMMA SendEffect ==
    ASSUME StreamInv, NEW f \in Frames, Send(f)
    PROVE  /\ sent' \in Seq(Frames) /\ Len(sent') = Len(sent) + 1 /\ sent'[Len(sent) + 1] = f
           /\ ends' \in Seq(Nat) /\ Len(ends') = Len(sent) + 1
           /\ ends'[Len(sent) + 1] = Start(Len(sent) + 1) + Len(Encode(f))
           /\ \A j \in 1 .. Len(sent) : sent'[j] = sent[j] /\ ends'[j] = ends[j]
           /\ JoinOf(pipe, Encode(f), pipe')
           /\ \A j \in 1 .. Len(sent) + 1 : Start(j)' = Start(j)
           /\ Position' = Position
<1> DEFINE n == Len(sent)
           e == Encode(f)
           T == Start(n + 1)
           P == Position
<1>t. StreamTypeOK
  BY DEF StreamInv
<1>1. ~TooLarge(Len(f.payload)) /\ sent' = Append(sent, f) /\ pipe' = pipe \o e /\ ends' = Append(ends, T + Len(e))
  BY DEF Send
<1>2. e \in Seq(Byte) /\ Len(e) \in Nat
  <2>1. EncodedAs(f, e)
    BY <1>1, Encoded
  <2> QED BY <2>1, LenProperties DEF EncodedAs
<1>3. n \in Nat /\ Len(ends) = n /\ Len(pipe) \in Nat /\ T \in Nat /\ P = T - Len(pipe)
  BY Places DEF Position
<1>4. sent \in Seq(Frames) /\ ends \in Seq(Nat) /\ pipe \in Seq(Byte)
  BY <1>t DEF StreamTypeOK, Byte
<1> HIDE DEF n, e, T, P
<1>n. n = Len(sent) /\ P = Position /\ T = Start(n + 1) /\ e = Encode(f)
  BY DEF n, P, T, e
<1>5. /\ sent' \in Seq(Frames) /\ Len(sent') = n + 1 /\ sent'[n + 1] = f
      /\ \A j \in 1 .. n : sent'[j] = sent[j]
  BY <1>1, <1>3, <1>4, <1>n
<1>6. /\ ends' \in Seq(Nat) /\ Len(ends') = n + 1 /\ ends'[n + 1] = T + Len(e)
      /\ \A j \in 1 .. n : ends'[j] = ends[j]
  <2> DEFINE x == T + Len(e)
  <2>1. x \in Nat
    BY <1>2, <1>3
  <2>2. ends' = Append(ends, x)
    BY <1>1
  <2> HIDE DEF x
  <2>3. /\ ends' \in Seq(Nat) /\ Len(ends') = n + 1 /\ ends'[n + 1] = x
        /\ \A j \in 1 .. n : ends'[j] = ends[j]
    BY <2>1, <2>2, <1>3, <1>4, AppendProperties
  <2> QED BY <2>3 DEF x
<1>7. JoinOf(pipe, e, pipe')
  BY <1>1, <1>2, <1>4, Joined
<1>9. \A j \in 1 .. n + 1 : Start(j)' = Start(j)
  BY <1>3, <1>6 DEF Start
<1>10. Position' = P
  <2>1. Position' = ends'[n + 1] - Len(pipe')
    <3>1. Len(sent') + 1 = n + 2 /\ n + 2 # 1 /\ (n + 2) - 1 = n + 1
      BY <1>3, <1>5
    <3>2. Position' = (IF Len(sent') + 1 = 1 THEN 0 ELSE ends'[(Len(sent') + 1) - 1]) - Len(pipe')
      BY DEF Position, Start
    <3> QED BY <3>1, <3>2
  <2>2. Len(pipe') = Len(pipe) + Len(e)
    BY <1>7 DEF JoinOf
  <2> QED BY <2>1, <2>2, <1>2, <1>3, <1>6
<1> QED BY <1>5, <1>6, <1>7, <1>9, <1>10, <1>n

\* Sending preserves the invariant.
LEMMA SendKeeps ==
    ASSUME StreamInv, NEW f \in Frames, Send(f)
    PROVE  StreamInv'
<1> DEFINE n == Len(sent)
           e == Encode(f)
           T == Start(n + 1)
           P == Position
<1>t. StreamTypeOK /\ got \in Seq(AnyFrame) /\ RoomInv /\ PlaceInv /\ PipeInv /\ ReceiverInv
  BY DEF StreamInv
<1>1. end = "no" /\ ~TooLarge(Len(f.payload)) /\ UNCHANGED <<end, buf, got, st, lost>>
  BY DEF Send
<1>2. EncodedAs(f, e) /\ e \in Seq(Byte) /\ Len(e) \in Nat
  <2>1. EncodedAs(f, e)
    BY <1>1, Encoded
  <2> QED BY <2>1, LenProperties DEF EncodedAs
<1>3. /\ n \in Nat /\ Len(ends) = n /\ Len(pipe) \in Nat /\ T \in Nat /\ P \in Int /\ P = T - Len(pipe)
      /\ \A j \in 1 .. n + 1 : Start(j) \in Nat
      /\ \A j \in 1 .. n : /\ Len(Encode(sent[j])) \in Nat /\ ends[j] \in Nat
                           /\ ends[j] = Start(j) + Len(Encode(sent[j])) /\ ends[j] <= T
                           /\ ~TooLarge(Len(sent[j].payload))
  BY Places DEF Position
<1>4. /\ sent' \in Seq(Frames) /\ Len(sent') = n + 1 /\ sent'[n + 1] = f
      /\ ends' \in Seq(Nat) /\ Len(ends') = n + 1 /\ ends'[n + 1] = T + Len(e)
      /\ \A j \in 1 .. n : sent'[j] = sent[j] /\ ends'[j] = ends[j]
      /\ JoinOf(pipe, e, pipe')
      /\ \A j \in 1 .. n + 1 : Start(j)' = Start(j)
      /\ Position' = P
  BY SendEffect
<1> HIDE DEF n, e, T, P
<1>n. n = Len(sent) /\ P = Position /\ T = Start(n + 1)
  BY DEF n, P, T
<1>5. /\ sent' \in Seq(Frames) /\ Len(sent') = n + 1 /\ sent'[n + 1] = f
      /\ \A j \in 1 .. n : sent'[j] = sent[j]
  BY <1>4
<1>6. /\ ends' \in Seq(Nat) /\ Len(ends') = n + 1 /\ ends'[n + 1] = T + Len(e)
      /\ \A j \in 1 .. n : ends'[j] = ends[j]
  BY <1>4
<1>8. /\ pipe' \in Seq(Byte) /\ Len(pipe') = Len(pipe) + Len(e)
      /\ \A i \in 1 .. Len(pipe) : pipe'[i] = pipe[i]
      /\ \A i \in 1 .. Len(e) : pipe'[Len(pipe) + i] = e[i]
  BY <1>4 DEF JoinOf
<1>9. \A j \in 1 .. n + 1 : Start(j)' = Start(j)
  BY <1>4
<1>10. Position' = P
  BY <1>4
<1>11. StreamTypeOK'
  BY <1>1, <1>5, <1>6, <1>8, <1>t DEF StreamTypeOK, Byte
<1>12. PlaceInv'
  <2>1. ASSUME NEW j \in 1 .. n + 1
        PROVE  ~TooLarge(Len(sent'[j].payload)) /\ ends'[j] = Start(j)' + Len(Encode(sent'[j]))
    <3>1. CASE j = n + 1
      BY <3>1, <1>1, <1>3, <1>5, <1>6, <1>9, <1>n DEF e
    <3>2. CASE j \in 1 .. n
      BY <3>2, <1>3, <1>5, <1>6, <1>9
    <3> QED BY <3>1, <3>2, <1>3
  <2>2. ASSUME NEW i \in 1 .. n + 1, NEW j \in 1 .. n + 1, i < j PROVE ends'[i] <= Start(j)'
    <3>1. i \in 1 .. n /\ ends'[i] = ends[i] /\ Start(j)' = Start(j)
      BY <2>2, <1>3, <1>6, <1>9
    <3>2. CASE j = n + 1
      BY <3>1, <3>2, <1>3, <1>n
    <3>3. CASE j \in 1 .. n
      BY <3>1, <3>3, <2>2, <1>t, <1>n DEF PlaceInv
    <3> QED BY <3>2, <3>3, <1>3
  <2>3. /\ Len(ends)' = Len(sent)'
        /\ \A j \in 1 .. Len(sent)' : ~TooLarge(Len(sent'[j].payload)) /\ ends'[j] = Start(j)' + Len(Encode(sent'[j]))
        /\ \A i, j \in 1 .. Len(sent)' : i < j => ends'[i] <= Start(j)'
    BY <2>1, <2>2, <1>5, <1>6
  <2> QED BY <2>3 DEF PlaceInv, TooLarge, Encode
<1>13. PipeInv'
  <2>1. ASSUME NEW j \in 1 .. n + 1, NEW i \in 1 .. Len(Encode(sent'[j])), Start(j) + i > P
        PROVE  pipe'[Start(j) + i - P] = Encode(sent'[j])[i]
    <3>1. CASE j = n + 1
      <4>1. Encode(sent'[j]) = e /\ Start(j) = T
        BY <3>1, <1>5, <1>n DEF e
      <4>2. i \in 1 .. Len(e) /\ Start(j) + i - P = Len(pipe) + i
        BY <4>1, <1>2, <1>3
      <4> QED BY <4>1, <4>2, <1>8
    <3>2. CASE j \in 1 .. n
      <4>1. sent'[j] = sent[j] /\ Len(Encode(sent[j])) \in Nat /\ Start(j) \in Nat
        BY <3>2, <1>3, <1>5
      <4>2. Start(j) + i <= T
        BY <3>2, <4>1, <1>3
      <4>3. Start(j) + i - P \in 1 .. Len(pipe)
        BY <4>1, <4>2, <2>1, <1>3
      <4>4. pipe[Start(j) + i - P] = Encode(sent[j])[i]
        BY <3>2, <4>1, <2>1, <1>1, <1>t, <1>n DEF PipeInv, Arriving
      <4> QED BY <4>1, <4>3, <4>4, <1>8
    <3> QED BY <3>1, <3>2, <1>3
  <2>2. Arriving'
    BY <1>1 DEF Arriving
  <2>3. \A j \in 1 .. Len(sent)' : \A i \in 1 .. Len(Encode(sent'[j])) :
           Start(j)' + i > Position' => pipe'[Start(j)' + i - Position'] = Encode(sent'[j])[i]
    BY <2>1, <1>5, <1>9, <1>10
  <2> QED BY <2>2, <2>3 DEF PipeInv, Encode
<1>14. ReceiverInv'
  <2>1. Len(got) \in Nat
    BY <1>t, LenProperties
  <2> SUFFICES ASSUME lost = "nothing"
               PROVE  /\ Len(got) <= Len(sent') /\ \A i \in 1 .. Len(got) : got[i] = sent'[i]
                      /\ st = "ready" => BufInv'
                      /\ st = "eof" => end \notin {"no", "part"}
    BY <1>1 DEF ReceiverInv
  <2>2. /\ Len(got) <= n /\ \A i \in 1 .. Len(got) : got[i] = sent[i]
        /\ st = "ready" => BufInv
        /\ st = "eof" => end \notin {"no", "part"}
    BY <1>t, <1>n DEF ReceiverInv
  <2>3. Len(got) <= Len(sent') /\ \A i \in 1 .. Len(got) : got[i] = sent'[i]
    <3>1. \A i \in 1 .. Len(got) : i \in 1 .. n
      BY <2>1, <2>2, <1>3
    <3>2. Len(got) <= n + 1
      BY <2>1, <2>2, <1>3
    <3> QED BY <3>1, <3>2, <2>2, <1>5
  <2>4. ASSUME BufInv PROVE BufInv'
    <3>1. Start(Len(got) + 1)' = Start(Len(got) + 1)
      BY <2>1, <2>2, <1>1, <1>3, <1>6 DEF Start
    <3>2. Len(got) < n => sent'[Len(got) + 1] = sent[Len(got) + 1]
      <4>1. Len(got) < n => Len(got) + 1 \in 1 .. n
        BY <2>1, <1>3
      <4> QED BY <4>1, <1>5
    <3>4. Len(got) < n => Len(got) < Len(sent')
      BY <2>1, <1>3, <1>5
    <3>3. /\ Len(got) <= Len(sent')
          /\ Position' = Start(Len(got) + 1) + Len(buf)
          /\ buf # <<>> =>
                /\ Len(got) < Len(sent')
                /\ BeginsAs(buf, Encode(sent'[Len(got) + 1]))
                /\ Len(buf) < Len(Encode(sent'[Len(got) + 1]))
      <4>1. Arriving
        BY <1>1 DEF Arriving
      <4> QED BY <2>3, <2>4, <3>2, <3>4, <4>1, <1>10, <1>n DEF BufInv
    <3> QED BY <3>1, <3>3, <1>1 DEF BufInv, BeginsAs, Encode
  <2> QED BY <2>2, <2>3, <2>4
<1>15. got' \in Seq(AnyFrame) /\ RoomInv'
  BY <1>1, <1>t DEF RoomInv, Complete, PayloadLen, from_le_bytes
<1> QED BY <1>11, <1>12, <1>13, <1>14, <1>15 DEF StreamInv

\* What is left to read does not depend on the receiver.
LEMMA PipeStays ==
    ASSUME PipeInv, UNCHANGED <<sent, pipe, ends>>, Arriving' <=> Arriving
    PROVE  PipeInv'
<1>1. Position' = Position /\ (\A j : Start(j)' = Start(j))
  BY DEF Position, Start
<1>2. Arriving => \A j \in 1 .. Len(sent') : \A i \in 1 .. Len(Encode(sent'[j])) :
         Start(j)' + i > Position' => pipe'[Start(j)' + i - Position'] = Encode(sent'[j])[i]
  BY <1>1 DEF PipeInv
<1>3. ~Arriving => pipe' = <<>>
  BY DEF PipeInv
<1> QED BY <1>2, <1>3 DEF PipeInv, Encode

\* The sender ends the stream after its last frame.
LEMMA CloseKeeps ==
    ASSUME StreamInv, end = "no", end' = "all", UNCHANGED <<sent, pipe, buf, got, st, ends, lost>>
    PROVE  StreamInv'
<1>t. StreamTypeOK /\ got \in Seq(AnyFrame) /\ RoomInv /\ PlaceInv /\ PipeInv /\ ReceiverInv
  BY DEF StreamInv
<1>1. StreamTypeOK' /\ got' \in Seq(AnyFrame) /\ RoomInv'
  BY <1>t DEF StreamTypeOK, RoomInv, Complete, PayloadLen, from_le_bytes
<1>2. PlaceInv'
  BY <1>t DEF PlaceInv, Start, TooLarge, Encode
<1>3. PipeInv'
  BY <1>t, PipeStays DEF Arriving
<1>4. ReceiverInv'
  BY <1>t DEF ReceiverInv, BufInv, Arriving, Position, Start, BeginsAs, Encode
<1> QED BY <1>1, <1>2, <1>3, <1>4 DEF StreamInv

\* The sender is gone: if the receiver was between two frames, it was not in one.
LEMMA GoneKeeps ==
    ASSUME StreamInv, Gone
    PROVE  StreamInv'
<1>t. StreamTypeOK /\ got \in Seq(AnyFrame) /\ RoomInv /\ PlaceInv /\ PipeInv /\ ReceiverInv
  BY DEF StreamInv
<1>1. /\ end = "no" /\ pipe' = <<>> /\ end' = (IF Middle = {} THEN "whole" ELSE "part")
      /\ UNCHANGED <<sent, buf, got, st, ends, lost>>
  BY DEF Gone
<1>2. StreamTypeOK' /\ got' \in Seq(AnyFrame) /\ RoomInv'
  BY <1>1, <1>t DEF StreamTypeOK, RoomInv, Complete, PayloadLen, from_le_bytes
<1>3. PlaceInv'
  BY <1>1, <1>t DEF PlaceInv, Start, TooLarge, Encode
<1>4. PipeInv' /\ ~Arriving'
  BY <1>1 DEF PipeInv, Arriving
<1>5. ASSUME lost = "nothing", st = "ready", BufInv, buf = <<>> PROVE Middle = {}
  <2> DEFINE k == Len(got)
  <2>1. k \in Nat /\ k <= Len(sent) /\ Len(buf) = 0
    BY <1>5, <1>t, LenProperties DEF BufInv
  <2>2. Position = Start(k + 1)
    <3>1. Position = Start(k + 1) + 0 /\ Start(k + 1) \in Nat
      BY <1>1, <1>5, <2>1, Places DEF BufInv, Arriving
    <3> QED BY <3>1
  <2> HIDE DEF k
  <2>3. ASSUME NEW j \in 1 .. Len(sent), Start(j) < Position, Position < ends[j] PROVE FALSE
    <3>1. /\ Len(sent) \in Nat /\ Start(j) \in Nat /\ ends[j] \in Nat /\ ends[j] <= Start(Len(sent) + 1)
          /\ Start(k + 1) \in Nat
      BY <2>1, Places
    <3>2. CASE j < k + 1
      <4>1. CASE k = Len(sent)
        BY <4>1, <3>1, <2>2, <2>3
      <4>2. CASE k < Len(sent)
        <5>1. k + 1 \in 1 .. Len(sent)
          BY <4>2, <2>1, <3>1
        <5>2. ends[j] <= Start(k + 1)
          BY <5>1, <3>2, <1>t DEF PlaceInv
        <5> QED BY <5>2, <3>1, <2>2, <2>3
      <4> QED BY <4>1, <4>2, <2>1, <3>1
    <3>3. CASE k + 1 = j
      BY <3>1, <3>3, <2>2, <2>3
    <3>4. CASE k + 1 < j
      <4>1. k + 1 \in 1 .. Len(sent)
        BY <3>1, <3>4, <2>1
      <4>2. ends[k + 1] <= Start(j) /\ ends[k + 1] \in Nat /\ Start(k + 1) <= ends[k + 1]
        <5>1. ends[k + 1] <= Start(j)
          BY <4>1, <3>4, <1>t DEF PlaceInv
        <5>2. /\ ends[k + 1] \in Nat /\ ends[k + 1] = Start(k + 1) + Len(Encode(sent[k + 1]))
              /\ Len(Encode(sent[k + 1])) \in Nat
          BY <4>1, Places
        <5> QED BY <5>1, <5>2, <3>1
      <4> QED BY <4>2, <3>1, <2>2, <2>3
    <3> QED BY <3>2, <3>3, <3>4, <3>1, <2>1
  <2>4. DOMAIN sent = 1 .. Len(sent)
    BY <1>t, LenProperties DEF StreamTypeOK
  <2> QED BY <2>3, <2>4 DEF Middle
<1>6. ReceiverInv'
  <2> SUFFICES ASSUME lost = "nothing"
               PROVE  /\ Len(got) <= Len(sent) /\ \A i \in 1 .. Len(got) : got[i] = sent[i]
                      /\ st = "ready" => BufInv'
                      /\ st = "eof" => end' \notin {"no", "part"}
    BY <1>1 DEF ReceiverInv
  <2>1. /\ Len(got) <= Len(sent) /\ \A i \in 1 .. Len(got) : got[i] = sent[i]
        /\ st = "ready" => BufInv
        /\ st # "eof"
    BY <1>1, <1>t DEF ReceiverInv
  <2>2. ASSUME st = "ready" PROVE BufInv'
    <3>1. BufInv /\ (end' = "part" => buf # <<>>)
      BY <2>1, <2>2, <1>1, <1>5
    <3>2. /\ Len(got) <= Len(sent)
          /\ buf # <<>> =>
                /\ Len(got) < Len(sent)
                /\ BeginsAs(buf, Encode(sent[Len(got) + 1]))
                /\ Len(buf) < Len(Encode(sent[Len(got) + 1]))
      BY <3>1 DEF BufInv
    <3> QED BY <3>1, <3>2, <1>1, <1>4 DEF BufInv, BeginsAs, Encode
  <2> QED BY <2>1, <2>2
<1> QED BY <1>2, <1>3, <1>4, <1>6 DEF StreamInv

\* A header tells a number.
LEMMA PayloadLenNat ==
    ASSUME NEW b \in Seq(Byte), Len(b) >= HeaderLen
    PROVE  PayloadLen(b) \in Nat
<1>1. Len(b) \in Nat /\ Len(b) >= 12
  BY LenProperties DEF HeaderLen
<1>2. 9 \in 1 .. Len(b) /\ 10 \in 1 .. Len(b) /\ 11 \in 1 .. Len(b) /\ 12 \in 1 .. Len(b)
  BY <1>1
<1>3. b[9] \in Byte /\ b[10] \in Byte /\ b[11] \in Byte /\ b[12] \in Byte
  BY <1>2, ElementOfSeq
<1>4. \A w, x, y, z \in Byte : w + 256 * (x + 256 * (y + 256 * z)) \in Nat
  BY DEF Byte
<1>5. b[9] + 256 * (b[10] + 256 * (b[11] + 256 * b[12])) \in Nat
  <2> DEFINE w == b[9]
             x == b[10]
             y == b[11]
             z == b[12]
  <2>1. w \in Byte /\ x \in Byte /\ y \in Byte /\ z \in Byte
    BY <1>3
  <2> HIDE DEF w, x, y, z
  <2>2. w + 256 * (x + 256 * (y + 256 * z)) \in Nat
    BY <2>1, <1>4
  <2> QED BY <2>2 DEF w, x, y, z
<1>6. PayloadLen(b) = IF b[12] >= 32 THEN Huge ELSE b[9] + 256 * (b[10] + 256 * (b[11] + 256 * b[12]))
  BY DEF PayloadLen, from_le_bytes
<1> QED BY <1>5, <1>6, HugeNumber

(* The n next bytes are read, and recv has b then. *)
Reads(n, b) ==
    /\ n <= Len(pipe) /\ n <= Room /\ b \in Seq(Byte) /\ Len(b) = Len(buf) + n
    /\ \A i \in 1 .. Len(buf) : b[i] = buf[i]
    /\ \A i \in 1 .. n : b[Len(buf) + i] = pipe[i]
    /\ pipe' \in Seq(Byte) /\ Len(pipe') = Len(pipe) - n
    /\ \A i \in 1 .. Len(pipe) - n : pipe'[i] = pipe[n + i]

\* A read never takes more than recv has room for, and there is room.
LEMMA ReadSome ==
    ASSUME StreamInv, NEW p \in Pieces, Recv(p)
    PROVE  \E n \in Nat, b \in Seq(Byte) : Reads(n, b) /\ Received(b)
<1> DEFINE n == Min2(p, Min2(Len(pipe), Room))
           s == SubSeq(pipe, 1, n)
           b == buf \o s
<1>1. /\ pipe \in Seq(Byte) /\ buf \in Seq(Byte) /\ Len(pipe) \in Nat /\ Len(buf) \in Nat /\ RoomInv
  BY LenProperties DEF StreamInv, StreamTypeOK, Byte
<1>2. Room \in Nat
  <2>1. CASE Len(buf) < HeaderLen
    BY <2>1, <1>1 DEF Room, HeaderLen
  <2>2. CASE Len(buf) >= HeaderLen
    <3>1. PayloadLen(buf) \in Nat
      BY <2>2, <1>1, PayloadLenNat
    <3>2. ~(Len(buf) >= HeaderLen + PayloadLen(buf)) /\ ~(Len(buf) < HeaderLen)
      BY <2>2, <1>1 DEF RoomInv, Complete, HeaderLen
    <3> QED BY <3>1, <3>2, <1>1 DEF Room, HeaderLen
  <2> QED BY <2>1, <2>2, <1>1 DEF HeaderLen
<1>3. p \in Nat
  BY FrameAssumption
<1> HIDE FrameAssumption
<1>4. n \in Nat /\ n <= Len(pipe) /\ n <= Room
  BY <1>1, <1>2, <1>3 DEF Min2
<1>5. pipe' = SubSeq(pipe, n + 1, Len(pipe)) /\ Received(b)
  BY DEF Recv
<1> HIDE DEF n
<1>6. s \in Seq(Byte) /\ Len(s) = n /\ \A i \in 1 .. n : s[i] = pipe[i]
  <2>1. 1 \in 1 .. Len(pipe) + 1 /\ n \in 0 .. Len(pipe)
    BY <1>1, <1>4
  <2> QED BY <2>1, <1>1, <1>4, SubSeqProperties
<1>7. /\ pipe' \in Seq(Byte) /\ Len(pipe') = Len(pipe) - n
      /\ \A i \in 1 .. Len(pipe) - n : pipe'[i] = pipe[n + i]
  <2>1. n + 1 \in 1 .. Len(pipe) + 1 /\ Len(pipe) \in n .. Len(pipe)
    BY <1>1, <1>4
  <2> QED BY <2>1, <1>1, <1>4, <1>5, SubSeqProperties
<1> HIDE DEF s
<1>8. JoinOf(buf, s, b)
  BY <1>1, <1>6, Joined
<1> HIDE DEF b
<1>9. Reads(n, b)
  BY <1>4, <1>6, <1>7, <1>8 DEF Reads, JoinOf
<1>10. b \in Seq(Byte)
  BY <1>8 DEF JoinOf
<1> QED BY <1>4, <1>5, <1>9, <1>10

(* The call of recv that is under way began with the k-th frame, and has a proper part *)
(* of it. *)
AtFrame(k) ==
    /\ Position = Start(k) + Len(buf)
    /\ buf # <<>> =>
          /\ k <= Len(sent)
          /\ BeginsAs(buf, Encode(sent[k]))
          /\ Len(buf) < Len(Encode(sent[k]))

\* What such a call has after the next read is still the beginning of the frame.
LEMMA ReadsNext ==
    ASSUME StreamInv, pipe # <<>>, NEW n \in Nat, NEW b \in Seq(Byte), Reads(n, b),
           NEW k \in 1 .. Len(sent) + 1, AtFrame(k)
    PROVE  k \in 1 .. Len(sent) /\ BeginsAs(b, Encode(sent[k]))
<1> DEFINE f == sent[k]
           e == Encode(f)
<1>t. StreamTypeOK /\ PlaceInv /\ PipeInv
  BY DEF StreamInv
<1>1. /\ Len(sent) \in Nat /\ Len(pipe) \in Nat /\ Len(pipe) > 0
      /\ buf \in Seq(Byte) /\ Len(buf) \in Nat /\ Arriving
  <2>1. pipe \in Seq(Byte) /\ buf \in Seq(Byte)
    BY <1>t DEF StreamTypeOK, Byte
  <2>2. Len(pipe) \in Nat /\ Len(buf) \in Nat /\ Len(sent) \in Nat
    BY <2>1, <1>t, Places, LenProperties
  <2>3. Len(pipe) # 0
    BY <2>1, EmptySeq
  <2>4. Arriving
    BY <1>t DEF PipeInv
  <2> QED BY <2>1, <2>2, <2>3, <2>4
<1>2. /\ Position = Start(k) + Len(buf) /\ Position = Start(Len(sent) + 1) - Len(pipe)
      /\ Start(k) \in Nat /\ Start(Len(sent) + 1) \in Nat
  <2>1. Len(sent) + 1 \in 1 .. Len(sent) + 1
    BY <1>1
  <2> QED BY <2>1, Places DEF AtFrame, Position
<1>3. k # Len(sent) + 1
  BY <1>1, <1>2
<1>4. k \in 1 .. Len(sent)
  BY <1>1, <1>3
<1>5. f \in Frames /\ ~TooLarge(Len(f.payload)) /\ EncodedAs(f, e) /\ Len(e) \in Nat /\ Len(e) >= 12
  BY <1>4, Places
<1>6. BeginsAs(buf, e) /\ Len(buf) < Len(e)
  <2>1. CASE buf = <<>>
    <3>1. Len(buf) = 0
      BY <2>1
    <3> QED BY <3>1, <1>1, <1>5 DEF BeginsAs
  <2>2. CASE buf # <<>>
    BY <2>2 DEF AtFrame
  <2> QED BY <2>1, <2>2
<1> HIDE DEF f
<1>7. Len(buf) + n <= Len(e)
  <2>1. n <= Room /\ Len(f.payload) \in Nat /\ Len(e) = HeaderLen + Len(f.payload)
    BY <1>5, FrameFields DEF Reads, EncodedAs
  <2>2. CASE Len(buf) < HeaderLen
    BY <2>1, <2>2, <1>1, <1>5 DEF Room, HeaderLen
  <2>3. CASE Len(buf) >= HeaderLen
    <3>1. PayloadLen(buf) = Len(f.payload)
      BY <2>3, <1>5, <1>6, HeaderRead
    <3>2. ~(Len(buf) < HeaderLen)
      BY <2>3, <1>1 DEF HeaderLen
    <3>3. Room = HeaderLen + Len(f.payload) - Len(buf)
      BY <3>1, <3>2 DEF Room
    <3> QED BY <3>3, <2>1, <1>1 DEF HeaderLen
  <2> QED BY <2>2, <2>3, <1>1 DEF HeaderLen
<1> HIDE DEF e
<1>8. ASSUME NEW i \in 1 .. Len(b) PROVE b[i] = e[i]
  <2>1. Len(b) = Len(buf) + n
    BY DEF Reads
  <2>2. CASE i <= Len(buf)
    <3>1. i \in 1 .. Len(buf)
      BY <2>1, <2>2, <1>1
    <3> QED BY <3>1, <1>6 DEF Reads, BeginsAs
  <2>3. CASE i > Len(buf)
    <3> DEFINE m == i - Len(buf)
    <3>1. m \in 1 .. n /\ Len(buf) + m = i
      BY <2>1, <2>3, <1>1
    <3>2. b[i] = pipe[m]
      BY <3>1 DEF Reads
    <3>3. i \in 1 .. Len(e)
      BY <2>1, <1>1, <1>5, <1>7
    <3>4. Start(k) + i > Position /\ Start(k) + i - Position = m
      BY <2>3, <1>1, <1>2, <2>1
    <3>5. pipe[Start(k) + i - Position] = e[i]
      BY <3>3, <3>4, <1>1, <1>4, <1>t DEF PipeInv, e, f
    <3> QED BY <3>2, <3>4, <3>5
  <2> QED BY <2>2, <2>3, <2>1, <1>1
<1>9. BeginsAs(b, e)
  BY <1>7, <1>8 DEF BeginsAs, Reads
<1> QED BY <1>4, <1>9 DEF e, f

\* recv goes on with a frame of which it has a part, and returns the one it has.
LEMMA Outcome ==
    ASSUME NEW f \in Frames, ~TooLarge(Len(f.payload)), NEW b \in Seq(Byte), BeginsAs(b, Encode(f)), Received(b)
    PROVE  \/ Len(b) < Len(Encode(f)) /\ buf' = b /\ UNCHANGED <<got, st>>
           \/ Len(b) = Len(Encode(f)) /\ buf' = <<>> /\ got' = Append(got, f) /\ UNCHANGED st
<1> DEFINE e == Encode(f)
<1>1. EncodedAs(f, e) /\ Len(f.payload) \in Nat /\ Len(b) \in Nat
  BY Encoded, FrameFields, LenProperties
<1>2. Len(b) >= HeaderLen => PayloadLen(b) = Len(f.payload) /\ ~BadHeader(b)
  BY HeaderRead
<1>3. Decodable(e) /\ Decoded(e) = f
  BY DecodesEncoded
<1>4. Len(b) <= Len(e) /\ \A i \in 1 .. Len(b) : b[i] = e[i]
  BY DEF BeginsAs
<1> HIDE DEF e
<1>5. Len(e) = 12 + Len(f.payload) /\ Len(e) \in Nat /\ e \in Seq(Byte)
  BY <1>1 DEF EncodedAs, HeaderLen
<1>6. CASE Len(b) < HeaderLen
  <2>1. Len(b) < Len(e) /\ ~(Len(b) >= HeaderLen)
    BY <1>1, <1>5, <1>6 DEF HeaderLen
  <2> QED BY <2>1 DEF Received, e
<1>7. CASE Len(b) >= HeaderLen /\ ~Complete(b)
  <2>1. Len(b) < Len(e) /\ ~(Len(b) < HeaderLen)
    BY <1>1, <1>2, <1>5, <1>7 DEF HeaderLen, Complete
  <2> QED BY <2>1, <1>2, <1>7 DEF Received, e
<1>8. CASE Len(b) >= HeaderLen /\ Complete(b)
  <2>1. Len(b) = Len(e) /\ ~(Len(b) < HeaderLen)
    BY <1>1, <1>2, <1>4, <1>5, <1>8 DEF HeaderLen, Complete
  <2>2. b = e
    BY <2>1, <1>4, <1>5, SeqEqual
  <2> QED BY <2>1, <2>2, <1>2, <1>3, <1>8 DEF Received, e
<1> QED BY <1>6, <1>7, <1>8, <1>1 DEF HeaderLen

\* A read preserves the invariant: it continues the frame, or completes it.
LEMMA RecvKeeps ==
    ASSUME StreamInv, NEW p \in Pieces, Recv(p)
    PROVE  StreamInv'
<1>t. StreamTypeOK /\ got \in Seq(AnyFrame) /\ RoomInv /\ PlaceInv /\ PipeInv /\ ReceiverInv
  BY DEF StreamInv
<1>1. st = "ready" /\ pipe # <<>> /\ UNCHANGED <<sent, end, ends, lost>>
  BY DEF Recv
<1>2. PICK n \in Nat, b \in Seq(Byte) : Reads(n, b) /\ Received(b)
  BY ReadSome
<1>3. Len(got) \in Nat /\ Len(sent) \in Nat /\ Len(pipe) \in Nat /\ Arriving
  BY <1>1, <1>t, Places, LenProperties DEF PipeInv
<1>4. /\ pipe' \in Seq(Byte) /\ Len(pipe') = Len(pipe) - n /\ n <= Len(pipe)
      /\ \A i \in 1 .. Len(pipe) - n : pipe'[i] = pipe[n + i]
      /\ Len(b) = Len(buf) + n
  BY <1>2 DEF Reads
<1>5. (\A j : Start(j)' = Start(j)) /\ Position' = Position + n /\ Arriving'
  <2>1. \A j : Start(j)' = Start(j)
    BY <1>1 DEF Start
  <2>2. Arriving'
    BY <1>1, <1>3 DEF Arriving
  <2>3. Position' = Start(Len(sent) + 1) - Len(pipe')
    BY <1>1 DEF Position, Start
  <2>4. Position = Start(Len(sent) + 1) - Len(pipe) /\ Start(Len(sent) + 1) \in Nat
    <3>1. Len(sent) + 1 \in 1 .. Len(sent) + 1
      BY <1>3
    <3> QED BY <3>1, Places DEF Position
  <2>5. Position' = Position + n
    BY <2>3, <2>4, <1>3, <1>4
  <2> QED BY <2>1, <2>2, <2>5
<1>6. /\ buf' \in Seq(Byte) /\ st' \in {"ready", "error"} /\ got' \in Seq(AnyFrame)
  <2>1. Decoded(b) \in AnyFrame
    BY DEF AnyFrame
  <2>2. <<>> \in Seq(Byte)
    OBVIOUS
  <2>3. Append(got, Decoded(b)) \in Seq(AnyFrame)
    BY <2>1, <1>t
  <2> QED BY <2>2, <2>3, <1>1, <1>2, <1>t DEF Received
<1>7. StreamTypeOK'
  BY <1>1, <1>4, <1>6, <1>t DEF StreamTypeOK, Byte
<1>8. RoomInv'
  <2>1. CASE buf' = b /\ Len(b) < HeaderLen
    <3>1. ~(Len(buf') >= HeaderLen)
      BY <2>1, LenProperties DEF HeaderLen
    <3> QED BY <3>1 DEF RoomInv
  <2>2. CASE buf' = b /\ ~Complete(b)
    BY <2>2 DEF RoomInv, Complete, PayloadLen, from_le_bytes
  <2>3. CASE buf' = <<>>
    BY <2>3 DEF RoomInv, HeaderLen
  <2> QED BY <2>1, <2>2, <2>3, <1>2 DEF Received
<1>9. PlaceInv'
  BY <1>1, <1>t DEF PlaceInv, Start, TooLarge, Encode
<1>10. PipeInv'
  <2>1. ASSUME NEW j \in 1 .. Len(sent), NEW i \in 1 .. Len(Encode(sent[j])), Start(j) + i > Position + n
        PROVE  pipe'[Start(j) + i - (Position + n)] = Encode(sent[j])[i]
    <3>1. /\ Start(j) \in Nat /\ Position \in Int /\ Len(Encode(sent[j])) \in Nat
          /\ ends[j] = Start(j) + Len(Encode(sent[j])) /\ ends[j] <= Start(Len(sent) + 1)
          /\ Start(Len(sent) + 1) \in Nat /\ Position = Start(Len(sent) + 1) - Len(pipe)
      <4>1. j \in 1 .. Len(sent) + 1 /\ Len(sent) + 1 \in 1 .. Len(sent) + 1
        BY <1>3
      <4> QED BY <4>1, Places DEF Position
    <3> DEFINE m == Start(j) + i - (Position + n)
    <3>5. i \in Nat /\ Start(j) + i <= Start(Len(sent) + 1)
      BY <3>1
    <3>6. Start(j) + i > Position + n
      BY <2>1
    <3>2. m \in 1 .. Len(pipe) - n /\ n + m = Start(j) + i - Position /\ Start(j) + i > Position
      <4>1. \A x, y, t, l \in Int : x + i > y + n /\ x + i <= t /\ y = t - l =>
               /\ x + i - (y + n) \in 1 .. l - n
               /\ n + (x + i - (y + n)) = x + i - y /\ x + i > y
        BY <3>5
      <4>2. Start(j) \in Int /\ Start(Len(sent) + 1) \in Int /\ Len(pipe) \in Int
        BY <3>1, <1>3
      <4> QED BY <4>1, <4>2, <3>1, <3>5, <3>6
    <3>3. pipe[Start(j) + i - Position] = Encode(sent[j])[i]
      BY <3>2, <1>3, <1>t DEF PipeInv
    <3> HIDE DEF m
    <3>4. pipe'[m] = Encode(sent[j])[i]
      BY <3>2, <3>3, <1>4
    <3> QED BY <3>4 DEF m
  <2>2. \A j \in 1 .. Len(sent') : \A i \in 1 .. Len(Encode(sent'[j])) :
           Start(j)' + i > Position' => pipe'[Start(j)' + i - Position'] = Encode(sent'[j])[i]
    BY <2>1, <1>1, <1>5
  <2> QED BY <2>2, <1>5 DEF PipeInv, Encode
<1>11. ASSUME lost = "nothing"
       PROVE  /\ Len(got') <= Len(sent) /\ \A i \in 1 .. Len(got') : got'[i] = sent[i]
              /\ st' = "ready" /\ BufInv'
  <2> DEFINE k == Len(got)
             f == sent[k + 1]
             e == Encode(f)
  <2>0. BufInv /\ k <= Len(sent) /\ \A i \in 1 .. k : got[i] = sent[i]
    BY <1>1, <1>11, <1>t DEF ReceiverInv
  <2>1. k \in Nat /\ k < Len(sent) /\ Position = Start(k + 1) + Len(buf) /\ BeginsAs(b, e)
    <3>1. k + 1 \in 1 .. Len(sent) + 1
      BY <2>0, <1>3
    <3>2. Position = Start(k + 1) + Len(buf)
      BY <2>0, <1>3 DEF BufInv
    <3>3. buf # <<>> => k + 1 <= Len(sent)
      BY <2>0, <1>3 DEF BufInv
    <3>4. AtFrame(k + 1)
      BY <2>0, <3>2, <3>3 DEF BufInv, AtFrame
    <3>5. k + 1 \in 1 .. Len(sent) /\ BeginsAs(b, Encode(sent[k + 1]))
      BY <3>1, <3>4, <1>1, <1>2, ReadsNext
    <3> QED BY <3>2, <3>5, <1>3
  <2>2. /\ f \in Frames /\ ~TooLarge(Len(f.payload)) /\ EncodedAs(f, e) /\ Len(e) \in Nat /\ Len(e) >= 12
        /\ Start(k + 1) \in Nat /\ Start((k + 1) + 1) = Start(k + 1) + Len(e)
    <3>1. k + 1 \in 1 .. Len(sent) /\ k + 1 \in 1 .. Len(sent) + 1
      BY <2>1, <1>3
    <3> QED BY <3>1, Places
  <2>3. Position' = Start(k + 1) + Len(b)
    <3>1. Len(buf) \in Nat /\ Len(b) \in Nat
      BY <1>t, LenProperties DEF StreamTypeOK
    <3> QED BY <3>1, <2>1, <2>2, <1>4, <1>5
  <2>4. \/ Len(b) < Len(e) /\ buf' = b /\ UNCHANGED <<got, st>>
        \/ Len(b) = Len(e) /\ buf' = <<>> /\ got' = Append(got, f) /\ UNCHANGED st
    BY <2>1, <2>2, <1>2, Outcome
  <2> HIDE DEF k, f, e
  <2>k. k = Len(got) /\ f = sent[k + 1] /\ e = Encode(sent[k + 1])
    BY DEF k, f, e
  <2>6. CASE Len(b) < Len(e) /\ buf' = b /\ UNCHANGED <<got, st>>
    <3>1. Start(Len(got) + 1)' = Start(k + 1)
      BY <2>6, <2>k, <1>1 DEF Start
    <3>2. Position' = Start(Len(got) + 1)' + Len(buf')
      BY <3>1, <2>3, <2>6
    <3>3. Len(got') <= Len(sent') /\ Len(got') < Len(sent') /\ end' # "part"
      BY <2>0, <2>1, <2>6, <2>k, <1>1, <1>3 DEF Arriving
    <3>4. BeginsAs(buf', Encode(sent'[Len(got') + 1])) /\ Len(buf') < Len(Encode(sent'[Len(got') + 1]))
      BY <2>1, <2>6, <2>k, <1>1
    <3>5. BufInv'
      BY <3>2, <3>3, <3>4 DEF BufInv, BeginsAs, Encode
    <3> QED BY <3>5, <2>0, <2>6, <2>k, <1>1
  <2>7. CASE Len(b) = Len(e) /\ buf' = <<>> /\ got' = Append(got, f) /\ UNCHANGED st
    <3>1. /\ Len(got') = k + 1 /\ got'[k + 1] = f
          /\ \A i \in 1 .. k : got'[i] = got[i]
      BY <2>1, <2>7, <2>k, <1>t
    <3>2. \A i \in 1 .. Len(got') : got'[i] = sent[i]
      <4>1. \A i \in 1 .. k + 1 : i \in 1 .. k \/ i = k + 1
        BY <2>1
      <4> QED BY <4>1, <3>1, <2>0, <2>k
    <3>3. Len(got') <= Len(sent) /\ Len(got') <= Len(sent') /\ end' # "part"
      BY <3>1, <2>1, <1>1, <1>3 DEF Arriving
    <3>4. Start(Len(got) + 1)' = Start((k + 1) + 1)
      BY <3>1, <1>1 DEF Start
    <3>5. Position' = Start(Len(got) + 1)' + Len(buf')
      <4>1. Len(buf') = 0 /\ Start((k + 1) + 1) \in Nat /\ Position' = Start((k + 1) + 1)
        BY <2>2, <2>3, <2>7
      <4> QED BY <4>1, <3>4
    <3>6. BufInv'
      BY <3>3, <3>5, <2>7 DEF BufInv, BeginsAs, Encode
    <3> QED BY <3>2, <3>3, <3>6, <2>7, <1>1
  <2> QED BY <2>4, <2>6, <2>7
<1>12. ReceiverInv'
  BY <1>1, <1>6, <1>11 DEF ReceiverInv
<1> QED BY <1>6, <1>7, <1>8, <1>9, <1>10, <1>12 DEF StreamInv

\* The end of the stream is clean for a receiver between two frames only.
LEMMA EofKeeps ==
    ASSUME StreamInv, RecvEof
    PROVE  StreamInv'
<1>t. StreamTypeOK /\ got \in Seq(AnyFrame) /\ RoomInv /\ PlaceInv /\ PipeInv /\ ReceiverInv
  BY DEF StreamInv
<1>1. /\ st = "ready" /\ end # "no" /\ st' = (IF buf = <<>> THEN "eof" ELSE "error") /\ buf' = <<>>
      /\ UNCHANGED <<sent, pipe, end, got, ends, lost>>
  BY DEF RecvEof, AtEof
<1>2. StreamTypeOK' /\ got' \in Seq(AnyFrame) /\ RoomInv'
  BY <1>1, <1>t DEF StreamTypeOK, RoomInv, HeaderLen
<1>3. PlaceInv'
  BY <1>1, <1>t DEF PlaceInv, Start, TooLarge, Encode
<1>4. PipeInv'
  BY <1>1, <1>t, PipeStays DEF Arriving
<1>5. ReceiverInv'
  BY <1>1, <1>t DEF ReceiverInv, BufInv
<1> QED BY <1>2, <1>3, <1>4, <1>5 DEF StreamInv

\* A call that is dropped leaves the receiver where it was, or loses something.
LEMMA DroppedKeeps ==
    ASSUME StreamInv, OtherBranch
    PROVE  StreamInv'
<1>t. StreamTypeOK /\ got \in Seq(AnyFrame) /\ RoomInv /\ PlaceInv /\ PipeInv /\ ReceiverInv
  BY DEF StreamInv
<1>1. /\ st = "ready" /\ buf' = <<>> /\ UNCHANGED <<sent, pipe, end, got, st, ends>>
      /\ lost' \in {"chunk", "text", lost}
      /\ lost' = "nothing" => lost = "nothing" /\ buf = <<>>
  BY DEF OtherBranch
<1>2. StreamTypeOK' /\ got' \in Seq(AnyFrame) /\ RoomInv'
  BY <1>1, <1>t DEF StreamTypeOK, RoomInv, HeaderLen
<1>3. PlaceInv'
  BY <1>1, <1>t DEF PlaceInv, Start, TooLarge, Encode
<1>4. PipeInv'
  BY <1>1, <1>t, PipeStays DEF Arriving
<1>5. ReceiverInv'
  <2> SUFFICES ASSUME lost' = "nothing" PROVE ReceiverInv'
    BY DEF ReceiverInv
  <2>1. lost = "nothing" /\ buf' = buf
    BY <1>1
  <2> QED BY <2>1, <1>1, <1>t DEF ReceiverInv, BufInv, Arriving, Position, Start, BeginsAs, Encode
<1> QED BY <1>2, <1>3, <1>4, <1>5 DEF StreamInv

\* Every step preserves the invariant.
LEMMA StreamStep == StreamInv /\ [StreamNext]_streamVars => StreamInv'
<1> SUFFICES ASSUME StreamInv, [StreamNext]_streamVars PROVE StreamInv'
  OBVIOUS
<1>1. ASSUME NEW f \in Frames, Send(f) PROVE StreamInv'
  BY <1>1, SendKeeps
<1>2. ASSUME NEW f \in Frames, SendFails(f) PROVE StreamInv'
  BY <1>2, CloseKeeps DEF SendFails
<1>3. CASE Close
  BY <1>3, CloseKeeps DEF Close
<1>4. CASE Gone
  BY <1>4, GoneKeeps
<1>5. ASSUME NEW p \in Pieces, Recv(p) PROVE StreamInv'
  BY <1>5, RecvKeeps
<1>6. CASE RecvEof
  BY <1>6, EofKeeps
<1>7. CASE OtherBranch
  BY <1>7, DroppedKeeps
<1>8. CASE UNCHANGED streamVars
  <2>1. UNCHANGED <<sent, pipe, end, buf, got, st, ends, lost>>
    BY <1>8 DEF streamVars
  <2>2. StreamTypeOK /\ got \in Seq(AnyFrame) /\ RoomInv /\ PlaceInv /\ PipeInv /\ ReceiverInv
    BY DEF StreamInv
  <2>3. StreamTypeOK' /\ got' \in Seq(AnyFrame) /\ RoomInv'
    BY <2>1, <2>2 DEF StreamTypeOK, RoomInv, Complete, PayloadLen, from_le_bytes
  <2>4. PlaceInv'
    BY <2>1, <2>2 DEF PlaceInv, Start, TooLarge, Encode
  <2>5. PipeInv'
    BY <2>1, <2>2, PipeStays DEF Arriving
  <2>6. ReceiverInv'
    BY <2>1, <2>2 DEF ReceiverInv, BufInv, Arriving, Position, Start, BeginsAs, Encode
  <2> QED BY <2>3, <2>4, <2>5, <2>6 DEF StreamInv
<1> QED BY <1>1, <1>2, <1>3, <1>4, <1>5, <1>6, <1>7, <1>8 DEF StreamNext

\* The invariant holds in every state.
LEMMA StreamAlways == StreamSpec => []StreamInv
  BY InitStream, StreamStep, PTL DEF StreamSpec

\* The bytes, the frames and the state of the receiver keep their types.
THEOREM StreamTypes == StreamSpec => []StreamTypeOK
<1>1. StreamInv => StreamTypeOK
  BY DEF StreamInv
<1> QED BY <1>1, StreamAlways, PTL

\* recv returns the frames that were sent, whole, unchanged and in their order, for
\* every set of frames that may be sent and every way to cut them into pieces, as long
\* as no call of recv was dropped in the middle of a frame.
THEOREM FramesArriveExactly == StreamSpec => []FramesExact
<1>1. StreamInv => FramesExact
  <2> SUFFICES ASSUME StreamInv, lost = "nothing" PROVE IsPrefix(got, sent)
    BY DEF FramesExact
  <2>1. /\ got \in Seq(AnyFrame) /\ sent \in Seq(Frames) /\ Len(got) <= Len(sent)
        /\ \A i \in 1 .. Len(got) : got[i] = sent[i]
    BY DEF StreamInv, StreamTypeOK, ReceiverInv
  <2>2. Len(got) \in Nat /\ Len(sent) \in Nat
    BY <2>1, LenProperties
  <2> DEFINE s == SubSeq(got, 1, Len(got))
             t == SubSeq(sent, 1, Len(got))
  <2>3. s \in Seq(AnyFrame) /\ Len(s) = Len(got) /\ \A i \in 1 .. Len(got) : s[i] = got[i]
    BY <2>1, <2>2, SubSeqProperties
  <2>4. t \in Seq(Frames) /\ Len(t) = Len(got) /\ \A i \in 1 .. Len(got) : t[i] = sent[i]
    BY <2>1, <2>2, SubSeqProperties
  <2> HIDE DEF s, t
  <2>5. s = t
    BY <2>1, <2>3, <2>4, SeqEqual
  <2> QED BY <2>1, <2>5 DEF IsPrefix, s, t
<1> QED BY <1>1, StreamAlways, PTL

\* A receiver that has a part of a frame never takes the end of the stream for a
\* clean one, unless a call of recv was dropped.
THEOREM EofNeverHidesAPart == StreamSpec => []EofIsClean
<1>1. StreamInv => EofIsClean
  BY DEF StreamInv, ReceiverInv, EofIsClean
<1> QED BY <1>1, StreamAlways, PTL

-----------------------------------------------------------------------------
(***************************************************************************)
(* After a call was dropped. The next call begins wherever the last one    *)
(* had come to: at a frame, or in the middle of one. The middle of a text  *)
(* frame is never taken for a header, so that recv ends with an error as   *)
(* soon as it has twelve bytes; until then another call may be dropped.    *)
(* The frames returned are some of those before.                           *)
(***************************************************************************)
IsText(f) == f.frame_type # FileChunk

(* b is what e has from its i-th byte on, as far as e goes. *)
RestOf(b, e, i) == \A m \in 1 .. Len(b) : i + m - 1 <= Len(e) => b[m] = e[i + m - 1]

\* The header and the payload of a text frame hold no good header.
LEMMA TextRejected ==
    ASSUME NEW f \in Frames, ~TooLarge(Len(f.payload)), IsText(f), NEW i \in 2 .. Len(Encode(f)),
           NEW b \in Seq(Byte), Len(b) >= HeaderLen, RestOf(b, Encode(f), i)
    PROVE  BadHeader(b)
<1> DEFINE e == Encode(f)
           l == to_le_bytes(Len(f.payload))
           L == Len(f.payload)
<1>1. EncodedAs(f, e) /\ L \in Nat /\ L \in 0 .. Huge - 1 /\ f.frame_type \in FrameType
  BY Encoded, FrameFields
<1>2. /\ f.flags = 0 /\ f.stream_id = 0
      /\ \A j \in 1 .. L : f.payload[j] >= 32
      /\ f.payload # <<>> => f.payload[L] # MAGIC
  BY TextAssumption DEF IsText
<1>3. /\ l \in Seq(Byte) /\ Len(l) = 4 /\ l[4] < 32
      /\ l[1] + 256 * (l[2] + 256 * (l[3] + 256 * l[4])) = L
  BY <1>1, LittleEndian
<1>4. \A j \in 1 .. 4 : to_le_bytes(0)[j] = 0
  BY DEF to_le_bytes
<1>e. /\ e \in Seq(Byte) /\ Len(e) = 12 + L
      /\ e[2] = 1 /\ e[3] = 0 /\ e[4] = f.frame_type
      /\ \A j \in 1 .. 4 : e[4 + j] = 0 /\ e[8 + j] = l[j]
      /\ \A j \in 1 .. L : e[12 + j] = f.payload[j]
  BY <1>1, <1>2, <1>4 DEF EncodedAs, HeaderLen, PROTOCOL_VERSION
<1>5. i \in 2 .. Len(e) /\ \A m \in 1 .. Len(b) : i + m - 1 <= Len(e) => b[m] = e[i + m - 1]
  BY DEF RestOf
<1> HIDE DEF e, l, L
<1>6. Len(b) \in Nat /\ Len(b) >= 12
  BY LenProperties DEF HeaderLen
<1>7. 1 \in 1 .. Len(b) /\ 2 \in 1 .. Len(b) /\ 12 \in 1 .. Len(b)
  BY <1>6
<1>8. i \in Nat /\ i + 1 - 1 = i /\ i + 2 - 1 = i + 1 /\ i + 12 - 1 = i + 11 /\ i <= 12 + L
  BY <1>1, <1>5, <1>e
<1>9. /\ b[1] = e[i]
      /\ i + 1 <= 12 + L => b[2] = e[i + 1]
      /\ i + 11 <= 12 + L => b[12] = e[i + 11]
  BY <1>5, <1>7, <1>8, <1>e
<1>10. \A j \in 1 .. 4 : l[j] \in Nat
  <2>1. \A j \in 1 .. 4 : l[j] \in Byte
    BY <1>3, ElementOfSeq
  <2>2. \A x \in Byte : x \in Nat
    BY DEF Byte
  <2> QED BY <2>1, <2>2
<1> SUFFICES ASSUME b[1] = 89, b[2] = 1 PROVE BadHeader(b)
  BY DEF BadHeader, MAGIC, PROTOCOL_VERSION
<1>11. CASE i \in 2 .. 4
  <2>3. \A x \in FrameType : x # 89
    BY DEF FrameType
  <2>1. f.frame_type # 89
    BY <2>3, <1>1
  <2>2. i = 2 \/ i = 3 \/ i = 4
    BY <1>11
  <2> QED BY <2>1, <2>2, <1>9, <1>e
<1>12. CASE i \in 5 .. 8
  <2>1. i - 4 \in 1 .. 4 /\ 4 + (i - 4) = i
    BY <1>12
  <2>2. e[i] = 0
    BY <2>1, <1>e
  <2> QED BY <2>2, <1>9
<1>13. CASE i = 12
  <2>1. 4 \in 1 .. 4 /\ 8 + 4 = 12
    OBVIOUS
  <2>2. e[12] = l[4]
    BY <2>1, <1>e
  <2>3. b[1] = l[4]
    BY <2>2, <1>9, <1>13
  <2>4. l[4] < 32
    BY <1>3
  <2> QED BY <2>3, <2>4
<1>14. CASE i \in 9 .. 11
  <2>1. i - 8 \in 1 .. 4 /\ 8 + (i - 8) = i
    BY <1>14
  <2>2. l[i - 8] = 89
    BY <2>1, <1>9, <1>e
  <2>3. L >= 89
    <3>1. i - 8 = 1 \/ i - 8 = 2 \/ i - 8 = 3
      BY <1>14
    <3>2. l[1] \in Nat /\ l[2] \in Nat /\ l[3] \in Nat /\ l[4] \in Nat
      BY <1>10
    <3>3. \A w, x, y, z \in Nat : (w = 89 \/ x = 89 \/ y = 89) => w + 256 * (x + 256 * (y + 256 * z)) >= 89
      OBVIOUS
    <3>4. l[1] = 89 \/ l[2] = 89 \/ l[3] = 89
      BY <3>1, <2>2
    <3>5. l[1] + 256 * (l[2] + 256 * (l[3] + 256 * l[4])) >= 89
      <4> DEFINE w == l[1]
                 x == l[2]
                 y == l[3]
                 z == l[4]
      <4>1. w \in Nat /\ x \in Nat /\ y \in Nat /\ z \in Nat /\ (w = 89 \/ x = 89 \/ y = 89)
        BY <3>2, <3>4
      <4> HIDE DEF w, x, y, z
      <4>2. w + 256 * (x + 256 * (y + 256 * z)) >= 89
        BY <3>3, <4>1
      <4> QED BY <4>2 DEF w, x, y, z
    <3> QED BY <3>5, <1>3
  <2>4. i - 1 \in 1 .. L /\ 12 + (i - 1) = i + 11 /\ i + 11 <= 12 + L
    BY <2>3, <1>1, <1>14
  <2>5. b[12] >= 32
    <3>1. b[12] = f.payload[i - 1]
      BY <2>4, <1>9, <1>e
    <3> QED BY <3>1, <2>4, <1>2 DEF L
  <2>6. PayloadLen(b) = Huge
    BY <2>5 DEF PayloadLen, from_le_bytes
  <2>7. AboveLimit(Huge)
    <3>1. MAX_PAYLOAD_LEN \in 0 .. Huge - 1
      BY FrameAssumption
    <3> QED BY <3>1, HugeNumber DEF AboveLimit
  <2> QED BY <2>6, <2>7 DEF BadHeader
<1>15. CASE i > 12 /\ i < 12 + L
  <2>1. i - 11 \in 1 .. L /\ 12 + (i - 11) = i + 1 /\ i + 1 <= 12 + L
    BY <1>1, <1>8, <1>15
  <2>2. b[2] = f.payload[i - 11] /\ f.payload[i - 11] >= 32
    BY <2>1, <1>2, <1>9, <1>e DEF L
  <2> QED BY <2>2
<1>16. CASE i > 12 /\ i = 12 + L
  <2>1. L \in 1 .. L /\ L # 0
    BY <1>1, <1>8, <1>16
  <2>2. b[1] = f.payload[L]
    BY <2>1, <1>9, <1>16, <1>e
  <2>3. f.payload # <<>>
    BY <2>1 DEF L
  <2> QED BY <2>2, <2>3, <1>2 DEF MAGIC, L
<1>17. i \in 2 .. 4 \/ i \in 5 .. 8 \/ i \in 9 .. 11 \/ i = 12 \/ (i > 12 /\ i < 12 + L) \/ (i > 12 /\ i = 12 + L)
  BY <1>1, <1>5, <1>8
<1> QED BY <1>11, <1>12, <1>13, <1>14, <1>15, <1>16, <1>17
(* The call under way began with the i-th byte of the k-th frame, a text, in its middle. *)
InText(k, i) ==
    /\ IsText(sent[k])
    /\ Position = Start(k) + (i - 1) + Len(buf)
    /\ Len(buf) < HeaderLen
    /\ RestOf(buf, Encode(sent[k]), i)

Standing ==
    \/ \E k \in 1 .. Len(sent) + 1 : AtFrame(k)
    \/ \E k \in 1 .. Len(sent) : \E i \in 2 .. Len(Encode(sent[k])) : InText(k, i)

(* The i-th frame returned is the g[i]-th that was sent. *)
Picked(g) ==
    /\ g \in [1 .. Len(got) -> 1 .. Len(sent)]
    /\ \A i \in 1 .. Len(got) : got[i] = sent[g[i]]
    /\ \A i, j \in 1 .. Len(got) : i < j => g[i] < g[j]

(* They end before the call under way began. *)
Passed(g) == \A i \in 1 .. Len(got) : ends[g[i]] <= Position - Len(buf)

DropInv ==
    lost # "chunk" =>
        \E g \in [1 .. Len(got) -> 1 .. Len(sent)] :
            Picked(g) /\ (st = "ready" /\ Arriving => Passed(g) /\ Standing)

\* A frame that ends before another one stands before it.
LEMMA EndsInOrder ==
    ASSUME StreamInv, NEW i \in 1 .. Len(sent), NEW j \in 1 .. Len(sent), ends[i] < ends[j]
    PROVE  i < j
<1>1. /\ Len(sent) \in Nat /\ Start(i) \in Nat /\ ends[i] \in Nat /\ ends[j] \in Nat
      /\ ends[i] = Start(i) + Len(Encode(sent[i])) /\ Len(Encode(sent[i])) \in Nat
  BY Places
<1>2. j < i => ends[j] <= Start(i)
  BY DEF StreamInv, PlaceInv
<1> QED BY <1>1, <1>2

\* Every place in the stream is the beginning of a frame, or in the middle of one, or
\* the end of the last.
LEMMA Standpoint ==
    ASSUME StreamInv, Position \in Nat
    PROVE  \E k \in 1 .. Len(sent) + 1 :
              \/ Position = Start(k)
              \/ k \in 1 .. Len(sent) /\ Start(k) < Position /\ Position < ends[k]
<1> DEFINE T == {j \in 1 .. Len(sent) : Position < ends[j]}
<1>1. /\ Len(sent) \in Nat /\ Len(pipe) \in Nat
      /\ Start(Len(sent) + 1) \in Nat /\ Position = Start(Len(sent) + 1) - Len(pipe)
  <2>1. Len(sent) \in Nat
    BY Places
  <2>2. Len(sent) + 1 \in 1 .. Len(sent) + 1
    BY <2>1
  <2> QED BY <2>1, <2>2, Places DEF Position
<1>2. CASE T = {}
  <2>1. Position = Start(Len(sent) + 1)
    <3>1. CASE Len(sent) = 0
      <4>1. Start(Len(sent) + 1) = 0
        BY <3>1 DEF Start
      <4> QED BY <4>1, <1>1
    <3>2. CASE Len(sent) # 0
      <4>1. Len(sent) \in 1 .. Len(sent)
        BY <1>1, <3>2
      <4>2. Start(Len(sent) + 1) = ends[Len(sent)] /\ ~(Position < ends[Len(sent)])
        BY <4>1, <1>2, Places
      <4> QED BY <4>2, <1>1
    <3> QED BY <3>1, <3>2
  <2>2. Len(sent) + 1 \in 1 .. Len(sent) + 1
    BY <1>1
  <2> QED BY <2>1, <2>2
<1>3. CASE T # {}
  <2>1. T \in SUBSET Nat
    BY <1>1
  <2>2. PICK k \in T : \A j \in T : k <= j
    <3> HIDE DEF T
    <3> QED BY <1>3, <2>1, SmallestOf
  <2>3. k \in 1 .. Len(sent) /\ k \in 1 .. Len(sent) + 1 /\ Position < ends[k]
    BY <1>1
  <2>4. Start(k) <= Position
    <3>1. CASE k = 1
      BY <3>1 DEF Start
    <3>2. CASE k # 1
      <4>1. k - 1 \in 1 .. Len(sent) /\ k - 1 \notin T /\ Start(k) = ends[k - 1]
        <5>1. k - 1 \in 1 .. Len(sent) /\ ~(k <= k - 1)
          BY <2>3, <3>2, <1>1
        <5>2. k - 1 \notin T
          BY <5>1, <2>2
        <5> QED BY <5>1, <5>2, <3>2 DEF Start
      <4>2. ends[k - 1] \in Nat /\ ~(Position < ends[k - 1])
        BY <4>1, Places
      <4> QED BY <4>1, <4>2
    <3> QED BY <3>1, <3>2
  <2>5. Start(k) \in Nat
    BY <2>3, Places
  <2>6. Position = Start(k) \/ Start(k) < Position
    BY <2>4, <2>5
  <2> QED BY <2>3, <2>6
<1> QED BY <1>2, <1>3

\* A call that is dropped: the next one begins at a frame or in the middle of a text,
\* or something of a chunk is lost.
LEMMA DropDropped ==
    ASSUME StreamInv, DropInv, OtherBranch
    PROVE  DropInv'
<1>1. /\ st = "ready" /\ buf' = <<>> /\ UNCHANGED <<sent, pipe, end, got, st, ends>>
      /\ lost' # "chunk" => lost # "chunk" /\ \A f \in Middle : IsText(f)
  BY DEF OtherBranch, IsText
<1> SUFFICES ASSUME lost' # "chunk" PROVE DropInv'
  BY DEF DropInv
<1>2. PICK g \in [1 .. Len(got) -> 1 .. Len(sent)] : Picked(g) /\ (st = "ready" /\ Arriving => Passed(g) /\ Standing)
  BY <1>1 DEF DropInv
<1>3. Position' = Position /\ (\A j : Start(j)' = Start(j)) /\ (Arriving' <=> Arriving) /\ Len(buf') = 0
  BY <1>1 DEF Position, Start, Arriving
<1>4. Picked(g)'
  BY <1>1, <1>2 DEF Picked
<1>5. ASSUME Arriving PROVE Passed(g)' /\ Standing'
  <2>1. Passed(g) /\ Standing
    BY <1>1, <1>2, <1>5
  <2>2. Len(sent) \in Nat /\ Len(buf) \in Nat /\ DOMAIN sent = 1 .. Len(sent)
    BY Places, LenProperties DEF StreamInv, StreamTypeOK
  <2>3. Position \in Nat /\ Len(buf) <= Position
    <3>1. CASE \E k \in 1 .. Len(sent) + 1 : AtFrame(k)
      BY <3>1, <2>2, Places DEF AtFrame
    <3>2. CASE \E k \in 1 .. Len(sent) : \E i \in 2 .. Len(Encode(sent[k])) : InText(k, i)
      <4>1. PICK k \in 1 .. Len(sent) : \E i \in 2 .. Len(Encode(sent[k])) : InText(k, i)
        BY <3>2
      <4>2. PICK i \in 2 .. Len(Encode(sent[k])) : InText(k, i)
        BY <4>1
      <4>3. k \in 1 .. Len(sent) + 1 /\ Len(Encode(sent[k])) \in Nat
        BY <2>2, Places
      <4>4. Start(k) \in Nat /\ i - 1 \in Nat
        BY <4>3, Places
      <4> QED BY <4>2, <4>4, <2>2 DEF InText
    <3> QED BY <3>1, <3>2, <2>1 DEF Standing
  <2>4. Passed(g)'
    <3>1. ASSUME NEW i \in 1 .. Len(got) PROVE ends[g[i]] <= Position - 0
      <4>1. ends[g[i]] <= Position - Len(buf) /\ ends[g[i]] \in Nat
        BY <2>1, Places DEF Passed
      <4> QED BY <4>1, <2>2, <2>3
    <3>2. \A i \in 1 .. Len(got') : ends'[g[i]] <= Position' - Len(buf')
      BY <3>1, <1>1, <1>3
    <3> QED BY <3>2 DEF Passed
  <2>5. PICK k \in 1 .. Len(sent) + 1 :
            \/ Position = Start(k)
            \/ k \in 1 .. Len(sent) /\ Start(k) < Position /\ Position < ends[k]
    BY <2>3, Standpoint
  <2>6. Start(k) \in Nat
    BY Places
  <2>7. CASE Position = Start(k)
    <3>1. Position' = Start(k)' + Len(buf')
      BY <2>6, <2>7, <1>3
    <3>2. AtFrame(k)'
      BY <3>1, <1>1 DEF AtFrame
    <3>3. k \in 1 .. Len(sent') + 1
      BY <1>1
    <3> QED BY <2>4, <3>2, <3>3 DEF Standing
  <2>8. CASE k \in 1 .. Len(sent) /\ Start(k) < Position /\ Position < ends[k]
    <3>1. ends[k] = Start(k) + Len(Encode(sent[k])) /\ Len(Encode(sent[k])) \in Nat
      BY <2>8, Places
    <3>2. PICK i \in 2 .. Len(Encode(sent[k])) : Position = Start(k) + (i - 1) + 0
      <4>1. /\ Position - Start(k) + 1 \in 2 .. Len(Encode(sent[k]))
            /\ Position = Start(k) + ((Position - Start(k) + 1) - 1) + 0
        BY <3>1, <2>3, <2>6, <2>8
      <4> QED BY <4>1
    <3>3. sent[k] \in Middle
      BY <2>2, <2>8 DEF Middle
    <3>4. IsText(sent[k])
      BY <3>3, <1>1
    <3>5. /\ IsText(sent'[k]) /\ Position' = Start(k)' + (i - 1) + Len(buf') /\ Len(buf') < HeaderLen
          /\ RestOf(buf', Encode(sent'[k]), i)
      BY <3>2, <3>4, <1>1, <1>3 DEF RestOf, HeaderLen
    <3>6. k \in 1 .. Len(sent') /\ i \in 2 .. Len(Encode(sent'[k]))
      BY <3>2, <2>8, <1>1
    <3>7. InText(k, i)'
      BY <3>5 DEF InText, IsText, RestOf, Encode
    <3>8. Standing'
      BY <3>6, <3>7 DEF Standing, Encode
    <3> QED BY <2>4, <3>8
  <2> QED BY <2>5, <2>7, <2>8
<1>6. g \in [1 .. Len(got') -> 1 .. Len(sent')]
  BY <1>1
<1> QED BY <1>3, <1>4, <1>5, <1>6 DEF DropInv

\* What a call that began in the middle of a text has after the next read is still
\* what the text has there.
LEMMA ReadsRest ==
    ASSUME StreamInv, pipe # <<>>, NEW n \in Nat, NEW b \in Seq(Byte), Reads(n, b),
           NEW k \in 1 .. Len(sent), NEW i \in 2 .. Len(Encode(sent[k])), InText(k, i)
    PROVE  RestOf(b, Encode(sent[k]), i)
<1> DEFINE e == Encode(sent[k])
<1>1. /\ Len(sent) \in Nat /\ Len(buf) \in Nat /\ Len(e) \in Nat /\ Arriving /\ PipeInv
  BY Places, LenProperties DEF StreamInv, StreamTypeOK, PipeInv
<1>2. Start(k) \in Nat
  <2>1. k \in 1 .. Len(sent) + 1
    BY <1>1
  <2> QED BY <2>1, Places
<1>3. /\ Position = Start(k) + (i - 1) + Len(buf)
      /\ \A m \in 1 .. Len(buf) : i + m - 1 <= Len(e) => buf[m] = e[i + m - 1]
  BY DEF InText, RestOf
<1>4. /\ Len(b) = Len(buf) + n
      /\ \A j \in 1 .. Len(buf) : b[j] = buf[j]
      /\ \A j \in 1 .. n : b[Len(buf) + j] = pipe[j]
  BY DEF Reads
<1>5. \A j \in 1 .. Len(e) : Start(k) + j > Position => pipe[Start(k) + j - Position] = e[j]
  BY <1>1 DEF PipeInv
<1>i. i \in 2 .. Len(e)
  OBVIOUS
<1> HIDE DEF e
<1>6. ASSUME NEW m \in 1 .. Len(b), i + m - 1 <= Len(e) PROVE b[m] = e[i + m - 1]
  <2>1. m \in Nat /\ i \in Nat
    BY <1>1, <1>4, <1>i
  <2>2. CASE m <= Len(buf)
    <3>1. m \in 1 .. Len(buf)
      BY <2>2, <1>1, <1>4
    <3> QED BY <3>1, <1>3, <1>4, <1>6
  <2>3. CASE m > Len(buf)
    <3> DEFINE q == m - Len(buf)
               j == i + m - 1
    <3>1. q \in 1 .. n /\ Len(buf) + q = m
      BY <2>3, <1>1, <1>4
    <3>2. j \in 1 .. Len(e) /\ Start(k) + j > Position /\ Start(k) + j - Position = q
      BY <2>1, <2>3, <1>1, <1>2, <1>3, <1>6, <1>i
    <3> HIDE DEF q, j
    <3>3. b[m] = pipe[q] /\ pipe[q] = e[j]
      BY <3>1, <3>2, <1>4, <1>5
    <3> QED BY <3>3 DEF j
  <2> QED BY <2>1, <2>2, <2>3, <1>1
<1> QED BY <1>6 DEF RestOf, e

\* A read after a call was dropped: a frame is returned that stands after all before,
\* or the middle of a text is rejected, or recv goes on.
LEMMA DropRecv ==
    ASSUME StreamInv, DropInv, NEW p \in Pieces, Recv(p)
    PROVE  DropInv'
<1>1. st = "ready" /\ pipe # <<>> /\ UNCHANGED <<sent, end, ends, lost>>
  BY DEF Recv
<1> SUFFICES ASSUME lost # "chunk" PROVE DropInv'
  BY <1>1 DEF DropInv
<1>2. PICK n \in Nat, b \in Seq(Byte) : Reads(n, b) /\ Received(b)
  BY ReadSome
<1>3. /\ Len(got) \in Nat /\ got \in Seq(AnyFrame) /\ Len(sent) \in Nat /\ Len(pipe) \in Nat /\ Len(buf) \in Nat
      /\ Len(b) \in Nat /\ Arriving
  BY <1>1, Places, LenProperties DEF StreamInv, StreamTypeOK, PipeInv
<1>4. Len(pipe') = Len(pipe) - n /\ n <= Len(pipe) /\ Len(b) = Len(buf) + n
  BY <1>2 DEF Reads
<1>5. /\ (\A j : Start(j)' = Start(j)) /\ Arriving' /\ Position \in Int
      /\ Position' = Position + n
  <2>1. \A j : Start(j)' = Start(j)
    BY <1>1 DEF Start
  <2>2. Arriving'
    BY <1>1, <1>3 DEF Arriving
  <2>3. Position' = Start(Len(sent) + 1) - Len(pipe')
    BY <1>1 DEF Position, Start
  <2>4. Position = Start(Len(sent) + 1) - Len(pipe) /\ Start(Len(sent) + 1) \in Nat
    <3>1. Len(sent) + 1 \in 1 .. Len(sent) + 1
      BY <1>3
    <3> QED BY <3>1, Places DEF Position
  <2> QED BY <2>1, <2>2, <2>3, <2>4, <1>3, <1>4
<1>6. PICK g \in [1 .. Len(got) -> 1 .. Len(sent)] : Picked(g) /\ Passed(g) /\ Standing
  BY <1>1, <1>3 DEF DropInv
<1>7. \A i \in 1 .. Len(got) : g[i] \in 1 .. Len(sent) /\ ends[g[i]] \in Nat /\ ends[g[i]] <= Position - Len(buf)
  BY <1>6, Places DEF Passed
(* recv goes on: the same frames, and the same beginning of the call. *)
<1>8. ASSUME buf' = b, UNCHANGED <<got, st>>, Standing' PROVE DropInv'
  <2>1. Picked(g)'
    BY <1>1, <1>6, <1>8 DEF Picked
  <2>2. Position' - Len(buf') = Position - Len(buf)
    <3>1. Len(buf') = Len(buf) + n
      BY <1>4, <1>8
    <3>2. Position \in Int /\ Len(buf) \in Int /\ Position' = Position + n
      BY <1>3, <1>5
    <3>3. \A x, y \in Int : (x + n) - (y + n) = x - y
      OBVIOUS
    <3> QED BY <3>1, <3>2, <3>3
  <2>3. \A i \in 1 .. Len(got') : ends'[g[i]] <= Position' - Len(buf')
    BY <2>2, <1>1, <1>7, <1>8
  <2>4. Passed(g)'
    BY <2>3 DEF Passed
  <2>5. g \in [1 .. Len(got') -> 1 .. Len(sent')]
    BY <1>1, <1>8
  <2> QED BY <2>1, <2>4, <2>5, <1>8 DEF DropInv
<1>9. ASSUME NEW k \in 1 .. Len(sent) + 1, AtFrame(k) PROVE DropInv'
  <2>1. k \in 1 .. Len(sent) /\ BeginsAs(b, Encode(sent[k]))
    BY <1>1, <1>2, <1>9, ReadsNext
  <2>2. /\ sent[k] \in Frames /\ ~TooLarge(Len(sent[k].payload)) /\ Len(Encode(sent[k])) \in Nat
        /\ Len(Encode(sent[k])) >= 12
        /\ ends[k] \in Nat /\ ends[k] = Start(k) + Len(Encode(sent[k])) /\ Start(k + 1) = ends[k]
    BY <2>1, Places
  <2>3. Start(k) \in Nat /\ Position = Start(k) + Len(buf)
    BY <1>9, Places DEF AtFrame
  <2>4. \/ Len(b) < Len(Encode(sent[k])) /\ buf' = b /\ UNCHANGED <<got, st>>
        \/ /\ Len(b) = Len(Encode(sent[k])) /\ buf' = <<>>
           /\ got' = Append(got, sent[k]) /\ UNCHANGED st
    BY <2>1, <2>2, <1>2, Outcome
  <2>5. CASE Len(b) < Len(Encode(sent[k])) /\ buf' = b /\ UNCHANGED <<got, st>>
    <3>1. Position' = Start(k)' + Len(buf')
      BY <2>3, <2>5, <1>3, <1>4, <1>5
    <3>2. k <= Len(sent') /\ BeginsAs(buf', Encode(sent'[k])) /\ Len(buf') < Len(Encode(sent'[k]))
      BY <2>1, <2>5, <1>1
    <3>3. AtFrame(k)'
      BY <3>1, <3>2 DEF AtFrame, BeginsAs, Encode
    <3>4. k \in 1 .. Len(sent') + 1
      BY <1>1
    <3>5. Standing'
      BY <3>3, <3>4 DEF Standing
    <3> QED BY <3>5, <2>5, <1>8
  <2>6. CASE /\ Len(b) = Len(Encode(sent[k])) /\ buf' = <<>>
             /\ got' = Append(got, sent[k]) /\ UNCHANGED st
    <3>1. PICK h \in [1 .. Len(got) + 1 -> 1 .. Len(sent)] :
              h[Len(got) + 1] = k /\ \A i \in 1 .. Len(got) : h[i] = g[i]
      <4> DEFINE x == [i \in 1 .. Len(got) + 1 |-> IF i <= Len(got) THEN g[i] ELSE k]
      <4>1. x \in [1 .. Len(got) + 1 -> 1 .. Len(sent)]
        <5>1. \A i \in 1 .. Len(got) + 1 : i <= Len(got) => i \in 1 .. Len(got)
          BY <1>3
        <5> QED BY <5>1, <2>1
      <4>2. x[Len(got) + 1] = k /\ \A i \in 1 .. Len(got) : x[i] = g[i]
        BY <1>3
      <4> QED BY <4>1, <4>2
    <3>2. /\ Len(got') = Len(got) + 1 /\ got'[Len(got) + 1] = sent[k]
          /\ \A i \in 1 .. Len(got) : got'[i] = got[i]
      <4>1. got' = Append(got, sent[k])
        BY <2>6
      <4> QED BY <4>1, <1>3
    <3>3. ASSUME NEW i \in 1 .. Len(got) PROVE ends[g[i]] <= ends[k] /\ g[i] < k
      <4>1. ends[g[i]] <= Start(k)
        BY <2>3, <1>3, <1>7
      <4>2. ends[g[i]] < ends[k] /\ ends[g[i]] <= ends[k]
        <5>1. \A x, y, l \in Nat : x <= y /\ l >= 12 => x < y + l /\ x <= y + l
          OBVIOUS
        <5>2. ends[g[i]] \in Nat
          BY <1>7
        <5> QED BY <5>1, <5>2, <4>1, <2>2, <2>3
      <4> QED BY <4>2, <2>1, <1>7, EndsInOrder
    <3>4. \A i \in 1 .. Len(got) + 1 : i \in 1 .. Len(got) \/ i = Len(got) + 1
      BY <1>3
    <3>5. \A i \in 1 .. Len(got) + 1 : got'[i] = sent[h[i]]
      BY <3>1, <3>2, <3>4, <1>6 DEF Picked
    <3>6. ASSUME NEW i \in 1 .. Len(got) + 1, NEW j \in 1 .. Len(got) + 1, i < j PROVE h[i] < h[j]
      <4>1. i \in 1 .. Len(got)
        BY <3>6, <1>3
      <4>2. CASE j \in 1 .. Len(got)
        BY <4>1, <4>2, <3>1, <3>6, <1>6 DEF Picked
      <4>3. CASE j = Len(got) + 1
        BY <4>1, <4>3, <3>1, <3>3
      <4> QED BY <4>2, <4>3, <3>4
    <3>7. /\ h \in [1 .. Len(got') -> 1 .. Len(sent')]
          /\ \A i \in 1 .. Len(got') : got'[i] = sent'[h[i]]
          /\ \A i, j \in 1 .. Len(got') : i < j => h[i] < h[j]
      BY <3>1, <3>2, <3>5, <3>6, <1>1
    <3>8. Picked(h)'
      BY <3>7 DEF Picked
    <3>9. Position' = ends[k] /\ Len(buf') = 0
      <4>1. Len(buf') = 0
        BY <2>6
      <4> QED BY <4>1, <2>2, <2>3, <2>6, <1>3, <1>4, <1>5
    <3>10. ASSUME NEW i \in 1 .. Len(got) + 1 PROVE ends[h[i]] <= ends[k]
      <4>1. CASE i \in 1 .. Len(got)
        BY <4>1, <3>1, <3>3
      <4>2. CASE i = Len(got) + 1
        BY <4>2, <3>1, <2>2
      <4> QED BY <4>1, <4>2, <3>4
    <3>11. ends[k] = Position' - Len(buf')
      BY <3>9, <2>2
    <3>12. \A i \in 1 .. Len(got') : ends'[h[i]] <= Position' - Len(buf')
      BY <3>2, <3>10, <3>11, <1>1
    <3>13. Passed(h)'
      BY <3>12 DEF Passed
    <3>14. Position' = Start(k + 1)' + Len(buf')
      BY <3>9, <2>2, <1>5
    <3>15. AtFrame(k + 1)'
      BY <3>14, <2>6 DEF AtFrame
    <3>16. k + 1 \in 1 .. Len(sent') + 1
      BY <2>1, <1>1, <1>3
    <3>17. Standing'
      BY <3>15, <3>16 DEF Standing
    <3> QED BY <3>7, <3>8, <3>13, <3>17 DEF DropInv
  <2> QED BY <2>4, <2>5, <2>6
<1>10. ASSUME NEW k \in 1 .. Len(sent), NEW i \in 2 .. Len(Encode(sent[k])), InText(k, i) PROVE DropInv'
  <2>1. RestOf(b, Encode(sent[k]), i)
    BY <1>1, <1>2, <1>10, ReadsRest
  <2>2. sent[k] \in Frames /\ ~TooLarge(Len(sent[k].payload)) /\ Len(Encode(sent[k])) \in Nat
    BY Places
  <2>3. IsText(sent[k]) /\ Position = Start(k) + (i - 1) + Len(buf)
    BY <1>10 DEF InText
  <2>4. Start(k) \in Nat
    <3>1. k \in 1 .. Len(sent) + 1
      BY <1>3
    <3> QED BY <3>1, Places
  <2>5. CASE Len(b) < HeaderLen
    <3>1. buf' = b /\ UNCHANGED <<got, st>>
      <4>1. ~(Len(b) >= HeaderLen)
        BY <2>5, <1>3 DEF HeaderLen
      <4> QED BY <4>1, <1>2 DEF Received
    <3>2. Position' = Start(k)' + (i - 1) + Len(buf')
      <4>1. Len(buf') = Len(buf) + n /\ Len(buf) \in Int /\ Position' = Position + n
        BY <3>1, <1>3, <1>4, <1>5
      <4>2. Start(k)' = Start(k) /\ i - 1 \in Int
        BY <1>1 DEF Start
      <4>3. \A u, v, w \in Int : u + v + w + n = u + v + (w + n)
        BY <1>3
      <4> QED BY <4>1, <4>2, <4>3, <2>3, <2>4
    <3>3. IsText(sent'[k]) /\ Len(buf') < HeaderLen /\ RestOf(buf', Encode(sent'[k]), i)
      BY <3>1, <2>1, <2>3, <2>5, <1>1
    <3>4. InText(k, i)'
      BY <3>2, <3>3 DEF InText, IsText, RestOf, Encode
    <3>5. k \in 1 .. Len(sent') /\ i \in 2 .. Len(Encode(sent'[k]))
      BY <1>1
    <3>6. Standing'
      BY <3>4, <3>5 DEF Standing, Encode
    <3> QED BY <3>1, <3>6, <1>8
  <2>6. CASE Len(b) >= HeaderLen
    <3>1. BadHeader(b)
      BY <2>1, <2>2, <2>3, <2>6, TextRejected
    <3>2. st' = "error" /\ UNCHANGED got
      <4>1. ~(Len(b) < HeaderLen)
        BY <2>6, <1>3 DEF HeaderLen
      <4> QED BY <4>1, <3>1, <1>2 DEF Received
    <3>3. Picked(g)' /\ g \in [1 .. Len(got') -> 1 .. Len(sent')]
      BY <3>2, <1>1, <1>6 DEF Picked
    <3> QED BY <3>2, <3>3 DEF DropInv
  <2> QED BY <2>5, <2>6, <1>3 DEF HeaderLen
<1>11. CASE \E k \in 1 .. Len(sent) + 1 : AtFrame(k)
  BY <1>9, <1>11
<1>12. CASE \E k \in 1 .. Len(sent) : \E i \in 2 .. Len(Encode(sent[k])) : InText(k, i)
  BY <1>10, <1>12
<1> QED BY <1>6, <1>11, <1>12 DEF Standing

\* A frame that is sent changes nothing about those before, nor about the receiver.
LEMMA DropSend ==
    ASSUME StreamInv, DropInv, NEW f \in Frames, Send(f)
    PROVE  DropInv'
<1>1. UNCHANGED <<end, buf, got, st, lost>>
  BY DEF Send
<1>2. /\ Len(sent) \in Nat /\ Len(sent') = Len(sent) + 1
      /\ \A j \in 1 .. Len(sent) : sent'[j] = sent[j] /\ ends'[j] = ends[j]
      /\ \A j \in 1 .. Len(sent) + 1 : Start(j)' = Start(j)
      /\ Position' = Position
  BY Places, SendEffect
<1> SUFFICES ASSUME lost # "chunk" PROVE DropInv'
  BY <1>1 DEF DropInv
<1>3. PICK g \in [1 .. Len(got) -> 1 .. Len(sent)] : Picked(g) /\ (st = "ready" /\ Arriving => Passed(g) /\ Standing)
  BY DEF DropInv
<1>4. 1 .. Len(sent) \subseteq 1 .. Len(sent') /\ 1 .. Len(sent) + 1 \subseteq 1 .. Len(sent') + 1
  BY <1>2
<1>5. \A i \in 1 .. Len(got) : g[i] \in 1 .. Len(sent) /\ got[i] = sent'[g[i]] /\ ends'[g[i]] = ends[g[i]]
  BY <1>2, <1>3 DEF Picked
<1>6. g \in [1 .. Len(got') -> 1 .. Len(sent')]
  <2>1. g \in [1 .. Len(got) -> 1 .. Len(sent')]
    BY <1>4, <1>5
  <2> QED BY <2>1, <1>1
<1>7. Picked(g)'
  <2>1. /\ \A i \in 1 .. Len(got') : got'[i] = sent'[g[i]]
        /\ \A i, j \in 1 .. Len(got') : i < j => g[i] < g[j]
    BY <1>1, <1>3, <1>5 DEF Picked
  <2> QED BY <2>1, <1>6 DEF Picked
<1>8. ASSUME st = "ready", Arriving PROVE Passed(g)' /\ Standing'
  <2>1. Passed(g) /\ Standing
    BY <1>3, <1>8
  <2>2. Passed(g)'
    <3>1. \A i \in 1 .. Len(got') : ends'[g[i]] <= Position' - Len(buf')
      BY <2>1, <1>1, <1>2, <1>5 DEF Passed
    <3> QED BY <3>1 DEF Passed
  <2>3. ASSUME NEW k \in 1 .. Len(sent) + 1, AtFrame(k) PROVE Standing'
    <3>1. Position' = Start(k)' + Len(buf')
      BY <2>3, <1>1, <1>2 DEF AtFrame
    <3>2. ASSUME buf # <<>>
          PROVE  /\ k <= Len(sent') /\ BeginsAs(buf', Encode(sent'[k]))
                 /\ Len(buf') < Len(Encode(sent'[k]))
      <4>1. k <= Len(sent) /\ BeginsAs(buf, Encode(sent[k])) /\ Len(buf) < Len(Encode(sent[k]))
        BY <2>3, <3>2 DEF AtFrame
      <4>2. k \in 1 .. Len(sent) /\ k <= Len(sent')
        BY <4>1, <1>2
      <4> QED BY <4>1, <4>2, <1>1, <1>2
    <3>3. AtFrame(k)'
      BY <3>1, <3>2, <1>1 DEF AtFrame, BeginsAs, Encode
    <3>4. k \in 1 .. Len(sent') + 1
      BY <1>4
    <3> QED BY <3>3, <3>4 DEF Standing
  <2>4. ASSUME NEW k \in 1 .. Len(sent), NEW i \in 2 .. Len(Encode(sent[k])), InText(k, i) PROVE Standing'
    <3>1. k \in 1 .. Len(sent) + 1 /\ sent'[k] = sent[k]
      BY <1>2
    <3>2. Position' = Start(k)' + (i - 1) + Len(buf')
      BY <3>1, <2>4, <1>1, <1>2 DEF InText
    <3>3. IsText(sent'[k]) /\ Len(buf') < HeaderLen /\ RestOf(buf', Encode(sent'[k]), i)
      BY <3>1, <2>4, <1>1 DEF InText
    <3>4. InText(k, i)'
      BY <3>2, <3>3 DEF InText, IsText, RestOf, Encode
    <3>5. k \in 1 .. Len(sent') /\ i \in 2 .. Len(Encode(sent'[k]))
      BY <3>1, <1>4
    <3> QED BY <3>4, <3>5 DEF Standing, Encode
  <2>5. CASE \E k \in 1 .. Len(sent) + 1 : AtFrame(k)
    BY <2>2, <2>3, <2>5
  <2>6. CASE \E k \in 1 .. Len(sent) : \E i \in 2 .. Len(Encode(sent[k])) : InText(k, i)
    BY <2>2, <2>4, <2>6
  <2> QED BY <2>1, <2>5, <2>6 DEF Standing
<1>9. st' = st /\ (Arriving' <=> Arriving)
  BY <1>1 DEF Arriving
<1> QED BY <1>6, <1>7, <1>8, <1>9 DEF DropInv

\* The end of the stream, and steps that leave everything where it is.
LEMMA DropRest ==
    ASSUME DropInv, UNCHANGED <<sent, got, lost>>,
           st' = "ready" /\ Arriving' => st = "ready" /\ Arriving /\ UNCHANGED <<pipe, buf, ends>>
    PROVE  DropInv'
<1> SUFFICES ASSUME lost # "chunk" PROVE DropInv'
  BY DEF DropInv
<1>1. PICK g \in [1 .. Len(got) -> 1 .. Len(sent)] : Picked(g) /\ (st = "ready" /\ Arriving => Passed(g) /\ Standing)
  BY DEF DropInv
<1>2. Picked(g)' /\ g \in [1 .. Len(got') -> 1 .. Len(sent')]
  BY <1>1 DEF Picked
<1>3. ASSUME st' = "ready", Arriving' PROVE Passed(g)' /\ Standing'
  <2>1. Passed(g) /\ Standing /\ UNCHANGED <<sent, got, pipe, buf, ends>>
    BY <1>1, <1>3
  <2>2. Passed(g)'
    BY <2>1 DEF Passed, Position, Start
  <2>3. Standing'
    <3>1. \A k : AtFrame(k) => AtFrame(k)'
      BY <2>1 DEF AtFrame, BeginsAs, Encode, Position, Start
    <3>2. \A k, i : InText(k, i) => InText(k, i)'
      BY <2>1 DEF InText, IsText, RestOf, Encode, Position, Start
    <3>3. \/ \E k \in 1 .. Len(sent') + 1 : AtFrame(k)'
          \/ \E k \in 1 .. Len(sent') : \E i \in 2 .. Len(Encode(sent'[k])) : InText(k, i)'
      BY <3>1, <3>2, <2>1 DEF Standing
    <3> QED BY <3>3 DEF Standing, Encode
  <2> QED BY <2>2, <2>3
<1> QED BY <1>2, <1>3 DEF DropInv

\* At first nothing was returned, and the first call begins with the first frame.
LEMMA InitDrop == StreamInit => DropInv
<1> SUFFICES ASSUME StreamInit PROVE DropInv
  OBVIOUS
<1>1. sent = <<>> /\ pipe = <<>> /\ buf = <<>> /\ got = <<>> /\ Len(<<>>) = 0
  BY DEF StreamInit
<1>2. Position = 0 /\ Start(1) = 0
  BY <1>1 DEF Position, Start
<1>3. AtFrame(1) /\ 1 \in 1 .. Len(sent) + 1
  BY <1>1, <1>2 DEF AtFrame
<1>4. PICK g : g = [i \in 1 .. Len(got) |-> 1]
  OBVIOUS
<1>5. \A i \in 1 .. Len(got) : FALSE
  BY <1>1
<1>6. g \in [1 .. Len(got) -> 1 .. Len(sent)] /\ Picked(g) /\ Passed(g)
  BY <1>4, <1>5 DEF Picked, Passed
<1> QED BY <1>3, <1>6 DEF DropInv, Standing

\* Every step preserves it.
LEMMA DropStep == StreamInv /\ DropInv /\ [StreamNext]_streamVars => DropInv'
<1> SUFFICES ASSUME StreamInv, DropInv, [StreamNext]_streamVars PROVE DropInv'
  OBVIOUS
<1>1. ASSUME NEW f \in Frames, Send(f) PROVE DropInv'
  BY <1>1, DropSend
<1>2. ASSUME NEW f \in Frames, SendFails(f) PROVE DropInv'
  BY <1>2, DropRest DEF SendFails, Arriving
<1>3. CASE Close
  BY <1>3, DropRest DEF Close, Arriving
<1>4. CASE Gone
  BY <1>4, DropRest DEF Gone, Arriving
<1>5. ASSUME NEW p \in Pieces, Recv(p) PROVE DropInv'
  BY <1>5, DropRecv
<1>6. CASE RecvEof
  BY <1>6, DropRest DEF RecvEof, AtEof, Arriving
<1>7. CASE OtherBranch
  BY <1>7, DropDropped
<1>8. CASE UNCHANGED streamVars
  BY <1>8, DropRest DEF streamVars, Arriving
<1> QED BY <1>1, <1>2, <1>3, <1>4, <1>5, <1>6, <1>7, <1>8 DEF StreamNext

\* After a call was dropped in the middle of a text frame, however often and wherever
\* that happens, recv returns frames that were sent, in their order, each at most once:
\* some may be missing, but none is made of the rest of another.
THEOREM TextNeverInvents == StreamSpec => []NoneInvented
<1>1. DropInv => NoneInvented
  <2> SUFFICES ASSUME DropInv, lost = "text"
               PROVE  \E g \in [1 .. Len(got) -> 1 .. Len(sent)] :
                         /\ \A i \in 1 .. Len(got) : got[i] = sent[g[i]]
                         /\ \A i, j \in 1 .. Len(got) : i < j => g[i] < g[j]
    BY DEF NoneInvented
  <2>1. PICK g \in [1 .. Len(got) -> 1 .. Len(sent)] : Picked(g)
    BY DEF DropInv
  <2> QED BY <2>1 DEF Picked
<1> QED BY <1>1, InitDrop, DropStep, StreamAlways, PTL DEF StreamSpec

-----------------------------------------------------------------------------
(***************************************************************************)
(* Conflict copies, for every set of shared files and any number of merge  *)
(* commands, web requests, pulls and edits.                                *)
(***************************************************************************)

(***************************************************************************)
(* Names. No name holds the time of a pull that is yet to come, so a copy  *)
(* is made under a name that no file has.                                  *)
(***************************************************************************)
\* The words of names. The provers do not know that a literal is a string.
Token == STRING \cup {"-", "_", ".", "/", "sync", "conflict"}

Lacks(n, t) == \A i \in DOMAIN n : n[i] # t
Past(n, k) == n \in Seq(Token) /\ \A ts \in k + 1 .. MaxPulls : Lacks(n, Stamp[ts])

\* The names of files and machines are made of words.
LEMMA Words == Path \subseteq Seq(Token) /\ Fqn \in Seq(Token)
<1>1. ASSUME NEW s \in Seq(STRING) PROVE s \in Seq(Token)
  <2>1. Len(s) \in Nat /\ DOMAIN s = 1 .. Len(s) /\ s \in [1 .. Len(s) -> STRING]
    BY LenProperties
  <2>2. s \in [1 .. Len(s) -> Token]
    BY <2>1 DEF Token
  <2> QED BY <2>1, <2>2, SeqDef
<1> QED BY <1>1, MergeAssumption

\* No name of a file or of this machine holds the time of a pull.
LEMMA NoStamps ==
    ASSUME NEW t \in 1 .. MaxPulls
    PROVE  Lacks(Fqn, Stamp[t]) /\ \A p \in Path : Lacks(p, Stamp[t])
<1>1. \A s : \A i \in DOMAIN s : s[i] \in Range(s)
  BY DEF Range
<1>2. Stamp[t] \notin Range(Fqn) /\ \A p \in Path : Stamp[t] \notin Range(p)
  BY StampAssumption
<1> QED BY <1>1, <1>2 DEF Lacks

\* A set of positions that is not empty has a first and a last one, which Min and Max are.
LEMMA Ends ==
    ASSUME NEW k \in Nat, NEW T \in SUBSET (1 .. k), T # {}
    PROVE  Min(T) \in T /\ Max(T) \in T
<1>1. \E x \in T : \A y \in T : x <= y
  BY SmallestOf
<1> DEFINE U == {k - i : i \in T}
<1>2. U \in SUBSET Nat /\ U # {}
  <2>1. \A i \in T : k - i \in Nat /\ k - i \in U
    OBVIOUS
  <2> QED BY <2>1
<1>3. \E x \in U : \A y \in U : x <= y
  BY <1>2, SmallestOf
<1>4. \E x \in T : \A y \in T : x >= y
  BY <1>3
<1> QED BY <1>1, <1>4 DEF Min, Max


\* Cutting a name adds no token.
LEMMA Cut ==
    ASSUME NEW s \in Seq(Token), NEW a \in 1 .. Len(s) + 1, NEW b \in 0 .. Len(s)
    PROVE  /\ SubSeq(s, a, b) \in Seq(Token)
           /\ \A t : Lacks(s, t) => Lacks(SubSeq(s, a, b), t)
  BY DEF Lacks

\* Nor does joining two names.
LEMMA Join ==
    ASSUME NEW s1 \in Seq(Token), NEW s2 \in Seq(Token)
    PROVE  /\ s1 \o s2 \in Seq(Token)
           /\ \A t : Lacks(s1, t) /\ Lacks(s2, t) => Lacks(s1 \o s2, t)
<1>1. s1 \o s2 \in Seq(Token) /\ Len(s1) \in Nat /\ Len(s2) \in Nat
  BY ConcatProperties
<1>2. ASSUME NEW t, Lacks(s1, t), Lacks(s2, t), NEW i \in DOMAIN (s1 \o s2) PROVE (s1 \o s2)[i] # t
  <2>1. i \in 1 .. Len(s1) + Len(s2) /\ i \in Int
    BY <1>1, ConcatProperties
  <2>2. (s1 \o s2)[i] = IF i <= Len(s1) THEN s1[i] ELSE s2[i - Len(s1)]
    BY <2>1, ConcatProperties
  <2>3. CASE i <= Len(s1)
    BY <1>1, <1>2, <2>1, <2>2, <2>3 DEF Lacks
  <2>4. CASE ~ (i <= Len(s1))
    <3>1. i - Len(s1) \in 1 .. Len(s2)
      BY <1>1, <2>1, <2>4
    <3> QED BY <1>2, <2>2, <2>4, <3>1 DEF Lacks
  <2> QED BY <2>3, <2>4
<1> QED BY <1>1, <1>2 DEF Lacks

\* The first and the last of some token are positions of the name.
LEMMA PositionsOf ==
    ASSUME NEW s \in Seq(Token), NEW t, Positions(s, t) # {}
    PROVE  /\ Min(Positions(s, t)) \in 1 .. Len(s) /\ Max(Positions(s, t)) \in 1 .. Len(s)
           /\ s[Max(Positions(s, t))] = t
<1>1. Len(s) \in Nat /\ DOMAIN s = 1 .. Len(s) /\ Positions(s, t) \in SUBSET (1 .. Len(s))
  BY DEF Positions
<1>2. Min(Positions(s, t)) \in Positions(s, t) /\ Max(Positions(s, t)) \in Positions(s, t)
  BY <1>1, Ends
<1> QED BY <1>1, <1>2 DEF Positions

\* The directory and the last part of a name hold no token that the name lacks.
LEMMA PartsLack ==
    ASSUME NEW p \in Seq(Token)
    PROVE  /\ Parent(p) \in Seq(Token) /\ FileName(p) \in Seq(Token)
           /\ \A t : Lacks(p, t) => Lacks(Parent(p), t) /\ Lacks(FileName(p), t)
<1> DEFINE S == Positions(p, "/")
<1>1. CASE S = {}
  BY <1>1 DEF Parent, FileName, Lacks
<1>2. CASE S # {}
  <2>1. Max(S) \in 1 .. Len(p) /\ Len(p) \in Nat
    BY <1>2, PositionsOf
  <2>2. Parent(p) = SubSeq(p, 1, Max(S)) /\ FileName(p) = SubSeq(p, Max(S) + 1, Len(p))
    BY <1>2 DEF Parent, FileName, After
  <2> HIDE DEF S
  <2>3. /\ 1 \in 1 .. Len(p) + 1 /\ Max(S) \in 0 .. Len(p)
        /\ Max(S) + 1 \in 1 .. Len(p) + 1 /\ Len(p) \in 0 .. Len(p)
    BY <2>1
  <2> QED BY <2>2, <2>3, Cut
<1> QED BY <1>1, <1>2

\* Neither does the main file that a name leads to.
LEMMA MainLacks ==
    ASSUME NEW n \in Seq(Token)
    PROVE  main_name_of(n) \in Seq(Token) /\ \A t : Lacks(n, t) => Lacks(main_name_of(n), t)
<1> DEFINE stripped == IF IsPrefix(Prefix, n) THEN After(n, 5) ELSE n
           body == IF Positions(stripped, "-") = {} THEN <<>>
                   ELSE Before(stripped, Max(Positions(stripped, "-")))
<1>1. stripped \in Seq(Token) /\ \A t : Lacks(n, t) => Lacks(stripped, t)
  <2>1. CASE IsPrefix(Prefix, n)
    <3>1. Len(Prefix) = 5 /\ Len(n) \in Nat /\ 5 <= Len(n)
      BY <2>1 DEF IsPrefix, Prefix
    <3>2. 5 + 1 \in 1 .. Len(n) + 1 /\ Len(n) \in 0 .. Len(n)
      BY <3>1
    <3>3. stripped = SubSeq(n, 5 + 1, Len(n))
      BY <2>1 DEF After
    <3> HIDE DEF stripped
    <3> QED BY <3>2, <3>3, Cut
  <2>2. CASE ~ IsPrefix(Prefix, n)
    BY <2>2
  <2> QED BY <2>1, <2>2
<1> HIDE DEF stripped
<1>2. body \in Seq(Token) /\ \A t : Lacks(n, t) => Lacks(body, t)
  <2>1. CASE Positions(stripped, "-") = {}
    BY <2>1 DEF Lacks
  <2>2. CASE Positions(stripped, "-") # {}
    <3>1. Max(Positions(stripped, "-")) \in 1 .. Len(stripped) /\ Len(stripped) \in Nat
      BY <1>1, <2>2, PositionsOf
    <3>2. Max(Positions(stripped, "-")) - 1 \in 0 .. Len(stripped) /\ 1 \in 1 .. Len(stripped) + 1
      BY <3>1
    <3>3. body = SubSeq(stripped, 1, Max(Positions(stripped, "-")) - 1)
      BY <2>2 DEF Before
    <3> HIDE DEF body
    <3> QED BY <1>1, <3>2, <3>3, Cut
  <2> QED BY <2>1, <2>2
<1>3. main_name_of(n) = IF Positions(body, "-") = {} THEN body ELSE After(body, Min(Positions(body, "-")))
  BY DEF main_name_of, stripped
<1> HIDE DEF body
<1>4. CASE Positions(body, "-") = {}
  BY <1>2, <1>3, <1>4
<1>5. CASE Positions(body, "-") # {}
  <2>1. Min(Positions(body, "-")) \in 1 .. Len(body) /\ Len(body) \in Nat
    BY <1>2, <1>5, PositionsOf
  <2>2. Min(Positions(body, "-")) + 1 \in 1 .. Len(body) + 1 /\ Len(body) \in 0 .. Len(body)
    BY <2>1
  <2>3. main_name_of(n) = SubSeq(body, Min(Positions(body, "-")) + 1, Len(body))
    BY <1>3, <1>5 DEF After
  <2> QED BY <1>2, <2>2, <2>3, Cut
<1> QED BY <1>4, <1>5

\* Sanitizing brings in no token but "_".
LEMMA SanitizedWords ==
    ASSUME NEW s \in Seq(Token), NEW T
    PROVE  /\ Sanitized(s, T) \in Seq(Token) /\ Len(Sanitized(s, T)) = Len(s)
           /\ \A t : Lacks(s, t) /\ t # "_" => Lacks(Sanitized(s, T), t)
<1>1. Len(s) \in Nat /\ DOMAIN s = 1 .. Len(s) /\ \A i \in 1 .. Len(s) : s[i] \in Token
  OBVIOUS
<1>2. Sanitized(s, T) = [i \in 1 .. Len(s) |-> IF s[i] \in T THEN "_" ELSE s[i]]
  BY <1>1 DEF Sanitized
<1>3. Sanitized(s, T) \in [1 .. Len(s) -> Token]
  BY <1>1, <1>2 DEF Token
<1>4. Sanitized(s, T) \in Seq(Token)
  BY <1>1, <1>3, SeqDef
<1>5. Len(Sanitized(s, T)) = Len(s)
  BY <1>1, <1>3, <1>4
<1>6. \A t : Lacks(s, t) /\ t # "_" => Lacks(Sanitized(s, T), t)
  BY <1>1, <1>2 DEF Lacks
<1> QED BY <1>4, <1>5, <1>6

\* The name of a copy ends in the time of its pull, and holds no other time.
LEMMA CopyStamps ==
    ASSUME NEW p \in Path, NEW ts \in 1 .. MaxPulls
    PROVE  /\ CopyName(Fqn, p, ts) \in Seq(Token)
           /\ ~ Lacks(CopyName(Fqn, p, ts), Stamp[ts])
           /\ \A t \in 1 .. MaxPulls : t # ts => Lacks(CopyName(Fqn, p, ts), Stamp[t])
<1> DEFINE w == Parent(p) \o Prefix \o Sanitized(Fqn, {"/", "."}) \o <<"-">> \o Sanitized(p, {"/"})
           e == <<"-", Stamp[ts]>>
<1>1. /\ p \in Seq(Token) /\ Fqn \in Seq(Token) /\ \A t \in 1 .. MaxPulls : Stamp[t] \in Token
      /\ \A t \in 1 .. MaxPulls : Stamp[t] \notin {"-", "_", ".", "/", "sync", "conflict"}
      /\ \A t \in 1 .. MaxPulls : Stamp[t] = Stamp[ts] => t = ts
  BY Words, StampAssumption DEF Token
<1>2. \A t \in 1 .. MaxPulls : Lacks(Fqn, Stamp[t]) /\ Lacks(p, Stamp[t])
  BY NoStamps
<1>3. Prefix \in Seq(Token) /\ <<"-">> \in Seq(Token) /\ e \in Seq(Token)
  <2>1. {"-", ".", "sync", "conflict"} \subseteq Token /\ Stamp[ts] \in Token
    BY <1>1 DEF Token
  <2> QED BY <2>1 DEF Prefix
<1>4. \A t \in 1 .. MaxPulls : Lacks(Prefix, Stamp[t]) /\ Lacks(<<"-">>, Stamp[t]) /\ (t # ts => Lacks(e, Stamp[t]))
  <2>1. ASSUME NEW t \in 1 .. MaxPulls PROVE Lacks(Prefix, Stamp[t])
    <3>1. Len(Prefix) = 5 /\ DOMAIN Prefix = 1 .. 5
      BY DEF Prefix
    <3>2. Prefix[1] = "." /\ Prefix[2] = "sync" /\ Prefix[3] = "-" /\ Prefix[4] = "conflict" /\ Prefix[5] = "-"
      BY DEF Prefix
    <3>3. \A i \in 1 .. 5 : i = 1 \/ i = 2 \/ i = 3 \/ i = 4 \/ i = 5
      OBVIOUS
    <3> QED BY <1>1, <3>1, <3>2, <3>3 DEF Lacks
  <2>2. \A t \in 1 .. MaxPulls : Lacks(<<"-">>, Stamp[t]) /\ (t # ts => Lacks(e, Stamp[t]))
    <3>1. /\ DOMAIN <<"-">> = 1 .. 1 /\ <<"-">>[1] = "-"
          /\ DOMAIN e = 1 .. 2 /\ e[1] = "-" /\ e[2] = Stamp[ts]
      OBVIOUS
    <3>2. \A i \in 1 .. 2 : i = 1 \/ i = 2
      OBVIOUS
    <3>3. \A i \in 1 .. 1 : i = 1
      OBVIOUS
    <3> HIDE DEF e
    <3> QED BY <1>1, <3>1, <3>2, <3>3 DEF Lacks
  <2> QED BY <2>1, <2>2
<1>5. w \in Seq(Token) /\ \A t \in 1 .. MaxPulls : Lacks(w, Stamp[t])
  <2>1. /\ Parent(p) \in Seq(Token)
        /\ Sanitized(Fqn, {"/", "."}) \in Seq(Token) /\ Sanitized(p, {"/"}) \in Seq(Token)
        /\ \A t \in 1 .. MaxPulls : /\ Lacks(Parent(p), Stamp[t])
                                    /\ Lacks(Sanitized(Fqn, {"/", "."}), Stamp[t])
                                    /\ Lacks(Sanitized(p, {"/"}), Stamp[t])
    BY <1>1, <1>2, PartsLack, SanitizedWords
  <2> HIDE DEF e
  <2>2. /\ Parent(p) \o Prefix \in Seq(Token)
        /\ \A t \in 1 .. MaxPulls : Lacks(Parent(p) \o Prefix, Stamp[t])
    BY <2>1, <1>3, <1>4, Join
  <2>3. /\ Parent(p) \o Prefix \o Sanitized(Fqn, {"/", "."}) \in Seq(Token)
        /\ \A t \in 1 .. MaxPulls : Lacks(Parent(p) \o Prefix \o Sanitized(Fqn, {"/", "."}), Stamp[t])
    BY <2>1, <2>2, Join
  <2>4. /\ Parent(p) \o Prefix \o Sanitized(Fqn, {"/", "."}) \o <<"-">> \in Seq(Token)
        /\ \A t \in 1 .. MaxPulls : Lacks(Parent(p) \o Prefix \o Sanitized(Fqn, {"/", "."}) \o <<"-">>, Stamp[t])
    BY <2>3, <1>3, <1>4, Join
  <2> QED BY <2>1, <2>4, Join
<1>6. CopyName(Fqn, p, ts) = w \o e
  BY DEF CopyName
<1>7. (w \o e)[Len(w) + 2] = Stamp[ts] /\ Len(w) + 2 \in DOMAIN (w \o e)
  <2>1. Len(e) = 2 /\ e[2] = Stamp[ts]
    OBVIOUS
  <2> HIDE DEF w, e
  <2>2. Len(w) \in Nat
    BY <1>5
  <2>3. Len(w) + 2 \in 1 .. Len(w) + Len(e) /\ ~(Len(w) + 2 <= Len(w)) /\ Len(w) + 2 - Len(w) = 2
    BY <2>1, <2>2
  <2>4. w \o e \in Seq(Token) /\ Len(w \o e) = Len(w) + Len(e)
    BY <1>3, <1>5, ConcatProperties
  <2> QED BY <1>3, <1>5, <2>1, <2>3, <2>4, ConcatProperties
<1> HIDE DEF w, e
<1> QED BY <1>3, <1>4, <1>5, <1>6, <1>7, Join DEF Lacks

\* So a copy made now has a name that no file has.
LEMMA FreshCopy ==
    ASSUME NEW p \in Path, NEW k \in 0 .. MaxPulls - 1
    PROVE  /\ CopyName(Fqn, p, k + 1) \notin Path
           /\ \A n : Past(n, k) => n # CopyName(Fqn, p, k + 1)
           /\ Past(CopyName(Fqn, p, k + 1), k + 1)
<1>1. MaxPulls \in Nat /\ k + 1 \in 1 .. MaxPulls /\ k + 1 \in k + 1 .. MaxPulls
  BY MergeAssumption
<1>2. \A ts \in k + 1 + 1 .. MaxPulls : ts \in 1 .. MaxPulls /\ ts # k + 1
  BY <1>1
<1>3. \A q \in Path : Lacks(q, Stamp[k + 1])
  BY <1>1, NoStamps
<1> QED BY <1>1, <1>2, <1>3, CopyStamps DEF Past

\* A name that holds no later time, and the main file it leads to.
LEMMA PastNames ==
    ASSUME NEW k \in 0 .. MaxPulls
    PROVE  /\ \A p \in Path : Past(p, k)
           /\ \A n : Past(n, k) => Past(main_name_of(n), k) /\ Past(main_name_of(FileName(n)), k)
           /\ \A n : k < MaxPulls /\ Past(n, k) => Past(n, k + 1)
<1>1. MaxPulls \in Nat /\ \A ts \in k + 1 .. MaxPulls : ts \in 1 .. MaxPulls
  BY MergeAssumption
<1>2. \A p \in Path : Past(p, k)
  BY <1>1, Words, NoStamps DEF Past
<1>3. ASSUME NEW n, Past(n, k) PROVE Past(main_name_of(n), k) /\ Past(main_name_of(FileName(n)), k)
  <2>1. n \in Seq(Token)
    BY <1>3 DEF Past
  <2>2. FileName(n) \in Seq(Token)
    BY <2>1, PartsLack
  <2> QED BY <1>3, <2>1, <2>2, PartsLack, MainLacks DEF Past
<1>4. ASSUME NEW n, k < MaxPulls, Past(n, k) PROVE Past(n, k + 1)
  <2>1. \A ts \in k + 1 + 1 .. MaxPulls : ts \in k + 1 .. MaxPulls
    BY <1>1
  <2> QED BY <1>4, <2>1 DEF Past
<1> QED BY <1>2, <1>3, <1>4

(* The parts of the name of a copy, and where they stand in it. *)
CopyText(a, f, s, t) == a \o f \o <<"-">> \o s \o <<"-", t>>

Parts(a, f, s, t, n) ==
    /\ n \in Seq(Token)
    /\ Len(n) = Len(a) + Len(f) + Len(s) + 3
    /\ \A i \in 1 .. Len(a) : n[i] = a[i]
    /\ \A i \in 1 .. Len(f) : n[Len(a) + i] = f[i]
    /\ n[Len(a) + Len(f) + 1] = "-"
    /\ \A i \in 1 .. Len(s) : n[Len(a) + Len(f) + 1 + i] = s[i]
    /\ n[Len(a) + Len(f) + Len(s) + 2] = "-"
    /\ n[Len(a) + Len(f) + Len(s) + 3] = t

\* Where the tokens of the fqn, the path and the time stand in the text.
LEMMA CopyParts ==
    ASSUME NEW a \in Seq(Token), NEW f \in Seq(Token), NEW s \in Seq(Token), NEW t \in Token
    PROVE  Parts(a, f, s, t, CopyText(a, f, s, t))
<1> DEFINE d == a \o f
           e == d \o <<"-">>
           g == e \o s
           w == g \o <<"-", t>>
<1>0. "-" \in Token
  BY DEF Token
<1>l. /\ Len(a) \in Nat /\ Len(f) \in Nat /\ Len(s) \in Nat
      /\ <<"-">> \in Seq(Token) /\ <<"-", t>> \in Seq(Token)
      /\ Len(<<"-">>) = 1 /\ Len(<<"-", t>>) = 2
      /\ <<"-">>[1] = "-" /\ <<"-", t>>[1] = "-" /\ <<"-", t>>[2] = t
  BY <1>0
<1>2. /\ d \in Seq(Token) /\ Len(d) = Len(a) + Len(f)
      /\ \A i \in 1 .. Len(a) + Len(f) : d[i] = IF i <= Len(a) THEN a[i] ELSE f[i - Len(a)]
  BY ConcatProperties
<1> HIDE DEF d
<1>c. ASSUME NEW s1 \in Seq(Token), NEW s2 \in Seq(Token), NEW k \in Nat, Len(s2) = k
      PROVE  /\ s1 \o s2 \in Seq(Token) /\ Len(s1 \o s2) = Len(s1) + k
             /\ \A i \in 1 .. Len(s1) + k : (s1 \o s2)[i] = IF i <= Len(s1) THEN s1[i] ELSE s2[i - Len(s1)]
  BY <1>c, ConcatProperties
<1>3. /\ e \in Seq(Token) /\ Len(e) = Len(d) + 1
      /\ \A i \in 1 .. Len(d) + 1 : e[i] = IF i <= Len(d) THEN d[i] ELSE <<"-">>[i - Len(d)]
  BY <1>2, <1>l, <1>c
<1> HIDE DEF e
<1>4. /\ g \in Seq(Token) /\ Len(g) = Len(e) + Len(s)
      /\ \A i \in 1 .. Len(e) + Len(s) : g[i] = IF i <= Len(e) THEN e[i] ELSE s[i - Len(e)]
  BY <1>3, ConcatProperties
<1> HIDE DEF g
<1>5. /\ w \in Seq(Token) /\ Len(w) = Len(g) + 2
      /\ \A i \in 1 .. Len(g) + 2 : w[i] = IF i <= Len(g) THEN g[i] ELSE <<"-", t>>[i - Len(g)]
  BY <1>4, <1>l, <1>c
<1> HIDE DEF w
<1>a. /\ Len(d) = Len(a) + Len(f) /\ Len(e) = Len(a) + 1 + Len(f)
      /\ Len(g) = Len(a) + 1 + Len(f) + Len(s) /\ Len(w) = Len(a) + 3 + Len(f) + Len(s)
  BY <1>l, <1>2, <1>3, <1>4, <1>5
<1>b. \A i \in 1 .. Len(a) + Len(f) : w[i] = d[i]
  BY <1>l, <1>a, <1>2, <1>3, <1>4, <1>5
<1>6. \A i \in 1 .. Len(a) : w[i] = a[i]
  BY <1>l, <1>b, <1>2
<1>9. CopyText(a, f, s, t) = w
  BY DEF CopyText, w, g, e, d
<1>10. Len(w) = Len(a) + Len(f) + Len(s) + 3 /\ w[Len(a) + Len(f) + Len(s) + 3] = t
  <2>1. Len(w) \in 1 .. Len(g) + 2 /\ ~(Len(w) <= Len(g)) /\ Len(w) - Len(g) = 2 /\ Len(w) = Len(a) + Len(f) + Len(s) + 3
    BY <1>l, <1>a
  <2> QED BY <2>1, <1>l, <1>5
<1>11. ASSUME NEW i \in 1 .. Len(f) PROVE w[Len(a) + i] = f[i]
  <2> DEFINE j == Len(a) + i
  <2>1. j \in 1 .. Len(a) + Len(f) /\ ~(j <= Len(a)) /\ j - Len(a) = i
    BY <1>l
  <2> HIDE DEF j
  <2>2. w[j] = f[i]
    BY <2>1, <1>b, <1>2
  <2> QED BY <2>2 DEF j
<1>12. w[Len(a) + Len(f) + 1] = "-"
  <2> DEFINE j == Len(a) + Len(f) + 1
  <2>1. /\ j \in 1 .. Len(g) + 2 /\ j <= Len(g) /\ j \in 1 .. Len(e) + Len(s) /\ j <= Len(e)
        /\ j \in 1 .. Len(d) + 1 /\ ~(j <= Len(d)) /\ j - Len(d) = 1
    BY <1>l, <1>a
  <2> HIDE DEF j
  <2>2. w[j] = "-"
    BY <2>1, <1>l, <1>3, <1>4, <1>5
  <2> QED BY <2>2 DEF j
<1>13. ASSUME NEW i \in 1 .. Len(s) PROVE w[Len(a) + Len(f) + 1 + i] = s[i]
  <2> DEFINE j == Len(a) + Len(f) + 1 + i
  <2>1. /\ j \in 1 .. Len(g) + 2 /\ j <= Len(g) /\ j \in 1 .. Len(e) + Len(s) /\ ~(j <= Len(e))
        /\ j - Len(e) = i
    BY <1>l, <1>a
  <2> HIDE DEF j
  <2>2. w[j] = s[i]
    BY <2>1, <1>4, <1>5
  <2> QED BY <2>2 DEF j
<1>14. w[Len(a) + Len(f) + Len(s) + 2] = "-"
  <2> DEFINE j == Len(a) + Len(f) + Len(s) + 2
  <2>1. j \in 1 .. Len(g) + 2 /\ ~(j <= Len(g)) /\ j - Len(g) = 1
    BY <1>l, <1>a
  <2> HIDE DEF j
  <2>2. w[j] = "-"
    BY <2>1, <1>l, <1>5
  <2> QED BY <2>2 DEF j
<1> QED BY <1>5, <1>6, <1>9, <1>10, <1>11, <1>12, <1>13, <1>14 DEF Parts

\* The last of some positions is what Max takes, the first is what Min takes.
LEMMA EndsAre ==
    ASSUME NEW T \in SUBSET Nat, NEW x \in T
    PROVE  /\ (\A y \in T : y <= x) => Max(T) = x
           /\ (\A y \in T : x <= y) => Min(T) = x
<1>1. ASSUME \A y \in T : y <= x PROVE Max(T) = x
  <2>1. Max(T) \in T /\ \A y \in T : Max(T) >= y
    BY <1>1 DEF Max
  <2>2. Max(T) >= x /\ Max(T) <= x /\ Max(T) \in Nat
    BY <1>1, <2>1
  <2> QED BY <2>2
<1>2. ASSUME \A y \in T : x <= y PROVE Min(T) = x
  <2>1. Min(T) \in T /\ \A y \in T : Min(T) <= y
    BY <1>2 DEF Min
  <2>2. Min(T) >= x /\ Min(T) <= x /\ Min(T) \in Nat
    BY <1>2, <2>1
  <2> QED BY <2>2
<1> QED BY <1>1, <1>2

\* The name of a copy leads back to its file, for every fqn without a dash and every
\* file at the top of the directory, with dashes in its name or without: what merge
\* and the page write to is the file that the copy was made of.
THEOREM CopyLeadsBack ==
    ASSUME NEW fqn \in Seq(Token), NEW p \in Seq(Token), NEW ts \in 1 .. MaxPulls,
           "-" \notin Range(fqn), "/" \notin Range(p)
    PROVE  main_name_of(CopyName(fqn, p, ts)) = p
<1> DEFINE f == Sanitized(fqn, {"/", "."})
           t == Stamp[ts]
           n == CopyName(fqn, p, ts)
           stripped == After(n, 5)
           body == Before(stripped, Max(Positions(stripped, "-")))
<1>0. Prefix \in Seq(Token) /\ Len(Prefix) = 5
  <2>1. {"-", ".", "sync", "conflict"} \subseteq Token
    BY DEF Token
  <2> QED BY <2>1 DEF Prefix
<1>1. Len(fqn) \in Nat /\ DOMAIN fqn = 1 .. Len(fqn) /\ Len(p) \in Nat /\ DOMAIN p = 1 .. Len(p)
  OBVIOUS
<1>2. Parent(p) = <<>> /\ Sanitized(p, {"/"}) = p
  <2>1. \A i \in DOMAIN p : p[i] # "/"
    BY DEF Range
  <2>2. Parent(p) = <<>>
    BY <2>1 DEF Parent, Positions
  <2>3. Sanitized(p, {"/"}) = [i \in DOMAIN p |-> p[i]]
    BY <2>1 DEF Sanitized
  <2>4. p = [i \in DOMAIN p |-> p[i]]
    BY <1>1
  <2> QED BY <2>2, <2>3, <2>4
<1>3. f \in Seq(Token) /\ Len(f) \in Nat /\ \A i \in 1 .. Len(f) : f[i] # "-"
  <2>1. f \in Seq(Token)
    BY SanitizedWords
  <2>2. DOMAIN f = DOMAIN fqn /\ \A i \in DOMAIN fqn : f[i] # "-"
    BY DEF Sanitized, Range
  <2>3. DOMAIN f = 1 .. Len(f) /\ Len(f) \in Nat
    BY <2>1, LenProperties
  <2> QED BY <2>1, <2>2, <2>3
<1>4. t \in Token /\ t # "-"
  BY StampAssumption DEF Token
<1>5. n = CopyText(Prefix, f, p, t)
  <2>1. <<>> \o Prefix = Prefix
    BY <1>0, ConcatEmptySeq
  <2> QED BY <1>2, <2>1 DEF CopyName, CopyText
<1> HIDE DEF f, t, n
<1> DEFINE F == Len(f)
           P == Len(p)
<1>7. F \in Nat /\ P \in Nat
  BY <1>1, <1>3
<1>8. /\ n \in Seq(Token) /\ Len(n) = F + P + 8
      /\ \A i \in 1 .. 5 : n[i] = Prefix[i]
      /\ \A i \in 1 .. F : n[5 + i] = f[i]
      /\ n[F + 6] = "-"
      /\ \A i \in 1 .. P : n[F + 6 + i] = p[i]
      /\ n[F + P + 7] = "-" /\ n[F + P + 8] = t
  <2>1. Parts(Prefix, f, p, t, n)
    BY <1>0, <1>3, <1>4, <1>5, CopyParts
  <2>2. /\ n \in Seq(Token) /\ Len(n) = 5 + F + P + 3
        /\ \A i \in 1 .. 5 : n[i] = Prefix[i]
        /\ \A i \in 1 .. F : n[5 + i] = f[i]
        /\ n[5 + F + 1] = "-"
        /\ \A i \in 1 .. P : n[5 + F + 1 + i] = p[i]
        /\ n[5 + F + P + 2] = "-" /\ n[5 + F + P + 3] = t
    BY <2>1, <1>0 DEF Parts
  <2>3. 5 + F + P + 3 = F + P + 8 /\ 5 + F + 1 = F + 6 /\ 5 + F + P + 2 = F + P + 7
    BY <1>7
  <2> HIDE DEF F, P
  <2> QED BY <2>2, <2>3
<1>9. /\ stripped \in Seq(Token) /\ Len(stripped) = F + P + 3
      /\ \A i \in 1 .. F + P + 3 : stripped[i] = n[5 + i]
  <2> HIDE DEF F, P
  <2>0. \A i \in 1 .. Len(n) : n[i] \in Token
    BY <1>8
  <2>1. 6 \in Int /\ Len(n) \in Int /\ Len(n) = F + P + 8 /\ \A i \in 6 .. Len(n) : n[i] \in Token
    BY <1>7, <1>8, <2>0
  <2>2. stripped = SubSeq(n, 6, Len(n))
    BY DEF After
  <2> HIDE DEF stripped
  <2>3. /\ SubSeq(n, 6, Len(n)) \in Seq(Token)
        /\ Len(SubSeq(n, 6, Len(n))) = IF 6 <= Len(n) THEN Len(n) - 6 + 1 ELSE 0
        /\ \A i \in 1 .. Len(n) - 6 + 1 : SubSeq(n, 6, Len(n))[i] = n[6 + i - 1]
    BY <2>1, SubSeqProperties
  <2>4. 6 <= Len(n) /\ Len(n) - 6 + 1 = F + P + 3 /\ \A i \in 1 .. F + P + 3 : 6 + i - 1 = 5 + i
    BY <2>1, <1>7
  <2> QED BY <2>2, <2>3, <2>4
<1>p. IsPrefix(Prefix, n)
  <2> HIDE DEF F, P
  <2>1. 5 <= Len(n) /\ Len(n) \in Nat
    BY <1>7, <1>8
  <2>2. /\ SubSeq(Prefix, 1, 5) \in Seq(Token) /\ Len(SubSeq(Prefix, 1, 5)) = 5
        /\ \A i \in 1 .. 5 : SubSeq(Prefix, 1, 5)[i] = Prefix[i]
    <3>1. ASSUME NEW i \in 1 .. 5 PROVE Prefix[i] \in Token
      <4>1. i \in 1 .. Len(Prefix)
        BY <1>0
      <4> QED BY <1>0, <4>1, ElementOfSeq
    <3>2. 5 - 1 + 1 = 5 /\ \A i \in 1 .. 5 : 1 + i - 1 = i
      OBVIOUS
    <3> QED BY <3>1, <3>2, SubSeqProperties
  <2>3. /\ SubSeq(n, 1, 5) \in Seq(Token) /\ Len(SubSeq(n, 1, 5)) = 5
        /\ \A i \in 1 .. 5 : SubSeq(n, 1, 5)[i] = n[i]
    BY <1>8, <2>1
  <2>4. SubSeq(Prefix, 1, 5) = SubSeq(n, 1, 5)
    BY <1>8, <2>2, <2>3, SeqEqual
  <2> QED BY <1>0, <2>1, <2>4 DEF IsPrefix
<1> HIDE DEF F, P, stripped
<1>10. Max(Positions(stripped, "-")) = F + P + 2 /\ Positions(stripped, "-") # {}
  <2>1. F + P + 2 \in 1 .. F + P + 3 /\ 5 + (F + P + 2) = F + P + 7
    BY <1>7
  <2>2. F + P + 3 \in 1 .. F + P + 3 /\ 5 + (F + P + 3) = F + P + 8
    BY <1>7
  <2>3. DOMAIN stripped = 1 .. F + P + 3
    BY <1>9, LenProperties
  <2>4. F + P + 2 \in Positions(stripped, "-") /\ F + P + 3 \notin Positions(stripped, "-")
    BY <2>1, <2>2, <2>3, <1>4, <1>8, <1>9 DEF Positions
  <2>5. Positions(stripped, "-") \in SUBSET Nat /\ \A y \in Positions(stripped, "-") : y \in 1 .. F + P + 3
    BY <2>3, <1>7 DEF Positions
  <2>6. \A y \in Positions(stripped, "-") : y <= F + P + 2
    BY <2>4, <2>5, <1>7
  <2> QED BY <2>4, <2>5, <2>6, EndsAre
<1>11. /\ body \in Seq(Token) /\ Len(body) = F + P + 1
       /\ \A i \in 1 .. F + P + 1 : body[i] = n[5 + i]
  <2>1. (F + P + 2) - 1 = F + P + 1 /\ F + P + 1 \in 0 .. Len(stripped) /\ 1 \in 1 .. Len(stripped) + 1
    BY <1>7, <1>9
  <2>2. body = SubSeq(stripped, 1, F + P + 1)
    BY <2>1, <1>10 DEF Before
  <2>3. /\ SubSeq(stripped, 1, F + P + 1) \in Seq(Token) /\ Len(SubSeq(stripped, 1, F + P + 1)) = F + P + 1
        /\ \A i \in 1 .. F + P + 1 : SubSeq(stripped, 1, F + P + 1)[i] = stripped[i]
    BY <2>1, <1>7, <1>9, SubSeqProperties
  <2>4. \A i \in 1 .. F + P + 1 : i \in 1 .. F + P + 3
    BY <1>7
  <2> HIDE DEF body
  <2> QED BY <2>2, <2>3, <2>4, <1>9
<1>12. main_name_of(n) = IF Positions(body, "-") = {} THEN body ELSE After(body, Min(Positions(body, "-")))
  BY <1>p, <1>10 DEF main_name_of, stripped
<1> HIDE DEF body
<1>13. Min(Positions(body, "-")) = F + 1 /\ Positions(body, "-") # {}
  <2>1. DOMAIN body = 1 .. F + P + 1
    BY <1>11, LenProperties
  <2>2. F + 1 \in 1 .. F + P + 1 /\ 5 + (F + 1) = F + 6
    BY <1>7
  <2>3. F + 1 \in Positions(body, "-")
    BY <2>1, <2>2, <1>8, <1>11 DEF Positions
  <2>4. Positions(body, "-") \in SUBSET Nat /\ \A y \in Positions(body, "-") : y \in 1 .. F + P + 1 /\ body[y] = "-"
    BY <2>1, <1>7 DEF Positions
  <2>5. ASSUME NEW y \in Positions(body, "-") PROVE F + 1 <= y
    <3> SUFFICES ASSUME ~(F + 1 <= y) PROVE FALSE
      OBVIOUS
    <3>1. y \in 1 .. F /\ y \in 1 .. F + P + 1
      BY <2>4, <1>7
    <3>2. body[y] = f[y]
      BY <3>1, <1>8, <1>11
    <3> QED BY <3>1, <3>2, <2>4, <1>3 DEF F
  <2> QED BY <2>3, <2>4, <2>5, EndsAre
<1>14. After(body, F + 1) = p
  <2> DEFINE q == SubSeq(body, F + 2, F + P + 1)
  <2>1. After(body, F + 1) = q
    <3>1. (F + 1) + 1 = F + 2
      BY <1>7
    <3> QED BY <3>1, <1>11 DEF After
  <2>2. q \in Seq(Token) /\ Len(q) = P /\ \A i \in 1 .. P : q[i] = body[F + 1 + i]
    <3>1. F + 2 \in 1 .. Len(body) + 1 /\ F + P + 1 \in F + 1 .. Len(body)
      BY <1>7, <1>11
    <3>2. /\ SubSeq(body, F + 2, F + P + 1) \in Seq(Token)
          /\ Len(SubSeq(body, F + 2, F + P + 1)) = (F + P + 1) - (F + 2) + 1
          /\ \A i \in 1 .. (F + P + 1) - (F + 2) + 1 : SubSeq(body, F + 2, F + P + 1)[i] = body[(F + 2) + i - 1]
      <4>1. \A i \in 1 .. Len(body) : body[i] \in Token
        BY <1>11, ElementOfSeq
      <4>2. /\ F + 2 \in Int /\ F + P + 1 \in Int /\ \A i \in F + 2 .. F + P + 1 : i \in 1 .. Len(body)
            /\ (IF F + 2 <= F + P + 1 THEN (F + P + 1) - (F + 2) + 1 ELSE 0) = (F + P + 1) - (F + 2) + 1
        BY <1>7, <1>11
      <4>3. \A i \in F + 2 .. F + P + 1 : body[i] \in Token
        BY <4>1, <4>2
      <4> QED BY <4>2, <4>3, SubSeqProperties
    <3>3. (F + P + 1) - (F + 2) + 1 = P /\ \A i \in 1 .. P : (F + 2) + i - 1 = F + 1 + i
      BY <1>7
    <3> QED BY <3>2, <3>3
  <2> HIDE DEF q
  <2>3. ASSUME NEW i \in 1 .. P PROVE q[i] = p[i]
    <3>1. F + 1 + i \in 1 .. F + P + 1 /\ 5 + (F + 1 + i) = F + 6 + i
      BY <1>7
    <3> QED BY <3>1, <2>2, <1>8, <1>11
  <2>4. q = p
    BY <2>2, <2>3, SeqEqual DEF P
  <2> QED BY <2>1, <2>4
<1> QED BY <1>12, <1>13, <1>14 DEF n

-----------------------------------------------------------------------------
(***************************************************************************)
(* Who empties what. A process that has a removed file open is still       *)
(* writing it; a resolver that writes nothing is known to; a copy that is  *)
(* gone was removed by somebody who resolved it; and an empty file is      *)
(* being filled by a process that has not lost it.                         *)
(***************************************************************************)
Active == {"read", "found", "write", "fill", "remove"}

MergeType ==
    /\ \A n \in DOMAIN file : file[n] \in Nat
    /\ versions \in Nat
    /\ pulls \in 0 .. MaxPulls
    /\ pc \in [Resolver -> Active \cup {"idle", "done"}]
    /\ job \in [Resolver -> [copy : Seq(Token), main : Seq(Token), bytes : Nat,
                             choice : {"none", "local", "remote", "custom"}]]
    /\ pull \in [stage : {"none", "copy", "create", "fill"}, path : Seq(Token), copy : Seq(Token),
                 content : Nat, old : Nat, kept : {"equal", "copy", "failed"}]
    /\ pull.stage # "none" => pull.path \in Path /\ pull.content # 0

NameInv ==
    /\ \A n \in DOMAIN file : Past(n, pulls)
    /\ \A r \in Resolver : pc[r] # "idle" => Past(job[r].main, pulls)
    /\ pull.stage = "copy" => pull.copy \notin Path /\ Past(pull.copy, pulls)

OpenInv ==
    /\ \A r \in Resolver : r \in unlinked => pc[r] = "fill"
    /\ "pull" \in unlinked => pull.stage \in {"copy", "fill"}

JobInv ==
    \A r \in Resolver :
        /\ (pc[r] \in {"write", "fill"} /\ job[r].bytes = 0) => r \in blank
        /\ (pc[r] \in {"read", "found"} /\ job[r].copy \notin DOMAIN file) =>
              \E q \in Resolver : pc[q] = "done" /\ job[q].copy = job[r].copy

EmptyInv ==
    \A p \in Path \cap DOMAIN file :
        file[p] = 0 => \/ p \in broken
                       \/ pull.stage = "fill" /\ pull.path = p /\ "pull" \notin unlinked
                       \/ \E r \in Resolver : pc[r] = "fill" /\ job[r].main = p /\ r \notin unlinked

MergeInv == MergeType /\ NameInv /\ OpenInv /\ JobInv /\ EmptyInv

(***************************************************************************)
(* Where a version is. A resolver that is not stale writes what the copy   *)
(* still holds. A version that nobody had a reason to lose has a name that *)
(* no resolver is about to remove as a copy it has installed. The version  *)
(* that a pull has copied, if its look is not stale, is still in the file, *)
(* and in a second place.                                                  *)
(***************************************************************************)
Reading(q) == pc[q] \in {"write", "fill", "remove"} /\ job[q].choice = "local" /\ q \notin stale
Safe(n) == \A q \in Resolver : Reading(q) /\ pc[q] = "remove" => job[q].copy # n

ReadInv ==
    \A q \in Resolver : (Reading(q) /\ job[q].copy \in DOMAIN file) => file[job[q].copy] = job[q].bytes

KeptInv == \A x \in owed : \E n \in DOMAIN file : file[n] = x /\ Safe(n)

PullInv ==
    (pull.stage = "create" /\ pull.kept = "copy" /\ "pull" \notin stale) =>
        /\ pull.path \in DOMAIN file /\ file[pull.path] = pull.old
        /\ pull.old \in owed => \E n \in DOMAIN file \ {pull.path} : file[n] = pull.old /\ Safe(n)

VersionInv == MergeInv /\ ReadInv /\ KeptInv /\ PullInv

\* The initial states satisfy the first part of the invariant.
LEMMA InitMerge == Init => MergeInv
<1> SUFFICES ASSUME Init PROVE MergeInv
  OBVIOUS
<1>1. MaxPulls \in Nat /\ <<>> \in Seq(Token) /\ 0 \in 0 .. MaxPulls
  BY MergeAssumption
<1>2. MergeType
  BY <1>1 DEF Init, MergeType, NoJob, NoPull, Active
<1>3. NameInv
  BY <1>1, PastNames DEF Init, NameInv, NoPull
<1>4. OpenInv /\ JobInv /\ EmptyInv
  BY DEF Init, OpenInv, JobInv, EmptyInv
<1> QED BY <1>2, <1>3, <1>4 DEF MergeInv

\* What Put and Without make of the directory.
LEMMA PutFile ==
    ASSUME NEW n, NEW x, file' = Put(n, x)
    PROVE  /\ DOMAIN file' = DOMAIN file \cup {n}
           /\ file'[n] = x
           /\ \A m \in DOMAIN file : m # n => file'[m] = file[m]
  BY DEF Put

\* The same for a file that is removed.
LEMMA RemoveFile ==
    ASSUME NEW n, file' = Without(n)
    PROVE  /\ DOMAIN file' = DOMAIN file \ {n}
           /\ \A m \in DOMAIN file' : file'[m] = file[m]
  BY DEF Without

\* A step that moves no resolver and writes a name without a time to come, not emptying
\* a shared file: what remains to be shown of it is that the pull keeps to its rules.
LEMMA WriteMerge ==
    ASSUME MergeInv, NEW n, NEW x \in Nat, Past(n, pulls'), file' = Put(n, x),
           pulls' \in 0 .. MaxPulls, pulls' \in {pulls, pulls + 1}, versions' \in Nat,
           UNCHANGED <<pc, job, blank>>, unlinked' \subseteq unlinked,
           "pull" \in unlinked' => pull'.stage \in {"copy", "fill"},
           pull' \in [stage : {"none", "copy", "create", "fill"}, path : Seq(Token), copy : Seq(Token),
                      content : Nat, old : Nat, kept : {"equal", "copy", "failed"}],
           pull'.stage # "none" => pull'.path \in Path /\ pull'.content # 0,
           pull'.stage = "copy" => pull'.copy \notin Path /\ Past(pull'.copy, pulls'),
           \A r \in Resolver : r \in unlinked <=> r \in unlinked',
           broken \subseteq broken' \cup {n},
           pull.stage = "fill" => (pull' = pull /\ ("pull" \in unlinked' => "pull" \in unlinked)) \/ pull.path = n,
           (n \in Path /\ x = 0) => pull'.stage = "fill" /\ pull'.path = n /\ "pull" \notin unlinked'
    PROVE  MergeInv'
<1>t. MergeType /\ NameInv /\ OpenInv /\ JobInv /\ EmptyInv
  BY DEF MergeInv
<1>1. /\ DOMAIN file' = DOMAIN file \cup {n}
      /\ file'[n] = x
      /\ \A m \in DOMAIN file : m # n => file'[m] = file[m]
  BY PutFile
<1>2. MergeType'
  BY <1>1, <1>t DEF MergeType
<1>3. NameInv'
  <2>1. pulls \in 0 .. MaxPulls
    BY <1>t DEF MergeType
  <2>2. \A m : Past(m, pulls) => Past(m, pulls')
    <3>1. CASE pulls' = pulls
      BY <3>1
    <3>2. CASE pulls' = pulls + 1
      <4>1. pulls < MaxPulls
        BY <3>2, <2>1, MergeAssumption
      <4> QED BY <3>2, <4>1, <2>1, PastNames
    <3> QED BY <3>1, <3>2
  <2> QED BY <1>1, <2>2, <1>t DEF NameInv
<1>4. OpenInv'
  BY <1>t DEF OpenInv
<1>5. JobInv'
  BY <1>1, <1>t DEF JobInv
<1>6. EmptyInv'
  <2> SUFFICES ASSUME NEW p \in Path, p \in DOMAIN file', file'[p] = 0, p \notin broken'
               PROVE  \/ pull'.stage = "fill" /\ pull'.path = p /\ "pull" \notin unlinked'
                      \/ \E r \in Resolver : pc'[r] = "fill" /\ job'[r].main = p /\ r \notin unlinked'
    BY DEF EmptyInv
  <2>1. CASE p = n
    BY <2>1, <1>1
  <2>2. CASE p # n
    <3>1. p \in DOMAIN file /\ file[p] = 0 /\ p \notin broken
      BY <2>2, <1>1
    <3>2. \/ pull.stage = "fill" /\ pull.path = p /\ "pull" \notin unlinked
          \/ \E r \in Resolver : pc[r] = "fill" /\ job[r].main = p /\ r \notin unlinked
      BY <3>1, <1>t DEF EmptyInv
    <3> QED BY <3>2, <2>2
  <2> QED BY <2>1, <2>2
<1> QED BY <1>2, <1>3, <1>4, <1>5, <1>6 DEF MergeInv

\* The same for a step of the pull that writes nothing.
LEMMA IdleMerge ==
    ASSUME MergeInv, UNCHANGED <<file, pc, job, blank>>,
           pulls' \in 0 .. MaxPulls, pulls' \in {pulls, pulls + 1}, versions' \in Nat,
           unlinked' \subseteq unlinked,
           "pull" \in unlinked' => pull'.stage \in {"copy", "fill"},
           pull' \in [stage : {"none", "copy", "create", "fill"}, path : Seq(Token), copy : Seq(Token),
                      content : Nat, old : Nat, kept : {"equal", "copy", "failed"}],
           pull'.stage # "none" => pull'.path \in Path /\ pull'.content # 0,
           pull'.stage # "copy",
           \A r \in Resolver : r \in unlinked <=> r \in unlinked',
           broken \subseteq broken',
           pull.stage = "fill" => "pull" \in unlinked \/ pull.path \in broken'
    PROVE  MergeInv'
<1>t. MergeType /\ NameInv /\ OpenInv /\ JobInv /\ EmptyInv
  BY DEF MergeInv
<1>2. MergeType'
  BY <1>t DEF MergeType
<1>3. NameInv'
  <2>1. pulls \in 0 .. MaxPulls
    BY <1>t DEF MergeType
  <2>2. \A m : Past(m, pulls) => Past(m, pulls')
    <3>1. CASE pulls' = pulls
      BY <3>1
    <3>2. CASE pulls' = pulls + 1
      <4>1. pulls < MaxPulls
        BY <3>2, <2>1, MergeAssumption
      <4> QED BY <3>2, <4>1, <2>1, PastNames
    <3> QED BY <3>1, <3>2
  <2> QED BY <2>2, <1>t DEF NameInv
<1>4. OpenInv'
  BY <1>t DEF OpenInv
<1>5. JobInv'
  BY <1>t DEF JobInv
<1>6. EmptyInv'
  BY <1>t DEF EmptyInv
<1> QED BY <1>2, <1>3, <1>4, <1>5, <1>6 DEF MergeInv

\* The steps of the pull.
LEMMA PullMerge ==
    ASSUME MergeInv, Pull
    PROVE  MergeInv'
<1>t. MergeType /\ NameInv /\ OpenInv /\ JobInv /\ EmptyInv
  BY DEF MergeInv
<1>0. /\ "pull" \notin Resolver /\ MaxPulls \in Nat /\ Path \subseteq Seq(Token)
      /\ \A p \in Path : Past(p, pulls)
  BY <1>t, MergeAssumption, Words, PastNames DEF MergeType
<1> DEFINE PullType == [stage : {"none", "copy", "create", "fill"}, path : Seq(Token), copy : Seq(Token),
                        content : Nat, old : Nat, kept : {"equal", "copy", "failed"}]
<1>n. NoPull \in PullType /\ NoPull.stage = "none"
  <2>1. <<>> \in Seq(Token)
    OBVIOUS
  <2> QED BY <2>1 DEF NoPull
<1>1. ASSUME NEW p \in Path, NEW x \in Remote(p), PullCompare(p, x) PROVE MergeInv'
  <2> DEFINE copy == CopyName(Fqn, p, pulls + 1)
  <2>1. versions \in Nat /\ pulls \in 0 .. MaxPulls /\ pull = NoPull /\ pulls < MaxPulls /\ pulls' = pulls + 1
    BY <1>1, <1>t DEF PullCompare, MergeType
  <2>2. x \in Nat /\ x # 0
    BY <2>1, <1>t DEF Remote, Content, Exists, MergeType
  <2>3. /\ UNCHANGED <<pc, job, unlinked, blank, owed, broken>>
        /\ versions' = IF x > versions THEN x ELSE versions
    BY <1>1 DEF PullCompare, merge
  <2>4. pulls \in 0 .. MaxPulls - 1 /\ pulls' \in 0 .. MaxPulls /\ versions' \in Nat
    BY <2>1, <2>2, <2>3, <1>0
  <2>5. copy \notin Path /\ Past(copy, pulls') /\ copy \in Seq(Token)
    BY <2>1, <2>4, FreshCopy DEF Past
  <2>6. /\ pull'.stage \in {"copy", "create"} /\ pull'.path = p /\ pull'.copy = copy /\ pull'.content = x
        /\ pull' \in PullType
        /\ pull'.stage = "copy" => file' = Put(copy, 0)
        /\ pull'.stage = "create" => file' = file
    <3> DEFINE old == IF Exists(p) THEN file[p] ELSE 0
    <3>1. old \in Nat
      BY <1>t DEF Exists, MergeType
    <3>2. PICK s \in {"copy", "create"}, k \in {"equal", "copy", "failed"} :
             /\ pull' = [stage |-> s, path |-> p, copy |-> copy, content |-> x, old |-> old, kept |-> k]
             /\ s = "copy" => file' = Put(copy, 0)
             /\ s = "create" => file' = file
      BY <1>1 DEF PullCompare
    <3> HIDE DEF old, copy
    <3> QED BY <3>1, <3>2, <2>2, <2>5, <1>0
  <2>7. "pull" \notin unlinked
    BY <2>1, <1>n, <1>t DEF OpenInv
  <2> HIDE DEF copy, PullType
  <2>8. CASE pull'.stage = "copy"
    BY <2>1, <2>2, <2>3, <2>4, <2>5, <2>6, <2>7, <2>8, <1>n, WriteMerge DEF PullType
  <2>9. CASE pull'.stage = "create"
    BY <2>1, <2>2, <2>3, <2>4, <2>6, <2>7, <2>9, <1>n, IdleMerge DEF PullType
  <2> QED BY <2>6, <2>8, <2>9
<1>2. CASE PullCopy
  <2>1. /\ pull.stage = "copy" /\ UNCHANGED <<pc, job, versions, pulls, blank, broken>>
        /\ unlinked' = unlinked \ {"pull"}
    BY <1>2 DEF PullCopy, merge
  <2>2. PICK x \in Content(pull.path) \cup {pull.old} :
           /\ pull' = [pull EXCEPT !.stage = "create", !.old = x,
                                   !.kept = IF "pull" \in unlinked THEN "failed" ELSE "copy"]
           /\ file' = IF "pull" \in unlinked THEN file ELSE Put(pull.copy, x)
    BY <1>2 DEF PullCopy
  <2>3. pull \in PullType /\ pull.path \in Path /\ pull.content # 0 /\ versions \in Nat /\ pulls \in 0 .. MaxPulls
    BY <2>1, <1>t DEF MergeType
  <2>4. x \in Nat
    BY <2>3, <1>t DEF Content, Exists, MergeType
  <2>5. /\ pull' \in PullType /\ pull'.stage = "create" /\ pull'.path = pull.path
        /\ pull'.content = pull.content
    BY <2>2, <2>3, <2>4
  <2>6. pull.copy \notin Path /\ Past(pull.copy, pulls)
    BY <2>1, <1>t DEF NameInv
  <2> HIDE DEF PullType
  <2>7. CASE "pull" \in unlinked
    BY <1>0, <2>1, <2>2, <2>3, <2>5, <2>7, IdleMerge DEF PullType
  <2>8. CASE "pull" \notin unlinked
    BY <1>0, <2>1, <2>2, <2>3, <2>4, <2>5, <2>6, <2>8, WriteMerge DEF PullType
  <2> QED BY <2>7, <2>8
<1>3. CASE PullCreate
  <2>1. /\ pull.stage = "create" /\ UNCHANGED <<pc, job, versions, pulls, unlinked, blank, broken>>
        /\ file' = Put(pull.path, 0) /\ pull' = [pull EXCEPT !.stage = "fill"]
    BY <1>3 DEF PullCreate, merge
  <2>2. pull \in PullType /\ pull.path \in Path /\ pull.content # 0 /\ versions \in Nat /\ pulls \in 0 .. MaxPulls
    BY <2>1, <1>t DEF MergeType
  <2>3. pull' \in PullType /\ pull'.stage = "fill" /\ pull'.path = pull.path /\ pull'.content = pull.content
    BY <2>1, <2>2
  <2>4. "pull" \notin unlinked
    BY <2>1, <1>t DEF OpenInv
  <2> HIDE DEF PullType
  <2> QED BY <1>0, <2>1, <2>2, <2>3, <2>4, WriteMerge DEF PullType
<1>4. CASE PullFill
  <2>1. /\ pull.stage = "fill" /\ UNCHANGED <<pc, job, versions, pulls, blank>>
        /\ unlinked' = unlinked \ {"pull"} /\ pull' = NoPull
        /\ "pull" \notin unlinked => file' = Put(pull.path, pull.content) /\ broken' = broken \ {pull.path}
        /\ "pull" \in unlinked => file' = file /\ broken' = broken
    BY <1>4 DEF PullFill, merge
  <2>2. pull.path \in Path /\ pull.content # 0 /\ pull.content \in Nat /\ versions \in Nat /\ pulls \in 0 .. MaxPulls
    BY <2>1, <1>t DEF MergeType
  <2> HIDE DEF PullType
  <2>3. CASE "pull" \in unlinked
    BY <1>0, <1>n, <2>1, <2>2, <2>3, IdleMerge DEF PullType
  <2>4. CASE "pull" \notin unlinked
    BY <1>0, <1>n, <2>1, <2>2, <2>4, WriteMerge DEF PullType
  <2> QED BY <2>3, <2>4
<1>5. CASE PullKilled
  <2>1. /\ UNCHANGED <<file, pc, job, versions, pulls, blank>>
        /\ unlinked' = unlinked \ {"pull"} /\ pull' = NoPull
        /\ broken' = IF pull.stage = "fill" THEN broken \cup {pull.path} ELSE broken
    BY <1>5 DEF PullKilled, merge
  <2>2. versions \in Nat /\ pulls \in 0 .. MaxPulls
    BY <1>t DEF MergeType
  <2> HIDE DEF PullType
  <2> QED BY <1>0, <1>n, <2>1, <2>2, IdleMerge DEF PullType
<1> QED BY <1>1, <1>2, <1>3, <1>4, <1>5 DEF Pull

\* A step of one resolver that touches no file, and what it must keep.
LEMMA ResolverStep ==
    ASSUME MergeInv, NEW r \in Resolver, NEW c, NEW j, pc' = [pc EXCEPT ![r] = c], job' = [job EXCEPT ![r] = j],
           UNCHANGED <<file, pull, pulls>>, versions' \in Nat,
           pc[r] # "done", c \in Active \cup {"done"}, c # "fill",
           j \in [copy : Seq(Token), main : Seq(Token), bytes : Nat,
                  choice : {"none", "local", "remote", "custom"}],
           Past(j.main, pulls),
           c \in {"read", "found"} => j.copy \in DOMAIN file,
           (c = "write" /\ j.bytes = 0) => r \in blank',
           \A q \in Resolver : q # r /\ q \in blank => q \in blank',
           \A q : q # r => (q \in unlinked <=> q \in unlinked'), r \notin unlinked',
           broken \subseteq broken', pc[r] = "fill" => job[r].main \in broken'
    PROVE  MergeInv'
<1>t. MergeType /\ NameInv /\ OpenInv /\ JobInv /\ EmptyInv
  BY DEF MergeInv
<1>0. /\ pc'[r] = c /\ job'[r] = j /\ r # "pull"
      /\ \A q \in Resolver : q # r => pc'[q] = pc[q] /\ job'[q] = job[q]
  BY <1>t, MergeAssumption DEF MergeType
<1>1. MergeType'
  BY <1>t DEF MergeType
<1>2. NameInv'
  BY <1>0, <1>t DEF NameInv
<1>3. OpenInv'
  BY <1>0, <1>t DEF OpenInv
<1>4. JobInv'
  <2> SUFFICES ASSUME NEW q \in Resolver
               PROVE  /\ (pc'[q] \in {"write", "fill"} /\ job'[q].bytes = 0) => q \in blank'
                      /\ (pc'[q] \in {"read", "found"} /\ job'[q].copy \notin DOMAIN file') =>
                            \E s \in Resolver : pc'[s] = "done" /\ job'[s].copy = job'[q].copy
    BY DEF JobInv
  <2>1. CASE q = r
    BY <2>1, <1>0
  <2>2. CASE q # r
    <3>1. pc'[q] = pc[q] /\ job'[q] = job[q]
      BY <1>0, <2>2
    <3>2. ASSUME pc[q] \in {"read", "found"}, job[q].copy \notin DOMAIN file
          PROVE  \E s \in Resolver : pc'[s] = "done" /\ job'[s].copy = job[q].copy
      <4>1. PICK s \in Resolver : pc[s] = "done" /\ job[s].copy = job[q].copy
        BY <3>2, <1>t DEF JobInv
      <4> QED BY <4>1, <1>0
    <3> QED BY <3>1, <3>2, <2>2, <1>t DEF JobInv
  <2> QED BY <2>1, <2>2
<1>5. EmptyInv'
  <2> SUFFICES ASSUME NEW p \in Path, p \in DOMAIN file, file[p] = 0, p \notin broken'
               PROVE  \/ pull.stage = "fill" /\ pull.path = p /\ "pull" \notin unlinked'
                      \/ \E q \in Resolver : pc'[q] = "fill" /\ job'[q].main = p /\ q \notin unlinked'
    BY DEF EmptyInv
  <2>1. \/ pull.stage = "fill" /\ pull.path = p /\ "pull" \notin unlinked
        \/ \E q \in Resolver : pc[q] = "fill" /\ job[q].main = p /\ q \notin unlinked
    BY <1>t DEF EmptyInv
  <2>2. ASSUME NEW q \in Resolver, pc[q] = "fill", job[q].main = p, q \notin unlinked
        PROVE  pc'[q] = "fill" /\ job'[q].main = p /\ q \notin unlinked'
    BY <2>2, <1>0
  <2> QED BY <2>1, <2>2, <1>0
<1> QED BY <1>1, <1>2, <1>3, <1>4, <1>5 DEF MergeInv

\* An active resolver moves on, or ends, and leaves its job alone.
LEMMA PlaceStep ==
    ASSUME MergeInv, NEW r \in Resolver, pc[r] \in Active, NEW c \in {"found", "done"},
           c = "found" => job[r].copy \in DOMAIN file,
           pc' = [pc EXCEPT ![r] = c], UNCHANGED <<file, pull, job, versions, pulls>>,
           \A q \in Resolver : q # r /\ q \in blank => q \in blank',
           \A q : q # r => (q \in unlinked <=> q \in unlinked'), r \notin unlinked',
           broken' = IF pc[r] = "fill" THEN broken \cup {job[r].main} ELSE broken
    PROVE  MergeInv'
<1>1. MergeType /\ NameInv /\ pc[r] # "idle" /\ pc[r] # "done"
  BY DEF MergeInv, Active
<1>2. job' = [job EXCEPT ![r] = job[r]] /\ versions' \in Nat
  BY <1>1 DEF MergeType
<1>3. /\ job[r] \in [copy : Seq(Token), main : Seq(Token), bytes : Nat,
                     choice : {"none", "local", "remote", "custom"}]
      /\ Past(job[r].main, pulls)
  BY <1>1 DEF MergeType, NameInv
<1>4. c \in Active \cup {"done"} /\ c # "fill" /\ c # "write" /\ c # "read"
  BY DEF Active
<1> QED BY <1>1, <1>2, <1>3, <1>4, ResolverStep

\* Reading: the bytes are those of the copy, or the user's own; an empty text is known.
LEMMA ReadMerge ==
    ASSUME MergeInv, NEW r \in Resolver, Read(r) \/ ReadCustom(r)
    PROVE  MergeInv'
<1>1. MergeType /\ NameInv /\ OpenInv /\ JobInv
  BY DEF MergeInv
<1>2. /\ pc[r] = "found" /\ pc' = [pc EXCEPT ![r] = "write"]
      /\ UNCHANGED <<file, pull, unlinked, pulls, broken>>
  BY DEF Read, ReadCustom
<1>3. /\ job[r] \in [copy : Seq(Token), main : Seq(Token), bytes : Nat,
                     choice : {"none", "local", "remote", "custom"}]
      /\ Past(job[r].main, pulls) /\ r \notin unlinked /\ versions \in Nat
  BY <1>1, <1>2 DEF MergeType, NameInv, OpenInv
<1>4. \E b \in Nat :
         /\ job' = [job EXCEPT ![r].bytes = b]
         /\ b = 0 => r \in blank'
         /\ blank \subseteq blank'
         /\ versions' \in Nat
  <2>1. CASE Read(r)
    <3> DEFINE n == job[r].copy
               b == IF Exists(n) THEN file[n] ELSE 0
    <3>1. b \in Nat
      BY <1>1 DEF Exists, MergeType
    <3>2. job' = [job EXCEPT ![r].bytes = b] /\ versions' \in Nat /\ blank \subseteq blank'
      BY <2>1, <1>3 DEF Read
    <3>3. ASSUME b = 0 PROVE r \in blank'
      <4>1. CASE Exists(n)
        <5>1. Content(n) = {0}
          BY <3>3, <4>1 DEF Content
        <5> QED BY <2>1, <5>1 DEF Read
      <4>2. CASE ~ Exists(n)
        <5>1. \E q \in Resolver : pc[q] = "done" /\ job[q].copy = n
          BY <4>2, <1>1, <1>2 DEF JobInv, Exists
        <5> QED BY <2>1, <4>2, <5>1 DEF Read
      <4> QED BY <4>1, <4>2
    <3> HIDE DEF b
    <3> QED BY <3>1, <3>2, <3>3
  <2>2. CASE ReadCustom(r)
    <3>1. versions + 1 \in Nat /\ versions + 1 # 0 /\ 0 \in Nat
      BY <1>3
    <3> QED BY <2>2, <3>1, <1>3 DEF ReadCustom
  <2> QED BY <2>1, <2>2
<1>5. PICK b \in Nat :
         /\ job' = [job EXCEPT ![r].bytes = b]
         /\ b = 0 => r \in blank'
         /\ blank \subseteq blank'
         /\ versions' \in Nat
  BY <1>4
<1> DEFINE j == [job[r] EXCEPT !.bytes = b]
<1>6. job' = [job EXCEPT ![r] = j]
  BY <1>5
<1>7. /\ j \in [copy : Seq(Token), main : Seq(Token), bytes : Nat,
                choice : {"none", "local", "remote", "custom"}]
      /\ j.main = job[r].main /\ j.bytes = b
  BY <1>3
<1> HIDE DEF j
<1>8. "write" \in Active
  BY DEF Active
<1> QED BY <1>2, <1>3, <1>5, <1>6, <1>7, <1>8, ResolverStep

\* A user picks a file that is there.
LEMMA BeginMerge ==
    ASSUME MergeInv, NEW r \in Resolver, NEW n \in DOMAIN file, NEW choice \in {"local", "remote", "custom"},
           Begin(r, n, choice)
    PROVE  MergeInv'
<1>1. MergeType /\ NameInv /\ OpenInv
  BY DEF MergeInv
<1> DEFINE main == main_name_of(IF r \in Cli THEN FileName(n) ELSE n)
           j == [copy |-> n, main |-> main, choice |-> choice, bytes |-> 0]
           c == IF choice = "remote" THEN "remove" ELSE "read"
<1>2. /\ pc[r] = "idle" /\ UNCHANGED <<file, pull, unlinked, versions, pulls, blank, broken>>
      /\ job' = [job EXCEPT ![r] = j] /\ pc' = [pc EXCEPT ![r] = c]
  BY DEF Begin, history
<1>3. Past(n, pulls) /\ pulls \in 0 .. MaxPulls /\ r \notin unlinked /\ versions \in Nat
  BY <1>1, <1>2 DEF NameInv, MergeType, OpenInv
<1>4. Past(main, pulls)
  BY <1>3, PastNames
<1>5. main \in Seq(Token) /\ n \in Seq(Token)
  BY <1>3, <1>4 DEF Past
<1> HIDE DEF main
<1>6. /\ j \in [copy : Seq(Token), main : Seq(Token), bytes : Nat,
                choice : {"none", "local", "remote", "custom"}]
      /\ j.copy = n /\ j.main = main
  BY <1>5
<1>7. c \in Active \cup {"done"} /\ c # "fill" /\ c # "write"
  BY DEF Active
<1> HIDE DEF j, c
<1> QED BY <1>2, <1>3, <1>4, <1>6, <1>7, ResolverStep

\* Truncating empties the main file, and the resolver is known to be filling it.
LEMMA TruncateMerge ==
    ASSUME MergeInv, NEW r \in Resolver, Truncate(r)
    PROVE  MergeInv'
<1>t. MergeType /\ NameInv /\ OpenInv /\ JobInv /\ EmptyInv
  BY DEF MergeInv
<1>1. /\ pc[r] = "write" /\ pc' = [pc EXCEPT ![r] = "fill"] /\ file' = Put(job[r].main, 0)
      /\ UNCHANGED <<pull, job, unlinked, versions, pulls, blank, broken>>
  BY DEF Truncate, Main
<1>2. /\ DOMAIN file' = DOMAIN file \cup {job[r].main} /\ file'[job[r].main] = 0
      /\ \A m \in DOMAIN file : m # job[r].main => file'[m] = file[m]
  BY <1>1, PutFile
<1>3. pc'[r] = "fill" /\ \A q \in Resolver : q # r => pc'[q] = pc[q]
  BY <1>1, <1>t DEF MergeType
<1>4. r \notin unlinked /\ Past(job[r].main, pulls)
  BY <1>1, <1>t DEF OpenInv, NameInv
<1>5. MergeType'
  <2>1. \A m \in DOMAIN file' : file'[m] \in Nat
    BY <1>2, <1>t DEF MergeType
  <2>2. pc' \in [Resolver -> Active \cup {"idle", "done"}]
    BY <1>1, <1>t DEF MergeType, Active
  <2> QED BY <2>1, <2>2, <1>1, <1>t DEF MergeType
<1>6. NameInv' /\ OpenInv'
  BY <1>1, <1>2, <1>3, <1>4, <1>t DEF NameInv, OpenInv
<1>7. JobInv'
  BY <1>1, <1>2, <1>3, <1>t DEF JobInv
<1>8. EmptyInv'
  <2> SUFFICES ASSUME NEW p \in Path, p \in DOMAIN file', file'[p] = 0, p \notin broken
               PROVE  \/ pull.stage = "fill" /\ pull.path = p /\ "pull" \notin unlinked
                      \/ \E q \in Resolver : pc'[q] = "fill" /\ job[q].main = p /\ q \notin unlinked
    BY <1>1 DEF EmptyInv
  <2>1. CASE p = job[r].main
    BY <2>1, <1>3, <1>4
  <2>2. CASE p # job[r].main
    <3>1. p \in DOMAIN file /\ file[p] = 0
      BY <2>2, <1>2
    <3> QED BY <3>1, <1>1, <1>3, <1>t DEF EmptyInv
  <2> QED BY <2>1, <2>2
<1> QED BY <1>5, <1>6, <1>7, <1>8 DEF MergeInv

\* Filling with nothing happens only for a reason that is known.
LEMMA FillMerge ==
    ASSUME MergeInv, NEW r \in Resolver, Fill(r)
    PROVE  MergeInv'
<1>t. MergeType /\ NameInv /\ OpenInv /\ JobInv /\ EmptyInv
  BY DEF MergeInv
<1>1. /\ pc[r] = "fill" /\ pc' = [pc EXCEPT ![r] = "remove"]
      /\ UNCHANGED <<pull, job, versions, pulls>>
      /\ unlinked' = unlinked \ {r} /\ blank' = blank \ {r}
      /\ r \in unlinked => file' = file /\ broken' = broken
      /\ r \notin unlinked => file' = Put(job[r].main, job[r].bytes)
      /\ r \notin unlinked => broken' = IF job[r].bytes # 0 THEN broken \ {job[r].main}
                                        ELSE IF r \in blank THEN broken \cup {job[r].main} ELSE broken
  BY DEF Fill, Main
<1>2. job[r].bytes \in Nat /\ Past(job[r].main, pulls) /\ (job[r].bytes = 0 => r \in blank)
  BY <1>1, <1>t DEF NameInv, MergeType, JobInv
<1>3. r \notin unlinked =>
        /\ DOMAIN file' = DOMAIN file \cup {job[r].main} /\ file'[job[r].main] = job[r].bytes
        /\ \A m \in DOMAIN file : m # job[r].main => file'[m] = file[m]
  BY <1>1, PutFile
<1>4. pc'[r] = "remove" /\ r # "pull" /\ \A q \in Resolver : q # r => pc'[q] = pc[q]
  BY <1>1, <1>t, MergeAssumption DEF MergeType
<1>5. MergeType'
  BY <1>1, <1>2, <1>3, <1>t DEF MergeType, Active
<1>6. NameInv' /\ OpenInv'
  <2>1. NameInv'
    BY <1>1, <1>2, <1>3, <1>4, <1>t DEF NameInv
  <2>2. OpenInv'
    BY <1>1, <1>4, <1>t DEF OpenInv
  <2> QED BY <2>1, <2>2
<1>7. JobInv'
  <2>1. DOMAIN file \subseteq DOMAIN file'
    BY <1>1, <1>3
  <2>2. \A q \in Resolver : q # r /\ q \in blank => q \in blank'
    BY <1>1
  <2> QED BY <2>1, <2>2, <1>1, <1>4, <1>t DEF JobInv
<1>8. EmptyInv'
  <2> SUFFICES ASSUME NEW p \in Path, p \in DOMAIN file', file'[p] = 0, p \notin broken'
               PROVE  \/ pull.stage = "fill" /\ pull.path = p /\ "pull" \notin unlinked'
                      \/ \E q \in Resolver : pc'[q] = "fill" /\ job[q].main = p /\ q \notin unlinked'
    BY <1>1 DEF EmptyInv
  <2>1. r \notin unlinked => p # job[r].main
    BY <1>1, <1>2, <1>3
  <2>2. p \in DOMAIN file /\ file[p] = 0 /\ p \notin broken
    BY <2>1, <1>1, <1>3
  <2>3. \/ pull.stage = "fill" /\ pull.path = p /\ "pull" \notin unlinked
        \/ \E q \in Resolver : pc[q] = "fill" /\ job[q].main = p /\ q \notin unlinked
    BY <2>2, <1>t DEF EmptyInv
  <2>4. ASSUME NEW q \in Resolver, pc[q] = "fill", job[q].main = p, q \notin unlinked
        PROVE  pc'[q] = "fill" /\ q \notin unlinked'
    BY <2>1, <2>4, <1>1, <1>4
  <2> QED BY <2>3, <2>4, <1>1
<1> QED BY <1>5, <1>6, <1>7, <1>8 DEF MergeInv

\* Removing a copy leaves it to the others who resolve it to find it gone, and takes
\* it from those who have it open.
LEMMA RemoveCopyMerge ==
    ASSUME MergeInv, NEW r \in Resolver, RemoveCopy(r)
    PROVE  MergeInv'
<1>t. MergeType /\ NameInv /\ OpenInv /\ JobInv /\ EmptyInv
  BY DEF MergeInv
<1> DEFINE n == job[r].copy
<1>1. /\ pc[r] = "remove" /\ pc' = [pc EXCEPT ![r] = "done"] /\ file' = Without(n)
      /\ unlinked' = unlinked \cup Writers(n)
      /\ UNCHANGED <<pull, job, versions, pulls, blank, broken>>
  BY DEF RemoveCopy
<1>2. /\ DOMAIN file' = DOMAIN file \ {n}
      /\ \A m \in DOMAIN file' : file'[m] = file[m]
  BY <1>1, RemoveFile
<1>3. pc'[r] = "done" /\ \A q \in Resolver : q # r => pc'[q] = pc[q]
  BY <1>1, <1>t DEF MergeType
<1>4. /\ \A q \in Resolver : q \in Writers(n) => pc[q] = "fill" /\ job[q].main = n
      /\ "pull" \in Writers(n) => \/ pull.stage = "copy"
                                  \/ pull.stage = "fill" /\ pull.path = n
  BY MergeAssumption DEF Writers, Main
<1>5. MergeType'
  <2>1. \A m \in DOMAIN file' : file'[m] \in Nat
    BY <1>2, <1>t DEF MergeType
  <2>2. pc' \in [Resolver -> Active \cup {"idle", "done"}]
    BY <1>1, <1>t DEF MergeType
  <2> QED BY <2>1, <2>2, <1>1, <1>t DEF MergeType
<1>6. NameInv'
  BY <1>1, <1>2, <1>3, <1>t DEF NameInv
<1>7. OpenInv'
  BY <1>1, <1>3, <1>4, <1>t DEF OpenInv
<1>8. JobInv'
  <2> SUFFICES ASSUME NEW q \in Resolver
               PROVE  /\ (pc'[q] \in {"write", "fill"} /\ job[q].bytes = 0) => q \in blank
                      /\ (pc'[q] \in {"read", "found"} /\ job[q].copy \notin DOMAIN file') =>
                            \E s \in Resolver : pc'[s] = "done" /\ job[s].copy = job[q].copy
    BY <1>1 DEF JobInv
  <2>1. CASE q = r
    BY <2>1, <1>3
  <2>2. CASE q # r
    <3>1. ASSUME pc[q] \in {"read", "found"}, job[q].copy \notin DOMAIN file'
          PROVE  \E s \in Resolver : pc'[s] = "done" /\ job[s].copy = job[q].copy
      <4>1. CASE job[q].copy = n
        BY <4>1, <1>3
      <4>2. CASE job[q].copy # n
        <5>1. PICK s \in Resolver : pc[s] = "done" /\ job[s].copy = job[q].copy
          BY <3>1, <4>2, <1>2, <1>t DEF JobInv
        <5> QED BY <5>1, <1>3
      <4> QED BY <4>1, <4>2
    <3> QED BY <3>1, <2>2, <1>3, <1>t DEF JobInv
  <2> QED BY <2>1, <2>2
<1>9. EmptyInv'
  <2> SUFFICES ASSUME NEW p \in Path, p \in DOMAIN file', file'[p] = 0, p \notin broken
               PROVE  \/ pull.stage = "fill" /\ pull.path = p /\ "pull" \notin unlinked'
                      \/ \E q \in Resolver : pc'[q] = "fill" /\ job[q].main = p /\ q \notin unlinked'
    BY <1>1 DEF EmptyInv
  <2>1. p \in DOMAIN file /\ file[p] = 0 /\ p # n
    BY <1>2
  <2>2. \/ pull.stage = "fill" /\ pull.path = p /\ "pull" \notin unlinked
        \/ \E q \in Resolver : pc[q] = "fill" /\ job[q].main = p /\ q \notin unlinked
    BY <2>1, <1>t DEF EmptyInv
  <2>3. ASSUME NEW q \in Resolver, pc[q] = "fill", job[q].main = p, q \notin unlinked
        PROVE  pc'[q] = "fill" /\ q \notin unlinked'
    BY <2>1, <2>3, <1>1, <1>3, <1>4
  <2> QED BY <2>1, <2>2, <2>3, <1>1, <1>4
<1> QED BY <1>5, <1>6, <1>7, <1>8, <1>9 DEF MergeInv

\* Every step keeps the first part of the invariant.
LEMMA MergeStep == MergeInv /\ [Next]_vars => MergeInv'
<1> SUFFICES ASSUME MergeInv, [Next]_vars PROVE MergeInv'
  OBVIOUS
<1>2. ASSUME NEW p \in Path, Edit(p) PROVE MergeInv'
  <2>1. /\ versions \in Nat /\ pulls \in 0 .. MaxPulls
        /\ pull \in [stage : {"none", "copy", "create", "fill"}, path : Seq(Token), copy : Seq(Token),
                     content : Nat, old : Nat, kept : {"equal", "copy", "failed"}]
        /\ pull.stage # "none" => pull.path \in Path /\ pull.content # 0
        /\ pull.stage = "copy" => pull.copy \notin Path /\ Past(pull.copy, pulls)
        /\ "pull" \in unlinked => pull.stage \in {"copy", "fill"}
    BY DEF MergeInv, MergeType, NameInv, OpenInv
  <2>2. /\ file' = Put(p, versions + 1) /\ broken' = broken \ {p} /\ UNCHANGED <<pull, pulls, pc, job, unlinked, blank>>
        /\ versions' = versions + 1
    BY <1>2 DEF Edit, merge
  <2>3. versions + 1 \in Nat /\ versions + 1 # 0 /\ Past(p, pulls)
    BY <2>1, PastNames
  <2> QED BY <2>1, <2>2, <2>3, WriteMerge
<1>4. ASSUME NEW r \in Resolver, Refuse(r) \/ Found(r) \/ ReadFails(r) \/ WriteFails(r) PROVE MergeInv'
  <2>1. PICK c \in {"found", "done"} : (c = "found" => job[r].copy \in DOMAIN file) /\ pc' = [pc EXCEPT ![r] = c]
    BY <1>4 DEF Refuse, Found, ReadFails, WriteFails, Exists
  <2>2. /\ pc[r] \in Active /\ pc[r] # "fill"
        /\ UNCHANGED <<file, pull, job, unlinked, versions, pulls, blank>> /\ broken' = broken
    BY <1>4 DEF Refuse, Found, ReadFails, WriteFails, history, Active
  <2>3. r \notin unlinked
    BY <2>2 DEF MergeInv, OpenInv
  <2> QED BY <2>1, <2>2, <2>3, PlaceStep
<1>5. ASSUME NEW r \in Resolver, Crash(r) PROVE MergeInv'
  BY <1>5, PlaceStep DEF Crash, Active, Main
<1>6. CASE UNCHANGED vars
  <2>1. UNCHANGED <<file, pull, pc, job, unlinked, versions, pulls, stale, blank, owed, broken>>
    BY <1>6 DEF vars, merge, history
  <2>2. MergeType' /\ NameInv'
    BY <2>1 DEF MergeInv, MergeType, NameInv
  <2>3. OpenInv' /\ JobInv' /\ EmptyInv'
    BY <2>1 DEF MergeInv, OpenInv, JobInv, EmptyInv
  <2> QED BY <2>2, <2>3 DEF MergeInv
<1> QED BY <1>2, <1>4, <1>5, <1>6, PullMerge, BeginMerge, ReadMerge, TruncateMerge, FillMerge, RemoveCopyMerge
        DEF Next, Resolve

\* A shared file is empty only for one of the named reasons: however pulls, edits,
\* merge commands, requests and kills interleave, and whatever files merge and the page
\* are given in the place of a copy.
THEOREM NoFileEmptied == Spec => []NotEmptied
<1>1. MergeInv => NotEmptied
  BY DEF MergeInv, EmptyInv, NotEmptied, Main
<1> QED BY InitMerge, MergeStep, <1>1, PTL DEF Spec

-----------------------------------------------------------------------------
(* The versions of users *)

\* A step in which resolvers go on from what they have read, and what is written to n
\* makes all who read n stale: a resolver fills n with what it has read.
LEMMA OverwriteReads ==
    ASSUME ReadInv, NEW n, NEW x, file' = Put(n, x), job' = job,
           \A q \in Resolver : q \in stale \cup Readers(n) => q \in stale',
           \A q \in Resolver : pc'[q] \in {"write", "fill", "remove"} => pc[q] \in {"write", "fill", "remove"},
           \A q \in Resolver : pc'[q] = "remove" => pc[q] = "remove" \/ (pc[q] = "fill" /\ job[q].bytes = x)
    PROVE  /\ ReadInv'
           /\ Safe(n)'
           /\ \A m \in DOMAIN file : m # n /\ Safe(m) /\ file[m] # x => Safe(m)'
<1>1. /\ DOMAIN file' = DOMAIN file \cup {n} /\ file'[n] = x
      /\ \A m \in DOMAIN file : m # n => file'[m] = file[m]
  BY PutFile
<1>2. \A q \in Resolver : Reading(q)' => Reading(q) /\ job[q].copy # n
  BY DEF Reading, Readers
<1>3. ReadInv'
  <2> SUFFICES ASSUME NEW q \in Resolver, Reading(q)', job'[q].copy \in DOMAIN file'
               PROVE  file'[job'[q].copy] = job'[q].bytes
    BY DEF ReadInv
  <2> QED BY <1>1, <1>2 DEF ReadInv
<1>4. Safe(n)'
  BY <1>2 DEF Safe
<1>5. ASSUME NEW m \in DOMAIN file, m # n, Safe(m), file[m] # x PROVE Safe(m)'
  <2> SUFFICES ASSUME NEW q \in Resolver, Reading(q)', pc'[q] = "remove", job[q].copy = m PROVE FALSE
    BY DEF Safe
  <2>1. Reading(q) /\ (pc[q] = "remove" \/ (pc[q] = "fill" /\ job[q].bytes = x))
    BY <1>2
  <2> QED BY <2>1, <1>5 DEF Safe, ReadInv
<1> QED BY <1>3, <1>4, <1>5

\* If the version that is overwritten is no longer owed, every other one is where it was.
LEMMA OverwriteKeeps ==
    ASSUME ReadInv, KeptInv, NEW n, NEW x, file' = Put(n, x), job' = job,
           \A q \in Resolver : q \in stale \cup Readers(n) => q \in stale',
           \A q \in Resolver : pc'[q] \in {"write", "fill", "remove"} => pc[q] \in {"write", "fill", "remove"},
           \A q \in Resolver : pc'[q] = "remove" => pc[q] = "remove" \/ (pc[q] = "fill" /\ job[q].bytes = x),
           \A y \in owed' : y = x \/ (y \in owed /\ y \notin Content(n))
    PROVE  ReadInv' /\ KeptInv'
<1>1. /\ DOMAIN file' = DOMAIN file \cup {n} /\ file'[n] = x
      /\ \A m \in DOMAIN file : m # n => file'[m] = file[m]
  BY PutFile
<1>2. /\ ReadInv' /\ Safe(n)'
      /\ \A m \in DOMAIN file : m # n /\ Safe(m) /\ file[m] # x => Safe(m)'
  BY OverwriteReads
<1>3. ASSUME NEW y \in owed' PROVE \E m \in DOMAIN file' : file'[m] = y /\ Safe(m)'
  <2>1. CASE y = x
    BY <2>1, <1>1, <1>2
  <2>2. CASE y # x
    <3>1. y \in owed /\ y \notin Content(n)
      BY <2>2
    <3>2. PICK m \in DOMAIN file : file[m] = y /\ Safe(m)
      BY <3>1 DEF KeptInv
    <3>3. m # n
      BY <3>1, <3>2 DEF Content, Exists
    <3> QED BY <2>2, <3>2, <3>3, <1>1, <1>2
  <2> QED BY <2>1, <2>2
<1> QED BY <1>2, <1>3 DEF KeptInv

\* The same for the second place of what the pull has copied.
LEMMA OverwritePull ==
    ASSUME ReadInv, PullInv, NEW n, NEW x, file' = Put(n, x), job' = job, pull' = pull,
           \A q \in Resolver \cup {"pull"} : q \in stale \cup Readers(n) => q \in stale',
           \A q \in Resolver : pc'[q] \in {"write", "fill", "remove"} => pc[q] \in {"write", "fill", "remove"},
           \A q \in Resolver : pc'[q] = "remove" => pc[q] = "remove" \/ (pc[q] = "fill" /\ job[q].bytes = x),
           \A y \in owed' : y = x \/ (y \in owed /\ y \notin Content(n))
    PROVE  PullInv'
<1> SUFFICES ASSUME pull.stage = "create", pull.kept = "copy", "pull" \notin stale'
             PROVE  /\ pull.path \in DOMAIN file' /\ file'[pull.path] = pull.old
                    /\ pull.old \in owed' =>
                          \E m \in DOMAIN file' \ {pull.path} : file'[m] = pull.old /\ Safe(m)'
  BY DEF PullInv
<1>1. /\ DOMAIN file' = DOMAIN file \cup {n} /\ file'[n] = x
      /\ \A m \in DOMAIN file : m # n => file'[m] = file[m]
  BY PutFile
<1>2. /\ Safe(n)'
      /\ \A m \in DOMAIN file : m # n /\ Safe(m) /\ file[m] # x => Safe(m)'
  BY OverwriteReads
<1>3. "pull" \notin stale /\ pull.path # n
  BY DEF Readers
<1>4. /\ pull.path \in DOMAIN file /\ file[pull.path] = pull.old
      /\ pull.old \in owed => \E m \in DOMAIN file \ {pull.path} : file[m] = pull.old /\ Safe(m)
  BY <1>3 DEF PullInv
<1>5. ASSUME pull.old \in owed' PROVE \E m \in DOMAIN file' \ {pull.path} : file'[m] = pull.old /\ Safe(m)'
  <2>1. CASE pull.old = x
    BY <2>1, <1>1, <1>2, <1>3
  <2>2. CASE pull.old # x
    <3>1. pull.old \in owed /\ pull.old \notin Content(n)
      BY <1>5, <2>2
    <3>2. PICK m \in DOMAIN file \ {pull.path} : file[m] = pull.old /\ Safe(m)
      BY <3>1, <1>4
    <3>3. m # n
      BY <3>1, <3>2 DEF Content, Exists
    <3> QED BY <2>2, <3>2, <3>3, <1>1, <1>2
  <2> QED BY <2>1, <2>2
<1> QED BY <1>1, <1>3, <1>4, <1>5

\* A step that leaves the files alone, and after which no more resolvers go on from
\* what they have read, except one that reads.
LEMMA QuietStep ==
    ASSUME ReadInv, KeptInv, PullInv, file' = file, owed' \subseteq owed,
           pull' = pull \/ ~(pull'.stage = "create" /\ pull'.kept = "copy"),
           pull' = pull => ("pull" \in stale => "pull" \in stale'),
           \A q \in Resolver : (Reading(q)' /\ pc'[q] = "remove") =>
               Reading(q) /\ pc[q] = "remove" /\ job'[q].copy = job[q].copy,
           \A q \in Resolver : Reading(q)' =>
               \/ Reading(q) /\ job'[q] = job[q]
               \/ job'[q].copy \in DOMAIN file => file[job'[q].copy] = job'[q].bytes
    PROVE  ReadInv' /\ KeptInv' /\ PullInv'
<1>1. \A n : Safe(n) => Safe(n)'
  BY DEF Safe
<1>2. ReadInv'
  BY DEF ReadInv
<1>3. KeptInv'
  BY <1>1 DEF KeptInv
<1>4. PullInv'
  <2>1. CASE pull' = pull
    BY <1>1, <2>1 DEF PullInv
  <2>2. CASE ~(pull'.stage = "create" /\ pull'.kept = "copy")
    BY <2>2 DEF PullInv
  <2> QED BY <2>1, <2>2
<1> QED BY <1>2, <1>3, <1>4

\* The steps of the pull lose no version: the copy is made under a name that is free,
\* and the file is emptied when its version is in a second place, or not owed.
LEMMA PullKeeps ==
    ASSUME VersionInv, Pull
    PROVE  ReadInv' /\ KeptInv' /\ PullInv'
<1>t. MergeType /\ NameInv /\ ReadInv /\ KeptInv /\ PullInv
  BY DEF VersionInv, MergeInv
<1>0. "pull" \notin Resolver
  BY MergeAssumption
<1>1. ASSUME NEW p \in Path, NEW x \in Remote(p), PullCompare(p, x) PROVE ReadInv' /\ KeptInv' /\ PullInv'
  <2> DEFINE copy == CopyName(Fqn, p, pulls + 1)
  <2>1. pulls \in 0 .. MaxPulls - 1
    BY <1>1, <1>t, MergeAssumption DEF PullCompare, MergeType
  <2>2. copy \notin DOMAIN file
    BY <2>1, <1>t, FreshCopy DEF NameInv
  <2>3. /\ UNCHANGED <<pc, job, owed>>
        /\ ~(pull'.stage = "create" /\ pull'.kept = "copy")
        /\ \/ file' = file /\ stale' = stale \ {"pull"}
           \/ file' = Put(copy, 0) /\ stale' = (stale \cup Readers(copy)) \ {"pull"}
    BY <1>1 DEF PullCompare, merge
  <2>4. Content(copy) = {}
    BY <2>2 DEF Content, Exists
  <2> HIDE DEF copy
  <2>5. PullInv'
    BY <2>3 DEF PullInv
  <2>6. CASE file' = file /\ stale' = stale \ {"pull"}
    <3>1. \A q \in Resolver : Reading(q)' <=> Reading(q)
      BY <1>0, <2>3, <2>6 DEF Reading
    <3>2. pull' = pull => ("pull" \in stale => "pull" \in stale')
      BY <1>1 DEF PullCompare, NoPull
    <3> QED BY <1>t, <2>3, <2>6, <3>1, <3>2, QuietStep
  <2>7. CASE file' = Put(copy, 0) /\ stale' = (stale \cup Readers(copy)) \ {"pull"}
    BY <1>0, <1>t, <2>3, <2>4, <2>5, <2>7, OverwriteKeeps
  <2> QED BY <2>3, <2>6, <2>7
<1>2. CASE PullCopy
  <2>1. PICK x \in Content(pull.path) \cup {pull.old} :
           /\ pull' = [pull EXCEPT !.stage = "create", !.old = x,
                                   !.kept = IF "pull" \in unlinked THEN "failed" ELSE "copy"]
           /\ file' = IF "pull" \in unlinked THEN file ELSE Put(pull.copy, x)
           /\ owed' = IF "pull" \in unlinked THEN owed ELSE owed \ (Content(pull.copy) \ {x})
           /\ stale' = ((stale \cup Readers(pull.copy)) \ {"pull"})
                        \cup (IF Content(pull.path) = {x} THEN {} ELSE {"pull"})
    BY <1>2 DEF PullCopy
  <2>2. pull.stage = "copy" /\ UNCHANGED <<pc, job>>
    BY <1>2 DEF PullCopy, merge
  <2>3. /\ pull'.stage = "create" /\ pull'.old = x /\ pull'.path = pull.path
        /\ "pull" \in unlinked => pull'.kept = "failed"
    BY <2>1, <1>t DEF MergeType
  <2>c. PICK c : c = pull.copy
    OBVIOUS
  <2>4. pull.path # pull.copy
    BY <2>2, <1>t DEF NameInv, MergeType
  <2>5. \A q \in Resolver : q \in stale \cup Readers(pull.copy) => q \in stale'
    BY <2>1, <1>0
  <2>6. CASE "pull" \in unlinked
    <3>1. \A q \in Resolver : Reading(q)' => Reading(q)
      BY <2>2, <2>5 DEF Reading
    <3>2. pull' # pull
      BY <2>2, <2>3
    <3> QED BY <1>t, <2>1, <2>2, <2>3, <2>6, <3>1, <3>2, QuietStep
  <2>7. CASE "pull" \notin unlinked
    <3>1. file' = Put(pull.copy, x) /\ owed' = owed \ (Content(pull.copy) \ {x})
      BY <2>1, <2>7
    <3>2. ReadInv' /\ KeptInv'
      BY <1>t, <2>2, <2>5, <3>1, OverwriteKeeps
    <3>3. Safe(c)'
      BY <1>t, <2>2, <2>5, <2>c, <3>1, OverwriteReads
    <3>4. /\ DOMAIN file' = DOMAIN file \cup {pull.copy} /\ file'[pull.copy] = x
          /\ \A m \in DOMAIN file : m # pull.copy => file'[m] = file[m]
      BY <3>1, PutFile
    <3>5. ASSUME "pull" \notin stale' PROVE pull.path \in DOMAIN file' /\ file'[pull.path] = x
      <4>1. Content(pull.path) = {x}
        BY <2>1, <3>5
      <4>2. pull.path \in DOMAIN file /\ file[pull.path] = x
        BY <4>1 DEF Content, Exists
      <4> QED BY <2>4, <3>4, <4>2
    <3>6. PullInv'
      BY <2>3, <2>4, <2>c, <3>3, <3>4, <3>5 DEF PullInv
    <3> QED BY <3>2, <3>6
  <2> QED BY <2>6, <2>7
<1>3. CASE PullCreate
  <2>1. /\ pull.stage = "create" /\ UNCHANGED <<pc, job>> /\ file' = Put(pull.path, 0)
        /\ pull' = [pull EXCEPT !.stage = "fill"]
        /\ stale' = (stale \cup Readers(pull.path)) \ {"pull"}
        /\ owed' = IF "pull" \in stale \/ pull.kept # "copy" THEN owed \ Content(pull.path) ELSE owed
    BY <1>3 DEF PullCreate, merge
  <2>c. PICK c : c = pull.path
    OBVIOUS
  <2>2. pull'.stage = "fill"
    BY <2>1, <1>t DEF MergeType
  <2>3. PullInv'
    BY <2>2 DEF PullInv
  <2>4. \A q \in Resolver : q \in stale \cup Readers(pull.path) => q \in stale'
    BY <2>1, <1>0
  <2>5. CASE "pull" \in stale \/ pull.kept # "copy"
    BY <1>t, <2>1, <2>3, <2>4, <2>5, OverwriteKeeps
  <2>6. CASE ~("pull" \in stale \/ pull.kept # "copy")
    <3>1. owed' = owed
      BY <2>1, <2>6
    <3>2. /\ pull.path \in DOMAIN file /\ file[pull.path] = pull.old
          /\ pull.old \in owed => \E n \in DOMAIN file \ {pull.path} : file[n] = pull.old /\ Safe(n)
      BY <2>1, <2>6, <1>t DEF PullInv
    <3>3. /\ ReadInv' /\ Safe(c)'
          /\ \A m \in DOMAIN file : m # pull.path /\ Safe(m) /\ file[m] # 0 => Safe(m)'
      BY <1>t, <2>1, <2>4, <2>c, OverwriteReads
    <3>4. /\ DOMAIN file' = DOMAIN file \cup {pull.path} /\ file'[pull.path] = 0
          /\ \A m \in DOMAIN file : m # pull.path => file'[m] = file[m]
      BY <2>1, PutFile
    <3>5. ASSUME NEW y \in owed PROVE \E m \in DOMAIN file' : file'[m] = y /\ Safe(m)'
      <4>1. PICK m \in DOMAIN file \ {pull.path} : file[m] = y /\ Safe(m)
        <5>1. PICK n \in DOMAIN file : file[n] = y /\ Safe(n)
          BY <1>t DEF KeptInv
        <5>2. CASE n = pull.path
          BY <3>2, <5>1, <5>2
        <5>3. CASE n # pull.path
          BY <5>1, <5>3
        <5> QED BY <5>2, <5>3
      <4>2. CASE y = 0
        BY <4>2, <2>c, <3>3, <3>4
      <4>3. CASE y # 0
        BY <4>1, <4>3, <3>3, <3>4
      <4> QED BY <4>2, <4>3
    <3> QED BY <2>3, <3>1, <3>3, <3>5 DEF KeptInv
  <2> QED BY <2>5, <2>6
<1>4. CASE PullFill
  <2>1. /\ UNCHANGED <<pc, job>> /\ pull' = NoPull /\ pull.stage = "fill"
        /\ "pull" \in unlinked => file' = file /\ owed' = owed /\ stale' = stale \ {"pull"}
        /\ "pull" \notin unlinked =>
              /\ file' = Put(pull.path, pull.content) /\ owed' = owed \ Content(pull.path)
              /\ stale' = (stale \cup Readers(pull.path)) \ {"pull"}
    BY <1>4 DEF PullFill, merge
  <2>2. pull'.stage = "none" /\ pull' # pull
    BY <2>1 DEF NoPull
  <2>3. PullInv'
    BY <2>2 DEF PullInv
  <2>4. CASE "pull" \in unlinked
    <3>1. \A q \in Resolver : Reading(q)' => Reading(q)
      BY <1>0, <2>1, <2>4 DEF Reading
    <3> QED BY <1>t, <2>1, <2>2, <2>4, <3>1, QuietStep
  <2>5. CASE "pull" \notin unlinked
    BY <1>0, <1>t, <2>1, <2>3, <2>5, OverwriteKeeps
  <2> QED BY <2>4, <2>5
<1>5. CASE PullKilled
  <2>1. UNCHANGED <<file, pc, job, owed>> /\ pull' = NoPull /\ stale' = stale \ {"pull"} /\ pull.stage # "none"
    BY <1>5 DEF PullKilled, merge
  <2>2. pull'.stage = "none" /\ pull' # pull
    BY <2>1 DEF NoPull
  <2>3. \A q \in Resolver : Reading(q)' => Reading(q)
    BY <1>0, <2>1 DEF Reading
  <2> QED BY <1>t, <2>1, <2>2, <2>3, QuietStep
<1> QED BY <1>1, <1>2, <1>3, <1>4, <1>5 DEF Pull

\* Truncating: the user has decided against what the main file holds.
LEMMA TruncateKeeps ==
    ASSUME VersionInv, NEW r \in Resolver, Truncate(r)
    PROVE  ReadInv' /\ KeptInv' /\ PullInv'
<1>t. MergeType /\ ReadInv /\ KeptInv /\ PullInv
  BY DEF VersionInv, MergeInv
<1>1. /\ pc[r] = "write" /\ pc' = [pc EXCEPT ![r] = "fill"] /\ file' = Put(job[r].main, 0)
      /\ UNCHANGED <<pull, job>> /\ owed' = owed \ Content(job[r].main)
      /\ stale' = stale \cup Readers(job[r].main)
  BY DEF Truncate, Main
<1>2. \A q \in Resolver : /\ pc'[q] \in {"write", "fill", "remove"} => pc[q] \in {"write", "fill", "remove"}
                          /\ pc'[q] = "remove" => pc[q] = "remove"
  BY <1>1, <1>t DEF MergeType
<1>3. ReadInv' /\ KeptInv'
  BY <1>1, <1>2, <1>t, OverwriteKeeps
<1>4. PullInv'
  BY <1>1, <1>2, <1>t, OverwritePull
<1> QED BY <1>3, <1>4

\* Filling: what the resolver read in the copy, which it will remove, is now in the
\* main file as well.
LEMMA FillKeeps ==
    ASSUME VersionInv, NEW r \in Resolver, Fill(r)
    PROVE  ReadInv' /\ KeptInv' /\ PullInv'
<1>t. MergeType /\ ReadInv /\ KeptInv /\ PullInv
  BY DEF VersionInv, MergeInv
<1>1. pc[r] = "fill" /\ pc' = [pc EXCEPT ![r] = "remove"] /\ UNCHANGED <<pull, job>>
  BY DEF Fill
<1>2. \A q \in Resolver : /\ pc'[q] \in {"write", "fill", "remove"} => pc[q] \in {"write", "fill", "remove"}
                          /\ pc'[q] = "remove" => pc[q] = "remove" \/ (pc[q] = "fill" /\ q = r)
  BY <1>1, <1>t DEF MergeType
<1>3. CASE r \in unlinked
  <2>1. file' = file /\ owed' = owed /\ stale' = stale \cup {r}
    BY <1>3 DEF Fill
  <2>2. \A q \in Resolver : Reading(q)' => Reading(q) /\ q # r
    BY <1>1, <1>2, <2>1 DEF Reading
  <2> QED BY <1>1, <1>2, <1>t, <2>1, <2>2, QuietStep
<1>4. CASE r \notin unlinked
  <2>1. /\ file' = Put(job[r].main, job[r].bytes) /\ stale' = stale \cup Readers(job[r].main)
        /\ \A y \in owed' : y = job[r].bytes \/ (y \in owed /\ y \notin Content(job[r].main))
    BY <1>4 DEF Fill, Main
  <2>2. ReadInv' /\ KeptInv'
    BY <1>1, <1>2, <1>t, <2>1, OverwriteKeeps
  <2>3. PullInv'
    BY <1>1, <1>2, <1>t, <2>1, OverwritePull
  <2> QED BY <2>2, <2>3
<1> QED BY <1>3, <1>4

\* Removing: the copy is in another place too, or its version is not owed.
LEMMA RemoveCopyKeeps ==
    ASSUME VersionInv, NEW r \in Resolver, RemoveCopy(r)
    PROVE  ReadInv' /\ KeptInv' /\ PullInv'
<1>t. MergeType /\ ReadInv /\ KeptInv /\ PullInv
  BY DEF VersionInv, MergeInv
<1> DEFINE n == job[r].copy
<1>1. /\ pc[r] = "remove" /\ pc' = [pc EXCEPT ![r] = "done"] /\ file' = Without(n)
      /\ owed' = IF job[r].choice # "local" \/ r \in stale THEN owed \ Content(n) ELSE owed
      /\ stale' = (stale \cup Readers(n)) \ {r} /\ UNCHANGED <<pull, job>>
  BY DEF RemoveCopy
<1>2. /\ DOMAIN file' = DOMAIN file \ {n}
      /\ \A m \in DOMAIN file' : file'[m] = file[m]
  BY <1>1, RemoveFile
<1>3. pc'[r] = "done" /\ r # "pull" /\ \A q \in Resolver : q # r => pc'[q] = pc[q]
  BY <1>1, <1>t, MergeAssumption DEF MergeType
<1>4. \A q \in Resolver : Reading(q)' => Reading(q) /\ q # r
  BY <1>1, <1>3 DEF Reading
<1>5. \A m : Safe(m) => Safe(m)'
  BY <1>1, <1>3, <1>4 DEF Safe
<1>6. \A y \in owed' : y \in owed /\ \A m \in DOMAIN file : file[m] = y /\ Safe(m) => m # n
  <2>1. CASE job[r].choice # "local" \/ r \in stale
    BY <2>1, <1>1 DEF Content, Exists
  <2>2. CASE ~(job[r].choice # "local" \/ r \in stale)
    <3>1. ~ Safe(n)
      BY <2>2, <1>1 DEF Safe, Reading
    <3> QED BY <2>2, <3>1, <1>1
  <2> QED BY <2>1, <2>2
<1> HIDE DEF n
<1>7. ReadInv'
  BY <1>1, <1>2, <1>4, <1>t DEF ReadInv
<1>8. KeptInv'
  BY <1>2, <1>5, <1>6, <1>t DEF KeptInv
<1>9. PullInv'
  <2> SUFFICES ASSUME pull.stage = "create", pull.kept = "copy", "pull" \notin stale'
               PROVE  /\ pull.path \in DOMAIN file' /\ file'[pull.path] = pull.old
                      /\ pull.old \in owed' =>
                            \E m \in DOMAIN file' \ {pull.path} : file'[m] = pull.old /\ Safe(m)'
    BY <1>1 DEF PullInv
  <2>1. "pull" \notin stale /\ pull.path # n
    BY <1>1, <1>3 DEF Readers
  <2>2. /\ pull.path \in DOMAIN file /\ file[pull.path] = pull.old
        /\ pull.old \in owed => \E m \in DOMAIN file \ {pull.path} : file[m] = pull.old /\ Safe(m)
    BY <2>1, <1>t DEF PullInv
  <2> QED BY <2>1, <2>2, <1>2, <1>5, <1>6
<1> QED BY <1>7, <1>8, <1>9

\* The initial states satisfy the invariant.
LEMMA InitVersions == Init => VersionInv
  BY InitMerge DEF Init, VersionInv, ReadInv, KeptInv, PullInv, Reading, NoPull

\* And every step keeps it.
LEMMA VersionStep == VersionInv /\ [Next]_vars => VersionInv'
<1> SUFFICES ASSUME VersionInv, [Next]_vars PROVE VersionInv'
  OBVIOUS
<1>t. MergeType /\ ReadInv /\ KeptInv /\ PullInv
  BY DEF VersionInv, MergeInv
<1>0. MergeInv'
  BY MergeStep DEF VersionInv
<1> SUFFICES ReadInv' /\ KeptInv' /\ PullInv'
  BY <1>0 DEF VersionInv
<1>1. ASSUME NEW p \in Path, Edit(p) PROVE ReadInv' /\ KeptInv' /\ PullInv'
  <2>1. /\ file' = Put(p, versions + 1) /\ UNCHANGED <<pull, pc, job>>
        /\ owed' = (owed \ Content(p)) \cup {versions + 1} /\ stale' = stale \cup Readers(p)
    BY <1>1 DEF Edit, merge
  <2>2. ReadInv' /\ KeptInv'
    BY <2>1, <1>t, OverwriteKeeps
  <2>3. PullInv'
    BY <2>1, <1>t, OverwritePull
  <2> QED BY <2>2, <2>3
<1>2. ASSUME NEW r \in Resolver, NEW n \in DOMAIN file, NEW choice \in {"local", "remote", "custom"},
             Begin(r, n, choice)
      PROVE  ReadInv' /\ KeptInv' /\ PullInv'
  <2>1. /\ UNCHANGED <<file, pull, stale, owed>>
        /\ \E main : job' = [job EXCEPT ![r] = [copy |-> n, main |-> main, choice |-> choice, bytes |-> 0]]
        /\ pc' = [pc EXCEPT ![r] = IF choice = "remote" THEN "remove" ELSE "read"]
    BY <1>2 DEF Begin, history
  <2>2. \A q \in Resolver : Reading(q)' => Reading(q) /\ job'[q] = job[q] /\ pc'[q] = pc[q]
    BY <2>1, <1>t DEF Reading, MergeType
  <2> QED BY <2>1, <2>2, <1>t, QuietStep
<1>3. ASSUME NEW r \in Resolver, Refuse(r) \/ Found(r) \/ ReadFails(r) \/ WriteFails(r) \/ Crash(r)
      PROVE  ReadInv' /\ KeptInv' /\ PullInv'
  <2>1. /\ UNCHANGED <<file, pull, job, owed>> /\ stale' \in {stale, stale \ {r}}
        /\ \E c \in {"found", "done"} : pc' = [pc EXCEPT ![r] = c]
    BY <1>3 DEF Refuse, Found, ReadFails, WriteFails, Crash, history
  <2>2. \A q \in Resolver : Reading(q)' => Reading(q) /\ pc'[q] = pc[q]
    BY <2>1, <1>t DEF Reading, MergeType
  <2>3. "pull" \in stale => "pull" \in stale'
    BY <2>1, MergeAssumption
  <2> QED BY <2>1, <2>2, <2>3, <1>t, QuietStep
<1>4. ASSUME NEW r \in Resolver, Read(r) PROVE ReadInv' /\ KeptInv' /\ PullInv'
  <2>1. /\ UNCHANGED <<file, pull, stale, owed>> /\ pc' = [pc EXCEPT ![r] = "write"]
        /\ job' = [job EXCEPT ![r].bytes = IF Exists(job[r].copy) THEN file[job[r].copy] ELSE 0]
    BY <1>4 DEF Read
  <2>2. /\ pc'[r] = "write" /\ job'[r].copy = job[r].copy
        /\ job'[r].bytes = IF Exists(job[r].copy) THEN file[job[r].copy] ELSE 0
        /\ \A q \in Resolver : q # r => pc'[q] = pc[q] /\ job'[q] = job[q]
    BY <2>1, <1>t DEF MergeType
  <2>3. \A q \in Resolver : Reading(q)' /\ q # r => Reading(q)
    BY <2>1, <2>2 DEF Reading
  <2> QED BY <2>1, <2>2, <2>3, <1>t, QuietStep DEF Exists
<1>5. ASSUME NEW r \in Resolver, ReadCustom(r) PROVE ReadInv' /\ KeptInv' /\ PullInv'
  <2>1. /\ UNCHANGED <<file, pull, stale, owed>> /\ pc' = [pc EXCEPT ![r] = "write"]
        /\ \E b : job' = [job EXCEPT ![r].bytes = b]
        /\ job[r].choice = "custom"
    BY <1>5 DEF ReadCustom
  <2>2. /\ job'[r].choice = "custom"
        /\ \A q \in Resolver : q # r => pc'[q] = pc[q] /\ job'[q] = job[q]
    BY <2>1, <1>t DEF MergeType
  <2>3. \A q \in Resolver : Reading(q)' => Reading(q) /\ q # r
    BY <2>1, <2>2 DEF Reading
  <2> QED BY <2>1, <2>2, <2>3, <1>t, QuietStep
<1>6. CASE UNCHANGED vars
  <2>1. UNCHANGED <<file, pull, pc, job, stale, owed>>
    BY <1>6 DEF vars, merge, history
  <2>2. \A q \in Resolver : Reading(q)' => Reading(q)
    BY <2>1 DEF Reading
  <2> QED BY <2>1, <2>2, <1>t, QuietStep
<1> QED BY <1>1, <1>2, <1>3, <1>4, <1>5, <1>6, PullKeeps, TruncateKeeps, FillKeeps, RemoveCopyKeeps
        DEF Next, Resolve

\* A version that a user wrote is in some file until it is replaced, given up in a
\* merge, or lost in one of the ways that VersionsKept names: for every set of files,
\* with names short and long, and any number of resolvers, pulls, edits and kills.
THEOREM NoVersionLost == Spec => []VersionsKept
<1>1. VersionInv => VersionsKept
  BY DEF VersionInv, KeptInv, VersionsKept
<1> QED BY InitVersions, VersionStep, <1>1, PTL DEF Spec
-----------------------------------------------------------------------------
(***************************************************************************)
(* The supervisor, for any number of restart requests, crashes, failed     *)
(* spawns and processes.                                                   *)
(***************************************************************************)

(***************************************************************************)
(* One ygg. The loop records the child it has spawned for as long as it    *)
(* waits for it, and leaves "wait" only by reaping it: a killed or crashed *)
(* process stays a zombie until then, whoever killed it. So the next spawn *)
(* finds no process left. restarts counts ends, of which there are fewer   *)
(* than starts while a child is waited for or its end is being noted.      *)
(***************************************************************************)
YggInv ==
    /\ SupTypeOK
    /\ OneYgg
    /\ loop = "wait" => pid \in Pid /\ pid <= spawned
    /\ loop # "wait" => pid = NoPid
    /\ loop \in {"wait", "note"} => restarts < spawned
    /\ \A r \in Request : seen[r] \in Pid => seen[r] <= spawned

\* The initial states satisfy the invariant.
LEMMA InitYgg == SupInit => YggInv
  BY SupervisorAssumption DEF SupInit, YggInv, SupTypeOK, OneYgg, Pid

\* A step by which processes go on or end, and none starts or is reaped.
LEMMA ProcessStep ==
    ASSUME YggInv, ygg' \in [Pid -> {"none", "starting", "up", "exiting", "zombie"}],
           \A p \in Pid : ygg'[p] # "none" => ygg[p] # "none",
           exit3' \subseteq Pid, crashes' \in 0 .. MaxCrashes,
           UNCHANGED <<tokenAgrees, spawned, failures, supervisor, seen>>,
           req' \in [Request -> {"new", "post", "kill", "poll", "ok", "error"}]
    PROVE  YggInv'
  BY DEF YggInv, SupTypeOK, OneYgg, supervisor

\* Every step keeps the invariant.
LEMMA YggStep == YggInv /\ [SupNext]_supVars => YggInv'
<1> SUFFICES ASSUME YggInv, [SupNext]_supVars PROVE YggInv'
  OBVIOUS
<1>t. /\ SupTypeOK /\ Pid \subseteq Nat /\ NoPid \notin Pid
      /\ MaxPid \in Nat /\ MaxFailures \in Nat /\ MaxCrashes \in Nat
  BY SupervisorAssumption DEF YggInv, Pid
<1>1. CASE Spawn
  <2>1. /\ loop = "top" /\ spawned \in Nat /\ spawned < MaxPid
        /\ spawned' = spawned + 1 /\ pid' = spawned + 1 /\ loop' = "wait" /\ backoff_ms' = 0
        /\ ygg' = [ygg EXCEPT ![spawned + 1] = "starting"]
        /\ UNCHANGED <<tokenAgrees, exit3, failures, crashes, code, restarts, req, seen>>
    BY <1>1, <1>t DEF Spawn, requests, SupTypeOK
  <2>2. spawned + 1 \in Pid /\ spawned' \in 0 .. MaxPid
    BY <2>1, <1>t DEF Pid
  <2>3. \A p \in Pid : ygg[p] = "none"
    BY <2>1 DEF YggInv, OneYgg
  <2>4. OneYgg'
    BY <2>1, <2>2, <2>3, <1>t DEF OneYgg, SupTypeOK
  <2>a. restarts' \in 0 .. spawned'
    BY <2>1, <1>t DEF SupTypeOK
  <2>b. ygg' \in [Pid -> {"none", "starting", "up", "exiting", "zombie"}]
    <3>1. ygg \in [Pid -> {"none", "starting", "up", "exiting", "zombie"}]
      BY <1>t DEF SupTypeOK
    <3>2. ygg' = [ygg EXCEPT ![spawned + 1] = "starting"]
      BY <2>1
    <3>. QED  BY <3>1, <3>2
  <2>c. backoff_ms' \in 0 .. 10000
    BY <2>1
  <2>5. SupTypeOK'
    BY <2>1, <2>2, <2>a, <2>b, <2>c, <1>t DEF SupTypeOK
  <2>6. restarts' < spawned'
    BY <2>1, <1>t DEF SupTypeOK
  <2>7. \A r \in Request : seen'[r] \in Pid => seen'[r] <= spawned'
    <3>1. SUFFICES ASSUME NEW r \in Request, seen'[r] \in Pid PROVE seen'[r] <= spawned'
      OBVIOUS
    <3>2. spawned \in Nat /\ spawned' = spawned + 1 /\ seen'[r] = seen[r]
      BY <2>1
    <3>3. seen[r] \in Nat /\ seen[r] <= spawned
      BY <3>1, <3>2, <1>t DEF YggInv
    <3>. QED  BY <3>2, <3>3
  <2>. QED  BY <2>1, <2>2, <2>4, <2>5, <2>6, <2>7 DEF YggInv
<1>2. CASE SpawnFails
  BY <1>2, <1>t DEF SpawnFails, requests, YggInv, SupTypeOK, OneYgg
<1>3. CASE WaitChild
  <2>1. /\ loop = "wait" /\ pid \in Pid /\ loop' = "note" /\ pid' = NoPid /\ code' \in {0, 3}
        /\ ygg' = [ygg EXCEPT ![pid] = "none"]
        /\ UNCHANGED <<tokenAgrees, exit3, spawned, failures, crashes, backoff_ms, restarts, req, seen>>
    BY <1>3 DEF WaitChild, requests, YggInv
  <2>2. \A p \in Pid : ygg'[p] = "none"
    BY <2>1, <1>t DEF YggInv, OneYgg, SupTypeOK
  <2>3. SupTypeOK'
    BY <2>1, <1>t DEF SupTypeOK
  <2>. QED  BY <2>1, <2>2, <2>3 DEF YggInv, OneYgg
<1>4. CASE NoteExit
  <2>1. /\ loop = "note" /\ loop' = "sleep" /\ pid' = NoPid /\ restarts' = restarts + 1
        /\ backoff_ms' = (IF code = 3 THEN 0
                          ELSE IF 2 * backoff_ms > 10000 THEN 10000 ELSE 2 * backoff_ms)
        /\ UNCHANGED <<tokenAgrees, ygg, exit3, spawned, failures, crashes, code, req, seen>>
    BY <1>4 DEF NoteExit, processes, requests
  <2>2. backoff_ms' \in 0 .. 10000
    <3>1. backoff_ms \in Nat
      BY <1>t DEF SupTypeOK
    <3>. QED  BY <2>1, <3>1
  <2>3. restarts' \in 0 .. spawned'
    <3>1. restarts \in Nat /\ spawned \in Nat /\ restarts < spawned
      BY <2>1, <1>t DEF SupTypeOK, YggInv
    <3>. QED  BY <2>1, <3>1
  <2>4. SupTypeOK'
    BY <2>1, <2>2, <2>3, <1>t DEF SupTypeOK
  <2>. QED  BY <2>1, <2>4 DEF YggInv, OneYgg
<1>5. CASE Wake
  <2>1. /\ loop \in {"sleep", "retry"} /\ loop' = "top"
        /\ UNCHANGED <<tokenAgrees, ygg, exit3, spawned, failures, crashes,
                       pid, code, backoff_ms, restarts, req, seen>>
    BY <1>5 DEF Wake, processes, requests
  <2>2. SupTypeOK'
    BY <2>1, <1>t DEF SupTypeOK
  <2>3. \A p \in Pid : ygg[p] = "none"
    BY <2>1 DEF YggInv, OneYgg
  <2>. QED  BY <2>1, <2>2, <2>3 DEF YggInv, OneYgg
<1>6. ASSUME NEW p \in Pid, Listen(p) \/ Exit3(p) \/ YggCrash(p)
      PROVE  YggInv'
  <2>1. /\ ygg[p] # "none" /\ \E to \in {"up", "zombie"} : ygg' = [ygg EXCEPT ![p] = to]
        /\ exit3' \subseteq Pid /\ crashes' \in 0 .. MaxCrashes
        /\ UNCHANGED <<tokenAgrees, spawned, failures, supervisor, req, seen>>
    <3>t. exit3 \subseteq Pid /\ crashes \in 0 .. MaxCrashes
      BY <1>t DEF SupTypeOK
    <3>1. CASE Listen(p)
      BY <3>1, <3>t DEF Listen, requests
    <3>2. CASE Exit3(p)
      BY <3>2, <3>t DEF Exit3, requests
    <3>3. CASE YggCrash(p)
      <4>1. crashes' \in 0 .. MaxCrashes
        BY <3>3, <3>t, <1>t DEF YggCrash
      <4>. QED  BY <3>3, <3>t, <4>1 DEF YggCrash, Alive, requests
    <3>. QED  BY <1>6, <3>1, <3>2, <3>3
  <2>2. /\ ygg' \in [Pid -> {"none", "starting", "up", "exiting", "zombie"}]
        /\ \A q \in Pid : ygg'[q] # "none" => ygg[q] # "none"
    BY <2>1, <1>t DEF SupTypeOK
  <2>. QED  BY <2>1, <2>2, <1>t, ProcessStep DEF SupTypeOK
<1>7. ASSUME NEW r \in Request, ApiRestart(r)
      PROVE  YggInv'
  <2>1. /\ seen' = [seen EXCEPT ![r] = pid]
        /\ req' = [req EXCEPT ![r] = IF pid = NoPid THEN "error" ELSE "post"]
        /\ UNCHANGED <<tokenAgrees, ygg, exit3, spawned, failures, crashes,
                       loop, pid, code, backoff_ms, restarts>>
    BY <1>7 DEF ApiRestart, processes, supervisor
  <2>2. SupTypeOK'
    BY <2>1, <1>t DEF SupTypeOK
  <2>3. pid \in Pid => pid <= spawned
    BY <1>t DEF YggInv
  <2>4. \A q \in Request : seen'[q] \in Pid => seen'[q] <= spawned'
    BY <2>1, <2>3, <1>t DEF YggInv, SupTypeOK
  <2>. QED  BY <2>1, <2>2, <2>4 DEF YggInv, OneYgg
<1>8. ASSUME NEW r \in Request, Serve(r)
      PROVE  YggInv'
  <2>1. /\ UNCHANGED <<tokenAgrees, exit3, spawned, failures, crashes, supervisor, seen>>
        /\ \E to \in {"ok", "kill", "poll"} : req' = [req EXCEPT ![r] = to]
    BY <1>8 DEF Serve, ControlAnswers, ControlFails, Terminate, Terminated, processes
  <2>2. \/ ygg' = ygg
        \/ \E p \in Pid, to \in {"exiting", "zombie"} :
              ygg[p] # "none" /\ ygg' = [ygg EXCEPT ![p] = to]
    <3>1. CASE ControlAnswers(r)
      BY <3>1 DEF ControlAnswers
    <3>2. CASE Terminate(r)
      <4>1. CASE seen[r] \in Alive
        BY <3>2, <4>1 DEF Terminate, Alive
      <4>2. CASE seen[r] \notin Alive
        BY <3>2, <4>2 DEF Terminate
      <4>. QED  BY <4>1, <4>2
    <3>3. CASE ControlFails(r) \/ Terminated(r)
      BY <3>3 DEF ControlFails, Terminated, processes
    <3>. QED  BY <1>8, <3>1, <3>2, <3>3 DEF Serve
  <2>3. /\ ygg' \in [Pid -> {"none", "starting", "up", "exiting", "zombie"}]
        /\ \A q \in Pid : ygg'[q] # "none" => ygg[q] # "none"
    BY <2>2, <1>t DEF SupTypeOK
  <2>. QED  BY <2>1, <2>3, <1>t, ProcessStep DEF SupTypeOK
<1>9. CASE PollChild \/ UNCHANGED supVars
  <2>1. UNCHANGED <<tokenAgrees, ygg, exit3, spawned, failures, crashes,
                    loop, pid, code, backoff_ms, restarts, req, seen>>
    BY <1>9 DEF PollChild, supVars, processes, supervisor, requests
  <2>2. SupTypeOK'
    BY <2>1, <1>t DEF SupTypeOK
  <2>. QED  BY <2>1, <2>2 DEF YggInv, OneYgg
<1>. QED
  BY <1>1, <1>2, <1>3, <1>4, <1>5, <1>6, <1>7, <1>8, <1>9 DEF SupNext, Supervise

\* The invariant holds in every reachable state; with it the types, the bound of the
\* backoff and the count of restarts.
THEOREM YggCorrect == SupSpec => []YggInv
  BY InitYgg, YggStep, PTL DEF SupSpec

\* There is never a second ygg, alive or dead and not reaped, however restart
\* requests, crashes and the supervising loop interleave.
THEOREM NeverTwo == SupSpec => []OneYgg
<1>1. YggInv => OneYgg
  BY DEF YggInv
<1>. QED
  BY <1>1, YggCorrect, PTL
=============================================================================
