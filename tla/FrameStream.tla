----------------------------- MODULE FrameStream -----------------------------
(***************************************************************************)
(* Frames on a byte stream (nsmt-core frame.rs, wire.rs): one sender, and  *)
(* one receiver that calls recv as a branch of select!, which is the ready *)
(* loop of the server's session (session.rs) and the online mode of yggd   *)
(* (main.rs). The stream is external: bytes arrive in order and in pieces  *)
(* of any size, and the sender may be gone in the middle of a frame.       *)
(*                                                                         *)
(* recv keeps the bytes it has read in local variables. When another       *)
(* branch of select! wins, the call is dropped, its bytes with it, and the *)
(* next call starts at the byte after them.                                *)
(***************************************************************************)
EXTENDS Naturals, Sequences, SequencesExt

CONSTANTS
    Frames,          \* the frames that the sender may send, each of them once
    MAX_PAYLOAD_LEN, \* the largest payload
    Pieces,          \* the largest number of bytes that a read may return
    MaxFrames        \* bound: number of frames sent

MAGIC == 89 \* 'Y'
PROTOCOL_VERSION == 1
HeaderLen == 12

\* FrameType::from_raw gives Some for these.
FrameType ==
    (1 .. 6) \cup (16 .. 18) \cup (32 .. 35) \cup (48 .. 54) \cup (64 .. 69) \cup (80 .. 83) \cup {240}
FileChunk == 53

\* 2^29: the limit of the code is 2^24, and the number of its only stream is 0.
Huge == 32 * 256 * 256 * 256

ASSUME FrameAssumption ==
    /\ Frames \subseteq [frame_type : FrameType, flags : 0 .. 255, stream_id : 0 .. Huge - 1, payload : Seq(0 .. 255)]
    /\ MAX_PAYLOAD_LEN \in 0 .. Huge - 1
    /\ Pieces \subseteq Nat \ {0}
    /\ MaxFrames \in Nat

\* Only a chunk carries bytes of any kind, and may have a flag. All other frames are
\* JSON as serde_json writes it, in which there is no control character and whose last
\* byte is a brace, or are empty.
ASSUME TextAssumption ==
    \A f \in Frames :
        f.frame_type # FileChunk =>
            /\ f.flags = 0 /\ f.stream_id = 0
            /\ \A i \in 1 .. Len(f.payload) : f.payload[i] >= 32
            /\ f.payload # <<>> => f.payload[Len(f.payload)] # MAGIC

VARIABLES
    sent,   \* the frames sent so far
    pipe,   \* the bytes of them that the receiver has not read
    end,    \* "no", or the sender is gone: all its bytes, whole frames, or less arrive
    buf,    \* header and payload, the local variables of recv
    got,    \* the frames that recv has returned
    st,     \* "ready", or how the loop of the receiver ended
    \* history
    ends,   \* the number of bytes up to the end of each frame sent
    lost    \* the kind of frame in the middle of which recv was dropped

streamVars == <<sent, pipe, end, buf, got, st, ends, lost>>

StreamTypeOK ==
    /\ sent \in Seq(Frames)
    /\ pipe \in Seq(0 .. 255)
    /\ end \in {"no", "all", "whole", "part"}
    /\ buf \in Seq(0 .. 255)
    /\ st \in {"ready", "eof", "error"}
    /\ ends \in Seq(Nat)
    /\ lost \in {"nothing", "text", "chunk"}

StreamInit ==
    /\ sent = <<>>
    /\ pipe = <<>>
    /\ end = "no"
    /\ buf = <<>>
    /\ got = <<>>
    /\ st = "ready"
    /\ ends = <<>>
    /\ lost = "nothing"

-----------------------------------------------------------------------------
(* The codec *)

to_le_bytes(n) ==
    <<n % 256, (n \div 256) % 256, ((n \div 256) \div 256) % 256, (((n \div 256) \div 256) \div 256) % 256>>
\* Of the bytes b[i + 1], b[i + 2], ... A length far above MAX_PAYLOAD_LEN is kept at
\* 2^29, below the largest integer of the checker.
from_le_bytes(b, i) ==
    IF b[i + 4] >= 32 THEN Huge
    ELSE b[i + 1] + 256 * (b[i + 2] + 256 * (b[i + 3] + 256 * b[i + 4]))

Encode(f) ==
    <<MAGIC, PROTOCOL_VERSION, f.flags, f.frame_type>> \o to_le_bytes(f.stream_id)
        \o to_le_bytes(Len(f.payload)) \o f.payload

PayloadLen(b) == from_le_bytes(b, 8)

\* Err(FrameTooLarge) of encode.
TooLarge(n) == n > MAX_PAYLOAD_LEN

\* A mutant of the check in recv, off by one.
AtLimit(n) == n >= MAX_PAYLOAD_LEN

\* Err(FrameTooLarge) of recv and of decode.
AboveLimit(n) == n > MAX_PAYLOAD_LEN

\* A mutant that looks at the length only.
HeaderUnchecked(b) == AboveLimit(PayloadLen(b))

\* What recv rejects once it has the header b.
BadHeader(b) == b[1] # MAGIC \/ b[2] # PROTOCOL_VERSION \/ AboveLimit(PayloadLen(b))

\* A mutant of recv whose payload is what the first read returns.
CompleteAtOnce(b) == Len(b) > HeaderLen \/ PayloadLen(b) = 0

\* The header and the payload of a frame are there.
Complete(b) == Len(b) >= HeaderLen + PayloadLen(b)

\* decode of a complete frame whose header is good: it fails for an unknown type.
Decodable(b) == b[4] \in FrameType
Decoded(b) ==
    [frame_type |-> b[4], flags |-> b[3], stream_id |-> from_le_bytes(b, 4),
     payload |-> SubSeq(b, HeaderLen + 1, Len(b))]

-----------------------------------------------------------------------------
(* The sender *)

\* Where the j-th frame begins in the stream, and where the next read does.
Start(j) == IF j = 1 THEN 0 ELSE ends[j - 1]
Position == Start(Len(sent) + 1) - Len(pipe)

\* send: encode, then all bytes are written.
Send(f) ==
    /\ end = "no"
    /\ f \notin Range(sent)
    /\ Len(sent) < MaxFrames
    /\ ~TooLarge(Len(f.payload))
    /\ sent' = Append(sent, f)
    /\ pipe' = pipe \o Encode(f)
    /\ ends' = Append(ends, Start(Len(sent) + 1) + Len(Encode(f)))
    /\ UNCHANGED <<end, buf, got, st, lost>>

\* encode returns an error, nothing is written, and the sender's session ends.
SendFails(f) ==
    /\ end = "no"
    /\ TooLarge(Len(f.payload))
    /\ end' = "all"
    /\ UNCHANGED <<sent, pipe, buf, got, st, ends, lost>>

\* The sender closes the stream.
Close ==
    /\ end = "no"
    /\ end' = "all"
    /\ UNCHANGED <<sent, pipe, buf, got, st, ends, lost>>

\* The frame, if there is one, in the middle of which the next read begins.
Middle == {sent[j] : j \in {i \in DOMAIN sent : Start(i) < Position /\ Position < ends[i]}}

\* The sender is gone, and what has not arrived yet never does.
Gone ==
    /\ end = "no"
    /\ pipe # <<>>
    /\ pipe' = <<>>
    /\ end' = IF Middle = {} THEN "whole" ELSE "part"
    /\ UNCHANGED <<sent, buf, got, st, ends, lost>>

-----------------------------------------------------------------------------
(* The receiver *)

Min2(m, n) == IF m < n THEN m ELSE n

\* The room in the array that recv reads into: the rest of the header or of the payload.
Room == IF Len(buf) < HeaderLen THEN HeaderLen - Len(buf)
        ELSE HeaderLen + PayloadLen(buf) - Len(buf)

\* recv has the bytes b.
Received(b) ==
    \/ /\ Len(b) < HeaderLen
       /\ buf' = b /\ UNCHANGED <<got, st>>
    \/ /\ Len(b) >= HeaderLen
       /\ BadHeader(b)
       /\ buf' = <<>> /\ st' = "error" /\ UNCHANGED got
    \/ /\ Len(b) >= HeaderLen
       /\ ~BadHeader(b)
       /\ ~Complete(b)
       /\ buf' = b /\ UNCHANGED <<got, st>>
    \/ /\ Len(b) >= HeaderLen
       /\ ~BadHeader(b)
       /\ Complete(b)
       /\ buf' = <<>>
       /\ IF Decodable(b) THEN got' = Append(got, Decoded(b)) /\ UNCHANGED st
          ELSE st' = "error" /\ UNCHANGED got

\* A read of recv returns p bytes, or as many as there are and it has room for; what
\* follows up to the next await is one step.
Recv(p) ==
    /\ st = "ready"
    /\ pipe # <<>>
    /\ LET n == Min2(p, Min2(Len(pipe), Room))
           b == buf \o SubSeq(pipe, 1, n) IN
       /\ pipe' = SubSeq(pipe, n + 1, Len(pipe))
       /\ Received(b)
    /\ UNCHANGED <<sent, end, ends, lost>>

\* A mutant of recv that takes every end of the stream for a clean one.
EofAlways(b) == "eof"

\* A read that returns 0: a clean end, or an end in a header or in a payload.
AtEof(b) == IF b = <<>> THEN "eof" ELSE "error"

RecvEof ==
    /\ st = "ready"
    /\ end # "no"
    /\ pipe = <<>>
    /\ st' = AtEof(buf)
    /\ buf' = <<>>
    /\ UNCHANGED <<sent, pipe, end, got, ends, lost>>

\* A tick of the heartbeat or an event of the registry wins: recv is dropped, and
\* the handler of the event leaves the reading side alone.
OtherBranch ==
    /\ st = "ready"
    /\ lost' = IF \E f \in Middle : f.frame_type = FileChunk THEN "chunk"
               ELSE IF buf # <<>> /\ lost = "nothing" THEN "text" ELSE lost
    /\ buf' = <<>>
    /\ UNCHANGED <<sent, pipe, end, got, st, ends>>

StreamNext ==
    \/ \E f \in Frames : Send(f) \/ SendFails(f)
    \/ Close \/ Gone
    \/ \E p \in Pieces : Recv(p)
    \/ RecvEof
    \/ OtherBranch

\* What was written arrives, and a task with something to read runs.
Fairness == WF_streamVars(\E p \in Pieces : Recv(p)) /\ WF_streamVars(RecvEof)

StreamSpec == StreamInit /\ [][StreamNext]_streamVars /\ Fairness

-----------------------------------------------------------------------------
(* Properties *)

\* recv returns the frames that were sent, in their order, none of them twice, none
\* left out and none changed, however their bytes are cut into pieces.
FramesExact == lost = "nothing" => IsPrefix(got, sent)

\* After a call was dropped in the middle of a frame, frames may be missing, for the
\* rest of the frame may be dropped by a second call; but none is invented, as no rest
\* of a text frame passes for a header. Only the bytes of a file, in a chunk, may.
NoneInvented ==
    lost = "text" =>
        \E g \in [1 .. Len(got) -> 1 .. Len(sent)] :
            /\ \A i \in 1 .. Len(got) : got[i] = sent[g[i]]
            /\ \A i, j \in 1 .. Len(got) : i < j => g[i] < g[j]

\* A clean end of the stream is never reported to a receiver that has a part of a
\* frame, unless a call was dropped: a session does not take a peer that died in the
\* middle of a message for one that is done.
EofIsClean == st = "eof" /\ lost = "nothing" => end # "part"

\* A frame that was sent is returned, unless the sender is gone before it arrives or
\* a call was dropped in the middle of a frame: a limit that sender and receiver
\* count differently, or a byte that is read too much, would leave it behind.
Delivered ==
    \A f \in Frames :
        f \in Range(sent) ~> (f \in Range(got) \/ end \in {"whole", "part"} \/ lost # "nothing")
=============================================================================
