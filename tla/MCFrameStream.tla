---------------------------- MODULE MCFrameStream ----------------------------
\* Frames for the run of FrameStream.
EXTENDS FrameStream

\* JSON: a brace, letters Y, a digit and a brace. Y is also the magic byte, and the
\* digit is also the number of a frame type.
Text(n) == [i \in 1 .. n |-> IF i = 1 THEN 123 ELSE IF i = n THEN 125 ELSE IF i = n - 1 THEN 49 ELSE 89]

Json(type, n) == [frame_type |-> type, flags |-> 0, stream_id |-> 0, payload |-> Text(n)]

\* The bytes of a file that holds a whole frame.
Heart == Json(16, 2)
Chunk == [frame_type |-> FileChunk, flags |-> 0, stream_id |-> 0,
          payload |-> <<0, 0, 0, 0>> \o Encode(Heart)]

\* 345 = 256 * 1 + 89: its length looks like the beginning of a header.
MCFrames == {Heart, Json(18, 5), Json(49, 345), Json(48, 346), Chunk}
=============================================================================
