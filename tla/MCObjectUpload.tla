---------------------------- MODULE MCObjectUpload ----------------------------
(* Instances of ObjectUpload for TLC: who uploads what, and how large it is. *)
EXTENDS ObjectUpload

CONSTANTS s1, s2, b1, b2

\* b1 has two chunks, b2 is the empty file, any other blob has one chunk; sizes
\* in units of one chunk.
MCChunks == [b \in Blob |-> IF b = b1 THEN 2 ELSE IF b = b2 THEN 0 ELSE 1]
MCSize == MCChunks
MCQuotaOf == [free |-> 2, pro |-> 3]

\* b1 is uploaded by s1 only, b2 by s2 only, and the others by both.
MCMixedBlobs == [s \in Session |-> Blob \ (IF s = s1 THEN {b2} ELSE {b1})]
=============================================================================
