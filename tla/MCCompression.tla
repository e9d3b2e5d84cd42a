---------------------------- MODULE MCCompression ----------------------------
(* Two buffers, one larger than the other, used by turns, and the two      *)
(* codecs whose wrappers stand next to each other.                         *)
EXTENDS Compression, TLC

CONSTANTS original, packed, text, items, words
MCBuffers == {original, packed}
MCCapacity == (original :> 2) @@ (packed :> 3)
MCUsedCodecs == {"deflate", "gzip"}
MCFailures == {0, -1}
=============================================================================
