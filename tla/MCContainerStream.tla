------------------------- MODULE MCContainerStream -------------------------
(* Two kinds of block, one of which the codec makes smaller.                *)
EXTENDS ContainerStream
CONSTANTS text, photo

MCChunks == {text, photo}
MCCompressible == {text}
=============================================================================
