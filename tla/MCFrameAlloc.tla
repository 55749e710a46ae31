---------------------------- MODULE MCFrameAlloc ----------------------------
EXTENDS FrameAlloc

\* All memory; memory with a hole; a block that ends, and one that begins,
\* within a word of the map.
MCMaps == {Frames, 0..11 \cup 16..23, 0..18, 0..13 \cup 19..21}
=============================================================================
