----------------------------- MODULE MCMemorySim -----------------------------
(***************************************************************************)
(* Model checking of MemorySim on small address spaces.                    *)
(***************************************************************************)
EXTENDS MemorySim

\* One region that reaches the last address, so that entries wrap to an end of 0.
TopShape == {<<4, 4>>}

\* Two neighbouring regions with a gap after them.
NeighbourShapes == {<<0, 3>>, <<3, 1>>}

\* Two regions of odd size that overlap; one reaches the last address.
OverlappingShapes == {<<0, 3>>, <<1, 4>>}

\* A region for an image and a region next to it.
ImageShapes == {<<0, 5>>, <<5, 1>>}

NoImages == {}
NoTypes == {}

\* An image whose size is no multiple of a word, and one that is too short;
\* the stack pointer is above a RAM region of one byte.
SmallImages == {<<5, 6>>, <<3, 6>>}

\* An image that is too short for a region of its own, to be loaded.
ShortImage == {<<3, 4>>}

BothBytes == {0, 1}
ZeroByte == {0}

\* Calls and replies do not influence later calls.
Memory_View == <<regions, watchpointEncountered>>
=============================================================================
