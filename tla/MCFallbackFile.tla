--------------------------- MODULE MCFallbackFile ---------------------------
\* FallbackFile with a file of 7 bytes, so that three records fill it,
\* one size that never fits, and enough writes to trim several times.
EXTENDS FallbackFile

MCSizes == {2, 3, 8}
=============================================================================
