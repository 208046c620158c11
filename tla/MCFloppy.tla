------------------------------ MODULE MCFloppy ------------------------------
EXTENDS FloppyProps

\* The first and the last block of track 0, its second head, the next track,
\* a track the drive does not have, what atoi makes of "-2" and "-36", and a
\* number that a directory may hold, whose track is 0 modulo 256.
SomeLBAs == {-36, -2, 0, 17, 18, 40, 72, 9216}
=============================================================================
