------------------------------- MODULE MCFrames -------------------------------
\* The session's and the world's writer, a header of two bytes.
EXTENDS Frames

===============================================================================
