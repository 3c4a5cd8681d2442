--------------------------- MODULE MCRegistration ---------------------------
EXTENDS Registration

\* With 5 and 2 leading zero bits.
MCSamples == { <<0, 1>>, <<1, 0>> }
=============================================================================
