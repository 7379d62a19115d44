------------------------------ MODULE MC_Serial ------------------------------
\* The driver on a ring of four slots, with texts of one character, shorter and
\* longer than the ring, and reads below and above its size.
EXTENDS SerialDriver

CONSTANTS a, erase, enter, zero

MCLetters == {a}
NoErase == {a, enter}
AnyKey == {a, enter, erase}
=============================================================================
