-------------------------------- MODULE MC_Clock --------------------------------
\* Sessions that begin in the last second of an hour, a month or a century.
EXTENDS Clock

At(h, m, s, d, mo, y) ==
  [hour |-> h, min |-> m, sec |-> s, day |-> d, month |-> mo, year |-> y]

MCStarts == {At(9, 59, 59, 9, 10, 9), At(23, 59, 59, 28, 2, 3), At(23, 59, 59, 31, 12, 99)}

\* Numbers in and out of the ranges, up to the four characters of a line, signed and not.
MCInputs == {-12, 9, 59, 1245}
=============================================================================
