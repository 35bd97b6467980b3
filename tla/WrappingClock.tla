--------------------------- MODULE WrappingClock ---------------------------
(***************************************************************************)
(* Arithmetic of the boards' millisecond clock: millis() returns the time   *)
(* since the start in an unsigned integer, and so do the sums and           *)
(* differences that the sketches compute from it.  A moment is a natural    *)
(* number; the program only ever sees its reading.                          *)
(***************************************************************************)
EXTENDS Integers

CONSTANT Wrap    \* the number of readings (2^32 on the boards)

ASSUME WrapAssumption == Wrap \in Nat \ {0}

Readings == 0 .. (Wrap - 1)

\* millis() at a moment.
Reading(moment) == moment % Wrap

\* Unsigned addition and subtraction.
Plus(reading, duration) == (reading + duration) % Wrap
Since(reading, earlier) == (reading - earlier) % Wrap
=============================================================================
