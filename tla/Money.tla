-------------------------------- MODULE Money --------------------------------
(***************************************************************************)
(* Amounts and the widths of the numbers that hold them: grosze in an int, *)
(* what a stream with six significant digits makes of a price in fleet.txt *)
(* and what a typed rate becomes.  TLC's integers are as wide as an int of *)
(* the program, so an instance scales the limit down.                      *)
(***************************************************************************)
EXTENDS Integers

CONSTANT IntMax         \* the greatest int

IntMin == -IntMax - 1
FitsInt(x) == IntMin <= x /\ x <= IntMax

\* The weight of the last of six significant digits of a price, in grosze.
Digit(p) == CHOOSE d \in {1, 10, 100, 1000, 10000} :
    p \div d < 1000000 /\ (d = 1 \/ p \div d >= 100000)

SavedPriceWhole(p) == (p \div 100) * 100     \* mutant: the grosze are not written

\* serializeVehicle prints price / 100.0 with the six significant digits of a
\* stream, deserializeVehicle rounds what it reads times 100.
SavedPrice(p) == ((p + Digit(p) \div 2) \div Digit(p)) * Digit(p)

\* The greatest int of the builds.
Int32Max == 2147483647

\* The limit is that of a 32-bit int or, in an instance, a smaller one with the
\* property of the real one: it is not rounded up when it is saved, so every
\* price that fits an int can be read again.
ASSUME IntMaxAssumption == IntMax \in 0..Int32Max /\ SavedPrice(IntMax) <= IntMax

\* The sum or product of two ints as a build computes it: undefined beyond the
\* limits, and the machine drops the upper bits.
Wrap(x) == ((x - IntMin) % (IntMax - IntMin + 1)) + IntMin

\* What a build may make of a double that no int holds: the conversion is
\* undefined, x86 gives the least int, ARM the nearest one.
Conversions == {"least", "nearest"}
ToInt(x, conversion) ==
    IF FitsInt(x) THEN x
    ELSE IF conversion = "least" \/ x < 0 THEN IntMin ELSE IntMax

\* A rate typed as so many thousandths of PLN: std::round to whole grosze, half
\* away from zero, and the conversion to int.
Grosze(t, conversion) ==
    ToInt(IF t >= 0 THEN (t + 5) \div 10 ELSE -((5 - t) \div 10), conversion)
=============================================================================
