------------------------------- MODULE AvrInt -------------------------------
(***************************************************************************)
(* Integer arithmetic of the firmware's target, the ATmega328 of the       *)
(* Arduino Uno and Nano (platformio.ini): int has 16 bits, long has 32,    *)
(* and a narrowing conversion keeps the low bits in two's complement.      *)
(***************************************************************************)
EXTENDS Integers

IntMin == -32768
IntMax == 32767
Int16 == IntMin .. IntMax

(* Conversion of an integer to int.  Signed overflow in int arithmetic,    *)
(* undefined in C++, wraps in the same way in the build for this target.   *)
ToInt(x) == ((x + 32768) % 65536) - 32768

(* C++ integer division, which truncates toward zero (\div rounds down).   *)
TruncDiv(x, d) ==
  IF d > 0
  THEN IF x >= 0 THEN x \div d ELSE -((-x) \div d)
  ELSE IF x >= 0 THEN -(x \div (-d)) ELSE (-x) \div (-d)

=============================================================================
