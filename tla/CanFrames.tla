------------------------------ MODULE CanFrames ------------------------------
(***************************************************************************)
(* A setpoint on the CAN bus (src/CANBus.cpp, src/main.cpp:647-677): tenths *)
(* of a degree in two bytes.  The display's frame becomes a float, and     *)
(* every two seconds the float becomes a frame again.  Arithmetic is that  *)
(* of a 32-bit float: 24 bits of mantissa, rounded to nearest, ties to     *)
(* even.  `tenths' runs through every int16_t.                             *)
(***************************************************************************)
EXTENDS Integers

CONSTANTS
    Half   \* the setpoints looked at are -Half..Half - 1, of int16_t 2^15

ASSUME FramesAssumption == Half \in 1..2^15

VARIABLE tenths   \* the setpoint the display sends

-----------------------------------------------------------------------------
(* The bytes of the frame.                                                 *)

\* "(v >> 8) & 0xFF" and "v & 0xFF"
Bytes(v) == <<(v \div 256) % 256, v % 256>>

\* "(int16_t)((data[0] << 8) | data[1])"
Signed(b) == LET u == 256 * b[1] + b[2] IN IF u < 2^15 THEN u ELSE u - 2^16

-----------------------------------------------------------------------------
(* The float of the thermostat: mantissa * 2^-scale, for a positive number. *)

\* The quotient of two positive integers, to nearest, ties to even
Nearest(n, d) ==
    LET q == n \div d
        r == 2 * (n % d)
    IN IF r > d \/ (r = d /\ q % 2 = 1) THEN q + 1 ELSE q

Scale(m) == CHOOSE s \in 0..27 : 10 * 2^23 <= m * 2^s /\ m * 2^s < 10 * 2^24

\* "m / 10.0f"
Tenth(m) == [mantissa |-> Nearest(m * 2^Scale(m), 10), scale |-> Scale(m)]

\* Mutant: "x * 10.0", in double precision, where the product is exact.
TenTimes_Double(x) == [mantissa |-> 10 * x.mantissa, scale |-> x.scale]

\* "x * 10" in 24 bits: the product has 3 or 4 bits more.
TenTimes(x) ==
    LET p == 10 * x.mantissa
        k == IF p < 2^27 THEN 3 ELSE 4
    IN [mantissa |-> Nearest(p, 2^k) * 2^k, scale |-> x.scale]

\* "(int16_t)x"
Truncated(x) == x.mantissa \div 2^x.scale

\* What the board publishes after a display has sent v; signs are symmetric.
Published(v) ==
    CASE v = 0 -> 0
      [] v > 0 -> Truncated(TenTimes(Tenth(v)))
      [] v < 0 -> -Truncated(TenTimes(Tenth(-v)))

-----------------------------------------------------------------------------
FramesInit == tenths = -Half
FramesNext == tenths' = IF tenths < Half - 1 THEN tenths + 1 ELSE -Half
FramesSpec == FramesInit /\ [][FramesNext]_tenths

\* "heat setpoint (x10, e.g. 685 = 68.5F)" (CANBus.cpp:85): the board publishes
\* the very setpoint a display has sent, although a tenth is no binary float
\* and the way back truncates.  A display that follows the board never drifts.
EchoIsExact ==
    LET received == Signed(Bytes(tenths))
    IN received = tenths /\ Signed(Bytes(Published(received))) = tenths
=============================================================================
