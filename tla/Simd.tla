-------------------------------- MODULE Simd --------------------------------
(***************************************************************************)
(* The batch operations of src/simd/mod.rs on slices of integers: the loop *)
(* over single elements (SimdLevel::None) and the one over vectors of L    *)
(* lanes.  An element has W bits and is the number these bits make without *)
(* a sign.  Where an operation panics its result is Panics.                *)
(***************************************************************************)
EXTENDS Integers, Sequences, Bitwise

\* No element is negative.
Panic == -1
Panics == <<Panic>>

Signed(x, W) == IF x >= 2^(W - 1) THEN x - 2^W ELSE x
Bits(v, W) == v % 2^W
Value(x, sg, W) == IF sg THEN Signed(x, W) ELSE x

\* Rust's division rounds to zero.
Abs(v) == IF v < 0 THEN -v ELSE v
Quot(v, w) == IF (v < 0) = (w < 0) THEN Abs(v) \div Abs(w) ELSE -(Abs(v) \div Abs(w))
Divided(op, x, y, sg, W) ==
  LET v == Value(x, sg, W)  w == Value(y, sg, W)
  IN  Bits(IF op = "div" THEN Quot(v, w) ELSE v - w * Quot(v, w), W)
Overflows(x, y, sg, W) == sg /\ x = 2^(W - 1) /\ y = 2^W - 1

\* What is the same for both: wrapping arithmetic and bits.
Common(op, x, y, W) ==
  CASE op = "add" -> Bits(x + y, W)
    [] op = "sub" -> Bits(x - y, W)
    [] op = "mul" -> Bits(x * y, W)
    [] op = "and" -> x & y
    [] op = "or"  -> x | y
    [] op = "xor" -> x ^^ y
    [] op = "not" -> 2^W - 1 - x

Shl(x, n, W) == Bits(x * 2^n, W)
\* >> keeps the sign of signed numbers.
Shr(x, n, sg, W) == Bits(Value(x, sg, W) \div 2^n, W)
Rotate(x, n, W) == Bits(x * 2^n, W) + (x * 2^n) \div 2^W

Divisions == {"div", "rem"}
Shifts == {"shl", "shr", "rotl", "rotr"}
Ops == Divisions \cup Shifts \cup {"add", "sub", "mul", "and", "or", "xor", "not"}

\* How many elements of a are worked on: with a second slice b, as many as both have.
Used(op, a, b) == IF op \in Shifts \cup {"not"} \/ Len(a) <= Len(b) THEN Len(a) ELSE Len(b)

-----------------------------------------------------------------------------
(* SimdLevel::None *)

\* A zero divisor leaves the element alone; the lowest number over -1 panics, and
\* so does a shift by all the bits or more where overflows are checked.
ScalarElem(op, x, y, n, sg, W, checks) ==
  CASE op \in Divisions -> IF y = 0 THEN x
                           ELSE IF Overflows(x, y, sg, W) THEN Panic ELSE Divided(op, x, y, sg, W)
    [] op \in {"shl", "shr"} /\ n >= W /\ checks -> Panic
    [] op = "shl" -> Shl(x, n % W, W)
    [] op = "shr" -> Shr(x, n % W, sg, W)
    [] op = "rotl" -> Rotate(x, n % W, W)
    [] op = "rotr" -> Rotate(x, (W - n) % W, W)
    [] OTHER -> Common(op, x, y, W)

Scalar(op, a, b, n, sg, W, checks) ==
  LET r == [i \in DOMAIN a |-> IF i <= Used(op, a, b) THEN ScalarElem(op, a[i], b[i], n, sg, W, checks) ELSE a[i]]
  IN  IF \E i \in DOMAIN a : r[i] = Panic THEN Panics ELSE r

-----------------------------------------------------------------------------
(* The vectors: core::simd's operators. *)

\* Division wraps; shifts take their amount modulo W; a rotation is two shifts.
VectorElem(op, x, y, n, sg, W) ==
  CASE op \in Divisions -> IF Overflows(x, y, sg, W) THEN (IF op = "div" THEN x ELSE 0) ELSE Divided(op, x, y, sg, W)
    [] op = "shl" -> Shl(x, n % W, W)
    [] op = "shr" -> Shr(x, n % W, sg, W)
    [] op = "rotl" -> Shl(x, n % W, W) | Shr(x, (W - n) % W, sg, W)
    [] op = "rotr" -> Shr(x, n % W, sg, W) | Shl(x, (W - n) % W, W)
    [] OTHER -> Common(op, x, y, W)

\* Slip: the last vector is left out when it is not full.
VectorFullOnly(op, a, b, n, sg, W, L) ==
  LET full == (Used(op, a, b) \div L) * L
  IN  IF op \in Divisions /\ \E k \in 1..full : b[k] = 0 THEN Panics
      ELSE [i \in DOMAIN a |-> IF i <= full THEN VectorElem(op, a[i], b[i], n, sg, W) ELSE a[i]]

\* The lanes of the last vector behind the end are loaded as 0 and not stored;
\* division looks at all lanes for a zero divisor, and panics.
Vector(op, a, b, n, sg, W, L) ==
  LET len == Used(op, a, b)
      loaded == ((len + L - 1) \div L) * L
      lane(k) == IF k <= len THEN b[k] ELSE 0
  IN  IF op \in Divisions /\ \E k \in 1..loaded : lane(k) = 0 THEN Panics
      ELSE [i \in DOMAIN a |-> IF i <= len THEN VectorElem(op, a[i], b[i], n, sg, W) ELSE a[i]]
=============================================================================
