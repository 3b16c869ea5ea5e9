------------------------------ MODULE Rational ------------------------------
(***************************************************************************)
(* The rational numbers of common/rational.cpp, in which positions and     *)
(* speeds are counted: a numerator over a positive denominator, in lowest  *)
(* terms after every operation.  The code's ints do not overflow here: a   *)
(* position's denominator divides 48, its numerator 48 times the frames.   *)
(***************************************************************************)
EXTENDS Integers

Abs(n) == IF n < 0 THEN -n ELSE n

gcd[p \in Nat \X Nat] ==
    LET a == p[1]
        b == p[2]
    IN  IF a = 0 THEN b
        ELSE IF b = 0 THEN a
        ELSE IF a > b THEN gcd[<<a % b, b>>]
        ELSE gcd[<<a, b % a>>]

lcm(a, b) == (a * b) \div gcd[<<a, b>>]

\* The sign moves to the numerator; a denominator of 0 fails an assertion.
reduce(n, d) ==
    LET sign == IF d < 0 THEN -1 ELSE 1
        g == gcd[<<Abs(n), Abs(d)>>]
    IN  [num |-> (sign * n) \div g, denom |-> (sign * d) \div g]

\* Rational(num, denom), which throws for a negative denominator.
Ratio(n, d) == reduce(n, d)
Whole(n) == [num |-> n, denom |-> 1]
inverse(r) == Ratio(r.denom, r.num)

Plus(r, s) ==
    LET cd == lcm(r.denom, s.denom)
    IN  reduce(r.num * (cd \div r.denom) + s.num * (cd \div s.denom), cd)
Times(r, s) == reduce(r.num * s.num, r.denom * s.denom)
Over(r, s) == Times(r, inverse(s))

\* Both parts are cut towards zero.
integer_part(r) ==
    IF r.num > 0 THEN r.num \div r.denom ELSE -((-r.num) \div r.denom)
fractional_part(r) ==
    IF r.num > 0 THEN Ratio(r.num % r.denom, r.denom)
    ELSE Ratio(-((-r.num) % r.denom), r.denom)

(* Mutant of less_than_one_half: exactly one half passes. *)
AtMostOneHalf(r) == 2 * r.num <= r.denom

less_than_one_half(r) == 2 * r.num < r.denom

-----------------------------------------------------------------------------
(***************************************************************************)
(* What the rest of the program takes for granted, for the numbers of a    *)
(* set: sums and quotients are exact and in lowest terms, and the two      *)
(* parts of a number add up to it.                                         *)
(***************************************************************************)
IsLowest(r) == r.denom > 0 /\ gcd[<<Abs(r.num), r.denom>>] = 1

RationalsExact(S) ==
    \A r, s \in S :
      LET sum == Plus(r, s)
      IN  /\ IsLowest(sum)
          /\ sum.num * r.denom * s.denom
                = (r.num * s.denom + s.num * r.denom) * sum.denom
          /\ s.num > 0 => Times(Over(r, s), s) = r
          /\ Plus(Whole(integer_part(r)), fractional_part(r)) = r
          /\ Abs(fractional_part(r).num) < fractional_part(r).denom
=============================================================================
