------------------------------ MODULE ZipfDraw ------------------------------
(***************************************************************************)
(* Zipf_generator (zipf.cc): Jain's linear congruential generator and the  *)
(* binary search that maps a draw z = x / m to a value in 1..n.  Real      *)
(* numbers are kept as fractions: sum_probs[i] is PartialSum(i) over       *)
(* PartialSum(n), and it is compared with x / m on the integers.           *)
(***************************************************************************)
EXTENDS Integers, Sequences

CONSTANTS
  Power      \* Power[i] stands for 1 / pow(i, alpha), as an integer weight

ASSUME PowerAssumption == Power \in Seq(Nat \ {0})

-----------------------------------------------------------------------------
Modulus == 2147483647          \* m, 2^31 - 1
Multiplier == 16807            \* a, 7^5
Quotient == 127773             \* q, m div a
Rest == 2836                   \* r, m mod a

\* rand_val(0): a * x mod m without leaving the width of an integer.
Rand(x) ==
  LET x_new == (Multiplier * (x % Quotient)) - (Rest * (x \div Quotient))
  IN  IF x_new > 0 THEN x_new ELSE x_new + Modulus

\* The i-th number of a generator seeded with 1, as genZipfNum seeds it for
\* every row.
Draws(n) ==
  LET draw[i \in 0..n] == IF i = 0 THEN 1 ELSE Rand(draw[i - 1])
  IN  [i \in 1..n |-> draw[i]]

-----------------------------------------------------------------------------
PartialSum(n) ==
  LET sum[i \in 0..n] == IF i = 0 THEN 0 ELSE sum[i - 1] + Power[i]
  IN  sum[n]

\* sum_probs[i] >= x / m holds exactly when x <= Threshold(n, i).
Threshold(n, i) ==
  LET whole == PartialSum(n)
  IN  IF whole = 0 THEN 0
      ELSE (Modulus \div whole) * PartialSum(i)
             + ((Modulus % whole) * PartialSum(i)) \div whole

\* What zipf is to return: the value whose share of the interval holds x.
\* There is none when n is 0.
IsZipf(n, x, v) ==
  v \in 1..n /\ Threshold(n, v - 1) < x /\ x <= Threshold(n, v)

\* The bounds low and high of the search, as it may come to have them.
Bounds(n) == (1..n + 1) \X (0..n)
Middle(b) == (b[1] + b[2]) \div 2

\* A slip: the lower end of the share is not looked at.
SearchUpper(n, x) ==
  LET next[b \in Bounds(n)] ==
        CASE x <= Threshold(n, Middle(b)) -> Middle(b)
          [] Middle(b) + 1 <= b[2] -> next[<<Middle(b) + 1, b[2]>>]
          [] OTHER -> 0
  IN  next[<<1, n>>]

\* zipf: the binary search.  0 stands for the value left undefined when the
\* search ends without one, which the assertion after it then meets.
Search(n, x) ==
  LET next[b \in Bounds(n)] ==
        IF x <= Threshold(n, Middle(b))
          THEN IF Threshold(n, Middle(b) - 1) < x THEN Middle(b)
               ELSE IF b[1] <= Middle(b) - 1 THEN next[<<b[1], Middle(b) - 1>>]
               ELSE 0
          ELSE IF Middle(b) + 1 <= b[2] THEN next[<<Middle(b) + 1, b[2]>>]
               ELSE 0
  IN  next[<<1, n>>]

=============================================================================
