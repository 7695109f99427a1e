------------------------------- MODULE FanOut -------------------------------
(***************************************************************************)
(* How the Saguaro strategy divides its guesses among the candidate exits  *)
(* of a submitted tree (client/saguaro/outcomes.py).  An exit is numbered  *)
(* by its place k in 0 .. K, in trunk mode the number of tokens accepted   *)
(* there.                                                                  *)
(*                                                                         *)
(* The code computes in floating point.  Here r = 1 and the acceptance     *)
(* rate is such that its square root alpha/den and that of the rejection   *)
(* rate, beta/den, are rational (3-4-5 is the rate 0.36); den = alpha is   *)
(* the rate 1, alpha = 0 the rate 0.  Shares are kept as fractions of      *)
(* Total.                                                                  *)
(***************************************************************************)
EXTENDS Integers, FiniteSetsExt

Rates == {r \in [alpha : 0 .. 5, beta : 0 .. 5, den : {5}] :
            r.alpha * r.alpha + r.beta * r.beta = r.den * r.den}

FanOutKinds == {"uniform", "geometric", "geometric_reverse"}

uniform_fan_out(K, B) ==
  [k \in 0 .. K |-> (B \div (K + 1)) + IF k < B % (K + 1) THEN 1 ELSE 0]

Power(base, n) == LET p[i \in 0 .. n] == IF i = 0 THEN 1 ELSE base * p[i - 1] IN p[n]

\* alpha^k before the last place and alpha^K / beta there, on a common
\* denominator.
Weight(K, rate, k) ==
  IF k < K THEN Power(rate.alpha, k) * Power(rate.den, K - k) * rate.beta
  ELSE Power(rate.alpha, K) * rate.den

Total(K, rate) == MapThenSumSet(LAMBDA k : Weight(K, rate, k), 0 .. K)

\* Python's round of n / d: to the nearest integer, a half to the even one.
Round(n, d) ==
  LET low == n \div d
  IN  CASE 2 * (n % d) < d -> low
        [] 2 * (n % d) > d -> low + 1
        [] OTHER -> low + (low % 2)

\* A mutant of Corrected: the residues are always sorted in ascending order.
CorrectedAscending(fan, residue, diff) ==
  LET Before(j, k) == residue[j] < residue[k] \/ (residue[j] = residue[k] /\ j < k)
      first(k) == Cardinality({j \in DOMAIN fan : Before(j, k)}) < Max({diff, -diff})
  IN  [k \in DOMAIN fan |-> Max({0, fan[k] + CASE first(k) /\ diff > 0 -> 1
                                               [] first(k) /\ diff < 0 -> -1
                                               [] OTHER -> 0})]

\* Make up for a sum that rounding put diff off: by one each at the places that
\* rounding took most from, or gave most to.
Corrected(fan, residue, diff) ==
  LET Before(j, k) ==
        \/ IF diff > 0 THEN residue[j] > residue[k] ELSE residue[j] < residue[k]
        \/ residue[j] = residue[k] /\ j < k
      first(k) == Cardinality({j \in DOMAIN fan : Before(j, k)}) < Max({diff, -diff})
  IN  [k \in DOMAIN fan |-> Max({0, fan[k] + CASE first(k) /\ diff > 0 -> 1
                                               [] first(k) /\ diff < 0 -> -1
                                               [] OTHER -> 0})]

geometric_fan_out(K, B, rate) ==
  LET total == Total(K, rate)
      fan   == [k \in 0 .. K |-> Round(Weight(K, rate, k) * B, total)]
  IN  CASE B <= 0          -> [k \in 0 .. K |-> 0]
        [] B > 0 /\ rate.alpha = 0 -> [k \in 0 .. K |-> IF k = 0 THEN B ELSE 0]
        [] B > 0 /\ rate.beta = 0  -> [k \in 0 .. K |-> IF k = K THEN B ELSE 0]
        [] OTHER -> Corrected(fan,
                              [k \in 0 .. K |-> Weight(K, rate, k) * B - fan[k] * total],
                              B - MapThenSumSet(LAMBDA k : fan[k], 0 .. K))

geometric_reverse_fan_out(K, B, rate) ==
  [k \in 0 .. K |-> geometric_fan_out(K, B, rate)[K - k]]

Fan(kind, K, B, rate) ==
  CASE kind = "uniform"           -> uniform_fan_out(K, B)
    [] kind = "geometric"         -> geometric_fan_out(K, B, rate)
    [] kind = "geometric_reverse" -> geometric_reverse_fan_out(K, B, rate)

----------------------------------------------------------------------------
\* What a schedule promises.  Rounding neither loses nor invents guesses, leaves
\* every place within one guess of its exact share, and never gives more to a
\* place than to a shallower one (the last place apart, whose weight is another).
FairSchedule(K, B, rate) ==
  LET fan   == geometric_fan_out(K, B, rate)
      total == Total(K, rate)
      off(k) == fan[k] * total - Weight(K, rate, k) * B
  IN  /\ \A k \in 0 .. K : fan[k] >= 0
      /\ MapThenSumSet(LAMBDA k : fan[k], 0 .. K) = B
      /\ rate.alpha # 0 /\ rate.beta # 0 =>
           \A k \in 0 .. K : off(k) < total /\ -off(k) < total
      /\ \A j, k \in 0 .. K : uniform_fan_out(K, B)[j] - uniform_fan_out(K, B)[k] <= 1
      /\ MapThenSumSet(LAMBDA k : uniform_fan_out(K, B)[k], 0 .. K) = B
      /\ rate.beta # 0 => \A j, k \in 0 .. K - 1 : j <= k => fan[k] <= fan[j]
=============================================================================
