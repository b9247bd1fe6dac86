----------------------------- MODULE MCMPSummary -----------------------------
EXTENDS MPSummary

\* The write_errors and read_errors of a totals dict.
T(we, re) == [write_errors |-> we, read_errors |-> re]

\* No errors, a few, and totals around 200, where one failure more or less
\* is half a percent.
MCResults ==
    { T(0, 0), T(1, 0), T(2, 1), T(150, 50), T(199, 0), T(100, 101), T(0, 7) }

\* f"{x:.0f}" by its definition: the integer nearest p / q, the even one of
\* two equally near.
Dist(p, q, k) == IF p >= k * q THEN p - k * q ELSE k * q - p
RefRound(p, q) ==
    CHOOSE k \in 0..(p \div q + 1) :
        \A j \in 0..(p \div q + 1) \ {k} :
            \/ Dist(p, q, k) < Dist(p, q, j)
            \/ Dist(p, q, k) = Dist(p, q, j) /\ k % 2 = 0

ASSUME \A p \in 0..400, q \in 1..40 : RoundHalfEven(p, q) = RefRound(p, q)
=============================================================================
