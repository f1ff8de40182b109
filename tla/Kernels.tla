------------------------------ MODULE Kernels ------------------------------
(***************************************************************************)
(* The distance functions of DETLSH.cpp: euclidean_distance, used with one *)
(* thread, and the AVX-512 functions taken from faiss, of which main uses  *)
(* fvec_L2sqr_avx512 with several threads. A vector is a function on the   *)
(* offsets from 0, a register a function on its lanes. Numbers are exact:  *)
(* that a float sum depends on its order is left out.                      *)
(***************************************************************************)
EXTENDS Integers

\* euclidean_distance: one component at a time, the last first.
EuclideanDistance(t, s, size) ==
    LET distance[n \in 0 .. size] ==
            IF n = size THEN 0
            ELSE distance[n + 1] + (t[n] - s[n]) * (t[n] - s[n])
    IN  distance[0]

\* The fault of not reading the last component.
MaskedReadShort(x, o, d) == [l \in 0 .. 3 |-> IF l < d - 1 THEN x[o + l] ELSE 0]

\* masked_read: the d < 4 components that are left, zeros behind them.
MaskedRead(x, o, d) == [l \in 0 .. 3 |-> IF l < d THEN x[o + l] ELSE 0]

\* The upper half of a register of 2 * n lanes onto the lower one.
Halved(Plus, v, n) == [l \in 0 .. n - 1 |-> Plus[<<v[l + n], v[l]>>]]

\* A block of n components from offset o on added to the n lanes of v.
Block(Plus, Term, v, x, y, o, n) ==
    [l \in 0 .. n - 1 |-> Plus[<<v[l], Term[<<x[o + l], y[o + l]>>]>>]]

\* The loop over the blocks of 16.
Wide(Plus, Term, x, y, d) ==
    LET wide[b \in 0 .. d \div 16] ==
            IF b = 0 THEN [l \in 0 .. 15 |-> 0]
            ELSE Block(Plus, Term, wide[b - 1], x, y, 16 * (b - 1), 16)
    IN  wide[d \div 16]

\* The shape the four functions share: blocks of 16 while there are 16, one of
\* 8 and one of 4 if there is one, what is left through masked_read, and the
\* lanes of the last register together.
Kernel(Plus, Term, x, y, d) ==
    LET d16 == d % 16
        o16 == d - d16
        half == Halved(Plus, Wide(Plus, Term, x, y, d), 8)
        msum1 == IF d16 >= 8 THEN Block(Plus, Term, half, x, y, o16, 8) ELSE half
        d8 == d16 % 8
        o8 == d - d8
        quarter == Halved(Plus, msum1, 4)
        msum2 == IF d8 >= 4 THEN Block(Plus, Term, quarter, x, y, o8, 4) ELSE quarter
        d4 == d8 % 4
        o4 == d - d4
        rest == IF d4 > 0
                THEN Block(Plus, Term, msum2, MaskedRead(x, o4, d4), MaskedRead(y, o4, d4), 0, 4)
                ELSE msum2
    IN  Plus[<<Plus[<<rest[0], rest[1]>>], Plus[<<rest[2], rest[3]>>]>>]

\* The operations on two numbers, as functions so that they can be arguments.
Add == [p \in Int \X Int |-> p[1] + p[2]]
Greater == [p \in Int \X Int |-> IF p[1] > p[2] THEN p[1] ELSE p[2]]
SquareOfDifference == [p \in Int \X Int |-> (p[1] - p[2]) * (p[1] - p[2])]
Product == [p \in Int \X Int |-> p[1] * p[2]]
AbsDifference == [p \in Int \X Int |-> IF p[1] > p[2] THEN p[1] - p[2] ELSE p[2] - p[1]]

L2sqr(x, y, d) == Kernel(Add, SquareOfDifference, x, y, d)
InnerProduct(x, y, d) == Kernel(Add, Product, x, y, d)
L1(x, y, d) == Kernel(Add, AbsDifference, x, y, d)
Linf(x, y, d) == Kernel(Greater, AbsDifference, x, y, d)

-----------------------------------------------------------------------------
(* What they should compute.                                               *)

\* One component after the other, from the first.
InTurn(Plus, Term, x, y, d) ==
    LET turn[n \in 0 .. d] ==
            IF n = 0 THEN 0
            ELSE Plus[<<turn[n - 1], Term[<<x[n - 1], y[n - 1]>>]>>]
    IN  turn[d]

SquaredDistance(x, y, d) == InTurn(Add, SquareOfDifference, x, y, d)

\* Each kernel takes in every component once, whatever is left over by the
\* blocks of 16, 8 and 4.
KernelsRight(x, y, d) ==
    /\ EuclideanDistance(x, y, d) = SquaredDistance(x, y, d)
    /\ L2sqr(x, y, d) = SquaredDistance(x, y, d)
    /\ InnerProduct(x, y, d) = InTurn(Add, Product, x, y, d)
    /\ L1(x, y, d) = InTurn(Add, AbsDifference, x, y, d)
    /\ Linf(x, y, d) \in {AbsDifference[<<x[c], y[c]>>] : c \in 0 .. d - 1}
    /\ \A c \in 0 .. d - 1 : AbsDifference[<<x[c], y[c]>>] <= Linf(x, y, d)
=============================================================================
