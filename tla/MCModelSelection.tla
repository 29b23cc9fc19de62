-------------------------- MODULE MCModelSelection --------------------------
(***************************************************************************)
(* ModelSelection for TLC: the default lists, a mixed one and an empty one; *)
(* short series of zeros and ones for the autoregressions, ramps with and   *)
(* without repetitions for the polynomials, and calls that are refused.     *)
(***************************************************************************)
EXTENDS ModelSelection

Poly(d) == [kind |-> "poly", size |-> d]
Ar(o) == [kind |-> "ar", size |-> o]

MCLists ==
    {<<Poly(1), Poly(2), Poly(3)>>, <<Ar(1), Ar(2)>>,
     <<Ar(2), Poly(2), Poly(1), Ar(1)>>, <<>>}

MCRatios == {<<1, 2>>, <<4, 5>>}

\* x is y, but for one value at most.
Variants(x) ==
    {[x |-> x, y |-> x]} \cup
        {[x |-> x, y |-> [x EXCEPT ![i] = 1 - @]] : i \in {1, Len(x)}}

Binary == UNION {[1..n -> {0, 1}] : n \in {1, 2, 5, 9, 10}}
Ramps == UNION {{[i \in 1..n |-> i \div step] : step \in {1, 2, 3}} : n \in 3..10}

MCInputs ==
    (UNION {Variants(x) : x \in Binary \cup Ramps})
        \cup {[x |-> <<>>, y |-> <<>>], [x |-> <<1>>, y |-> <<1, 2>>],
              [x |-> <<1, NaN>>, y |-> <<1, 2>>]}

\* Hundredths.
MCLn == <<0, 69, 110, 139, 161, 179, 195, 208, 220, 230>>

=============================================================================
