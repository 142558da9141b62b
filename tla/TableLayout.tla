----------------------------- MODULE TableLayout -----------------------------
(***************************************************************************)
(* The row counts print_assignment_table of bin/assigner/src/main.cpp puts *)
(* in the header of a table: usable_rows_amount and padded_rows_amount,    *)
(* both uint32_t.                                                          *)
(***************************************************************************)
EXTENDS Naturals

CONSTANTS Width,        \* bits of a uint32_t
          MinRows       \* the least padded_rows_amount, 8 in the code

Powers == {2 ^ k : k \in 0 .. Width}

\* The last two say what the provers do not know of exponentiation.
ASSUME WidthAssumption == /\ Width \in Nat \ {0}
                          /\ Powers \subseteq Nat \ {0}
                          /\ 2 ^ Width = 2 * 2 ^ (Width - 1)
ASSUME MinRowsAssumption == MinRows \in Nat \ {0}

Largest(a, b) == IF a >= b THEN a ELSE b

\* std::pow(2, std::ceil(std::log2(n))), on doubles; log2(0) is -inf and 2^-inf is 0.
CeilPower(n) == IF n = 0 THEN 0
                ELSE CHOOSE p \in Powers :
                        p >= n /\ \A q \in Powers : q >= n => p <= q

\* Mutant: a table whose usable rows are a power of two gets no padding row.
PaddedRows_exact(usable) == Largest(CeilPower(usable), MinRows)

\* Back in a uint32_t: what reaches 2^Width wraps.
PaddedRows(usable) ==
    LET power == CeilPower(usable)
        padded == IF power = usable THEN (2 * power) % (2 ^ Width) ELSE power
    IN  Largest(padded, MinRows)
===============================================================================
