---------------------------- MODULE TableSections ----------------------------
(***************************************************************************)
(* The file print_assignment_table of bin/assigner/src/main.cpp writes,    *)
(* for one prover (SINGLE_PROVER) and for one of many (MULTI_PROVER): a    *)
(* header of row and column counts, then four sections, each announced by  *)
(* its size and followed by its columns, every column padded_rows_amount   *)
(* cells long. A reader has nothing but the announced sizes to find the    *)
(* next section by.                                                        *)
(*                                                                         *)
(* A section has leading and trailing columns: the component columns and   *)
(* the lookup columns of constants and selectors, the public input columns *)
(* and the shared one. Sizes and counters are uint32_t; the cells that are *)
(* really in the file are counted without a bound. What is in the cells is *)
(* the subject of RowCompaction.                                           *)
(***************************************************************************)
EXTENDS Integers, TableLayout

CONSTANTS Counts,       \* how many leading or trailing columns a section may have
          Lengths       \* how many rows a column, or the used rows, may come to

\* With more rows than half the range, std::pow yields 2^32 and its conversion to a
\* uint32_t is undefined.
ASSUME SectionsAssumption == /\ Counts \subseteq Nat
                             /\ Lengths \subseteq 0 .. 2 ^ (Width - 1)

Modulus == 2 ^ Width    \* of a uint32_t

Order == <<"witness", "public", "constant", "selector">>
Sections == {"witness", "public", "constant", "selector"}
Halves == {"leading", "trailing"}
Lookups == {"constant", "selector"}

VARIABLES multi,        \* print_kind = MULTI_PROVER
          count,        \* the columns of each half of each section
          longest,      \* the rows of the longest of them
          listed,       \* the rows of the longest column get_lookup_constant_cols() and
                        \* get_lookup_selector_cols() name, for many provers
          used_rows,    \* get_used_rows().size()
          section,      \* the place in Order
          column,       \* the loop variable i
          announced,    \* for each section, the size printed before it
          written,      \* the cells that follow
          idx,          \* witness_idx, pub_inp_idx, constant_idx, selector_idx
          dropped,      \* the halves some column of which was not printed to its end
          at            \* "size", "columns", "closing", "printed" or "abort"

table == <<multi, count, longest, listed, used_rows>>
file == <<announced, written, idx, dropped>>
vars == <<table, section, column, file, at>>

Columns(s) == count[s]["leading"] + count[s]["trailing"]
TotalColumns == Columns("witness") + Columns("public")
                + Columns("constant") + Columns("selector")

\* The columns that are cut to the used rows.
Cut(s, half) == multi /\ s # "public" /\ half = "leading"

\* What usable_rows_amount is the largest of: for many provers the columns that are not cut
\* are taken from lists, those of the lookups from the library's; for one, all are looked at.
MultiRows == {used_rows, longest["public"]["trailing"], longest["public"]["leading"],
              listed["constant"], listed["selector"]}
SingleRows == {longest[s][h] : s \in Sections, h \in Halves}

\* Mutant: the lookup columns are left out of usable_rows_amount.
Usable_components ==
    LET rows == IF multi
                THEN {used_rows, longest["public"]["trailing"], longest["public"]["leading"]}
                ELSE SingleRows
    IN  CHOOSE n \in rows : \A m \in rows : m <= n

\* usable_rows_amount
Usable == LET rows == IF multi THEN MultiRows ELSE SingleRows
          IN  CHOOSE n \in rows : \A m \in rows : m <= n

Padded == PaddedRows(Usable)
TotalSize == (Padded * TotalColumns) % Modulus

TypeOK == /\ multi \in BOOLEAN
          /\ count \in [Sections -> [Halves -> Nat]]
          /\ longest \in [Sections -> [Halves -> Nat]]
          /\ listed \in [Lookups -> Nat]
          /\ used_rows \in Nat
          /\ section \in 1 .. 5 /\ column \in Nat
          /\ announced \in [Sections -> 0 .. Modulus - 1]
          /\ written \in [Sections -> Nat]
          /\ idx \in [Sections -> 0 .. Modulus - 1]
          /\ dropped \subseteq Sections \X Halves
          /\ at \in {"size", "columns", "closing", "printed", "abort"}
          /\ at \in {"size", "columns"} => section \in 1 .. 4 /\ column <= Columns(Order[section])

Nothing == [s \in Sections |-> 0]

Init == /\ multi \in BOOLEAN
        /\ count \in [Sections -> [Halves -> Counts \cup {0, 1}]]
        /\ count["witness"]["trailing"] = 0
        /\ count["public"]["trailing"] = IF multi THEN 1 ELSE 0
        /\ \A s \in Sections : count[s]["leading"] \in Counts
        /\ \A s \in Lookups : count[s]["trailing"] \in Counts
        /\ longest \in [Sections -> [Halves -> Lengths \cup {0}]]
        /\ \A s \in Sections, h \in Halves : count[s][h] = 0 => longest[s][h] = 0
        /\ listed \in [Lookups -> IF multi THEN Lengths \cup {0} ELSE {0}]
        /\ \A s \in Lookups : \E h \in Halves : listed[s] <= longest[s][h]
        /\ used_rows \in IF multi THEN Lengths ELSE {0}
        /\ section = 1 /\ column = 0
        /\ announced = Nothing /\ written = Nothing /\ idx = Nothing /\ dropped = {}
        /\ at = "size"
-------------------------------------------------------------------------------
Here == Order[section]
Half == IF column < count[Here]["leading"] THEN "leading" ELSE "trailing"

\* Mutant: the shared column is not in the announced size.
PrintSize_unshared ==
    /\ at = "size"
    /\ announced' = [announced EXCEPT ![Here] =
           ((IF Here = "public" THEN count[Here]["leading"] ELSE Columns(Here)) * Padded)
           % Modulus]
    /\ column' = 0 /\ at' = "columns"
    /\ UNCHANGED <<table, section, written, idx, dropped>>

\* Mutant: the product is computed in 64 bits.
PrintSize_wide ==
    /\ at = "size"
    /\ announced' = [announced EXCEPT ![Here] = Columns(Here) * Padded]
    /\ column' = 0 /\ at' = "columns"
    /\ UNCHANGED <<table, section, written, idx, dropped>>

\* print_size_t(columns * padded_rows_amount): a product of two uint32_t.
PrintSize == /\ at = "size"
             /\ announced' = [announced EXCEPT ![Here] = (Columns(Here) * Padded) % Modulus]
             /\ column' = 0 /\ at' = "columns"
             /\ UNCHANGED <<table, section, written, idx, dropped>>

Count(cells) == /\ written' = [written EXCEPT ![Here] = @ + cells]
                /\ UNCHANGED <<table, section, announced>>

PrintAll == /\ Count(Padded)
            /\ dropped' = IF longest[Here][Half] > Padded
                          THEN dropped \cup {<<Here, Half>>} ELSE dropped

\* Mutant: the shared columns are printed and not counted.
Advance_unshared ==
    /\ idx' = IF multi /\ ~(Here = "public" /\ Half = "trailing")
              THEN [idx EXCEPT ![Here] = (@ + Padded) % Modulus] ELSE idx
    /\ column' = column + 1
    /\ UNCHANGED at

\* The counters are kept for many provers only.
Advance == /\ idx' = IF multi THEN [idx EXCEPT ![Here] = (@ + Padded) % Modulus] ELSE idx
           /\ column' = column + 1
           /\ UNCHANGED at

\* The used rows the column has, then zeros. ASSERT(offset < padded_rows_amount) comes
\* after those rows are written.
PrintCutColumn ==
    /\ at = "columns" /\ column < Columns(Here) /\ Cut(Here, Half)
    /\ \E offset \in 0 .. used_rows :
          /\ offset <= longest[Here][Half]
          /\ IF offset < Padded
             THEN Count(Padded) /\ Advance
             ELSE Count(offset) /\ at' = "abort" /\ UNCHANGED <<idx, column>>
    /\ UNCHANGED dropped

\* print_vector_value: padded_rows_amount cells, and no word of what the column has past them.
PrintWholeColumn ==
    /\ at = "columns" /\ column < Columns(Here) /\ ~Cut(Here, Half)
    /\ PrintAll /\ Advance

NextSection == /\ at = "columns" /\ column = Columns(Here)
               /\ section' = section + 1 /\ column' = 0
               /\ at' = IF section = 4 THEN "closing" ELSE "size"
               /\ UNCHANGED <<table, file>>

\* ASSERT_MSG(... == total_size, "Printed index not equal required assignment size")
Closing ==
    /\ at = "closing"
    /\ at' = IF multi /\ (idx["witness"] + idx["public"] + idx["constant"]
                           + idx["selector"]) % Modulus # TotalSize
             THEN "abort" ELSE "printed"
    /\ UNCHANGED <<table, section, column, file>>

Next == \/ PrintSize \/ PrintCutColumn \/ PrintWholeColumn \/ NextSection \/ Closing
        \/ at \in {"printed", "abort"} /\ UNCHANGED vars

Spec == Init /\ [][Next]_vars
-------------------------------------------------------------------------------
(***************************************************************************)
(* Properties.                                                             *)
(***************************************************************************)
\* A reader that follows the announced sizes finds a section where it is, as long as no
\* section before it, nor the section itself, is too large for a uint32_t.
SectionsAreFound ==
    at = "printed" =>
        \A n \in 1 .. 4 :
            (\A m \in 1 .. n : Columns(Order[m]) * Padded < Modulus) =>
                announced[Order[n]] = written[Order[n]]

\* The closing ASSERT is no protection against sizes that wrap, nor a danger to a table
\* that is right: both its sides wrap alike, and it never fires. Only a column too long
\* for a padded_rows_amount that itself wrapped stops the printer.
OnlyLongColumnsAbort == at = "abort" => section \in 1 .. 4 /\ Usable >= Padded

\* usable_rows_amount is made of one list of columns, and which columns are printed whole,
\* not cut to the used rows, is decided by another. As long as doubling it does not wrap, no
\* cell of the table is left out of the file, but for a lookup column that is longer than
\* any the library's own list of lookup columns names.
NothingDropped ==
    2 * Usable < Modulus =>
        \A p \in dropped : /\ multi
                           /\ p \in Lookups \X {"trailing"}
                           /\ listed[p[1]] < longest[p[1]][p[2]]
===============================================================================
