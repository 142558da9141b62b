---------------------------- MODULE RowCompaction ----------------------------
(***************************************************************************)
(* How bin/assigner/src/main.cpp cuts one prover's share out of a common   *)
(* circuit and table, once the assigner library has said which rows this   *)
(* prover uses:                                                            *)
(*   - print_circuit, on the main thread, renumbers the rows in the copy   *)
(*     constraints, in place, one used row after the other;                *)
(*   - print_assignment_table, on a thread of its own, writes of each      *)
(*     component column only the used rows, one after the other, and then  *)
(*     zeros.                                                              *)
(* The two never speak: the circuit fits the table only if both count the  *)
(* used rows alike.                                                        *)
(*                                                                         *)
(* Values are abstracted to where they come from: what is written at a     *)
(* position is the absolute row it was taken from, or Zero.                *)
(***************************************************************************)
EXTENDS Integers, FiniteSets, TableLayout

CONSTANTS MaxRow,       \* the last row of the common table
          NColumns, Kind, \* the columns in the order they are printed
          Constraints,  \* this prover's copy constraints
          Zero          \* the zero field element of a padding cell

Rows == 0 .. MaxRow
Columns == 0 .. NColumns - 1

\* Public input columns come with the shared column at their end.
Compacted == {"witness", "constant", "selector"}
Renumbered == {"witness", "constant", "lookup_constant"}
Constrained == {"witness", "public", "constant"}
Kinds == {"witness", "public", "constant", "lookup_constant",
          "selector", "lookup_selector"}

ASSUME TableAssumption == /\ MaxRow \in Nat /\ NColumns \in Nat
                          /\ Kind \in [Columns -> Kinds]
                          /\ MaxRow + 1 < 2 ^ (Width - 1)
                          /\ Zero \notin Rows

VARIABLES idx,          \* the prover
          used,         \* get_used_rows(), an ordered set
          selecting,    \* get_used_selector_rows()
          size,         \* for each column, how many rows it has
          original,     \* the copy constraints of the common circuit
          constraint,   \* the copy constraints being printed
          rest,         \* the used rows the renumbering loop has not visited
          local_row,    \* its counter
          column,       \* the column being printed
          ahead,        \* the used rows its loop has not visited
          offset,       \* how many of its cells are written
          cell          \* for each column and position, what was written there

input_vars == <<idx, used, selecting, size, original>>
circuit_vars == <<constraint, rest, local_row>>
table_vars == <<column, ahead, offset, cell>>
vars == <<input_vars, circuit_vars, table_vars>>

\* usable_rows_amount under MULTI_PROVER: cut columns count for the used rows only.
Usable == CHOOSE n \in 0 .. MaxRow + 1 :
             LET lengths == {Cardinality(used)} \cup
                            {size[c] : c \in {d \in Columns : Kind[d] \notin Compacted}}
             IN  n \in lengths /\ \A m \in lengths : m <= n

Padded == PaddedRows(Usable)
Positions == 0 .. Padded - 1

Sides == {"first", "second"}
Vars == [column : {c \in Columns : Kind[c] \in Constrained}, row : Rows]

TypeOK == /\ idx \in {0, 1}
          /\ used \subseteq Rows /\ selecting \subseteq Rows
          /\ size \in [Columns -> 0 .. MaxRow + 1]
          /\ original \in [Constraints -> [Sides -> Vars]]
          /\ constraint \in [Constraints -> [Sides -> Vars]]
          /\ rest \subseteq used /\ local_row \in 0 .. MaxRow + 1
          /\ column \in 0 .. NColumns
          /\ ahead \subseteq used /\ offset \in 0 .. MaxRow + 1
          /\ cell \in [Columns -> [Positions -> Rows \cup {Zero}]]

\* print_circuit leaves the rows of prover 0 alone, which takes for granted that the
\* library gave prover 0 the rows it allocated first, without gaps.
FirstProverFromZero == idx = 0 => used = 0 .. Cardinality(used) - 1

\* A copy constraint reaches a prover together with the rows of its cells, which exist.
RowsOfConstraintsUsed ==
    \A k \in Constraints, s \in Sides :
        LET v == original[k][s]
        IN  v.row < size[v.column] /\ (Kind[v.column] # "public" => v.row \in used)

Init == /\ idx \in {0, 1}
        /\ used \in SUBSET Rows
        /\ selecting \in SUBSET used
        /\ size \in [Columns -> 0 .. MaxRow + 1]
        /\ original \in [Constraints -> [Sides -> Vars]]
        /\ FirstProverFromZero
        /\ RowsOfConstraintsUsed
        /\ constraint = original
        /\ rest = IF idx > 0 THEN used ELSE {}
        /\ local_row = 0
        /\ column = 0
        /\ ahead = used
        /\ offset = 0
        /\ cell = [c \in Columns |-> [p \in Positions |-> Zero]]

\* The loops visit a std::set in ascending order.
IsNext(row, rows) == row \in rows /\ \A r \in rows : row <= r
-------------------------------------------------------------------------------
(***************************************************************************)
(* print_circuit.                                                          *)
(***************************************************************************)
\* One side of a constraint, as the loop body leaves it when it visits `row`.
Renumber(v, row) == IF Kind[v.column] \in Renumbered /\ v.row = row
                    THEN [v EXCEPT !.row = local_row]
                    ELSE v

\* Mutant: the used rows come from an unordered set.
RenumberRow_unordered(row) ==
    /\ row \in rest
    /\ constraint' = [k \in Constraints |->
                         [s \in Sides |-> Renumber(constraint[k][s], row)]]
    /\ local_row' = local_row + 1
    /\ rest' = rest \ {row}
    /\ UNCHANGED <<input_vars, table_vars>>

RenumberRow(row) ==
    /\ IsNext(row, rest)
    /\ constraint' = [k \in Constraints |->
                         [s \in Sides |-> Renumber(constraint[k][s], row)]]
    /\ local_row' = local_row + 1
    /\ rest' = rest \ {row}
    /\ UNCHANGED <<input_vars, table_vars>>

(***************************************************************************)
(* print_assignment_table.                                                 *)
(***************************************************************************)
\* A row this prover does not select keeps its place, as a zero.
Content(c, row) == IF Kind[c] = "selector" /\ row \notin selecting THEN Zero ELSE row

\* Mutant: a row this prover does not select is left out of a selector.
PrintCell_skip(row) ==
    /\ column \in Columns /\ Kind[column] \in Compacted
    /\ IsNext(row, ahead)
    /\ IF row < size[column] /\ Content(column, row) # Zero
       THEN /\ cell' = [cell EXCEPT ![column][offset] = row]
            /\ offset' = offset + 1
       ELSE UNCHANGED <<cell, offset>>
    /\ ahead' = ahead \ {row}
    /\ UNCHANGED <<input_vars, circuit_vars, column>>

PrintCell(row) ==
    /\ column \in Columns /\ Kind[column] \in Compacted
    /\ IsNext(row, ahead)
    /\ IF row < size[column]
       THEN /\ cell' = [cell EXCEPT ![column][offset] = Content(column, row)]
            /\ offset' = offset + 1
       ELSE UNCHANGED <<cell, offset>>
    /\ ahead' = ahead \ {row}
    /\ UNCHANGED <<input_vars, circuit_vars, column>>

\* Mutant: offset is declared outside the loop over the columns.
NextColumn_keepOffset == column' = column + 1 /\ ahead' = used /\ UNCHANGED offset

NextColumn == column' = column + 1 /\ ahead' = used /\ offset' = 0

\* The positions from offset on are zero already.
PadColumn == /\ column \in Columns /\ Kind[column] \in Compacted
             /\ ahead = {}
             /\ NextColumn
             /\ UNCHANGED <<input_vars, circuit_vars, cell>>

\* print_vector_value
PrintWholeColumn ==
    /\ column \in Columns /\ Kind[column] \notin Compacted
    /\ cell' = [cell EXCEPT ![column] =
                   [p \in Positions |-> IF p < size[column] THEN p ELSE Zero]]
    /\ NextColumn
    /\ UNCHANGED <<input_vars, circuit_vars>>

Printed == rest = {} /\ column = NColumns

Next == \/ \E row \in Rows : RenumberRow(row) \/ PrintCell(row)
        \/ PadColumn \/ PrintWholeColumn
        \/ Printed /\ UNCHANGED vars

Spec == Init /\ [][Next]_vars
-------------------------------------------------------------------------------
(***************************************************************************)
(* Properties.                                                             *)
(***************************************************************************)
\* The circuit printed by one thread fits the table printed by the other: wherever a
\* printed copy constraint points, the printed table holds the very cell that the
\* common circuit constrained.
EndpointsMeetTheirCells ==
    Printed => \A k \in Constraints, s \in Sides :
        LET v == constraint[k][s]
        IN  v.row \in Positions /\ cell[v.column][v.row] = original[k][s].row

\* A gate reads the row it is selected on and the rows next to it. Where the table has
\* a selector on, it holds the row that was selected, and the used rows next to it
\* are still next to it.
SelectedRowsKeepNeighbours ==
    column = NColumns =>
        \A c, d \in Columns, p \in Positions :
            LET row == cell[c][p]
            IN  Kind[c] = "selector" /\ Kind[d] = "witness" /\ row # Zero =>
                  \A near \in {row - 1, row, row + 1} \cap used :
                      near < size[d] => /\ p + near - row \in Positions
                                        /\ cell[d][p + near - row] = near

\* ASSERT(offset < padded_rows_amount), and the writes before it stay in the column.
PaddingLeft == offset < Padded
===============================================================================
