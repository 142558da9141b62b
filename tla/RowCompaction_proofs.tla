------------------------- MODULE RowCompaction_proofs -------------------------
(***************************************************************************)
(* For every table, every set of used rows and every size of the columns,  *)
(* the renumbered circuit fits the compacted table: both count a used row  *)
(* by its rank among the used rows.                                        *)
(***************************************************************************)
EXTENDS RowCompaction, FiniteSetTheorems, WellFoundedInduction, TLAPS

\* The local number of a row: how many used rows come before it.
Rank(r) == Cardinality({u \in used : u < r})

-------------------------------------------------------------------------------
(***************************************************************************)
(* Padding.                                                                *)
(***************************************************************************)
LEMMA LeastExists ==
  ASSUME NEW T \in SUBSET Nat, T # {}
  PROVE  \E x \in T : \A y \in T : x <= y
<1>1. PICK x \in T : \A y \in T : ~ (<<y, x>> \in OpToRel(<, Nat))
  BY NatLessThanWellFounded, WFMin
<1>2. ASSUME NEW y \in T, y < x
      PROVE  FALSE
  <2>1. <<y, x>> \in Nat \X Nat /\ <<y, x>>[1] < <<y, x>>[2]
    BY <1>2
  <2>2. <<y, x>> \in OpToRel(<, Nat)
    BY <2>1 DEF OpToRel
  <2>3. QED  BY <1>1, <2>2
<1>3. QED  BY <1>2

LEMMA CeilPowerBounds ==
  ASSUME NEW n \in Nat \ {0}, n <= 2 ^ (Width - 1)
  PROVE  /\ CeilPower(n) \in Powers
         /\ n <= CeilPower(n) /\ CeilPower(n) <= 2 ^ (Width - 1)
<1> DEFINE T == {p \in Powers : p >= n}
<1>1. 2 ^ (Width - 1) \in Powers
  BY WidthAssumption DEF Powers
<1>2. T \in SUBSET Nat /\ 2 ^ (Width - 1) \in T
  BY <1>1, WidthAssumption
<1>3. \E p \in T : \A q \in T : p <= q
  BY <1>2, LeastExists
<1>4. \E p \in Powers : p >= n /\ \A q \in Powers : q >= n => p <= q
  BY <1>3
<1>5. /\ CeilPower(n) \in Powers /\ CeilPower(n) >= n
      /\ \A q \in Powers : q >= n => CeilPower(n) <= q
  BY <1>4 DEF CeilPower
<1>6. QED  BY <1>1, <1>2, <1>5, WidthAssumption

\* A table always keeps a padding row free, as long as its rows fit half the range of
\* a uint32_t.
LEMMA PaddedExceeds ==
  ASSUME NEW n \in Nat, n < 2 ^ (Width - 1)
  PROVE  PaddedRows(n) \in Nat /\ n < PaddedRows(n)
<1> DEFINE power == CeilPower(n)
           half == 2 ^ (Width - 1)
<1>1. half \in Nat \ {0} /\ 2 ^ Width = 2 * half
  BY WidthAssumption DEF Powers
<1>2. MinRows \in Nat \ {0}
  BY MinRowsAssumption
<1>3. CASE n = 0
  <2>1. power = 0
    BY <1>3 DEF CeilPower
  <2>2. (2 * power) % (2 ^ Width) = 0
    BY <1>1, <2>1
  <2>3. QED  BY <1>2, <1>3, <2>1, <2>2 DEF PaddedRows, Largest
<1>4. CASE n # 0
  <2>0. n \in Nat \ {0} /\ n <= half
    BY <1>1, <1>4
  <2>1. power \in Nat /\ n <= power /\ power <= half
    BY <2>0, CeilPowerBounds, WidthAssumption
  <2>2. CASE power = n
    <3>1. (2 * power) % (2 * half) = 2 * power
      BY <1>1, <2>1, <2>2
    <3>2. QED  BY <1>1, <1>2, <1>4, <2>1, <2>2, <3>1 DEF PaddedRows, Largest
  <2>3. CASE power # n
    BY <1>2, <2>1, <2>3 DEF PaddedRows, Largest
  <2>4. QED  BY <2>2, <2>3
<1>5. QED  BY <1>3, <1>4
-------------------------------------------------------------------------------
(***************************************************************************)
(* Ranks.                                                                  *)
(***************************************************************************)
LEMMA RowsAreNat == Rows \subseteq Nat
  BY TableAssumption DEF Rows

LEMMA RowsFinite ==
  ASSUME NEW S \in SUBSET Rows
  PROVE  IsFiniteSet(S) /\ Cardinality(S) \in 0 .. MaxRow + 1
<1>1. MaxRow \in Nat
  BY TableAssumption
<1>2. IsFiniteSet(Rows) /\ Cardinality(Rows) = MaxRow + 1
  BY <1>1, FS_Interval DEF Rows
<1>3. IsFiniteSet(S) /\ Cardinality(S) <= Cardinality(Rows)
  BY <1>2, FS_Subset
<1>4. Cardinality(S) \in Nat
  BY <1>3, FS_CardinalityType
<1>5. QED  BY <1>1, <1>2, <1>3, <1>4

LEMMA RankBounds ==
  ASSUME used \subseteq Rows, NEW r \in Nat
  PROVE  Rank(r) \in 0 .. MaxRow + 1 /\ Rank(r) <= r
<1> DEFINE S == {u \in used : u < r}
<1>1. Rank(r) \in 0 .. MaxRow + 1
  BY RowsFinite DEF Rank
<1>2. S \subseteq 0 .. r - 1
  <2>1. SUFFICES ASSUME NEW u \in used, u < r PROVE u \in 0 .. r - 1
    OBVIOUS
  <2>2. QED  BY <2>1, RowsAreNat
<1>3. IsFiniteSet(0 .. r - 1) /\ Cardinality(0 .. r - 1) = r
  BY FS_Interval
<1>4. Cardinality(S) <= r
  BY <1>2, <1>3, FS_Subset
<1>5. QED  BY <1>1, <1>4 DEF Rank

\* Ranks tell the used rows apart, in their order, and stay below their number.
LEMMA RankStrict ==
  ASSUME used \subseteq Rows, NEW r \in used
  PROVE  /\ \A t \in Nat : r < t => Rank(r) + 1 <= Rank(t)
         /\ Rank(r) < Cardinality(used)
<1> DEFINE S == {u \in used : u < r}
<1>1. IsFiniteSet(S) /\ r \notin S
  BY RowsFinite, RowsAreNat
<1>2. IsFiniteSet(S \cup {r}) /\ Cardinality(S \cup {r}) = Rank(r) + 1
  BY <1>1, FS_AddElement DEF Rank
<1>3. Rank(r) \in Nat /\ Cardinality(used) \in Nat /\ IsFiniteSet(used)
  BY RowsFinite DEF Rank
<1>4. ASSUME NEW t \in Nat, r < t
      PROVE  Rank(r) + 1 <= Rank(t)
  <2>1. S \cup {r} \subseteq {u \in used : u < t}
    <3>1. r \in Nat /\ \A u \in used : u \in Nat /\ (u < r => u < t)
      BY <1>4, RowsAreNat
    <3>2. QED  BY <1>4, <3>1
  <2>2. IsFiniteSet({u \in used : u < t})
    BY RowsFinite
  <2>3. QED  BY <1>2, <2>1, <2>2, FS_Subset DEF Rank
<1>5. Rank(r) + 1 <= Cardinality(used)
  BY <1>2, <1>3, FS_Subset
<1>6. QED  BY <1>3, <1>4, <1>5

\* A row and the row after it keep their distance when both are used.
LEMMA RankNext ==
  ASSUME used \subseteq Rows, NEW r \in used, r + 1 \in used
  PROVE  Rank(r + 1) = Rank(r) + 1
<1> DEFINE S == {u \in used : u < r}
<1>1. IsFiniteSet(S) /\ r \notin S
  BY RowsFinite, RowsAreNat
<1>2. {u \in used : u < r + 1} = S \cup {r}
  <2>1. \A u \in used : u < r + 1 <=> (u < r \/ u = r)
    BY RowsAreNat
  <2>2. QED  BY <2>1
<1>3. QED  BY <1>1, <1>2, FS_AddElement DEF Rank

\* When a loop over the used rows visits a row, it has visited the ones before it.
LEMMA VisitedIsRank ==
  ASSUME used \subseteq Rows, NEW S \in SUBSET used, NEW row \in S,
         \A r \in S : row <= r, \A d \in used \ S : d < row
  PROVE  used \ S = {u \in used : u < row} /\ Cardinality(used \ S) = Rank(row)
<1>1. \A u \in used : u \notin S <=> u < row
  BY RowsAreNat
<1>2. used \ S = {u \in used : u < row}
  BY <1>1
<1>3. QED  BY <1>2 DEF Rank

\* The used rows of prover 0 are their own ranks.
LEMMA RankOfFirst ==
  ASSUME used \subseteq Rows, idx = 0, FirstProverFromZero, NEW r \in used
  PROVE  Rank(r) = r
<1>1. Cardinality(used) \in Nat /\ r \in 0 .. Cardinality(used) - 1
  BY RowsFinite DEF FirstProverFromZero
<1>2. {u \in used : u < r} = 0 .. r - 1
  BY <1>1 DEF FirstProverFromZero
<1>3. Cardinality(0 .. r - 1) = r
  BY <1>1, FS_Interval
<1>4. QED  BY <1>2, <1>3 DEF Rank

\* The usable rows count every used row and every row of a column printed whole.
LEMMA UsableBounds ==
  ASSUME used \subseteq Rows, size \in [Columns -> 0 .. MaxRow + 1]
  PROVE  /\ Usable \in 0 .. MaxRow + 1
         /\ Cardinality(used) <= Usable
         /\ \A c \in Columns : Kind[c] \notin Compacted => size[c] <= Usable
<1> DEFINE lengths == {Cardinality(used)} \cup
                      {size[c] : c \in {d \in Columns : Kind[d] \notin Compacted}}
           T == {MaxRow + 1 - n : n \in lengths}
<1>1. MaxRow \in Nat /\ lengths \subseteq 0 .. MaxRow + 1
  BY RowsFinite, TableAssumption
<1>2. T \in SUBSET Nat /\ T # {}
  BY <1>1
<1>3. PICK x \in T : \A y \in T : x <= y
  BY <1>2, LeastExists
<1>4. PICK n \in lengths : x = MaxRow + 1 - n
  BY <1>3
<1>5. \A m \in lengths : m <= n
  <2>1. SUFFICES ASSUME NEW m \in lengths PROVE m <= n
    OBVIOUS
  <2>2. x <= MaxRow + 1 - m
    BY <1>3
  <2>3. n \in Int /\ m \in Int /\ MaxRow \in Int
    BY <1>1, <1>4
  <2>4. MaxRow + 1 - n <= MaxRow + 1 - m
    BY <1>4, <2>2
  <2>5. QED  BY ONLY <2>3, <2>4
<1>6. n \in 0 .. MaxRow + 1
  BY <1>1, <1>4
<1>7. Usable \in 0 .. MaxRow + 1 /\ \A m \in lengths : m <= Usable
  BY <1>4, <1>5, <1>6 DEF Usable
<1>8. QED  BY <1>7

LEMMA PositionsExceed ==
  ASSUME used \subseteq Rows, size \in [Columns -> 0 .. MaxRow + 1]
  PROVE  /\ Padded \in Nat /\ Cardinality(used) < Padded
         /\ \A c \in Columns : Kind[c] \notin Compacted => size[c] < Padded
<1>1. Usable \in Nat /\ Usable < 2 ^ (Width - 1) /\ Usable <= MaxRow + 1
  <2>1. 2 ^ (Width - 1) \in Nat
    BY WidthAssumption DEF Powers
  <2>2. QED  BY <2>1, UsableBounds, TableAssumption
<1>2. Padded \in Nat /\ Usable < Padded
  BY <1>1, PaddedExceeds DEF Padded
<1>3. Cardinality(used) \in Nat
  BY RowsFinite
<1>4. QED  BY <1>1, <1>2, <1>3, UsableBounds
-------------------------------------------------------------------------------
(***************************************************************************)
(* The inductive invariant.                                                *)
(***************************************************************************)
InputInv == FirstProverFromZero /\ RowsOfConstraintsUsed

\* A side of a constraint holds its own rank once its row was visited, and its own
\* row until then; a local number is never taken for a row to visit.
Local(o) == IF Kind[o.column] # "public" /\ o.row \notin rest
            THEN [o EXCEPT !.row = Rank(o.row)]
            ELSE o

CircuitInv ==
    /\ \A d \in used \ rest, r \in rest : d < r
    /\ idx = 0 => rest = {}
    /\ idx = 1 => local_row = Cardinality(used \ rest)
    /\ constraint = [k \in Constraints |-> [s \in Sides |-> Local(original[k][s])]]

\* A column holds the rows of S that it has, each at its rank, and nothing else.
Holds(c, S) ==
    /\ \A r \in S : r < size[c] => cell[c][Rank(r)] = Content(c, r)
    /\ \A p \in Positions : cell[c][p] # Zero =>
          /\ cell[c][p] \in S
          /\ cell[c][p] < size[c]
          /\ Rank(cell[c][p]) = p

Visited(c) == IF c < column THEN used ELSE IF c = column THEN used \ ahead ELSE {}

Cutting == column \in Columns /\ Kind[column] \in Compacted

TableInv ==
    /\ \A d \in used \ ahead, r \in ahead : d < r
    /\ ~Cutting => ahead = used
    /\ offset = Cardinality({u \in used \ ahead : u < size[column]})
    /\ \A c \in Columns : Kind[c] \in Compacted => Holds(c, Visited(c))
    /\ \A c \in Columns : Kind[c] \notin Compacted /\ c < column =>
          \A p \in Positions : cell[c][p] = IF p < size[c] THEN p ELSE Zero

Inv == TypeOK /\ InputInv /\ CircuitInv /\ TableInv

LEMMA InitInv == Init => Inv
<1> SUFFICES ASSUME Init PROVE Inv
  OBVIOUS
<1>1. used \subseteq Rows /\ IsFiniteSet({}) /\ Cardinality({}) = 0
  BY FS_EmptySet DEF Init
<1>2. TypeOK
  BY TableAssumption DEF Init, TypeOK
<1>3. InputInv
  BY DEF Init, InputInv
<1>4. CircuitInv
  <2>1. CASE idx = 0
    <3>1. \A k \in Constraints, s \in Sides :
             LET o == original[k][s]
             IN  /\ o.row \in Nat /\ o \in Vars
                 /\ Kind[o.column] # "public" => Rank(o.row) = o.row
      BY <1>1, <2>1, RankOfFirst, RowsAreNat
         DEF Init, RowsOfConstraintsUsed, Vars
    <3>2. \A k \in Constraints, s \in Sides : Local(original[k][s]) = original[k][s]
      BY <3>1 DEF Local, Vars
    <3>3. original = [k \in Constraints |-> [s \in Sides |-> original[k][s]]]
      BY DEF Init
    <3>4. constraint = [k \in Constraints |-> [s \in Sides |-> Local(original[k][s])]]
      BY <3>2, <3>3 DEF Init
    <3>5. QED  BY <2>1, <3>4 DEF Init, CircuitInv
  <2>2. CASE idx = 1
    <3>1. rest = used /\ used \ rest = {}
      BY <2>2 DEF Init
    <3>2. \A k \in Constraints, s \in Sides : Local(original[k][s]) = original[k][s]
      BY <3>1 DEF Local, Init, RowsOfConstraintsUsed
    <3>3. original = [k \in Constraints |-> [s \in Sides |-> original[k][s]]]
      BY DEF Init
    <3>4. constraint = [k \in Constraints |-> [s \in Sides |-> Local(original[k][s])]]
      BY <3>2, <3>3 DEF Init
    <3>5. local_row = Cardinality(used \ rest)
      BY <1>1, <3>1 DEF Init
    <3>6. QED  BY <2>2, <3>1, <3>4, <3>5 DEF CircuitInv
  <2>3. QED  BY <2>1, <2>2 DEF Init
<1>5. TableInv
  <2>1. used \ ahead = {} /\ {u \in used \ ahead : u < size[column]} = {}
    BY DEF Init
  <2>2. \A c \in Columns : Visited(c) = {} /\ ~(c < column)
    BY <2>1, TableAssumption DEF Init, Visited, Columns
  <2>3. \A c \in Columns : Holds(c, {})
    BY DEF Init, Holds
  <2>4. QED  BY <1>1, <2>1, <2>2, <2>3 DEF Init, TableInv
<1>6. QED  BY <1>2, <1>3, <1>4, <1>5 DEF Inv

LEMMA CircuitStep ==
  ASSUME Inv, NEW row \in Rows, RenumberRow(row)
  PROVE  CircuitInv' /\ constraint' \in [Constraints -> [Sides -> Vars]]
         /\ local_row' \in 0 .. MaxRow + 1
<1>1. /\ idx = 1 /\ row \in rest /\ rest \subseteq used /\ used \subseteq Rows
      /\ \A r \in rest : row <= r
      /\ rest' = rest \ {row}
      /\ UNCHANGED <<idx, used, original, size, selecting>>
  BY DEF Inv, TypeOK, CircuitInv, RenumberRow, IsNext, input_vars
<1>2. used \ rest = {u \in used : u < row} /\ local_row = Rank(row)
  BY <1>1, VisitedIsRank DEF Inv, CircuitInv
<1>3. /\ used \ rest' = (used \ rest) \cup {row}
      /\ IsFiniteSet(used \ rest) /\ row \notin used \ rest
  BY <1>1, RowsFinite
<1>4. local_row' = Cardinality(used' \ rest')
  <2>1. local_row = Cardinality(used \ rest) /\ local_row' = local_row + 1
    BY <1>1 DEF Inv, CircuitInv, RenumberRow
  <2>2. Cardinality((used \ rest) \cup {row}) = Cardinality(used \ rest) + 1
    BY <1>3, FS_AddElement
  <2>3. QED  BY <1>1, <1>3, <2>1, <2>2
<1>5. \A d \in used \ rest', r \in rest' : d < r
  BY <1>1, <1>3, RowsAreNat DEF Inv, CircuitInv
<1>6. ASSUME NEW k \in Constraints, NEW s \in Sides
      PROVE  /\ Renumber(constraint[k][s], row) = Local(original[k][s])'
             /\ Renumber(constraint[k][s], row) \in Vars
  <2> DEFINE o == original[k][s]
             v == constraint[k][s]
  <2>1. o \in Vars /\ v \in Vars /\ v = Local(o)
    BY DEF Inv, TypeOK, CircuitInv
  <2>2. /\ o.column \in Columns /\ Kind[o.column] \in Constrained /\ o.row \in Rows
        /\ o = [column |-> o.column, row |-> o.row]
    BY <2>1 DEF Vars
  <2>3. CASE Kind[o.column] = "public"
    BY <1>1, <2>1, <2>3 DEF Local, Renumber, Renumbered
  <2>4. CASE Kind[o.column] # "public"
    <3>1. o.row \in used /\ Kind[o.column] \in Renumbered
      BY <2>2, <2>4 DEF Inv, InputInv, RowsOfConstraintsUsed, Constrained, Renumbered
    <3>2. CASE o.row \notin rest
      <4>1. v.row = Rank(o.row) /\ v.column = o.column
        BY <2>1, <2>2, <2>4, <3>2 DEF Local
      <4>2. o.row < row /\ Rank(o.row) <= o.row
        BY <1>1, <1>2, <3>1, <3>2, RankBounds, RowsAreNat
      <4>3. v.row # row
        <5>1. o.row \in Nat /\ row \in Nat /\ Rank(o.row) \in Int
          BY <1>1, <2>2, RankBounds, RowsAreNat
        <5>2. QED  BY ONLY <4>1, <4>2, <5>1
      <4>4. Renumber(v, row) = v
        BY <4>3 DEF Renumber
      <4>5. Local(o)' = Local(o)
        BY <1>1, <2>4, <3>2 DEF Local, Rank
      <4>6. QED  BY <2>1, <4>4, <4>5
    <3>3. CASE o.row = row
      <4>1. v = o /\ Renumber(v, row) = [o EXCEPT !.row = Rank(row)]
        BY <1>1, <1>2, <2>1, <3>1, <3>3 DEF Local, Renumber
      <4>2. Local(o)' = [o EXCEPT !.row = Rank(row)]
        BY <1>1, <2>4, <3>3 DEF Local, Rank
      <4>3. Rank(row) \in Rows
        BY <1>1, RankBounds, RowsAreNat, TableAssumption DEF Rows
      <4>4. QED  BY <2>2, <4>1, <4>2, <4>3 DEF Vars
    <3>4. CASE o.row \in rest /\ o.row # row
      <4>1. v = o /\ Renumber(v, row) = o
        BY <2>1, <3>4 DEF Local, Renumber
      <4>2. Local(o)' = o
        BY <1>1, <3>4 DEF Local
      <4>3. QED  BY <2>1, <4>1, <4>2
    <3>5. QED  BY <3>2, <3>3, <3>4
  <2>5. QED  BY <2>3, <2>4
<1>7. constraint' = [k \in Constraints |-> [s \in Sides |-> Local(original[k][s])']]
  BY <1>6 DEF RenumberRow
<1>8. constraint' \in [Constraints -> [Sides -> Vars]]
  BY <1>6 DEF RenumberRow
<1>9. CircuitInv'
  BY <1>1, <1>4, <1>5, <1>7 DEF CircuitInv
<1>10. QED
  BY <1>1, <1>4, <1>8, <1>9, RowsFinite

LEMMA InputStable ==
  ASSUME UNCHANGED input_vars
  PROVE  /\ UNCHANGED <<idx, used, selecting, size, original>>
         /\ Padded' = Padded /\ Positions' = Positions
         /\ \A r : Rank(r)' = Rank(r)
         /\ \A c, r : Content(c, r)' = Content(c, r)
         /\ InputInv' = InputInv
  BY DEF input_vars, Padded, Usable, Positions, Rank, Content, InputInv,
         FirstProverFromZero, RowsOfConstraintsUsed

LEMMA CircuitStable ==
  ASSUME UNCHANGED <<input_vars, circuit_vars>>, CircuitInv
  PROVE  CircuitInv'
<1>1. /\ UNCHANGED <<idx, used, original, constraint, rest, local_row>>
      /\ \A o : Local(o)' = Local(o)
  BY InputStable DEF circuit_vars, Local
<1>2. QED  BY <1>1 DEF CircuitInv

LEMMA TableStable ==
  ASSUME UNCHANGED <<input_vars, table_vars>>, TableInv
  PROVE  TableInv'
<1>1. /\ UNCHANGED <<used, size, column, ahead, offset, cell>>
      /\ \A c : Visited(c)' = Visited(c) /\ Cutting' = Cutting
  BY InputStable DEF table_vars, Visited, Cutting
<1>2. \A c : Holds(c, Visited(c))' = Holds(c, Visited(c))
  BY <1>1, InputStable DEF Holds
<1>3. QED  BY <1>1, <1>2, InputStable DEF TableInv

\* The next free position of the column is the rank of the row about to be written.
LEMMA OffsetIsRank ==
  ASSUME Inv, NEW row \in ahead, \A r \in ahead : row <= r, row < size[column],
         column \in Columns
  PROVE  /\ offset = Rank(row) /\ offset < Cardinality(used)
         /\ \A u \in used \ ahead : u < size[column]
<1>1. used \subseteq Rows /\ ahead \subseteq used /\ size[column] \in Nat
  BY TableAssumption DEF Inv, TypeOK
<1>2. used \ ahead = {u \in used : u < row} /\ Cardinality(used \ ahead) = Rank(row)
  BY <1>1, VisitedIsRank DEF Inv, TableInv
<1>3. \A u \in used \ ahead : u < size[column]
  BY <1>1, <1>2, RowsAreNat
<1>4. {u \in used \ ahead : u < size[column]} = used \ ahead
  BY <1>3
<1>5. offset = Cardinality(used \ ahead)
  BY <1>4 DEF Inv, TableInv
<1>6. row \in used /\ Rank(row) < Cardinality(used)
  BY <1>1, RankStrict
<1>7. offset = Rank(row)
  BY <1>2, <1>5
<1>8. QED  BY <1>3, <1>6, <1>7

LEMMA OffsetBelowPadded == Inv => PaddingLeft
<1> SUFFICES ASSUME Inv PROVE PaddingLeft
  OBVIOUS
<1> DEFINE S == {u \in used \ ahead : u < size[column]}
<1>1. used \subseteq Rows /\ offset = Cardinality(S) /\ S \subseteq used
  BY DEF Inv, TypeOK, TableInv
<1>2. Cardinality(S) <= Cardinality(used)
  BY <1>1, RowsFinite, FS_Subset
<1>3. Cardinality(used) < Padded /\ Padded \in Nat
  BY <1>1, PositionsExceed DEF Inv, TypeOK
<1>4. Cardinality(S) \in Nat /\ Cardinality(used) \in Nat
  BY <1>1, RowsFinite
<1>5. QED  BY <1>1, <1>2, <1>3, <1>4 DEF PaddingLeft

LEMMA CellStep ==
  ASSUME Inv, NEW row \in Rows, PrintCell(row)
  PROVE  TableInv' /\ cell' \in [Columns -> [Positions -> Rows \cup {Zero}]]
         /\ offset' \in 0 .. MaxRow + 1
<1>1. /\ used \subseteq Rows /\ ahead \subseteq used /\ row \in ahead
      /\ size \in [Columns -> 0 .. MaxRow + 1]
      /\ cell \in [Columns -> [Positions -> Rows \cup {Zero}]]
      /\ \A r \in ahead : row <= r
      /\ column \in Columns /\ Kind[column] \in Compacted
      /\ ahead' = ahead \ {row} /\ column' = column
      /\ UNCHANGED <<used, size, selecting>>
  BY InputStable DEF Inv, TypeOK, PrintCell, IsNext
<1>2. used \ ahead' = (used \ ahead) \cup {row} /\ IsFiniteSet(used \ ahead)
      /\ row \in used /\ row \in Nat
  BY <1>1, RowsFinite, RowsAreNat
<1>3. \A d \in used \ ahead', r \in ahead' : d < r
  BY <1>1, <1>2, RowsAreNat DEF Inv, TableInv
<1>4. \A c \in Columns : Visited(c)' = IF c = column THEN (used \ ahead) \cup {row}
                                       ELSE Visited(c)
  <2>1. SUFFICES ASSUME NEW c \in Columns
                 PROVE  Visited(c)' = IF c = column THEN (used \ ahead) \cup {row}
                                      ELSE Visited(c)
    OBVIOUS
  <2>2. c \in Int /\ column \in Int
    BY <1>1, TableAssumption DEF Columns
  <2>3. Visited(c)' = IF c < column THEN used
                      ELSE IF c = column THEN used \ ahead' ELSE {}
    BY <1>1 DEF Visited
  <2>4. CASE c = column
    <3>1. ~(c < column)
      BY <2>2, <2>4
    <3>2. QED  BY <1>2, <2>3, <2>4, <3>1
  <2>5. CASE c # column
    BY <2>3, <2>5 DEF Visited
  <2>6. QED  BY <2>4, <2>5
<1>5. Cutting'
  BY <1>1 DEF Cutting
<1>6. CASE row < size[column]
  <2>1. /\ offset = Rank(row) /\ offset < Cardinality(used)
        /\ \A u \in used \ ahead : u < size[column]
    BY <1>1, <1>6, OffsetIsRank
  <2>2. offset \in Positions
    BY <1>1, <2>1, RankBounds, RowsAreNat, OffsetBelowPadded, PositionsExceed
       DEF PaddingLeft, Positions
  <2>3. /\ cell' = [cell EXCEPT ![column][offset] = Content(column, row)]
        /\ offset' = offset + 1
    BY <1>6 DEF PrintCell
  <2>4. Content(column, row) \in Rows \cup {Zero}
    BY DEF Content
  <2>5. cell' \in [Columns -> [Positions -> Rows \cup {Zero}]]
    BY <1>1, <2>2, <2>3, <2>4
  <2>6. offset' = Cardinality({u \in used' \ ahead' : u < size'[column']})
    <3>1. {u \in used \ ahead' : u < size[column]} = (used \ ahead) \cup {row}
      BY <1>2, <1>6, <2>1
    <3>2. {u \in used \ ahead : u < size[column]} = used \ ahead
      BY <2>1
    <3>3. Cardinality((used \ ahead) \cup {row}) = Cardinality(used \ ahead) + 1
      BY <1>1, <1>2, FS_AddElement
    <3>4. offset = Cardinality(used \ ahead)
      BY <3>2 DEF Inv, TableInv
    <3>5. QED  BY <1>1, <2>3, <3>1, <3>3, <3>4
  <2>7. ASSUME NEW c \in Columns, Kind[c] \in Compacted
        PROVE  Holds(c, Visited(c))'
    <3>1. Holds(c, Visited(c))
      BY <2>7 DEF Inv, TableInv
    <3>2. CASE c # column
      <4>1. cell'[c] = cell[c]
        BY <1>1, <2>3, <3>2
      <4>2. QED  BY <1>1, <1>4, <3>1, <3>2, <4>1, InputStable DEF Holds, PrintCell
    <3>3. CASE c = column
      <4>1. Visited(c) = used \ ahead /\ Visited(c)' = (used \ ahead) \cup {row}
        BY <1>1, <1>4, <3>3, TableAssumption DEF Visited, Columns
      <4>2. \A p \in Positions : cell'[c][p] = IF p = offset THEN Content(c, row)
                                               ELSE cell[c][p]
        BY <1>1, <2>2, <2>3, <3>3
      <4>3. \A r \in used : Rank(r) \in Positions /\ Rank(r) \in Nat
        <5>1. SUFFICES ASSUME NEW r \in used
                       PROVE  Rank(r) \in Positions /\ Rank(r) \in Nat
          OBVIOUS
        <5>2. r \in Nat
          BY <1>1, RowsAreNat
        <5>3. Rank(r) \in Nat /\ Rank(r) < Cardinality(used)
          BY <1>1, <5>2, RankStrict, RankBounds
        <5>4. Cardinality(used) \in Nat /\ Cardinality(used) < Padded /\ Padded \in Nat
          BY <1>1, RowsFinite, PositionsExceed
        <5>5. QED  BY <5>3, <5>4 DEF Positions
      <4>4. \A r \in used \ ahead : Rank(r) # offset
        BY <1>1, <1>2, <2>1, <4>3, RankStrict, RowsAreNat DEF Inv, TableInv
      <4>5. ASSUME NEW r \in (used \ ahead) \cup {row}, r < size[c]
            PROVE  cell'[c][Rank(r)] = Content(c, r)
        <5>1. CASE r = row
          BY <2>1, <2>2, <4>2, <5>1
        <5>2. CASE r # row
          BY <3>1, <4>1, <4>2, <4>3, <4>4, <4>5, <5>2 DEF Holds
        <5>3. QED  BY <5>1, <5>2
      <4>6. ASSUME NEW p \in Positions, cell'[c][p] # Zero
            PROVE  /\ cell'[c][p] \in (used \ ahead) \cup {row}
                   /\ cell'[c][p] < size[c] /\ Rank(cell'[c][p]) = p
        <5>1. CASE p = offset
          <6>1. cell'[c][p] = row
            BY <4>2, <4>6, <5>1 DEF Content
          <6>2. QED  BY <1>6, <2>1, <3>3, <5>1, <6>1
        <5>2. CASE p # offset
          BY <3>1, <4>1, <4>2, <4>6, <5>2 DEF Holds
        <5>3. QED  BY <5>1, <5>2
      <4>7. QED
        BY <1>1, <4>1, <4>5, <4>6, InputStable DEF Holds, PrintCell
    <3>4. QED  BY <3>2, <3>3
  <2>8. \A c \in Columns : Kind[c] \notin Compacted => cell'[c] = cell[c]
    BY <1>1, <2>3
  <2>9. offset' \in 0 .. MaxRow + 1
    <3>1. Cardinality(used) \in 0 .. MaxRow + 1 /\ MaxRow \in Nat
      BY <1>1, RowsFinite, TableAssumption
    <3>2. Rank(row) \in Nat
      BY <1>1, <1>2, RankBounds
    <3>3. QED  BY <2>1, <2>3, <3>1, <3>2
  <2>10. TableInv'
    BY <1>1, <1>3, <1>5, <2>6, <2>7, <2>8, InputStable DEF Inv, TableInv, PrintCell
  <2>11. QED  BY <2>5, <2>9, <2>10
<1>7. CASE ~(row < size[column])
  <2>1. cell' = cell /\ offset' = offset
    BY <1>7 DEF PrintCell
  <2>2. {u \in used \ ahead' : u < size[column]} = {u \in used \ ahead : u < size[column]}
    BY <1>2, <1>7
  <2>3. ASSUME NEW c \in Columns, Kind[c] \in Compacted
        PROVE  Holds(c, Visited(c))'
    <3>1. Holds(c, Visited(c))
      BY <2>3 DEF Inv, TableInv
    <3>2. Visited(c) \subseteq Visited(c)' /\ \A r \in Visited(c)' :
             r \in Visited(c) \/ (c = column /\ r = row)
      BY <1>1, <1>4, TableAssumption DEF Visited, Columns
    <3>3. QED  BY <1>1, <1>7, <2>1, <3>1, <3>2, InputStable DEF Holds, PrintCell
  <2>4. TableInv'
    BY <1>1, <1>3, <1>5, <2>1, <2>2, <2>3, InputStable DEF Inv, TableInv, PrintCell
  <2>5. QED  BY <2>1, <2>4 DEF Inv, TypeOK
<1>8. QED  BY <1>6, <1>7

LEMMA ColumnStep ==
  ASSUME Inv, NextColumn, UNCHANGED <<input_vars, circuit_vars>>, column \in Columns,
         cell' \in [Columns -> [Positions -> Rows \cup {Zero}]],
         \A c \in Columns : c # column => cell'[c] = cell[c],
         Kind[column] \in Compacted => cell' = cell /\ ahead = {},
         Kind[column] \notin Compacted =>
            \A p \in Positions : cell'[column][p] = IF p < size[column] THEN p ELSE Zero
  PROVE  Inv'
<1>1. /\ used \subseteq Rows /\ column \in Nat /\ NColumns \in Nat
      /\ column' = column + 1 /\ ahead' = used /\ offset' = 0
      /\ UNCHANGED <<idx, used, size, selecting, original, rest, local_row, constraint>>
  BY InputStable, TableAssumption DEF Inv, TypeOK, NextColumn, Columns, circuit_vars
<1>2. TypeOK'
  <2>1. column' \in 0 .. NColumns /\ 0 \in 0 .. MaxRow + 1
    BY <1>1, TableAssumption DEF Columns
  <2>2. QED  BY <1>1, <2>1, InputStable DEF Inv, TypeOK
<1>3. InputInv' /\ CircuitInv'
  BY InputStable, CircuitStable DEF Inv
<1>4. used \ ahead' = {}
  BY <1>1
<1>5. offset' = Cardinality({u \in used' \ ahead' : u < size'[column']})
  <2>1. {u \in used \ ahead' : u < size'[column']} = {}
    BY <1>4
  <2>2. QED  BY <1>1, <2>1, FS_EmptySet
<1>6. ASSUME NEW c \in Columns, Kind[c] \in Compacted
      PROVE  Holds(c, Visited(c))'
  <2>1. Holds(c, Visited(c)) /\ c \in Int /\ cell'[c] = cell[c]
    BY <1>6, TableAssumption DEF Inv, TableInv, Columns
  <2>2. Visited(c)' = IF c < column + 1 THEN used ELSE {}
    BY <1>1, <1>4 DEF Visited
  <2>3. Visited(c) = IF c < column + 1 THEN used ELSE {}
    <3>1. CASE c = column
      <4>1. ahead = {} /\ ~(c < column) /\ c < column + 1
        BY <1>1, <1>6, <2>1, <3>1
      <4>2. QED  BY <3>1, <4>1 DEF Visited
    <3>2. CASE c # column
      <4>1. c < column <=> c < column + 1
        BY <1>1, <2>1, <3>2
      <4>2. QED  BY <3>2, <4>1 DEF Visited
    <3>3. QED  BY <3>1, <3>2
  <2>4. QED  BY <1>1, <2>1, <2>2, <2>3, InputStable DEF Holds
<1>7. ASSUME NEW c \in Columns, Kind[c] \notin Compacted, c < column', NEW p \in Positions
      PROVE  cell'[c][p] = IF p < size[c] THEN p ELSE Zero
  <2>1. CASE c = column
    BY <1>7, <2>1
  <2>2. CASE c # column
    <3>1. c < column
      BY <1>1, <1>7, <2>2, TableAssumption DEF Columns
    <3>2. QED  BY <1>7, <2>2, <3>1 DEF Inv, TableInv
  <2>3. QED  BY <2>1, <2>2
<1>8. TableInv'
  BY <1>1, <1>4, <1>5, <1>6, <1>7, InputStable DEF TableInv
<1>9. QED  BY <1>2, <1>3, <1>8 DEF Inv

LEMMA NextInv == Inv /\ [Next]_vars => Inv'
<1> SUFFICES ASSUME Inv, [Next]_vars PROVE Inv'
  OBVIOUS
<1>1. ASSUME NEW row \in Rows, RenumberRow(row)
      PROVE  Inv'
  <2>1. UNCHANGED <<input_vars, table_vars>> /\ rest' = rest \ {row}
    BY <1>1 DEF RenumberRow
  <2>2. TableInv'
    BY <2>1, TableStable DEF Inv
  <2>3. TypeOK'
    BY <1>1, <2>1, CircuitStep, InputStable DEF Inv, TypeOK, table_vars
  <2>4. QED  BY <1>1, <2>1, <2>2, <2>3, CircuitStep, InputStable DEF Inv
<1>2. ASSUME NEW row \in Rows, PrintCell(row)
      PROVE  Inv'
  <2>1. UNCHANGED <<input_vars, circuit_vars, column>> /\ ahead' = ahead \ {row}
    BY <1>2 DEF PrintCell
  <2>2. CircuitInv'
    BY <2>1, CircuitStable DEF Inv
  <2>3. TypeOK'
    BY <1>2, <2>1, CellStep, InputStable DEF Inv, TypeOK, circuit_vars
  <2>4. QED  BY <1>2, <2>1, <2>2, <2>3, CellStep, InputStable DEF Inv
<1>3. CASE PadColumn
  BY <1>3, ColumnStep DEF PadColumn, Inv, TypeOK
<1>4. CASE PrintWholeColumn
  <2>1. /\ column \in Columns /\ Kind[column] \notin Compacted /\ NextColumn
        /\ UNCHANGED <<input_vars, circuit_vars>>
        /\ cell' = [cell EXCEPT ![column] =
                      [p \in Positions |-> IF p < size[column] THEN p ELSE Zero]]
    BY <1>4 DEF PrintWholeColumn
  <2>2. \A p \in Positions : p < size[column] => p \in Rows
    <3>1. SUFFICES ASSUME NEW p \in Positions, p < size[column] PROVE p \in Rows
      OBVIOUS
    <3>2. p \in Nat /\ size[column] \in 0 .. MaxRow + 1 /\ MaxRow \in Nat
      BY <2>1, PositionsExceed, TableAssumption DEF Inv, TypeOK, Positions
    <3>3. QED  BY <3>1, <3>2 DEF Rows
  <2>3. cell \in [Columns -> [Positions -> Rows \cup {Zero}]]
    BY DEF Inv, TypeOK
  <2>4. cell' \in [Columns -> [Positions -> Rows \cup {Zero}]]
    BY <2>1, <2>2, <2>3
  <2>5. \A c \in Columns : c # column => cell'[c] = cell[c]
    BY <2>1, <2>3
  <2>6. \A p \in Positions : cell'[column][p] = IF p < size[column] THEN p ELSE Zero
    BY <2>1, <2>3
  <2>7. QED  BY <2>1, <2>4, <2>5, <2>6, ColumnStep
<1>5. CASE UNCHANGED vars
  <2>1. UNCHANGED <<input_vars, circuit_vars, table_vars>>
    BY <1>5 DEF vars
  <2>2. TypeOK'
    BY <2>1, InputStable DEF Inv, TypeOK, circuit_vars, table_vars
  <2>3. QED  BY <2>1, <2>2, InputStable, CircuitStable, TableStable DEF Inv
<1>6. QED  BY <1>1, <1>2, <1>3, <1>4, <1>5 DEF Next

LEMMA Invariance == Spec => []Inv
<1>1. Init => Inv
  BY InitInv
<1>2. Inv /\ [Next]_vars => Inv'
  BY NextInv
<1>3. QED  BY <1>1, <1>2, PTL DEF Spec
-------------------------------------------------------------------------------
(***************************************************************************)
(* The theorems.                                                           *)
(***************************************************************************)
\* Every count of the two loops and every cell they write stays in its type.
THEOREM TypeCorrect == Spec => []TypeOK
<1>1. Inv => TypeOK
  BY DEF Inv
<1>2. QED  BY <1>1, Invariance, PTL

\* The ASSERT behind each compacted column never fires, and no cell is written past
\* the end of its column, for every table of less than 2 ^ (Width - 1) rows.
THEOREM PaddingIsLeft == Spec => []PaddingLeft
<1>1. QED  BY OffsetBelowPadded, Invariance, PTL

\* Printed on two threads that never speak, the circuit and the table of one prover
\* agree on every cell a copy constraint names.
THEOREM CircuitFitsTable == Spec => []EndpointsMeetTheirCells
<1>1. Inv => EndpointsMeetTheirCells
  <2> SUFFICES ASSUME Inv, Printed, NEW k \in Constraints, NEW s \in Sides
               PROVE  LET v == constraint[k][s]
                      IN  v.row \in Positions /\ cell[v.column][v.row] = original[k][s].row
    BY DEF EndpointsMeetTheirCells
  <2> DEFINE o == original[k][s]
             v == constraint[k][s]
  <2>1. /\ used \subseteq Rows /\ o \in Vars /\ v = Local(o)
        /\ rest = {} /\ column = NColumns
        /\ o.row < size[o.column] /\ (Kind[o.column] # "public" => o.row \in used)
    BY DEF Inv, TypeOK, InputInv, RowsOfConstraintsUsed, CircuitInv, Printed
  <2>2. /\ o.column \in Columns /\ o.column < column /\ o.row \in Nat
        /\ Kind[o.column] \in Constrained
        /\ o = [column |-> o.column, row |-> o.row]
    <3>1. /\ o.column \in Columns /\ o.row \in Rows /\ Kind[o.column] \in Constrained
          /\ o = [column |-> o.column, row |-> o.row]
      BY <2>1 DEF Vars
    <3>2. o.column < column
      BY <2>1, <3>1, TableAssumption DEF Columns
    <3>3. QED  BY <3>1, <3>2, RowsAreNat
  <2>3. Padded \in Nat /\ Cardinality(used) < Padded /\ Cardinality(used) \in Nat
        /\ (Kind[o.column] \notin Compacted => size[o.column] < Padded)
        /\ size[o.column] \in Nat
    BY <2>1, <2>2, PositionsExceed, RowsFinite, TableAssumption DEF Inv, TypeOK
  <2>4. CASE Kind[o.column] = "public"
    <3>1. v = o
      BY <2>1, <2>4 DEF Local
    <3>2. o.row \in Positions
      BY <2>1, <2>2, <2>3, <2>4 DEF Positions, Compacted
    <3>3. cell[o.column][o.row] = o.row
      BY <2>1, <2>2, <2>4, <3>2 DEF Inv, TableInv, Compacted
    <3>4. QED  BY <3>1, <3>2, <3>3
  <2>5. CASE Kind[o.column] # "public"
    <3>1. v.row = Rank(o.row) /\ v.column = o.column /\ o.row \in used
      BY <2>1, <2>2, <2>5 DEF Local
    <3>2. Rank(o.row) \in Nat /\ Rank(o.row) < Cardinality(used)
      BY <2>1, <2>2, <3>1, RankBounds, RankStrict
    <3>3. Rank(o.row) \in Positions
      BY <2>3, <3>2 DEF Positions
    <3>4. Holds(o.column, used) /\ Content(o.column, o.row) = o.row
      BY <2>1, <2>2, <2>5 DEF Inv, TableInv, Visited, Constrained, Compacted, Content
    <3>5. QED  BY <2>1, <3>1, <3>3, <3>4 DEF Holds
  <2>6. QED  BY <2>4, <2>5
<1>2. QED  BY <1>1, Invariance, PTL

\* Cutting the table to one prover's rows moves no selected row away from its used
\* neighbours, which its gate reads.
THEOREM NeighboursKept == Spec => []SelectedRowsKeepNeighbours
<1>1. Inv => SelectedRowsKeepNeighbours
  <2> SUFFICES ASSUME Inv, column = NColumns, NEW c \in Columns, NEW d \in Columns,
                      NEW p \in Positions, Kind[c] = "selector", Kind[d] = "witness",
                      cell[c][p] # Zero,
                      NEW near \in {cell[c][p] - 1, cell[c][p], cell[c][p] + 1} \cap used,
                      near < size[d]
               PROVE  /\ p + near - cell[c][p] \in Positions
                      /\ cell[d][p + near - cell[c][p]] = near
    BY DEF SelectedRowsKeepNeighbours
  <2> DEFINE row == cell[c][p]
  <2>1. used \subseteq Rows /\ c < column /\ d < column
    BY TableAssumption DEF Inv, TypeOK, Columns
  <2>2. Holds(c, used) /\ Holds(d, used)
    BY <2>1 DEF Inv, TableInv, Visited, Compacted
  <2>3. row \in used /\ Rank(row) = p /\ row \in Nat /\ near \in used /\ near \in Nat
    BY <2>1, <2>2, RowsAreNat DEF Holds
  <2>4. Rank(near) = p + near - row
    <3>1. Rank(near) \in Nat /\ p \in Nat
      BY <2>1, <2>3, RankBounds
    <3>2. CASE near = row
      BY <2>3, <3>1, <3>2
    <3>3. CASE near = row + 1
      <4>1. Rank(near) = Rank(row) + 1
        BY <2>1, <2>3, <3>3, RankNext
      <4>2. QED  BY <2>3, <3>1, <3>3, <4>1
    <3>4. CASE near = row - 1
      <4>1. near + 1 = row
        BY <2>3, <3>4
      <4>2. Rank(row) = Rank(near) + 1
        BY <2>1, <2>3, <4>1, RankNext
      <4>3. QED  BY <2>3, <3>1, <3>4, <4>2
    <3>5. QED  BY <3>2, <3>3, <3>4
  <2>5. cell[d][Rank(near)] = near
    BY <2>2, <2>3 DEF Holds, Content
  <2>6. Rank(near) \in Positions
    <3>1. Rank(near) \in Nat /\ Rank(near) < Cardinality(used)
      BY <2>1, <2>3, RankBounds, RankStrict
    <3>2. Cardinality(used) \in Nat /\ Cardinality(used) < Padded /\ Padded \in Nat
      BY <2>1, RowsFinite, PositionsExceed DEF Inv, TypeOK
    <3>3. QED  BY <3>1, <3>2 DEF Positions
  <2>7. QED  BY <2>4, <2>5, <2>6
<1>2. QED  BY <1>1, Invariance, PTL
===============================================================================
