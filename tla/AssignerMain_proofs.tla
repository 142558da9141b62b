-------------------------- MODULE AssignerMain_proofs -------------------------
(***************************************************************************)
(* The assigner's main.cpp around its driver: for an int of any width what *)
(* main() hands to curve_dependent_main, that the driver can start from    *)
(* it, and for any number of columns what the packing of the lookup tables *)
(* in curve_dependent_main selects with.                                   *)
(***************************************************************************)
EXTENDS AssignerOptions, LookupPacking, TLAPS

\* The places main() is at before it looks at an option, and once it has.
BeforeTarget == {"parse", "help", "bytecode", "generate-type", "inputs", "input-column",
                 "assignment-table", "circuit", "names-of-values", "max-num-provers",
                 "max-lookup-rows", "target-prover"}
BeforeCircuit == {"parse", "help", "bytecode", "generate-type", "inputs", "input-column",
                  "assignment-table", "circuit"}
BeforeTable == BeforeCircuit \ {"circuit"}
BeforeColumn == BeforeTable \ {"assignment-table"}
BeforeInputs == BeforeColumn \ {"input-column"}

\* The target is still open until it is looked at, and below the provers from then on.
TargetInv == at # "end" =>
    IF asked_target = Absent THEN target_prover = NoTarget
    ELSE at \notin BeforeTarget /\ target_prover < max_num_provers

\* Past the place where a file is required, a mode that needs it has its name.
FilesInv == at # "end" =>
    /\ at \notin BeforeInputs => (gen_mode \in Assigning => inputs # {})
    /\ at \notin BeforeColumn => (gen_mode = "public-input-column" => "column" \in outputs)
    /\ at \notin BeforeTable => (gen_mode \in Assigning => "table" \in outputs)
    /\ at \notin BeforeCircuit => (gen_mode \in Circuits => "circuit" \in outputs)

Inv == TypeOK /\ TargetInv /\ FilesInv
-------------------------------------------------------------------------------
LEMMA Numbers ==
  /\ Half \in Nat /\ NoTarget \in Unsigned /\ 1 \in Unsigned /\ 1 < NoTarget
  /\ \A n \in Unsigned : n \in Int /\ n <= NoTarget
  BY HalfAssumption DEF Unsigned, NoTarget

\* A conversion to uint32_t ends in the range of a uint32_t.
LEMMA ConversionInRange == ASSUME NEW i \in Ints PROVE ToUnsigned(i) \in Unsigned
<1>1. 2 * Half \in Nat \ {0} /\ i \in Int
  BY HalfAssumption DEF Ints
<1> DEFINE m == 2 * Half
<1> HIDE DEF m
<1>2. m \in Nat \ {0}
  BY <1>1 DEF m
<1>3. i % m \in 0 .. m - 1
  BY <1>1, <1>2
<1>4. QED  BY <1>3 DEF m, ToUnsigned, Unsigned

LEMMA InitInv == Init => Inv
  BY Numbers, AbsentAssumption
     DEF Init, Inv, TypeOK, TargetInv, FilesInv, Places, GenerateTypes, BeforeTarget,
         BeforeCircuit, BeforeTable, BeforeColumn, BeforeInputs

LEMMA NextInv == Inv /\ [Next]_vars => Inv'
<1> SUFFICES ASSUME Inv, [Next]_vars PROVE Inv'
  OBVIOUS
<1> USE DEF Inv, TypeOK, TargetInv, FilesInv, Places, Continue, Stop,
            ContinueUnlessBad, BeforeTarget, BeforeCircuit, BeforeTable, BeforeColumn,
            BeforeInputs
<1>1. CASE ParseCommandLine
  BY <1>1 DEF ParseCommandLine, names, numbers
<1>2. CASE HelpOrVersion
  BY <1>2 DEF HelpOrVersion, names, numbers
<1>3. CASE Bytecode
  BY <1>3 DEF Bytecode, names, numbers
<1>4. CASE GenerateType
  BY <1>4 DEF GenerateType, names, numbers
<1>5. CASE Inputs
  BY <1>5 DEF Inputs, numbers
<1>6. CASE InputColumn
  BY <1>6 DEF InputColumn, Name, numbers, Assigning, Circuits
<1>7. CASE AssignmentTable
  BY <1>7 DEF AssignmentTable, Name, numbers, Assigning
<1>8. CASE Circuit
  BY <1>8 DEF Circuit, Name, numbers, Circuits
<1>9. CASE NamesOfValues
  BY <1>9 DEF NamesOfValues, names, numbers
<1>10. CASE MaxNumProvers
  BY <1>10, ConversionInRange DEF MaxNumProvers, names, numbers
<1>11. CASE MaxLookupRows
  BY <1>11 DEF MaxLookupRows, names, numbers
<1>12. CASE TargetProver
  <2>1. CASE UNCHANGED numbers /\ Continue("log-level")
    BY <1>12, <2>1 DEF TargetProver, names, numbers
  <2>2. CASE UNCHANGED <<asked_provers, max_num_provers>> /\ asked_target' \in Ints
    <3>1. target_prover' \in Unsigned /\ max_num_provers \in Unsigned
      BY <1>12, <2>2, ConversionInRange DEF TargetProver, numbers
    <3>2. CASE target_prover' >= max_num_provers
      BY <1>12, <2>2, <3>1, <3>2 DEF TargetProver, names, numbers
    <3>3. CASE target_prover' < max_num_provers
      BY <1>12, <2>2, <3>1, <3>3, AbsentAssumption DEF TargetProver, names, numbers
    <3>4. QED  BY <3>1, <3>2, <3>3, Numbers
  <2>3. QED  BY <1>12, <2>1, <2>2 DEF TargetProver
<1>13. CASE LogLevel
  BY <1>13 DEF LogLevel, names, numbers
<1>14. CASE PrintCircuitOutput
  BY <1>14 DEF PrintCircuitOutput, names, numbers
<1>15. CASE ColumnSizes
  BY <1>15 DEF ColumnSizes, names, numbers
<1>16. CASE EllipticCurve
  BY <1>16 DEF EllipticCurve, names, numbers
<1>17. CASE UNCHANGED vars
  BY <1>17 DEF vars, names, numbers
<1>18. QED
  BY <1>1, <1>2, <1>3, <1>4, <1>5, <1>6, <1>7, <1>8, <1>9, <1>10, <1>11, <1>12, <1>13,
     <1>14, <1>15, <1>16, <1>17 DEF Next

LEMMA Invariance == Spec => []Inv
<1>1. Init => Inv
  BY InitInv
<1>2. Inv /\ [Next]_vars => Inv'
  BY NextInv
<1>3. QED  BY <1>1, <1>2, PTL DEF Spec
-------------------------------------------------------------------------------
\* The kept numbers are uint32_t and the state keeps its type, for an int of any width.
THEOREM TypeCorrect == Spec => []TypeOK
<1>1. Inv => TypeOK
  BY DEF Inv
<1>2. QED  BY <1>1, Invariance, PTL

\* For an int of any width, an explicit --target-prover is never taken for "every
\* prover", and is below --max-num-provers.
THEOREM TargetIsHonoured == Spec => []TargetHonoured
<1>1. Inv => TargetHonoured
  <2> SUFFICES ASSUME Inv, at = "run" PROVE TargetHonoured
    BY DEF TargetHonoured
  <2>1. CASE asked_target = Absent
    BY <2>1 DEF Inv, TargetInv, TargetHonoured
  <2>2. CASE asked_target # Absent
    <3>1. /\ target_prover < max_num_provers
          /\ target_prover \in Unsigned /\ max_num_provers \in Unsigned
      BY <2>2 DEF Inv, TypeOK, TargetInv
    <3>2. target_prover # NoTarget
      BY <3>1, Numbers
    <3>3. QED  BY <2>2, <3>1, <3>2 DEF TargetHonoured
  <2>3. QED  BY <2>1, <2>2
<1>2. QED  BY <1>1, Invariance, PTL

\* Whatever the command line, a run that reaches curve_dependent_main has the inputs it
\* evaluates with and a name for each file it opens.
THEOREM FilesAreNamed == Spec => []RunHasItsFiles
<1>1. Inv => RunHasItsFiles
  BY DEF Inv, FilesInv, RunHasItsFiles, BeforeCircuit, BeforeTable, BeforeColumn,
         BeforeInputs
<1>2. QED  BY <1>1, Invariance, PTL
-------------------------------------------------------------------------------
(***************************************************************************)
(* From main() to curve_dependent_main.                                    *)
(***************************************************************************)
CONSTANTS Provers,      \* any number of provers
          Check,        \* whether --check is given
          DiskFills

\* The arguments main() calls curve_dependent_main with. The driver's NoTarget is the
\* number of provers, which stands for the largest uint32_t.
Handed == [kind |-> gen_mode, inputs |-> inputs, check |-> Check,
           target |-> IF target_prover = NoTarget THEN Provers ELSE target_prover]

Driver == INSTANCE AssignerDriver
    WITH MaxProvers <- Provers, request <- Handed,
         pc <- "public", ret <- "none", exit <- "running", provers <- 0, idx <- 0,
         printer <- [i \in 0 .. Provers - 1 |-> "none"], futures <- {},
         file <- [f \in {"table", "circuit"} \X (0 .. Provers - 1 \cup {Provers}) |-> "old"],
         guarded <- {}, verified <- {}

\* A run has a prover at least.
ProversInv == at # "end" => max_num_provers >= 1

LEMMA InitProvers == Init => ProversInv
  BY DEF Init, ProversInv

LEMMA NextProvers == TypeOK /\ ProversInv /\ [Next]_vars => ProversInv'
<1> SUFFICES ASSUME TypeOK, ProversInv, [Next]_vars PROVE ProversInv'
  OBVIOUS
<1>1. CASE MaxNumProvers
  <2>1. CASE UNCHANGED numbers
    BY <1>1, <2>1 DEF MaxNumProvers, ProversInv, numbers, Continue, Stop
  <2>2. CASE ~UNCHANGED numbers
    <3>1. /\ asked_provers' \in Ints /\ max_num_provers' = ToUnsigned(asked_provers')
          /\ max_num_provers' < 1 => at' = "end"
      BY <1>1, <2>2 DEF MaxNumProvers, Stop
    <3>2. max_num_provers' \in Int
      BY <3>1, ConversionInRange, Numbers
    <3>3. QED  BY <3>1, <3>2 DEF ProversInv
  <2>3. QED  BY <2>1, <2>2
<1>2. CASE ~MaxNumProvers
  <2>1. UNCHANGED max_num_provers
    BY <1>2 DEF Next, vars, numbers, names, ParseCommandLine, HelpOrVersion, Bytecode,
                GenerateType, Inputs, InputColumn, AssignmentTable, Circuit, Name,
                NamesOfValues, MaxLookupRows, TargetProver, LogLevel, PrintCircuitOutput,
                ColumnSizes, EllipticCurve
  <2>2. at = "end" => at' = "end"
    BY <1>2 DEF Next, vars, ParseCommandLine, HelpOrVersion, Bytecode,
                GenerateType, Inputs, InputColumn, AssignmentTable, Circuit, Name,
                NamesOfValues, MaxLookupRows, TargetProver, LogLevel, PrintCircuitOutput,
                ColumnSizes, EllipticCurve
  <2>3. QED  BY <2>1, <2>2 DEF ProversInv
<1>3. QED  BY <1>1, <1>2

\* Whatever the command line, for an int of any width and any number of provers: what
\* main() hands to curve_dependent_main satisfies what AssignerDriver assumes, so that the
\* theorems about the driver are about every run of the program; and "every prover" is
\* what the driver takes for it exactly when --target-prover was not given.
THEOREM DriverStarts ==
  ASSUME Check \in BOOLEAN
  PROVE  Spec => [](at = "run" /\ max_num_provers = Provers =>
                       /\ Driver!MaxProversAssumption /\ Driver!Init
                       /\ asked_target = Absent <=> Handed.target = Driver!NoTarget)
<1>1. ASSUME TypeOK, TargetHonoured, RunHasItsFiles, ProversInv,
             at = "run", max_num_provers = Provers
      PROVE  /\ Driver!MaxProversAssumption /\ Driver!Init
             /\ asked_target = Absent <=> Handed.target = Driver!NoTarget
  <2>1. Provers \in Nat \ {0}
    BY <1>1, Numbers DEF ProversInv, TypeOK, Unsigned
  <2>2. \/ asked_target = Absent /\ target_prover = NoTarget
        \/ /\ asked_target # Absent /\ target_prover # NoTarget
           /\ target_prover \in 0 .. Provers - 1
    BY <1>1, <2>1, HalfAssumption DEF TargetHonoured, TypeOK, Unsigned
  <2>3. Handed.target \in 0 .. Provers - 1 \cup {Provers}
    BY <2>1, <2>2 DEF Handed
  <2>4. Handed \in Driver!Requests
    BY <1>1, <2>3
       DEF Handed, TypeOK, GenerateTypes, RunHasItsFiles, Assigning, Driver!Requests,
           Driver!Idx, Driver!NoTarget, Driver!Kinds, Driver!Assigning
  <2>5. Driver!Init
    BY <2>4 DEF Driver!Init, Driver!Files, Driver!Suffixes, Driver!Idx, Driver!Plain
  <2>6. asked_target = Absent <=> Handed.target = Driver!NoTarget
    BY <2>1, <2>2 DEF Handed, Driver!NoTarget
  <2>7. QED  BY <2>1, <2>5, <2>6 DEF Driver!MaxProversAssumption
<1>2. Spec => []ProversInv
  BY InitProvers, NextProvers, TypeCorrect, PTL DEF Spec
<1>3. QED  BY <1>1, <1>2, TypeCorrect, TargetIsHonoured, FilesAreNamed, PTL
-------------------------------------------------------------------------------
(***************************************************************************)
(* The search for a free selector, for any number of columns.              *)
(***************************************************************************)
\* Gates use the first columns, at least one of them.
UsedInOrder == /\ 0 \in used
               /\ \A i, j \in Nat : i <= j /\ j \in used => i \in used

\* What the loop has seen to be empty: nothing yet of the column it starts at.
SearchInv ==
    /\ step = "search" =>
          \A j \in used : ~(max_used_selector_idx <= j /\ j < Amount - 1)
    /\ step # "search" =>
          /\ \A j \in used : ~(max_used_selector_idx < j /\ j < Amount - 1)
          /\ max_used_selector_idx \in used
    /\ step \in {"pack", "packed"} => max_used_selector_idx < component
    /\ step = "abort" => max_used_selector_idx >= component

\* Only columns after the one that was found are given to the tables.
PackedInv == \A j \in packed : step = "packed" /\ max_used_selector_idx < j

PackInv == PackingTypeOK /\ UsedInOrder /\ SearchInv /\ PackedInv

LEMMA ColumnCounts ==
  ASSUME PackingTypeOK
  PROVE  /\ component \in Nat /\ lookup \in Nat /\ LeastLookup <= lookup
         /\ LeastLookup \in Nat
         /\ Amount = component + lookup /\ Amount \in Nat
         /\ max_used_selector_idx \in Nat
         /\ \A j \in used : j \in Nat /\ j < Amount
  BY ColumnsAssumption DEF PackingTypeOK, Amount

LEMMA InitPack == PackingInit => PackInv
<1> SUFFICES ASSUME PackingInit PROVE PackInv
  OBVIOUS
<1>1. /\ component \in Nat /\ lookup \in Nat /\ Amount \in Nat
      /\ component \in 0 .. MaxColumns /\ lookup \in LeastLookup .. MaxColumns
  BY ColumnsAssumption DEF PackingInit, Amount
<1>2. PICK gates \in 1 .. Amount : used = 0 .. gates - 1
  BY DEF PackingInit
<1>3. PackingTypeOK
  BY <1>1, <1>2 DEF PackingInit, PackingTypeOK
<1>4. UsedInOrder
  BY <1>1, <1>2 DEF UsedInOrder
<1>5. SearchInv
  BY <1>1, <1>2 DEF PackingInit, SearchInv
<1>6. PackedInv
  BY DEF PackingInit, PackedInv
<1>7. QED  BY <1>3, <1>4, <1>5, <1>6 DEF PackInv

LEMMA NextPack == PackInv /\ [PackingNext]_packing_vars => PackInv'
<1> SUFFICES ASSUME PackInv, [PackingNext]_packing_vars PROVE PackInv'
  OBVIOUS
<1>0. /\ component \in Nat /\ lookup \in Nat /\ Amount \in Nat
      /\ max_used_selector_idx \in Nat
      /\ \A j \in used : j \in Nat /\ j < Amount
  BY ColumnCounts DEF PackInv
<1>1. CASE Search
  <2>1. /\ step = "search" /\ UNCHANGED <<component, lookup, used, packed>>
        /\ Amount' = Amount
    BY <1>1 DEF Search, Amount
  <2>2. CASE max_used_selector_idx > 0
    <3>1. /\ max_used_selector_idx' = max_used_selector_idx - 1
          /\ max_used_selector_idx' \in Nat
          /\ step' = IF max_used_selector_idx' \in used THEN "assert" ELSE "search"
      BY <1>0, <1>1, <2>2 DEF Search
    <3>2. PackingTypeOK'
      BY <1>0, <2>1, <3>1 DEF PackInv, PackingTypeOK
    <3>3. \A j \in used : ~(max_used_selector_idx' < j /\ j < Amount - 1)
      BY <1>0, <2>1, <3>1 DEF PackInv, SearchInv
    <3>4. step' = "search" =>
             \A j \in used : ~(max_used_selector_idx' <= j /\ j < Amount - 1)
      BY <1>0, <3>1, <3>3
    <3>5. SearchInv'
      BY <2>1, <3>1, <3>3, <3>4 DEF SearchInv
    <3>6. QED  BY <2>1, <3>2, <3>5 DEF PackInv, UsedInOrder, PackedInv
  <2>3. CASE ~(max_used_selector_idx > 0)
    <3>1. max_used_selector_idx = 0 /\ step' = "assert" /\ max_used_selector_idx' = 0
      BY <1>0, <1>1, <2>3 DEF Search
    <3>2. SearchInv'
      BY <1>0, <2>1, <3>1 DEF PackInv, SearchInv, UsedInOrder
    <3>3. QED  BY <2>1, <3>1, <3>2 DEF PackInv, PackingTypeOK, UsedInOrder, PackedInv
  <2>4. QED  BY <2>2, <2>3
<1>2. CASE Assert
  BY <1>0, <1>2 DEF Assert, PackInv, PackingTypeOK, UsedInOrder, SearchInv,
                    PackedInv, Amount
<1>3. CASE Pack
  <2>1. PICK last \in max_used_selector_idx + 1 .. Amount - 1 :
           packed' = max_used_selector_idx + 1 .. last
    BY <1>3 DEF Pack
  <2>2. /\ step = "pack" /\ step' = "packed" /\ Amount' = Amount
        /\ UNCHANGED <<component, lookup, used, max_used_selector_idx>>
    BY <1>3 DEF Pack, Amount
  <2>3. \A j \in packed' : j \in 0 .. Amount - 1 /\ max_used_selector_idx < j
    BY <1>0, <2>1
  <2>4. QED
    BY <2>2, <2>3 DEF PackInv, PackingTypeOK, UsedInOrder, SearchInv, PackedInv
<1>4. CASE UNCHANGED packing_vars
  BY <1>4 DEF packing_vars, PackInv, PackingTypeOK, UsedInOrder, SearchInv, PackedInv,
              Amount
<1>5. QED  BY <1>1, <1>2, <1>3, <1>4 DEF PackingNext

LEMMA PackInvariance == PackingSpec => []PackInv
<1>1. PackingInit => PackInv
  BY InitPack
<1>2. PackInv /\ [PackingNext]_packing_vars => PackInv'
  BY NextPack
<1>3. QED  BY <1>1, <1>2, PTL DEF PackingSpec
-------------------------------------------------------------------------------
\* The search and the packing stay among the selector columns.
THEOREM PackingTypeCorrect == PackingSpec => []PackingTypeOK
<1>1. PackInv => PackingTypeOK
  BY DEF PackInv
<1>2. QED  BY <1>1, PackInvariance, PTL

\* With two lookup selectors or more, and any number of component selectors, the column
\* the search never looks at does no harm: tables get columns no gate uses.
THEOREM TablesAreApart ==
  ASSUME LeastLookup >= 2
  PROVE  PackingSpec => []TablesTakeFreeSelectors
<1>1. PackInv => TablesTakeFreeSelectors
  <2> SUFFICES ASSUME PackInv, NEW j \in packed, j \in used PROVE FALSE
    BY DEF TablesTakeFreeSelectors
  <2>1. step = "packed" /\ max_used_selector_idx < j /\ max_used_selector_idx < component
    BY DEF PackInv, PackedInv, SearchInv
  <2>2. /\ component \in Nat /\ lookup \in Nat /\ lookup >= 2 /\ LeastLookup \in Nat
        /\ Amount = component + lookup /\ max_used_selector_idx \in Nat
        /\ j \in Nat /\ j < Amount
    BY ColumnCounts, ColumnsAssumption DEF PackInv
  <2>3. \A i \in used : ~(max_used_selector_idx < i /\ i < Amount - 1)
    BY <2>1 DEF PackInv, SearchInv
  <2>4. j = Amount - 1
    BY <2>1, <2>2, <2>3
  <2>5. /\ Amount - 2 \in Nat /\ Amount - 2 <= j
        /\ max_used_selector_idx < Amount - 2
    BY <2>1, <2>2, <2>4
  <2>6. Amount - 2 \in used
    BY <2>2, <2>5 DEF PackInv, UsedInOrder
  <2>7. QED  BY <2>2, <2>3, <2>5, <2>6
<1>2. QED  BY <1>1, PackInvariance, PTL

\* For any number of columns, a circuit within its component selectors passes the check.
THEOREM ComponentsPass == PackingSpec => []ComponentSelectorsPass
<1>1. PackInv => ComponentSelectorsPass
  <2> SUFFICES ASSUME PackInv, step = "abort" PROVE ~(used \subseteq 0 .. component - 1)
    BY DEF ComponentSelectorsPass
  <2>1. max_used_selector_idx \in used /\ max_used_selector_idx >= component
    BY DEF PackInv, SearchInv
  <2>2. max_used_selector_idx \in Nat /\ component \in Nat
    BY ColumnCounts DEF PackInv
  <2>3. QED  BY <2>1, <2>2
<1>2. QED  BY <1>1, PackInvariance, PTL
===============================================================================
