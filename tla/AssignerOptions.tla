--------------------------- MODULE AssignerOptions ---------------------------
(***************************************************************************)
(* main() of bin/assigner/src/main.cpp: from the command line to the       *)
(* arguments of curve_dependent_main. The options are looked at in the     *)
(* order of the code; what the command line holds for an option is chosen  *)
(* when the code first looks at it.                                        *)
(*                                                                         *)
(* Values the code only compares with a table of names (log level, policy, *)
(* print format) are good or bad. The three numbers are parsed as int and  *)
(* kept as uint32_t.                                                       *)
(***************************************************************************)
EXTENDS Integers

CONSTANTS Half,         \* half the range of a uint32_t, 2 ^ 31
          Absent        \* an option the command line does not hold

Ints == -Half .. Half - 1
Unsigned == 0 .. 2 * Half - 1

ASSUME HalfAssumption == Half \in Nat \ {0, 1}
ASSUME AbsentAssumption == Absent \notin Ints

\* Mutant: the numbers stay signed.
ToUnsigned_signed(i) == i

ToUnsigned(i) == i % (2 * Half)

\* numeric_limits<uint32_t>::max(): no target prover.
NoTarget == 2 * Half - 1

GenerateTypes == {"circuit-assignment", "circuit", "assignment",
                  "size_estimation", "public-input-column"}
Assigning == {"circuit-assignment", "assignment"}
Circuits == {"circuit-assignment", "circuit"}
Curves == {"pallas", "vesta", "ed25519", "bls12381"}

VARIABLES at,           \* the option main() looks at next, or "run", or "end"
          exit,         \* "none", or how the process ended: "0", "1", "abort"
          gen_mode,     \* as the --generate-type that stands for it
          inputs,       \* which of the two input files have a name
          outputs,      \* which of the three output files have a name
          asked_provers, max_num_provers,   \* as given, and as kept
          asked_target, target_prover,
          deprecated    \* whether --print_circuit_output was given

numbers == <<asked_provers, max_num_provers, asked_target, target_prover>>
names == <<inputs, outputs>>
vars == <<at, exit, gen_mode, names, numbers, deprecated>>

Places == {"parse", "help", "bytecode", "generate-type", "inputs", "input-column",
           "assignment-table", "circuit", "names-of-values", "max-num-provers",
           "max-lookup-rows", "target-prover", "log-level", "deprecated",
           "column-sizes", "elliptic-curve-type", "run", "end"}

TypeOK == /\ at \in Places
          /\ exit \in {"none", "0", "1", "abort"}
          /\ gen_mode \in GenerateTypes
          /\ inputs \subseteq {"public", "private"}
          /\ outputs \subseteq {"column", "table", "circuit"}
          /\ asked_provers \in Ints \cup {Absent} /\ max_num_provers \in Unsigned
          /\ asked_target \in Ints \cup {Absent} /\ target_prover \in Unsigned
          /\ deprecated \in BOOLEAN

Init == /\ at = "parse" /\ exit = "none"
        /\ gen_mode = "circuit-assignment"
        /\ inputs = {} /\ outputs = {}
        /\ asked_provers = Absent /\ max_num_provers = 1
        /\ asked_target = Absent /\ target_prover = NoTarget
        /\ deprecated = FALSE

Continue(place) == at' = place /\ UNCHANGED exit
Stop(how) == at' = "end" /\ exit' = how

\* A value that is not one of the names the code knows, or a required option left out.
ContinueUnlessBad(place) == Continue(place) \/ Stop("1")
-------------------------------------------------------------------------------
\* Only unknown_option is caught: a value that is missing or malformed aborts.
ParseCommandLine == /\ at = "parse"
                    /\ Continue("help") \/ Stop("1") \/ Stop("abort")
                    /\ UNCHANGED <<gen_mode, names, numbers, deprecated>>

HelpOrVersion == /\ at = "help"
                 /\ Continue("bytecode") \/ Stop("0")
                 /\ UNCHANGED <<gen_mode, names, numbers, deprecated>>

Bytecode == /\ at = "bytecode"
            /\ ContinueUnlessBad("generate-type")
            /\ UNCHANGED <<gen_mode, names, numbers, deprecated>>

GenerateType == /\ at = "generate-type"
                /\ \/ gen_mode' \in GenerateTypes /\ Continue("inputs")
                   \/ Stop("1") /\ UNCHANGED gen_mode
                /\ UNCHANGED <<names, numbers, deprecated>>

\* Mutant: the default of --generate-type is forgotten when inputs are required.
Inputs_explicit ==
    /\ at = "inputs"
    /\ inputs' \in SUBSET {"public", "private"}
    /\ IF inputs' = {} /\ gen_mode = "assignment"
       THEN Stop("1") ELSE Continue("input-column")
    /\ UNCHANGED <<gen_mode, outputs, numbers, deprecated>>

Inputs == /\ at = "inputs"
          /\ inputs' \in SUBSET {"public", "private"}
          /\ IF inputs' = {} /\ gen_mode \in Assigning
             THEN Stop("1") ELSE Continue("input-column")
          /\ UNCHANGED <<gen_mode, outputs, numbers, deprecated>>

\* An output a mode needs must have a name; one it does not need is not looked at.
Name(output, here, next, modes) ==
    /\ at = here
    /\ \/ gen_mode \notin modes /\ Continue(next) /\ UNCHANGED outputs
       \/ /\ gen_mode \in modes
          /\ \/ outputs' = outputs \cup {output} /\ Continue(next)
             \/ Stop("1") /\ UNCHANGED outputs
    /\ UNCHANGED <<gen_mode, inputs, numbers, deprecated>>

InputColumn == Name("column", "input-column", "assignment-table", {"public-input-column"})
AssignmentTable == Name("table", "assignment-table", "circuit", Assigning)
Circuit == Name("circuit", "circuit", "names-of-values", Circuits)

\* The curve has a name main() knows, then the print format and the policy.
NamesOfValues == /\ at = "names-of-values"
                 /\ ContinueUnlessBad("max-num-provers")
                 /\ UNCHANGED <<gen_mode, names, numbers, deprecated>>

MaxNumProvers ==
    /\ at = "max-num-provers"
    /\ \/ Continue("max-lookup-rows") /\ UNCHANGED numbers
       \/ /\ asked_provers' \in Ints
          /\ max_num_provers' = ToUnsigned(asked_provers')
          /\ IF max_num_provers' < 1 THEN Stop("1") ELSE Continue("max-lookup-rows")
          /\ UNCHANGED <<asked_target, target_prover>>
    /\ UNCHANGED <<gen_mode, names, deprecated>>

MaxLookupRows == /\ at = "max-lookup-rows"
                 /\ ContinueUnlessBad("target-prover")
                 /\ UNCHANGED <<gen_mode, names, numbers, deprecated>>

\* Mutant: a target equal to the number of provers is let through.
TargetProver_over ==
    /\ at = "target-prover"
    /\ \/ Continue("log-level") /\ UNCHANGED numbers
       \/ /\ asked_target' \in Ints
          /\ target_prover' = ToUnsigned(asked_target')
          /\ IF target_prover' > max_num_provers THEN Stop("1") ELSE Continue("log-level")
          /\ UNCHANGED <<asked_provers, max_num_provers>>
    /\ UNCHANGED <<gen_mode, names, deprecated>>

TargetProver ==
    /\ at = "target-prover"
    /\ \/ Continue("log-level") /\ UNCHANGED numbers
       \/ /\ asked_target' \in Ints
          /\ target_prover' = ToUnsigned(asked_target')
          /\ IF target_prover' >= max_num_provers THEN Stop("1") ELSE Continue("log-level")
          /\ UNCHANGED <<asked_provers, max_num_provers>>
    /\ UNCHANGED <<gen_mode, names, deprecated>>

LogLevel == /\ at = "log-level"
            /\ ContinueUnlessBad("deprecated")
            /\ UNCHANGED <<gen_mode, names, numbers, deprecated>>

\* ASSERT_MSG(!vm.count("print_circuit_output"), ...)
PrintCircuitOutput == /\ at = "deprecated"
                      /\ deprecated' \in BOOLEAN
                      /\ IF deprecated' THEN Stop("abort") ELSE Continue("column-sizes")
                      /\ UNCHANGED <<gen_mode, names, numbers>>

\* Six sizes, or none.
ColumnSizes == /\ at = "column-sizes"
               /\ Continue("elliptic-curve-type") \/ Stop("abort")
               /\ UNCHANGED <<gen_mode, names, numbers, deprecated>>

\* A field is instantiated for two of the four curves; the others are UNREACHABLE.
EllipticCurve == /\ at = "elliptic-curve-type"
                 /\ \E curve \in Curves :
                       IF curve \in {"pallas", "bls12381"}
                       THEN Continue("run") ELSE Stop("abort")
                 /\ UNCHANGED <<gen_mode, names, numbers, deprecated>>

Next == \/ ParseCommandLine \/ HelpOrVersion \/ Bytecode \/ GenerateType \/ Inputs
        \/ InputColumn \/ AssignmentTable \/ Circuit \/ NamesOfValues
        \/ MaxNumProvers \/ MaxLookupRows \/ TargetProver \/ LogLevel
        \/ PrintCircuitOutput \/ ColumnSizes \/ EllipticCurve
        \/ at \in {"run", "end"} /\ UNCHANGED vars

Spec == Init /\ [][Next]_vars
-------------------------------------------------------------------------------
(***************************************************************************)
(* Properties.                                                             *)
(***************************************************************************)
\* An explicit --target-prover, whatever int it is, never turns into the value that
\* means every prover, and never names a prover --max-num-provers excludes, both
\* compared after their conversion to uint32_t.
TargetHonoured == at = "run" => /\ asked_target = Absent <=> target_prover = NoTarget
                                /\ asked_target # Absent => target_prover < max_num_provers

\* curve_dependent_main opens files by name without asking whether there is a name, and
\* evaluates with what inputs it gets: whichever mode runs, main() has seen to both. With
\* TargetHonoured this is what AssignerDriver assumes of its Requests.
RunHasItsFiles ==
    at = "run" => /\ gen_mode \in Assigning => inputs # {} /\ "table" \in outputs
                  /\ gen_mode \in Circuits => "circuit" \in outputs
                  /\ gen_mode = "public-input-column" => "column" \in outputs
===============================================================================
