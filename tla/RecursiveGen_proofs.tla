------------------------- MODULE RecursiveGen_proofs -------------------------
(***************************************************************************)
(* The optionals of the recursive verifier generator, and what it writes.  *)
(***************************************************************************)
EXTENDS RecursiveGen, TLAPS

BeforeCircuit == {"parse", "arguments", "folder", "circuit"}
Proving == {"prove", "verify", "inp"}

\* Which optionals have a value, and where it comes from, at which place.
OptionalInv ==
    /\ at \notin BeforeCircuit => constraint_system
    /\ at \in BeforeCircuit \cup {"table"} => desc = "none"
    /\ at \in BeforeCircuit \cup {"table", "common"} => common_data = "none"
    /\ desc = "table" => assignment_table
    /\ desc = "common" => common_data = "common"
    /\ common_data # "none" => desc = common_data
    /\ at \notin BeforeCircuit \cup {"table", "common", "describe"} => desc # "none"
    /\ at \in {"preprocess"} \cup Proving => assignment_table
    /\ at \in Proving \cup {"cpp"} => common_data # "none"

\* Which output is begun where, and how a run comes to the one with a proof.
OutputInv ==
    /\ artifact["placeholder_verifier.inp"] # "old" => at = "inp"
    /\ artifact["placeholder_verifier.cpp"] # "old" => at = "cpp"
    /\ at = "inp" => "skip-verification" \in options \/ verified

IInv == TypeOK /\ OptionalInv /\ OutputInv

LEMMA InitInv == Init => IInv
  BY DEF Init, IInv, TypeOK, OptionalInv, OutputInv, BeforeCircuit, Proving, Places,
         Options, Inputs, Outputs, Modes, Sources

LEMMA NextInv == IInv /\ [Next]_vars => IInv'
<1> SUFFICES ASSUME IInv, [Next]_vars PROVE IInv'
  OBVIOUS
<1> USE DEF IInv, TypeOK, OptionalInv, OutputInv, BeforeCircuit, Proving, Places,
            Modes, Sources, command, optionals, At, Goto, Return
<1>1. CASE ParseCommandLine \/ CheckArguments \/ CreateFolder
  BY <1>1 DEF ParseCommandLine, CheckArguments, CreateFolder
<1>2. CASE ReadCircuit
  BY <1>2 DEF ReadCircuit, Undecodable
<1>3. CASE ReadAssignmentTable
  BY <1>3 DEF ReadAssignmentTable, Undecodable
<1>4. CASE ReadCommonData
  BY <1>4 DEF ReadCommonData, Undecodable
<1>5. CASE RequireDescription
  BY <1>5 DEF RequireDescription
<1>6. CASE RequireInputs
  BY <1>6 DEF RequireInputs
<1>7. CASE PreprocessPublic
  BY <1>7 DEF PreprocessPublic
<1>8. CASE Prove
  BY <1>8 DEF Prove
<1>9. CASE Verify
  BY <1>9 DEF Verify
<1>10. CASE WriteInput
  BY <1>10 DEF WriteInput, Write, Outputs
<1>11. CASE WriteVerifier
  BY <1>11 DEF WriteVerifier, Write, Outputs
<1>12. CASE Killed
  BY <1>12 DEF Killed
<1>13. CASE UNCHANGED vars
  BY <1>13 DEF vars
<1>14. QED
  BY <1>1, <1>2, <1>3, <1>4, <1>5, <1>6, <1>7, <1>8, <1>9, <1>10, <1>11, <1>12, <1>13
     DEF Next, Ended

LEMMA Invariance == Spec => []IInv
  BY InitInv, NextInv, PTL DEF Spec

\* Every variable of a run keeps its type.
THEOREM TypeCorrect == Spec => []TypeOK
  BY Invariance, PTL DEF IInv

\* No combination of options leads to an optional without a value being dereferenced.
THEOREM OptionalsAreSet == Spec => []OptionalsHaveValues
<1>1. IInv => OptionalsHaveValues
  BY DEF IInv, OptionalInv, OptionalsHaveValues, BeforeCircuit, Proving
<1>2. QED  BY <1>1, Invariance, PTL

\* What is written is generated for the description of its common data.
THEOREM DescriptionsAgree == Spec => []DescriptionOfCommonData
<1>1. IInv => DescriptionOfCommonData
  BY DEF IInv, OptionalInv, OutputInv, DescriptionOfCommonData, Outputs, Proving
<1>2. QED  BY <1>1, Invariance, PTL

\* No input for the verifier holds a proof that was neither accepted nor excused.
THEOREM InputBehindVerifier == Spec => []InputIsVerified
<1>1. IInv => InputIsVerified
  BY DEF IInv, OutputInv, InputIsVerified
<1>2. QED  BY <1>1, Invariance, PTL
-------------------------------------------------------------------------------
(***************************************************************************)
(* Refinement: what a step of the generator is, to ArtifactContract.       *)
(***************************************************************************)
Inp == "placeholder_verifier.inp"
Cpp == "placeholder_verifier.cpp"

\* Nothing is begun, and nothing settled, before the places that write.
LEMMA NothingBegun ==
  IInv /\ at \notin {"inp", "cpp"} =>
      /\ Settled = {}
      /\ \A f \in Outputs : artifact[f] = "old"
  BY DEF IInv, TypeOK, OutputInv, Settled, Outputs

\* A step that writes nothing goes on, comes to the output it settles on, or ends the run.
LEMMA QuietStep ==
  ASSUME IInv, IInv', exit = "running", UNCHANGED artifact, at \notin {"inp", "cpp"},
         \/ UNCHANGED exit
         \/ exit' \in {"0", "1", "abort"} /\ UNCHANGED at
  PROVE  [Contract!Next]_(Contract!vars)
<1>1. Settled = {} /\ \A f \in Outputs : artifact[f] = "old"
  BY NothingBegun
<1>2. Outcome = "running"
  BY DEF Outcome
<1>3. CASE UNCHANGED exit
  <2>1. UNCHANGED Outcome
    BY <1>3 DEF Outcome
  <2>2. Settled' = {} \/ Settled' \in SUBSET Outputs
    BY DEF Settled, Outputs
  <2>3. CASE Settled' = {}
    BY <1>1, <2>1, <2>3 DEF Contract!vars
  <2>4. CASE Settled' \in SUBSET Outputs
    <3>1. Contract!Settle(Settled')
      BY <1>1, <1>2, <2>1 DEF Contract!Settle, Contract!Running
    <3>2. QED  BY <2>4, <3>1 DEF Contract!Next
  <2>5. QED  BY <2>2, <2>3, <2>4
<1>4. CASE exit' \in {"0", "1", "abort"} /\ UNCHANGED at
  <2>1. UNCHANGED Settled
    BY <1>4 DEF Settled
  <2>2. CASE exit' = "0"
    <3>1. Outcome' = "success"
      BY <2>2 DEF Outcome
    <3>2. Contract!Succeed
      BY <1>1, <1>2, <2>1, <3>1 DEF Contract!Succeed, Contract!End
    <3>3. QED  BY <3>2 DEF Contract!Next
  <2>3. CASE exit' = "1"
    <3>1. Outcome' = "failure"
      BY <2>3 DEF Outcome
    <3>2. Contract!Fail
      BY <1>1, <1>2, <2>1, <3>1 DEF Contract!Fail, Contract!End
    <3>3. QED  BY <3>2 DEF Contract!Next
  <2>4. CASE exit' = "abort"
    <3>1. Outcome' = "abort"
      BY <2>4 DEF Outcome
    <3>2. Contract!Abort
      BY <1>1, <1>2, <2>1, <3>1 DEF Contract!Abort, Contract!End
    <3>3. QED  BY <3>2 DEF Contract!Next
  <2>5. QED  BY <1>4, <2>2, <2>3, <2>4
<1>5. QED  BY <1>3, <1>4

\* The output is begun, filled and left, in that order.
LEMMA WriteStep ==
  ASSUME IInv, NEW file \in Outputs, NEW place \in {"inp", "cpp"}, Write(place, file),
         Settled = {file}
  PROVE  [Contract!Next]_(Contract!vars)
<1>1. exit = "running" /\ Outcome = "running" /\ UNCHANGED at /\ UNCHANGED Settled
  BY DEF Write, At, Return, Outcome, Settled
<1>2. CASE /\ artifact[file] = "old" /\ UNCHANGED exit
           /\ \E s \in {"torn", "lost"} : artifact' = [artifact EXCEPT ![file] = s]
  <2>1. UNCHANGED Outcome
    BY <1>2 DEF Outcome
  <2>2. Contract!Start(file) \/ Contract!Miss(file)
    BY <1>1, <1>2, <2>1 DEF Contract!Start, Contract!Miss, Contract!Running
  <2>3. QED  BY <2>2 DEF Contract!Next
<1>3. CASE /\ artifact[file] = "torn" /\ UNCHANGED exit
           /\ \E s \in {"written", "lost"} : artifact' = [artifact EXCEPT ![file] = s]
  <2>1. UNCHANGED Outcome
    BY <1>3 DEF Outcome
  <2>2. Contract!Finish(file)
    BY <1>1, <1>3, <2>1 DEF Contract!Finish, Contract!Running
  <2>3. QED  BY <2>2 DEF Contract!Next
<1>4. CASE exit' = "abort" /\ UNCHANGED artifact
  <2>1. Outcome' = "abort"
    BY <1>4 DEF Outcome
  <2>2. Contract!Abort
    BY <1>1, <1>4, <2>1 DEF Contract!Abort, Contract!End
  <2>3. QED  BY <2>2 DEF Contract!Next
<1>5. CASE /\ artifact[file] \in {"written", "lost"}
           /\ exit' = "0" /\ UNCHANGED artifact
  <2>1. Outcome' = "success"
    BY <1>5 DEF Outcome
  <2>2. Contract!Succeed
    BY <1>1, <1>5, <2>1 DEF Contract!Succeed, Contract!End
  <2>3. QED  BY <2>2 DEF Contract!Next
<1>6. QED  BY <1>2, <1>3, <1>4, <1>5 DEF Write, Return

LEMMA StepRefines == IInv /\ IInv' /\ [Next]_vars => [Contract!Next]_(Contract!vars)
<1> SUFFICES ASSUME IInv, IInv', [Next]_vars PROVE [Contract!Next]_(Contract!vars)
  OBVIOUS
<1>1. CASE \/ ParseCommandLine \/ CheckArguments \/ CreateFolder
           \/ ReadCircuit \/ ReadAssignmentTable \/ ReadCommonData
           \/ RequireDescription \/ RequireInputs
           \/ PreprocessPublic \/ Prove \/ Verify
  <2>1. exit = "running" /\ UNCHANGED artifact /\ at \notin {"inp", "cpp"}
    BY <1>1 DEF ParseCommandLine, CheckArguments, CreateFolder, ReadCircuit,
       ReadAssignmentTable, ReadCommonData, RequireDescription, RequireInputs,
       PreprocessPublic, Prove, Verify, At
  <2>2. \/ UNCHANGED exit
        \/ exit' \in {"0", "1", "abort"} /\ UNCHANGED at
    BY <1>1 DEF ParseCommandLine, CheckArguments, CreateFolder, ReadCircuit,
       ReadAssignmentTable, ReadCommonData, RequireDescription, RequireInputs,
       PreprocessPublic, Prove, Verify, Goto, Return, Undecodable
  <2>3. QED  BY <2>1, <2>2, QuietStep
<1>2. CASE WriteInput
  <2>1. Write("inp", Inp) /\ Settled = {Inp} /\ Inp \in Outputs
    BY <1>2 DEF WriteInput, Write, At, Inp, Settled, Outputs
  <2>2. QED  BY <2>1, WriteStep
<1>3. CASE WriteVerifier
  <2>1. Write("cpp", Cpp) /\ Settled = {Cpp} /\ Cpp \in Outputs
    BY <1>3 DEF WriteVerifier, Write, At, Cpp, Settled, Outputs
  <2>2. QED  BY <2>1, WriteStep
<1>4. CASE Killed
  <2>1. Outcome = "running" /\ Outcome' = "abort" /\ UNCHANGED Settled
    BY <1>4 DEF Killed, Return, Outcome, Settled
  <2>2. Contract!Abort
    BY <1>4, <2>1 DEF Killed, Contract!Abort, Contract!End
  <2>3. QED  BY <2>2 DEF Contract!Next
<1>5. CASE UNCHANGED vars
  BY <1>5 DEF vars, Contract!vars, Outcome, Settled
<1>6. QED  BY <1>1, <1>2, <1>3, <1>4, <1>5 DEF Next, Ended

\* The recursive verifier generator implements the contract of the build's tools.
THEOREM Refinement == Spec => KeepsContract
<1>1. Init => Contract!Init
  BY DEF Init, Contract!Init, Outcome, Settled
<1>2. QED  BY <1>1, StepRefines, Invariance, PTL DEF Spec, KeepsContract, Contract!Spec
===============================================================================
