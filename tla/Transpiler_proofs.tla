-------------------------- MODULE Transpiler_proofs --------------------------
(***************************************************************************)
(* One run of the transpiler: what is in the folder when proof.bin is      *)
(* touched, and the contract with the build.                               *)
(***************************************************************************)
EXTENDS Transpiler, TLAPS

Opening == {"parse", "mode", "folder"}
AfterCopy == Places \ (Opening \cup {"copy"})
Proving == {"private", "verify", "print_proof"}

\* Where each file is written.
Writer == [f \in Files |-> CASE f = "public_input" -> "copy"
                             [] f = "gate_argument" -> "sol_files"
                             [] f = "circuit_params" -> "print_params"
                             [] f = "evm_verifier" -> "print_verifier"
                             [] f = "proof" -> "print_proof"]

\* Which modes come to which place.
ModeInv == /\ at = "copy" => "public-input" \in options
           /\ at = "public" => mode # "gen-gate-argument"
           /\ at = "print_verifier" => mode = "gen-evm-verifier"
           /\ at = "print_params" => mode \in {"gen-circuit-params", "gen-test-proof"}
           /\ at \in Proving => mode = "gen-test-proof"

\* What is in the folder at which place.
FolderInv == /\ \A f \in Files : artifact[f] = "torn" => at = Writer[f]
             /\ at \in Opening => \A f \in Files : artifact[f] = "old"
             /\ artifact["public_input"] # "lost"
             /\ at \in AfterCopy /\ "public-input" \in options =>
                    artifact["public_input"] = "written"
             /\ artifact["gate_argument"] # "old" => mode = "gen-gate-argument"
             /\ at \in Proving => artifact["circuit_params"] \in Done
             /\ artifact["proof"] # "old" => at = "print_proof"

\* How a run comes to printing its proof.
ProofInv == /\ at = "print_proof" /\ gates /\ "skip-verification" \notin options => verified

IInv == TypeOK /\ ModeInv /\ FolderInv /\ ProofInv

LEMMA InitInv == Init => IInv
  BY DEF Init, IInv, TypeOK, ModeInv, FolderInv, ProofInv, Places, Opening, AfterCopy,
         Proving, Files

\* One library call: only its file changes, at its place.
LEMMA ProduceStep ==
  ASSUME TypeOK, NEW place, NEW f \in Files, Produce(place, f)
  PROVE  /\ at = place /\ at' = at /\ exit = "running"
         /\ UNCHANGED command /\ UNCHANGED verified
         /\ \A g \in Files \ {f} : artifact'[g] = artifact[g]
         /\ artifact' \in [Files -> {"old", "torn", "written", "lost"}]
         /\ exit' \in {"running", "abort"}
         /\ artifact[f] \in {"old", "torn"}
         /\ \/ artifact[f] = "old" /\ exit' = exit
               /\ artifact' = [artifact EXCEPT ![f] = "torn"]
            \/ artifact[f] = "torn" /\ exit' = exit
               /\ artifact' = [artifact EXCEPT ![f] = "written"]
            \/ f \in Silent /\ exit' = exit
               /\ artifact' = [artifact EXCEPT ![f] = "lost"]
            \/ exit' = "abort" /\ artifact' = artifact
  BY DEF TypeOK, Produce, At, Return, Done

\* Every step but a library call leaves the folder as it is.
LEMMA NextInv == IInv /\ [Next]_vars => IInv'
<1> SUFFICES ASSUME IInv, [Next]_vars PROVE IInv'
  OBVIOUS
<1> USE DEF IInv, TypeOK, ModeInv, FolderInv, ProofInv, Opening, AfterCopy, Proving,
            Places, Modes, command, At, Goto, Return, Produced, Done
<1>1. CASE ParseCommandLine
  BY <1>1 DEF ParseCommandLine
<1>2. CASE CheckArguments
  BY <1>2 DEF CheckArguments
<1>3. CASE CreateFolder
  BY <1>3 DEF CreateFolder, Files
<1>4. ASSUME NEW f \in Files, Produce(Writer[f], f), ~(f = "gate_argument" /\ mode # "gen-gate-argument")
      PROVE  IInv'
  <2>1. TypeOK'
    BY <1>4, ProduceStep
  <2>2. ModeInv' /\ ProofInv'
    BY <1>4, ProduceStep
  <2>3. FolderInv'
    BY <1>4, ProduceStep DEF Writer, Files, Silent
  <2>4. QED  BY <2>1, <2>2, <2>3
<1>5. CASE CopyPublicInput
  <2>1. CASE Produce("copy", "public_input")
    BY <2>1, <1>4 DEF Files, Writer
  <2>2. CASE Produced("copy", "public_input") /\ Goto("circuit")
    <3>1. artifact["public_input"] = "written"
      BY <2>2, <1>5 DEF Files, Writer
    <3>2. QED  BY <2>2, <3>1 DEF Files, Writer
  <2>3. CASE At("copy") /\ Return("1") /\ UNCHANGED <<artifact, verified>>
    BY <2>3
  <2>4. QED  BY <1>5, <2>1, <2>2, <2>3 DEF CopyPublicInput
<1>6. CASE ReadCircuit \/ ReadTable
  BY <1>6 DEF ReadCircuit, ReadTable, ReadInput, Files, Writer
<1>7. CASE PrintSolFiles
  BY <1>7, <1>4 DEF PrintSolFiles, Files, Writer
<1>8. CASE PreprocessPublic
  BY <1>8 DEF PreprocessPublic, Files, Writer
<1>9. CASE PrintEvmVerifier
  BY <1>9, <1>4 DEF PrintEvmVerifier, Files, Writer
<1>10. CASE PrintParams
  BY <1>10, <1>4 DEF PrintParams, Files, Writer
<1>11. CASE Prove
  BY <1>11 DEF Prove, Files, Writer
<1>12. CASE Verify
  BY <1>12 DEF Verify, Files, Writer
<1>13. CASE PrintProof
  BY <1>13, <1>4 DEF PrintProof, Files, Writer
<1>14. CASE Killed
  BY <1>14 DEF Killed
<1>15. CASE UNCHANGED vars
  BY <1>15 DEF vars
<1>16. QED
  BY <1>1, <1>2, <1>3, <1>5, <1>6, <1>7, <1>8, <1>9, <1>10, <1>11, <1>12, <1>13,
     <1>14, <1>15 DEF Next, Ended

LEMMA Invariance == Spec => []IInv
  BY InitInv, NextInv, PTL DEF Spec

\* Every variable of a transpiler run keeps its type.
THEOREM TypeCorrect == Spec => []TypeOK
  BY Invariance, PTL DEF IInv

\* proof.bin is touched only behind the verifier, and after the parameters were printed.
THEOREM ProofBehindVerifier == Spec => []ProofIsVerified
<1>1. IInv => ProofIsVerified
  BY DEF IInv, FolderInv, ProofInv, ProofIsVerified, Proving
<1>2. QED  BY <1>1, Invariance, PTL
-------------------------------------------------------------------------------
(***************************************************************************)
(* Refinement.                                                             *)
(***************************************************************************)
\* What each mode prepares, file by file.
LEMMA PreparedFiles ==
  ASSUME mode \in Modes
  PROVE  /\ Prepared \subseteq Files
         /\ "public_input" \in Prepared <=> "public-input" \in options
         /\ "gate_argument" \in Prepared <=> mode = "gen-gate-argument"
         /\ "evm_verifier" \in Prepared <=> mode = "gen-evm-verifier"
         /\ "proof" \in Prepared <=> mode = "gen-test-proof"
         /\ "circuit_params" \in Prepared
                <=> mode \in {"gen-circuit-params", "gen-test-proof"}
  BY DEF Prepared, Files, Modes

LEMMA Writers ==
  /\ Writer["public_input"] = "copy" /\ Writer["gate_argument"] = "sol_files"
  /\ Writer["circuit_params"] = "print_params"
  /\ Writer["evm_verifier"] = "print_verifier" /\ Writer["proof"] = "print_proof"
  BY DEF Writer, Files

\* What a step of a run is, to the contract.
LEMMA StepRefines ==
  ASSUME IInv, [Next]_vars
  PROVE  [Contract!Next]_(Contract!vars)
<1> USE DEF IInv, TypeOK, ModeInv, FolderInv, Opening, AfterCopy, Proving, Places, Modes,
            command, At, Goto, Return, Produced, Done
<1>1. ASSUME UNCHANGED <<mode, options, artifact>>, exit' = exit,
             at \in {"parse", "mode"} <=> at' \in {"parse", "mode"}
      PROVE  [Contract!Next]_(Contract!vars)
  BY <1>1 DEF Contract!vars, Outcome, Wanted, Prepared
<1>2. ASSUME UNCHANGED <<mode, options, artifact, at>>, exit = "running", exit' = "abort"
      PROVE  [Contract!Next]_(Contract!vars)
  BY <1>2 DEF Contract!Next, Contract!Abort, Contract!End, Outcome, Wanted, Prepared
<1>3. ASSUME UNCHANGED <<mode, options, artifact, at>>, exit = "running", exit' = "1",
             \A f \in Files : artifact[f] # "torn"
      PROVE  [Contract!Next]_(Contract!vars)
  BY <1>3 DEF Contract!Next, Contract!Fail, Contract!End, Outcome, Wanted, Prepared
<1>4. ASSUME UNCHANGED <<mode, options, artifact, at>>, exit = "running", exit' = "0",
             \A f \in Wanted : artifact[f] \in Done
      PROVE  [Contract!Next]_(Contract!vars)
  BY <1>4 DEF Contract!Next, Contract!Succeed, Contract!End, Outcome, Wanted, Prepared
<1>5. CASE ParseCommandLine
  BY <1>5, <1>1, <1>2, <1>3, <1>4 DEF ParseCommandLine, Wanted
<1>6. CASE CheckArguments
  <2>1. CASE Goto("folder")
    <3>1. Prepared' = Prepared /\ Prepared \subseteq Files
      BY <1>6 DEF CheckArguments, Prepared, Files
    <3>2. Contract!Settle(Prepared)
      BY <1>6, <2>1, <3>1
         DEF CheckArguments, Contract!Settle, Contract!Running, Outcome, Wanted
    <3>3. QED  BY <3>1, <3>2 DEF Contract!Next
  <2>2. CASE Return("1")
    BY <1>6, <2>2, <1>3 DEF CheckArguments
  <2>3. QED  BY <1>6, <2>1, <2>2 DEF CheckArguments
<1>7. CASE CreateFolder
  BY <1>7, <1>1, <1>2 DEF CreateFolder
<1>8. ASSUME NEW f \in Files, Produce(Writer[f], f), f \in Prepared
      PROVE  [Contract!Next]_(Contract!vars)
  <2>1. at \notin {"parse", "mode"}
    BY <1>8, ProduceStep DEF Writer, Files
  <2>2. Wanted' = Wanted /\ f \in Wanted
    BY <1>8, <2>1, ProduceStep DEF Wanted, Prepared
  <2>3. CASE exit' = exit /\ artifact[f] = "old"
    <3>1. Contract!Start(f) \/ Contract!Miss(f)
      BY <1>8, <2>2, <2>3, ProduceStep
         DEF Contract!Start, Contract!Miss, Contract!Running, Outcome
    <3>2. QED  BY <1>8, <3>1 DEF Contract!Next
  <2>4. CASE exit' = exit /\ artifact[f] = "torn"
    <3>1. Contract!Finish(f)
      BY <1>8, <2>2, <2>4, ProduceStep DEF Contract!Finish, Contract!Running, Outcome
    <3>2. QED  BY <1>8, <3>1 DEF Contract!Next
  <2>5. CASE exit' = "abort"
    BY <1>8, <2>5, <1>2, ProduceStep
  <2>6. QED  BY <1>8, <2>3, <2>4, <2>5, ProduceStep
<1>9. CASE CopyPublicInput
  <2>1. CASE Produce("copy", "public_input")
    BY <2>1, <1>8, PreparedFiles, Writers DEF Produce, Files
  <2>2. CASE Produced("copy", "public_input") /\ Goto("circuit")
    BY <2>2, <1>1
  <2>3. CASE At("copy") /\ artifact["public_input"] = "old" /\ Return("1")
             /\ UNCHANGED <<artifact, verified>>
    BY <2>3, <1>3, Writers DEF Files
  <2>4. QED  BY <1>9, <2>1, <2>2, <2>3 DEF CopyPublicInput
<1>10. CASE ReadCircuit \/ ReadTable
  BY <1>10, <1>1, <1>2, <1>3 DEF ReadCircuit, ReadTable, ReadInput, Files, Writer
<1>11. CASE PrintSolFiles
  BY <1>11, <1>1, <1>4, <1>8 DEF PrintSolFiles, Files, Writer, Wanted, Prepared
<1>12. CASE PreprocessPublic
  BY <1>12, <1>1, <1>2 DEF PreprocessPublic
<1>13. CASE PrintEvmVerifier
  <2>1. CASE Produce("print_verifier", "evm_verifier")
    BY <2>1, <1>8, PreparedFiles, Writers DEF Produce, Files
  <2>2. CASE Produced("print_verifier", "evm_verifier") /\ Return("0")
    <3>1. \A f \in Wanted : artifact[f] \in Done
      BY <2>2, PreparedFiles DEF Wanted, Files
    <3>2. QED  BY <2>2, <3>1, <1>4
  <2>3. QED  BY <1>13, <2>1, <2>2 DEF PrintEvmVerifier
<1>14. CASE PrintParams
  <2>1. CASE Produce("print_params", "circuit_params")
    BY <2>1, <1>8, PreparedFiles, Writers DEF Produce, Files
  <2>2. CASE Produced("print_params", "circuit_params") /\ Goto("private")
    BY <2>2, <1>1
  <2>3. CASE Produced("print_params", "circuit_params") /\ Return("1")
    BY <2>3, <1>3, Writers DEF Files
  <2>4. QED  BY <1>14, <2>1, <2>2, <2>3 DEF PrintParams
<1>15. CASE Prove
  BY <1>15, <1>1, <1>2 DEF Prove
<1>16. CASE Verify
  BY <1>16, <1>1, <1>2 DEF Verify
<1>17. CASE PrintProof
  <2>1. CASE Produce("print_proof", "proof")
    BY <2>1, <1>8, PreparedFiles, Writers DEF Produce, Files
  <2>2. CASE Produced("print_proof", "proof") /\ Return("0")
    <3>1. \A f \in Wanted : artifact[f] \in Done
      BY <2>2, PreparedFiles DEF Wanted, Files
    <3>2. QED  BY <2>2, <3>1, <1>4
  <2>3. QED  BY <1>17, <2>1, <2>2 DEF PrintProof
<1>18. CASE Killed
  BY <1>18, <1>2 DEF Killed
<1>19. CASE UNCHANGED vars
  BY <1>19, <1>1 DEF vars
<1>20. QED
  BY <1>5, <1>6, <1>7, <1>9, <1>10, <1>11, <1>12, <1>13, <1>14, <1>15, <1>16, <1>17,
     <1>18, <1>19 DEF Next, Ended

\* In every mode, whatever throws and whichever stream does not open or take its bytes, a
\* run keeps ArtifactContract: each file of the mode once and no other, no success before
\* all of them were gone through, no reported failure in the middle of one.
THEOREM Refinement == Spec => ImplementsContract
<1>1. Init => Contract!Init
  BY DEF Init, Contract!Init, Outcome, Wanted
<1>2. QED
  BY <1>1, StepRefines, Invariance, PTL DEF Spec, ImplementsContract, Contract!Spec
===============================================================================
