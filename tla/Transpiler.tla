------------------------------ MODULE Transpiler ------------------------------
(***************************************************************************)
(* bin/transpiler/src/main.cpp: one run of the transpiler, from its        *)
(* command line to the files in the output folder and the exit code.       *)
(*                                                                         *)
(* The cryptography is left to its outcome: preprocessing and proving      *)
(* succeed or throw, a verification says yes or no. What a library writes  *)
(* into the folder in one call is one file here.                           *)
(***************************************************************************)
CONSTANT TornInputs     \* whether an input may be a file that was not written to its end

ASSUME TornInputsAssumption == TornInputs \in BOOLEAN

Modes == {"gen-test-proof", "gen-gate-argument", "gen-circuit-params",
          "gen-evm-verifier"}

\* What the output folder may hold.
Files == {"public_input", "gate_argument", "circuit_params", "evm_verifier", "proof"}

\* A file that cannot be opened or read, one that is torn, one that is whole.
InputStates == {"unreadable", "whole"} \cup (IF TornInputs THEN {"torn"} ELSE {})

VARIABLES at,           \* where the process is, or was when it ended
          exit,         \* "running", or how it ended: "0", "1", "abort"
          mode,
          options,      \* which of --public-input, --skip-verification were given
          input,        \* the circuit and the assignment table as found on disk
          gates,        \* num_gates() of the circuit is not 0
          sound,        \* whether the verifier accepts the proof of this circuit and table
          artifact,     \* for each file of the folder: "old", "torn", "written", "lost"
          verified      \* the verifier accepted the proof of this run

command == <<mode, options, input, gates, sound>>
vars == <<at, exit, command, artifact, verified>>

Places == {"parse", "mode", "folder", "copy", "circuit", "table", "sol_files", "public",
           "print_verifier", "print_params", "private", "verify", "print_proof"}

TypeOK == /\ at \in Places
          /\ exit \in {"running", "0", "1", "abort"}
          /\ mode \in Modes
          /\ options \subseteq {"public-input", "skip-verification"}
          /\ input \in [{"circuit", "table"} -> InputStates]
          /\ gates \in BOOLEAN /\ sound \in BOOLEAN
          /\ artifact \in [Files -> {"old", "torn", "written", "lost"}]
          /\ verified \in BOOLEAN

Init == /\ at = "parse" /\ exit = "running"
        /\ mode \in Modes
        /\ options \in SUBSET {"public-input", "skip-verification"}
        /\ input \in [{"circuit", "table"} -> InputStates]
        /\ gates \in BOOLEAN /\ sound \in BOOLEAN
        /\ artifact = [f \in Files |-> "old"]
        /\ verified = FALSE

At(place) == at = place /\ exit = "running" /\ UNCHANGED command
Goto(place) == at' = place /\ UNCHANGED exit
Return(code) == exit' = code /\ UNCHANGED at

\* The files written through a stream whose state nobody looks at: it may not open, and
\* the file keeps what it held, or may not take the bytes. The copy throws instead.
Silent == Files \ {"public_input"}
Done == {"written", "lost"}

\* A call that produces one file: it empties the file, then fills it, and may throw before
\* and in between; what the program does after the call is up to the caller.
Produce(place, file) ==
    /\ At(place)
    /\ artifact[file] \notin Done
    /\ \/ /\ artifact[file] = "old"
          /\ artifact' = [artifact EXCEPT ![file] = "torn"]
          /\ UNCHANGED <<at, exit>>
       \/ /\ artifact[file] = "torn"
          /\ artifact' = [artifact EXCEPT ![file] = "written"]
          /\ UNCHANGED <<at, exit>>
       \/ /\ file \in Silent
          /\ artifact' = [artifact EXCEPT ![file] = "lost"]
          /\ UNCHANGED <<at, exit>>
       \/ Return("abort") /\ UNCHANGED artifact
    /\ UNCHANGED verified

Produced(place, file) == /\ At(place)
                         /\ artifact[file] \in Done
                         /\ UNCHANGED <<artifact, verified>>
-------------------------------------------------------------------------------
(***************************************************************************)
(* The steps of a run.                                                     *)
(***************************************************************************)
\* main(): help and version, a curve that is missing, unknown or not supported, an
\* option the parser throws on.
ParseCommandLine == /\ At("parse")
                    /\ Goto("mode") \/ (\E code \in {"0", "1", "abort"} : Return(code))
                    /\ UNCHANGED <<artifact, verified>>

\* No mode, or none the program knows; no table, circuit or folder named.
CheckArguments == /\ At("mode")
                  /\ Goto("folder") \/ Return("1")
                  /\ UNCHANGED <<artifact, verified>>

CreateFolder == /\ At("folder")
                /\ \/ Goto(IF "public-input" \in options THEN "copy" ELSE "circuit")
                   \/ Return("abort")
                /\ UNCHANGED <<artifact, verified>>

CopyPublicInput ==
    \/ /\ At("copy") /\ artifact["public_input"] = "old"
       /\ Return("1") /\ UNCHANGED <<artifact, verified>>
    \/ Produce("copy", "public_input")
    \/ Produced("copy", "public_input") /\ Goto("circuit")

\* The status of unmarshalling is not looked at: what follows may or may not notice.
ReadInput(file, next) ==
    /\ At(file)
    /\ \/ input[file] # "unreadable" /\ Goto(next)
       \/ input[file] = "unreadable" /\ Return("1")
       \/ input[file] = "torn" /\ Return("abort")
    /\ UNCHANGED <<artifact, verified>>

ReadCircuit == ReadInput("circuit", "table")
ReadTable == ReadInput("table", "sol_files")

PrintSolFiles ==
    \/ mode = "gen-gate-argument" /\ Produce("sol_files", "gate_argument")
    \/ Produced("sol_files", "gate_argument") /\ Return("0")
    \/ /\ At("sol_files") /\ mode # "gen-gate-argument"
       /\ Goto("public") /\ UNCHANGED <<artifact, verified>>

PreprocessPublic ==
    /\ At("public")
    /\ \/ Goto(IF mode = "gen-evm-verifier" THEN "print_verifier" ELSE "print_params")
       \/ Return("abort")
    /\ UNCHANGED <<artifact, verified>>

PrintEvmVerifier == \/ Produce("print_verifier", "evm_verifier")
                    \/ Produced("print_verifier", "evm_verifier") /\ Return("0")

\* Mutant: one `return 0` behind the parameters for both modes.
PrintParams_early == \/ Produce("print_params", "circuit_params")
                     \/ Produced("print_params", "circuit_params") /\ Return("0")

\* Only gen-test-proof goes on; gen-circuit-params falls through to the last line.
PrintParams == \/ Produce("print_params", "circuit_params")
               \/ /\ Produced("print_params", "circuit_params")
                  /\ IF mode = "gen-test-proof" THEN Goto("private") ELSE Return("1")

\* A circuit without gates gets an empty proof, and no verifier runs.
Prove == /\ At("private")
         /\ \/ Goto(IF gates /\ "skip-verification" \notin options
                    THEN "verify" ELSE "print_proof")
            \/ Return("abort")
         /\ UNCHANGED <<artifact, verified>>

\* Mutant: the verdict is reported and not asserted.
Verify_reported == /\ At("verify")
                   /\ verified' = sound
                   /\ Goto("print_proof")
                   /\ UNCHANGED artifact

\* Mutant: a proof that does not verify ends in an exit code of its own.
Verify_code == /\ At("verify")
               /\ verified' = sound
               /\ IF sound THEN Goto("print_proof") ELSE Return("2")
               /\ UNCHANGED artifact

\* ASSERT_MSG aborts on a proof that does not verify.
Verify == /\ At("verify")
          /\ verified' = sound
          /\ IF sound THEN Goto("print_proof") ELSE Return("abort")
          /\ UNCHANGED artifact

\* "Proof written", whatever became of proof.bin; of a circuit without gates it is empty.
PrintProof == \/ Produce("print_proof", "proof")
              \/ Produced("print_proof", "proof") /\ Return("0")

\* Any other line may throw and nobody catches; the process may be killed.
Killed == exit = "running" /\ Return("abort") /\ UNCHANGED <<command, artifact, verified>>

Ended == exit # "running" /\ UNCHANGED vars

Next == \/ ParseCommandLine \/ CheckArguments \/ CreateFolder \/ CopyPublicInput
        \/ ReadCircuit \/ ReadTable \/ PrintSolFiles \/ PreprocessPublic
        \/ PrintEvmVerifier \/ PrintParams \/ Prove \/ Verify \/ PrintProof
        \/ Killed \/ Ended

Spec == Init /\ [][Next]_vars
-------------------------------------------------------------------------------
(***************************************************************************)
(* Properties.                                                             *)
(***************************************************************************)
\* gen-test-proof does not touch proof.bin before the verifier accepted the proof,
\* unless the circuit has no gates or --skip-verification was given; and then printing
\* the parameters the proof belongs to, into the same folder, is already over.
ProofIsVerified ==
    artifact["proof"] # "old" =>
        /\ gates /\ "skip-verification" \notin options => verified
        /\ artifact["circuit_params"] \in Done

\* What the code of a mode prepares.
Prepared == (CASE mode = "gen-gate-argument" -> {"gate_argument"}
               [] mode = "gen-circuit-params" -> {"circuit_params"}
               [] mode = "gen-test-proof" -> {"circuit_params", "proof"}
               [] mode = "gen-evm-verifier" -> {"evm_verifier"})
            \cup (IF "public-input" \in options THEN {"public_input"} ELSE {})

\* The contract the build relies on, with the mode settled once the arguments passed:
\* a run fills each file of its mode once and no other, succeeds only when it went through
\* all of them, and returns a failure only with none of them half written. Of the streams
\* that never opened it knows nothing: all files but the copy are in MayMiss.
Outcome == CASE exit = "running" -> "running" [] exit = "0" -> "success"
             [] exit = "1" -> "failure" [] exit = "abort" -> "abort"
Wanted == IF at \in {"parse", "mode"} THEN {} ELSE Prepared
Contract == INSTANCE ArtifactContract
                WITH MayTear <- {}, MayMiss <- Silent, outcome <- Outcome, wanted <- Wanted
ImplementsContract == Contract!Spec
===============================================================================
