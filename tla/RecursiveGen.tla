----------------------------- MODULE RecursiveGen -----------------------------
(***************************************************************************)
(* bin/recursive_gen/src/main.cpp: one run of the recursive verifier       *)
(* generator, which writes the source of a verifier circuit (gen-verifier) *)
(* or a proof as the input of one (gen-input).                             *)
(*                                                                         *)
(* The four std::optional locals are the state. A table description and    *)
(* the common data are known by where they come from: the assignment table *)
(* or the common data file. Cryptography is left to its outcome.           *)
(***************************************************************************)
Modes == {"gen-input", "gen-verifier"}
Options == {"assignment-table", "common-data", "skip-verification"}
Inputs == {"circuit", "assignment-table", "common-data"}
Outputs == {"placeholder_verifier.inp", "placeholder_verifier.cpp"}
Sources == {"none", "table", "common"}

VARIABLES at,           \* where the process is, or was when it ended
          exit,         \* "running", or how it ended: "0", "1", "abort"
          mode, options,
          decodes,      \* the inputs that can be read and decoded
          sound,        \* whether the verifier accepts the proof
          constraint_system,    \* has a value
          assignment_table,     \* has a value
          desc,         \* where its value comes from, or "none"
          common_data,  \* the description its value was made for, or "none"
          artifact,     \* for each output: "old", "torn", "written", "lost"
          verified      \* the verifier accepted the proof of this run

command == <<mode, options, decodes, sound>>
optionals == <<constraint_system, assignment_table, desc, common_data>>
vars == <<at, exit, command, optionals, artifact, verified>>

Places == {"parse", "arguments", "folder", "circuit", "table", "common", "describe",
           "require", "preprocess", "prove", "verify", "inp", "cpp"}

TypeOK == /\ at \in Places
          /\ exit \in {"running", "0", "1", "abort"}
          /\ mode \in Modes /\ options \subseteq Options
          /\ decodes \subseteq Inputs /\ sound \in BOOLEAN
          /\ constraint_system \in BOOLEAN /\ assignment_table \in BOOLEAN
          /\ desc \in Sources /\ common_data \in Sources
          /\ artifact \in [Outputs -> {"old", "torn", "written", "lost"}]
          /\ verified \in BOOLEAN

Init == /\ at = "parse" /\ exit = "running"
        /\ mode \in Modes /\ options \in SUBSET Options
        /\ decodes \in SUBSET Inputs /\ sound \in BOOLEAN
        /\ constraint_system = FALSE /\ assignment_table = FALSE
        /\ desc = "none" /\ common_data = "none"
        /\ artifact = [f \in Outputs |-> "old"]
        /\ verified = FALSE

At(place) == at = place /\ exit = "running" /\ UNCHANGED command
Goto(place) == at' = place /\ UNCHANGED exit
Return(code) == exit' = code /\ UNCHANGED at
-------------------------------------------------------------------------------
(***************************************************************************)
(* The steps of a run.                                                     *)
(***************************************************************************)
\* main(): a curve that is missing or unknown; one that is UNREACHABLE, an option the
\* parser throws on.
ParseCommandLine == /\ At("parse")
                    /\ Goto("arguments") \/ Return("1") \/ Return("abort")
                    /\ UNCHANGED <<optionals, artifact, verified>>

\* Help; a mode, circuit or folder that is missing, a mode the program does not know.
CheckArguments == /\ At("arguments")
                  /\ Goto("folder") \/ Return("0") \/ Return("1")
                  /\ UNCHANGED <<optionals, artifact, verified>>

CreateFolder == /\ At("folder")
                /\ Goto("circuit") \/ Return("abort")
                /\ UNCHANGED <<optionals, artifact, verified>>

\* decode_marshalling_from_file gave nothing: `return false` from a function of type int.
Undecodable(file) == file \notin decodes /\ Return("0") /\ UNCHANGED optionals

ReadCircuit == /\ At("circuit")
               /\ \/ Undecodable("circuit")
                  \/ /\ "circuit" \in decodes
                     /\ constraint_system' = TRUE
                     /\ Goto("table")
                     /\ UNCHANGED <<assignment_table, desc, common_data>>
               /\ UNCHANGED <<artifact, verified>>

ReadAssignmentTable ==
    /\ At("table")
    /\ \/ "assignment-table" \notin options /\ Goto("common") /\ UNCHANGED optionals
       \/ "assignment-table" \in options /\ Undecodable("assignment-table")
       \/ /\ "assignment-table" \in options \cap decodes
          /\ assignment_table' = TRUE /\ desc' = "table"
          /\ Goto("common")
          /\ UNCHANGED <<constraint_system, common_data>>
    /\ UNCHANGED <<artifact, verified>>

\* Mutant: the description of the assignment table is kept if there is one.
ReadCommonData_keep ==
    /\ At("common")
    /\ \/ "common-data" \notin options /\ Goto("describe") /\ UNCHANGED optionals
       \/ "common-data" \in options /\ Undecodable("common-data")
       \/ /\ "common-data" \in options \cap decodes
          /\ desc' = IF desc = "none" THEN "common" ELSE desc
          /\ common_data' = "common"
          /\ Goto("describe")
          /\ UNCHANGED <<constraint_system, assignment_table>>
    /\ UNCHANGED <<artifact, verified>>

\* desc.emplace replaces the description of the assignment table.
ReadCommonData ==
    /\ At("common")
    /\ \/ "common-data" \notin options /\ Goto("describe") /\ UNCHANGED optionals
       \/ "common-data" \in options /\ Undecodable("common-data")
       \/ /\ "common-data" \in options \cap decodes
          /\ desc' = "common" /\ common_data' = "common"
          /\ Goto("describe")
          /\ UNCHANGED <<constraint_system, assignment_table>>
    /\ UNCHANGED <<artifact, verified>>

\* Mutant: -1 for a description that is missing.
RequireDescription_255 == /\ At("describe")
                          /\ IF desc = "none" THEN Return("255") ELSE Goto("require")
                          /\ UNCHANGED <<optionals, artifact, verified>>

RequireDescription == /\ At("describe")
                      /\ IF desc = "none" THEN Return("1") ELSE Goto("require")
                      /\ UNCHANGED <<optionals, artifact, verified>>

\* Mutant: common data are taken to be enough in both modes.
RequireInputs_either ==
    /\ At("require")
    /\ IF ~assignment_table /\ common_data = "none"
       THEN Return("1")
       ELSE Goto(IF mode = "gen-verifier" /\ common_data # "none"
                 THEN "cpp" ELSE "preprocess")
    /\ UNCHANGED <<optionals, artifact, verified>>

\* What each mode needs, and whether there is anything to preprocess.
RequireInputs ==
    /\ At("require")
    /\ IF \/ mode = "gen-verifier" /\ ~assignment_table /\ common_data = "none"
          \/ mode = "gen-input" /\ ~assignment_table
       THEN Return("1")
       ELSE Goto(IF mode = "gen-verifier" /\ common_data # "none"
                 THEN "cpp" ELSE "preprocess")
    /\ UNCHANGED <<optionals, artifact, verified>>

\* The common data are made anew, for the description at hand.
PreprocessPublic ==
    /\ At("preprocess")
    /\ \/ /\ common_data' = desc
          /\ Goto(IF mode = "gen-input" THEN "prove" ELSE "cpp")
          /\ UNCHANGED <<constraint_system, assignment_table, desc>>
       \/ Return("abort") /\ UNCHANGED optionals
    /\ UNCHANGED <<artifact, verified>>

Prove == /\ At("prove")
         /\ \/ Goto(IF "skip-verification" \in options THEN "inp" ELSE "verify")
            \/ Return("abort")
         /\ UNCHANGED <<optionals, artifact, verified>>

\* Mutant: the verdict is reported and not asserted.
Verify_reported == /\ At("verify")
                   /\ verified' = sound
                   /\ Goto("inp")
                   /\ UNCHANGED <<optionals, artifact>>

Verify == /\ At("verify")
          /\ verified' = sound
          /\ IF sound THEN Goto("inp") ELSE Return("abort")
          /\ UNCHANGED <<optionals, artifact>>

\* Mutant: what generating the text throws is caught, and reported as a failure.
Write_caught(place, file) ==
    /\ At(place)
    /\ \/ /\ artifact[file] = "old"
          /\ artifact' = [artifact EXCEPT ![file] = "torn"]
          /\ UNCHANGED <<at, exit>>
       \/ /\ artifact[file] = "torn"
          /\ \E s \in {"written", "lost"} : artifact' = [artifact EXCEPT ![file] = s]
          /\ UNCHANGED <<at, exit>>
       \/ /\ artifact[file] = "torn"
          /\ Return("1") /\ UNCHANGED artifact
       \/ /\ artifact[file] \in {"written", "lost"}
          /\ Return("0") /\ UNCHANGED artifact
    /\ UNCHANGED <<optionals, verified>>

\* The file is opened before its text is generated, and generating it may throw. Nobody looks
\* at the state of the stream: it may not open, and the file keeps what it held, or may not
\* take the text.
Write(place, file) ==
    /\ At(place)
    /\ \/ /\ artifact[file] = "old"
          /\ \E s \in {"torn", "lost"} : artifact' = [artifact EXCEPT ![file] = s]
          /\ UNCHANGED <<at, exit>>
       \/ /\ artifact[file] = "torn"
          /\ \E s \in {"written", "lost"} : artifact' = [artifact EXCEPT ![file] = s]
          /\ UNCHANGED <<at, exit>>
       \/ /\ artifact[file] \in {"torn", "lost"}
          /\ Return("abort") /\ UNCHANGED artifact
       \/ /\ artifact[file] \in {"written", "lost"}
          /\ Return("0") /\ UNCHANGED artifact
    /\ UNCHANGED <<optionals, verified>>

WriteInput == Write("inp", "placeholder_verifier.inp")
WriteVerifier == Write("cpp", "placeholder_verifier.cpp")

\* Decoding an input that is not what it should be may throw, any other line may, and nobody
\* catches; the process may be killed.
Killed == /\ exit = "running"
          /\ Return("abort")
          /\ UNCHANGED <<command, optionals, artifact, verified>>

Ended == exit # "running" /\ UNCHANGED vars

Next == \/ ParseCommandLine \/ CheckArguments \/ CreateFolder
        \/ ReadCircuit \/ ReadAssignmentTable \/ ReadCommonData
        \/ RequireDescription \/ RequireInputs
        \/ PreprocessPublic \/ Prove \/ Verify \/ WriteInput \/ WriteVerifier
        \/ Killed \/ Ended

Spec == Init /\ [][Next]_vars
-------------------------------------------------------------------------------
(***************************************************************************)
(* Properties.                                                             *)
(***************************************************************************)
\* No optional is dereferenced without a value, which would be undefined behaviour:
\* for every combination of --mode, --assignment-table and --common-data, the checks
\* behind the decoding see to all four before preprocessing, proving and writing.
OptionalsHaveValues ==
    exit = "running" =>
        /\ at \in {"preprocess", "prove", "verify", "inp"} =>
               constraint_system /\ assignment_table /\ desc # "none"
        /\ at = "cpp" => constraint_system /\ desc # "none" /\ common_data # "none"

\* A verifier, or an input for one, is generated for the description its common data
\* were made for, whichever of the two files brought the description.
DescriptionOfCommonData ==
    \A f \in Outputs : artifact[f] # "old" => desc = common_data

\* An input for the verifier is not begun before the proof in it was accepted, unless
\* --skip-verification was given.
InputIsVerified ==
    artifact["placeholder_verifier.inp"] # "old" =>
        "skip-verification" \in options \/ verified

\* The help of --mode: gen-input "generates test proof and recursive verifier input",
\* gen-verifier "generates main.cpp file". A run past its arguments that reports success
\* has done so.
SuccessLeavesOutput ==
    exit = "0" /\ at # "arguments" => \E f \in Outputs : artifact[f] = "written"

\* The generator keeps the contract of the build's tools, see ArtifactContract: a run that
\* reports success after it came to its output was done with it, one that reports a failure
\* left no torn file, and none begins the output of the other mode. A run that ends before
\* has settled on nothing: what it reports is SuccessLeavesOutput's subject. It looks at
\* no stream: both outputs are in MayMiss.
Settled == CASE at = "inp" -> {"placeholder_verifier.inp"}
             [] at = "cpp" -> {"placeholder_verifier.cpp"}
             [] OTHER -> {}

Outcome == CASE exit = "running" -> "running"
             [] exit = "0" -> "success"
             [] exit = "abort" -> "abort"
             [] OTHER -> "failure"

Contract == INSTANCE ArtifactContract
                WITH Files <- Outputs, MayTear <- {}, MayMiss <- Outputs,
                     outcome <- Outcome, wanted <- Settled

KeepsContract == Contract!Spec
===============================================================================
