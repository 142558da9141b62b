------------------------------ MODULE BuildGraph ------------------------------
(***************************************************************************)
(* The targets examples/CMakeLists.txt defines for one example, run by     *)
(* `ninja -k 0` the way run_tests.sh does, one invocation after another.   *)
(* A target is a list of commands; it starts when the targets it depends   *)
(* on are done. Targets share nothing but files, found by name, and a      *)
(* dependency is the only thing that keeps a reader from a file that is    *)
(* being written.                                                          *)
(*                                                                         *)
(* A command loads its inputs, then writes its outputs. The tools behave   *)
(* as ArtifactContract lets them, except recursive_gen, which may read a   *)
(* file it cannot use and still exit with 0 (see RecursiveGen). What a     *)
(* file holds is abstracted to where it came from.                         *)
(***************************************************************************)
EXTENDS Naturals, Sequences, FiniteSets

CONSTANTS Provers,      \* the numbered provers of MAX_NUM_PROVERS
          Spreads,      \* the sets of provers a program may turn out to use
          Script,       \* the ninja invocations: their goals, and the files moved after each
          MaxFaults     \* how many commands may fail of themselves

ASSUME BuildAssumption == /\ Provers \subseteq Nat \ {0}
                          /\ Spreads \subseteq SUBSET Provers
                          /\ MaxFaults \in Nat

-------------------------------------------------------------------------------
(***************************************************************************)
(* The graph. <<name, p>> is the target, or the file, of prover p; one     *)
(* that all provers share has the number 0.                                *)
(***************************************************************************)
Shared == {"ll", "crct", "tbl", "both", "column", "copy"}
Single == {"prove", "json", "verifier", "compile", "assign"}
Targets == (Shared \X {0}) \cup (Single \X Provers)

SharedFiles == {"bitcode", "column", "public_input"}
SingleFiles == {"circuit", "table", "proof", "inp", "cpp", "code", "linked", "outer"}
Files == (SharedFiles \X {0}) \cup (SingleFiles \X Provers)

\* Mutant: gen-input waits for the table only.
DependsOn_half ==
    [ll |-> {}, crct |-> {"ll"}, tbl |-> {"ll"}, both |-> {"ll"},
     column |-> {"ll"}, copy |-> {"column"},
     prove |-> {"crct", "tbl"}, json |-> {"tbl"},
     verifier |-> {"crct"}, compile |-> {"crct", "tbl"}, assign |-> {"compile"}]

\* DEPENDS and add_dependencies. gen_recursive_verifier waits for the circuit only.
DependsOn ==
    [ll |-> {}, crct |-> {"ll"}, tbl |-> {"ll"}, both |-> {"ll"},
     column |-> {"ll"}, copy |-> {"column"},
     prove |-> {"crct", "tbl"}, json |-> {"crct", "tbl"},
     verifier |-> {"crct"}, compile |-> {"crct", "tbl"}, assign |-> {"compile"}]

Dependencies(t) == {u \in Targets : u[1] \in DependsOn[t[1]] /\ u[2] \in {0, t[2]}}

Tool(reads, writes) == [reads |-> reads, writes |-> writes]
GenInput == Tool({"circuit", "table"}, {"inp"})
GenVerifier == Tool({"circuit", "table"}, {"cpp"})
RecursiveGenCommands == {GenInput, GenVerifier}

\* The commands of a target, in order.
Commands == [ll |-> <<Tool({}, {"bitcode"})>>,
             crct |-> <<Tool({"bitcode"}, {"circuit"})>>,
             tbl |-> <<Tool({"bitcode"}, {"table"})>>,
             both |-> <<Tool({"bitcode"}, {"circuit", "table"})>>,
             column |-> <<Tool({"bitcode"}, {"column"})>>,
             copy |-> <<Tool({"column"}, {"public_input"})>>,
             prove |-> <<Tool({"circuit", "table"}, {"proof"})>>,
             json |-> <<GenInput>>,
             verifier |-> <<GenVerifier>>,
             compile |-> <<GenInput, GenVerifier, Tool({"cpp"}, {"code"})>>,
             assign |-> <<Tool({"code"}, {"linked"}), Tool({"linked", "inp"}, {"outer"})>>]

VARIABLES used,         \* the provers whose numbered files the assigner writes
          phase,        \* the invocation of Script that runs
          ended,        \* "no", "finished", or "stopped" by set -e
          state,        \* of each target in this invocation
          command,      \* the command a target is at
          taken,        \* what its inputs were when it loaded them
          file,         \* what each file holds
          faults

vars == <<used, phase, ended, state, command, taken, file, faults>>

\* The targets of an invocation. No chain of dependencies is longer than four:
\* assign, compile, crct, ll.
WithDependencies(S) == S \cup UNION {Dependencies(t) : t \in S}
Needed(goals) == WithDependencies(WithDependencies(WithDependencies(goals)))
NeededIn == [n \in 1 .. Len(Script) |-> Needed(Script[n].goals)]

\* _generate_both writes the files of _generate_crct and _generate_tbl and waits for
\* neither; the invocations of run_tests.sh keep them apart.
ASSUME ScriptAssumption ==
    /\ Script \in Seq([goals : SUBSET Targets, moved : SUBSET Files]) /\ Script # <<>>
    /\ \A n \in 1 .. Len(Script) :
          <<"both", 0>> \in NeededIn[n] => NeededIn[n] \cap {<<"crct", 0>>, <<"tbl", 0>>} = {}

\* Some invocation proves, and the proofs are not moved.
ASSUME ProvingAssumption ==
    /\ \E n \in 1 .. Len(Script) : {"prove"} \X Provers \subseteq NeededIn[n]
    /\ \A n \in 1 .. Len(Script) : \A f \in Script[n].moved : f[1] # "proof"

Current(t) == Commands[t[1]][command[t]]
Of(t, kinds) == {f \in Files : f[1] \in kinds /\ (f[2] = t[2] \/ f[2] = 0)}

\* With one prover left the assigner writes files without a number, which no target of a
\* multi prover example reads.
Reads(t) == Of(t, Current(t).reads)
Writes(t) == IF t[2] = 0
             THEN {f \in Files : f[1] \in Current(t).writes /\ f[2] \in {0} \cup used}
             ELSE Of(t, Current(t).writes)

Active(t) == state[t] \in {"reading", "writing"}
Settled(t) == state[t] \in {"done", "failed", "skipped"}
WritersOf(f, t) == {u \in Targets \ {t} : state[u] = "writing" /\ f \in Writes(u)}

Contents == {"absent", "old", "torn", "mixed", "new"}

TypeOK == /\ used \in Spreads
          /\ phase \in 1 .. Len(Script)
          /\ ended \in {"no", "finished", "stopped"}
          /\ state \in [Targets -> {"waiting", "reading", "writing",
                                    "done", "failed", "skipped"}]
          /\ command \in [Targets -> Nat]
          /\ \A t \in Targets : command[t] \in 1 .. Len(Commands[t[1]])
          /\ taken \in [Targets -> {"old", "new", "unsound"}]
          /\ file \in [Files -> Contents]
          /\ faults \in 0 .. MaxFaults

AllWaiting == [t \in Targets |-> "waiting"]
FirstCommand == [t \in Targets |-> 1]

\* A build directory in which an earlier build may have run, with another program and
\* another number of provers, to its end or not. assign_recursive_verifier writes a
\* placeholder for the source of the verifier when there is none.
Init == /\ used \in Spreads
        /\ phase = 1 /\ ended = "no"
        /\ state = AllWaiting /\ command = FirstCommand
        /\ taken = [t \in Targets |-> "new"]
        /\ \E before \in {"absent", "old", "torn"} :
              file = [f \in Files |-> IF f[1] = "cpp" THEN "old" ELSE before]
        /\ faults = 0
-------------------------------------------------------------------------------
Start(t) == /\ ended = "no" /\ t \in NeededIn[phase] /\ state[t] = "waiting"
            /\ \A u \in Dependencies(t) : state[u] = "done"
            /\ state' = [state EXCEPT ![t] = "reading"]
            /\ UNCHANGED <<used, phase, ended, command, taken, file, faults>>

\* -k 0: what does not depend on a failure goes on.
Skip(t) == /\ ended = "no" /\ t \in NeededIn[phase] /\ state[t] = "waiting"
           /\ \E u \in Dependencies(t) : state[u] \in {"failed", "skipped"}
           /\ state' = [state EXCEPT ![t] = "skipped"]
           /\ UNCHANGED <<used, phase, ended, command, taken, file, faults>>

Inputs(t) == {file[f] : f \in Reads(t)}

Quality(contents) == IF contents \cap {"torn", "mixed"} # {} THEN "unsound"
                     ELSE IF "old" \in contents THEN "old" ELSE "new"

\* The inputs are there and are loaded, in pieces or not (transpiler ignores the status of
\* unmarshalling); the outputs are opened, which empties them. Two commands that write a
\* file from the same inputs write the same, and the file is whole once both are through;
\* from different inputs, it is a mixture.
Load(t) == /\ state[t] = "reading" /\ "absent" \notin Inputs(t)
           /\ taken' = [taken EXCEPT ![t] = Quality(Inputs(t))]
           /\ file' = [f \in Files |->
                          IF f \notin Writes(t) THEN file[f]
                          ELSE IF \E u \in WritersOf(f, t) :
                                     taken[u] # Quality(Inputs(t)) \/ file[f] = "mixed"
                               THEN "mixed" ELSE "torn"]
           /\ state' = [state EXCEPT ![t] = "writing"]
           /\ UNCHANGED <<used, phase, ended, command, faults>>

\* Mutant: one command too many.
Proceed_past(t) == IF command[t] <= Len(Commands[t[1]])
                   THEN /\ command' = [command EXCEPT ![t] = @ + 1]
                        /\ state' = [state EXCEPT ![t] = "reading"]
                   ELSE /\ state' = [state EXCEPT ![t] = "done"]
                        /\ UNCHANGED command

\* On to the next command, or to the end of the target.
Proceed(t) == IF command[t] < Len(Commands[t[1]])
              THEN /\ command' = [command EXCEPT ![t] = @ + 1]
                   /\ state' = [state EXCEPT ![t] = "reading"]
              ELSE /\ state' = [state EXCEPT ![t] = "done"]
                   /\ UNCHANGED command

\* What is made of inputs that are not whole is not a whole file either.
Complete(t) == /\ state[t] = "writing"
               /\ file' = [f \in Files |->
                              IF f \notin Writes(t) \/ file[f] # "torn" \/ WritersOf(f, t) # {}
                              THEN file[f]
                              ELSE IF taken[t] = "unsound" THEN "mixed" ELSE taken[t]]
               /\ Proceed(t)
               /\ UNCHANGED <<used, phase, ended, taken, faults>>

\* recursive_gen cannot open or decode an input and returns false, which is 0.
PassOver(t) == /\ state[t] = "reading" /\ Current(t) \in RecursiveGenCommands
               /\ Inputs(t) \cap {"absent", "torn", "mixed"} # {}
               /\ Proceed(t)
               /\ UNCHANGED <<used, phase, ended, taken, file, faults>>

\* An input is found to be in pieces, or is missing, which recursive_gen passes over.
Unusable(t) == \/ Inputs(t) \cap {"torn", "mixed"} # {}
               \/ "absent" \in Inputs(t) /\ Current(t) \notin RecursiveGenCommands

\* Mutant: a command that could not use its inputs is tried again.
Refuse_retry(t) ==
    /\ state[t] = "reading" /\ Unusable(t)
    /\ state' = [state EXCEPT ![t] = "waiting"]
    /\ UNCHANGED <<used, phase, ended, command, taken, file, faults>>

Refuse(t) == /\ state[t] = "reading" /\ Unusable(t)
             /\ state' = [state EXCEPT ![t] = "failed"]
             /\ UNCHANGED <<used, phase, ended, command, taken, file, faults>>

\* A command fails of itself, before its outputs are opened or in the middle of them.
Fail(t) == /\ Active(t) /\ faults < MaxFaults
           /\ state' = [state EXCEPT ![t] = "failed"]
           /\ faults' = faults + 1
           /\ file' = [f \in Files |->
                          IF state[t] = "writing" /\ f \in Writes(t) /\ WritersOf(f, t) # {}
                          THEN "mixed" ELSE file[f]]
           /\ UNCHANGED <<used, phase, ended, command, taken>>

Over == \A t \in NeededIn[phase] : Settled(t)

\* Mutant: the script goes on after a failed invocation.
NextInvocation_lenient ==
    /\ ended = "no" /\ Over
    /\ IF phase = Len(Script)
       THEN ended' = "finished" /\ UNCHANGED <<phase, state, command, file>>
       ELSE /\ phase' = phase + 1 /\ state' = AllWaiting /\ command' = FirstCommand
            /\ file' = [f \in Files |-> IF f \in Script[phase].moved THEN "absent" ELSE file[f]]
            /\ UNCHANGED ended
    /\ UNCHANGED <<used, taken, faults>>

\* set -e ends the script with the invocation that failed.
NextInvocation ==
    /\ ended = "no" /\ Over
    /\ \/ /\ \E t \in NeededIn[phase] : state[t] # "done"
          /\ ended' = "stopped" /\ UNCHANGED <<phase, state, command, file>>
       \/ /\ \A t \in NeededIn[phase] : state[t] = "done"
          /\ IF phase = Len(Script)
             THEN ended' = "finished" /\ UNCHANGED <<phase, state, command, file>>
             ELSE /\ phase' = phase + 1 /\ state' = AllWaiting /\ command' = FirstCommand
                  /\ file' = [f \in Files |->
                                IF f \in Script[phase].moved THEN "absent" ELSE file[f]]
                  /\ UNCHANGED ended
    /\ UNCHANGED <<used, taken, faults>>

Step(t) == Start(t) \/ Skip(t) \/ Load(t) \/ Complete(t) \/ PassOver(t) \/ Refuse(t)

Next == \/ \E t \in Targets : Step(t) \/ Fail(t)
        \/ NextInvocation
        \/ ended # "no" /\ UNCHANGED vars

\* ninja keeps starting what it can, and no command runs for ever.
Spec == /\ Init /\ [][Next]_vars
        /\ \A t \in Targets : WF_vars(Step(t))
        /\ WF_vars(NextInvocation)
-------------------------------------------------------------------------------
(***************************************************************************)
(* Properties.                                                             *)
(***************************************************************************)
\* While a target writes a file no other target uses that file: what the dependencies are
\* for. Two cases are left out, since the graph lets them happen: the two files that
\* recursive_gen writes from two places, and a table read by gen_recursive_verifier.
SettledInputs ==
    \A t, u \in Targets :
        t # u /\ state[t] = "writing" /\ Active(u) =>
            \A f \in Writes(t) \cap (Reads(u) \cup Writes(u)) :
                f[1] \in {"inp", "cpp"} \/ (f[1] = "table" /\ u[1] = "verifier")

\* A script that finishes has proofs of this build for every prover the program uses. The
\* others are made of numbered files that an earlier build left behind: nothing removes
\* them, and nothing tells them from this build's.
FinishedMeansProved ==
    ended = "finished" =>
        \A p \in Provers : IF p \in used THEN file[<<"proof", p>>] = "new"
                                         ELSE file[<<"proof", p>>] # "new"

\* The build ends: what a failure takes away is skipped and waited for by nobody.
BuildEnds == <>(ended # "no")

\* A build in which no tool fails of itself, of a program that uses all its provers, does
\* not fail: every target finds its inputs whole. The DEPENDS of the commands that compile
\* a recursive verifier says so. But gen_recursive_verifier reads a table that may still be
\* written, and it writes the source that another target compiles.
SoundBuildsPass == used = Provers /\ faults = 0 => ended # "stopped"
===============================================================================
