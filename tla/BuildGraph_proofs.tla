-------------------------- MODULE BuildGraph_proofs --------------------------
(***************************************************************************)
(* For any number of provers and any script that keeps _generate_both out  *)
(* of the invocations of _generate_crct and _generate_tbl: the             *)
(* dependencies keep readers and writers apart, and a finished build has   *)
(* proofs of its own.                                                      *)
(***************************************************************************)
EXTENDS BuildGraph, TLAPS

Names == Shared \cup Single

LEMMA TargetShape ==
  ASSUME NEW t \in Targets
  PROVE  /\ t = <<t[1], t[2]>> /\ t[1] \in Names
         /\ \/ t[1] \in Shared /\ t[2] = 0
            \/ t[1] \in Single /\ t[2] \in Provers
         /\ t[2] = 0 <=> t[1] \in Shared
  BY BuildAssumption DEF Targets, Names, Shared, Single

LEMMA FileShape ==
  ASSUME NEW f \in Files
  PROVE  /\ f = <<f[1], f[2]>>
         /\ \/ f[1] \in SharedFiles /\ f[2] = 0
            \/ f[1] \in SingleFiles /\ f[2] \in Provers
         /\ f[2] = 0 <=> f[1] \in SharedFiles
  BY BuildAssumption DEF Files, SharedFiles, SingleFiles

\* What the table of commands says, name by name.
CommandsOf(n) ==
    /\ Len(Commands[n]) \in Nat \ {0}
    /\ \A c \in 1 .. Len(Commands[n]) :
          LET reads == Commands[n][c].reads
              writes == Commands[n][c].writes
          IN  /\ "bitcode" \in writes => n = "ll"
              /\ "circuit" \in writes => n \in {"crct", "both"}
              /\ "table" \in writes => n \in {"tbl", "both"}
              /\ "column" \in writes => n = "column"
              /\ "public_input" \in writes => n = "copy"
              /\ "proof" \in writes => n = "prove"
              /\ "code" \in writes => n = "compile"
              /\ writes \cap {"linked", "outer"} # {} => n = "assign"
              /\ writes \cap {"inp", "cpp"} # {} => n \in {"json", "verifier", "compile"}
              /\ "bitcode" \in reads => "ll" \in DependsOn[n]
              /\ "circuit" \in reads => "crct" \in DependsOn[n]
              /\ "table" \in reads => "tbl" \in DependsOn[n] \/ n = "verifier"
              /\ "column" \in reads => "column" \in DependsOn[n]
              /\ "code" \in reads => "compile" \in DependsOn[n]
              /\ "linked" \in reads => n = "assign"
              /\ reads \cap {"public_input", "proof", "outer"} = {}

LEMMA CommandTable == ASSUME NEW n \in Names PROVE CommandsOf(n)
<1>1. CASE n = "ll"
  BY <1>1 DEF CommandsOf, Commands, DependsOn, Tool
<1>2. CASE n = "crct"
  BY <1>2 DEF CommandsOf, Commands, DependsOn, Tool
<1>3. CASE n = "tbl"
  BY <1>3 DEF CommandsOf, Commands, DependsOn, Tool
<1>4. CASE n = "both"
  BY <1>4 DEF CommandsOf, Commands, DependsOn, Tool
<1>5. CASE n = "column"
  BY <1>5 DEF CommandsOf, Commands, DependsOn, Tool
<1>6. CASE n = "copy"
  BY <1>6 DEF CommandsOf, Commands, DependsOn, Tool
<1>7. CASE n = "prove"
  BY <1>7 DEF CommandsOf, Commands, DependsOn, Tool
<1>8. CASE n = "json"
  BY <1>8 DEF CommandsOf, Commands, DependsOn, Tool, GenInput
<1>9. CASE n = "verifier"
  BY <1>9 DEF CommandsOf, Commands, DependsOn, Tool, GenVerifier
<1>10. CASE n = "compile"
  BY <1>10 DEF CommandsOf, Commands, DependsOn, Tool, GenInput, GenVerifier
<1>11. CASE n = "assign"
  BY <1>11 DEF CommandsOf, Commands, DependsOn, Tool
<1>12. QED  BY <1>1, <1>2, <1>3, <1>4, <1>5, <1>6, <1>7, <1>8, <1>9, <1>10, <1>11
            DEF Names, Shared, Single
-------------------------------------------------------------------------------
(***************************************************************************)
(* Types.                                                                  *)
(***************************************************************************)
LEMMA CommandCount ==
  ASSUME NEW t \in Targets
  PROVE  Len(Commands[t[1]]) \in Nat \ {0}
  BY TargetShape, CommandTable DEF CommandsOf

LEMMA QualityTyped == \A contents : Quality(contents) \in {"old", "new", "unsound"}
  BY DEF Quality

LEMMA ProceedTyped ==
  ASSUME TypeOK, NEW t \in Targets, Proceed(t)
  PROVE  /\ state' \in [Targets -> {"waiting", "reading", "writing",
                                    "done", "failed", "skipped"}]
         /\ command' \in [Targets -> Nat]
         /\ \A u \in Targets : command'[u] \in 1 .. Len(Commands[u[1]])
         /\ \A u \in Targets \ {t} : state'[u] = state[u] /\ command'[u] = command[u]
         /\ state'[t] \in {"reading", "done"}
<1>1. CASE command[t] < Len(Commands[t[1]])
  <2>1. command[t] \in Nat /\ Len(Commands[t[1]]) \in Nat /\ command[t] + 1 \in Nat
    BY CommandCount DEF TypeOK
  <2>2. command[t] + 1 \in 1 .. Len(Commands[t[1]])
    BY <1>1, <2>1
  <2>3. QED  BY <1>1, <2>1, <2>2 DEF Proceed, TypeOK
<1>2. CASE ~(command[t] < Len(Commands[t[1]]))
  BY <1>2 DEF Proceed, TypeOK
<1>3. QED  BY <1>1, <1>2

LEMMA InitTyped == Init => TypeOK
<1> SUFFICES ASSUME Init PROVE TypeOK
  OBVIOUS
<1>1. Len(Script) \in Nat \ {0}
  BY ScriptAssumption
<1>2. \A t \in Targets : 1 \in 1 .. Len(Commands[t[1]])
  BY CommandCount
<1>3. file \in [Files -> Contents]
  BY DEF Init, Contents
<1>4. QED  BY <1>1, <1>2, <1>3, BuildAssumption DEF Init, TypeOK, AllWaiting, FirstCommand

LEMMA NextTyped == TypeOK /\ [Next]_vars => TypeOK'
<1> SUFFICES ASSUME TypeOK, [Next]_vars PROVE TypeOK'
  OBVIOUS
<1>1. ASSUME NEW t \in Targets, Start(t) \/ Skip(t) \/ Refuse(t) PROVE TypeOK'
  BY <1>1 DEF TypeOK, Start, Skip, Refuse
<1>2. ASSUME NEW t \in Targets, Load(t) PROVE TypeOK'
  <2>1. file' \in [Files -> Contents]
    BY <1>2 DEF Load, TypeOK, Contents
  <2>2. taken' \in [Targets -> {"old", "new", "unsound"}]
    BY <1>2, QualityTyped DEF Load, TypeOK
  <2>3. QED  BY <1>2, <2>1, <2>2 DEF TypeOK, Load
<1>3. ASSUME NEW t \in Targets, Complete(t) PROVE TypeOK'
  <2>1. file' \in [Files -> Contents]
    <3>1. taken[t] # "unsound" => taken[t] \in Contents
      BY DEF TypeOK, Contents
    <3>2. QED  BY <1>3, <3>1 DEF Complete, TypeOK, Contents
  <2>2. QED  BY <1>3, <2>1, ProceedTyped DEF TypeOK, Complete
<1>4. ASSUME NEW t \in Targets, PassOver(t) PROVE TypeOK'
  BY <1>4, ProceedTyped DEF TypeOK, PassOver
<1>5. ASSUME NEW t \in Targets, Fail(t) PROVE TypeOK'
  <2>1. file' \in [Files -> Contents]
    BY <1>5 DEF Fail, TypeOK, Contents
  <2>2. faults' \in 0 .. MaxFaults
    BY <1>5, BuildAssumption DEF Fail, TypeOK
  <2>3. QED  BY <1>5, <2>1, <2>2 DEF TypeOK, Fail
<1>6. CASE NextInvocation
  <2>1. AllWaiting \in [Targets -> {"waiting", "reading", "writing",
                                    "done", "failed", "skipped"}]
    BY DEF AllWaiting
  <2>2. /\ FirstCommand \in [Targets -> Nat]
        /\ \A t \in Targets : FirstCommand[t] \in 1 .. Len(Commands[t[1]])
    BY CommandCount DEF FirstCommand
  <2>3. phase' \in 1 .. Len(Script)
    <3>1. Len(Script) \in Nat
      BY ScriptAssumption
    <3>2. QED  BY <1>6, <3>1 DEF NextInvocation, TypeOK
  <2>4. file' \in [Files -> Contents]
    BY <1>6 DEF NextInvocation, TypeOK, Contents
  <2>5. /\ state' = state \/ state' = AllWaiting
        /\ command' = command \/ command' = FirstCommand
        /\ ended' \in {"no", "finished", "stopped"}
        /\ UNCHANGED <<used, taken, faults>>
    BY <1>6 DEF NextInvocation, TypeOK
  <2>6. QED  BY <2>1, <2>2, <2>3, <2>4, <2>5 DEF TypeOK
<1>7. CASE UNCHANGED vars
  BY <1>7 DEF TypeOK, vars
<1>8. QED  BY <1>1, <1>2, <1>3, <1>4, <1>5, <1>6, <1>7 DEF Next, Step

\* The states and contents of the build graph stay what they are, and a target never runs
\* past its last command, for any number of provers and any script.
THEOREM TypeCorrect == Spec => []TypeOK
<1>1. QED  BY InitTyped, NextTyped, PTL DEF Spec
-------------------------------------------------------------------------------
(***************************************************************************)
(* Dependencies.                                                           *)
(***************************************************************************)
\* What has started is part of the invocation, and what it depends on is done.
DependencyInv ==
    \A t \in Targets :
        /\ state[t] # "waiting" => t \in NeededIn[phase]
        /\ Active(t) \/ state[t] = "done" =>
              \A u \in Dependencies(t) : state[u] = "done"

LEMMA DependenciesAreTargets == \A t \in Targets : Dependencies(t) \subseteq Targets
  BY DEF Dependencies

LEMMA InitDependency == Init => DependencyInv
  BY DEF Init, DependencyInv, AllWaiting, Active

LEMMA NextDependency == TypeOK /\ DependencyInv /\ [Next]_vars => DependencyInv'
<1> SUFFICES ASSUME TypeOK, DependencyInv, [Next]_vars PROVE DependencyInv'
  OBVIOUS
<1>1. ASSUME NEW t \in Targets, Start(t) PROVE DependencyInv'
  <2>1. /\ UNCHANGED phase /\ t \in NeededIn[phase] /\ state[t] = "waiting"
        /\ \A u \in Dependencies(t) : state[u] = "done"
        /\ state' = [state EXCEPT ![t] = "reading"]
    BY <1>1 DEF Start
  <2>2. QED  BY <2>1, DependenciesAreTargets DEF TypeOK, DependencyInv, Active
\* Any other step of a target takes it to an end, or along.
<1>2. ASSUME NEW t \in Targets, UNCHANGED phase, t \in NeededIn[phase], state[t] # "done",
             \A u \in Targets \ {t} : state'[u] = state[u],
             Active(t) \/ state'[t] \in {"failed", "skipped"}
      PROVE  DependencyInv'
  <2>1. \A u \in Targets, v \in Targets :
            v \in Dependencies(u) /\ state[v] = "done" => state'[v] = "done"
    BY <1>2
  <2>2. \A u \in Targets : Active(u)' \/ state'[u] = "done" =>
            \A v \in Dependencies(u) : state[v] = "done"
    BY <1>2 DEF DependencyInv, Active
  <2>3. QED  BY <1>2, <2>1, <2>2, DependenciesAreTargets DEF DependencyInv
<1>3. ASSUME NEW t \in Targets, Skip(t) PROVE DependencyInv'
  <2>1. /\ UNCHANGED phase /\ t \in NeededIn[phase] /\ state[t] = "waiting"
        /\ \A u \in Targets \ {t} : state'[u] = state[u]
    BY <1>3 DEF Skip, TypeOK
  <2>2. state'[t] = "skipped"
    BY <1>3 DEF Skip, TypeOK
  <2>3. QED  BY <1>2, <2>1, <2>2
<1>4. ASSUME NEW t \in Targets, Load(t) \/ Refuse(t) \/ Fail(t) PROVE DependencyInv'
  <2>1. /\ UNCHANGED phase /\ Active(t)
        /\ \A u \in Targets \ {t} : state'[u] = state[u]
    BY <1>4 DEF Load, Refuse, Fail, Active, TypeOK
  <2>2. t \in NeededIn[phase] /\ state[t] # "done"
    BY <2>1 DEF DependencyInv, Active
  <2>3. QED  BY <1>2, <2>1, <2>2
<1>5. ASSUME NEW t \in Targets, Complete(t) \/ PassOver(t) PROVE DependencyInv'
  <2>1. UNCHANGED phase /\ Active(t) /\ Proceed(t)
    BY <1>5 DEF Complete, PassOver, Active
  <2>2. \A u \in Targets \ {t} : state'[u] = state[u]
    BY <2>1, ProceedTyped
  <2>3. t \in NeededIn[phase] /\ state[t] # "done"
    BY <2>1 DEF DependencyInv, Active
  <2>4. QED  BY <1>2, <2>1, <2>2, <2>3
<1>6. CASE NextInvocation
  <2>1. \/ state' = state /\ phase' = phase
        \/ state' = AllWaiting
    BY <1>6 DEF NextInvocation
  <2>2. QED  BY <2>1 DEF DependencyInv, AllWaiting, Active
<1>7. CASE UNCHANGED vars
  BY <1>7 DEF vars, DependencyInv, Active
<1>8. QED  BY <1>1, <1>3, <1>4, <1>5, <1>6, <1>7 DEF Next, Step

THEOREM Dependable == Spec => [](TypeOK /\ DependencyInv)
<1>1. TypeOK /\ DependencyInv /\ [Next]_vars => (TypeOK /\ DependencyInv)'
  BY NextTyped, NextDependency
<1>2. QED  BY InitTyped, InitDependency, <1>1, PTL DEF Spec
-------------------------------------------------------------------------------
(***************************************************************************)
(* Readers and writers.                                                    *)
(***************************************************************************)
LEMMA SharedTargets ==
  ASSUME NEW t \in Targets, NEW n \in Shared, t[1] = n
  PROVE  t = <<n, 0>>
  BY TargetShape

\* A target with the name of a shared dependency of u is one of u's dependencies.
LEMMA SharedDependency ==
  ASSUME NEW t \in Targets, NEW u \in Targets, t[1] \in Shared, t[1] \in DependsOn[u[1]]
  PROVE  t \in Dependencies(u)
  BY TargetShape DEF Dependencies

LEMMA WritesFact ==
  ASSUME NEW t \in Targets, NEW f \in Writes(t)
  PROVE  /\ f \in Files /\ f[1] \in Current(t).writes
         /\ t[2] # 0 => f[2] \in {0, t[2]}
         /\ t[2] = 0 => f[2] \in {0} \cup used
  BY DEF Writes, Of

LEMMA ReadsFact ==
  ASSUME NEW t \in Targets, NEW f \in Reads(t)
  PROVE  f \in Files /\ f[1] \in Current(t).reads /\ f[2] \in {0, t[2]}
  BY DEF Reads, Of

\* The kinds of a command a target is at.
LEMMA CurrentKinds ==
  ASSUME TypeOK, NEW t \in Targets
  PROVE  LET reads == Current(t).reads
             writes == Current(t).writes
             n == t[1]
         IN  /\ "bitcode" \in writes => n = "ll"
             /\ "circuit" \in writes => n \in {"crct", "both"}
             /\ "table" \in writes => n \in {"tbl", "both"}
             /\ "column" \in writes => n = "column"
             /\ "public_input" \in writes => n = "copy"
             /\ "proof" \in writes => n = "prove"
             /\ "code" \in writes => n = "compile"
             /\ writes \cap {"linked", "outer"} # {} => n = "assign"
             /\ writes \cap {"inp", "cpp"} # {} => n \in {"json", "verifier", "compile"}
             /\ "bitcode" \in reads => "ll" \in DependsOn[n]
             /\ "circuit" \in reads => "crct" \in DependsOn[n]
             /\ "table" \in reads => "tbl" \in DependsOn[n] \/ n = "verifier"
             /\ "column" \in reads => "column" \in DependsOn[n]
             /\ "code" \in reads => "compile" \in DependsOn[n]
             /\ "linked" \in reads => n = "assign"
             /\ reads \cap {"public_input", "proof", "outer"} = {}
<1>1. command[t] \in 1 .. Len(Commands[t[1]]) /\ t[1] \in Names
  BY TargetShape DEF TypeOK
<1>2. CommandsOf(t[1])
  BY <1>1, CommandTable
<1>3. QED  BY <1>1, <1>2 DEF CommandsOf, Current

\* _generate_both does not run with _generate_crct or _generate_tbl, nor with what waits
\* for them.
LEMMA BothRunsAlone ==
  ASSUME TypeOK, DependencyInv, NEW t \in Targets, NEW u \in Targets,
         t[1] = "both", state[t] # "waiting", state[u] # "waiting"
  PROVE  /\ u[1] \notin {"crct", "tbl"}
         /\ Active(u) => DependsOn[u[1]] \cap {"crct", "tbl"} = {}
<1>1. "both" \in Shared /\ "crct" \in Shared /\ "tbl" \in Shared
  BY DEF Shared
<1>2. t = <<"both", 0>> /\ t \in NeededIn[phase] /\ phase \in 1 .. Len(Script)
  BY <1>1, SharedTargets DEF DependencyInv, TypeOK
<1>3. NeededIn[phase] \cap {<<"crct", 0>>, <<"tbl", 0>>} = {}
  BY <1>2, ScriptAssumption
<1>4. u \in NeededIn[phase]
  BY DEF DependencyInv, Active
<1>5. u[1] \notin {"crct", "tbl"}
  BY <1>1, <1>3, <1>4, SharedTargets
<1>6. ASSUME Active(u), NEW n \in {"crct", "tbl"} \cap DependsOn[u[1]] PROVE FALSE
  <2> DEFINE v == <<n, 0>>
  <2>1. v \in Targets /\ v[1] = n /\ n \in Shared
    BY <1>1 DEF Targets
  <2>2. v \in Dependencies(u)
    BY <2>1, SharedDependency
  <2>3. state[v] = "done"
    BY <1>6, <2>2 DEF DependencyInv
  <2>4. v \in NeededIn[phase]
    BY <2>1, <2>3 DEF DependencyInv
  <2>5. QED  BY <1>3, <2>4
<1>7. QED  BY <1>5, <1>6

\* A file has one writer, but for the two that recursive_gen writes from two places.
LEMMA OneWriter ==
  ASSUME TypeOK, DependencyInv, NEW t \in Targets, NEW u \in Targets, t # u,
         state[t] # "waiting", state[u] # "waiting", NEW f \in Writes(t) \cap Writes(u)
  PROVE  f[1] \in {"inp", "cpp"}
<1>1. SUFFICES ASSUME f[1] \notin {"inp", "cpp"} PROVE FALSE
  OBVIOUS
<1>2. f \in Files /\ f[1] \in Current(t).writes /\ f[1] \in Current(u).writes
  BY WritesFact
<1>3. f[1] \in {"bitcode", "column", "public_input", "circuit", "table", "proof",
                "code", "linked", "outer"}
  BY <1>1, <1>2, FileShape DEF SharedFiles, SingleFiles
<1>4. t[1] = u[1]
  <2>1. /\ t[1] = "both" => u[1] \notin {"crct", "tbl"}
        /\ u[1] = "both" => t[1] \notin {"crct", "tbl"}
    BY BothRunsAlone
  <2>2. CASE f[1] = "circuit"
    BY <1>2, <2>1, <2>2, CurrentKinds
  <2>3. CASE f[1] = "table"
    BY <1>2, <2>1, <2>3, CurrentKinds
  <2>4. CASE f[1] \notin {"circuit", "table"}
    BY <1>2, <1>3, <2>4, CurrentKinds
  <2>5. QED  BY <2>2, <2>3, <2>4
<1>5. CASE t[1] \in Shared
  BY <1>4, <1>5, SharedTargets
<1>6. CASE t[1] \in Single
  <2>1. t[2] \in Provers /\ u[2] \in Provers /\ t[2] # 0 /\ u[2] # 0
    BY <1>4, <1>6, TargetShape, BuildAssumption DEF Shared, Single
  <2>2. f[1] \in SingleFiles
    BY <1>2, <1>3, <1>4, <1>6, CurrentKinds DEF SingleFiles, Single
  <2>3. f[2] = t[2] /\ f[2] = u[2]
    BY <1>2, <2>1, <2>2, WritesFact, FileShape DEF SharedFiles, SingleFiles
  <2>4. QED  BY <1>4, <2>3, TargetShape
<1>7. QED  BY <1>5, <1>6, TargetShape DEF Names

\* A file that is read is written by nobody, but for a table read by the verifier.
LEMMA NoWriter ==
  ASSUME TypeOK, DependencyInv, NEW t \in Targets, NEW u \in Targets, t # u,
         Active(t), Active(u), NEW f \in Writes(t) \cap Reads(u)
  PROVE  f[1] \in {"inp", "cpp"} \/ (f[1] = "table" /\ u[1] = "verifier")
<1>1. SUFFICES ASSUME f[1] \notin {"inp", "cpp"}, ~(f[1] = "table" /\ u[1] = "verifier")
               PROVE  FALSE
  OBVIOUS
<1>2. f \in Files /\ f[1] \in Current(t).writes /\ f[1] \in Current(u).reads
  BY WritesFact, ReadsFact
<1>3. f[1] \in {"bitcode", "column", "public_input", "circuit", "table", "proof",
                "code", "linked", "outer"}
  BY <1>1, <1>2, FileShape DEF SharedFiles, SingleFiles
<1>4. t \notin Dependencies(u)
  BY DEF DependencyInv, Active
<1>5. CASE t[1] = "both"
  <2>1. DependsOn[u[1]] \cap {"crct", "tbl"} = {}
    BY <1>5, BothRunsAlone DEF Active
  <2>2. f[1] \in {"circuit", "table"}
    BY <1>2, <1>3, <1>5, CurrentKinds
  <2>3. QED  BY <1>1, <1>2, <2>1, <2>2, CurrentKinds
<1>6. CASE t[1] \in {"ll", "crct", "tbl", "column"}
  <2>1. t[1] \in DependsOn[u[1]]
    BY <1>1, <1>2, <1>3, <1>6, CurrentKinds
  <2>2. QED  BY <1>4, <1>6, <2>1, SharedDependency DEF Shared
<1>7. CASE t[1] \in {"compile", "assign"}
  <2>1. f[1] \in {"code", "linked"}
    BY <1>2, <1>3, <1>7, CurrentKinds
  <2>2. t[2] # 0 /\ t[2] \in Provers /\ f[2] \in Provers
    BY <1>2, <1>7, <2>1, TargetShape, FileShape, BuildAssumption
       DEF Shared, Single, SharedFiles, SingleFiles
  <2>3. f[2] = t[2] /\ f[2] = u[2] /\ f[2] # 0
    BY <2>2, WritesFact, ReadsFact, BuildAssumption
  <2>4. CASE f[1] = "code"
    <3>1. t[1] = "compile" /\ "compile" \in DependsOn[u[1]]
      BY <1>2, <2>4, CurrentKinds
    <3>2. QED  BY <1>4, <2>3, <3>1 DEF Dependencies
  <2>5. CASE f[1] = "linked"
    <3>1. t[1] = "assign" /\ u[1] = "assign"
      BY <1>2, <2>5, CurrentKinds
    <3>2. QED  BY <2>3, <3>1, TargetShape
  <2>6. QED  BY <2>1, <2>4, <2>5
<1>8. CASE t[1] \notin {"both", "ll", "crct", "tbl", "column", "compile", "assign"}
  BY <1>2, <1>3, <1>8, CurrentKinds
<1>9. QED  BY <1>5, <1>6, <1>7, <1>8

\* While a target of the build writes a file no other uses it, but for the two cases of
\* recursive_gen, for any number of provers and any script.
THEOREM InputsAreSettled == Spec => []SettledInputs
<1>1. TypeOK /\ DependencyInv => SettledInputs
  BY OneWriter, NoWriter DEF SettledInputs, Active
<1>2. QED  BY Dependable, <1>1, PTL
-------------------------------------------------------------------------------
(***************************************************************************)
(* What the files hold on the way from the sources to the proofs.          *)
(***************************************************************************)
KeyTargets == {<<"ll", 0>>, <<"crct", 0>>, <<"tbl", 0>>} \cup ({"prove"} \X used)

\* A target on that way is done only with outputs of this build; the outputs are its own
\* while it writes them.
KeyInv == \A t \in KeyTargets :
             /\ state[t] = "done" => \A f \in Writes(t) : file[f] = "new"
             /\ state[t] = "writing" =>
                   taken[t] = "new" /\ \A f \in Writes(t) : file[f] = "torn"

\* Nothing of this build goes into the files of a prover that is not used.
UnusedInv == \A p \in Provers \ used :
                /\ file[<<"circuit", p>>] # "new" /\ file[<<"proof", p>>] # "new"
                /\ state[<<"prove", p>>] = "writing" => taken[<<"prove", p>>] # "new"

\* Once the proving invocation is over the proofs are there, but while they are made again.
ProvedInv(n) == \A p \in used :
                   phase > n => \/ file[<<"proof", p>>] = "new"
                                \/ state[<<"prove", p>>] \in {"writing", "failed"}

EndInv == ended = "finished" => /\ phase = Len(Script)
                                /\ \A t \in NeededIn[phase] : state[t] = "done"

LEMMA KeyFacts ==
  ASSUME TypeOK
  PROVE  /\ KeyTargets \subseteq Targets
         /\ \A t \in KeyTargets : command[t] = 1 /\ Len(Commands[t[1]]) = 1
         /\ Writes(<<"ll", 0>>) = {<<"bitcode", 0>>}
         /\ Writes(<<"crct", 0>>) = {"circuit"} \X used
         /\ Writes(<<"tbl", 0>>) = {"table"} \X used
         /\ \A p \in Provers : /\ <<"prove", p>> \in Targets
                               /\ Writes(<<"prove", p>>) = {<<"proof", p>>}
                               /\ Reads(<<"prove", p>>) = {<<"circuit", p>>, <<"table", p>>}
         /\ Reads(<<"ll", 0>>) = {}
         /\ Reads(<<"crct", 0>>) = {<<"bitcode", 0>>} /\ Reads(<<"tbl", 0>>) = {<<"bitcode", 0>>}
         /\ used \subseteq Provers
<1>1. used \subseteq Provers /\ 0 \notin Provers
  BY BuildAssumption DEF TypeOK
<1>2. /\ \A n \in {"ll", "crct", "tbl"} : <<n, 0>> \in Targets /\ <<n, 0>>[1] = n
      /\ \A p \in Provers : <<"prove", p>> \in Targets /\ <<"prove", p>>[1] = "prove"
  BY DEF Targets, Shared, Single
<1>3. \A n \in {"ll", "crct", "tbl", "prove"} : Len(Commands[n]) = 1
  <2>1. Len(Commands["ll"]) = 1 /\ Len(Commands["crct"]) = 1
    BY DEF Commands
  <2>2. Len(Commands["tbl"]) = 1 /\ Len(Commands["prove"]) = 1
    BY DEF Commands
  <2>3. QED  BY <2>1, <2>2
<1>4. \A t \in Targets : t[1] \in {"ll", "crct", "tbl", "prove"} => command[t] = 1
  <2>1. SUFFICES ASSUME NEW t \in Targets, t[1] \in {"ll", "crct", "tbl", "prove"}
                 PROVE  command[t] = 1
    OBVIOUS
  <2>2. command[t] \in 1 .. Len(Commands[t[1]])
    BY DEF TypeOK
  <2>3. Len(Commands[t[1]]) = 1
    BY <1>3, <2>1
  <2>4. command[t] \in 1 .. 1
    BY <2>2, <2>3
  <2>5. QED  BY <2>4
<1>5. KeyTargets \subseteq Targets
  BY <1>1, <1>2 DEF KeyTargets
<1>6. \A t \in KeyTargets : t[1] \in {"ll", "crct", "tbl", "prove"}
  BY DEF KeyTargets
<1>7. \A t \in KeyTargets : command[t] = 1 /\ Len(Commands[t[1]]) = 1
  BY <1>3, <1>4, <1>5, <1>6
<1>8. /\ Current(<<"ll", 0>>) = Tool({}, {"bitcode"})
      /\ Current(<<"crct", 0>>) = Tool({"bitcode"}, {"circuit"})
      /\ Current(<<"tbl", 0>>) = Tool({"bitcode"}, {"table"})
      /\ \A p \in Provers : Current(<<"prove", p>>) = Tool({"circuit", "table"}, {"proof"})
  <2>1. /\ command[<<"ll", 0>>] = 1 /\ command[<<"crct", 0>>] = 1
        /\ command[<<"tbl", 0>>] = 1
        /\ \A p \in Provers : command[<<"prove", p>>] = 1
    BY <1>2, <1>4
  <2>2. QED  BY <2>1 DEF Current, Commands
<1>9. /\ \A f \in Files : f[1] = "bitcode" <=> f = <<"bitcode", 0>>
      /\ <<"bitcode", 0>> \in Files
      /\ \A p \in Provers : {<<"circuit", p>>, <<"table", p>>, <<"proof", p>>} \subseteq Files
  BY DEF Files, SharedFiles, SingleFiles
<1>10. \A f \in Files : f[1] \in {"circuit", "table", "proof"} =>
           f[2] \in Provers /\ f = <<f[1], f[2]>>
  BY FileShape DEF SharedFiles, SingleFiles
<1>11. Writes(<<"ll", 0>>) = {<<"bitcode", 0>>} /\ Reads(<<"ll", 0>>) = {}
  BY <1>8, <1>9 DEF Writes, Reads, Of, Tool
<1>12. Reads(<<"crct", 0>>) = {<<"bitcode", 0>>} /\ Reads(<<"tbl", 0>>) = {<<"bitcode", 0>>}
  BY <1>8, <1>9 DEF Reads, Of, Tool
<1>13. ASSUME NEW n \in {"crct", "tbl"}, NEW k \in {"circuit", "table"},
              Current(<<n, 0>>).writes = {k}
       PROVE  Writes(<<n, 0>>) = {k} \X used
  <2>1. Writes(<<n, 0>>) = {f \in Files : f[1] = k /\ f[2] \in {0} \cup used}
    BY <1>13 DEF Writes
  <2>2. \A f \in Files : f[1] = k => f[2] # 0 /\ f = <<k, f[2]>>
    BY <1>1, <1>10
  <2>3. \A p \in used : <<k, p>> \in Files
    BY <1>1, <1>9
  <2>4. QED  BY <2>1, <2>2, <2>3
<1>14. /\ Writes(<<"crct", 0>>) = {"circuit"} \X used
       /\ Writes(<<"tbl", 0>>) = {"table"} \X used
  <2>1. /\ Current(<<"crct", 0>>).writes = {"circuit"}
        /\ Current(<<"tbl", 0>>).writes = {"table"}
    BY <1>8 DEF Tool
  <2>2. QED  BY <1>13, <2>1
<1>15. ASSUME NEW p \in Provers
       PROVE  /\ Writes(<<"prove", p>>) = {<<"proof", p>>}
              /\ Reads(<<"prove", p>>) = {<<"circuit", p>>, <<"table", p>>}
  <2>1. p # 0 /\ Current(<<"prove", p>>) = Tool({"circuit", "table"}, {"proof"})
    BY <1>1, <1>8
  <2>2. \A f \in Files : f[1] \in {"circuit", "table", "proof"} => f[2] # 0
    BY <1>1, <1>10
  <2>3. /\ Current(<<"prove", p>>).writes = {"proof"}
        /\ Current(<<"prove", p>>).reads = {"circuit", "table"}
    BY <2>1 DEF Tool
  <2>4. /\ \A f : f \in Writes(<<"prove", p>>)
                   <=> f \in Files /\ f[1] = "proof" /\ (f[2] = p \/ f[2] = 0)
        /\ \A f : f \in Reads(<<"prove", p>>)
                   <=> f \in Files /\ f[1] \in {"circuit", "table"} /\ (f[2] = p \/ f[2] = 0)
    <3>1. \A kinds, f : f \in Of(<<"prove", p>>, kinds)
                        <=> f \in Files /\ f[1] \in kinds /\ (f[2] = p \/ f[2] = 0)
      BY DEF Of
    <3>2. <<"prove", p>>[2] # 0
      BY <2>1
    <3>3. /\ Writes(<<"prove", p>>) = Of(<<"prove", p>>, {"proof"})
          /\ Reads(<<"prove", p>>) = Of(<<"prove", p>>, {"circuit", "table"})
      BY <2>3, <3>2 DEF Writes, Reads
    <3>4. QED  BY <3>1, <3>3
  <2>5. Writes(<<"prove", p>>) = {<<"proof", p>>}
    <3>1. \A f \in Files : f[1] = "proof" => f = <<f[1], f[2]>>
      BY <1>10
    <3>2. QED  BY <1>9, <2>2, <2>4, <3>1
  <2>6. Reads(<<"prove", p>>) = {<<"circuit", p>>, <<"table", p>>}
    <3>1. ASSUME NEW f \in Reads(<<"prove", p>>)
          PROVE  f \in {<<"circuit", p>>, <<"table", p>>}
      <4>1. f \in Files /\ f[1] \in {"circuit", "table"} /\ (f[2] = p \/ f[2] = 0)
        BY <2>4
      <4>2. f = <<f[1], f[2]>> /\ f[2] # 0
        BY <1>10, <2>2, <4>1
      <4>3. QED  BY <4>1, <4>2
    <3>2. ASSUME NEW k \in {"circuit", "table"} PROVE <<k, p>> \in Reads(<<"prove", p>>)
      BY <1>9, <2>4
    <3>3. QED  BY <3>1, <3>2
  <2>7. QED  BY <2>5, <2>6
<1>16. QED  BY <1>1, <1>2, <1>5, <1>7, <1>11, <1>12, <1>13, <1>14, <1>15

\* No other target of the invocation has its hands on the outputs of these.
LEMMA KeyOutputs ==
  ASSUME TypeOK, DependencyInv, NEW t \in KeyTargets, NEW u \in Targets, t # u,
         state[t] # "waiting", state[u] # "waiting"
  PROVE  Writes(t) \cap Writes(u) = {}
<1>1. t \in Targets /\ \A f \in Writes(t) : f[1] \in {"bitcode", "circuit", "table", "proof"}
  BY KeyFacts DEF KeyTargets
<1>2. QED  BY <1>1, OneWriter

\* What they load is of this build.
LEMMA KeyInputs ==
  ASSUME TypeOK, DependencyInv, KeyInv, NEW t \in KeyTargets, Active(t)
  PROVE  Inputs(t) \subseteq {"new"}
<1>1. \A n \in {"ll", "crct", "tbl"} : <<n, 0>> \in KeyTargets /\ <<n, 0>> \in Targets
  BY KeyFacts DEF KeyTargets
<1>2. \A u \in Dependencies(t) : state[u] = "done"
  BY KeyFacts DEF DependencyInv
<1>3. CASE t = <<"ll", 0>>
  BY <1>3, KeyFacts DEF Inputs
<1>4. CASE t \in {<<"crct", 0>>, <<"tbl", 0>>}
  <2>1. <<"ll", 0>> \in Dependencies(t)
    BY <1>1, <1>4 DEF Dependencies, DependsOn
  <2>2. file[<<"bitcode", 0>>] = "new"
    BY <1>1, <1>2, <2>1, KeyFacts DEF KeyInv
  <2>3. Reads(t) = {<<"bitcode", 0>>}
    BY <1>4, KeyFacts
  <2>4. QED  BY <2>2, <2>3 DEF Inputs
<1>5. ASSUME NEW p \in used, t = <<"prove", p>> PROVE Inputs(t) \subseteq {"new"}
  <2>1. <<"crct", 0>> \in Dependencies(t) /\ <<"tbl", 0>> \in Dependencies(t)
    BY <1>1, <1>5 DEF Dependencies, DependsOn
  <2>2. file[<<"circuit", p>>] = "new" /\ file[<<"table", p>>] = "new"
    BY <1>1, <1>2, <2>1, KeyFacts DEF KeyInv
  <2>3. Reads(t) = {<<"circuit", p>>, <<"table", p>>}
    BY <1>5, KeyFacts
  <2>4. QED  BY <2>2, <2>3 DEF Inputs
<1>6. QED  BY <1>3, <1>4, <1>5 DEF KeyTargets

\* The outputs of these targets stay what they are while the program does.
LEMMA KeyWrites ==
  ASSUME TypeOK, TypeOK', used' = used
  PROVE  KeyTargets' = KeyTargets /\ \A k \in KeyTargets : Writes(k)' = Writes(k)
<1>1. KeyTargets' = KeyTargets
  BY DEF KeyTargets
<1>2. ASSUME NEW k \in KeyTargets PROVE Writes(k)' = Writes(k)
  <2>1. k \in Targets /\ command[k] = 1 /\ Len(Commands[k[1]]) = 1
    BY KeyFacts
  <2>2. command'[k] \in 1 .. 1
    BY <2>1 DEF TypeOK
  <2>3. command'[k] = command[k]
    BY <2>1, <2>2
  <2>4. QED  BY <2>3 DEF Writes, Of, Current
<1>3. QED  BY <1>1, <1>2

\* A step of t keeps KeyInv when it keeps t's part of it.
LEMMA KeyStep ==
  ASSUME TypeOK, TypeOK', DependencyInv, KeyInv, NEW t \in Targets, used' = used,
         \A u \in Targets \ {t} : state'[u] = state[u] /\ taken'[u] = taken[u],
         \A f \in Files : f \notin Writes(t) => file'[f] = file[f],
         state[t] # "waiting" \/ file' = file,
         t \in KeyTargets /\ state'[t] = "done" => \A f \in Writes(t) : file'[f] = "new",
         t \in KeyTargets /\ state'[t] = "writing" =>
             taken'[t] = "new" /\ \A f \in Writes(t) : file'[f] = "torn"
  PROVE  KeyInv'
<1>1. SUFFICES ASSUME NEW k \in KeyTargets
               PROVE  /\ state'[k] = "done" => \A f \in Writes(k) : file'[f] = "new"
                      /\ state'[k] = "writing" =>
                            taken'[k] = "new" /\ \A f \in Writes(k) : file'[f] = "torn"
  BY KeyWrites DEF KeyInv
<1>2. CASE k = t
  BY <1>2
<1>3. CASE k # t
  <2>1. k \in Targets /\ state'[k] = state[k] /\ taken'[k] = taken[k]
    BY <1>3, KeyFacts
  <2>2. CASE state[k] = "waiting"
    BY <2>1, <2>2
  <2>3. CASE state[k] # "waiting"
    <3>1. \A f \in Writes(k) : f \in Files /\ file'[f] = file[f]
      <4>1. \A f \in Writes(k) : f \in Files
        BY <2>1, WritesFact
      <4>2. CASE file' = file
        BY <4>1, <4>2
      <4>3. CASE state[t] # "waiting"
        <5>1. Writes(k) \cap Writes(t) = {}
          BY <1>3, <2>3, <4>3, KeyOutputs
        <5>2. QED  BY <4>1, <5>1
      <4>4. QED  BY <4>2, <4>3
    <3>2. /\ state[k] = "done" => \A f \in Writes(k) : file[f] = "new"
          /\ state[k] = "writing" =>
                taken[k] = "new" /\ \A f \in Writes(k) : file[f] = "torn"
      BY DEF KeyInv
    <3>3. QED  BY <2>1, <3>1, <3>2
  <2>4. QED  BY <2>2, <2>3
<1>4. QED  BY <1>2, <1>3

LEMMA NoOtherWriter ==
  ASSUME TypeOK, DependencyInv, NEW t \in KeyTargets, state[t] # "waiting", NEW f \in Writes(t)
  PROVE  WritersOf(f, t) = {}
<1>1. SUFFICES ASSUME NEW u \in WritersOf(f, t) PROVE FALSE
  OBVIOUS
<1>2. u \in Targets /\ u # t /\ state[u] = "writing" /\ f \in Writes(u)
  BY DEF WritersOf
<1>3. QED  BY <1>2, KeyOutputs

LEMMA NotPassedOver ==
  ASSUME TypeOK, NEW t \in KeyTargets PROVE Current(t) \notin RecursiveGenCommands
<1>1. t \in Targets /\ t[1] \in {"ll", "crct", "tbl", "prove"}
  BY KeyFacts DEF KeyTargets
<1>2. \A c \in RecursiveGenCommands : c.writes \cap {"inp", "cpp"} # {}
  BY DEF RecursiveGenCommands, GenInput, GenVerifier, Tool
<1>3. QED  BY <1>1, <1>2, CurrentKinds

LEMMA KeyStepKept ==
  ASSUME TypeOK, TypeOK', DependencyInv, KeyInv, NEW t \in Targets, Step(t) \/ Fail(t)
  PROVE  KeyInv'
<1>1. CASE Start(t) \/ Skip(t) \/ Refuse(t)
  <2>1. /\ UNCHANGED <<used, taken, file>>
        /\ \A u \in Targets \ {t} : state'[u] = state[u]
        /\ state'[t] \notin {"done", "writing"}
    BY <1>1 DEF Start, Skip, Refuse, TypeOK
  <2>2. QED  BY <2>1, KeyStep
<1>2. CASE Fail(t)
  <2>1. /\ UNCHANGED <<used, taken>> /\ state[t] # "waiting"
        /\ \A u \in Targets \ {t} : state'[u] = state[u]
        /\ state'[t] = "failed"
        /\ \A f \in Files : f \notin Writes(t) => file'[f] = file[f]
    BY <1>2 DEF Fail, TypeOK, Active
  <2>2. QED  BY <2>1, KeyStep
<1>3. CASE PassOver(t)
  <2>1. UNCHANGED <<used, taken, file>> /\ Proceed(t) /\ t \notin KeyTargets
    BY <1>3, NotPassedOver DEF PassOver
  <2>2. \A u \in Targets \ {t} : state'[u] = state[u]
    BY <2>1, ProceedTyped
  <2>3. QED  BY <2>1, <2>2, KeyStep
<1>4. CASE Load(t)
  <2>1. /\ UNCHANGED used /\ state[t] # "waiting" /\ Active(t)
        /\ \A u \in Targets \ {t} : state'[u] = state[u] /\ taken'[u] = taken[u]
        /\ state'[t] = "writing" /\ taken'[t] = Quality(Inputs(t))
        /\ \A f \in Files : f \notin Writes(t) => file'[f] = file[f]
        /\ \A f \in Files : f \in Writes(t) /\ WritersOf(f, t) = {} => file'[f] = "torn"
    BY <1>4 DEF Load, TypeOK, Active
  <2>2. ASSUME t \in KeyTargets
        PROVE  taken'[t] = "new" /\ \A f \in Writes(t) : file'[f] = "torn"
    <3>1. Inputs(t) \subseteq {"new"}
      BY <2>1, <2>2, KeyInputs
    <3>2. Quality(Inputs(t)) = "new"
      BY <3>1 DEF Quality
    <3>3. \A f \in Writes(t) : f \in Files /\ WritersOf(f, t) = {}
      BY <2>1, <2>2, NoOtherWriter, WritesFact
    <3>4. QED  BY <2>1, <3>2, <3>3
  <2>3. QED  BY <2>1, <2>2, KeyStep
<1>5. CASE Complete(t)
  <2>1. /\ UNCHANGED <<used, taken>> /\ state[t] = "writing" /\ Proceed(t)
        /\ \A f \in Files : f \notin Writes(t) => file'[f] = file[f]
        /\ \A f \in Files : /\ f \in Writes(t) /\ file[f] = "torn" /\ WritersOf(f, t) = {}
                            /\ taken[t] = "new"
                            => file'[f] = "new"
    BY <1>5 DEF Complete
  <2>2. /\ \A u \in Targets \ {t} : state'[u] = state[u]
        /\ state'[t] # "writing"
    BY <2>1, ProceedTyped
  <2>3. ASSUME t \in KeyTargets PROVE \A f \in Writes(t) : file'[f] = "new"
    <3>1. taken[t] = "new" /\ \A f \in Writes(t) : file[f] = "torn"
      BY <2>1, <2>3 DEF KeyInv
    <3>2. \A f \in Writes(t) : f \in Files /\ WritersOf(f, t) = {}
      BY <2>1, <2>3, NoOtherWriter, WritesFact
    <3>3. QED  BY <2>1, <3>1, <3>2
  <2>4. QED  BY <2>1, <2>2, <2>3, KeyStep
<1>6. QED  BY <1>1, <1>2, <1>3, <1>4, <1>5 DEF Step

\* The proof of a prover has one writer, and its circuit none when the program does not
\* use the prover.
LEMMA ProverWriters ==
  ASSUME TypeOK, NEW t \in Targets, NEW p \in Provers
  PROVE  /\ <<"proof", p>> \in Writes(t) => t = <<"prove", p>>
         /\ p \notin used => <<"circuit", p>> \notin Writes(t)
         /\ <<"proof", p>> \in Files /\ <<"circuit", p>> \in Files
<1>1. p # 0 /\ <<"proof", p>> \in Files /\ <<"circuit", p>> \in Files
  BY BuildAssumption DEF Files, SingleFiles
<1>2. ASSUME <<"proof", p>> \in Writes(t) PROVE t = <<"prove", p>>
  <2>1. t[1] = "prove"
    BY <1>2, WritesFact, CurrentKinds
  <2>2. t[2] # 0
    BY <2>1, TargetShape DEF Shared
  <2>3. t[2] = p
    BY <1>1, <1>2, <2>2, WritesFact
  <2>4. QED  BY <2>1, <2>3, TargetShape
<1>3. ASSUME <<"circuit", p>> \in Writes(t), p \notin used PROVE FALSE
  <2>1. t[1] \in {"crct", "both"}
    BY <1>3, WritesFact, CurrentKinds
  <2>2. t[2] = 0
    BY <2>1, TargetShape DEF Shared
  <2>3. QED  BY <1>1, <1>3, <2>2, WritesFact
<1>4. QED  BY <1>1, <1>2, <1>3

LEMMA UnusedStepKept ==
  ASSUME TypeOK, UnusedInv, NEW t \in Targets, Step(t) \/ Fail(t)
  PROVE  UnusedInv'
<1>1. SUFFICES ASSUME NEW p \in Provers, p \notin used, used' = used
               PROVE  /\ file'[<<"circuit", p>>] # "new" /\ file'[<<"proof", p>>] # "new"
                      /\ state'[<<"prove", p>>] = "writing" => taken'[<<"prove", p>>] # "new"
  BY DEF UnusedInv, Step, Start, Skip, Load, Complete, PassOver, Refuse, Fail
<1> DEFINE c == <<"circuit", p>>
           g == <<"proof", p>>
           me == <<"prove", p>>
<1>2. /\ g \in Writes(t) => t = me
      /\ c \notin Writes(t) /\ c \in Files /\ g \in Files
      /\ me \in Targets /\ Reads(me) = {c, <<"table", p>>}
  BY <1>1, ProverWriters, KeyFacts
<1>3. /\ file[c] # "new" /\ file[g] # "new"
      /\ state[me] = "writing" => taken[me] # "new"
  BY <1>1 DEF UnusedInv
<1>4. CASE Start(t) \/ Skip(t) \/ Refuse(t)
  BY <1>2, <1>3, <1>4 DEF Start, Skip, Refuse, TypeOK
<1>5. CASE PassOver(t)
  <2>1. UNCHANGED <<taken, file>> /\ Proceed(t)
    BY <1>5 DEF PassOver
  <2>2. state'[me] = "writing" => state[me] = "writing"
    BY <1>2, <2>1, ProceedTyped
  <2>3. QED  BY <1>3, <2>1, <2>2
<1>6. CASE Fail(t)
  <2>1. /\ UNCHANGED taken
        /\ \A f \in Files : file'[f] = file[f] \/ file'[f] = "mixed"
        /\ state'[me] = "writing" => state[me] = "writing"
    BY <1>2, <1>6 DEF Fail, TypeOK
  <2>2. QED  BY <1>2, <1>3, <2>1
<1>7. CASE Load(t)
  <2>1. \A f \in Files : file'[f] \in {file[f], "mixed", "torn"}
    BY <1>7 DEF Load
  <2>2. CASE t # me
    BY <1>2, <1>3, <1>7, <2>1, <2>2 DEF Load, TypeOK
  <2>3. CASE t = me
    <3>1. file[c] \in Inputs(t) /\ "absent" \notin Inputs(t)
      BY <1>2, <1>7, <2>3 DEF Inputs, Load
    <3>2. file[c] \in {"old", "torn", "mixed"}
      BY <1>2, <1>3, <3>1 DEF TypeOK, Contents
    <3>3. Quality(Inputs(t)) # "new"
      BY <3>1, <3>2 DEF Quality
    <3>4. taken'[t] = Quality(Inputs(t))
      BY <1>7 DEF Load, TypeOK
    <3>5. QED  BY <1>2, <1>3, <2>1, <2>3, <3>3, <3>4
  <2>4. QED  BY <2>2, <2>3
<1>8. CASE Complete(t)
  <2>1. /\ UNCHANGED taken /\ Proceed(t) /\ state[t] = "writing"
        /\ \A f \in Files : f \notin Writes(t) => file'[f] = file[f]
        /\ \A f \in Files : file'[f] \in {file[f], "mixed", taken[t]}
    BY <1>8 DEF Complete
  <2>2. state'[me] = "writing" => state[me] = "writing"
    BY <1>2, <2>1, ProceedTyped
  <2>3. file'[g] # "new"
    <3>1. CASE t = me
      BY <1>2, <1>3, <2>1, <3>1
    <3>2. CASE t # me
      BY <1>2, <1>3, <2>1, <3>2
    <3>3. QED  BY <3>1, <3>2
  <2>4. QED  BY <1>2, <1>3, <2>1, <2>2, <2>3
<1>9. QED  BY <1>4, <1>5, <1>6, <1>7, <1>8 DEF Step

LEMMA ProvedStepKept ==
  ASSUME TypeOK, TypeOK', KeyInv', NEW n \in Nat, ProvedInv(n),
         NEW t \in Targets, Step(t) \/ Fail(t)
  PROVE  ProvedInv(n)'
<1>1. UNCHANGED <<used, phase>>
  BY DEF Step, Start, Skip, Load, Complete, PassOver, Refuse, Fail
<1>2. SUFFICES ASSUME NEW p \in used, phase > n
               PROVE  \/ file'[<<"proof", p>>] = "new"
                      \/ state'[<<"prove", p>>] \in {"writing", "failed"}
  BY <1>1 DEF ProvedInv
<1> DEFINE g == <<"proof", p>>
           me == <<"prove", p>>
<1>3. /\ g \in Writes(t) => t = me
      /\ g \in Files /\ me \in Targets /\ me \in KeyTargets /\ Writes(me) = {g}
      /\ KeyTargets' = KeyTargets /\ Writes(me)' = {g}
  <2>1. p \in Provers /\ me \in KeyTargets
    BY KeyFacts DEF KeyTargets
  <2>2. QED  BY <1>1, <2>1, ProverWriters, KeyFacts, KeyWrites
<1>4. file[g] = "new" \/ state[me] \in {"writing", "failed"}
  BY <1>2 DEF ProvedInv
<1>5. state'[me] = "done" => file'[g] = "new"
  BY <1>3 DEF KeyInv
<1>6. CASE t # me
  <2>1. /\ \A f \in Files : f \notin Writes(t) => file'[f] = file[f]
        /\ state'[me] = state[me]
    <3>1. CASE PassOver(t) \/ Complete(t)
      BY <1>3, <1>6, <3>1, ProceedTyped DEF PassOver, Complete
    <3>2. CASE ~(PassOver(t) \/ Complete(t))
      BY <1>3, <1>6, <3>2 DEF Step, Start, Skip, Load, Refuse, Fail, TypeOK
    <3>3. QED  BY <3>1, <3>2
  <2>2. QED  BY <1>3, <1>4, <1>6, <2>1
<1>7. CASE t = me
  <2>1. CASE Start(t) \/ Skip(t)
    BY <1>4, <1>7, <2>1 DEF Start, Skip
  <2>2. CASE Refuse(t) \/ Fail(t) \/ Load(t)
    BY <1>3, <1>7, <2>2 DEF Refuse, Fail, Load, TypeOK
  <2>3. CASE PassOver(t)
    BY <1>3, <1>7, <2>3, NotPassedOver DEF PassOver
  <2>4. CASE Complete(t)
    <3>1. Proceed(t) /\ command[t] = 1 /\ Len(Commands[t[1]]) = 1
      BY <1>3, <1>7, <2>4, KeyFacts DEF Complete
    <3>2. state'[t] = "done"
      BY <1>3, <1>7, <3>1 DEF Proceed, TypeOK
    <3>3. QED  BY <1>5, <1>7, <3>2
  <2>5. QED  BY <2>1, <2>2, <2>3, <2>4 DEF Step
<1>8. QED  BY <1>6, <1>7

LEMMA EndStepKept ==
  ASSUME DependencyInv, EndInv, NEW t \in Targets, Step(t) \/ Fail(t)
  PROVE  EndInv'
<1>1. ended' = ended
  BY DEF Step, Start, Skip, Load, Complete, PassOver, Refuse, Fail
<1>2. CASE Start(t) \/ Skip(t)
  BY <1>1, <1>2 DEF Start, Skip, EndInv
<1>3. CASE ~(Start(t) \/ Skip(t))
  <2>1. state[t] \in {"reading", "writing"}
    BY <1>3 DEF Step, Load, Complete, PassOver, Refuse, Fail, Active
  <2>2. t \in NeededIn[phase] /\ state[t] # "done"
    BY <2>1 DEF DependencyInv
  <2>3. ended # "finished"
    BY <2>2 DEF EndInv
  <2>4. QED  BY <1>1, <2>3 DEF EndInv
<1>4. QED  BY <1>2, <1>3

ProofInv(n) == TypeOK /\ DependencyInv /\ KeyInv /\ UnusedInv /\ ProvedInv(n) /\ EndInv

\* n is an invocation that proves.
ProvesIn(n) == n \in 1 .. Len(Script) /\ {"prove"} \X Provers \subseteq NeededIn[n]

LEMMA InitProof == ASSUME NEW n, ProvesIn(n) PROVE Init => ProofInv(n)
<1> SUFFICES ASSUME Init PROVE ProofInv(n)
  OBVIOUS
<1>1. TypeOK /\ DependencyInv
  BY InitTyped, InitDependency
<1>2. KeyInv
  BY <1>1, KeyFacts DEF Init, KeyInv, AllWaiting
<1>3. UnusedInv
  <2>1. \A p \in Provers : /\ <<"circuit", p>> \in Files /\ <<"proof", p>> \in Files
                           /\ <<"prove", p>> \in Targets
    BY <1>1, ProverWriters, KeyFacts DEF Files, SingleFiles
  <2>2. \A f \in Files : file[f] # "new"
    BY DEF Init
  <2>3. QED  BY <2>1, <2>2 DEF Init, UnusedInv, AllWaiting
<1>4. ProvedInv(n)
  <2>1. n \in Nat /\ n >= 1 /\ phase = 1
    BY ScriptAssumption DEF ProvesIn, Init
  <2>2. QED  BY <2>1 DEF ProvedInv
<1>5. QED  BY <1>1, <1>2, <1>3, <1>4 DEF ProofInv, EndInv, Init

LEMMA NextInvocationProof ==
  ASSUME NEW n, ProvesIn(n), ProofInv(n), TypeOK', DependencyInv', NextInvocation
  PROVE  ProofInv(n)'
<1>1. /\ UNCHANGED <<used, taken>> /\ n \in Nat /\ phase \in Nat
      /\ TypeOK /\ DependencyInv /\ KeyInv /\ UnusedInv /\ ProvedInv(n)
      /\ KeyTargets \subseteq Targets
  BY KeyFacts, ScriptAssumption DEF NextInvocation, ProofInv, ProvesIn, TypeOK
<1>2. CASE UNCHANGED <<phase, state, file>>
  <2>1. KeyInv'
    BY <1>1, <1>2, KeyWrites DEF KeyInv
  <2>2. UnusedInv' /\ ProvedInv(n)'
    BY <1>1, <1>2 DEF UnusedInv, ProvedInv
  <2>3. EndInv'
    <3>1. \/ ended' = "stopped"
          \/ phase' = phase + 1
          \/ phase = Len(Script) /\ \A t \in NeededIn[phase] : state[t] = "done"
      BY DEF NextInvocation
    <3>2. QED  BY <1>1, <1>2, <3>1 DEF EndInv
  <2>4. QED  BY <1>1, <2>1, <2>2, <2>3 DEF ProofInv
<1>3. CASE ~UNCHANGED <<phase, state, file>>
  <2>1. /\ \A t \in NeededIn[phase] : state[t] = "done"
        /\ phase # Len(Script) /\ phase' = phase + 1 /\ state' = AllWaiting
        /\ file' = [f \in Files |-> IF f \in Script[phase].moved THEN "absent" ELSE file[f]]
        /\ UNCHANGED ended /\ ended = "no"
    BY <1>3 DEF NextInvocation
  <2>2. \A t \in Targets : state'[t] = "waiting"
    BY <2>1 DEF AllWaiting
  <2>3. KeyInv'
    BY <1>1, <2>2, KeyWrites DEF KeyInv
  <2>4. \A p \in Provers : /\ <<"proof", p>> \in Files /\ <<"circuit", p>> \in Files
                           /\ <<"prove", p>> \in Targets
    BY <1>1, KeyFacts DEF Files, SingleFiles
  <2>5. UnusedInv'
    BY <1>1, <2>1, <2>2, <2>4 DEF UnusedInv
  <2>6. ASSUME NEW p \in used, phase' > n PROVE file'[<<"proof", p>>] = "new"
    <3> DEFINE g == <<"proof", p>>
               me == <<"prove", p>>
    <3>1. p \in Provers /\ me \in KeyTargets /\ Writes(me) = {g} /\ g[1] = "proof"
      BY <1>1, KeyFacts DEF KeyTargets
    <3>2. state[me] = "done" => file[g] = "new"
      BY <1>1, <3>1 DEF KeyInv
    <3>3. me \in NeededIn[phase] \/ state[me] = "waiting"
      BY <1>1, <2>4, <3>1 DEF DependencyInv
    <3>4. file[g] = "new"
      <4>1. CASE phase = n
        <5>1. me \in NeededIn[phase]
          BY <3>1, <4>1 DEF ProvesIn
        <5>2. QED  BY <2>1, <3>2, <5>1
      <4>2. CASE phase # n
        <5>1. phase > n
          BY <1>1, <2>1, <2>6, <4>2
        <5>2. file[g] = "new" \/ state[me] \in {"writing", "failed"}
          BY <1>1, <5>1 DEF ProvedInv
        <5>3. QED  BY <2>1, <3>2, <3>3, <5>2
      <4>3. QED  BY <4>1, <4>2
    <3>5. g \notin Script[phase].moved
      BY <1>1, <3>1, ProvingAssumption DEF TypeOK
    <3>6. QED  BY <2>1, <2>4, <3>1, <3>4, <3>5
  <2>7. ProvedInv(n)'
    BY <1>1, <2>6 DEF ProvedInv
  <2>8. EndInv'
    BY <2>1 DEF EndInv
  <2>9. QED  BY <2>3, <2>5, <2>7, <2>8 DEF ProofInv
<1>4. QED  BY <1>2, <1>3

LEMMA NextProof ==
  ASSUME NEW n, ProvesIn(n) PROVE ProofInv(n) /\ [Next]_vars => ProofInv(n)'
<1> SUFFICES ASSUME ProofInv(n), [Next]_vars PROVE ProofInv(n)'
  OBVIOUS
<1>1. /\ TypeOK /\ DependencyInv /\ KeyInv /\ UnusedInv /\ ProvedInv(n) /\ EndInv
      /\ n \in Nat
  BY ScriptAssumption DEF ProofInv, ProvesIn
<1>2. TypeOK' /\ DependencyInv'
  BY <1>1, NextTyped, NextDependency
<1>3. ASSUME NEW t \in Targets, Step(t) \/ Fail(t) PROVE ProofInv(n)'
  <2>1. KeyInv'
    BY <1>1, <1>2, <1>3, KeyStepKept
  <2>2. UnusedInv' /\ ProvedInv(n)' /\ EndInv'
    BY <1>1, <1>2, <1>3, <2>1, UnusedStepKept, ProvedStepKept, EndStepKept
  <2>3. QED  BY <1>2, <2>1, <2>2 DEF ProofInv
<1>4. CASE NextInvocation
  BY <1>2, <1>4, NextInvocationProof
<1>5. CASE UNCHANGED vars
  <2>1. KeyInv' /\ UNCHANGED <<used, phase, ended, state, file, taken>>
    BY <1>1, <1>2, <1>5, KeyWrites DEF KeyInv, vars
  <2>2. QED  BY <1>1, <1>2, <2>1 DEF ProofInv, UnusedInv, ProvedInv, EndInv
<1>6. QED  BY <1>3, <1>4, <1>5 DEF Next

LEMMA ProofEnds == ASSUME NEW n, ProvesIn(n) PROVE ProofInv(n) => FinishedMeansProved
<1> SUFFICES ASSUME ProofInv(n), ended = "finished", NEW p \in Provers
             PROVE  IF p \in used THEN file[<<"proof", p>>] = "new"
                                  ELSE file[<<"proof", p>>] # "new"
  BY DEF FinishedMeansProved
<1>1. /\ TypeOK /\ DependencyInv /\ KeyInv /\ UnusedInv /\ ProvedInv(n)
      /\ n \in 1 .. Len(Script) /\ Len(Script) \in Nat
      /\ phase = Len(Script) /\ \A t \in NeededIn[phase] : state[t] = "done"
  BY ScriptAssumption DEF ProofInv, EndInv, ProvesIn
<1>2. CASE p \notin used
  BY <1>1, <1>2 DEF UnusedInv
<1>3. CASE p \in used
  <2> DEFINE me == <<"prove", p>>
  <2>1. me \in KeyTargets /\ me \in Targets /\ Writes(me) = {<<"proof", p>>}
    BY <1>1, <1>3, KeyFacts DEF KeyTargets
  <2>2. state[me] = "done" => file[<<"proof", p>>] = "new"
    BY <1>1, <2>1 DEF KeyInv
  <2>3. CASE phase = n
    <3>1. me \in NeededIn[phase]
      BY <2>3 DEF ProvesIn
    <3>2. QED  BY <1>1, <1>3, <2>2, <3>1
  <2>4. CASE phase # n
    <3>1. phase > n
      BY <1>1, <2>4
    <3>2. \/ file[<<"proof", p>>] = "new"
          \/ state[me] \in {"writing", "failed"}
      BY <1>1, <1>3, <3>1 DEF ProvedInv
    <3>3. state[me] \in {"writing", "failed"} => me \in NeededIn[phase]
      BY <1>1, <2>1 DEF DependencyInv
    <3>4. QED  BY <1>1, <1>3, <3>2, <3>3
  <2>5. QED  BY <2>3, <2>4
<1>4. QED  BY <1>2, <1>3

\* A script that finishes has proofs of its own build for exactly the provers the program
\* uses, for any number of provers and any script with an invocation that proves.
THEOREM FinishedIsProved == Spec => []FinishedMeansProved
<1>1. PICK n : ProvesIn(n)
  BY ProvingAssumption DEF ProvesIn
<1>2. Init => ProofInv(n)
  BY <1>1, InitProof
<1>3. ProofInv(n) /\ [Next]_vars => ProofInv(n)'
  BY <1>1, NextProof
<1>4. ProofInv(n) => FinishedMeansProved
  BY <1>1, ProofEnds
<1>5. QED  BY <1>2, <1>3, <1>4, PTL DEF Spec
-------------------------------------------------------------------------------
(***************************************************************************)
(* The build goes on. The dependencies of a target are of a lower level,   *)
(* so that in every invocation some target waits for none that is still    *)
(* to come.                                                                *)
(***************************************************************************)
Level(t) == [ll |-> 0, crct |-> 1, tbl |-> 1, both |-> 1, column |-> 1, copy |-> 2,
             prove |-> 2, json |-> 2, verifier |-> 2, compile |-> 2, assign |-> 3][t[1]]

LEMMA LevelTyped == \A t \in Targets : Level(t) \in 0 .. 3
  BY TargetShape DEF Level, Names, Shared, Single

LEMMA DependenciesAreLower ==
  ASSUME NEW t \in Targets, NEW u \in Dependencies(t)
  PROVE  u \in Targets /\ Level(u) < Level(t)
<1>1. u \in Targets /\ u[1] \in DependsOn[t[1]] /\ t[1] \in Names /\ u[1] \in Names
  BY TargetShape DEF Dependencies
<1>2. QED  BY <1>1 DEF DependsOn, Level, Names, Shared, Single

\* An invocation has all that its targets depend on: no chain of dependencies has more
\* than four members.
LEMMA NeededClosed ==
  ASSUME NEW S \in SUBSET Targets
  PROVE  /\ Needed(S) \subseteq Targets
         /\ \A t \in Needed(S) : Dependencies(t) \subseteq Needed(S)
<1> DEFINE One == WithDependencies(S)
           Two == WithDependencies(One)
           Three == WithDependencies(Two)
<1>1. ASSUME NEW Q \in SUBSET Targets
      PROVE  /\ Q \subseteq WithDependencies(Q) /\ WithDependencies(Q) \subseteq Targets
             /\ \A t \in Q : Dependencies(t) \subseteq WithDependencies(Q)
             /\ \A t \in WithDependencies(Q) : t \in Q \/ \E u \in Q : t \in Dependencies(u)
  BY DependenciesAreTargets DEF WithDependencies
<1>2. S \subseteq One /\ One \subseteq Two /\ Two \subseteq Three /\ Three \subseteq Targets
  BY <1>1
<1>3. ASSUME NEW t \in Three, NEW v \in Dependencies(t) PROVE v \in Three
  <2>1. CASE t \in Two
    BY <1>1, <1>2, <1>3, <2>1
  <2>2. CASE t \notin Two
    <3>1. PICK x \in Two : t \in Dependencies(x)
      BY <1>1, <1>2, <2>2
    <3>2. x \notin One
      BY <1>1, <1>2, <2>2, <3>1
    <3>3. PICK y \in One : x \in Dependencies(y)
      BY <1>1, <1>2, <3>2
    <3>4. y \notin S
      BY <1>1, <1>2, <3>2, <3>3
    <3>5. PICK z \in S : y \in Dependencies(z)
      BY <1>1, <1>2, <3>4
    <3>6. /\ Level(v) < Level(t) /\ Level(t) < Level(x) /\ Level(x) < Level(y)
          /\ Level(y) < Level(z)
          /\ v \in Targets /\ t \in Targets /\ x \in Targets /\ y \in Targets /\ z \in Targets
      BY <1>2, <1>3, <3>1, <3>3, <3>5, DependenciesAreLower
    <3>7. QED  BY <3>6, LevelTyped
  <2>3. QED  BY <2>1, <2>2
<1>4. QED  BY <1>2, <1>3 DEF Needed

LEMMA NeededTargets ==
  ASSUME TypeOK
  PROVE  /\ NeededIn[phase] \subseteq Targets
         /\ \A t \in NeededIn[phase] : Dependencies(t) \subseteq NeededIn[phase]
<1>1. phase \in 1 .. Len(Script) /\ Script[phase].goals \in SUBSET Targets
  <2> DEFINE Invocations == [goals : SUBSET Targets, moved : SUBSET Files]
  <2>1. Script \in Seq(Invocations) /\ phase \in 1 .. Len(Script)
    BY ScriptAssumption DEF TypeOK
  <2> HIDE DEF Invocations
  <2>2. Script[phase] \in Invocations
    BY <2>1
  <2>3. QED  BY <2>1, <2>2 DEF Invocations
<1>2. NeededIn[phase] = Needed(Script[phase].goals)
  BY <1>1 DEF NeededIn
<1>3. QED  BY <1>1, <1>2, NeededClosed

\* The guards of Start, Skip, Load, PassOver, Refuse and Complete.
CanStep(t) ==
    \/ /\ t \in NeededIn[phase] /\ state[t] = "waiting"
       /\ \/ \A u \in Dependencies(t) : state[u] = "done"
          \/ \E u \in Dependencies(t) : state[u] \in {"failed", "skipped"}
    \/ /\ state[t] = "reading"
       /\ \/ "absent" \notin Inputs(t)
          \/ /\ Current(t) \in RecursiveGenCommands
             /\ Inputs(t) \cap {"absent", "torn", "mixed"} # {}
          \/ Unusable(t)
    \/ state[t] = "writing"

NobodyWaitsForNothing == ended = "no" => Over \/ \E t \in Targets : CanStep(t)

\* In every state of a build that has not ended, some target can be started, skipped or
\* taken a step on, or the invocation is over: a dependency that failed leaves nothing
\* behind that waits for it.
THEOREM BuildGoesOn == Spec => []NobodyWaitsForNothing
<1>1. TypeOK /\ DependencyInv => NobodyWaitsForNothing
  <2> SUFFICES ASSUME TypeOK, DependencyInv, \A t \in Targets : ~CanStep(t)
               PROVE  Over
    BY DEF NobodyWaitsForNothing
  <2>1. ASSUME NEW t \in NeededIn[phase], \A u \in Dependencies(t) : Settled(u)
        PROVE  Settled(t)
    <3>1. t \in Targets /\ ~CanStep(t)
      BY NeededTargets
    <3>2. state[t] \in {"waiting", "reading", "writing", "done", "failed", "skipped"}
      BY <3>1 DEF TypeOK
    <3>3. state[t] \notin {"reading", "writing"}
      BY <3>1 DEF CanStep, Unusable
    <3>4. state[t] # "waiting"
      BY <2>1, <3>1 DEF CanStep, Settled
    <3>5. QED  BY <3>2, <3>3, <3>4 DEF Settled
  <2>2. \A t \in NeededIn[phase] : /\ t \in Targets /\ Level(t) \in 0 .. 3
                                   /\ \A u \in Dependencies(t) : /\ u \in NeededIn[phase]
                                                                 /\ Level(u) \in 0 .. 3
                                                                 /\ Level(u) < Level(t)
    BY NeededTargets, LevelTyped, DependenciesAreLower
  <2>3. \A t \in NeededIn[phase] : Level(t) = 0 => Settled(t)
    <3>1. \A t \in NeededIn[phase] : Level(t) = 0 => Dependencies(t) = {}
      BY <2>2
    <3>2. QED  BY <2>1, <3>1
  <2>4. \A t \in NeededIn[phase] : Level(t) = 1 => Settled(t)
    <3>1. \A t \in NeededIn[phase] : Level(t) = 1 =>
             \A u \in Dependencies(t) : u \in NeededIn[phase] /\ Level(u) = 0
      BY <2>2
    <3>2. QED  BY <2>1, <2>3, <3>1
  <2>5. \A t \in NeededIn[phase] : Level(t) = 2 => Settled(t)
    <3>1. \A t \in NeededIn[phase] : Level(t) = 2 =>
             \A u \in Dependencies(t) : u \in NeededIn[phase] /\ Level(u) \in {0, 1}
      BY <2>2
    <3>2. QED  BY <2>1, <2>3, <2>4, <3>1
  <2>6. \A t \in NeededIn[phase] : Level(t) = 3 => Settled(t)
    <3>1. \A t \in NeededIn[phase] : Level(t) = 3 =>
             \A u \in Dependencies(t) : u \in NeededIn[phase] /\ Level(u) \in {0, 1, 2}
      BY <2>2
    <3>2. QED  BY <2>1, <2>3, <2>4, <2>5, <3>1
  <2>7. \A t \in NeededIn[phase] : Level(t) \in {0, 1, 2, 3}
    BY <2>2
  <2>8. QED  BY <2>3, <2>4, <2>5, <2>6, <2>7 DEF Over
<1>2. QED  BY <1>1, Dependable, PTL
-------------------------------------------------------------------------------
(***************************************************************************)
(* Where the build is sound. The race of SoundBuildsPass is one of the     *)
(* recursion alone: of scripts in which no invocation generates a          *)
(* recursive verifier, nor the input of one next to the target that also   *)
(* makes it, every sound build passes.                                     *)
(***************************************************************************)
ApartIn(n) == \A p \in Provers :
    /\ <<"verifier", p>> \notin NeededIn[n]
    /\ ~({<<"json", p>>, <<"compile", p>>} \subseteq NeededIn[n])

KeptApart == \A n \in 1 .. Len(Script) : ApartIn(n)

\* What command c of a target writes; Writes(t) is the case of its current command.
Outs(t, c) == IF t[2] = 0
              THEN {f \in Files : f[1] \in Commands[t[1]][c].writes /\ f[2] \in {0} \cup used}
              ELSE Of(t, Commands[t[1]][c].writes)

\* The commands a target is through with.
Through(t) == IF state[t] = "done" THEN 1 .. Len(Commands[t[1]]) ELSE 1 .. command[t] - 1

\* Nothing has failed, and what a target is through with is whole and of this build.
WholeInv(t) ==
    /\ state[t] \notin {"failed", "skipped"}
    /\ state[t] = "waiting" => command[t] = 1
    /\ state[t] = "writing" => taken[t] = "new" /\ \A f \in Outs(t, command[t]) : file[f] = "torn"
    /\ \A c \in Through(t) : \A f \in Outs(t, c) : file[f] = "new"

SoundBuild == used = Provers /\ faults = 0

SoundInv == SoundBuild => ended # "stopped" /\ \A t \in Targets : WholeInv(t)

\* The recursion reads what an earlier command of its own made, and no two commands of a
\* target write the same.
OwnCommands(n) ==
    \A c \in 1 .. Len(Commands[n]) :
        /\ Commands[n][c].reads \cap {"inp", "linked"} # {} => n = "assign" /\ c = 2
        /\ "cpp" \in Commands[n][c].reads => n = "compile" /\ c = 3
        /\ \A d \in 1 .. Len(Commands[n]) :
              c # d => Commands[n][c].writes \cap Commands[n][d].writes = {}

LEMMA OwnCommandTable == ASSUME NEW n \in Names PROVE OwnCommands(n)
<1>1. CASE n = "ll"
  BY <1>1 DEF OwnCommands, Commands, Tool
<1>2. CASE n = "crct"
  BY <1>2 DEF OwnCommands, Commands, Tool
<1>3. CASE n = "tbl"
  BY <1>3 DEF OwnCommands, Commands, Tool
<1>4. CASE n = "both"
  BY <1>4 DEF OwnCommands, Commands, Tool
<1>5. CASE n = "column"
  BY <1>5 DEF OwnCommands, Commands, Tool
<1>6. CASE n = "copy"
  BY <1>6 DEF OwnCommands, Commands, Tool
<1>7. CASE n = "prove"
  BY <1>7 DEF OwnCommands, Commands, Tool
<1>8. CASE n = "json"
  BY <1>8 DEF OwnCommands, Commands, Tool, GenInput
<1>9. CASE n = "verifier"
  BY <1>9 DEF OwnCommands, Commands, Tool, GenVerifier
<1>10. CASE n = "compile"
  BY <1>10 DEF OwnCommands, Commands, Tool, GenInput, GenVerifier
<1>11. CASE n = "assign"
  BY <1>11 DEF OwnCommands, Commands, Tool
<1>12. QED  BY <1>1, <1>2, <1>3, <1>4, <1>5, <1>6, <1>7, <1>8, <1>9, <1>10, <1>11
            DEF Names, Shared, Single

LEMMA FirstOutputs ==
  /\ 1 \in 1 .. Len(Commands["ll"]) /\ "bitcode" \in Commands["ll"][1].writes
  /\ 1 \in 1 .. Len(Commands["crct"]) /\ "circuit" \in Commands["crct"][1].writes
  /\ 1 \in 1 .. Len(Commands["tbl"]) /\ "table" \in Commands["tbl"][1].writes
  /\ 1 \in 1 .. Len(Commands["column"]) /\ "column" \in Commands["column"][1].writes
  /\ {1, 2, 3} \subseteq 1 .. Len(Commands["compile"])
  /\ "inp" \in Commands["compile"][1].writes /\ "cpp" \in Commands["compile"][2].writes
  /\ "code" \in Commands["compile"][3].writes
  /\ "linked" \in Commands["assign"][1].writes
  BY DEF Commands, Tool, GenInput, GenVerifier

LEMMA OutsFact ==
  ASSUME NEW t \in Targets, NEW c \in 1 .. Len(Commands[t[1]]), NEW f \in Outs(t, c)
  PROVE  /\ f \in Files /\ f[1] \in Commands[t[1]][c].writes
         /\ t[2] # 0 => f[2] \in {0, t[2]}
         /\ t[2] = 0 => f[2] \in {0} \cup used
  BY DEF Outs, Of

LEMMA WritesAreOuts == \A t \in Targets : Writes(t) = Outs(t, command[t])
  BY DEF Writes, Outs, Current

\* The names of the targets that write a kind of file.
LEMMA OutsKinds ==
  ASSUME NEW t \in Targets, NEW c \in 1 .. Len(Commands[t[1]]), NEW f \in Outs(t, c)
  PROVE  LET n == t[1]
         IN  /\ f[1] = "bitcode" => n = "ll"
             /\ f[1] = "circuit" => n \in {"crct", "both"}
             /\ f[1] = "table" => n \in {"tbl", "both"}
             /\ f[1] = "column" => n = "column"
             /\ f[1] = "public_input" => n = "copy"
             /\ f[1] = "proof" => n = "prove"
             /\ f[1] = "code" => n = "compile"
             /\ f[1] \in {"linked", "outer"} => n = "assign"
             /\ f[1] \in {"inp", "cpp"} => n \in {"json", "verifier", "compile"}
<1>1. CommandsOf(t[1]) /\ f[1] \in Commands[t[1]][c].writes
  BY TargetShape, CommandTable, OutsFact
<1>2. QED  BY <1>1 DEF CommandsOf

\* A file is written by one target of an invocation, if the invocation is kept apart.
LEMMA SingleWriter ==
  ASSUME KeptApart, TypeOK, NEW t \in NeededIn[phase], NEW u \in NeededIn[phase], t # u,
         NEW c \in 1 .. Len(Commands[t[1]]), NEW d \in 1 .. Len(Commands[u[1]]),
         NEW f \in Outs(t, c), f \in Outs(u, d)
  PROVE  FALSE
<1>1. t \in Targets /\ u \in Targets /\ f \in Files /\ phase \in 1 .. Len(Script)
  BY NeededTargets, OutsFact DEF TypeOK
<1>2. ASSUME t[1] = u[1] PROVE FALSE
  <2>1. t[1] \in Single /\ t[2] # 0 /\ u[2] # 0 /\ t[2] # u[2]
    BY <1>1, <1>2, TargetShape DEF Shared, Single
  <2>2. f[2] = 0
    BY <1>1, <2>1, OutsFact
  <2>3. f[1] \in SharedFiles
    BY <1>1, <2>2, FileShape
  <2>4. t[1] \in {"ll", "column", "copy"}
    BY <1>1, <2>3, OutsKinds DEF SharedFiles
  <2>5. QED  BY <2>1, <2>4 DEF Single
<1>3. ASSUME t[1] = "both" \/ u[1] = "both" PROVE t[1] = u[1]
  <2>1. {t[1], u[1]} \subseteq {"both", "crct", "tbl"}
    <3>1. f[1] \in {"circuit", "table"}
      BY <1>1, <1>3, OutsKinds, FileShape DEF SharedFiles, SingleFiles
    <3>2. QED  BY <1>1, <3>1, OutsKinds
  <2>2. \A v \in {t, u} : v = <<v[1], 0>>
    BY <1>1, <2>1, TargetShape DEF Shared
  <2>3. <<"both", 0>> \in NeededIn[phase]
    BY <1>3, <2>2
  <2>4. NeededIn[phase] \cap {<<"crct", 0>>, <<"tbl", 0>>} = {}
    BY <1>1, <2>3, ScriptAssumption
  <2>5. QED  BY <2>1, <2>2, <2>4
<1>4. ASSUME f[1] \in {"inp", "cpp"} PROVE t[1] = u[1]
  <2>1. /\ t[1] \in {"json", "verifier", "compile"} /\ u[1] \in {"json", "verifier", "compile"}
    BY <1>1, <1>4, OutsKinds
  <2>2. /\ t[2] # 0 /\ u[2] # 0 /\ f[2] # 0
        /\ t[2] \in Provers /\ u[2] \in Provers
        /\ t = <<t[1], t[2]>> /\ u = <<u[1], u[2]>>
    BY <1>1, <1>4, <2>1, TargetShape, FileShape DEF Shared, SharedFiles
  <2>3. t[2] = u[2]
    BY <1>1, <2>2, OutsFact
  <2>4. ApartIn(phase)
    BY <1>1 DEF KeptApart
  <2>5. t[1] # "verifier" /\ u[1] # "verifier"
    BY <2>2, <2>4 DEF ApartIn
  <2>6. ~({<<"json", t[2]>>, <<"compile", t[2]>>} \subseteq NeededIn[phase])
    BY <2>2, <2>4 DEF ApartIn
  <2>7. QED  BY <2>1, <2>2, <2>3, <2>5, <2>6
<1>5. t[1] # "both" /\ u[1] # "both" /\ f[1] \notin {"inp", "cpp"} => t[1] = u[1]
  BY <1>1, OutsKinds, FileShape DEF SharedFiles, SingleFiles
<1>6. QED  BY <1>2, <1>3, <1>4, <1>5

\* What a target is through with is what its dependents find.
LEMMA ThroughOutputs ==
  ASSUME TypeOK, used = Provers, NEW v \in Targets, WholeInv(v), NEW c \in Through(v),
         NEW f \in Files, f[1] \in Commands[v[1]][c].writes, f[2] = 0 \/ v[2] \in {0, f[2]}
  PROVE  file[f] = "new"
<1>1. f[2] \in {0} \cup Provers
  BY FileShape
<1>2. f \in Outs(v, c)
  BY <1>1 DEF Outs, Of
<1>3. QED  BY <1>2 DEF WholeInv

\* In a sound build a command finds whole files of this build.
LEMMA WholeInputs ==
  ASSUME KeptApart, TypeOK, DependencyInv, used = Provers, \A u \in Targets : WholeInv(u),
         NEW t \in Targets, state[t] = "reading"
  PROVE  Inputs(t) \subseteq {"new"}
<1>1. SUFFICES ASSUME NEW f \in Reads(t) PROVE file[f] = "new"
  BY DEF Inputs
<1>2. /\ f \in Files /\ f[1] \in Current(t).reads /\ f[2] \in {0, t[2]}
      /\ command[t] \in 1 .. Len(Commands[t[1]]) /\ phase \in 1 .. Len(Script)
      /\ t \in NeededIn[phase] /\ t[1] \in Names
  BY ReadsFact, TargetShape DEF TypeOK, DependencyInv
<1>3. t[1] # "verifier"
  <2>1. ASSUME t[1] = "verifier" PROVE FALSE
    <3>1. t[2] \in Provers /\ t = <<"verifier", t[2]>>
      BY <2>1, TargetShape DEF Shared, Single
    <3>2. QED  BY <1>2, <3>1 DEF KeptApart, ApartIn
  <2>2. QED  BY <2>1
\* A shared dependency is through with its one command.
<1>4. ASSUME NEW n \in Shared, n \in DependsOn[t[1]], 1 \in 1 .. Len(Commands[n]),
             f[1] \in Commands[n][1].writes
      PROVE  file[f] = "new"
  <2> DEFINE v == <<n, 0>>
  <2>1. v \in Targets /\ v[1] = n /\ v[2] = 0
    BY DEF Targets
  <2>2. state[v] = "done"
    BY <1>4, <2>1, SharedDependency DEF DependencyInv, Active
  <2>3. 1 \in Through(v)
    BY <1>4, <2>1, <2>2 DEF Through
  <2>4. QED  BY <1>2, <1>4, <2>1, <2>3, ThroughOutputs
\* So is _compile, for the target of the same prover.
<1>5. ASSUME t[1] = "assign",
             NEW c \in 1 .. Len(Commands["compile"]), f[1] \in Commands["compile"][c].writes
      PROVE  file[f] = "new"
  <2> DEFINE v == <<"compile", t[2]>>
  <2>1. t[2] \in Provers /\ v \in Targets /\ v[1] = "compile" /\ v[2] = t[2]
    BY <1>5, TargetShape DEF Targets, Shared, Single
  <2>2. v \in Dependencies(t)
    BY <1>5, <2>1 DEF Dependencies, DependsOn
  <2>3. state[v] = "done"
    BY <2>2 DEF DependencyInv, Active
  <2>4. c \in Through(v)
    BY <2>1, <2>3 DEF Through
  <2>5. QED  BY <1>2, <1>5, <2>1, <2>4, ThroughOutputs
\* And a target finds what its own earlier commands wrote.
<1>6. ASSUME NEW c \in 1 .. Len(Commands[t[1]]), c < command[t],
             f[1] \in Commands[t[1]][c].writes
      PROVE  file[f] = "new"
  <2>1. c \in Through(t)
    BY <1>2, <1>6 DEF Through
  <2>2. QED  BY <1>2, <1>6, <2>1, ThroughOutputs
<1>7. /\ OwnCommands(t[1]) /\ Current(t) = Commands[t[1]][command[t]]
      /\ {"ll", "crct", "tbl", "column"} \subseteq Shared
  BY <1>2, OwnCommandTable DEF Current, Shared
<1>8. CASE f[1] = "bitcode"
  BY <1>2, <1>4, <1>7, <1>8, CurrentKinds, FirstOutputs
<1>9. CASE f[1] = "circuit"
  BY <1>2, <1>4, <1>7, <1>9, CurrentKinds, FirstOutputs
<1>10. CASE f[1] = "table"
  BY <1>2, <1>3, <1>4, <1>7, <1>10, CurrentKinds, FirstOutputs
<1>11. CASE f[1] = "column"
  BY <1>2, <1>4, <1>7, <1>11, CurrentKinds, FirstOutputs
<1>12. CASE f[1] = "code"
  <2>1. "compile" \in DependsOn[t[1]]
    BY <1>2, <1>12, CurrentKinds
  <2>2. t[1] = "assign"
    BY <1>2, <2>1 DEF DependsOn, Names, Shared, Single
  <2>3. QED  BY <1>5, <1>12, <2>2, FirstOutputs
<1>13. CASE f[1] = "inp"
  <2>1. t[1] = "assign"
    BY <1>2, <1>7, <1>13 DEF OwnCommands
  <2>2. QED  BY <1>5, <1>13, <2>1, FirstOutputs
<1>14. CASE f[1] = "linked"
  <2>1. t[1] = "assign" /\ command[t] = 2
    BY <1>2, <1>7, <1>14 DEF OwnCommands
  <2>2. 1 \in 1 .. Len(Commands["assign"])
    BY DEF Commands
  <2>3. QED  BY <1>6, <1>14, <2>1, <2>2, FirstOutputs
<1>15. CASE f[1] = "cpp"
  <2>1. t[1] = "compile" /\ command[t] = 3
    BY <1>2, <1>7, <1>15 DEF OwnCommands
  <2>2. QED  BY <1>6, <1>15, <2>1, FirstOutputs
<1>16. f[1] \notin {"public_input", "proof", "outer"}
  BY <1>2, CurrentKinds
<1>17. QED
  BY <1>2, <1>8, <1>9, <1>10, <1>11, <1>12, <1>13, <1>14, <1>15, <1>16, FileShape
     DEF SharedFiles, SingleFiles

\* A step of a target leaves the others as whole as they were.
LEMMA OthersStayWhole ==
  ASSUME KeptApart, TypeOK, DependencyInv, \A u \in Targets : WholeInv(u), UNCHANGED used,
         NEW t \in NeededIn[phase], NEW u \in Targets \ {t},
         state'[u] = state[u], command'[u] = command[u], taken'[u] = taken[u],
         \A f \in Files : f \notin Writes(t) => file'[f] = file[f]
  PROVE  WholeInv(u)'
<1>1. Outs(u, command[u])' = Outs(u, command[u]) /\ Through(u)' = Through(u)
      /\ \A c : Outs(u, c)' = Outs(u, c)
  BY DEF Outs, Of, Through
<1>2. /\ command[u] \in 1 .. Len(Commands[u[1]]) /\ Len(Commands[u[1]]) \in Nat
      /\ t \in Targets /\ command[t] \in 1 .. Len(Commands[t[1]])
  BY NeededTargets, CommandCount DEF TypeOK
<1>3. Through(u) \subseteq 1 .. Len(Commands[u[1]])
  BY <1>2 DEF Through
<1>4. state[u] = "waiting" => Through(u) = {}
  BY DEF Through, WholeInv
<1>5. ASSUME state[u] # "waiting", NEW c \in 1 .. Len(Commands[u[1]]), NEW f \in Outs(u, c)
      PROVE  file'[f] = file[f]
  <2>1. u \in NeededIn[phase] /\ f \in Files
    BY <1>5, OutsFact DEF DependencyInv
  <2>2. f \notin Outs(t, command[t])
    BY <1>2, <1>5, <2>1, SingleWriter
  <2>3. QED  BY <1>2, <2>1, <2>2, WritesAreOuts
<1>6. WholeInv(u)
  OBVIOUS
<1>7. /\ state'[u] \notin {"failed", "skipped"}
      /\ state'[u] = "waiting" => command'[u] = 1
      /\ state'[u] = "writing" => taken'[u] = "new"
  BY <1>6 DEF WholeInv
<1>8. ASSUME state'[u] = "writing", NEW f \in Outs(u, command[u]) PROVE file'[f] = "torn"
  BY <1>2, <1>5, <1>6, <1>8 DEF WholeInv
<1>9. ASSUME NEW c \in Through(u), NEW f \in Outs(u, c) PROVE file'[f] = "new"
  BY <1>3, <1>4, <1>5, <1>6, <1>9 DEF WholeInv
<1>10. QED  BY <1>1, <1>7, <1>8, <1>9 DEF WholeInv

LEMMA SoundStepKept ==
  ASSUME KeptApart, TypeOK, TypeOK', DependencyInv, SoundInv, NEW t \in Targets,
         Step(t) \/ Fail(t)
  PROVE  SoundInv'
<1> SUFFICES ASSUME SoundBuild' PROVE ended' # "stopped" /\ \A u \in Targets : WholeInv(u)'
  BY DEF SoundInv
<1>1. ~Fail(t)
  <2>1. faults \in Nat
    BY BuildAssumption DEF TypeOK
  <2>2. QED  BY <2>1 DEF Fail, SoundBuild
<1>2. UNCHANGED <<used, phase, ended, faults>>
  BY <1>1 DEF Step, Start, Skip, Load, Complete, PassOver, Refuse
<1>3. used = Provers /\ ended # "stopped" /\ \A u \in Targets : WholeInv(u)
  BY <1>2 DEF SoundInv, SoundBuild
<1>4. /\ command[t] \in 1 .. Len(Commands[t[1]]) /\ Len(Commands[t[1]]) \in Nat
      /\ WholeInv(t) /\ Writes(t) = Outs(t, command[t]) /\ \A c : Outs(t, c)' = Outs(t, c)
  BY <1>2, <1>3, CommandCount, WritesAreOuts DEF TypeOK, Outs, Of
<1>5. t \in NeededIn[phase]
  BY <1>1 DEF DependencyInv, Step, Start, Skip, Load, Complete, PassOver, Refuse
<1>6. ~Skip(t)
  <2>1. ASSUME Skip(t) PROVE FALSE
    <3>1. PICK u \in Dependencies(t) : state[u] \in {"failed", "skipped"}
      BY <2>1 DEF Skip
    <3>2. u \in Targets
      BY DEF Dependencies
    <3>3. QED  BY <1>3, <3>1, <3>2 DEF WholeInv
  <2>2. QED  BY <2>1
<1>7. state[t] = "reading" => Inputs(t) \subseteq {"new"}
  BY <1>3, WholeInputs
<1>8. ~PassOver(t) /\ ~Refuse(t)
  BY <1>7 DEF PassOver, Refuse, Unusable
<1>9. CASE Start(t)
  <2>1. /\ \A u \in Targets \ {t} : /\ state'[u] = state[u] /\ command'[u] = command[u]
                                    /\ taken'[u] = taken[u]
        /\ \A f \in Files : f \notin Writes(t) => file'[f] = file[f]
        /\ state'[t] = "reading" /\ command'[t] = command[t] /\ state[t] = "waiting"
    BY <1>9 DEF Start, TypeOK
  <2>2. \A u \in Targets \ {t} : WholeInv(u)'
    BY <1>2, <1>3, <1>5, <2>1, OthersStayWhole
  <2>3. command'[t] = 1
    BY <1>4, <2>1 DEF WholeInv
  <2>4. Through(t)' = {}
    BY <2>1, <2>3 DEF Through
  <2>5. WholeInv(t)'
    BY <2>1, <2>4 DEF WholeInv
  <2>6. QED  BY <1>2, <1>3, <2>2, <2>5
<1>10. CASE Load(t)
  <2>1. /\ \A u \in Targets \ {t} : /\ state'[u] = state[u] /\ command'[u] = command[u]
                                    /\ taken'[u] = taken[u]
        /\ \A f \in Files : f \notin Writes(t) => file'[f] = file[f]
        /\ \A f \in Files : f \in Writes(t) /\ WritersOf(f, t) = {} => file'[f] = "torn"
        /\ state'[t] = "writing" /\ command'[t] = command[t] /\ state[t] = "reading"
        /\ taken'[t] = Quality(Inputs(t))
    BY <1>10 DEF Load, TypeOK
  <2>2. \A u \in Targets \ {t} : WholeInv(u)'
    BY <1>2, <1>3, <1>5, <2>1, OthersStayWhole
  <2>3. taken'[t] = "new"
    BY <1>7, <2>1 DEF Quality
  <2>4. ASSUME NEW f \in Outs(t, command[t]) PROVE file'[f] = "torn"
    <3>1. f \in Files /\ f \in Writes(t)
      BY <1>4, <2>4, OutsFact
    <3>2. ASSUME NEW u \in WritersOf(f, t) PROVE FALSE
      <4>1. u \in Targets /\ u # t /\ f \in Writes(u) /\ state[u] = "writing"
        BY <3>2 DEF WritersOf
      <4>2. /\ u \in NeededIn[phase] /\ command[u] \in 1 .. Len(Commands[u[1]])
            /\ f \in Outs(u, command[u])
        BY <4>1, WritesAreOuts DEF DependencyInv, TypeOK
      <4>3. QED  BY <1>4, <1>5, <2>4, <4>1, <4>2, SingleWriter
    <3>3. QED  BY <2>1, <3>1, <3>2
  <2>5. Through(t)' = 1 .. command[t] - 1 /\ Through(t) = 1 .. command[t] - 1
    BY <2>1 DEF Through
  <2>6. ASSUME NEW c \in 1 .. command[t] - 1, NEW f \in Outs(t, c) PROVE file'[f] = "new"
    <3>1. c \in 1 .. Len(Commands[t[1]]) /\ c # command[t]
      BY <1>4, <2>6
    <3>2. f \in Files /\ f[1] \in Commands[t[1]][c].writes
      BY <2>6, <3>1, OutsFact
    <3>3. f \notin Outs(t, command[t])
      <4>1. OwnCommands(t[1])
        BY TargetShape, OwnCommandTable
      <4>2. QED  BY <1>4, <3>1, <3>2, <4>1, OutsFact DEF OwnCommands
    <3>4. file[f] = "new"
      BY <1>4, <2>5, <2>6 DEF WholeInv
    <3>5. QED  BY <1>4, <2>1, <3>2, <3>3, <3>4
  <2>7. WholeInv(t)'
    BY <1>4, <2>1, <2>3, <2>4, <2>5, <2>6 DEF WholeInv
  <2>8. QED  BY <1>2, <1>3, <2>2, <2>7
<1>11. CASE Complete(t)
  <2>1. /\ state[t] = "writing" /\ Proceed(t) /\ UNCHANGED taken
        /\ \A f \in Files : f \notin Writes(t) \/ file[f] # "torn" => file'[f] = file[f]
        /\ \A f \in Files : /\ f \in Writes(t) /\ file[f] = "torn" /\ WritersOf(f, t) = {}
                            /\ taken[t] = "new"
                            => file'[f] = "new"
    BY <1>11 DEF Complete
  <2>2. /\ \A u \in Targets \ {t} : state'[u] = state[u] /\ command'[u] = command[u]
        /\ \/ /\ command[t] < Len(Commands[t[1]])
              /\ state'[t] = "reading" /\ command'[t] = command[t] + 1
           \/ /\ ~(command[t] < Len(Commands[t[1]]))
              /\ state'[t] = "done" /\ command'[t] = command[t]
    BY <2>1, ProceedTyped DEF Proceed, TypeOK
  <2>3. \A u \in Targets \ {t} : WholeInv(u)'
    BY <1>2, <1>3, <1>5, <2>1, <2>2, OthersStayWhole
  <2>4. Through(t)' = 1 .. command[t] /\ Through(t) = 1 .. command[t] - 1
    BY <1>4, <2>1, <2>2 DEF Through
  <2>5. ASSUME NEW f \in Outs(t, command[t]) PROVE file'[f] = "new"
    <3>1. f \in Files /\ f \in Writes(t) /\ file[f] = "torn" /\ taken[t] = "new"
      BY <1>4, <2>1, <2>5, OutsFact DEF WholeInv
    <3>2. ASSUME NEW u \in WritersOf(f, t) PROVE FALSE
      <4>1. u \in Targets /\ u # t /\ f \in Writes(u) /\ state[u] = "writing"
        BY <3>2 DEF WritersOf
      <4>2. /\ u \in NeededIn[phase] /\ command[u] \in 1 .. Len(Commands[u[1]])
            /\ f \in Outs(u, command[u])
        BY <4>1, WritesAreOuts DEF DependencyInv, TypeOK
      <4>3. QED  BY <1>4, <1>5, <2>5, <4>1, <4>2, SingleWriter
    <3>3. QED  BY <2>1, <3>1, <3>2
  <2>6. ASSUME NEW c \in 1 .. command[t] - 1, NEW f \in Outs(t, c) PROVE file'[f] = "new"
    <3>1. file[f] = "new"
      BY <1>4, <2>4, <2>6 DEF WholeInv
    <3>2. f \in Files
      BY <1>4, <2>6 DEF Outs, Of
    <3>3. QED  BY <2>1, <3>1, <3>2
  <2>7. \A c \in 1 .. command[t] : c = command[t] \/ c \in 1 .. command[t] - 1
    BY <1>4
  <2>8. \A c \in Through(t)' : \A f \in Outs(t, c)' : file'[f] = "new"
    BY <1>4, <2>4, <2>5, <2>6, <2>7
  <2>9. WholeInv(t)'
    BY <2>2, <2>8 DEF WholeInv
  <2>10. QED  BY <1>2, <1>3, <2>3, <2>9
<1>12. QED  BY <1>1, <1>6, <1>8, <1>9, <1>10, <1>11 DEF Step

LEMMA SoundInvocationKept ==
  ASSUME TypeOK, DependencyInv, SoundInv, NextInvocation
  PROVE  SoundInv'
<1> SUFFICES ASSUME SoundBuild' PROVE ended' # "stopped" /\ \A u \in Targets : WholeInv(u)'
  BY DEF SoundInv
<1>1. UNCHANGED <<used, taken, faults>> /\ Over
  BY DEF NextInvocation
<1>2. \A u \in Targets : WholeInv(u)
  BY <1>1 DEF SoundInv, SoundBuild
<1>3. \A t \in NeededIn[phase] : state[t] = "done"
  BY <1>1, <1>2, NeededTargets DEF Over, Settled, WholeInv
<1>4. ended' # "stopped"
  BY <1>3 DEF NextInvocation
<1>5. CASE UNCHANGED <<phase, state, command, file>>
  <2>1. \A u \in Targets : WholeInv(u)'
    BY <1>1, <1>2, <1>5 DEF WholeInv, Outs, Of, Through
  <2>2. QED  BY <1>4, <2>1
<1>6. CASE state' = AllWaiting /\ command' = FirstCommand
  <2>1. \A u \in Targets : state'[u] = "waiting" /\ command'[u] = 1
    BY <1>6 DEF AllWaiting, FirstCommand
  <2>2. \A u \in Targets : Through(u)' = {}
    BY <2>1 DEF Through
  <2>3. \A u \in Targets : WholeInv(u)'
    BY <2>1, <2>2 DEF WholeInv
  <2>4. QED  BY <1>4, <2>3
<1>7. QED  BY <1>5, <1>6 DEF NextInvocation

\* A build in which no tool fails of itself, of a program that uses all its provers, passes
\* when its script keeps the two ways of writing a file of the recursion apart.
THEOREM ApartBuildsPass == ASSUME KeptApart PROVE Spec => []SoundBuildsPass
<1>1. Init => SoundInv
  <2> SUFFICES ASSUME Init PROVE SoundInv
    OBVIOUS
  <2>1. \A t \in Targets : state[t] = "waiting" /\ command[t] = 1
    BY DEF Init, AllWaiting, FirstCommand
  <2>2. \A t \in Targets : Through(t) = {}
    BY <2>1 DEF Through
  <2>3. QED  BY <2>1, <2>2 DEF Init, SoundInv, WholeInv
<1>2. TypeOK /\ TypeOK' /\ DependencyInv /\ SoundInv /\ [Next]_vars => SoundInv'
  <2> SUFFICES ASSUME TypeOK, TypeOK', DependencyInv, SoundInv, [Next]_vars PROVE SoundInv'
    OBVIOUS
  <2>1. CASE \E t \in Targets : Step(t) \/ Fail(t)
    BY <2>1, SoundStepKept
  <2>2. CASE NextInvocation
    BY <2>2, SoundInvocationKept
  <2>3. CASE UNCHANGED vars
    BY <2>3 DEF vars, SoundInv, SoundBuild, WholeInv, Outs, Of, Through
  <2>4. QED  BY <2>1, <2>2, <2>3 DEF Next
<1>3. SoundInv => SoundBuildsPass
  BY DEF SoundInv, SoundBuild, SoundBuildsPass
<1>4. QED  BY <1>1, <1>2, <1>3, Dependable, PTL DEF Spec
===============================================================================
