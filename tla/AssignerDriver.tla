---------------------------- MODULE AssignerDriver ----------------------------
(***************************************************************************)
(* curve_dependent_main of bin/assigner/src/main.cpp: read the inputs,     *)
(* evaluate the circuit into one (table, circuit) proxy per prover, print  *)
(* each table from a thread of its own and each circuit from the main      *)
(* thread, join the threads, check the circuits, return.                   *)
(*                                                                         *)
(* Left to their outcome: what the assigner library computes (evaluate     *)
(* yields some number of proxies, a check says yes or no), and the         *)
(* environment (a file opens or not, a thread starts or not, printing      *)
(* throws or not, a write to an opened stream may be lost when DiskFills,  *)
(* the process is killed).                                                 *)
(***************************************************************************)
EXTENDS Naturals, FiniteSets

CONSTANTS MaxProvers,   \* --max-num-provers: evaluate() makes at most that many
          DiskFills     \* whether a write to an opened file may fail

ASSUME MaxProversAssumption == MaxProvers \in Nat \ {0}
ASSUME DiskFillsAssumption == DiskFills \in BOOLEAN

Idx == 0 .. MaxProvers - 1

\* numeric_limits<uint32_t>::max(), larger than any number of provers.
NoTarget == MaxProvers

\* The suffix of an output name: std::to_string(idx), or none (Plain).
Plain == MaxProvers
Suffixes == Idx \cup {Plain}
Table(s) == <<"table", s>>
Circuit(s) == <<"circuit", s>>
Files == {"table", "circuit"} \X Suffixes

\* "old": as the run found it (absent, or left by an earlier run); "torn": opened, hence
\* truncated, and not written to its end; "lost": so written, but a write failed.
FileStates == {"old", "torn", "written", "lost"}

Kinds == {"circuit-assignment", "circuit", "assignment",
          "size_estimation", "public-input-column"}
Assigning == {"circuit-assignment", "assignment"}
Circuits == {"circuit-assignment", "circuit"}

\* The option sets main() lets through: a run that prints assignments has an input
\* file, and main() refuses a target that is not below --max-num-provers.
Requests == {r \in [kind: Kinds, inputs: SUBSET {"public", "private"},
                    check: BOOLEAN, target: Idx \cup {NoTarget}] :
                r.kind \in Assigning => r.inputs # {}}

VARIABLES request,      \* the arguments of curve_dependent_main
          pc,           \* where the main thread is
          ret,          \* the value a return statement is about to return
          exit,         \* "running", or how the process ended: "0", "1", "abort"
          provers,      \* assigner_instance.assignments.size()
          idx,          \* the loop variable of the printing and checking loops
          printer,      \* for each prover, its table printing thread
          futures,      \* the futures of the vector not yet got
          file,         \* what each output file holds
          guarded,      \* the tables whose set_check flag is on
          verified      \* the provers whose circuit was found satisfied

vars == <<request, pc, ret, exit, provers, idx, printer, futures, file,
          guarded, verified>>

PCs == {"public", "private", "parse", "dump", "evaluate", "pack", "select",
        "table", "table_write", "circuit", "circuit_write",
        "spawn", "proxy_circuit", "proxy_circuit_write", "join",
        "check", "checking", "unwind", "end"}

PrinterStates == {"none", "launched", "printing", "done", "threw"}

TypeOK == /\ request \in Requests
          /\ pc \in PCs
          /\ ret \in {"none", "0", "1"}
          /\ exit \in {"running", "0", "1", "abort"}
          /\ provers \in 0 .. MaxProvers
          /\ idx \in 0 .. MaxProvers
          /\ printer \in [Idx -> PrinterStates]
          /\ futures \subseteq Idx
          /\ file \in [Files -> FileStates]
          /\ guarded \subseteq Idx
          /\ verified \subseteq Suffixes

HasAssignments == request.kind \in Assigning
HasCircuit == request.kind \in Circuits

Single == provers = 1 /\ request.target \in {0, NoTarget}
Multi == provers > 1 /\ (request.target < provers \/ request.target = NoTarget)

StartIdx == IF request.target = NoTarget THEN 0 ELSE request.target

\* Mutant: end_idx is one too far when a single prover is asked for.
EndIdx_over == IF request.target = NoTarget THEN provers ELSE request.target + 2

EndIdx == IF request.target = NoTarget THEN provers ELSE request.target + 1

\* The suffixes this run prints under, once evaluate() has fixed the provers.
Outputs == IF Single THEN {Plain} ELSE IF Multi THEN StartIdx .. EndIdx - 1 ELSE {}

Requested == (IF HasAssignments THEN {Table(s) : s \in Outputs} ELSE {})
             \cup (IF HasCircuit THEN {Circuit(s) : s \in Outputs} ELSE {})

Init == /\ request \in Requests
        /\ pc = "public"
        /\ ret = "none"
        /\ exit = "running"
        /\ provers = 0
        /\ idx = 0
        /\ printer = [i \in Idx |-> "none"]
        /\ futures = {}
        /\ file = [f \in Files |-> "old"]
        /\ guarded = {}
        /\ verified = {}
-------------------------------------------------------------------------------
At(place) == exit = "running" /\ pc = place

Goto(place) == pc' = place /\ UNCHANGED <<ret, exit>>

\* `return code`: the locals go out of scope before the process can end.
Return(code) == pc' = "unwind" /\ ret' = code /\ UNCHANGED exit

\* The process ends with all its threads.
Abort == pc' = "end" /\ exit' = "abort" /\ UNCHANGED ret

Printing == <<printer, futures, file>>
Checking == <<guarded, verified>>

(***************************************************************************)
(* Inputs, bitcode, evaluation.                                            *)
(***************************************************************************)
ReadPublicInput == /\ At("public")
                   /\ \/ Goto("private")
                      \/ "public" \in request.inputs /\ Return("1")
                   /\ UNCHANGED <<request, provers, idx, Printing, Checking>>

ReadPrivateInput == /\ At("private")
                    /\ \/ Goto("parse")
                       \/ "private" \in request.inputs /\ Return("1")
                    /\ UNCHANGED <<request, provers, idx, Printing, Checking>>

ParseIrFile == /\ At("parse")
               /\ \/ request.kind = "public-input-column" /\ Goto("dump")
                  \/ request.kind # "public-input-column" /\ Goto("evaluate")
                  \/ Return("1")
               /\ UNCHANGED <<request, provers, idx, Printing, Checking>>

DumpPublicInput == /\ At("dump")
                   /\ Return("0") \/ Return("1")
                   /\ UNCHANGED <<request, provers, idx, Printing, Checking>>

Evaluate == /\ At("evaluate")
            /\ \/ Return("1") /\ UNCHANGED provers
               \/ provers' = 0 /\ Abort
               \/ /\ provers' \in 1 .. MaxProvers
                  /\ \/ request.kind = "size_estimation" /\ Return("0")
                     \/ request.kind # "size_estimation" /\ Goto("pack")
            /\ UNCHANGED <<request, idx, Printing, Checking>>

\* Whether the lookup selectors are free is LookupPacking's subject.
PackLookupTables == /\ At("pack")
                    /\ Goto("select") \/ Abort
                    /\ UNCHANGED <<request, provers, idx, Printing, Checking>>

SelectProvers == /\ At("select")
                 /\ \/ Single /\ Goto("table") /\ UNCHANGED idx
                    \/ Multi /\ Goto("spawn") /\ idx' = StartIdx
                    \/ ~Single /\ ~Multi /\ Return("1") /\ UNCHANGED idx
                 /\ UNCHANGED <<request, provers, Printing, Checking>>
-------------------------------------------------------------------------------
(***************************************************************************)
(* Output streams.                                                         *)
(***************************************************************************)
Open(f) == file' = [file EXCEPT ![f] = "torn"]

\* The state of the stream is not looked at after open(): a lost write is silent.
Close(f) == \E s \in IF DiskFills THEN {"written", "lost"} ELSE {"written"} :
                file' = [file EXCEPT ![f] = s]

(***************************************************************************)
(* One prover: the main thread prints the table, then the circuit.         *)
(***************************************************************************)
OpenTable == /\ At("table")
             /\ \/ ~HasAssignments /\ Goto("circuit") /\ UNCHANGED file
                \/ HasAssignments /\ Open(Table(Plain)) /\ Goto("table_write")
                \/ HasAssignments /\ Return("1") /\ UNCHANGED file
             /\ UNCHANGED <<request, provers, idx, printer, futures, Checking>>

WriteTable == /\ At("table_write")
              /\ Close(Table(Plain))
              /\ Goto("circuit")
              /\ UNCHANGED <<request, provers, idx, printer, futures, Checking>>

OpenCircuit == /\ At("circuit")
               /\ \/ ~HasCircuit /\ Goto("check") /\ UNCHANGED file
                  \/ HasCircuit /\ Open(Circuit(Plain)) /\ Goto("circuit_write")
                  \/ HasCircuit /\ Return("1") /\ UNCHANGED file
               /\ UNCHANGED <<request, provers, idx, printer, futures, Checking>>

WriteCircuit == /\ At("circuit_write")
                /\ Close(Circuit(Plain))
                /\ Goto("check")
                /\ UNCHANGED <<request, provers, idx, printer, futures, Checking>>

(***************************************************************************)
(* Several provers: a thread per table, the circuits on the main thread.   *)
(***************************************************************************)
\* Mutant: the printing loop forgets idx++.
NextPrint_stuck == IF idx + 1 < EndIdx
                   THEN Goto("spawn") /\ UNCHANGED idx
                   ELSE Goto("join") /\ idx' = StartIdx

\* The loop's increment and its test; the check loop starts over.
NextPrint == IF idx + 1 < EndIdx
             THEN Goto("spawn") /\ idx' = idx + 1
             ELSE Goto("join") /\ idx' = StartIdx

\* std::async throws system_error when no thread can be started.
LaunchPrinter == /\ At("spawn")
                 /\ \/ /\ HasAssignments
                       /\ printer' = [printer EXCEPT ![idx] = "launched"]
                       /\ futures' = futures \cup {idx}
                       /\ Goto("proxy_circuit")
                    \/ /\ ~HasAssignments
                       /\ Goto("proxy_circuit")
                       /\ UNCHANGED <<printer, futures>>
                    \/ /\ HasAssignments
                       /\ Abort
                       /\ UNCHANGED <<printer, futures>>
                 /\ UNCHANGED <<request, provers, idx, file, Checking>>

OpenProxyCircuit == /\ At("proxy_circuit")
                    /\ \/ ~HasCircuit /\ NextPrint /\ UNCHANGED file
                       \/ /\ HasCircuit
                          /\ Open(Circuit(idx))
                          /\ Goto("proxy_circuit_write")
                          /\ UNCHANGED idx
                       \/ HasCircuit /\ Return("1") /\ UNCHANGED <<idx, file>>
                    /\ UNCHANGED <<request, provers, printer, futures, Checking>>

WriteProxyCircuit == /\ At("proxy_circuit_write")
                     /\ Close(Circuit(idx))
                     /\ NextPrint
                     /\ UNCHANGED <<request, provers, printer, futures, Checking>>

\* Mutant: the thread forgets the suffix of its table's name.
OpenPrinterTable_plain(i) ==
    /\ exit = "running"
    /\ printer[i] = "launched"
    /\ \/ Open(Table(Plain)) /\ printer' = [printer EXCEPT ![i] = "printing"]
       \/ printer' = [printer EXCEPT ![i] = "threw"] /\ UNCHANGED file
    /\ UNCHANGED <<request, pc, ret, exit, provers, idx, futures, Checking>>

\* assignment_table_printer(i), in its own thread. What it throws is kept in its future.
OpenPrinterTable(i) == /\ exit = "running"
                       /\ printer[i] = "launched"
                       /\ \/ /\ Open(Table(i))
                             /\ printer' = [printer EXCEPT ![i] = "printing"]
                          \/ /\ printer' = [printer EXCEPT ![i] = "threw"]
                             /\ UNCHANGED file
                       /\ UNCHANGED <<request, pc, ret, exit, provers, idx,
                                      futures, Checking>>

\* What print_assignment_table throws is kept as well: the stream's destructor closes
\* the table where it stands.
WritePrinterTable(i) == /\ exit = "running"
                        /\ printer[i] = "printing"
                        /\ \/ /\ Close(Table(i))
                              /\ printer' = [printer EXCEPT ![i] = "done"]
                           \/ /\ printer' = [printer EXCEPT ![i] = "threw"]
                              /\ UNCHANGED file
                        /\ UNCHANGED <<request, pc, ret, exit, provers, idx,
                                       futures, Checking>>

Printer(i) == OpenPrinterTable(i) \/ WritePrinterTable(i)

Ended(i) == printer[i] \in {"done", "threw"}

\* Mutant: the catch block logs the exception and forgets `return 1`.
JoinPrinter_swallow ==
    /\ At("join")
    /\ \/ futures = {} /\ Goto("check") /\ UNCHANGED futures
       \/ \E i \in futures : /\ \A j \in futures : i <= j
                             /\ Ended(i)
                             /\ futures' = futures \ {i}
                             /\ Goto("join")
    /\ UNCHANGED <<request, provers, idx, printer, file, Checking>>

\* Mutant: only the first future is waited for.
JoinPrinter_first ==
    /\ At("join")
    /\ \/ futures = {} /\ Goto("check") /\ UNCHANGED futures
       \/ \E i \in futures : /\ \A j \in futures : i <= j
                             /\ Ended(i)
                             /\ futures' = {}
                             /\ IF printer[i] = "done" THEN Goto("check")
                                                       ELSE Return("1")
    /\ UNCHANGED <<request, provers, idx, printer, file, Checking>>

\* future.get(), in the order of the vector.
JoinPrinter == /\ At("join")
               /\ \/ futures = {} /\ Goto("check") /\ UNCHANGED futures
                  \/ \E i \in futures :
                        /\ \A j \in futures : i <= j
                        /\ Ended(i)
                        /\ futures' = futures \ {i}
                        /\ \/ printer[i] = "done" /\ Goto("join")
                           \/ printer[i] = "threw" /\ Return("1")
               /\ UNCHANGED <<request, provers, idx, printer, file, Checking>>
-------------------------------------------------------------------------------
(***************************************************************************)
(* --check, after everything is on disk.                                   *)
(***************************************************************************)
CheckValidity ==
    /\ At("check")
    /\ \/ ~(request.check /\ HasAssignments) /\ Return("0") /\ UNCHANGED Checking
       \/ /\ request.check /\ HasAssignments /\ Single
          /\ \/ verified' = {Plain} /\ Return("0")
             \/ Abort /\ UNCHANGED verified
          /\ UNCHANGED guarded
       \/ /\ request.check /\ HasAssignments /\ Multi
          /\ guarded' = guarded \cup {idx}
          /\ Goto("checking")
          /\ UNCHANGED verified
    /\ UNCHANGED <<request, provers, idx, Printing>>

CheckProver == /\ At("checking")
               /\ guarded' = guarded \ {idx}
               /\ \/ /\ verified' = verified \cup {idx}
                     /\ IF idx + 1 < EndIdx
                        THEN Goto("check") /\ idx' = idx + 1
                        ELSE Return("0") /\ UNCHANGED idx
                  \/ Abort /\ UNCHANGED <<verified, idx>>
               /\ UNCHANGED <<request, provers, Printing>>

\* Mutant: the threads are detached, nothing waits for them.
Unwind_detached == /\ At("unwind")
                   /\ exit' = ret
                   /\ pc' = "end"
                   /\ UNCHANGED <<request, ret, provers, idx, Printing, Checking>>

\* The destructor of a future made by std::async waits for its thread.
Unwind == /\ At("unwind")
          /\ \A i \in futures : Ended(i)
          /\ exit' = ret
          /\ pc' = "end"
          /\ UNCHANGED <<request, ret, provers, idx, Printing, Checking>>

Main == \/ ReadPublicInput \/ ReadPrivateInput \/ ParseIrFile \/ DumpPublicInput
        \/ Evaluate \/ PackLookupTables \/ SelectProvers
        \/ OpenTable \/ WriteTable \/ OpenCircuit \/ WriteCircuit
        \/ LaunchPrinter \/ OpenProxyCircuit \/ WriteProxyCircuit \/ JoinPrinter
        \/ CheckValidity \/ CheckProver \/ Unwind

\* An ASSERT that fails in any thread, an exception that leaves main, a signal: the
\* process may stop anywhere, with files open.
Killed == /\ exit = "running"
          /\ Abort
          /\ UNCHANGED <<request, provers, idx, Printing, Checking>>

\* The process is gone.
Terminated == exit # "running" /\ UNCHANGED vars

Next == \/ Main
        \/ \E i \in Idx : Printer(i)
        \/ Killed
        \/ Terminated

\* Every thread of a running process is scheduled; nothing need kill it.
Fairness == WF_vars(Main) /\ \A i \in Idx : WF_vars(Printer(i))

SafeSpec == Init /\ [][Next]_vars
Spec == SafeSpec /\ Fairness
-------------------------------------------------------------------------------
(***************************************************************************)
(* Properties.                                                             *)
(***************************************************************************)
Idle(i) == printer[i] \in {"none", "done", "threw"}
Closed(f) == file[f] = "written" \/ (DiskFills /\ file[f] = "lost")

\* Exit code 0 of a run that prints means: every table and every circuit it was asked
\* for was written to its end, though other threads wrote the tables and may have failed, and with
\* --check each of those circuits was found satisfied.
SuccessMeansDone ==
    exit = "0" => /\ \A f \in Requested : Closed(f)
                  /\ request.check /\ HasAssignments => verified = Outputs

\* A return from curve_dependent_main, an early `return 1` included, finds no printing
\* thread alive: they hold references to assigner_instance and to two locals.
ReturnAfterPrinters == exit \in {"0", "1"} => \A i \in Idx : Idle(i)

\* The check phase toggles the tables' set_check flag and may abort the process: it
\* runs only when no thread still reads a table, no flag but the current prover's is
\* up and no output is half written.
ChecksRunAlone ==
    /\ pc \in {"check", "checking"} =>
          /\ \A i \in Idx : Idle(i)
          /\ \A f \in Requested : Closed(f)
    /\ exit # "abort" => guarded \subseteq (IF pc = "checking" THEN {idx} ELSE {})

\* Whatever fails, and whichever thread is slow, the process ends.
Terminates == <>(exit # "running")

\* A bound on the steps the main thread still has before it, at a place of the code and a
\* value of its loop variable.
StepsFrom(place, i) ==
    LET prover == MaxProvers - i
        checks == 2 * prover + 2
        join == 2 * MaxProvers + 4
        prints == join + 3 * prover
        select == join + 3 * MaxProvers + 4
    IN  [public |-> select + 5, private |-> select + 4, parse |-> select + 3,
         dump |-> select + 2, evaluate |-> select + 2, pack |-> select + 1, select |-> select,
         spawn |-> prints + 3, proxy_circuit |-> prints + 2, proxy_circuit_write |-> prints + 1,
         table |-> join + 4, table_write |-> join + 3, circuit |-> join + 2,
         circuit_write |-> join + 1, join |-> join, check |-> checks + 1,
         checking |-> checks, unwind |-> 1, end |-> 0][place]
MainSteps == StepsFrom(pc, idx)

\* And the printing of prover i, with the step that joins it.
PrinterSteps(i) == [none |-> 2, launched |-> 2, printing |-> 1, done |-> 0, threw |-> 0][printer[i]]
                   + IF printer[i] = "none" \/ i \in futures THEN 1 ELSE 0

\* No step is taken for nothing, and none gives another thread more to do: neither loop
\* comes back to a prover, no prover is printed twice. It bounds every run, whatever fails.
StepsRunOut == [][ /\ MainSteps' <= MainSteps
                   /\ \A i \in Idx : PrinterSteps(i)' <= PrinterSteps(i)
                   /\ \/ MainSteps' < MainSteps
                      \/ \E i \in Idx : PrinterSteps(i)' < PrinterSteps(i) ]_vars

\* The driver keeps what the build relies on (see ArtifactContract): a failure it reports
\* leaves no file in pieces but the table of a thread that threw.
Outcome == CASE exit = "running" -> "running"
             [] exit = "0" -> "success"
             [] exit = "1" -> "failure"
             [] exit = "abort" -> "abort"

Contract == INSTANCE ArtifactContract
                WITH MayTear <- {Table(i) : i \in Idx}, MayMiss <- {},
                     outcome <- Outcome, wanted <- Requested, artifact <- file

ImplementsContract == Contract!Spec
===============================================================================
