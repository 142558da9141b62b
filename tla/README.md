# zkLLVM: specifications of the tools that turn circuits into files

zkLLVM compiles a C++ or Rust program to LLVM bitcode, and then runs three small
programs over it. This directory holds TLA+ models of those programs, the TLC
configurations that check them on small instances, and TLAPS proofs of the theorems
that matter for every instance.

## 1. The system

    bitcode ──> assigner ──> circuit*.crct* ──┬──> transpiler ──> Solidity, proof.bin,
                    │                         │                   circuit_params.json
                    └──────> assignment.tbl* ─┴──> recursive_gen ──> placeholder_verifier.cpp
                                                                     placeholder_verifier.inp

The heavy work (evaluating the bitcode, proving, generating gates) is done by
libraries kept in git submodules, which are empty in this tree: assigner, blueprint,
crypto3, transpiler. What this repository adds is the *drivers*: command lines, file
formats' row arithmetic, threads, the order of checks and outputs, exit codes, and the
build files that run the tools one after another. That is what is modelled. A library
call appears as the outcomes its caller can see.

### Inventory

| Component | State it keeps | Operations | What is hard | Modelled by |
|---|---|---|---|---|
| Assigner driver (`bin/assigner/src/main.cpp`, `curve_dependent_main`, 424-731) | inputs, one (table, circuit) proxy per prover, futures, output files | read inputs, evaluate, pack, launch a printing thread per table, print circuits, join, check, return | threads hold references to locals of a function with early returns; aborts with files open; errors that travel through futures | `AssignerDriver` |
| Assigner command line (same file, `main`, 733-1059) | parsed options | one check per option, in order, each with its exit | int kept in uint32_t, a sentinel that is also a value, options demanded in some modes only | `AssignerOptions` |
| Circuit and table printer (same file, 60-421) | used rows, local row counters, offsets, header counts | renumber copy constraints, cut component columns, pad, write sections | two threads count the same rows independently; in-place renumbering; powers of two in uint32_t | `RowCompaction`, `TableLayout`, `TableSections` |
| Lookup table packing (same file, 578-606) | index of the last used selector | search, ASSERT, hand columns to the library | off-by-one search that decrements first | `LookupPacking` |
| Transpiler (`bin/transpiler/src/main.cpp`) | output folder, preprocessed data, proof | four modes over one function | what a mode leaves in the folder depends on which early return it meets; unchecked decoding | `Transpiler` |
| Recursive verifier generator (`bin/recursive_gen/src/main.cpp`) | four `std::optional`s | decode, choose the table description, prove, verify, write | optionals dereferenced far from their checks, two sources of one value, `return false` from `int` | `RecursiveGen` |
| Random FRI step list (both tools) | a list and its sum | one nested loop | nothing: it is called by neither tool | not modelled |
| Example build graph (`examples/CMakeLists.txt`, `run_tests.sh`) | targets, files shared by name, what an earlier build left | run a tool when the dependencies of its target are done; move files between invocations; stop at the first invocation that fails | missing dependency edges in a parallel build, stale files, failures that must not be waited for | `BuildGraph` |
| rslang installer (`rslang-installer.py`) | the toolchain directory in rustup's home or in another, a prefix, a temporary directory | refuse or uninstall an existing toolchain, create its directory, query the release, download and install two components | the directory is created and the old toolchain removed before the release is known to exist; a failure between the two components; a second run after either; the home that is listed need not be the one that is written | `Installer` |
| Host platform detection (`detect-platform.py`, and a copy in the installer) | none | uname results to a host triple | the mapping is written twice | not modelled |
| Test harness (`tests/run_tests.sh` and its siblings) | logs compared by name, an exit code | run the assigner, compute the expected result, compare | one failure among many must reach the exit code | not modelled |
| Version tagging workflow (`.github/workflows/set_version.yml`) | the latest tag | compute, push | two pushes at once | not modelled |
| JSON reading of test inputs, CMake architecture detection, circuits in examples and tests | none | pure data conversion, compiler configuration, inputs of the system | nothing a model checker reaches | not modelled |

### How the parts meet

* `main` of the assigner passes its options to `curve_dependent_main`. What it lets
  through is `AssignerOptions`'s property `RunHasItsFiles` and `TargetHonoured`;
  `AssignerDriver` takes the same facts as the definition of `Requests`.
* `curve_dependent_main` calls the printer on the main thread (circuits) and on one
  thread per prover (tables). `AssignerDriver` has the threads and the files;
  `RowCompaction` has what the two printers of one prover write.
* The tools and the build share nothing but files and exit codes. `ArtifactContract`
  states what the build relies on; `AssignerDriver`, `Transpiler` and `RecursiveGen`
  implement it, and `BuildGraph` uses the contract in place of the tools. What the contract
  does not exclude is that a tool settles on no file at all: `RecursiveGen` may end with
  exit code 0 and nothing written, which is a finding, and which `BuildGraph` has as the
  action `PassOver`.
* What `main` of the assigner hands over is a state its driver starts from: `DriverStarts`
  in `AssignerMain_proofs` joins the two models, for any int width and number of provers.
* The table a printing thread writes is `RowCompaction` cell by cell and `TableSections`
  section by section; `TableLayout` is the row count both use.

## 2. Modules

**`ArtifactContract`** is abstract: a run settles on the files it will produce, fills
each once, touches no other file, reports success only when it got through all of them, and
never returns (as opposed to aborting) in the middle of a file that is not in `MayTear`. No
tool looks at a stream after opening it, so a file a tool got through may be "lost": it
holds what the file system took of it. For a file in `MayMiss` the tool does not look at the
opening either, and a lost one may then be what an earlier run left. The two constants are
where the tools differ, and say what exit codes 0 and 1 are worth for each:

| Tool | `MayTear`: in pieces after a reported failure | `MayMiss`: success although it never opened |
|---|---|---|
| assigner | the numbered tables of the printing threads | none |
| transpiler | none | all but the copied public input |
| recursive_gen | none | both outputs |

**`AssignerDriver`** has one action per stage of `curve_dependent_main` and, for each
prover, two steps of its printing thread (open, close). `pc` is the main thread; `idx` is
the loop variable of the loop it is in; `printer[i]` is thread i; `futures` is the vector
of futures not yet got, so that leaving the function (`Unwind`) can wait in their
destructors; `file[f]` says whether an output is as it was found, open, or closed.
`std::async` that cannot start a thread, a stream that does not open, a failed ASSERT, an
exception that leaves a thread before or after its table is open, or that leaves the
function, are all there, and `Killed` ends the process at any place. An exception after the
open stays in the future while the stream's destructor closes a table in pieces, and main
returns 1 (`WritePrinterTable`). `DiskFills` lets any write to an opened stream be lost,
because the code never looks at a stream after opening it. `ChecksRunAlone` is not claimed
of a process that is killed among its threads.

**`TableLayout`** has the row count of a table's header as the code computes it, with
the conversion through `double` as its value and the product in `Width` bits.

**`RowCompaction`** has the two loops that cut a prover's share out of the common circuit
and table: `RenumberRow` is one turn of the loop over the used rows in `print_circuit`
(all constraints are changed in place in that turn, as the code does), `PrintCell` one
turn of the loop in `print_assignment_table`, `PadColumn` the zeros behind it. They
interleave freely. A cell's value is abstracted to the absolute row it was taken from, so
"the right value at the right place" is a statement about rows.

**`TableSections`** has the whole of `print_assignment_table`, for one prover and for many,
one action per printed size, per column and for the closing ASSERT. A section is described
by its leading and trailing columns (component and lookup columns, public input and shared
ones), each group by its number and its longest column. Which columns are cut to the used
rows is decided by their index, and what `usable_rows_amount` is the largest of by lists
written by hand, which for lookup columns are the library's: `listed` is the longest column
those lists name, any number of rows up to the longest there is. `dropped` collects the
groups of which some column was not printed to its end. Announced sizes and the counters
`witness_idx` ... `selector_idx` are integers of `Width` bits; `written` counts the cells
that are really in the file, so that the two can be compared.

**`BuildGraph`** has the targets of one example, each a list of commands with the kinds of
files it reads and writes, and ninja: `Start` when the dependencies are done, `Skip` when
one has failed. A command takes two steps, `Load` (its inputs are read, its outputs are
opened, which empties them) and `Complete`; between them another target may do the same to
the same file. It may `Refuse` inputs that are in pieces, or missing; `recursive_gen`
passes over what is missing (`PassOver`), and may over what is in pieces. Or it may `Fail` of
itself. `NextInvocation` is `run_tests.sh` with its `set -e`. A file's content is
abstracted to where it came from: this build, an older one, or a mixture. What the assigner
does when a program needs only one prover, to write files without a number, is in `Writes`.
`Load` needs its inputs to be there but may read them in pieces, since the transpiler
ignores the status of unmarshalling. `MCBuildGraph` holds the two scripts.

**`Installer`** has one action per stage of the script, and three places a component may be
installed to: the toolchain's directory in the home that rustup uses, the one in another home,
and a prefix. `--rustup-home` moves only what is written, and so does a `RUSTUP_HOME` that is
not `$HOME/.rustup`: what `rustup toolchain list` shows (`toolchain_exists`) and what `--force`
uninstalls is in rustup's own home in every run. `Fail` ends a run at any stage: an error the
script reports, an exception, or the user. A new run begins with new options, so the model
follows what each run finds of the one before. `Install`/`Installed` and
`Uninstall`/`Uninstalled` are external commands that change a directory in between two steps.
The mark that `rustup toolchain list` puts next to a name is an input: newer versions of rustup
have other marks than "(override)", and the script treats them alike.

**`AssignerOptions`** has one action per block of `main`, in the code's order. A value
that the code compares with a list of names is good or bad; the two prover options are
ints of a width `Half` gives, converted to unsigned as the code does before comparing.

**`LookupPacking`** has the search loop, the ASSERT and the library call.

**`Transpiler`** has one run in one of the four modes, one action per stage. A library call that
writes a file is `Produce`: the file is emptied, filled, and the call may throw before or in
between. A stream that does not open, or takes no bytes, goes unnoticed (`Silent`, which is
every file but the copied public input, since copying throws): the file is "lost" and the run
goes on, in the end to exit code 0. The status of unmarshalling is ignored in the code, so a
torn input may be noticed later, by an exception, or not at all.

**`RecursiveGen`** has the four optionals as state. A description and the common data
are represented by the file they come from, which is all the properties need. An output is
opened, filled and left in steps of their own, since generating its text may throw in
between; a "lost" one did not open, or the file system did not take its text, which the code
cannot notice because it looks at no stream. What decoding throws is in `Killed`. For the
contract a run settles on its output when it comes to `WriteInput` or `WriteVerifier`.

`*_proofs` modules hold the theorems of the module they extend, `AssignerMain_proofs` those of
`AssignerOptions` and `LookupPacking`, which are two parts of one source file; `MCRowCompaction`
gives a small table for TLC. Each definition that translates code names its lines in
`PROJECT.json`. Operators with a name like `JoinPrinter_swallow`, marked "Mutant" and used by
nothing, are broken versions of the definition below them: with the definition replaced by the
mutant, TLC must find the named property violated.

## 3. What the runs show

| Run | Module and bounds | Properties |
|---|---|---|
| `driver` | `AssignerDriver`, 3 provers, writes may be lost | exit code 0 means every requested file was closed and every requested check passed (`SuccessMeansDone`); no return leaves a printing thread behind (`ReturnAfterPrinters`); checks overlap nothing (`ChecksRunAlone`); the contract is kept (`ImplementsContract`); every step takes one off what the main thread or a printing thread has left to do and gives nothing back (`StepsRunOut`); the process ends (`Terminates`) |
| `compaction` | `RowCompaction`, 3 rows, 3 columns, one constraint, every choice of used rows, sizes and endpoints | the printed circuit points at the cells the common circuit constrained (`EndpointsMeetTheirCells`); selected rows keep their used neighbours (`SelectedRowsKeepNeighbours`); a padding row is always left (`PaddingLeft`) |
| `sections` | `TableSections`, integers of 4 bits, none or 2 columns in a group, columns of 0, 3 or 8 rows, lookup columns listed or not | as long as nothing before it is too large for a `uint32_t`, a section is where the announced sizes say (`SectionsAreFound`); the closing ASSERT never fires, its sides wrap alike (`OnlyLongColumnsAbort`); nothing is left out of the file, but rows of a lookup column longer than those listed (`NothingDropped`) |
| `build_graph` | `BuildGraph`, 3 provers of which 0, 2 or 3 are used, four invocations, one failing tool | no target uses a file another writes, but for two cases of `recursive_gen` (`SettledInputs`); a finished build has new proofs for exactly the provers in use (`FinishedMeansProved`); every build ends (`BuildEnds`) |
| `installer` | `Installer`, 5 releases (two usable, one a draft, two without an asset), 3 runs, any place, with or without `--force` | "Installation completed" is the truth (`CompletedIsWhole`); a run in which nothing fails heals whatever is there, unless it is refused for an existing directory in rustup's own home (`CleanRunsComplete`); a release that cannot be used costs nothing but the toolchain `--force` uninstalled (`UnusableReleasesSpare`); rustup's toolchain never mixes two releases, unless one was not recognised (`OneReleaseInToolchain`) |
| `options_accept` | `AssignerOptions`, ints of -4..3 | `TargetHonoured`, `RunHasItsFiles` |
| `packing_pack` | `LookupPacking`, up to 5 + 5 selector columns | `TablesTakeFreeSelectors`, `ComponentSelectorsPass` |
| `transpiler_safety` | `Transpiler`, all modes, torn inputs | `ProofIsVerified`, `ImplementsContract` |
| `recursive_safety` | `RecursiveGen`, all option sets | `OptionalsHaveValues`, `DescriptionOfCommonData`, `InputIsVerified`; an output once begun is finished before success is reported, and no failure leaves a torn one (`KeepsContract`) |

Each of these also checks its module's type invariant.

Why the bounds are enough to meet the hard cases. With three provers there is a first, a middle
and a last thread, so a main thread that stops at the middle one leaves threads on both sides of
it. With three rows the used rows can have a gap, start late, or be everything, and the usable
rows can be a power of two (2, doubled to 4) or not (3); the constraint can link any two
columns. The int range of eight values contains negatives, zero, the values around every
comparison and the one that converts to the sentinel. For the two tools the state is finite and
is explored completely. With 4-bit integers sizes wrap in most of the tables of `sections`, and
so does the padded row count of 8 rows; 3 rows are padded to 4, which a lookup column of 8 that
no list names exceeds. In `build_graph` the program may use none of the numbered files, some of
them or all; one failure is enough to separate what depends on it from what does not; the
recursive verifier is built for the first prover only, the others being copies that share no
file with it. Three runs of the installer are one that leaves something behind, one that trips
over it, and one that heals. The theorems of section 5 remove the bounds.

**Fairness.** Two properties need it. `BuildEnds` assumes weak fairness of every target
and of the script: ninja starts what can be started, and a command that runs comes to an
end. A command's own failure (`Fail`) is not among the fair steps; nothing depends on it.
`Terminates` assumes weak fairness of the main thread and of each
printing thread, which is what an operating system gives runnable threads. A thread in
`future.get()` is not runnable until its printer has ended, so no strong fairness is
assumed. Starting and opening either succeed or fail; nothing blocks for ever on I/O.

**Deadlock** is checked in every run: a process that has ended stutters explicitly, so a
state with no step left would be a thread waiting for nothing.

## 4. Where the code and its documentation disagree

Each of these has a run that is expected to be violated, and the trace is the evidence.

* `packing_comment`: the search for used lookup selectors skips the last column. With two
  or more lookup selectors this is harmless, which is the theorem `TablesAreApart`; with
  one, set by `--column-sizes`, a gate's selector is packed over.
* `recursive_silent`: a file that cannot be read or decoded gives `return false`, exit
  code 0, and no output.
* `build_race`: the target that generates a recursive verifier waits for the circuit and
  not for the table it also reads, and nothing orders it with the target that compiles the
  source it writes. A build can fail although no tool does.

Others are known and have no run, since their traces are as short as their description:

* `--check --generate-type circuit` is accepted and checks nothing (assigner, line 706).
* `tests/run_tests.sh:30` passes `--print_circuit_output`, on which the assigner aborts (981).
* `gen-circuit-params` writes its file and then returns 1 (transpiler, 541).
* `gen-input` prints that common data are ignored (recursive_gen, 476) and uses their table
  description (436).
* `--max-num-provers -1` is taken as 4294967295, though its help says values >= 1.
* The transpiler's `gen-gate-argument` and `gen-test-proof` prepare less than the help of
  `--mode` lists.
* `multi_prover_flag` is set in `gen_single_proof` and used, empty, in the functions that
  run `recursive_gen` (examples/CMakeLists.txt 175-224, 316, 324).
* `gen_evm_verifier` depends on `${target}_assign`, which the examples do not define.
* The script moves the files of one prover away for uploading (move_artifacts.sh 43-48) but
  leaves those with a number; `FinishedMeansProved` says what a later build makes of them.
* `--force` uninstalls the old toolchain before the release is looked for (installer, 443),
  and a failed run leaves an empty toolchain behind on which the next one is refused (451).
* With `--rustup-home`, or a `RUSTUP_HOME` of one's own, the installer asks rustup's own home
  whether the toolchain exists (436) and writes into the other (449): a toolchain there is
  installed over without `--force` and may end up of two releases, a run is refused for a
  toolchain it would not touch, and `--force` uninstalls that one (443).
* "Proof written" and exit code 0 are all that is left of a `proof.bin` that did not open
  (transpiler, 112-114); the other outputs of that tool and of `recursive_gen` are written
  the same way.

## 5. What is proved

All theorems are of the form `Spec => []P` (or `SafeSpec`, the specification without
fairness) and hold for every value of the constants that satisfies the named assumptions.

* `AssignerDriver_proofs`, any number of provers (`MaxProvers \in Nat \ {0}`): `TypeCorrect`,
  `SuccessIsDone`, `PrintersDoNotOutliveMain`, `ChecksAreAlone`, and `Refinement`, that the
  driver implements `ArtifactContract` with only the numbered tables in `MayTear`.
  `StepsAreCounted` and `NobodyIsStuck` are the safety half of `Terminates`. The safety
  properties are not inductive: they do not say that a thread whose future was dropped has
  ended, nor which files are open at which place. The inductive invariant adds where main may be
  in which mode (`PhaseInv`), that a thread still alive is one whose future is still held
  (`FutureInv`), who holds which file open (`FileInv`), and what has been printed so far by the
  loop variable (`PrintInv`, and the parts after it). The refinement proof takes each action to
  one step of the contract, or to a stutter.
* `RowCompaction_proofs`, any table: `TypeCorrect`, `CircuitFitsTable`, `NeighboursKept`,
  `PaddingIsLeft`. The heart of it is that both loops compute the rank of a row among the
  used rows: `local_row` and `offset` equal the number of used rows already visited, and a
  local number already written is below every row still to be visited, so no endpoint is
  renumbered twice. That is where the ascending order of `std::set` is used.
* `TableSections_proofs`, any table and integers of any width: `TypeCorrect`,
  `SectionsFound`, `OnlyLongColumns`, `NothingIsDropped`. The invariant (`IInv`) relates the
  loop variable to what is counted: `written` is the number of columns printed so far times
  the padded rows, and each counter is that product modulo `2^Width`. The sum of the four
  counters is then congruent to the total size, whether or not any of them wrapped. What is
  in `dropped` is printed whole and longer than the padded rows (`DropInv`); going through
  the sources of `usable_rows_amount` leaves only the lookup columns that are in no list.
* `BuildGraph_proofs`, any number of provers and any script: `TypeCorrect`,
  `InputsAreSettled`, `FinishedIsProved`. The first invariant (`DependencyInv`) says that a
  target that runs has its dependencies done; a table of what each command reads and writes
  (`CommandTable`) turns that into one writer per file (`OneWriter`, `NoWriter`). From there
  `KeyInv` follows the files of the bitcode, circuits, tables and proofs of the provers in
  use, `UnusedInv` those of the others, and `ProvedInv` carries the proofs from the
  invocation that made them to the end of the script.
  `BuildGoesOn` is what `BuildEnds` rests on. `ApartBuildsPass`
  says where the race of `build_race` is: if no invocation needs `_gen_recursive_verifier`,
  nor `_gen_json_proof` together with the compilation of the recursive verifier, which also
  runs `gen-input` (`KeptApart`), a program that uses all its provers builds whenever no tool
  fails. The invariant behind it (`SoundInv`) follows every file from its one writer: whole
  once the writer is through, and read by nobody earlier. `KeptApart` is a hypothesis of this
  theorem alone: the invocations of `run_tests.sh` that make circuits, tables and proofs
  satisfy it, the one for recursion does not. Asking for `_gen_json_proof` and
  `_assign_placeholder_verifiers` at once is the other race that is left, as TLC shows when
  a script does.
* `AssignerMain_proofs`, any width of the integers: `TypeCorrect`, `TargetIsHonoured`,
  `FilesAreNamed`; any number of columns: `PackingTypeCorrect`, `TablesAreApart` (with two
  lookup selectors or more), `ComponentsPass`. `DriverStarts` is their meeting point with the
  driver: what `main` hands to `curve_dependent_main`, with as many provers as it was
  given, satisfies `AssignerDriver`'s assumption and initial condition, and the driver takes
  the target for "every prover" exactly when none was asked for. It needs one more
  invariant, that a run past `--max-num-provers` has a prover.
* `Transpiler_proofs`: `TypeCorrect`, `ProofBehindVerifier`, `Refinement`. The invariant
  says which mode can be at which place and that a torn file is the one being written there.
* `RecursiveGen_proofs`: `TypeCorrect`, `OptionalsAreSet`, `DescriptionsAgree`,
  `InputBehindVerifier`, and `Refinement`, that the generator implements `ArtifactContract`.
  The invariant follows where the description came from.
* `Installer_proofs`, any releases and any number of runs, each of which may stop anywhere:
  `TypeCorrect`, `CompletedMeansWhole`, `CleanRunsEndWell`, `UnusableReleasesHarmless`,
  `ToolchainOfOneRelease`. The invariant says what a run has found out at each stage (`RunInv`),
  that a run that sees a toolchain it may not touch gets no further than its check
  (`ProtectedInv`), that every place is as the run found it until both assets are known to exist
  (`SpareInv`), that the host toolchain is whole before the assigner target is begun
  (`CopyInv`), and that a toolchain without a directory is empty (`ToolchainInv`), which is why
  a forced reinstallation starts from nothing.

**Towards termination.** Liveness under fairness is beyond the prover, but what it rests on
is not. For `AssignerDriver` it is proved that a natural number of remaining steps goes down
with every step and never up (`StepsAreCounted`), and for it and `BuildGraph` that as long as
the system has not ended somebody can take a step (`NobodyIsStuck`, `BuildGoesOn`). The first
has the content of "no loop comes back"; the second that of "nobody waits for something that
will not come": a main thread in `future.get()` has a printer that is alive, and a target is
never left waiting for one that failed. A run of the driver has at most
`8 * MaxProvers + 13` steps. That ninja runs a target once per invocation is how ninja is
modelled, and no theorem. What TLC adds is that weak fairness turns this into `Terminates`
and `BuildEnds`.

Assumptions the proofs and the runs rest on, beyond the ranges of the constants:

* `TableAssumption`: a table has fewer than `2^(Width-1)` rows. Above it the padded row
  count wraps in `uint32_t` as the model also has it, and `PaddingLeft` is not claimed.
* `FirstProverFromZero`: the used rows of prover 0 are 0, 1, 2, ... `print_circuit` does
  not renumber prover 0, so it depends on this property of the assigner library.
* `RowsOfConstraintsUsed`: a copy constraint reaches a prover together with the rows of
  its cells, and never names a lookup constant column (which is renumbered but not cut).
* In `LookupPacking`, selectors are handed out in order, and a circuit with reserved tables
  has at least one gate.
* `SectionsAssumption`: columns have at most `2^(Width-1)` rows; above it `std::pow` gives
  2^32 and its conversion to `uint32_t` is undefined.
* `ScriptAssumption`: no invocation needs `_generate_both` together with `_generate_crct` or
  `_generate_tbl`, which write the same files. `run_tests.sh` keeps them apart.
* `ProvingAssumption`: some invocation builds every `_prove` target, and no proof is moved
  between invocations.
* In `AssignerDriver`, `evaluate` makes at most `MaxProvers` proxies.
* In `BuildGraph` a disk takes what is written to it, so that a command that succeeds leaves
  what the contract calls "written": a "lost" file is in `AssignerDriver`, `Transpiler` and
  `RecursiveGen` only. What an earlier build left is the same for all files of the directory,
  whole, in pieces or absent.

Only model-checked: `Terminates` and `BuildEnds` (liveness under fairness is beyond the
prover), and the three runs that are expected to be violated, which are counterexamples.
Every other property of a run is a theorem. Neither checked nor proved: anything about
field values, gates or proofs themselves.

## 6. Not modelled, and why

The file that the input-column mode of the assigner writes is not among the driver's
`Files`: the mode ends before there is anything to prove, and what it leaves is the subject
of `RunHasItsFiles` and of the target `column` of `BuildGraph` only.

The cryptographic libraries are not in the tree. The bytes of a cell, and the gates and lookup
tables of a circuit file, are data without control that the marshalling library writes:
`print_circuit` copies those whose indices the assigner library gives it, in that order
(assigner, 76-80, 119-131), and whether the table a lookup gate names keeps its number when
others are left out is decided there. Help and version output, timing and logging change no
state.

Of the build: the targets nothing else waits for (`_no_check`, `_estimate_size`,
`_evm_verifier`), the Rust examples, which have the first targets only, and several examples
side by side, which share no file. The plain script leaves out the commands of `run_tests.sh`
that touch no file of a target in the model: the run of the EVM verifier (42-48) and the moving
of the transpiler's output folders (57). In a program that uses one prover under
`MAX_NUM_PROVERS`, the files without a number are written but read by no target, so they are
left out of the model.

`generate_random_step_list` is called by neither tool. The two copies of the mapping from
uname to a host triple are tables of strings; in `Installer` the triple is whether a release
has assets for it. The test scripts run one command after another. CMake's architecture
tests, JSON reading of test inputs and the example circuits are conversions or inputs. The
tagging workflow is not part of the program.

## 7. Plan

Done: A assigner driver, B row compaction and table layout, C assigner options, D lookup
packing, E transpiler, F recursive verifier generator, G table sections, H build graph,
I installer, each with proofs; the step from the command line to the driver (`DriverStarts`);
the contract for all three tools; what the termination of the two concurrent models rests on.

What could still be added, in this order:

1. `RowCompaction` for several provers over one common table: every row with a gate is
   printed by some prover.
2. `StepsRunOut` for the sequential tools and for the printer's two loops.
3. The actions of `BuildGraph` as steps of one `ArtifactContract` per command, so that the
   build rests on the contract by refinement and not by reading.
4. Two examples in one `BuildGraph`, to show that they share no file.
