------------------------ MODULE AssignerDriver_proofs ------------------------
(***************************************************************************)
(* The safety of AssignerDriver for every number of provers.               *)
(***************************************************************************)
EXTENDS AssignerDriver, WellFoundedInduction, TLAPS

-------------------------------------------------------------------------------
(***************************************************************************)
(* The inductive invariant, in named parts.                                *)
(***************************************************************************)
Before == {"public", "private", "parse", "dump", "evaluate"}
SinglePlaces == {"table", "table_write", "circuit", "circuit_write"}
Spawning == {"spawn", "proxy_circuit", "proxy_circuit_write"}
MultiPlaces == Spawning \cup {"join", "checking"}

\* Where main can be, given how the process and the mode stand.
PhaseInv ==
    /\ exit = "running" <=> pc # "end"
    /\ pc = "unwind" => ret \in {"0", "1"}
    /\ pc \notin {"unwind", "end"} => ret = "none"
    /\ exit \in {"running", "abort", ret}
    /\ pc \in Before => provers = 0
    /\ pc \in {"pack", "select"} => provers > 0
    /\ pc \in SinglePlaces => Single
    /\ pc \in MultiPlaces => Multi
    /\ pc = "check" => Single \/ Multi
    /\ pc = "table_write" => HasAssignments
    /\ pc \in {"circuit_write", "proxy_circuit_write"} => HasCircuit
    /\ pc = "checking" => HasAssignments /\ request.check
    /\ pc \in Spawning \cup {"checking"} => StartIdx <= idx /\ idx < EndIdx
    /\ pc = "join" => idx = StartIdx
    /\ pc = "check" /\ Multi => StartIdx <= idx /\ idx < EndIdx

\* A thread that has not ended is one whose future is still held.
FutureInv == /\ \A i \in Idx : /\ ~Idle(i) => i \in futures
                               /\ i \in futures => printer[i] # "none"
             /\ ReturnAfterPrinters

\* Who may hold which output open, and what the closed ones hold, unless the process was
\* ended under their hands.
FileInv == exit # "abort" =>
    /\ \A i \in Idx :
          /\ printer[i] = "printing" => file[Table(i)] = "torn"
          /\ file[Table(i)] = "torn" => printer[i] \in {"printing", "threw"}
          /\ printer[i] = "done" => Closed(Table(i))
          /\ printer[i] \in {"none", "launched"} => file[Table(i)] = "old"
    /\ pc = "table_write" <=> file[Table(Plain)] = "torn"
    /\ pc = "circuit_write" <=> file[Circuit(Plain)] = "torn"
    /\ \A i \in Idx : (pc = "proxy_circuit_write" /\ i = idx)
                         <=> file[Circuit(i)] = "torn"

\* Nothing is printed before select, each loop iteration starts afresh, and only
\* requested tables have a thread.
PrintInv ==
    /\ \A i \in Idx : printer[i] # "none" =>
          HasAssignments /\ Multi /\ StartIdx <= i /\ i < EndIdx
    /\ pc \in Before \cup {"pack", "select"} \cup SinglePlaces =>
          \A i \in Idx : printer[i] = "none"
    /\ pc \in Before \cup {"pack", "select", "table"} =>
          file[Table(Plain)] = "old"
    /\ pc \in Before \cup {"pack", "select", "table", "table_write", "circuit"} =>
          file[Circuit(Plain)] = "old"
    /\ pc \in Before \cup {"pack", "select"} =>
          \A i \in Idx : file[Circuit(i)] = "old"
    /\ pc \in Spawning => \A i \in Idx :
          /\ i > idx => printer[i] = "none"
          /\ i > idx => file[Circuit(i)] = "old"
          /\ pc = "spawn" /\ i = idx => printer[i] = "none"
          /\ pc # "proxy_circuit_write" /\ i = idx => file[Circuit(i)] = "old"

\* What is done by the time main reaches each place.
ProgressInv ==
    /\ pc \in {"circuit", "circuit_write"} /\ HasAssignments => Closed(Table(Plain))
    /\ pc \in Spawning => \A i \in Idx : StartIdx <= i =>
          /\ i < idx /\ HasAssignments => printer[i] # "none"
          /\ i < idx /\ HasCircuit => Closed(Circuit(i))
          /\ i = idx /\ pc # "spawn" /\ HasAssignments => printer[i] # "none"
    /\ pc = "join" => \A i \in Idx : StartIdx <= i /\ i < EndIdx =>
          /\ HasAssignments => printer[i] # "none"
          /\ HasCircuit => Closed(Circuit(i))
    /\ pc \in Spawning => \A i \in Idx : i \notin futures => printer[i] = "none"
    /\ pc = "join" => \A i \in Idx : i \notin futures => printer[i] \in {"none", "done"}
    /\ pc \in {"check", "checking"} => /\ futures = {}
                                       /\ \A f \in Requested : Closed(f)

\* How far the check phase is.
CheckInv ==
    /\ exit # "abort" => guarded = IF pc = "checking" THEN {idx} ELSE {}
    /\ pc \notin {"check", "checking", "unwind", "end"} => verified = {}
    /\ pc \in {"check", "checking"} /\ Multi => verified = StartIdx .. idx - 1
    /\ pc = "check" /\ Single => verified = {}

\* A run that is about to report success has everything it reports.
DoneInv ==
    pc \in {"unwind", "end"} /\ ret = "0" =>
       /\ \A f \in Requested : Closed(f)
       /\ request.check /\ HasAssignments => verified = Outputs

IInv == /\ TypeOK /\ PhaseInv /\ FutureInv /\ FileInv
        /\ PrintInv /\ ProgressInv /\ CheckInv /\ DoneInv
-------------------------------------------------------------------------------
(***************************************************************************)
(* Types and control.                                                      *)
(***************************************************************************)
USE MaxProversAssumption, DiskFillsAssumption

LEMMA FileNames ==
    /\ \A s \in Suffixes : Table(s) \in Files /\ Circuit(s) \in Files
    /\ \A s, t : Table(s) # Circuit(t)
    /\ \A s, t : Table(s) = Table(t) => s = t
    /\ \A s, t : Circuit(s) = Circuit(t) => s = t
    /\ \A f \in Files : \E s \in Suffixes : f = Table(s) \/ f = Circuit(s)
  BY DEF Suffixes, Table, Circuit, Files

LEMMA ModeType ==
  ASSUME request \in Requests, provers \in 0 .. MaxProvers
  PROVE  /\ HasAssignments \in BOOLEAN /\ HasCircuit \in BOOLEAN
         /\ Single \in BOOLEAN /\ Multi \in BOOLEAN
         /\ Multi => StartIdx \in Idx /\ EndIdx \in 1 .. MaxProvers /\ StartIdx < EndIdx
         /\ request.check \in BOOLEAN
         /\ ~(Single /\ Multi)
  BY DEF Requests, HasAssignments, HasCircuit, Single, Multi, StartIdx, EndIdx, Idx,
         NoTarget

\* The mode is settled once evaluate() has run.
LEMMA ModeStable ==
  ASSUME UNCHANGED <<request, provers>>
  PROVE  /\ HasAssignments' = HasAssignments /\ HasCircuit' = HasCircuit
         /\ Single' = Single /\ Multi' = Multi
         /\ StartIdx' = StartIdx /\ EndIdx' = EndIdx
         /\ Outputs' = Outputs /\ Requested' = Requested
  BY DEF HasAssignments, HasCircuit, Single, Multi, StartIdx, EndIdx, Outputs, Requested

LEMMA InitTypePhase == Init => TypeOK /\ PhaseInv
  BY DEF Init, TypeOK, PhaseInv, Idx, PCs, PrinterStates, FileStates, Before,
         SinglePlaces, Spawning, MultiPlaces

LEMMA NextTypePhase ==
  ASSUME TypeOK, PhaseInv, [Next]_vars
  PROVE  TypeOK' /\ PhaseInv'
<1> USE DEF TypeOK, PhaseInv, At, Goto, Return, Abort, Printing, Checking, PCs,
            Before, SinglePlaces, Spawning, MultiPlaces
<1>1. CASE ReadPublicInput
  BY <1>1 DEF ReadPublicInput
<1>2. CASE ReadPrivateInput
  BY <1>2 DEF ReadPrivateInput
<1>3. CASE ParseIrFile
  BY <1>3 DEF ParseIrFile
<1>4. CASE DumpPublicInput
  BY <1>4 DEF DumpPublicInput
<1>5. CASE Evaluate
  BY <1>5 DEF Evaluate
<1>6. CASE PackLookupTables
  BY <1>6, ModeStable DEF PackLookupTables
<1>7. CASE SelectProvers
  BY <1>7, ModeStable, ModeType DEF SelectProvers, Idx
<1>8. CASE OpenTable
  BY <1>8, ModeStable, ModeType, FileNames DEF OpenTable, Open, FileStates, Suffixes
<1>9. CASE WriteTable
  BY <1>9, ModeStable, ModeType, FileNames DEF WriteTable, Close, FileStates, Suffixes
<1>10. CASE OpenCircuit
  BY <1>10, ModeStable, ModeType, FileNames DEF OpenCircuit, Open, FileStates, Suffixes
<1>11. CASE WriteCircuit
  BY <1>11, ModeStable, ModeType, FileNames DEF WriteCircuit, Close, FileStates, Suffixes
<1>12. CASE LaunchPrinter
  <2>1. idx \in Idx /\ Multi
    BY <1>12, ModeType DEF LaunchPrinter, Idx
  <2>2. TypeOK'
    BY <1>12, <2>1 DEF LaunchPrinter, PrinterStates
  <2>3. PhaseInv'
    BY <1>12, <2>1, ModeStable DEF LaunchPrinter
  <2>4. QED  BY <2>2, <2>3
<1>13. CASE OpenProxyCircuit
  BY <1>13, ModeStable, ModeType, FileNames
     DEF OpenProxyCircuit, Open, NextPrint, FileStates, Suffixes, Idx
<1>14. CASE WriteProxyCircuit
  BY <1>14, ModeStable, ModeType, FileNames
     DEF WriteProxyCircuit, Close, NextPrint, FileStates, Suffixes, Idx
<1>15. CASE JoinPrinter
  BY <1>15, ModeStable, ModeType DEF JoinPrinter
<1>16. CASE CheckValidity
  <2>1. request' = request /\ provers' = provers /\ idx' = idx
        /\ UNCHANGED <<printer, futures, file>>
    BY <1>16 DEF CheckValidity
  <2>2. guarded' \subseteq Idx /\ verified' \subseteq Suffixes
    <3>1. Multi /\ pc = "check" => idx \in Idx
      BY ModeType DEF Idx
    <3>2. verified' = verified \/ verified' = {Plain}
      BY <1>16 DEF CheckValidity
    <3>3. guarded' = guarded \/ (Multi /\ guarded' = guarded \cup {idx})
      BY <1>16 DEF CheckValidity
    <3>4. QED  BY <1>16, <3>1, <3>2, <3>3 DEF CheckValidity, Suffixes
  <2>3. TypeOK'
    BY <1>16, <2>1, <2>2 DEF CheckValidity
  <2>4. PhaseInv'
    BY <1>16, <2>1, ModeStable, ModeType DEF CheckValidity
  <2>5. QED  BY <2>3, <2>4
<1>17. CASE CheckProver
  <2>1. idx \in Idx /\ Multi /\ idx \in Nat
    BY <1>17, ModeType DEF CheckProver, Idx
  <2>2. TypeOK'
    <3>1. idx' \in 0 .. MaxProvers
      BY <1>17, <2>1, ModeType DEF CheckProver, Idx
    <3>2. guarded' \subseteq Idx /\ verified' \subseteq Suffixes
      BY <1>17, <2>1 DEF CheckProver, Suffixes
    <3>3. QED  BY <1>17, <3>1, <3>2 DEF CheckProver
  <2>3. PhaseInv'
    BY <1>17, <2>1, ModeStable, ModeType DEF CheckProver, Idx
  <2>4. QED  BY <2>2, <2>3
<1>18. CASE Unwind
  BY <1>18, ModeStable DEF Unwind
<1>19. ASSUME NEW i \in Idx, OpenPrinterTable(i)
       PROVE  TypeOK' /\ PhaseInv'
  BY <1>19, ModeStable, FileNames
     DEF OpenPrinterTable, Open, FileStates, PrinterStates, Suffixes
<1>20. ASSUME NEW i \in Idx, WritePrinterTable(i)
       PROVE  TypeOK' /\ PhaseInv'
  <2>1. CASE UNCHANGED file
    BY <1>20, <2>1, ModeStable DEF WritePrinterTable, PrinterStates
  <2>2. CASE Close(Table(i)) /\ printer' = [printer EXCEPT ![i] = "done"]
    BY <1>20, <2>2, ModeStable, FileNames
       DEF WritePrinterTable, Close, FileStates, PrinterStates, Suffixes
  <2>3. QED  BY <1>20, <2>1, <2>2 DEF WritePrinterTable
<1>21. CASE Killed
  BY <1>21, ModeStable DEF Killed
<1>22. CASE UNCHANGED vars
  BY <1>22, ModeStable DEF vars
<1>23. QED
  BY <1>1, <1>2, <1>3, <1>4, <1>5, <1>6, <1>7, <1>8, <1>9, <1>10, <1>11, <1>12,
     <1>13, <1>14, <1>15, <1>16, <1>17, <1>18, <1>19, <1>20, <1>21, <1>22
     DEF Next, Main, Printer, Terminated

\* Every variable always has its type, for every number of provers: no printing
\* loop, early return or failure drives an index or a future out of range.
THEOREM TypeCorrect == SafeSpec => []TypeOK
<1>1. SafeSpec => [](TypeOK /\ PhaseInv)
  BY InitTypePhase, NextTypePhase, PTL DEF SafeSpec
<1>2. QED
  BY <1>1, PTL
-------------------------------------------------------------------------------
(***************************************************************************)
(* Files, threads and checks.                                              *)
(***************************************************************************)
LEMMA OutputsOf ==
  ASSUME request \in Requests, provers \in 0 .. MaxProvers
  PROVE  /\ Single => Outputs = {Plain}
         /\ Multi => Outputs = StartIdx .. EndIdx - 1
         /\ ~Single /\ ~Multi => Outputs = {}
         /\ provers = 0 => ~Single /\ ~Multi
         /\ \A f : f \in Requested <=>
               \E s \in Outputs : \/ HasAssignments /\ f = Table(s)
                                  \/ HasCircuit /\ f = Circuit(s)
         /\ request.kind = "size_estimation" => ~HasAssignments /\ ~HasCircuit
         /\ Requested \subseteq Files
  BY ModeType, FileNames, MaxProversAssumption DEF Idx, Plain, Suffixes, Outputs, Requested, Single, Multi, HasAssignments, HasCircuit,
                  Assigning, Circuits, NoTarget

LEMMA ClosedStable ==
  ASSUME UNCHANGED file
  PROVE  \A f : Closed(f)' = Closed(f)
  BY DEF Closed

LEMMA InitInv == Init => IInv
  BY InitTypePhase, FileNames DEF Init, IInv, FutureInv, FileInv, PrintInv, ProgressInv,
     CheckInv, DoneInv, ReturnAfterPrinters, Idle, Before, SinglePlaces, Spawning,
     Suffixes

\* No step lets a running thread go without its future being held.
LEMMA NextFutureInv ==
  ASSUME IInv, TypeOK', PhaseInv', [Next]_vars
  PROVE  FutureInv'
<1> USE ModeStable, ModeType, FileNames
    DEF IInv, TypeOK, PhaseInv, At, Goto, Return, Abort, Printing, Checking, PCs,
        Before, SinglePlaces, Spawning, MultiPlaces, Open, Close, NextPrint,
        FutureInv, ReturnAfterPrinters, Idle, Ended, PrinterStates
<1>1. CASE \/ ReadPublicInput \/ ReadPrivateInput \/ ParseIrFile
           \/ DumpPublicInput \/ PackLookupTables
  BY <1>1 DEF ReadPublicInput, ReadPrivateInput, ParseIrFile, DumpPublicInput, PackLookupTables
<1>2. CASE Evaluate
  BY <1>2 DEF Evaluate
<1>3. CASE SelectProvers
  BY <1>3 DEF SelectProvers
<1>4. CASE OpenTable
  BY <1>4 DEF OpenTable
<1>5. CASE WriteTable
  BY <1>5 DEF WriteTable
<1>6. CASE OpenCircuit
  BY <1>6 DEF OpenCircuit
<1>7. CASE WriteCircuit
  BY <1>7 DEF WriteCircuit
<1>8. CASE LaunchPrinter
  BY <1>8 DEF LaunchPrinter
<1>9. CASE OpenProxyCircuit
  BY <1>9 DEF OpenProxyCircuit
<1>10. CASE WriteProxyCircuit
  BY <1>10 DEF WriteProxyCircuit
<1>11. CASE JoinPrinter
  BY <1>11 DEF JoinPrinter
<1>12. CASE CheckValidity
  BY <1>12 DEF CheckValidity
<1>13. CASE CheckProver
  BY <1>13 DEF CheckProver
<1>14. CASE Unwind
  BY <1>14 DEF Unwind
<1>15. ASSUME NEW i \in Idx, OpenPrinterTable(i)
      PROVE  FutureInv'
  BY <1>15 DEF OpenPrinterTable
<1>16. ASSUME NEW i \in Idx, WritePrinterTable(i)
      PROVE  FutureInv'
  BY <1>16 DEF WritePrinterTable
<1>17. CASE Killed
  BY <1>17 DEF Killed
<1>18. CASE UNCHANGED vars
  BY <1>18 DEF vars
<1>19. QED
  BY <1>1, <1>2, <1>3, <1>4, <1>5, <1>6, <1>7, <1>8, <1>9, <1>10,
     <1>11, <1>12, <1>13, <1>14, <1>15, <1>16, <1>17, <1>18 DEF Next, Main, Printer, Terminated

\* A step opens or closes only the file its own thread holds.
LEMMA NextFileInv ==
  ASSUME IInv, TypeOK', PhaseInv', [Next]_vars
  PROVE  FileInv'
<1> USE ModeStable, ModeType, FileNames
    DEF IInv, TypeOK, PhaseInv, At, Goto, Return, Abort, Printing, Checking, PCs,
        Before, SinglePlaces, Spawning, MultiPlaces, Open, Close, NextPrint,
        FileInv, Closed, Suffixes, PrinterStates, Plain, Idx
<1>1. CASE \/ ReadPublicInput \/ ReadPrivateInput \/ ParseIrFile
           \/ DumpPublicInput \/ PackLookupTables
  BY <1>1 DEF ReadPublicInput, ReadPrivateInput, ParseIrFile, DumpPublicInput, PackLookupTables
<1>2. CASE Evaluate
  BY <1>2 DEF Evaluate
<1>3. CASE SelectProvers
  BY <1>3 DEF SelectProvers
<1>4. CASE OpenTable
  BY <1>4 DEF OpenTable
<1>5. CASE WriteTable
  BY <1>5 DEF WriteTable
<1>6. CASE OpenCircuit
  BY <1>6 DEF OpenCircuit
<1>7. CASE WriteCircuit
  BY <1>7 DEF WriteCircuit
<1>8. CASE LaunchPrinter
  <2>1. idx \in Idx
    BY <1>8 DEF LaunchPrinter
  <2>2. UNCHANGED file /\ pc' # "proxy_circuit_write" /\ pc \notin {"table_write", "circuit_write", "proxy_circuit_write"}
        /\ pc' \notin {"table_write", "circuit_write"}
    BY <1>8 DEF LaunchPrinter
  <2>3. \/ UNCHANGED printer
        \/ printer[idx] = "none" /\ printer' = [printer EXCEPT ![idx] = "launched"]
    BY <1>8, <2>1 DEF LaunchPrinter, PrintInv
  <2>4. exit # "abort"
    BY <1>8 DEF LaunchPrinter
  <2>5. QED  BY <2>1, <2>2, <2>3, <2>4
<1>9. CASE OpenProxyCircuit
  BY <1>9 DEF OpenProxyCircuit
<1>10. CASE WriteProxyCircuit
  BY <1>10 DEF WriteProxyCircuit
<1>11. CASE JoinPrinter
  BY <1>11 DEF JoinPrinter
<1>12. CASE CheckValidity
  BY <1>12 DEF CheckValidity
<1>13. CASE CheckProver
  BY <1>13 DEF CheckProver
<1>14. CASE Unwind
  BY <1>14 DEF Unwind
<1>15. ASSUME NEW i \in Idx, OpenPrinterTable(i)
      PROVE  FileInv'
  BY <1>15 DEF OpenPrinterTable
<1>16. ASSUME NEW i \in Idx, WritePrinterTable(i)
      PROVE  FileInv'
  BY <1>16 DEF WritePrinterTable
<1>17. CASE Killed
  BY <1>17 DEF Killed
<1>18. CASE UNCHANGED vars
  BY <1>18 DEF vars
<1>19. QED
  BY <1>1, <1>2, <1>3, <1>4, <1>5, <1>6, <1>7, <1>8, <1>9, <1>10,
     <1>11, <1>12, <1>13, <1>14, <1>15, <1>16, <1>17, <1>18 DEF Next, Main, Printer, Terminated

\* Nothing is printed ahead of the loop.
LEMMA NextPrintInv ==
  ASSUME IInv, TypeOK', PhaseInv', [Next]_vars
  PROVE  PrintInv'
<1> USE ModeStable, ModeType, FileNames
    DEF IInv, TypeOK, PhaseInv, At, Goto, Return, Abort, Printing, Checking, PCs,
        Before, SinglePlaces, Spawning, MultiPlaces, Open, Close, NextPrint,
        PrintInv, Suffixes, Plain, Idx
<1>1. CASE \/ ReadPublicInput \/ ReadPrivateInput \/ ParseIrFile
           \/ DumpPublicInput \/ PackLookupTables
  BY <1>1 DEF ReadPublicInput, ReadPrivateInput, ParseIrFile, DumpPublicInput, PackLookupTables
<1>2. CASE Evaluate
  BY <1>2 DEF Evaluate
<1>3. CASE SelectProvers
  BY <1>3 DEF SelectProvers
<1>4. CASE OpenTable
  BY <1>4 DEF OpenTable
<1>5. CASE WriteTable
  BY <1>5 DEF WriteTable
<1>6. CASE OpenCircuit
  BY <1>6 DEF OpenCircuit
<1>7. CASE WriteCircuit
  BY <1>7 DEF WriteCircuit
<1>8. CASE LaunchPrinter
  BY <1>8 DEF LaunchPrinter
<1>9. CASE OpenProxyCircuit
  BY <1>9 DEF OpenProxyCircuit
<1>10. CASE WriteProxyCircuit
  BY <1>10 DEF WriteProxyCircuit
<1>11. CASE JoinPrinter
  BY <1>11 DEF JoinPrinter
<1>12. CASE CheckValidity
  BY <1>12 DEF CheckValidity
<1>13. CASE CheckProver
  BY <1>13 DEF CheckProver
<1>14. CASE Unwind
  BY <1>14 DEF Unwind
<1>15. ASSUME NEW i \in Idx, OpenPrinterTable(i)
      PROVE  PrintInv'
  BY <1>15 DEF OpenPrinterTable
<1>16. ASSUME NEW i \in Idx, WritePrinterTable(i)
      PROVE  PrintInv'
  BY <1>16 DEF WritePrinterTable
<1>17. CASE Killed
  BY <1>17 DEF Killed
<1>18. CASE UNCHANGED vars
  BY <1>18 DEF vars
<1>19. QED
  BY <1>1, <1>2, <1>3, <1>4, <1>5, <1>6, <1>7, <1>8, <1>9, <1>10,
     <1>11, <1>12, <1>13, <1>14, <1>15, <1>16, <1>17, <1>18 DEF Next, Main, Printer, Terminated

\* The loops leave nothing behind, and the join waits for every table.
LEMMA NextProgressInv ==
  ASSUME IInv, TypeOK', PhaseInv', [Next]_vars
  PROVE  ProgressInv'
<1> USE ModeStable, ModeType, FileNames
    DEF IInv, TypeOK, PhaseInv, At, Goto, Return, Abort, Printing, Checking, PCs,
        Before, SinglePlaces, Spawning, MultiPlaces, Open, Close, NextPrint,
        ProgressInv, Closed, Suffixes, Plain, Idx
<1>1. CASE \/ ReadPublicInput \/ ReadPrivateInput \/ ParseIrFile
           \/ DumpPublicInput \/ PackLookupTables
  BY <1>1 DEF ReadPublicInput, ReadPrivateInput, ParseIrFile, DumpPublicInput, PackLookupTables
<1>2. CASE Evaluate
  BY <1>2 DEF Evaluate
<1>3. CASE SelectProvers
  BY <1>3, OutputsOf DEF SelectProvers, PrintInv, CheckInv, FutureInv
<1>4. CASE OpenTable
  BY <1>4 DEF OpenTable
<1>5. CASE WriteTable
  BY <1>5 DEF WriteTable
<1>6. CASE OpenCircuit
  <2>1. CASE UNCHANGED file
    <3>1. Single /\ futures = {}
      BY <1>6 DEF OpenCircuit, PrintInv, FutureInv
    <3>2. ~HasCircuit /\ HasAssignments => \A f \in Requested : f = Table(Plain)
      BY <3>1, OutputsOf
    <3>3. ~HasCircuit /\ ~HasAssignments => Requested = {}
      BY OutputsOf
    <3>4. HasAssignments => Closed(Table(Plain))
      BY <1>6 DEF OpenCircuit
    <3>5. ~HasCircuit => \A f \in Requested : Closed(f)
      BY <3>2, <3>3, <3>4
    <3>6. pc' = "unwind" \/ (pc' = "check" /\ ~HasCircuit)
      BY <1>6, <2>1, ClosedStable, FileNames DEF OpenCircuit, FileInv
    <3>7. UNCHANGED <<request, provers, futures>>
      BY <1>6 DEF OpenCircuit
    <3>8. QED  BY <2>1, <3>1, <3>5, <3>6, <3>7, ClosedStable
  <2>2. CASE HasCircuit /\ pc' = "circuit_write" /\ file' = [file EXCEPT ![Circuit(Plain)] = "torn"]
    BY <1>6, <2>2 DEF OpenCircuit
  <2>3. QED  BY <1>6, <2>1, <2>2 DEF OpenCircuit
<1>7. CASE WriteCircuit
  <2>1. Single /\ pc' = "check" /\ futures' = futures /\ HasCircuit
    BY <1>7 DEF WriteCircuit
  <2>2. Closed(Circuit(Plain))'
    BY <1>7 DEF WriteCircuit
  <2>3. HasAssignments => Closed(Table(Plain))'
    BY <1>7 DEF WriteCircuit
  <2>4. futures = {}
    BY <1>7 DEF WriteCircuit, PrintInv, FutureInv
  <2>5. \A f \in Requested' : Closed(f)'
    BY <2>1, <2>2, <2>3, <1>7, OutputsOf DEF WriteCircuit
  <2>6. QED  BY <2>1, <2>4, <2>5
<1>8. CASE LaunchPrinter
  BY <1>8 DEF LaunchPrinter
<1>9. CASE OpenProxyCircuit
  BY <1>9 DEF OpenProxyCircuit
<1>10. CASE WriteProxyCircuit
  BY <1>10 DEF WriteProxyCircuit
<1>11. CASE JoinPrinter
  <2>1. CASE futures = {}
    <3>1. \A f \in Requested : Closed(f)
      BY <1>11, <2>1, OutputsOf DEF JoinPrinter, FileInv
    <3>2. UNCHANGED <<request, provers, file>> /\ pc' = "check" /\ futures' = {}
      BY <1>11, <2>1 DEF JoinPrinter
    <3>3. QED  BY <3>1, <3>2, ClosedStable
  <2>2. CASE futures # {}
    BY <1>11, <2>2, ClosedStable DEF JoinPrinter, Ended
  <2>3. QED  BY <2>1, <2>2
<1>12. CASE CheckValidity
  BY <1>12 DEF CheckValidity
<1>13. CASE CheckProver
  BY <1>13 DEF CheckProver
<1>14. CASE Unwind
  BY <1>14 DEF Unwind
<1>15. ASSUME NEW i \in Idx, OpenPrinterTable(i)
      PROVE  ProgressInv'
  <2>1. pc \notin {"circuit", "circuit_write", "check", "checking"}
    BY <1>15 DEF OpenPrinterTable, PrintInv, FutureInv, Idle
  <2>2. i \in futures
    BY <1>15 DEF OpenPrinterTable, FutureInv, Idle
  <2>3. QED  BY <1>15, <2>1, <2>2 DEF OpenPrinterTable
<1>16. ASSUME NEW i \in Idx, WritePrinterTable(i)
      PROVE  ProgressInv'
  <2>1. pc \notin {"circuit", "circuit_write", "check", "checking"} /\ i \in futures
    BY <1>16 DEF WritePrinterTable, PrintInv, FutureInv, Idle
  <2>2. CASE UNCHANGED file
    BY <1>16, <2>1, <2>2 DEF WritePrinterTable
  <2>3. CASE Close(Table(i)) /\ printer' = [printer EXCEPT ![i] = "done"]
    BY <1>16, <2>1, <2>3 DEF WritePrinterTable
  <2>4. QED  BY <1>16, <2>2, <2>3 DEF WritePrinterTable
<1>17. CASE Killed
  BY <1>17 DEF Killed
<1>18. CASE UNCHANGED vars
  BY <1>18 DEF vars
<1>19. QED
  BY <1>1, <1>2, <1>3, <1>4, <1>5, <1>6, <1>7, <1>8, <1>9, <1>10,
     <1>11, <1>12, <1>13, <1>14, <1>15, <1>16, <1>17, <1>18 DEF Next, Main, Printer, Terminated

\* The check loop visits the provers in order.
LEMMA NextCheckInv ==
  ASSUME IInv, TypeOK', PhaseInv', [Next]_vars
  PROVE  CheckInv'
<1> USE ModeStable, ModeType, FileNames
    DEF IInv, TypeOK, PhaseInv, At, Goto, Return, Abort, Printing, Checking, PCs,
        Before, SinglePlaces, Spawning, MultiPlaces, Open, Close, NextPrint,
        CheckInv
<1>1. CASE \/ ReadPublicInput \/ ReadPrivateInput \/ ParseIrFile
           \/ DumpPublicInput \/ PackLookupTables
  BY <1>1 DEF ReadPublicInput, ReadPrivateInput, ParseIrFile, DumpPublicInput, PackLookupTables
<1>2. CASE Evaluate
  BY <1>2 DEF Evaluate
<1>3. CASE SelectProvers
  BY <1>3 DEF SelectProvers
<1>4. CASE OpenTable
  BY <1>4 DEF OpenTable
<1>5. CASE WriteTable
  BY <1>5 DEF WriteTable
<1>6. CASE OpenCircuit
  BY <1>6 DEF OpenCircuit
<1>7. CASE WriteCircuit
  BY <1>7 DEF WriteCircuit
<1>8. CASE LaunchPrinter
  BY <1>8 DEF LaunchPrinter
<1>9. CASE OpenProxyCircuit
  BY <1>9 DEF OpenProxyCircuit
<1>10. CASE WriteProxyCircuit
  BY <1>10 DEF WriteProxyCircuit
<1>11. CASE JoinPrinter
  <2>1. idx = StartIdx /\ StartIdx .. StartIdx - 1 = {}
    BY <1>11 DEF JoinPrinter, Idx
  <2>2. verified' = {} /\ guarded' = {} /\ pc' # "checking"
    BY <1>11 DEF JoinPrinter
  <2>3. QED  BY <1>11, <2>1, <2>2 DEF JoinPrinter
<1>12. CASE CheckValidity
  BY <1>12 DEF CheckValidity
<1>13. CASE CheckProver
  <2>1. idx \in Nat /\ StartIdx \in Nat /\ StartIdx <= idx
    BY <1>13 DEF CheckProver, Idx
  <2>2. StartIdx .. (idx + 1) - 1 = (StartIdx .. idx - 1) \cup {idx}
    BY <2>1
  <2>3. QED  BY <1>13, <2>1, <2>2 DEF CheckProver
<1>14. CASE Unwind
  BY <1>14 DEF Unwind
<1>15. ASSUME NEW i \in Idx, OpenPrinterTable(i)
      PROVE  CheckInv'
  BY <1>15 DEF OpenPrinterTable
<1>16. ASSUME NEW i \in Idx, WritePrinterTable(i)
      PROVE  CheckInv'
  BY <1>16 DEF WritePrinterTable
<1>17. CASE Killed
  BY <1>17 DEF Killed
<1>18. CASE UNCHANGED vars
  BY <1>18 DEF vars
<1>19. QED
  BY <1>1, <1>2, <1>3, <1>4, <1>5, <1>6, <1>7, <1>8, <1>9, <1>10,
     <1>11, <1>12, <1>13, <1>14, <1>15, <1>16, <1>17, <1>18 DEF Next, Main, Printer, Terminated

\* Code 0 is returned only with everything done.
LEMMA NextDoneInv ==
  ASSUME IInv, TypeOK', PhaseInv', [Next]_vars
  PROVE  DoneInv'
<1> USE ModeStable, ModeType, FileNames
    DEF IInv, TypeOK, PhaseInv, At, Goto, Return, Abort, Printing, Checking, PCs,
        Before, SinglePlaces, Spawning, MultiPlaces, Open, Close, NextPrint,
        DoneInv, Closed
<1>1. CASE \/ ReadPublicInput \/ ReadPrivateInput \/ ParseIrFile
           \/ DumpPublicInput \/ PackLookupTables
  BY <1>1, OutputsOf, ClosedStable
     DEF ReadPublicInput, ReadPrivateInput, ParseIrFile, DumpPublicInput,
         PackLookupTables, CheckInv
<1>2. CASE Evaluate
  <2>1. CASE ret' = "0"
    <3>1. request' = request /\ request.kind = "size_estimation"
          /\ provers' \in 1 .. MaxProvers
      BY <1>2, <2>1 DEF Evaluate
    <3>2. ~HasAssignments' /\ ~HasCircuit'
      BY <3>1, OutputsOf DEF HasAssignments, HasCircuit
    <3>3. Requested' = {}
      BY <3>2 DEF Requested
    <3>4. QED  BY <3>2, <3>3
  <2>2. QED  BY <1>2, <2>1 DEF Evaluate
<1>3. CASE SelectProvers
  BY <1>3 DEF SelectProvers
<1>4. CASE OpenTable
  BY <1>4 DEF OpenTable
<1>5. CASE WriteTable
  BY <1>5 DEF WriteTable
<1>6. CASE OpenCircuit
  BY <1>6 DEF OpenCircuit
<1>7. CASE WriteCircuit
  BY <1>7 DEF WriteCircuit
<1>8. CASE LaunchPrinter
  BY <1>8 DEF LaunchPrinter
<1>9. CASE OpenProxyCircuit
  BY <1>9 DEF OpenProxyCircuit
<1>10. CASE WriteProxyCircuit
  BY <1>10 DEF WriteProxyCircuit
<1>11. CASE JoinPrinter
  BY <1>11 DEF JoinPrinter
<1>12. CASE CheckValidity
  <2>1. CASE ret' = "0"
    <3>1. \A f \in Requested' : Closed(f)'
      BY <1>12, ClosedStable DEF CheckValidity, ProgressInv
    <3>2. request.check /\ HasAssignments => Single /\ verified' = {Plain}
      BY <1>12, <2>1 DEF CheckValidity
    <3>3. QED  BY <1>12, <3>1, <3>2, OutputsOf DEF CheckValidity
  <2>2. QED  BY <1>12, <2>1 DEF CheckValidity
<1>13. CASE CheckProver
  <2>1. CASE ret' = "0"
    <3>1. \A f \in Requested' : Closed(f)'
      BY <1>13, ClosedStable DEF CheckProver, ProgressInv
    <3>2. verified' = (StartIdx .. idx - 1) \cup {idx} /\ idx + 1 >= EndIdx
      BY <1>13, <2>1 DEF CheckProver, CheckInv, Idx
    <3>3. verified' = StartIdx .. EndIdx - 1
      BY <1>13, <3>2 DEF CheckProver, Idx
    <3>4. QED  BY <1>13, <3>1, <3>3, OutputsOf DEF CheckProver
  <2>2. QED  BY <1>13, <2>1 DEF CheckProver
<1>14. CASE Unwind
  BY <1>14 DEF Unwind
<1>15. ASSUME NEW i \in Idx, OpenPrinterTable(i)
      PROVE  DoneInv'
  <2>1. CASE pc = "unwind" /\ ret = "0"
    <3>1. file[Table(i)] = "old"
      BY <1>15 DEF OpenPrinterTable, FileInv
    <3>2. ~Closed(Table(i))
      BY <3>1
    <3>3. Table(i) \notin Requested
      BY ONLY <2>1, <3>2, DoneInv DEF DoneInv
    <3>4. QED  BY <1>15, <2>1, <3>3, OutputsOf DEF OpenPrinterTable
  <2>2. QED  BY <1>15, <2>1 DEF OpenPrinterTable
<1>16. ASSUME NEW i \in Idx, WritePrinterTable(i)
      PROVE  DoneInv'
  <2>1. CASE UNCHANGED file
    BY <1>16, <2>1, ClosedStable DEF WritePrinterTable
  <2>2. CASE Close(Table(i))
    BY <1>16, <2>2 DEF WritePrinterTable
  <2>3. QED  BY <1>16, <2>1, <2>2 DEF WritePrinterTable
<1>17. CASE Killed
  BY <1>17 DEF Killed
<1>18. CASE UNCHANGED vars
  BY <1>18 DEF vars
<1>19. QED
  BY <1>1, <1>2, <1>3, <1>4, <1>5, <1>6, <1>7, <1>8, <1>9, <1>10,
     <1>11, <1>12, <1>13, <1>14, <1>15, <1>16, <1>17, <1>18 DEF Next, Main, Printer, Terminated

LEMMA Invariance == SafeSpec => []IInv
<1>1. IInv /\ [Next]_vars => IInv'
  BY NextTypePhase, NextFutureInv, NextFileInv, NextPrintInv, NextProgressInv,
     NextCheckInv, NextDoneInv DEF IInv
<1>2. QED
  BY InitInv, <1>1, PTL DEF SafeSpec

\* A run that returns 0 has every file it was asked for, each closed by the thread that
\* wrote it, and with --check the whole of its circuits checked.
THEOREM SuccessIsDone == SafeSpec => []SuccessMeansDone
<1>1. IInv => SuccessMeansDone
  BY DEF IInv, SuccessMeansDone, DoneInv, PhaseInv, TypeOK
<1>2. QED
  BY Invariance, <1>1, PTL

\* No return from curve_dependent_main leaves a printing thread behind.
THEOREM PrintersDoNotOutliveMain == SafeSpec => []ReturnAfterPrinters
  BY Invariance, PTL DEF IInv, FutureInv

\* Checks toggle the tables' flags only after the last reader has gone.
THEOREM ChecksAreAlone == SafeSpec => []ChecksRunAlone
<1>1. IInv => ChecksRunAlone
  BY DEF IInv, ChecksRunAlone, FutureInv, ProgressInv, CheckInv
<1>2. QED
  BY Invariance, <1>1, PTL
-------------------------------------------------------------------------------
(***************************************************************************)
(* Refinement.                                                             *)
(***************************************************************************)
LEMMA OutcomeStable ==
  ASSUME UNCHANGED exit
  PROVE  Outcome' = Outcome
  BY DEF Outcome

\* What a step of the driver is, to the contract.
LEMMA StepRefines ==
  ASSUME IInv, IInv', [Next]_vars
  PROVE  [Contract!Next]_(Contract!vars)
<1> USE ModeStable, ModeType, FileNames
    DEF IInv, TypeOK, PhaseInv, At, Goto, Return, Abort, Printing, Checking
<1>1. ASSUME NEW f \in Requested, Open(f), file[f] = "old",
             exit = "running", UNCHANGED <<request, provers, exit>>
      PROVE  [Contract!Next]_(Contract!vars)
  <2>1. f \in Files
    BY <1>1, OutputsOf
  <2>2. Contract!Start(f)
    BY <1>1, <2>1, OutcomeStable DEF Contract!Start, Contract!Running, Outcome, Open
  <2>3. QED  BY <2>1, <2>2 DEF Contract!Next
<1>2. ASSUME NEW f \in Files, Close(f), file[f] = "torn",
             exit = "running", UNCHANGED <<request, provers, exit>>
      PROVE  [Contract!Next]_(Contract!vars)
  <2>1. \E s \in {"written", "lost"} : file' = [file EXCEPT ![f] = s]
    BY <1>2 DEF Close
  <2>2. Contract!Finish(f)
    BY <1>2, <2>1, OutcomeStable DEF Contract!Finish, Contract!Running, Outcome
  <2>3. QED  BY <2>2 DEF Contract!Next
<1>3. ASSUME exit = "running", exit' = "abort", UNCHANGED <<request, provers, file>>
      PROVE  [Contract!Next]_(Contract!vars)
  BY <1>3 DEF Contract!Next, Contract!Abort, Contract!End, Outcome
<1>4. ASSUME UNCHANGED <<request, provers, file, exit>>
      PROVE  [Contract!Next]_(Contract!vars)
  BY <1>4, OutcomeStable DEF Contract!vars
<1>5. CASE \/ ReadPublicInput \/ ReadPrivateInput \/ ParseIrFile
           \/ DumpPublicInput \/ SelectProvers \/ JoinPrinter
  BY <1>5, <1>4
     DEF ReadPublicInput, ReadPrivateInput, ParseIrFile, DumpPublicInput,
         SelectProvers, JoinPrinter
<1>6. CASE PackLookupTables
  BY <1>6, <1>3, <1>4 DEF PackLookupTables
<1>7. CASE Evaluate
  <2>1. provers = 0 /\ UNCHANGED <<request, file>> /\ exit = "running"
    BY <1>7 DEF Evaluate, Before
  <2>2. CASE UNCHANGED provers
    BY <1>7, <2>1, <2>2, <1>3, <1>4 DEF Evaluate
  <2>3. CASE provers' # provers
    <3>1. Requested = {}
      BY <2>1, OutputsOf
    <3>2. Requested' \subseteq Files
      <4>1. Outputs' \subseteq Suffixes
        BY DEF Outputs, Single, Multi, StartIdx, EndIdx, Requests, NoTarget, Suffixes,
               Idx, Plain
      <4>2. QED  BY <4>1 DEF Requested
    <3>3. UNCHANGED exit
      BY <1>7, <2>1, <2>3 DEF Evaluate
    <3>4. Contract!Settle(Requested')
      BY <2>1, <3>1, <3>3, OutcomeStable
         DEF Contract!Settle, Contract!Running, Outcome
    <3>5. QED  BY <3>2, <3>4 DEF Contract!Next
  <2>4. QED  BY <2>2, <2>3
<1>8. CASE OpenTable
  <2>1. Single /\ file[Table(Plain)] = "old"
    BY <1>8 DEF OpenTable, PrintInv, SinglePlaces
  <2>2. HasAssignments => Table(Plain) \in Requested
    BY <2>1, OutputsOf
  <2>3. QED  BY <1>8, <2>1, <2>2, <1>1, <1>4 DEF OpenTable
<1>9. CASE WriteTable
  BY <1>9, <1>2 DEF WriteTable, FileInv, Suffixes
<1>10. CASE OpenCircuit
  <2>1. Single /\ file[Circuit(Plain)] = "old"
    BY <1>10 DEF OpenCircuit, PrintInv, SinglePlaces
  <2>2. HasCircuit => Circuit(Plain) \in Requested
    BY <2>1, OutputsOf
  <2>3. QED  BY <1>10, <2>1, <2>2, <1>1, <1>4 DEF OpenCircuit
<1>11. CASE WriteCircuit
  BY <1>11, <1>2 DEF WriteCircuit, FileInv, Suffixes
<1>12. CASE LaunchPrinter
  BY <1>12, <1>3, <1>4 DEF LaunchPrinter
<1>13. CASE OpenProxyCircuit
  <2>1. Multi /\ idx \in StartIdx .. EndIdx - 1 /\ idx \in Idx
    BY <1>13 DEF OpenProxyCircuit, MultiPlaces, Spawning, Idx
  <2>2. file[Circuit(idx)] = "old"
    BY <1>13, <2>1 DEF OpenProxyCircuit, PrintInv, Spawning
  <2>3. HasCircuit => Circuit(idx) \in Requested
    BY <2>1, OutputsOf
  <2>4. UNCHANGED <<request, provers, exit>> /\ exit = "running"
    BY <1>13 DEF OpenProxyCircuit, NextPrint
  <2>5. UNCHANGED file \/ (HasCircuit /\ Open(Circuit(idx)))
    BY <1>13 DEF OpenProxyCircuit
  <2>6. QED  BY <2>2, <2>3, <2>4, <2>5, <1>1, <1>4
<1>14. CASE WriteProxyCircuit
  <2>1. idx \in Idx /\ file[Circuit(idx)] = "torn"
    BY <1>14 DEF WriteProxyCircuit, FileInv, MultiPlaces, Spawning, Idx
  <2>2. UNCHANGED <<request, provers, exit>> /\ exit = "running"
    BY <1>14 DEF WriteProxyCircuit, NextPrint
  <2>3. QED  BY <1>14, <2>1, <2>2, <1>2 DEF WriteProxyCircuit, Suffixes
<1>15. CASE CheckValidity
  BY <1>15, <1>3, <1>4 DEF CheckValidity
<1>16. CASE CheckProver
  BY <1>16, <1>3, <1>4 DEF CheckProver
<1>17. CASE Unwind
  <2>1. exit = "running" /\ exit' \in {"0", "1"} /\ UNCHANGED <<request, provers, file>>
    BY <1>17 DEF Unwind
  <2>2. CASE exit' = "0"
    <3>1. \A f \in Requested : file[f] \in {"written", "lost"}
      BY <1>17, <2>2, OutputsOf DEF Unwind, DoneInv, Closed
    <3>2. Contract!Succeed
      BY <2>1, <2>2, <3>1
         DEF Contract!Succeed, Contract!End, Outcome
    <3>3. QED  BY <3>2 DEF Contract!Next
  <2>3. CASE exit' = "1"
    <3>1. \A i \in Idx : Idle(i)
      BY <1>17 DEF Unwind, FutureInv, Idle, Ended
    <3>2. /\ \A i \in Idx : file[Circuit(i)] # "torn"
          /\ file[Table(Plain)] # "torn" /\ file[Circuit(Plain)] # "torn"
      BY <1>17 DEF Unwind, FileInv
    <3>3. \A f \in Files \ {Table(i) : i \in Idx} : file[f] # "torn"
      BY <3>2 DEF Suffixes
    <3>4. Contract!Fail
      BY <2>1, <2>3, <3>3 DEF Contract!Fail, Contract!End, Outcome
    <3>5. QED  BY <3>4 DEF Contract!Next
  <2>4. QED  BY <2>1, <2>2, <2>3
<1>18. ASSUME NEW i \in Idx, OpenPrinterTable(i)
       PROVE  [Contract!Next]_(Contract!vars)
  <2>1. file[Table(i)] = "old" /\ exit = "running"
    BY <1>18 DEF OpenPrinterTable, FileInv
  <2>2. CASE UNCHANGED file
    BY <1>18, <2>2, <1>4 DEF OpenPrinterTable
  <2>3. CASE Open(Table(i))
    <3>1. HasAssignments /\ i \in Outputs
      BY <1>18, OutputsOf DEF OpenPrinterTable, PrintInv, Idx
    <3>2. Table(i) \in Requested
      BY <3>1, OutputsOf
    <3>3. QED  BY <1>18, <2>1, <2>3, <3>2, <1>1 DEF OpenPrinterTable
  <2>4. QED  BY <1>18, <2>2, <2>3 DEF OpenPrinterTable
<1>19. ASSUME NEW i \in Idx, WritePrinterTable(i)
       PROVE  [Contract!Next]_(Contract!vars)
  BY <1>19, <1>2, <1>4 DEF WritePrinterTable, FileInv, Suffixes
<1>20. CASE Killed
  BY <1>20, <1>3 DEF Killed
<1>21. CASE UNCHANGED vars
  BY <1>21, <1>4 DEF vars
<1>22. QED
  BY <1>5, <1>6, <1>7, <1>8, <1>9, <1>10, <1>11, <1>12, <1>13, <1>14, <1>15,
     <1>16, <1>17, <1>18, <1>19, <1>20, <1>21 DEF Next, Main, Printer, Terminated

\* Threads that throw before or after they opened their table, early returns and aborts
\* anywhere included, the driver keeps ArtifactContract: it reports success only with every
\* output written to its end, and the only file a reported failure leaves in pieces is the
\* table of a thread that threw.
THEOREM Refinement == SafeSpec => ImplementsContract
<1>1. Init => Contract!Init
  BY DEF Init, Contract!Init, Outcome, Requested, Outputs, Single, Multi
<1>2. QED
  BY <1>1, StepRefines, Invariance, PTL DEF SafeSpec, ImplementsContract, Contract!Spec
-------------------------------------------------------------------------------
(***************************************************************************)
(* Every step is one of finitely many, and while the process runs there is *)
(* one to take.                                                            *)
(***************************************************************************)
MainStepsTable ==
    /\ MainSteps \in Nat
    /\ pc = "end" => MainSteps = 0
    /\ pc = "unwind" => MainSteps = 1
    /\ pc = "checking" => MainSteps = 2 * MaxProvers + 2 - 2 * idx
    /\ pc = "check" => MainSteps = 2 * MaxProvers + 3 - 2 * idx
    /\ pc = "join" => MainSteps = 2 * MaxProvers + 4
    /\ pc = "proxy_circuit_write" => MainSteps = 5 * MaxProvers + 5 - 3 * idx
    /\ pc = "proxy_circuit" => MainSteps = 5 * MaxProvers + 6 - 3 * idx
    /\ pc = "spawn" => MainSteps = 5 * MaxProvers + 7 - 3 * idx
    /\ pc = "circuit_write" => MainSteps = 2 * MaxProvers + 5
    /\ pc = "circuit" => MainSteps = 2 * MaxProvers + 6
    /\ pc = "table_write" => MainSteps = 2 * MaxProvers + 7
    /\ pc = "table" => MainSteps = 2 * MaxProvers + 8
    /\ pc = "select" => MainSteps = 5 * MaxProvers + 8
    /\ pc = "pack" => MainSteps = 5 * MaxProvers + 9
    /\ pc \in {"evaluate", "dump"} => MainSteps = 5 * MaxProvers + 10
    /\ pc = "parse" => MainSteps = 5 * MaxProvers + 11
    /\ pc = "private" => MainSteps = 5 * MaxProvers + 12
    /\ pc = "public" => MainSteps = 5 * MaxProvers + 13
    /\ pc \notin {"unwind", "end"} => MainSteps > 1

PrinterStepsTable ==
    \A i \in Idx :
       /\ PrinterSteps(i) \in Nat
       /\ PrinterSteps(i) = (IF printer[i] \in {"none", "launched"} THEN 2
                             ELSE IF printer[i] = "printing" THEN 1 ELSE 0)
                            + (IF printer[i] = "none" \/ i \in futures THEN 1 ELSE 0)

LEMMA StepsCount == TypeOK => MainStepsTable /\ PrinterStepsTable
<1>1. TypeOK => MainStepsTable
  BY DEF TypeOK, PCs, MainSteps, StepsFrom, MainStepsTable
<1>2. TypeOK => PrinterStepsTable
  BY DEF TypeOK, PrinterStates, PrinterSteps, PrinterStepsTable
<1>3. QED  BY <1>1, <1>2

Forward == /\ MainSteps' <= MainSteps
           /\ \A i \in Idx : PrinterSteps(i)' <= PrinterSteps(i)
           /\ MainSteps' < MainSteps \/ \E i \in Idx : PrinterSteps(i)' < PrinterSteps(i)

LEMMA ChecksLeft == \A n, k \in Nat : 2 * n + 3 - 2 * k <= 2 * n + 3
  OBVIOUS

LEMMA StepForward == IInv /\ TypeOK' /\ Next => Forward \/ UNCHANGED vars
<1> SUFFICES ASSUME IInv, TypeOK', Next, ~UNCHANGED vars PROVE Forward
  OBVIOUS
<1>1. /\ TypeOK /\ MainStepsTable /\ PrinterStepsTable
      /\ MainStepsTable' /\ PrinterStepsTable'
  BY StepsCount, PTL DEF IInv
<1>2. /\ MainSteps \in Nat /\ MainSteps' \in Nat /\ pc \in PCs
      /\ MaxProvers \in Nat /\ MaxProvers >= 1
      /\ idx \in Nat /\ idx <= MaxProvers /\ idx' \in Nat /\ idx' <= MaxProvers
  BY <1>1, MaxProversAssumption DEF MainStepsTable, TypeOK
<1>k. PICK k \in Nat : k = idx' /\ k <= MaxProvers
  BY <1>2
\* As long as no thread is launched or joined, only the main thread counts.
<1>3. ASSUME MainSteps' < MainSteps, UNCHANGED <<printer, futures>> PROVE Forward
  <2>1. \A i \in Idx : PrinterSteps(i)' = PrinterSteps(i)
    BY <1>3 DEF PrinterSteps
  <2>2. QED  BY <1>1, <1>2, <1>3, <2>1 DEF Forward, PrinterStepsTable
\* A return or an abort is on the way to the end.
<1>4. ((pc' = "unwind" /\ pc # "unwind") \/ pc' = "end") /\ pc # "end" => MainSteps' < MainSteps
  BY <1>1, <1>2 DEF MainStepsTable
<1>5. CASE \/ ReadPublicInput \/ ReadPrivateInput \/ ParseIrFile \/ DumpPublicInput
           \/ Evaluate \/ PackLookupTables
  <2>1. UNCHANGED <<printer, futures, idx>>
    BY <1>5 DEF ReadPublicInput, ReadPrivateInput, ParseIrFile, DumpPublicInput, Evaluate,
                PackLookupTables, Printing
  <2>2. MainSteps' < MainSteps
    BY <1>1, <1>2, <1>5
       DEF ReadPublicInput, ReadPrivateInput, ParseIrFile, DumpPublicInput, Evaluate,
           PackLookupTables, At, Goto, Return, Abort, MainStepsTable
  <2>3. QED  BY <1>3, <2>1, <2>2
<1>6. CASE SelectProvers
  <2>1. UNCHANGED <<printer, futures>>
    BY <1>6 DEF SelectProvers, Printing
  <2>2. MainSteps' < MainSteps
    <3>1. pc = "select" /\ pc' \in {"table", "spawn", "unwind"}
      BY <1>6 DEF SelectProvers, At, Goto, Return
    <3>2. MainSteps = 5 * MaxProvers + 8
      BY <1>1, <3>1 DEF MainStepsTable
    <3>3. /\ pc' = "table" => MainSteps' = 2 * MaxProvers + 8
          /\ pc' = "spawn" => MainSteps' = 5 * MaxProvers + 7 - 3 * k
          /\ pc' = "unwind" => MainSteps' = 1
      BY <1>1, <1>k DEF MainStepsTable
    <3>4. QED  BY <1>2, <3>1, <3>2, <3>3
  <2>3. QED  BY <1>3, <2>1, <2>2
<1>7. CASE OpenTable \/ WriteTable \/ OpenCircuit \/ WriteCircuit
  <2>1. UNCHANGED <<printer, futures, idx>>
    BY <1>7 DEF OpenTable, WriteTable, OpenCircuit, WriteCircuit
  <2>2. MainSteps' < MainSteps
    <3>1. \/ pc = "table" /\ pc' \in {"table_write", "circuit", "unwind"}
          \/ pc = "table_write" /\ pc' = "circuit"
          \/ pc = "circuit" /\ pc' \in {"circuit_write", "check", "unwind"}
          \/ pc = "circuit_write" /\ pc' = "check"
      BY <1>7 DEF OpenTable, WriteTable, OpenCircuit, WriteCircuit, At, Goto, Return
    <3>2. pc' = "check" => MainSteps' <= 2 * MaxProvers + 3
      <4>1. pc' = "check" => MainSteps' = 2 * MaxProvers + 3 - 2 * k
        BY <1>1, <1>k DEF MainStepsTable
      <4>2. k \in Nat
        OBVIOUS
      <4>3. QED  BY <1>2, <4>1, <4>2, ChecksLeft
    <3>3. QED  BY <1>1, <1>2, <3>1, <3>2 DEF MainStepsTable
  <2>3. QED  BY <1>3, <2>1, <2>2
<1>8. CASE OpenProxyCircuit \/ WriteProxyCircuit
  <2>1. UNCHANGED <<printer, futures>>
    BY <1>8 DEF OpenProxyCircuit, WriteProxyCircuit
  <2>2. CASE NextPrint
    <3>1. pc \in {"proxy_circuit", "proxy_circuit_write"}
      BY <1>8 DEF OpenProxyCircuit, WriteProxyCircuit, At
    <3>2. \/ pc' = "spawn" /\ idx' = idx + 1
          \/ pc' = "join"
      BY <2>2 DEF NextPrint, Goto
    <3>3. MainSteps' < MainSteps
      <4>1. MainSteps \in {5 * MaxProvers + 5 - 3 * idx, 5 * MaxProvers + 6 - 3 * idx}
        BY <1>1, <3>1 DEF MainStepsTable
      <4>2. pc' = "spawn" => MainSteps' = 5 * MaxProvers + 7 - 3 * k
        BY <1>1, <1>k DEF MainStepsTable
      <4>3. pc' = "join" => MainSteps' = 2 * MaxProvers + 4
        BY <1>1 DEF MainStepsTable
      <4>4. CASE pc' = "spawn"
        <5>1. k = idx + 1 /\ MainSteps' = 5 * MaxProvers + 4 - 3 * idx
          BY <1>2, <1>k, <3>2, <4>2, <4>4
        <5>2. QED  BY <1>2, <4>1, <5>1
      <4>5. CASE pc' = "join"
        BY <1>2, <4>1, <4>3, <4>5
      <4>6. QED  BY <3>2, <4>4, <4>5
    <3>4. QED  BY <1>3, <2>1, <3>3
  <2>3. CASE ~NextPrint
    <3>1. /\ pc = "proxy_circuit" /\ pc' \in {"proxy_circuit_write", "unwind"}
          /\ UNCHANGED idx
      BY <1>8, <2>3 DEF OpenProxyCircuit, WriteProxyCircuit, At, Goto, Return
    <3>2. MainSteps' < MainSteps
      BY <1>1, <1>2, <3>1 DEF MainStepsTable
    <3>3. QED  BY <1>3, <2>1, <3>2
  <2>4. QED  BY <2>2, <2>3
\* A thread is launched for a prover that has none.
<1>9. CASE LaunchPrinter
  <2>1. /\ pc = "spawn" /\ pc' \in {"proxy_circuit", "end"} /\ UNCHANGED idx
    BY <1>9 DEF LaunchPrinter, At, Goto, Abort
  <2>2. MainSteps' < MainSteps
    BY <1>1, <1>2, <2>1 DEF MainStepsTable
  <2>3. CASE UNCHANGED <<printer, futures>>
    BY <1>3, <2>2, <2>3
  <2>4. CASE ~UNCHANGED <<printer, futures>>
    <3>1. /\ printer' = [printer EXCEPT ![idx] = "launched"]
          /\ futures' = futures \cup {idx}
      BY <1>9, <2>4 DEF LaunchPrinter
    <3>2. \A i \in Idx : i = idx => printer[i] = "none"
      BY <2>1 DEF IInv, PrintInv, Spawning
    <3>3. \A i \in Idx : PrinterSteps(i)' <= PrinterSteps(i)
      <4>1. SUFFICES ASSUME NEW i \in Idx PROVE PrinterSteps(i)' <= PrinterSteps(i)
        OBVIOUS
      <4>2. CASE i = idx
        BY <1>1, <3>1, <3>2, <4>2 DEF PrinterStepsTable, TypeOK
      <4>3. CASE i # idx
        BY <1>1, <3>1, <4>3 DEF PrinterStepsTable, TypeOK
      <4>4. QED  BY <4>2, <4>3
    <3>4. QED  BY <1>1, <1>2, <2>2, <3>3 DEF Forward
  <2>5. QED  BY <2>3, <2>4
<1>10. CASE JoinPrinter
  <2>1. pc = "join" /\ UNCHANGED <<printer, idx>>
    BY <1>10 DEF JoinPrinter, At
  <2>2. CASE UNCHANGED futures /\ pc' = "check"
    <3>1. MainSteps' < MainSteps
      BY <1>1, <1>2, <2>1, <2>2 DEF MainStepsTable
    <3>2. QED  BY <1>3, <2>1, <2>2, <3>1
  <2>3. CASE \E i \in futures : /\ Ended(i) /\ futures' = futures \ {i}
                                /\ pc' \in {"join", "unwind"}
    <3>1. PICK i \in futures : /\ Ended(i) /\ futures' = futures \ {i}
                               /\ pc' \in {"join", "unwind"}
      BY <2>3
    <3>2. i \in Idx /\ printer[i] # "none"
      BY <1>1, <3>1 DEF TypeOK, Ended
    <3>3. PrinterSteps(i)' < PrinterSteps(i)
      BY <1>1, <2>1, <3>1, <3>2 DEF PrinterStepsTable
    <3>4. ASSUME NEW j \in Idx PROVE PrinterSteps(j)' <= PrinterSteps(j)
      BY <1>1, <2>1, <3>1 DEF PrinterStepsTable
    <3>5. MainSteps' <= MainSteps
      BY <1>1, <1>2, <2>1, <3>1 DEF MainStepsTable
    <3>6. QED  BY <3>2, <3>3, <3>4, <3>5 DEF Forward
  <2>4. QED  BY <1>10, <2>2, <2>3 DEF JoinPrinter, Goto, Return
<1>11. CASE CheckValidity
  <2>1. UNCHANGED <<printer, futures, idx>> /\ pc = "check"
        /\ pc' \in {"checking", "unwind", "end"}
    BY <1>11 DEF CheckValidity, Printing, At, Goto, Return, Abort
  <2>2. MainSteps' < MainSteps
    BY <1>1, <1>2, <2>1 DEF MainStepsTable
  <2>3. QED  BY <1>3, <2>1, <2>2
<1>12. CASE CheckProver
  <2>1. /\ UNCHANGED <<printer, futures>> /\ pc = "checking"
        /\ \/ pc' = "check" /\ idx' = idx + 1
           \/ pc' \in {"unwind", "end"}
    BY <1>12 DEF CheckProver, Printing, At, Goto, Return, Abort
  <2>2. MainSteps' < MainSteps
    <3>1. MainSteps = 2 * MaxProvers + 2 - 2 * idx
      BY <1>1, <2>1 DEF MainStepsTable
    <3>2. pc' = "check" => MainSteps' = 2 * MaxProvers + 3 - 2 * k
      BY <1>1, <1>k DEF MainStepsTable
    <3>3. pc' \in {"unwind", "end"} => MainSteps' <= 1
      BY <1>1 DEF MainStepsTable
    <3>4. CASE pc' = "check" /\ idx' = idx + 1
      <4>1. k = idx + 1 /\ MainSteps' = 2 * MaxProvers + 1 - 2 * idx
        BY <1>2, <1>k, <3>2, <3>4
      <4>2. QED  BY <1>2, <3>1, <4>1
    <3>5. CASE pc' \in {"unwind", "end"}
      BY <1>2, <3>1, <3>3, <3>5
    <3>6. QED  BY <2>1, <3>4, <3>5
  <2>3. QED  BY <1>3, <2>1, <2>2
<1>13. CASE Unwind
  <2>1. UNCHANGED <<printer, futures>> /\ pc = "unwind" /\ pc' = "end"
    BY <1>13 DEF Unwind, Printing, At
  <2>2. QED  BY <1>3, <1>4, <2>1
<1>14. ASSUME NEW i \in Idx, Printer(i) PROVE Forward
  <2>1. /\ UNCHANGED <<pc, idx, futures>>
        /\ \A j \in Idx \ {i} : printer'[j] = printer[j]
        /\ \/ printer[i] = "launched" /\ printer'[i] \in {"printing", "threw"}
           \/ printer[i] = "printing" /\ printer'[i] \in {"done", "threw"}
    BY <1>1, <1>14 DEF Printer, OpenPrinterTable, WritePrinterTable, TypeOK
  <2>2. PrinterSteps(i)' < PrinterSteps(i)
    BY <1>1, <2>1 DEF PrinterStepsTable
  <2>3. ASSUME NEW j \in Idx \ {i} PROVE PrinterSteps(j)' <= PrinterSteps(j)
    BY <1>1, <2>1 DEF PrinterStepsTable
  <2>4. MainSteps' = MainSteps
    <3>1. pc' = pc /\ idx' = idx
      BY <2>1
    <3>2. StepsFrom(pc', idx') = StepsFrom(pc, idx)
      BY ONLY <3>1
    <3>3. QED  BY <3>2 DEF MainSteps
  <2>5. \A j \in Idx : PrinterSteps(j)' <= PrinterSteps(j)
    <3>1. PrinterSteps(i) \in Nat /\ PrinterSteps(i)' \in Nat
      BY <1>1 DEF PrinterStepsTable
    <3>2. PrinterSteps(i)' <= PrinterSteps(i)
      BY <2>2, <3>1
    <3>3. QED  BY <2>3, <3>2
  <2>6. MainSteps' <= MainSteps
    BY <1>2, <2>4
  <2>7. QED  BY <2>2, <2>5, <2>6 DEF Forward
<1>15. CASE Killed
  <2>1. UNCHANGED <<printer, futures>> /\ pc # "end" /\ pc' = "end"
    BY <1>15 DEF Killed, Abort, Printing, IInv, PhaseInv
  <2>2. QED  BY <1>3, <1>4, <2>1
<1>16. QED
  BY <1>5, <1>6, <1>7, <1>8, <1>9, <1>10, <1>11, <1>12, <1>13, <1>14, <1>15
     DEF Next, Main, Terminated

(***************************************************************************)
(* StepsRunOut: whatever fails and whichever thread is scheduled, each     *)
(* step of a run for any number of provers takes one step off the budget   *)
(* of the main thread or of a printing thread and gives none back, so that *)
(* no run has more than 5 * MaxProvers + 13 + 3 * MaxProvers steps.        *)
(***************************************************************************)
THEOREM StepsAreCounted == SafeSpec => StepsRunOut
<1>1. IInv /\ TypeOK' /\ [Next]_vars
      => \/ /\ MainSteps' <= MainSteps
            /\ \A i \in Idx : PrinterSteps(i)' <= PrinterSteps(i)
            /\ \/ MainSteps' < MainSteps
               \/ \E i \in Idx : PrinterSteps(i)' < PrinterSteps(i)
         \/ UNCHANGED vars
  BY StepForward DEF Forward
<1>2. SafeSpec => []TypeOK
  BY TypeCorrect
<1>3. SafeSpec => []IInv
  BY Invariance
<1>4. QED  BY <1>1, <1>2, <1>3, PTL DEF SafeSpec, StepsRunOut

(***************************************************************************)
(* And as long as the process runs, some thread has a step to take: the    *)
(* main thread waits in get() of the first future, or in the destructors   *)
(* of all of them, only for a thread that is still printing.               *)
(***************************************************************************)
First(i) == i \in futures /\ \A j \in futures : i <= j
Live(i) == printer[i] \in {"launched", "printing"}

SomeThreadGoesOn ==
    /\ exit = "running" /\ pc = "join" /\ (\A i \in Idx : ~Live(i)) =>
          futures = {} \/ \E i \in futures : First(i) /\ Ended(i)
    /\ exit = "running" /\ pc = "unwind" /\ (\A i \in Idx : ~Live(i)) =>
          \A i \in futures : Ended(i)

\* A nonempty set of prover indices has a first one.
LEMMA FirstFuture == ASSUME NEW S \in SUBSET Nat, S # {}
                     PROVE  \E i \in S : \A j \in S : i <= j
<1>1. IsWellFoundedOn(OpToRel(<, Nat), Nat)
  BY NatLessThanWellFounded
<1>2. \E i \in S : \A j \in S : ~(<<j, i>> \in OpToRel(<, Nat))
  BY <1>1, WFMin
<1>3. PICK i \in S : \A j \in S : ~(<<j, i>> \in OpToRel(<, Nat))
  BY <1>2
<1>4. ASSUME NEW j \in S PROVE i <= j
  <2>1. ~(j < i)
    BY <1>3 DEF OpToRel
  <2>2. QED  BY <2>1
<1>5. QED  BY <1>4

\* No process, for any number of provers, has main waiting for a thread while none is alive:
\* main's other places wait for nothing, and a live thread always has its next step.
THEOREM NobodyIsStuck == SafeSpec => []SomeThreadGoesOn
<1>1. IInv => SomeThreadGoesOn
  <2> SUFFICES ASSUME IInv PROVE SomeThreadGoesOn
    OBVIOUS
  <2>1. futures \subseteq Idx /\ futures \subseteq Nat
    BY DEF IInv, TypeOK, Idx
  <2>2. ASSUME \A i \in Idx : ~Live(i) PROVE \A i \in futures : Ended(i)
    BY <2>1, <2>2 DEF IInv, TypeOK, PrinterStates, FutureInv, Live, Ended
  <2>3. futures # {} => \E i \in futures : First(i)
    BY <2>1, FirstFuture DEF First
  <2>4. QED  BY <2>2, <2>3 DEF SomeThreadGoesOn
<1>2. QED  BY <1>1, Invariance, PTL
===============================================================================
