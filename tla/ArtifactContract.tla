--------------------------- MODULE ArtifactContract ---------------------------
(***************************************************************************)
(* What a command line tool of this repository promises the build that     *)
(* runs it and then reads its files by name: it settles on a set of files, *)
(* writes each of them once, touches no other file, and                    *)
(*   - reports success only when it got through the writing of every file  *)
(*     it settled on,                                                      *)
(*   - returns a failure in the middle of a file only for a file of        *)
(*     MayTear.                                                            *)
(* An abort may leave a torn file behind anywhere. No tool looks at its    *)
(* streams after it opened them: a file the tool got through may be lost,  *)
(* what it holds being what the file system took. For a file of MayMiss    *)
(* the tool does not look at the opening either, and what is lost there    *)
(* may be the whole file, which then is what an earlier run left.          *)
(*                                                                         *)
(* The tools differ in how they get there (threads, early returns, checks  *)
(* after the fact), in MayTear and in MayMiss: AssignerDriver, Transpiler  *)
(* and RecursiveGen implement this contract.                               *)
(***************************************************************************)
EXTENDS FiniteSets

CONSTANTS Files,        \* every file name the tool could form
          MayTear,      \* the files a reported failure may leave in pieces
          MayMiss       \* the files whose opening may fail without notice

VARIABLES outcome,      \* "running", "success", "failure" or "abort"
          wanted,       \* the files this run settled on, {} before that
          artifact      \* for each file: "old", "torn", "written" or "lost"

vars == <<outcome, wanted, artifact>>

Init == /\ outcome = "running"
        /\ wanted = {}
        /\ artifact = [f \in Files |-> "old"]

Running == outcome = "running" /\ UNCHANGED outcome

\* The run knows which files it will produce.
Settle(W) == /\ Running
             /\ wanted = {}
             /\ wanted' = W
             /\ UNCHANGED artifact

\* A file is truncated and then filled.
Start(f) == /\ Running
            /\ f \in wanted
            /\ artifact[f] = "old"
            /\ artifact' = [artifact EXCEPT ![f] = "torn"]
            /\ UNCHANGED wanted

Miss(f) == /\ Running
           /\ f \in wanted \cap MayMiss
           /\ artifact[f] = "old"
           /\ artifact' = [artifact EXCEPT ![f] = "lost"]
           /\ UNCHANGED wanted

Finish(f) == /\ Running
             /\ artifact[f] = "torn"
             /\ \E s \in {"written", "lost"} : artifact' = [artifact EXCEPT ![f] = s]
             /\ UNCHANGED wanted

End(how) == /\ outcome = "running"
            /\ outcome' = how
            /\ UNCHANGED <<wanted, artifact>>

Succeed == /\ \A f \in wanted : artifact[f] \in {"written", "lost"}
           /\ End("success")

Fail == /\ \A f \in Files \ MayTear : artifact[f] # "torn"
        /\ End("failure")

Abort == End("abort")

Next == \/ \E W \in SUBSET Files : Settle(W)
        \/ \E f \in Files : Start(f) \/ Miss(f) \/ Finish(f)
        \/ Succeed \/ Fail \/ Abort

Spec == Init /\ [][Next]_vars
===============================================================================
