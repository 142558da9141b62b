----------------------------- MODULE MCBuildGraph -----------------------------
(***************************************************************************)
(* The invocations of run_tests.sh that touch one example: circuits, both  *)
(* outputs at once, moving them away for upload, proving, recursion.       *)
(***************************************************************************)
EXTENDS BuildGraph

Invocation(goals, moved) == [goals |-> goals, moved |-> moved]
Circuits == Invocation({<<"crct", 0>>}, {})
Both(moved) == Invocation({<<"both", 0>>}, {<<"bitcode", 0>>} \cup moved)
Proving(column) == Invocation(column \cup ({"prove"} \X Provers), {})
RecursionOf(ps) == Invocation({"json", "verifier", "assign"} \X ps, {})

\* An example with MAX_NUM_PROVERS 3, whose program uses all, two or only one of them.
\* Bound: the recursive verifier of the first prover only.
ThreeProvers == {1, 2, 3}
ThreeSpreads == {{}, {1, 2}, {1, 2, 3}}
SplitScript == <<Circuits, Both({}), Proving({<<"copy", 0>>}), RecursionOf({1})>>

\* An example without MAX_NUM_PROVERS, whose files have no number and are moved. It has no
\* target that copies the public input.
OneProver == {1}
OneSpread == {{1}}
PlainScript == <<Both({"circuit", "table"} \X {1}), Proving({}), RecursionOf({1})>>
===============================================================================
