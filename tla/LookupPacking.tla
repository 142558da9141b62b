---------------------------- MODULE LookupPacking ----------------------------
(***************************************************************************)
(* The "pack lookup tables" block of curve_dependent_main in               *)
(* bin/assigner/src/main.cpp: it looks for the last selector column a gate *)
(* uses, asserts that it is a component selector, and lets the library     *)
(* select the rows of the lookup tables with the columns after it.         *)
(*                                                                         *)
(* pack_lookup_tables_horizontal belongs to crypto3: of it the model has   *)
(* what the call shows, that it selects with consecutive columns from the  *)
(* one it is given.                                                        *)
(***************************************************************************)
EXTENDS Naturals

CONSTANTS MaxColumns,   \* bound on each of the two selector column counts
          LeastLookup   \* the least number of lookup selectors (6 by default)

ASSUME ColumnsAssumption == /\ MaxColumns \in Nat /\ LeastLookup \in Nat
                            /\ LeastLookup <= MaxColumns

VARIABLES component, lookup,    \* ComponentSelectorColumns, LookupSelectorColumns
          used,                 \* the selector columns of gates, which are not empty
          max_used_selector_idx,
          step,                 \* "search", "assert", "pack", "packed" or "abort"
          packed                \* the columns that select rows of lookup tables

packing_vars == <<component, lookup, used, max_used_selector_idx, step, packed>>

\* selectors_amount()
Amount == component + lookup

PackingTypeOK ==
    /\ component \in 0 .. MaxColumns /\ lookup \in LeastLookup .. MaxColumns
    /\ used \subseteq 0 .. Amount - 1
    /\ max_used_selector_idx \in 0 .. Amount
    /\ step \in {"search", "assert", "pack", "packed", "abort"}
    /\ packed \subseteq 0 .. Amount - 1

\* The library hands selectors out in order; a circuit that reserved a table has at
\* least the gate that looks values up in it.
PackingInit ==
    /\ component \in 0 .. MaxColumns /\ lookup \in LeastLookup .. MaxColumns
    /\ \E gates \in 1 .. Amount : used = 0 .. gates - 1
    /\ max_used_selector_idx = Amount - 1
    /\ step = "search"
    /\ packed = {}

\* One turn of the while loop, or its end.
Search == /\ step = "search"
          /\ IF max_used_selector_idx > 0
             THEN /\ max_used_selector_idx' = max_used_selector_idx - 1
                  /\ step' = IF max_used_selector_idx' \in used THEN "assert" ELSE "search"
             ELSE step' = "assert" /\ UNCHANGED max_used_selector_idx
          /\ UNCHANGED <<component, lookup, used, packed>>

\* Mutant: the bound counts lookup selectors too.
Assert_amount == /\ step = "assert"
                 /\ step' = IF max_used_selector_idx < Amount THEN "pack" ELSE "abort"
                 /\ UNCHANGED <<component, lookup, used, max_used_selector_idx, packed>>

\* Mutant: the last component selector is taken for a lookup selector.
Assert_strict == /\ step = "assert"
                 /\ step' = IF max_used_selector_idx + 1 < component
                            THEN "pack" ELSE "abort"
                 /\ UNCHANGED <<component, lookup, used, max_used_selector_idx, packed>>

Assert == /\ step = "assert"
          /\ step' = IF max_used_selector_idx < component THEN "pack" ELSE "abort"
          /\ UNCHANGED <<component, lookup, used, max_used_selector_idx, packed>>

\* Mutant: packing may run one column past the last selector.
Pack_past == /\ step = "pack"
             /\ \E last \in max_used_selector_idx + 1 .. Amount :
                   packed' = max_used_selector_idx + 1 .. last
             /\ step' = "packed"
             /\ UNCHANGED <<component, lookup, used, max_used_selector_idx>>

Pack == /\ step = "pack"
        /\ \E last \in max_used_selector_idx + 1 .. Amount - 1 :
              packed' = max_used_selector_idx + 1 .. last
        /\ step' = "packed"
        /\ UNCHANGED <<component, lookup, used, max_used_selector_idx>>

PackingNext == \/ Search \/ Assert \/ Pack
               \/ step \in {"packed", "abort"} /\ UNCHANGED packing_vars

PackingSpec == PackingInit /\ [][PackingNext]_packing_vars
-------------------------------------------------------------------------------
(***************************************************************************)
(* Properties.                                                             *)
(***************************************************************************)
\* No column selects both the rows of a gate and the rows of a lookup table, although
\* the search for the last used column never looks at the last column of all: with
\* two lookup selectors or more, a used last column still shows in the one before it.
TablesTakeFreeSelectors == packed \cap used = {}

\* A circuit whose gates keep to the component selectors is never turned away.
ComponentSelectorsPass ==
    step = "abort" => ~(used \subseteq 0 .. component - 1)

\* "check if lookup selectors were not used": past the check, none is.
LookupSelectorsUnused == step = "pack" => used \subseteq 0 .. component - 1
===============================================================================
