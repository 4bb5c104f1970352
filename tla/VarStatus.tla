----------------------------- MODULE VarStatus -----------------------------
(***************************************************************************)
(* What simplify_cfg.c knows about a variable at one point of a function,  *)
(* and how knowledge that arrives over two jumps is combined.              *)
(***************************************************************************)

\* enum VarStatus, without the VS_ prefix.
VarStatuses == {"UNVISITED", "TRUE", "FALSE", "DEFINED",
                "POSSIBLY_UNDEFINED", "UNDEFINED", "UNPREDICTABLE"}

\* (mutants of merge) An undefined value wins over a defined one; two undefined
\* values are possibly undefined; an undefined value is overlooked.
merge_undefined_wins(a, b) ==
    IF a = "UNVISITED" THEN b
    ELSE IF b = "UNVISITED" THEN a
    ELSE IF "UNPREDICTABLE" \in {a, b} THEN "UNPREDICTABLE"
    ELSE IF "UNDEFINED" \in {a, b} THEN "UNDEFINED"
    ELSE IF a = b THEN a ELSE "DEFINED"
merge_undefined_is_possibly(a, b) ==
    IF a = "UNVISITED" THEN b
    ELSE IF b = "UNVISITED" THEN a
    ELSE IF "UNPREDICTABLE" \in {a, b} THEN "UNPREDICTABLE"
    ELSE IF {a, b} \cap {"UNDEFINED", "POSSIBLY_UNDEFINED"} # {} THEN "POSSIBLY_UNDEFINED"
    ELSE IF a = b THEN a ELSE "DEFINED"
merge_undefined_overlooked(a, b) ==
    IF a = "UNVISITED" THEN b
    ELSE IF b = "UNVISITED" THEN a
    ELSE IF "UNPREDICTABLE" \in {a, b} THEN "UNPREDICTABLE"
    ELSE IF a = b THEN a
    ELSE IF "POSSIBLY_UNDEFINED" \in {a, b} THEN "POSSIBLY_UNDEFINED"
    ELSE "DEFINED"

\* merge(): the tests in the order the function makes them.
merge(a, b) ==
    IF a = "UNVISITED" THEN b
    ELSE IF b = "UNVISITED" THEN a
    ELSE IF a = "UNPREDICTABLE" \/ b = "UNPREDICTABLE" THEN "UNPREDICTABLE"
    ELSE IF a = "UNDEFINED" /\ b = "UNDEFINED" THEN "UNDEFINED"
    ELSE IF {a, b} \cap {"UNDEFINED", "POSSIBLY_UNDEFINED"} # {}
         THEN "POSSIBLY_UNDEFINED"
    ELSE IF a = b /\ a # "DEFINED" THEN a
    ELSE "DEFINED"

\* merge_arrays_in_place(dest, src): the new contents of dest.
merge_arrays(dest, src) == [v \in DOMAIN dest |-> merge(src[v], dest[v])]

\* The order merge induces: b says no more about the variable than a does.
Leq(a, b) == merge(a, b) = b
=============================================================================
