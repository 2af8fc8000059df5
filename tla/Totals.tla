------------------------------- MODULE Totals -------------------------------
(***************************************************************************)
(* Sums of natural-valued functions with a finite domain, as SQL's SUM     *)
(* over the rows a WHERE clause selects.  The sum is defined by counting   *)
(* (f[x] unit markers for every x), so that the facts the proofs need      *)
(* follow from the theorems about Cardinality.                             *)
(***************************************************************************)
EXTENDS Naturals, FiniteSets

Markers(f) == UNION { {x} \X (1 .. f[x]) : x \in DOMAIN f }
Total(f) == Cardinality(Markers(f))
=============================================================================
