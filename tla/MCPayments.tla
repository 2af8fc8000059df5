----------------------------- MODULE MCPayments ------------------------------
(***************************************************************************)
(* Small instances of Payments for TLC.                                    *)
(***************************************************************************)
EXTENDS Payments, TLC

(* Orders at the start: none, or all of them, each with a plan of its own as far
   as the plans go.                                                        *)
NonePlaced == [o \in {} |-> None]
AllPlaced  == CHOOSE f \in [Orders -> Plans] :
                Cardinality({f[o] : o \in Orders}) = Cardinality(Plans)

Symmetry == Permutations(Orders) \cup Permutations(Workers)
              \cup Permutations(Plans) \cup Permutations(Teams)
              \cup Permutations(Events) \cup Permutations(Sweepers)
=============================================================================
