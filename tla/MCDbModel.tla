------------------------------ MODULE MCDbModel ------------------------------
(* Three rows, two writers and a walk with pages of up to two rows. *)
EXTENDS DbModel, TLC

CONSTANTS c1, c2, a, b, d, title, content

Symmetry == {c @@ r @@ f : c \in Permutations(Clients), r \in Permutations(Rows0), f \in Permutations(Fields)}
=============================================================================
