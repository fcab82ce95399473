------------------------------- MODULE MCPool -------------------------------
(* Small instances of Pool for TLC. *)
EXTENDS Pool, TLC

\* Requests of one kind are interchangeable, and so are ids.
Symmetry ==
  Permutations(Ids) \cup Permutations(Creates)
    \cup Permutations(Deletes) \cup Permutations(Uses)

=============================================================================
