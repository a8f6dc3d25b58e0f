------------------------------ MODULE MCPortal ------------------------------
(* Small instances of Portal for TLC. *)
EXTENDS Portal, TLC

\* Nothing of these sets is ever named.
Symmetry ==
  Permutations(Tab) \cup Permutations(User) \cup Permutations(App)
    \cup Permutations(Secret) \cup Permutations(Details)

===========================================================================
