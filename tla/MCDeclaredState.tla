-------------------------- MODULE MCDeclaredState --------------------------
(* Instances of DeclaredState for TLC. *)
EXTENDS DeclaredState

CONSTANTS a, b, k1, t1, t2

\* Two groups in the list and one in the dict: enough for a place before, at and behind
\* another, and for a key that is replaced, removed and added.
Documents == {[groups |-> <<a, b>>, index |-> [k \in Key |-> a]]}

\* The coroutines are alike.
Symmetric == Permutations(Task)

=============================================================================
