------------------------------ MODULE MCTrieState ------------------------------
(***************************************************************************)
(* TrieState for TLC: two keys, "a" and "ab", two values, one child trie,  *)
(* transactions nested two deep.                                           *)
(***************************************************************************)
EXTENDS TrieState

MCKeys == {1, 2}

MCMainKeys == {1}

MCChildKeys == {9}

\* The prefixes "a", of both keys, and "ab", of the second.
MCKeyPrefixes == {{1, 2}, {2}}

\* No operation tells one value from another.
ValueSymmetry == Permutations(Values)

=============================================================================
