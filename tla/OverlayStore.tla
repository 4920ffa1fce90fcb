------------------------------ MODULE OverlayStore ------------------------------
(***************************************************************************)
(* What the overlay promises (specification, sections 5 and 8): storage    *)
(* with nested transactions behaves as a stack of complete stores.  A      *)
(* transaction starts on a copy of the store it was started in, every      *)
(* operation is applied directly to the innermost store, a rollback drops  *)
(* the innermost store and a commit puts it in the place of the one below. *)
(* "A commit at depth d produces the same external observations as if the  *)
(* operations had been applied directly at depth d-1."                     *)
(*                                                                         *)
(* The steps are written as relations between the stack before and the     *)
(* stack after, so that a refinement mapping is evaluated once for each.   *)
(***************************************************************************)
EXTENDS StorageDiff, Sequences, SequencesExt

VARIABLE views      \* views[1] is the trie, Last(views) what callers see

\* One operation on the entries of a trie: a key is put or deleted, or the
\* first keys with a prefix are deleted (all of them, a whole child trie
\* included, or up to a limit).
EntriesWritten(old, new) ==
    LET changed == {k \in Keys : old[k] # new[k]}
    IN  \/ Cardinality(changed) <= 1
        \/ \E prefix \in KeyPrefixes \cup {Keys} :
              /\ changed \subseteq PrefixedKeys(old, prefix)
              /\ \A k \in changed :
                    /\ new[k] = Nil
                    /\ \A j \in PrefixedKeys(old, prefix) :
                          j < k => j \in changed

\* One storage operation: on the main trie, or on one child trie.
Written(old, new) ==
    \/ /\ new.child = old.child
       /\ EntriesWritten(old.main, new.main)
    \/ /\ new.main = old.main
       /\ \E c \in ChildKeys :
             /\ \A other \in ChildKeys \ {c} :
                   new.child[other] = old.child[other]
             /\ EntriesWritten(old.child[c], new.child[c])

Begun(old, new) == new = Append(old, Last(old))

RolledBack(old, new) ==
    /\ Len(old) > 1
    /\ new = Front(old)

Committed(old, new) ==
    /\ Len(old) > 1
    /\ new = Append(Front(Front(old)), Last(old))

Wrote(old, new) ==
    /\ Len(new) = Len(old)
    /\ Front(new) = Front(old)
    /\ Written(Last(old), Last(new))

Step(old, new) ==
    \/ Wrote(old, new)
    \/ Begun(old, new)
    \/ RolledBack(old, new)
    \/ Committed(old, new)

Init == views = <<EmptyTrie>>

Next == Step(views, views')

Spec == Init /\ [][Next]_views

=============================================================================
