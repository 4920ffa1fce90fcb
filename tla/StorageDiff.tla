------------------------------ MODULE StorageDiff ------------------------------
(***************************************************************************)
(* What TrieState of lib/runtime/storage/trie.go is built on: the trie     *)
(* (pkg/trie) and the storageDiff that records the changes of one          *)
(* transaction.  Neither is among the sources of this repository; both are *)
(* written from section 4.4 of the specification, as operators on values.  *)
(*                                                                         *)
(* Keys are natural numbers in the lexicographic order of the byte strings *)
(* they stand for, and a prefix is the set of the keys that start with it. *)
(* A child trie exists while it holds an entry.                            *)
(***************************************************************************)
EXTENDS Integers, FiniteSets, FiniteSetsExt, TLC

CONSTANTS
    Keys,           \* the storage keys, of the main trie and of a child trie
    Values,         \* the values stored
    ChildKeys,      \* the keys under which the main trie holds a child trie
    KeyPrefixes     \* the prefixes callers clear by

ASSUME
    /\ Keys \subseteq Nat /\ ChildKeys \subseteq Nat /\ Keys \cap ChildKeys = {}
    /\ KeyPrefixes \subseteq SUBSET Keys

Nil == "nil"

NoLimit == -1

\* The nil a read of a key answers when there is no key.
NoKey == -1

Entries == [Keys -> Values \cup {Nil}]

NoEntries == [k \in Keys |-> Nil]

KeysOf(entries) == {k \in Keys : entries[k] # Nil}

PrefixedKeys(entries, prefix) == KeysOf(entries) \cap prefix

KeysFrom(entries, key) == {k \in KeysOf(entries) : k > key}

First(keys) == IF keys = {} THEN NoKey ELSE Min(keys)

\* The first limit keys in order; every key when the limit is negative.
FirstKeys(keys, limit) ==
    {k \in keys : limit < 0 \/ Cardinality({j \in keys : j < k}) < limit}

Cleared(entries, keys) ==
    [k \in Keys |-> IF k \in keys THEN Nil ELSE entries[k]]

-----------------------------------------------------------------------------
(* trie.Trie: the entries of the main trie and of each child trie.         *)

Tries == [main : Entries, child : [ChildKeys -> Entries]]

EmptyTrie == [main |-> NoEntries, child |-> [c \in ChildKeys |-> NoEntries]]

TriePut(t, k, v) == [t EXCEPT !.main[k] = v]

TrieGet(t, k) == t.main[k]

TrieDelete(t, k) == [t EXCEPT !.main[k] = Nil]

TrieNextKey(t, key) == First(KeysFrom(t.main, key))

TrieClearPrefixLimit(t, prefix, limit) ==
    [t EXCEPT !.main = Cleared(@, FirstKeys(PrefixedKeys(@, prefix), limit))]

TrieClearPrefix(t, prefix) == TrieClearPrefixLimit(t, prefix, NoLimit)

\* GetChild answers ErrChildTrieDoesNotExist unless this holds.
ChildExists(t, c) == KeysOf(t.child[c]) # {}

PutIntoChild(t, c, k, v) == [t EXCEPT !.child[c][k] = v]

GetFromChild(t, c, k) == t.child[c][k]

TrieDeleteChild(t, c) == [t EXCEPT !.child[c] = NoEntries]

ClearFromChild(t, c, k) == [t EXCEPT !.child[c][k] = Nil]

ChildClearPrefixLimit(t, c, prefix, limit) ==
    [t EXCEPT !.child[c] =
        Cleared(@, FirstKeys(PrefixedKeys(@, prefix), limit))]

-----------------------------------------------------------------------------
(* storageDiff: the upserts, the deletes and the changes to child tries    *)
(* that a transaction has recorded.  The diff of a child is a storageDiff  *)
(* with no children of its own.                                            *)

newStorageDiff ==
    [upserts |-> NoEntries, deletes |-> {},
     childChangeSet |-> [c \in {} |-> Nil]]

\* sorted_keys "equals the sorted union of upserts.keys() and deletes"; the
\* order is that of the numbers.
sortedKeys(diff) == KeysOf(diff.upserts) \cup diff.deletes

snapshot(diff) == diff

upsert(diff, k, v) ==
    [diff EXCEPT !.upserts[k] = v, !.deletes = @ \ {k}]

\* A delete removes the upsert of the key and, for the key of a child, every
\* change recorded for that child.
delete(diff, k) ==
    [diff EXCEPT !.upserts = Cleared(@, {k}),
                 !.deletes = @ \cup {k},
                 !.childChangeSet = [c \in DOMAIN @ \ {k} |-> @[c]]]

get(diff, k) == [val |-> diff.upserts[k], deleted |-> k \in diff.deletes]

\* Deletes the keys with the prefix, those on the state and those upserted,
\* in order and up to the limit.
clearPrefix(diff, prefix, keysOnState, limit) ==
    LET removed == FirstKeys((keysOnState \ diff.deletes)
                                \cup PrefixedKeys(diff.upserts, prefix), limit)
    IN  [diff EXCEPT !.upserts = Cleared(@, removed),
                     !.deletes = @ \cup removed]

\* childChangeSet[c] is not nil.
Changed(diff, c) == c \in DOMAIN diff.childChangeSet

childChanges(diff, c) ==
    IF Changed(diff, c) THEN diff.childChangeSet[c] ELSE newStorageDiff

inChild(diff, c, changes) ==
    [diff EXCEPT !.childChangeSet = (c :> changes) @@ @]

upsertChild(diff, c, k, v) ==
    inChild(diff, c, upsert(childChanges(diff, c), k, v))

\* The delete of the child at the parent level overrides what is recorded
\* for the child.
getFromChild(diff, c, k) ==
    IF c \in diff.deletes THEN [val |-> Nil, deleted |-> TRUE]
                          ELSE get(childChanges(diff, c), k)

deleteFromChild(diff, c, k) ==
    inChild(diff, c, delete(childChanges(diff, c), k))

clearPrefixInChild(diff, c, prefix, onStateKeys, limit) ==
    inChild(diff, c,
            clearPrefix(childChanges(diff, c), prefix, onStateKeys, limit))

deleteChildLimit(diff, c, childEntriesKeys, limit) ==
    clearPrefixInChild(diff, c, Keys, childEntriesKeys, limit)

\* The entries after the upserts and deletes of a diff.
overlaid(diff, entries) ==
    [k \in Keys |-> IF k \in diff.deletes THEN Nil
                    ELSE IF diff.upserts[k] # Nil THEN diff.upserts[k]
                    ELSE entries[k]]

applyToTrie(diff, t) ==
    [main  |-> overlaid(diff, t.main),
     child |-> [c \in ChildKeys |->
                  IF c \in diff.deletes THEN NoEntries
                  ELSE overlaid(childChanges(diff, c), t.child[c])]]

IsStorageDiff(diff) ==
    LET IsChanges(d) == /\ d.upserts \in Entries
                        /\ d.deletes \subseteq Keys \cup ChildKeys
                        /\ DOMAIN d.childChangeSet \subseteq ChildKeys
    IN  /\ IsChanges(diff)
        /\ \A c \in DOMAIN diff.childChangeSet :
              /\ IsChanges(diff.childChangeSet[c])
              /\ diff.childChangeSet[c].childChangeSet = newStorageDiff.childChangeSet
              /\ diff.childChangeSet[c].deletes \subseteq Keys

=============================================================================
