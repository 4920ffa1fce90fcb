------------------------------- MODULE TrieState -------------------------------
(***************************************************************************)
(* TrieState of lib/runtime/storage/trie.go: the storage a runtime call    *)
(* works on, a trie under a stack of nested transactions.  While a         *)
(* transaction is open every write is recorded in the storageDiff on top   *)
(* of the stack and every read looks there before it looks in the trie;    *)
(* with no transaction open, operations go to the trie directly.           *)
(*                                                                         *)
(* Every method holds the mutex of the TrieState from entry to return, so  *)
(* each is one action (writes) or one operator on the state (reads).  The  *)
(* panics of RollbackTransaction, CommitTransaction and Root end the       *)
(* program: they are the guards of the actions.                            *)
(***************************************************************************)
EXTENDS StorageDiff, Sequences, SequencesExt

CONSTANTS
    MainKeys,       \* the keys callers put and delete in the main trie
    CodeKey,        \* common.CodeKey, the key of the runtime code
    Limits,         \* the limits callers pass to the limited deletions
    MaxDepth        \* bound on the depth of nested transactions

VARIABLES
    state,          \* the trie
    transactions,   \* the storageDiffs of the open transactions, innermost last
    onTrie          \* history: the trie the calls leave when made on it directly

vars == <<state, transactions, onTrie>>

-----------------------------------------------------------------------------

InTransaction == transactions # <<>>

getCurrentTransaction == Last(transactions)

\* The two ways of every write: recorded in the innermost transaction, or
\* made on the trie when no transaction is open.
Recorded(diff) ==
    /\ InTransaction
    /\ transactions' = [transactions EXCEPT ![Len(transactions)] = diff]
    /\ UNCHANGED state

Direct(trie) ==
    /\ ~InTransaction
    /\ state' = trie
    /\ UNCHANGED transactions

\* Assumed of the callers: a child deleted in the innermost transaction is
\* not written again before the transaction ends.
Writable(c) == InTransaction => c \notin getCurrentTransaction.deletes

-----------------------------------------------------------------------------

Init ==
    /\ state = EmptyTrie
    /\ transactions = <<>>
    /\ onTrie = EmptyTrie

StartTransactionFresh ==
    /\ Len(transactions) < MaxDepth
    /\ transactions' = Append(transactions, snapshot(newStorageDiff))
    /\ UNCHANGED state

StartTransaction ==
    /\ Len(transactions) < MaxDepth
    /\ transactions' = Append(transactions,
           snapshot(IF InTransaction THEN getCurrentTransaction
                                     ELSE newStorageDiff))
    /\ UNCHANGED state

RollbackTransaction ==
    /\ Len(transactions) >= 1
    /\ transactions' = Front(transactions)
    /\ UNCHANGED state

\* The innermost diff takes the place of its parent; the outermost one is
\* applied to the trie.
CommitTransaction ==
    \/ /\ Len(transactions) > 1
       /\ transactions' = Append(Front(Front(transactions)),
                                 Last(transactions))
       /\ UNCHANGED state
    \/ /\ Len(transactions) = 1
       /\ transactions' = <<>>
       /\ state' = applyToTrie(Last(transactions), state)

\* Root commits, and panics unless that was the outermost transaction.
Root ==
    /\ Len(transactions) = 1
    /\ CommitTransaction

Put(key, value) ==
    \/ Recorded(upsert(getCurrentTransaction, key, value))
    \/ Direct(TriePut(state, key, value))

Delete(key) ==
    \/ Recorded(delete(getCurrentTransaction, key))
    \/ Direct(TrieDelete(state, key))

ClearPrefix(prefix) ==
    \/ Recorded(clearPrefix(getCurrentTransaction, prefix,
                            PrefixedKeys(state.main, prefix), NoLimit))
    \/ Direct(TrieClearPrefix(state, prefix))

ClearPrefixLimit(prefix, limit) ==
    \/ Recorded(clearPrefix(getCurrentTransaction, prefix,
                            PrefixedKeys(state.main, prefix), limit))
    \/ Direct(TrieClearPrefixLimit(state, prefix, limit))

SetChildStorage(keyToChild, key, value) ==
    \/ Recorded(upsertChild(getCurrentTransaction, keyToChild, key, value))
    \/ Direct(PutIntoChild(state, keyToChild, key, value))

DeleteChildKeepsChanges(keyToChild) ==
    \/ Recorded([getCurrentTransaction EXCEPT !.deletes = @ \cup {keyToChild}])
    \/ Direct(TrieDeleteChild(state, keyToChild))

DeleteChild(keyToChild) ==
    \/ Recorded(delete(getCurrentTransaction, keyToChild))
    \/ Direct(TrieDeleteChild(state, keyToChild))

\* The keys the loop of DeleteChildLimit deletes: it counts a deletion and
\* then compares the count with the limit.
loopDeletes(keys, limit) ==
    {k \in keys : \A deleted \in 1..Cardinality({j \in keys : j < k}) :
                      deleted # limit}

\* The keys the loop has deleted when it returns: all it was to delete, or
\* those before the key whose deletion failed.
loopDeleted(keys, limit) ==
    {{k \in loopDeletes(keys, limit) : failed # NoKey => k < failed} :
        failed \in keys \cup {NoKey}}

\* limit is NoLimit for a nil limit.  In a transaction the call fails when
\* the child is neither on the state nor changed by the transaction; outside
\* one it fails when the child is not on the state, and its loop stops at a
\* deletion that fails.
DeleteChildLimit(key, limit) ==
    \/ /\ InTransaction
       /\ ~ChildExists(state, key)
       /\ ~Changed(getCurrentTransaction, key)
       /\ UNCHANGED <<state, transactions>>
    \/ /\ InTransaction
       /\ \/ ChildExists(state, key)
          \/ Changed(getCurrentTransaction, key)
       /\ Recorded(deleteChildLimit(getCurrentTransaction, key,
                                    KeysOf(state.child[key]), limit))
    \/ /\ ~ChildExists(state, key)
       /\ Direct(state)
    \/ /\ ChildExists(state, key)
       /\ limit = NoLimit
       /\ Direct(TrieDeleteChild(state, key))
    \/ /\ ChildExists(state, key)
       /\ limit # NoLimit
       /\ \E deleted \in loopDeleted(KeysOf(state.child[key]), limit) :
             Direct([state EXCEPT !.child[key] = Cleared(@, deleted)])

ClearChildStorage(keyToChild, key) ==
    \/ Recorded(deleteFromChild(getCurrentTransaction, keyToChild, key))
    \/ Direct(ClearFromChild(state, keyToChild, key))

ClearPrefixInChildEveryKey(keyToChild, prefix) ==
    \/ Recorded(clearPrefixInChild(getCurrentTransaction, keyToChild, prefix,
            KeysOf(state.child[keyToChild]), NoLimit))
    \/ Direct(ChildClearPrefixLimit(state, keyToChild, prefix, NoLimit))

\* The keys of a child that does not exist are none.
ClearPrefixInChild(keyToChild, prefix) ==
    \/ Recorded(clearPrefixInChild(getCurrentTransaction, keyToChild, prefix,
            PrefixedKeys(state.child[keyToChild], prefix), NoLimit))
    \/ Direct(ChildClearPrefixLimit(state, keyToChild, prefix, NoLimit))

\* Without the child on the state the transaction clears without a limit.
ClearPrefixInChildWithLimit(keyToChild, prefix, limit) ==
    \/ /\ ~ChildExists(state, keyToChild)
       /\ Recorded(clearPrefixInChild(getCurrentTransaction, keyToChild,
                                      prefix, {}, NoLimit))
    \/ /\ ChildExists(state, keyToChild)
       /\ Recorded(clearPrefixInChild(getCurrentTransaction, keyToChild,
              prefix, PrefixedKeys(state.child[keyToChild], prefix), limit))
    \/ Direct(ChildClearPrefixLimit(state, keyToChild, prefix, limit))

\* What callers see in each open transaction, outermost first, after the
\* trie itself: the trie with the diff of the transaction applied.
Views ==
    <<state>> \o [i \in DOMAIN transactions |->
                     applyToTrie(transactions[i], state)]

View == Last(Views)

\* The method is called, and the history variable becomes the given trie:
\* what the same call leaves of onTrie, or, where no call on a trie says
\* what to expect (a rollback, a limit on a child trie), what callers see.
Call(method, trie) == method /\ onTrie' = trie

\* A call that writes to a child trie, by a caller that keeps to Writable.
ChildCall(keyToChild, method, trie) ==
    Writable(keyToChild) /\ Call(method, trie)

Next ==
    \/ Call(StartTransaction \/ CommitTransaction \/ Root, onTrie)
    \/ Call(RollbackTransaction, View')
    \/ \E key \in MainKeys :
          \/ \E value \in Values :
                Call(Put(key, value), TriePut(onTrie, key, value))
          \/ Call(Delete(key), TrieDelete(onTrie, key))
    \/ \E prefix \in KeyPrefixes :
          \/ Call(ClearPrefix(prefix), TrieClearPrefix(onTrie, prefix))
          \/ \E limit \in Limits :
                Call(ClearPrefixLimit(prefix, limit),
                     TrieClearPrefixLimit(onTrie, prefix, limit))
    \/ \E keyToChild \in ChildKeys :
          \/ \E key \in Keys, value \in Values :
                ChildCall(keyToChild, SetChildStorage(keyToChild, key, value),
                          PutIntoChild(onTrie, keyToChild, key, value))
          \/ \E limit \in Limits :
                ChildCall(keyToChild, DeleteChildLimit(keyToChild, limit), View')
          \/ ChildCall(keyToChild, DeleteChildLimit(keyToChild, NoLimit),
                       TrieDeleteChild(onTrie, keyToChild))
          \/ \E key \in Keys :
                ChildCall(keyToChild, ClearChildStorage(keyToChild, key),
                          ClearFromChild(onTrie, keyToChild, key))
          \/ \E prefix \in KeyPrefixes :
                \/ \E limit \in Limits :
                      ChildCall(keyToChild,
                                ClearPrefixInChildWithLimit(keyToChild, prefix,
                                                            limit),
                                View')
                \/ ChildCall(keyToChild, ClearPrefixInChild(keyToChild, prefix),
                             ChildClearPrefixLimit(onTrie, keyToChild, prefix,
                                                   NoLimit))
          \/ Call(DeleteChild(keyToChild), TrieDeleteChild(onTrie, keyToChild))

Spec == Init /\ [][Next]_vars

-----------------------------------------------------------------------------
(* The reads, as operators on the state.  A read that fails returns what  *)
(* it returns with the error: no key, or no keys.                         *)

GetUnlessDeleted(key) ==
    LET found == get(getCurrentTransaction, key)
    IN  IF InTransaction /\ found.val # Nil
        THEN found.val
        ELSE TrieGet(state, key)

Get(key) ==
    LET found == get(getCurrentTransaction, key)
    IN  IF InTransaction /\ (found.val # Nil \/ found.deleted)
        THEN found.val
        ELSE TrieGet(state, key)

Has(key) == Get(key) # Nil

LoadCode == Get(CodeKey)

\* common.Blake2bHash of the code, or of no bytes when there is none.
LoadCodeHash == [Blake2bHash |-> LoadCode]

nextKeyFromFound(diff, entries, key) ==
    First({k \in sortedKeys(diff) : k >= key}
              \cup (KeysFrom(entries, key) \ diff.deletes))

\* The smaller of the next key the diff has sorted and the next key of the
\* trie that the diff does not delete.
nextKeyOf(diff, entries, key) ==
    First({k \in sortedKeys(diff) : k > key}
              \cup (KeysFrom(entries, key) \ diff.deletes))

NextKey(key) ==
    IF InTransaction
    THEN nextKeyOf(getCurrentTransaction, state.main, key)
    ELSE TrieNextKey(state, key)

TrieEntries ==
    IF InTransaction THEN overlaid(getCurrentTransaction, state.main)
                     ELSE state.main

\* The root of a child stands for its entries.  It is read from the state
\* whether or not a transaction is open.
GetChildRoot(keyToChild) ==
    IF ChildExists(state, keyToChild) THEN state.child[keyToChild] ELSE Nil

GetChildStorage(keyToChild, key) ==
    LET found == getFromChild(getCurrentTransaction, keyToChild, key)
    IN  IF InTransaction /\ (found.val # Nil \/ found.deleted)
        THEN found.val
        ELSE GetFromChild(state, keyToChild, key)

\* Has the innermost transaction recorded changes for the child?
ChildChanged(keyToChild) ==
    /\ InTransaction
    /\ Changed(getCurrentTransaction, keyToChild)

ChildDeleted(keyToChild) ==
    /\ InTransaction
    /\ keyToChild \in getCurrentTransaction.deletes

GetChildNextKey(keyToChild, key) ==
    IF ChildDeleted(keyToChild) THEN NoKey
    ELSE IF ChildChanged(keyToChild)
    THEN nextKeyOf(getCurrentTransaction.childChangeSet[keyToChild],
                   state.child[keyToChild], key)
    ELSE First(KeysFrom(state.child[keyToChild], key))

\* The entries of the child on the state take the place of the upserts
\* copied from the transaction.
GetKeysWithPrefixFromChild(keyToChild, prefix) ==
    IF ChildDeleted(keyToChild) THEN {}
    ELSE IF ChildChanged(keyToChild) /\ ~ChildExists(state, keyToChild)
    THEN PrefixedKeys(getCurrentTransaction.childChangeSet[keyToChild].upserts,
                      prefix)
    ELSE PrefixedKeys(state.child[keyToChild], prefix)

-----------------------------------------------------------------------------
(* Properties *)

Overlay == INSTANCE OverlayStore WITH views <- Views

TypeOK ==
    /\ state \in Tries
    /\ onTrie \in Tries
    /\ \A i \in DOMAIN transactions : IsStorageDiff(transactions[i])
    /\ Len(transactions) <= MaxDepth
    /\ \A i \in DOMAIN transactions :
          LET diff == transactions[i]
          IN  /\ KeysOf(diff.upserts) \cap diff.deletes = {}
              /\ \A c \in ChildKeys \cap diff.deletes :
                    ~Changed(diff, c)

\* Overlay-commit and overlay-rollback (specification, section 8): every
\* step of TrieState is a step of the stack of stores of OverlayStore.  A
\* write recorded in a storageDiff changes what the innermost transaction
\* sees as the same write made on a trie would and changes nothing below
\* it; StartTransaction begins on what its parent sees; RollbackTransaction
\* leaves no trace; CommitTransaction hands the parent exactly what the
\* child saw, whether the parent is another diff or the trie.
ImplementsOverlay == Overlay!Spec

\* Overlay-commit (specification, section 5): operations recorded in a
\* transaction produce "the same external observations as if the operations
\* had been applied directly".  Each write method passes the storageDiff the
\* keys it finds on the state and a limit of its own choice; whatever it
\* passes, and however deep the transaction it records in, callers see what
\* the same calls leave of a trie with no transaction open, and a commit,
\* nested or outermost, changes nothing of it.
CallsAsOnTrie == View = onTrie

\* Reads inside a transaction see its writes: Get, Has, LoadCode with its
\* hash, TrieEntries and GetChildStorage return what a trie returns to
\* which every change of the innermost transaction was applied.  Get and GetChildStorage decide from
\* the answer of the diff (a value, or nil and deleted) whether to look in
\* the trie.
ReadsSeeTransaction ==
    /\ TrieEntries = View.main
    /\ LoadCodeHash = [Blake2bHash |-> TrieGet(View, CodeKey)]
    /\ \A key \in Keys :
          /\ Get(key) = TrieGet(View, key)
          /\ Has(key) <=> key \in KeysOf(View.main)
          /\ \A c \in ChildKeys :
                GetChildStorage(c, key) = GetFromChild(View, c, key)

\* The key a read returns as the next after key is after key, and no key
\* that callers can read lies between the two.
Follows(next, key, entries) ==
    LET rest == KeysFrom(entries, key)
    IN  IF next = NoKey THEN rest = {}
                        ELSE next > key /\ \A k \in rest : next <= k

\* Iterating with NextKey or GetChildNextKey inside a transaction ends and
\* loses no key: the two merge the sorted keys of the diff with the keys of
\* the trie the diff has not deleted, by a binary search that steps over the
\* key itself when it finds it.  0 stands for a key before all keys.
NextKeyLosesNoKey ==
    \A key \in {0} \cup Keys :
        /\ Follows(NextKey(key), key, View.main)
        /\ \A c \in ChildKeys :
              Follows(GetChildNextKey(c, key), key, View.child[c])

\* GetKeysWithPrefixFromChild is a read like the others: inside a
\* transaction it returns the keys with the prefix that the child holds
\* after the changes of the transaction, the keys it upserted included and
\* the keys it deleted left out.
ChildKeysSeeTransaction ==
    \A c \in ChildKeys, prefix \in KeyPrefixes :
        GetKeysWithPrefixFromChild(c, prefix)
            = PrefixedKeys(View.child[c], prefix)

\* "DeleteChildLimit deletes up to limit of database entries" and
\* ClearPrefixInChildWithLimit clears "till limit reached": a call with a
\* limit takes at most that many entries from what callers see of the
\* child, in a transaction or outside one.
LimitRespected ==
    [][\A c \in ChildKeys, limit \in Limits :
          \/ DeleteChildLimit(c, limit)
          \/ \E prefix \in KeyPrefixes :
                ClearPrefixInChildWithLimit(c, prefix, limit)
          => Cardinality(KeysOf(View.child[c]) \ KeysOf(View'.child[c]))
                <= limit]_vars

=============================================================================
