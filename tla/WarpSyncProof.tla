---------------------------- MODULE WarpSyncProof ----------------------------
(***************************************************************************)
(* Warp-sync proofs: lib/grandpa/warpsync/warp_sync.go.                    *)
(*                                                                         *)
(* A proof is a sequence of fragments, each the last header of an          *)
(* authority set with the justification that finalizes it.  Generate       *)
(* builds one from the block and GRANDPA state of the serving node; Verify *)
(* walks one from a trusted (set id, authority list) and returns the set   *)
(* it ends in.  Both are operators here: Generate takes the finalized      *)
(* height it reads as an argument, so that a caller decides whether its    *)
(* reads see one state of the node or several (module WarpSyncProvider).   *)
(*                                                                         *)
(* Go's (value, error) results are records with an `err' field, Nil for    *)
(* no error.                                                               *)
(***************************************************************************)
EXTENDS GrandpaChain, SequencesExt

CONSTANTS
    MaxWarpSyncProofSize,   \* size bound of a proof; 8 MiB in the code
    FragmentSize,           \* FragmentSize[n]: encoded size of block n's fragment
    HardForks,              \* header |-> [SetID, AuthorityList], p.hardForks
    NoJustification         \* numbers of the blocks without a stored justification

ASSUME ProofAssumption ==
    /\ MaxWarpSyncProofSize \in Nat
    /\ FragmentSize \in [Numbers -> Nat \ {0}]
    /\ NoJustification \subseteq Numbers

Nil == "nil"

-----------------------------------------------------------------------------
(* WarpSyncFragment, WarpSyncProof *)

WarpSyncFragment(header, justification) ==
    [Header |-> header, Justification |-> justification]

CanonicalFragment(n) ==
    WarpSyncFragment(CanonicalHeader(n), CanonicalJustification(n))

NewWarpSyncProof == [Proofs |-> <<>>, IsFinished |-> FALSE, proofsLength |-> 0]

\* scale.Marshal keeps the exported fields only; scale.Unmarshal leaves
\* proofsLength at its zero value.
Encode(w) == [Proofs |-> w.Proofs, IsFinished |-> w.IsFinished]

Decode(in) ==
    [Proofs |-> in.Proofs, IsFinished |-> in.IsFinished, proofsLength |-> 0]

\* len(scale.Marshal(fragment)); a forged fragment is as large as a real one.
EncodedLen(fragment) == FragmentSize[fragment.Header.Number]

\* Faulty variant of addFragment: the size of the proof is not kept, so that
\* no proof ever reaches the limit.
addFragmentUncounted(w, fragment) ==
    IF w.proofsLength + EncodedLen(fragment) >= MaxWarpSyncProofSize
      THEN [proof |-> w, limitReached |-> TRUE]
      ELSE [proof |-> [w EXCEPT !.Proofs = Append(@, fragment)],
            limitReached |-> FALSE]

addFragment(w, fragment) ==
    IF w.proofsLength + EncodedLen(fragment) >= MaxWarpSyncProofSize
      THEN [proof |-> w, limitReached |-> TRUE]
      ELSE [proof |-> [w EXCEPT !.proofsLength = @ + EncodedLen(fragment),
                                !.Proofs = Append(@, fragment)],
            limitReached |-> FALSE]

\* Faulty variant of lastProofBlockNumber: the block the proof ends in, not
\* the one after it.
lastProofBlockNumberOffByOne(w) ==
    IF w.Proofs = <<>> THEN 0
    ELSE Last(w.Proofs).Justification.Target.Number

lastProofBlockNumber(w) ==
    IF w.Proofs = <<>> THEN 0
    ELSE Last(w.Proofs).Justification.Target.Number + 1

-----------------------------------------------------------------------------
(* findScheduledChange and the conversion of its authorities *)

\* The first GRANDPA consensus digest decides: one that does not decode is an
\* error, a scheduled change is the answer, any other variant is passed over.
scheduledChangeAt(digest, i) ==
    CASE i = 0 -> [err |-> Nil, found |-> FALSE]
      [] i # 0 /\ digest[i].kind = "Malformed"
           -> [err |-> "decoding digest", found |-> FALSE]
      [] OTHER -> [err |-> Nil, found |-> TRUE, Auths |-> digest[i].Auths]

findScheduledChange(header) ==
    scheduledChangeAt(header.Digest,
        SelectInSeq(header.Digest,
            LAMBDA d : d.kind \in {"ScheduledChange", "Malformed"}))

\* Faulty variant of grandpaAuthoritiesRawToAuthorities: the weight is left
\* at its zero value.
grandpaAuthoritiesRawKeysOnly(adr) ==
    {[AuthorityID |-> r.Key, AuthorityWeight |-> 0] : r \in adr}

\* (Key, ID) of the digest becomes (AuthorityID, AuthorityWeight): the raw
\* ID is taken as the weight.  A 32-byte key always parses.
grandpaAuthoritiesRawToAuthorities(adr) ==
    {[AuthorityID |-> r.Key, AuthorityWeight |-> r.ID] : r \in adr}

-----------------------------------------------------------------------------
(* verify *)

SetIdAuthorityList(setId, authorities) ==
    [SetID |-> setId, AuthorityList |-> authorities]

\* The error of the first check that fails, Nil if none does: a chain of
\* `if err != nil { return err }'.  A check is <<failed, error>>.
FirstError(checks) ==
    LET i == SelectInSeq(checks, LAMBDA c : c[1])
    IN  IF i = 0 THEN Nil ELSE checks[i][2]

IsHardFork(fragment, hardForks) == fragment.Header \in DOMAIN hardForks

\* Faulty variant of targetMismatch: the justification is not compared with
\* the header it comes with.
noMismatch(proof) == FALSE

\* The justification of a fragment commits to another block than its header.
targetMismatch(proof) == proof.Justification.Target # proof.Header

\* The error the body of the loop of verify returns on a fragment that is no
\* hard fork, Nil if it accepts it; `change' is what findScheduledChange
\* returns on the fragment's header.
fragmentError(proof, currentSetId, currentAuthorities, isLast, change) ==
    FirstError(<<
        <<JustificationVerify(proof.Justification, currentSetId,
                              currentAuthorities) # "ok",
          "verifying justification">>,
        <<targetMismatch(proof), "mismatch between header and justification">>,
        <<change.err # Nil, "finding scheduled change">>,
        <<~change.found /\ ~isLast,
          "header is missing authority set change digest">> >>)

\* Faulty variant of nextSet: the set id stays.
sameSet(current, change) ==
    SetIdAuthorityList(current.SetID,
                       grandpaAuthoritiesRawToAuthorities(change.Auths))

\* The set a scheduled change hands over to.
nextSet(current, change) ==
    SetIdAuthorityList(current.SetID + 1,
                       grandpaAuthoritiesRawToAuthorities(change.Auths))

\* Faulty variant of nextSetIdAuth: the override of a hard fork is not taken.
nextSetIdAuthUnforked(proof, current, hardForks, change) ==
    IF change.found THEN nextSet(current, change) ELSE current

\* setIdAuth after an accepted fragment: a hard fork overrides it, a
\* scheduled change moves it to the next set.
nextSetIdAuth(proof, current, hardForks, change) ==
    CASE IsHardFork(proof, hardForks) -> hardForks[proof.Header]
      [] ~IsHardFork(proof, hardForks) /\ change.found
           -> nextSet(current, change)
      [] OTHER -> current

\* Where the loop of verify stands after a fragment: `at' is the error it
\* has returned or the set it has come to, `err' the error of this fragment,
\* `next' the set after it.
afterFragment(at, err, next) ==
    CASE at.err # Nil -> at
      [] at.err = Nil /\ err # Nil -> [at EXCEPT !.err = err]
      [] OTHER -> [err |-> Nil] @@ next

\* One turn of the loop of verify.
verifyFragment(proof, isLast, hardForks, at, change) ==
    afterFragment(at,
        IF IsHardFork(proof, hardForks) THEN Nil
        ELSE fragmentError(proof, at.SetID, at.AuthorityList, isLast, change),
        nextSetIdAuth(proof, at, hardForks, change))

verify(w, setId, authorities, hardForks) ==
    FoldLeftDomain(
        LAMBDA at, k :
            verifyFragment(w.Proofs[k], k = Len(w.Proofs) /\ w.IsFinished,
                           hardForks, at,
                           findScheduledChange(w.Proofs[k].Header)),
        [err |-> Nil] @@ SetIdAuthorityList(setId, authorities),
        w.Proofs)

-----------------------------------------------------------------------------
(* WarpSyncProofProvider *)

\* The authority list of the node's current set: of every voter the GRANDPA
\* state holds, (Key, ID) becomes (AuthorityID, AuthorityWeight).
CurrentAuthorities(currentSetId) ==
    {[AuthorityID |-> auth.Key, AuthorityWeight |-> auth.ID] :
        auth \in GrandpaAuthoritiesRaw(AuthoritiesOf(currentSetId))}

\* What Verify returns on a decoded proof that verify has walked to `next'.
WarpSyncVerificationResult(proof, next) ==
    CASE proof.Proofs = <<>> -> [err |-> "empty warp sync proof"]
      [] proof.Proofs # <<>> /\ next.err # Nil -> [err |-> next.err]
      [] OTHER -> [err           |-> Nil,
                   SetId         |-> next.SetID,
                   AuthorityList |-> next.AuthorityList,
                   Header        |-> Last(proof.Proofs).Header,
                   Completed     |-> proof.IsFinished]

Verify(encodedProof, setId, authorities) ==
    WarpSyncVerificationResult(
        Decode(encodedProof),
        verify(Decode(encodedProof), setId, authorities, HardForks))

\* grandpaState.GetAuthoritiesChangesFromBlock on a node whose highest
\* finalized block is `finalized': the last blocks of the sets that ended
\* after block n, in order.
GetAuthoritiesChangesFromBlock(n, finalized) ==
    SetToSortSeq({c \in ChangeBlocks : n < c /\ c <= finalized}, <)

\* Faulty variant of changesFrom: the changes since the first block.
changesFromGenesis(start, finalized) ==
    GetAuthoritiesChangesFromBlock(0, finalized)

\* The authority set changes Generate walks: those after the start block.
changesFrom(start, finalized) ==
    GetAuthoritiesChangesFromBlock(start.Number, finalized)

\* Generate, up to the loop: the start block must be known and finalized.
generateBegin(start, finalized) ==
    CASE ~IsCanonical(start) -> [err |-> "missing start block"]
      [] IsCanonical(start) /\ start.Number > finalized
           -> [err |-> "start block is not finalized"]
      [] OTHER -> [err |-> Nil,
                   authoritySetChanges |-> changesFrom(start, finalized)]

\* One turn of the loop of Generate, on the last block of a set; `so' is
\* where the loop stands, `change' what findScheduledChange returns on the
\* block's header, `added' the proof with the block's fragment added.  The
\* loop is left at a set that ended by a forced change and at the first
\* fragment that does not fit.
collectFragment(so, blockNumber, change, added) ==
    CASE so.err # Nil \/ so.left -> so
      [] so.err = Nil /\ ~so.left /\ change.err # Nil
           -> [so EXCEPT !.err = change.err]
      [] so.err = Nil /\ ~so.left /\ change.err = Nil /\ ~change.found
           -> [so EXCEPT !.left = TRUE]
      [] so.err = Nil /\ ~so.left /\ change.err = Nil /\ change.found
            /\ blockNumber \in NoJustification
           -> [so EXCEPT !.err = "no justification"]
      [] OTHER -> [so EXCEPT !.proof = added.proof,
                             !.limitReached = added.limitReached,
                             !.left = added.limitReached]

collectFragments(authoritySetChanges) ==
    FoldLeft(LAMBDA so, blockNumber :
                 collectFragment(so, blockNumber,
                     findScheduledChange(CanonicalHeader(blockNumber)),
                     addFragment(so.proof, CanonicalFragment(blockNumber))),
             [err |-> Nil, proof |-> NewWarpSyncProof, limitReached |-> FALSE,
              left |-> FALSE],
             authoritySetChanges)

\* The loop of Generate, unless the call has returned before it.
collectFrom(begun) ==
    IF begun.err # Nil THEN begun
    ELSE collectFragments(begun.authoritySetChanges)

\* Generate from its entry to the end of the loop.
generateCollect(start, finalized) == collectFrom(generateBegin(start, finalized))

\* Generate, after the loop: an error of the loop is returned; unless the
\* limit was reached, the justification of the block that is the highest
\* finalized one now closes the proof.
generateEnd(collected, finalized) ==
    LET finalProof == collected.proof
        terminal   == CanonicalFragment(finalized)
        closed     == IF finalized >= lastProofBlockNumber(finalProof)
                        THEN addFragment(finalProof, terminal).proof
                        ELSE finalProof
    IN  CASE collected.err # Nil -> collected
          [] collected.err = Nil /\ collected.limitReached
               -> [err |-> Nil, proof |-> Encode(finalProof)]
          [] collected.err = Nil /\ ~collected.limitReached
                /\ finalized \in NoJustification
               -> [err |-> "no justification"]
          [] OTHER -> [err |-> Nil,
                       proof |-> Encode([closed EXCEPT !.IsFinished = TRUE])]

\* Generate when every read sees the same state of the node.
Generate(start, finalized) ==
    generateEnd(generateCollect(start, finalized), finalized)

-----------------------------------------------------------------------------
(* Reference definitions for the properties *)

\* What a verifier that trusts a header of the chain should hold: the
\* authority set in force once that header is finalized.
TrustedAt(header) ==
    SetIdAuthorityList(SetIdAfter(header.Number),
                       AuthoritiesOf(SetIdAfter(header.Number)))

=============================================================================
