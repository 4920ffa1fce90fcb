---------------------------- MODULE GrandpaChain ----------------------------
(***************************************************************************)
(* The finalized chain as the warp-sync code meets it: block headers with  *)
(* their digests, the succession of GRANDPA authority sets, and the        *)
(* justifications that prove finality.                                     *)
(*                                                                         *)
(* None of this is code of the repository: headers, digests and the        *)
(* justification verifier live in packages the sources only import.  The   *)
(* definitions follow sections 3 and 4.3 of the specification and abstract *)
(* the data to what the warp-sync code tells apart:                        *)
(*   - a header is its number, its digest and a `fork' tag standing for    *)
(*     every other field; its hash is the header itself (hashing is        *)
(*     injective for every purpose of the code);                           *)
(*   - a justification is its round, the header it commits to and the     *)
(*     signed precommits for that header; the targets of the precommits    *)
(*     and the vote ancestries are left out.                               *)
(* The authorities are members of a keyring, as in the tests of the        *)
(* repository: their keys and signatures are those of module Ed25519.      *)
(***************************************************************************)
EXTENDS Integers, Sequences, FiniteSets, FiniteSetsExt

CONSTANTS
    Authorities,    \* every authority, by its name in the keyring
    Byzantine,      \* the authorities that sign whatever they are asked to
    AuthSet,        \* AuthSet[s + 1] is the authority list of set id s
    MaxBlock,       \* the canonical chain has blocks 0..MaxBlock
    ScheduledAt,    \* numbers of the blocks whose digest schedules a change
    ForcedAt        \* numbers of the blocks after which the set was forced

ed25519 == INSTANCE Ed25519

Numbers == 0..MaxBlock

\* The pairs of the members of the keyring: the development phrase and the
\* name as the one hard junction of the path ("//Alice").
Keyring ==
    [voter \in Authorities |->
        ed25519!NewPairFromString(
            ed25519!SecretString(ed25519!EmptyPhrase, <<ed25519!Hard(voter)>>,
                                 ed25519!Nil),
            ed25519!Nil).pair]

Pair(voter) == Keyring[voter]

PublicOf(voter) == ed25519!Public(Pair(voter))

PublicKeys(voters) == {PublicOf(voter) : voter \in voters}

\* An authority list: (public key, weight) pairs.
AuthorityLists ==
    SUBSET [AuthorityID : PublicKeys(Authorities), AuthorityWeight : 1..3]

ASSUME ChainAssumption ==
    /\ Byzantine \subseteq Authorities
    /\ MaxBlock \in Nat
    /\ ScheduledAt \subseteq Numbers \ {0}
    /\ ForcedAt \subseteq Numbers \ {0}
    /\ ScheduledAt \cap ForcedAt = {}
    /\ AuthSet \in Seq(AuthorityLists)
    /\ Len(AuthSet) > Cardinality(ScheduledAt \cup ForcedAt)

-----------------------------------------------------------------------------
(* Authority sets along the chain *)

\* The last block of every authority set.
ChangeBlocks == ScheduledAt \cup ForcedAt

\* The id of the set that finalizes block n: the last block of a set is
\* still finalized by that set.
SetIdAt(n) == Cardinality({c \in ChangeBlocks : c < n})

\* The id of the set in force once block n is finalized.
SetIdAfter(n) == Cardinality({c \in ChangeBlocks : c <= n})

AuthoritiesOf(setId) == AuthSet[setId + 1]

Members(authorities) == {a.AuthorityID : a \in authorities}

TotalWeight(authorities) ==
    MapThenSumSet(LAMBDA a : a.AuthorityWeight, authorities)

\* floor(2 * total / 3) + 1
Threshold(authorities) == (2 * TotalWeight(authorities)) \div 3 + 1

-----------------------------------------------------------------------------
(* Headers *)

NoAuths == {}

\* An authority list as a digest carries it: (Key, ID) pairs, the weight in ID.
GrandpaAuthoritiesRaw(authorities) ==
    {[Key |-> a.AuthorityID, ID |-> a.AuthorityWeight] : a \in authorities}

DigestItem(kind, auths) == [kind |-> kind, Auths |-> auths]

\* The digest of canonical block n.  A scheduled change names the next set; a
\* forced change is a GRANDPA consensus digest of another variant.
CanonicalDigest(n) ==
    <<DigestItem("PreRuntime", NoAuths)>>
      \o (IF n \in ScheduledAt
            THEN <<DigestItem("ScheduledChange",
                              GrandpaAuthoritiesRaw(AuthoritiesOf(SetIdAfter(n))))>>
            ELSE <<>>)
      \o (IF n \in ForcedAt
            THEN <<DigestItem("ForcedChange",
                              GrandpaAuthoritiesRaw(AuthoritiesOf(SetIdAfter(n))))>>
            ELSE <<>>)
      \o <<DigestItem("Seal", NoAuths)>>

CanonicalHeader(n) == [Number |-> n, Digest |-> CanonicalDigest(n), fork |-> 0]

CanonicalHeaders == {CanonicalHeader(n) : n \in Numbers}

\* A header nobody finalized, announcing the authority set of its maker.
ForgedHeader(n, auths) ==
    [Number |-> n,
     Digest |-> <<DigestItem("PreRuntime", NoAuths),
                  DigestItem("ScheduledChange", GrandpaAuthoritiesRaw(auths))>>,
     fork   |-> 1]

IsCanonical(header) == header \in CanonicalHeaders

-----------------------------------------------------------------------------
(* Justifications *)

\* The payload a precommit signs: the vote with its round and set id.
NewLocalizedPayload(round, setID, target) ==
    [message |-> "Precommit", target |-> target, round |-> round, setID |-> setID]

makePrecommit(target, round, setID, voter) ==
    [ID        |-> PublicOf(voter),
     Signature |-> ed25519!Sign(Pair(voter),
                                NewLocalizedPayload(round, setID, target))]

\* A precommit put together from raw bytes: it names `named' and carries a
\* signature that `signer' made.
forgedPrecommit(target, round, setID, named, signer) ==
    [ID        |-> ed25519!NewPublic(PublicOf(named)),
     Signature |-> ed25519!NewSignatureFromRaw(
                       makePrecommit(target, round, setID, signer).Signature)]

\* The justification of round 1 in which `signers' precommit to `target' under
\* set id setId.
GrandpaJustification(target, setId, signers) ==
    [Round      |-> 1,
     Target     |-> target,
     Precommits |-> {makePrecommit(target, 1, setId, voter) : voter \in signers}]

\* The justification stored for canonical block n: every member of the set
\* that finalized it signed a precommit for it.
StoredJustifications ==
    [n \in Numbers |->
        GrandpaJustification(CanonicalHeader(n), SetIdAt(n),
                             {voter \in Authorities :
                                 PublicOf(voter) \in Members(AuthoritiesOf(SetIdAt(n)))})]

CanonicalJustification(n) == StoredJustifications[n]

\* The justification for `target' in which every authority of `named' has a
\* precommit that `signer' signed in its name.
ImpersonatedJustification(target, setId, named, signer) ==
    [Round      |-> 1,
     Target     |-> target,
     Precommits |-> {forgedPrecommit(target, 1, setId, voter, signer) :
                        voter \in named}]

\* What honest authorities never do: sign a block that was not finalized, or
\* sign under a set id other than the one that finalized it.  The precommits
\* of a justification in circulation are stored ones, whichever justification
\* they are put into, or carry the signature of a Byzantine authority, in
\* whoever's name.
HonestlySigned(precommit) ==
    \E n \in Numbers : precommit \in CanonicalJustification(n).Precommits

SetIds == 0..(Len(AuthSet) - 1)

InCirculation(j) ==
    \A precommit \in j.Precommits :
        \/ HonestlySigned(precommit)
        \/ \E named \in Authorities, signer \in Byzantine, setId \in SetIds :
              precommit = forgedPrecommit(j.Target, j.Round, setId, named, signer)

\* The weight of the members of `authorities' with a precommit in j whose
\* signature verifies over the payload of j's round and target under setId.
\* A precommit made for another set verifies under none, and an authority
\* with several precommits counts once.
SignedWeight(j, setId, authorities) ==
    LET payload == NewLocalizedPayload(j.Round, setId, j.Target)
        voters  == {precommit.ID : precommit \in
                       {p \in j.Precommits :
                           ed25519!Verify(p.ID, p.Signature, payload)}}
    IN  TotalWeight({a \in authorities : a.AuthorityID \in voters})

\* justification.Verify(setId, authorities): "ok" or the kind of the error.
JustificationVerify(j, setId, authorities) ==
    CASE authorities = {} -> "InvalidAuthoritySet"
      [] authorities # {}
           /\ SignedWeight(j, setId, authorities) < Threshold(authorities)
         -> "BadJustification"
      [] OTHER -> "ok"

\* Fewer than a third of the weight of every set is Byzantine: no set of
\* Byzantine signatures reaches the threshold of any set.
HonestSupermajority ==
    \A s \in 1..Len(AuthSet) :
        TotalWeight({a \in AuthSet[s] : a.AuthorityID \in PublicKeys(Byzantine)})
            < Threshold(AuthSet[s])

=============================================================================
