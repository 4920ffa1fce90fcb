----------------------------- MODULE MCWarpSync -----------------------------
(***************************************************************************)
(* WarpSync against an honest peer and a Byzantine one.  The chain and the *)
(* node's start are given by the configuration: a node inside the first    *)
(* set of a chain whose set changes at blocks 3, 4 and 5, or a node at the *)
(* start or past the changes of a chain whose set changes at blocks 1, 2   *)
(* and 3.  Two fragments fit in a proof, so that an honest peer at the tip *)
(* answers the first request with an unfinished proof.  The Byzantine peer *)
(* replays stored fragments and sends forged ones.                         *)
(***************************************************************************)
EXTENDS WarpSync

CONSTANTS a1, a2, a3, b1, h1, z

Weighted(members, heavy) ==
    {[AuthorityID |-> PublicOf(a), AuthorityWeight |-> IF a \in heavy THEN 2 ELSE 1] :
        a \in members}

MCAuthSet ==
    <<Weighted({a1, a2, a3, b1}, {}),
      Weighted({a1, a2, b1}, {a1, a2}),
      Weighted({a2, a3}, {}),
      Weighted({a1, a3, b1}, {a3})>>

MCFragmentSize == [n \in Numbers |-> 3]

MCHardForks == <<>>

\* A block of a fork that was never finalized, announcing the Byzantine
\* authority as the next set; the node is configured to refuse it.
Forged == ForgedHeader(2, Weighted({b1}, {b1}))

MCBadBlocks == {Forged}

MCAnnounces ==
    {[Hash |-> CanonicalHeader(3), Number |-> 3], [Hash |-> Forged, Number |-> 2]}

\* Another forged header, not known to be bad.
Fake == ForgedHeader(1, Weighted({b1}, {b1}))

\* The fragments a Byzantine peer builds proofs from: stored fragments of the
\* chain, a forged header under a stored justification, a forged header
\* under a justification only the Byzantine authority signed, and one under
\* precommits it signed in the name of every authority of the first set.
ByzantineFragments ==
    {CanonicalFragment(n) : n \in {1, 3, 4}}
      \cup {WarpSyncFragment(Fake, CanonicalJustification(1)),
            WarpSyncFragment(Fake, GrandpaJustification(Fake, 0, {b1})),
            WarpSyncFragment(Fake, ImpersonatedJustification(
                                       Fake, 0, {a1, a2, a3, b1}, b1))}

MCByzantineProofs ==
    {[Proofs |-> fragments, IsFinished |-> finished] :
        fragments \in BoundedSeq(ByzantineFragments, 2), finished \in BOOLEAN}

MCByzantineBlocks == {CanonicalHeader(1), Fake, Forged}

\* Every justification the Byzantine peer uses is one it can have.
ASSUME \A f \in ByzantineFragments : InCirculation(f.Justification)

=============================================================================
