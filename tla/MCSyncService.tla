---------------------------- MODULE MCSyncService ----------------------------
(***************************************************************************)
(* SyncService with an honest peer and a Byzantine one, on a chain of five *)
(* blocks whose authority set changes at blocks 1, 2 and 3.  Two fragments *)
(* fit in a proof, so that warp sync takes at least two rounds of proofs   *)
(* and one for the target block.                                           *)
(***************************************************************************)
EXTENDS SyncService

CONSTANTS a1, a2, a3, b1, h1, z

Weighted(members, heavy) ==
    {[AuthorityID |-> PublicOf(a), AuthorityWeight |-> IF a \in heavy THEN 2 ELSE 1] :
        a \in members}

MCAuthSet ==
    <<Weighted({a1, a2, a3, b1}, {}),
      Weighted({a1, a2, b1}, {a1, a2}),
      Weighted({a2, a3}, {}),
      Weighted({a1, a3, b1}, {a3})>>

MCFragmentSize == [n \in Numbers |-> 3]

MCHardForks == <<>>

\* A block of a fork that was never finalized; the node refuses it.
Forged == ForgedHeader(2, Weighted({b1}, {b1}))

MCBadBlocks == {Forged}

MCAnnounces ==
    {[Hash |-> CanonicalHeader(3), Number |-> 3], [Hash |-> Forged, Number |-> 2]}

\* Another forged header, not known to be bad.
Fake == ForgedHeader(1, Weighted({b1}, {b1}))

\* What the Byzantine peer answers a proof request with: the first fragment
\* only, finished or not, a forged header under a stored justification, and
\* one under precommits it signed in the name of every authority.
MCByzantineProofs ==
    {[Proofs |-> <<CanonicalFragment(1)>>, IsFinished |-> FALSE],
     [Proofs |-> <<CanonicalFragment(1)>>, IsFinished |-> TRUE],
     [Proofs |-> <<WarpSyncFragment(Fake, CanonicalJustification(1))>>,
      IsFinished |-> FALSE],
     [Proofs |-> <<WarpSyncFragment(Fake, ImpersonatedJustification(
                                              Fake, 0, {a1, a2, a3, b1}, b1))>>,
      IsFinished |-> TRUE]}

MCByzantineBlocks == {Fake}

\* The service as a node that warp-syncs builds it.
MCConfigs ==
    <<WithNetwork("network"), WithBlockState("blockState"),
      WithSlotDuration(6), WithWarpSyncStrategy("warp"),
      WithFullSyncStrategy("full"), WithMinPeers(2)>>

=============================================================================
