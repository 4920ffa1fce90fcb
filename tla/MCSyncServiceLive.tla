-------------------------- MODULE MCSyncServiceLive --------------------------
(***************************************************************************)
(* SyncService for the liveness properties: a chain of four blocks whose   *)
(* authority set changes at blocks 1 and 2, one fragment to a proof, an    *)
(* honest peer that has finalized the whole chain and a Byzantine peer     *)
(* that answers with a truncated proof, a forged one, or something else.   *)
(***************************************************************************)
EXTENDS SyncService

CONSTANTS a1, a2, a3, b1, h1, z

Weighted(members, heavy) ==
    {[AuthorityID |-> PublicOf(a), AuthorityWeight |-> IF a \in heavy THEN 2 ELSE 1] :
        a \in members}

MCAuthSet ==
    <<Weighted({a1, a2, a3, b1}, {}),
      Weighted({a1, a2, b1}, {a1, a2}),
      Weighted({a2, a3}, {})>>

MCFragmentSize == [n \in Numbers |-> 3]

MCHardForks == <<>>

MCBadBlocks == {}

MCAnnounces == {[Hash |-> CanonicalHeader(3), Number |-> 3]}

Fake == ForgedHeader(1, Weighted({b1}, {b1}))

MCByzantineProofs ==
    {[Proofs |-> <<CanonicalFragment(1)>>, IsFinished |-> TRUE],
     [Proofs |-> <<WarpSyncFragment(Fake, CanonicalJustification(1))>>,
      IsFinished |-> FALSE]}

MCByzantineBlocks == {Fake}

\* The service as a node that warp-syncs builds it.
MCConfigs ==
    <<WithNetwork("network"), WithBlockState("blockState"),
      WithSlotDuration(6), WithWarpSyncStrategy("warp"),
      WithFullSyncStrategy("full"), WithMinPeers(1)>>

=============================================================================
