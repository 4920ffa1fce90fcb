------------------------------ MODULE WarpSync ------------------------------
(***************************************************************************)
(* The warp-sync strategy: dot/sync/warp_sync.go.                          *)
(*                                                                         *)
(* The strategy asks peers for a warp proof from the last header it        *)
(* trusts, verifies what comes back, follows the best proof to its last    *)
(* header, and once a proof is finished downloads that header's block.     *)
(* The first part of the module is the strategy itself, one action per     *)
(* method, over the fields of WarpSyncStrategy.  The second part is the    *)
(* peers that answer its requests, honest and Byzantine.  The third is the *)
(* sequential caller of the strategy: NextActions, the answers of the      *)
(* peers, Process, and the peers Process wants blocked left out of the     *)
(* next round.  Module SyncService puts the same strategy under the        *)
(* concurrent service.                                                     *)
(***************************************************************************)
EXTENDS WarpSyncProof

CONSTANTS
    Peers,              \* peer identities
    Honest,             \* the peers that follow the protocol
    BadBlocks,          \* w.badBlocks: hashes of the blocks never to accept
    NodeFinalized,      \* number of the node's own highest finalized block
    NodeSetId,          \* the node's current GRANDPA set id
    Announces,          \* the [Hash, Number] a peer may announce as its best
    ByzantineProofs,    \* the proofs a Byzantine peer may answer with
    ByzantineBlocks,    \* the hashes of the blocks a Byzantine peer may send
    MaxResults,         \* bound on the results of one round
    InitialTip          \* the highest finalized block of the honest peers at first

VARIABLES
    phase,              \* WarpProof, TargetBlock or Completed
    syncedFragments,    \* fragments of the proofs followed so far
    setId,              \* id of the authority set the strategy trusts
    authorities,        \* the authority list of that set
    lastBlock,          \* the last header the strategy trusts, NoHeader if nil
    result,             \* the block data of the target block
    peers               \* the peerViewSet: what each peer claims as its best

VARIABLES
    tasks,              \* the tasks of the round in progress
    tips,               \* the highest finalized block of every honest peer
    ignorePeers         \* the peers that are no longer asked

strategyVars ==
    <<phase, syncedFragments, setId, authorities, lastBlock, result, peers>>

vars == <<strategyVars, tasks, tips, ignorePeers>>

ASSUME StrategyAssumption ==
    /\ Honest \subseteq Peers
    /\ NodeFinalized \in Numbers
    /\ NodeSetId \in Nat
    /\ MaxResults \in Nat
    /\ InitialTip \in Numbers

\* Zero values: a header that is no block's, block data that holds none.
NoHeader == [Number |-> 0, Digest |-> <<>>, fork |-> 0]
NoBlockData == [Hash |-> NoHeader]
NoView == [bestBlockHash |-> NoHeader, bestBlockNumber |-> 0]

Phases == <<"WarpProof", "TargetBlock", "Completed">>

-----------------------------------------------------------------------------
(* The strategy *)

NewWarpSyncStrategy ==
    /\ phase = "WarpProof"
    /\ syncedFragments = 0
    /\ setId = 0
    /\ authorities = CurrentAuthorities(NodeSetId)
    /\ lastBlock = NoHeader
    /\ result = NoBlockData
    /\ peers = [p \in Peers |-> NoView]

\* peerViewSet.update
update(view, peerID, bestHash, bestNumber) ==
    [view EXCEPT ![peerID] =
        [bestBlockHash |-> bestHash, bestBlockNumber |-> bestNumber]]

Change(who, rep) == [who |-> who, rep |-> rep]

\* What OnBlockAnnounce returns.
OnBlockAnnounceReturn(from, msg) ==
    IF msg.Hash \in BadBlocks
      THEN [repChange |-> Change(from, "BadBlockAnnouncement"),
            err |-> "errBadBlockReceived"]
      ELSE [repChange |-> Change(from, "GossipSuccess"), err |-> Nil]

OnBlockAnnounce(from, msg) ==
    /\ peers' = IF msg.Hash \notin BadBlocks /\ msg.BestBlock
                  THEN update(peers, from, msg.Hash, msg.Number)
                  ELSE peers
    /\ UNCHANGED <<phase, syncedFragments, setId, authorities, lastBlock, result>>

OnBlockAnnounceHandshake(from, msg) ==
    /\ peers' = update(peers, from, msg.BestBlockHash, msg.BestBlockNumber)
    /\ UNCHANGED <<phase, syncedFragments, setId, authorities, lastBlock, result>>

\* Faulty variant of lastBlockHeader: the node's highest finalized header is
\* read on every call.
lastBlockHeaderUncached == CanonicalHeader(NodeFinalized)

\* The header lastBlockHeader returns and leaves in lastBlock.
lastBlockHeader ==
    IF lastBlock = NoHeader THEN CanonicalHeader(NodeFinalized) ELSE lastBlock

SyncTask(request, hash) == [request |-> request, from |-> hash]

\* The tasks NextActions returns: always one, in phase Completed a task that
\* holds no request.
NextActionsReturn ==
    <<CASE phase = "WarpProof" -> SyncTask("WarpProofRequest", lastBlockHeader)
        [] phase = "TargetBlock" -> SyncTask("BlockRequest", lastBlockHeader)
        [] OTHER -> SyncTask("none", NoHeader)>>

NextActions ==
    /\ lastBlock' = lastBlockHeader
    /\ UNCHANGED <<phase, syncedFragments, setId, authorities, result, peers>>

IsSynced == phase = "Completed"

Result == result

\* The results that are verified: completed ones that hold a warp proof.
\* (IsWarpSyncProof alone is the faulty variant that verifies what a peer
\* did not send in time.)
IsWarpSyncProof(r) == r.response.type = "WarpSyncProof"

IsVerified(r) == IsWarpSyncProof(r) /\ r.completed

Penalized(v, who, rep) ==
    [v EXCEPT !.repChanges = @ \cup {Change(who, rep)},
              !.peersToBlock = @ \cup {who}]

\* One turn of the loop of validateWarpSyncResults; `v' is what the loop has
\* gathered, `res' what Verify returns on the proof of r.  A verified proof
\* replaces the best so far when it is finished or has more fragments.
validateResult(v, r, res) ==
    CASE ~IsWarpSyncProof(r) -> Penalized(v, r.who, "UnexpectedResponse")
      [] IsVerified(r) /\ res.err # Nil
           -> Penalized(v, r.who, "BadWarpProof")
      [] IsVerified(r) /\ res.err = Nil
            /\ \/ r.response.proof.IsFinished
               \/ Len(r.response.proof.Proofs) > Len(v.bestProof.Proofs)
           -> [v EXCEPT !.bestProof = r.response.proof, !.bestResult = res]
      [] OTHER -> v

validateWarpSyncResults(results) ==
    FoldLeft(LAMBDA v, r :
                 validateResult(v, r, Verify(r.response.proof, setId, authorities)),
             [repChanges |-> {}, peersToBlock |-> {},
              bestProof |-> Encode(NewWarpSyncProof),
              bestResult |-> [err |-> "nil result"]],
             results)

\* validateResults of the full-sync strategy, reused for the target block:
\* a response of another type or one that holds a bad block is penalized and
\* its peer blocked; what remains is valid.  (A response of one block is
\* always a chain.)
IsValidBlockResponse(r) ==
    /\ r.completed
    /\ r.response.type = "BlockResponse"
    /\ \A i \in DOMAIN r.response.BlockData :
           r.response.BlockData[i].Hash \notin BadBlocks

validateResults(results, badBlocks) ==
    LET repChanges ==
            {Change(r.who, "UnexpectedResponse") :
                r \in {x \in ToSet(results) :
                          x.completed /\ x.response.type # "BlockResponse"}}
            \cup
            {Change(r.who, "BadBlock") :
                r \in {x \in ToSet(results) :
                          /\ x.completed /\ x.response.type = "BlockResponse"
                          /\ \E i \in DOMAIN x.response.BlockData :
                                 x.response.BlockData[i].Hash \in badBlocks}}
    IN  [repChanges   |-> repChanges,
         peersToBlock |-> {c.who : c \in repChanges},
         validRes     |-> SelectSeq(results, IsValidBlockResponse)]

\* What Process returns besides done, from what the validation of the
\* phase returned.
ProcessReturned(v) == [repChanges |-> v.repChanges, bans |-> v.peersToBlock]

ProcessReturn(results) ==
    CASE phase = "WarpProof" -> ProcessReturned(validateWarpSyncResults(results))
      [] phase = "TargetBlock" -> ProcessReturned(validateResults(results, BadBlocks))
      [] OTHER -> [repChanges |-> {}, bans |-> {}]

\* Process in phase WarpProof, `v' being what validateWarpSyncResults
\* returns: follow the best proof to its last header; an unfinished proof
\* moves the trusted set, a finished one ends the phase.
ProcessWarpProof(v) ==
    /\ phase = "WarpProof"
    /\ syncedFragments' = syncedFragments + Len(v.bestProof.Proofs)
    /\ \/ /\ v.bestResult.err # Nil
          /\ UNCHANGED <<lastBlock, setId, authorities, phase>>
       \/ /\ v.bestResult.err = Nil /\ ~v.bestResult.Completed
          /\ lastBlock' = v.bestResult.Header
          /\ setId' = v.bestResult.SetId
          /\ authorities' = v.bestResult.AuthorityList
          /\ UNCHANGED phase
       \/ /\ v.bestResult.err = Nil /\ v.bestResult.Completed
          /\ lastBlock' = v.bestResult.Header
          /\ phase' = "TargetBlock"
          /\ UNCHANGED <<setId, authorities>>
    /\ UNCHANGED <<result, peers>>

\* Process in phase TargetBlock, `validRes' being the valid responses: the
\* first block of the first of them is the result.
ProcessTargetBlock(validRes) ==
    /\ phase = "TargetBlock"
    /\ \/ /\ validRes # <<>> /\ validRes[1].response.BlockData # <<>>
          /\ result' = validRes[1].response.BlockData[1]
          /\ phase' = "Completed"
       \/ /\ ~(validRes # <<>> /\ validRes[1].response.BlockData # <<>>)
          /\ UNCHANGED <<result, phase>>
    /\ UNCHANGED <<syncedFragments, setId, authorities, lastBlock, peers>>

Process(results) ==
    \/ ProcessWarpProof(validateWarpSyncResults(results))
    \/ ProcessTargetBlock(validateResults(results, BadBlocks).validRes)
    \/ phase = "Completed" /\ UNCHANGED strategyVars

-----------------------------------------------------------------------------
(* The peers *)

SyncTaskResult(who, completed, response) ==
    [who |-> who, completed |-> completed, response |-> response]

WarpSyncProofResponse(proof) == [type |-> "WarpSyncProof", proof |-> proof]

BlockResponse(hashes) ==
    [type |-> "BlockResponse",
     BlockData |-> [i \in DOMAIN hashes |-> [Hash |-> hashes[i]]]]

OtherResponse == [type |-> "Other"]

\* The response left in a result when the request failed or timed out.
Unanswered(task) ==
    IF task.request = "WarpProofRequest"
      THEN WarpSyncProofResponse(Encode(NewWarpSyncProof))
      ELSE BlockResponse(<<>>)

ProofResponses(generated) ==
    IF generated.err = Nil THEN {WarpSyncProofResponse(generated.proof)} ELSE {}

\* What the highest finalized block of peer p may be when Generate reads it
\* the second time: the peer keeps finalizing while it serves.  A block
\* request is served from one read.
SecondReads(p, task) ==
    IF task.request = "WarpProofRequest" THEN tips[p]..MaxBlock ELSE {tips[p]}

\* An honest peer answers a warp proof request with what Generate returns on
\* its chain, the loop run on the highest finalized block it reads first
\* and the proof closed on the one it reads then (`second'), and a block
\* request with the block if it has finalized it.
HonestResponse(p, task, second) ==
    CASE task.request = "WarpProofRequest"
           -> ProofResponses(generateEnd(generateCollect(task.from, tips[p]),
                                         second))
      [] task.request = "BlockRequest" /\ IsCanonical(task.from)
           -> {BlockResponse(IF task.from.Number <= tips[p]
                               THEN <<task.from>> ELSE <<>>)}
      [] OTHER -> {}

HonestResponses(p, task) ==
    UNION {HonestResponse(p, task, second) : second \in SecondReads(p, task)}

\* The highest finalized blocks of the peers once the results are in: a peer
\* whose answer is among them has finalized up to a second read that gives
\* that answer.
Answered(results, p) ==
    {results[i].response : i \in {j \in DOMAIN results :
                                     results[j].who = p /\ results[j].completed}}

TipsAfter(task, results) ==
    {after \in [Honest -> Numbers] :
        \A p \in Honest :
            IF Answered(results, p) = {} THEN after[p] = tips[p]
            ELSE /\ after[p] \in SecondReads(p, task)
                 /\ Answered(results, p) \subseteq HonestResponse(p, task, after[p])}

ByzantineResponses(task) ==
    {OtherResponse}
      \cup {WarpSyncProofResponse(proof) : proof \in ByzantineProofs}
      \cup {BlockResponse(<<hash>>) : hash \in ByzantineBlocks}

\* The results peer p may contribute to a round: its answer, or none in time.
Results(p, task) ==
    {SyncTaskResult(p, FALSE, Unanswered(task))}
      \cup {SyncTaskResult(p, TRUE, response) :
              response \in IF p \in Honest THEN HonestResponses(p, task)
                                           ELSE ByzantineResponses(task)}

\* The results of a round: at most MaxResults, of different peers, in any
\* order.  A task without a request is given to nobody.
Rounds(task, askable) ==
    IF task.request = "none" THEN {<<>>}
    ELSE {results \in BoundedSeq(UNION {Results(p, task) : p \in askable},
                                 MaxResults) :
             \A i, j \in DOMAIN results :
                 results[i].who = results[j].who => i = j}

-----------------------------------------------------------------------------
(* The caller *)

Init ==
    /\ NewWarpSyncStrategy
    /\ tasks = <<>>
    /\ tips = [p \in Honest |-> InitialTip]
    /\ ignorePeers = {}

\* An honest peer finalizes the next block of the chain.
PeerFinalises(p) ==
    /\ tips[p] < MaxBlock
    /\ tips' = [tips EXCEPT ![p] = @ + 1]
    /\ UNCHANGED <<strategyVars, tasks, ignorePeers>>

Announce(from, msg) ==
    /\ OnBlockAnnounce(from, msg)
    /\ UNCHANGED <<tasks, tips, ignorePeers>>

Handshake(from, msg) ==
    /\ OnBlockAnnounceHandshake(from, msg)
    /\ UNCHANGED <<tasks, tips, ignorePeers>>

Ask ==
    /\ tasks = <<>>
    /\ NextActions
    /\ tasks' = NextActionsReturn
    /\ UNCHANGED <<tips, ignorePeers>>

Answer(results) ==
    /\ tasks # <<>>
    /\ Process(results)
    /\ ignorePeers' = ignorePeers \cup ProcessReturn(results).bans
    /\ tasks' = <<>>
    /\ tips' \in TipsAfter(tasks[1], results)

Next ==
    \/ \E p \in Honest : PeerFinalises(p)
    \/ \E p \in Peers, a \in Announces, best \in BOOLEAN :
           Announce(p, [Hash |-> a.Hash, Number |-> a.Number, BestBlock |-> best])
    \/ \E p \in Peers, a \in Announces :
           Handshake(p, [BestBlockHash |-> a.Hash, BestBlockNumber |-> a.Number])
    \/ Ask
    \/ /\ tasks # <<>>
       /\ \E results \in Rounds(tasks[1], Peers \ ignorePeers) : Answer(results)

Spec == Init /\ [][Next]_vars

-----------------------------------------------------------------------------
(* Properties *)

TypeOK ==
    /\ phase \in ToSet(Phases)
    /\ syncedFragments \in 0..(Cardinality(ChangeBlocks) + 1)
    /\ setId \in 0..Cardinality(ChangeBlocks)
    /\ authorities \in AuthorityLists
    /\ lastBlock.Number \in Numbers
    /\ result.Hash.Number \in Numbers
    /\ \A p \in Peers : peers[p].bestBlockNumber \in Nat
    /\ Len(tasks) <= 1
    /\ tips \in [Honest -> Numbers]
    /\ ignorePeers \subseteq Peers

\* The chain of trust: whatever the peers send, the header the strategy
\* trusts is a finalized block of the chain, and while it is still asking for
\* proofs the set id and the authority list it verifies with are those of the
\* set in force after that header.  Process moves the three together from
\* what Verify returns; a proof accepted on a forged header, or lastBlock
\* moved without the set, breaks it one round later.
TrustAnchored ==
    HonestSupermajority =>
        /\ IsCanonical(lastBlockHeader)
        /\ phase = "WarpProof" =>
               SetIdAuthorityList(setId, authorities) = TrustedAt(lastBlockHeader)

\* The header the strategy trusts: the node's highest finalized header until
\* the first request has put it in lastBlock.
Trusted ==
    IF lastBlock = NoHeader THEN CanonicalHeader(NodeFinalized) ELSE lastBlock

Trust == INSTANCE ChainOfTrust WITH
    Headers <- CanonicalHeaders,
    SetOf <- LAMBDA header : SetIdAt(header.Number),
    SetAfter <- LAMBDA header : SetIdAfter(header.Number),
    Start <- CanonicalHeader(NodeFinalized),
    trusted <- Trusted,
    stage <- phase

\* Strategy monotonicity (specification, section 8) and what it is for:
\* every call of NextActions and Process, whatever the peers answered, is a
\* step of ChainOfTrust or leaves header and phase alone.  An unfinished
\* proof moves lastBlock to the end of the trusted set or of a later one, a
\* finished proof to a block of those sets, and once the phase has left
\* WarpProof the header stays: validateWarpSyncResults takes a finished
\* proof that arrives after a longer one, and lastBlockHeader must not read
\* the block state a second time.
FollowsChainOfTrust == Trust!Spec

\* A set ended below the block that closes the proof and above the block
\* the loop of Generate stopped at: between the two reads peer p made of
\* its highest finalized block.
SetEndedWhileServing(p) ==
    \E change \in ChangeBlocks : tips[p] < change /\ change < tips'[p]

\* Process blocks a peer for a proof that does not verify.  A peer that
\* follows the protocol is blocked on account of a set end only, in the two
\* cases in which Generate builds a proof that fails Verify: it is asked to
\* continue from the last block of a set and that block is its own highest
\* finalized one, so that the proof ends with the block the strategy has
\* already passed; or a set ended while it served, so that the closing
\* fragment is signed by a set the proof has not handed over to.  No other
\* answer of Generate, to any request the strategy makes after any sequence
\* of proofs and with the peer finalizing at any point, fails Verify.
HonestBlockedOnlyAtSetEnd ==
    [][\A p \in (ignorePeers' \ ignorePeers) \cap Honest :
           /\ phase = "WarpProof"
           /\ \/ lastBlock.Number \in ChangeBlocks /\ tips'[p] = lastBlock.Number
              \/ SetEndedWhileServing(p)]_vars

\* Result() returns the block data of the target block (specification,
\* section 4.1): the block whose header the finished proof ended in.
ResultIsTarget ==
    IsSynced => result.Hash = lastBlock

=============================================================================
