# TLA+ models of Gossamer's sync core and storage overlay

A verification development for three subsystems of this repository: warp sync
(the GRANDPA warp-sync proof provider, the warp-sync strategy and the sync
service that drives it), the storage a runtime call works on (`TrieState`,
a trie under nested transactions), and the ed25519 keys with which the
authorities sign what warp sync verifies.  The modules are written from the
Go sources under `src/`; `spec.md` is the statement of intent the properties
are taken from.  `PROJECT.json` is the machine-readable index: components, runs, the
mutant of every property, the source lines of every definition, findings and
hazards.

## 1. The system

| part | source | what it does |
|---|---|---|
| warp-sync proof | `src/lib/grandpa/warpsync/warp_sync.go` | `WarpSyncProof`: fragments (header + justification) with a size budget; `verify` walks them from a trusted (set id, authority list) |
| proof provider | same file | `Generate` builds a proof from the node's block and GRANDPA state; `Verify` decodes and verifies one; `CurrentAuthorities` |
| warp-sync strategy | `src/dot/sync/warp_sync.go` | phases `WarpProof -> TargetBlock -> Completed`; `NextActions` asks, `Process` validates the peers' answers and follows the best proof |
| sync service | `src/dot/sync/service.go`, `configuration.go` | the engine goroutine (`waitWorkers`, slot loop, `runStrategy`), the handlers the network calls, the mutex `mu`, `Start` and `Stop` with the `WaitGroup` |
| state overlay | `src/lib/runtime/storage/trie.go` | `TrieState`: nested transactions over a trie |
| ed25519 | `src/internal/primitives/core/ed25519/ed25519.go` | key pairs from seeds, phrases and secret strings with derivation paths; `Sign`, `Verify` |
| chain defaults | `src/chain/kusama/defaults.go` | configuration constants |

Not among the sources, and modelled from `spec.md` only as far as the code
above depends on them: block state and GRANDPA state, the justification
verifier, the keyring of the tests, the worker pool, the network, the
full-sync strategy, and, for `TrieState`, the trie (`pkg/trie`) and
`storageDiff`.

How the parts interact.  A syncing node's service runs the strategy once per
slot under `mu`: `NextActions` yields a request anchored at the last trusted
header, the worker pool sends it to its workers, and `Process` verifies every
proof that came back with the provider's `Verify` against the strategy's
`(setId, authorities)`.  The serving peer answers with its own provider's
`Generate`.  Peers that send proofs that do not verify are reported and
removed from the pool.  Concurrently the network delivers handshakes (which
register workers), block announces and disconnections.

A justification is a set of precommits, each the public key of an authority
and its signature over (round, set id, target).  The authorities are pairs of
`ed25519.go`, made as the keyring of the tests makes them: from the
development phrase and the name of the authority as a hard junction.

`TrieState` is independent of the above.  The runtime's host functions call
it while a block executes: they open a transaction, write, and commit or roll
back, nested to any depth.  With a transaction open every write goes to the
`storageDiff` on top of the stack and every read looks there first; the
outermost commit applies the diff to the trie.

## 2. Modules

| module | models | state | actions |
|---|---|---|---|
| `Ed25519` | `ed25519.go`: every constructor of a pair, `Derive`, `Seed`, `Public`, `Sign`, `Verify` | none | operators, one per function |
| `GrandpaChain` | the finalized chain, authority sets, signed justifications (from `spec.md` sections 3, 4.3; `makePrecommit` from `justification_test.go`) | none (constants and operators) | - |
| `WarpSyncProof` | proof type, `addFragment`, `lastProofBlockNumber`, `findScheduledChange`, `verify`, `Verify`, `Generate`, `CurrentAuthorities` | none | operators, one per function; `Generate` in the three parts between its reads of the node's state |
| `WarpSyncProvider` | `Generate` on a node that keeps finalizing | `finalized`, `call`, `reply` | `Finalise`, `GenerateCollect`, `GenerateClose` |
| `WarpSync` | `WarpSyncStrategy`, its peers, a sequential caller | the fields of the struct; `tasks`, `tips`, `ignorePeers` | `Ask` (`NextActions`), `Answer` (`Process`), `Announce`, `Handshake`, `PeerFinalises` |
| `ChainOfTrust` | what warp sync promises (`spec.md` sections 4.1, 8) | `trusted`, `stage` | `Follow`, `Settle`, `Complete` |
| `SyncService` | `SyncService` around `WarpSync` (`INSTANCE`) | the strategy's variables, the pool, the round in progress, `engine`, `stopCh`, `wg`, `stop`, ... | one per step of the engine goroutine and per handler; `Stop` in two steps |
| `StorageDiff` | the trie and `storageDiff` (from `spec.md` section 4.4) | none | operators, one per method `TrieState` calls |
| `TrieState` | `TrieState` | `state` (the trie), `transactions` (the stack of diffs), `onTrie` (history) | one per method that writes; the reads are operators |
| `OverlayStore` | what the overlay promises (`spec.md` sections 5, 8) | `views`: a stack of complete stores | `Step`: a write to the top store, begin, roll back, commit |

Correspondence with the code:

* Go's `(value, error)` is a record with an `err` field, `"nil"` for none.
  Every `if err != nil { return }` of `verify`, `Verify` and `Generate` is an
  arm of a `CASE` or an entry of `FirstError`, in the order of the code.
* Loops are folds over the sequence the code ranges over (`FoldLeft`,
  `FoldLeftDomain`); the accumulator is the loop's local state, including the
  "has returned" and "has left the loop" conditions.
* `Encode` drops `proofsLength` and `Decode` zeroes it, as SCALE does with the
  unexported field.  `grandpaAuthoritiesRawToAuthorities` and
  `CurrentAuthorities` turn `(Key, ID)` into `(AuthorityID, AuthorityWeight)`.
* A header's hash is the header; a justification is its round, its target
  and its precommits, each `makePrecommit` of a voter: the voter's public key
  and the signature of its pair over `NewLocalizedPayload(round, setID,
  target)`.  An authority list is a set of (public key, weight) pairs.
  `JustificationVerify` counts the weight of the authorities with a
  precommit that `Verify` accepts over the payload of the set id it is
  called with, each authority once.
* The engine goroutine is a program counter `engine`:
  `created -> waitWorkers <-> waitPeersTimer -> slot -> submitted -> process
  -> gauge -> slot ... -> stopped`.  `runStrategy` is three steps
  (`RunStrategyBegin`, `SubmitRequestsReturns`, `RunStrategyEnd`) because it
  blocks in `submitRequests`; `mu` is held in between (`Locked`), and every
  handler that takes `mu` has `Lock` (= `~Locked`) as a guard.
  `HandleBlockAnnounceHandshake` is two steps because it registers the worker
  before it takes `mu`.
* `Start` is `wg.Add(1)` and the `go` statement in one step (nothing else
  touches the counter in between); the deferred `wg.Done` is part of the
  step in which the goroutine returns (`EngineStops`).  `Stop` is two steps
  because it blocks in `wg.Wait`: `Stop` closes the channel, `StopReturns`
  is enabled while the counter is zero.  `stop` records where the call is.
  Closing a closed channel panics, so `Stop` is called once (its guard).
* `NewSyncService` is `Configured(Configs)`: a `ServiceConfig` of
  `configuration.go` is the record of the fields it sets (`WithNetwork` sets
  the network and an empty worker pool), and the options are applied to the
  defaults in the order given, a later one overriding an earlier one.  A
  field no option set is nil (`IsSet`).  The initial strategy and `minPeers`
  are read from the result.
* The peers of `WarpSync`: an honest peer answers a warp-proof request with
  `Generate` as the code runs it on a node that keeps finalizing: the loop
  on the finalized height it reads first (`tips`), the closing fragment on
  the height it reads second (`SecondReads`: any height from the first up),
  and its height after the answer is a second read that gives that answer
  (`TipsAfter`).  A Byzantine peer answers with any
  proof of up to two fragments built from stored fragments, a forged header
  under a stored justification, a forged header under a justification of
  Byzantine signatures, and a forged header under precommits that name every
  authority of the set and carry signatures the Byzantine authority made
  (`ImpersonatedJustification`).  `InCirculation` is what such a peer can
  hold: precommits that honest authorities stored, and precommits signed by a
  Byzantine pair in anybody's name.  A result may also be uncompleted (the
  request failed or timed out).  The response of another type that `validateWarpSyncResults`
  penalizes in its `default` branch is among the Byzantine answers.

Correspondence of `Ed25519` with the code:

* Bytes are abstracted to what the callers tell apart.  A seed, a public key
  and a signature are records that name what they were computed from:
  `[raw |-> ...]` for bytes given, `[mnemonic, password]` for the seed of a
  phrase, `[hdkd, cc]` for the seed `deriveHardJunction` hashes out of a seed
  and a chain code, `[of |-> seed]` for a public key, `[by, on]` for a
  signature.  Two of them are equal exactly when the same computation made
  them: BLAKE2, PBKDF2 and the curve are taken to be injective.  Nothing is
  an identity that the code does not make one: the casts `NewPublic` and
  `NewSignatureFromRaw` are.
* A byte slice keeps its length (`Slice`): `NewPairFromSeedSlice` hands it to
  `ed25519.NewKeyFromSeed`, which panics unless the length is 32.
* A call returns `(pair, seed, err)` as a record; `Pair{}` and `[32]byte{}`
  go with an error.  A panic is the outcome `Panic`.
* A secret string is what `crypto.NewSecretURI` parses it to: a phrase (hex
  digits, mnemonic words or neither; with or without the prefix `0x`; empty
  for a string that begins with its path, which stands for the development
  phrase), a password or none, and a path of hard and soft junctions.
* `NewPairFromStringWithSeed` is its branches in the order of the code: the
  parse error, the password override, the root from a seed in hex when the
  phrase has the prefix `0x` (`rootOfSeed`) or from the phrase and the
  password (`NewPairFromPhrase`), and `Derive` along the path.  `Derive` is a
  fold of `deriveHardJunction` over the path and fails on a soft junction.
* `GrandpaChain` takes the module as `ed25519 == INSTANCE Ed25519`; the
  keyring and the stored justifications are constants TLC evaluates once.

Correspondence of `TrieState` with the code:

* Every method holds `mtx` from entry to return, so a method is one action.
  A write is `Recorded(diff)` (a transaction is open: the innermost diff is
  replaced by the diff after the call) or `Direct(trie)` (none is open).
* The panics of `RollbackTransaction`, `CommitTransaction` and `Root` end the
  program; they are the guards of the actions.  `Root` is `CommitTransaction`
  at depth 1.
* `CommitTransaction` at depth above 1 is line 91 as Go evaluates it: the
  element below the top is located first, the top is removed, and its diff is
  stored in the element below.
* Keys are numbers in the order of the byte strings they stand for; a prefix
  is the set of keys that start with it.  In the configurations key 1 is a
  prefix of key 2 (`KeyPrefixes = {{1, 2}, {2}}`).
* A child trie exists while it holds an entry (`ChildExists`); a method that
  returns `ErrChildTrieDoesNotExist` before it changes anything is a step
  that changes nothing, a read that returns it returns no key or no keys.
* `DeleteChildLimit` outside a transaction is its loop: `loopDeletes` is the
  set of keys deleted before the counter equals the limit.  A nil limit is
  `NoLimit`.  A deletion in the loop may fail (the TODO at lines 380-384):
  the call then returns with the keys before the failing one deleted
  (`loopDeleted`).  No other call of the trie fails in the model.
* `onTrie` is a history variable: a trie on which each call is made directly,
  by the operation of `pkg/trie` of the same name (`Call(method, trie)` in
  `Next`).  It is not read by any action.  Where no direct call says what to
  expect, it is set to what callers see: after `RollbackTransaction`, and
  after `DeleteChildLimit` and `ClearPrefixInChildWithLimit` with a limit
  (findings 7 and the hazard at line 463 are about those).
* The root of a child trie stands for its entries (`GetChildRoot`).
* Assumed of the callers (`Writable`, a guard of the calls in `Next`, not of
  the methods): a child trie deleted in the innermost transaction is not
  written again before that transaction ends.  `spec.md` section 4.4 has the
  deletion of a child override every operation recorded for it, so that a
  write after the deletion would be lost at the commit, and `CallsAsOnTrie`
  does not hold without the assumption; what `storageDiff` really does with
  such a child is not in the sources.
* Values are never nil.

Left out on purpose: logging and `ShowMetrics`, `startedAt`, `String()`, the
error of `msg.Hash()` in `OnBlockAnnounce` (it returns before any state is
read or changed), the panics of constructors.

## 3. Runs

Passing runs (TLC completes the state space):

| run | module / cfg | checks | size |
|---|---|---|---|
| `provider` | `MCWarpSyncProvider` | `TypeOK`, `RoundTrip`, `HardForksHandOver`, `FragmentsAscend`, `UnfinishedProofAdvances`, `SeedRebuildsSigner`, `PathsSeparateKeys` | 2 793 states |
| `strategy` | `MCWarpSync` | `TypeOK`, `TrustAnchored`, `FollowsChainOfTrust`, `HonestBlockedOnlyAtSetEnd` | 5 715 states |
| `service` | `MCSyncService` | `TypeOK`, `HandoverAtCompletion`, `BlockedNeverAsked`, `TrustAnchored`, `ConsistentView`, `StopWaitsForEngine` | 413 846 states |
| `service_live` | `MCSyncServiceLive` | `WarpSyncCompletes`, `StopTerminates` (under `FairSpec`) | 25 026 states |
| `trie` | `MCTrieState` | `TypeOK`, `CallsAsOnTrie`, `ReadsSeeTransaction`, `NextKeyLosesNoKey`, `ImplementsOverlay` | 34 682 states |

What they show.

* `RoundTrip`: the proof `Generate` returns verifies from the set in force
  after the start block, the verifier ends at the proof's last header and,
  after an unfinished proof, holds the set in force after it - provided the
  two reads of `Generate` agree and the start block is not the serving node's
  tip at the end of a set (the two provisos are the findings below).
* `HardForksHandOver`: `verify` called with the forced changes of the chain
  as `hardForks`.  A proof that ends at a block whose set ended by a forced
  change (the serving node's tip) carries no scheduled change in its last
  header; without the override `verify` accepts it and stays with the set
  that ended there.  With the override it ends, after every proof `Generate`
  serves, with the set in force after the proof's last header.  No provider
  the code builds has a non-empty map (`NewWarpSyncProofProvider` never sets
  it), so the property is about `verify`, not about `Verify`.
* `FragmentsAscend`: fragments are stored fragments at strictly increasing
  numbers not below the start block.
* `UnfinishedProofAdvances`: a proof cut at the size limit ends above the
  start block, so a client that asks again makes progress.
* `SeedRebuildsSigner`: for every secret string of the model and every
  password override, and for the pairs made of fresh randomness and of a
  fresh phrase, what the pair signs verifies under the public key that
  `NewPairFromSeed` makes of the seed returned with the pair.  `Derive` is
  handed the seed of the root through a pointer and must not return it.
* `PathsSeparateKeys`: of two secret strings with one phrase and one password
  and different paths, neither pair signs what verifies under the other's
  key.  That is what lets the authorities of a keyring, which differ in
  their junction only, count as different voters.  Both properties are
  stated over the payloads the authorities have signed up to the finalized
  block, which is why they are checked in the provider's run.
* `TrustAnchored`: whatever Byzantine peers send, in whatever order results
  arrive, the header the strategy trusts is a finalized block and the set it
  verifies with is the set in force after that header (assuming less than a
  third of every set's weight is Byzantine).  With precommits counted by the
  key they name, without `Verify`, the impersonated justification gives a
  forged header a supermajority and the invariant fails.
* `FollowsChainOfTrust`: `WarpSync` implements `ChainOfTrust` under the
  mapping `trusted <- Trusted` (the node's finalized header until the first
  answer is accepted, `lastBlock` after it) and `stage <- phase`.  Every
  step that moves the trusted header moves it to a header finalized by the
  set in force after the header trusted before, or by a later set; while
  warp proofs are asked for, to the last header of a set; a finished proof
  settles the target; the target block completes and moves nothing; no
  phase goes back.  The strategy's run starts the node inside the first
  set, where one thing the abstract specification allows is seen to happen:
  a Byzantine peer that replays the stored fragment of block 1 as a
  finished proof to a node at block 2 is believed, and the target is block
  1.  `Process` takes the header of the proof's last fragment without
  comparing it with the block it asked from; the justification verifies,
  because block 1 and block 2 are finalized by the same set.  The trusted
  header stays finalized and the set stays the right one (`TrustAnchored`),
  which is what `ChainOfTrust` states; "the target is not below the start"
  is not stated anywhere and does not hold.
* `HonestBlockedOnlyAtSetEnd`: `Process` blocks an honest peer in two
  situations, both at a set end and both findings of the provider.  The
  peer is asked from the last block of a set and that block is its highest
  finalized one (finding 2); or a set ended between the two reads of its
  `Generate`, below the block that closes the proof (finding 1).  No other
  answer of an honest peer, to any request after any sequence of proofs and
  with the peer finalizing at any point, fails `Verify`.  Both situations
  occur in the run.
* `HandoverAtCompletion`: the current strategy is full sync exactly when the
  warp strategy is `Completed`.
* `BlockedNeverAsked`: a peer `Process` blocked is not a worker and is not
  asked, whatever handshakes and disconnections interleave.
* `ConsistentView`: no handler changes the strategy between the `NextActions`
  and the `Process` of a round.
* `StopWaitsForEngine`: when `wg.Wait` lets `Stop` return, no engine
  goroutine is running, whatever the order of `Start`, `Stop` and the
  engine's steps.  It rests on `wg.Add` being called by `Start` and not by
  the goroutine: with the `Add` left out of `Start`, `Stop` returns while
  the engine waits for workers.
* `WarpSyncCompletes`: warp sync ends unless the service is stopped first.
* `StopTerminates`: once the stop channel is closed, `Stop` returns and the
  engine goroutine has ended, wherever the engine was when the channel was
  closed (waiting for workers, inside a round, between two slots).
* `ImplementsOverlay`: `TrieState` implements `OverlayStore` under the
  mapping `Views`, the trie followed by the trie with each open diff applied.
  Every write changes what the innermost transaction sees by one operation
  and nothing below it; a transaction starts on what its parent sees; a
  rollback removes the innermost view; a commit hands the parent exactly
  what the child saw, whether the parent is a diff (the replacement at line
  91) or the trie (`applyToTrie`).  These are overlay-commit and
  overlay-rollback of `spec.md` section 8.  The abstract steps are not
  labelled with the call that was made: the property relates the views before
  and after a step, and "one operation" is any put, delete or clearing by
  prefix in key order.  That covers the state a failed `DeleteChildLimit`
  leaves: the keys before the failing one are deleted in order, as by a call
  with a smaller limit.
* `CallsAsOnTrie`: which write each call makes.  What callers see in the
  innermost transaction is the trie that the same calls leave when made on a
  trie directly, for every sequence of calls, at every depth, across nested
  and outermost commits (which change nothing of it).  The arguments the
  methods compute for the `storageDiff` (the keys found on the state under a
  prefix, the limit) are what the property is about: with all keys of the
  child passed in place of those under the prefix, a key outside the prefix
  disappears at the commit.
* `ReadsSeeTransaction`: `Get`, `Has`, `LoadCode` with its hash,
  `TrieEntries` and `GetChildStorage` return what the innermost view holds.
* `NextKeyLosesNoKey`: the key `NextKey` or `GetChildNextKey` returns is
  after the key asked for, and no key of the innermost view lies between the
  two.  The key returned can be one the transaction deleted, because
  `sortedKeys` holds the deletes too (`spec.md` section 4.4); the stricter
  "the next key is a key of the view" does not hold of the model and is not
  claimed.

Violation runs (TLC finds the counterexample), each a finding in
`PROJECT.json`:

| run | property | what the trace shows |
|---|---|---|
| `provider_finalising` | `RoundTripWhileFinalising` | 1. `Generate` reads the finalized header twice; a set that ends in between leaves a proof that does not verify |
| `provider_set_end` | `RoundTripFromSetEnd` | 2. start = tip = last block of a set: the closing fragment is the start block, signed by the previous set |
| `provider_finished` | `FinishedProofReachesTip` | 3. the closing `addFragment` ignores `limitReached`: a proof is finished yet ends below the tip |
| `strategy_result` | `ResultIsTarget` | 4. the block accepted in phase `TargetBlock` is not compared with the target |
| `strategy_restart` | `HonestBlockedOnlyAtSetEnd` | 5. `NewWarpSyncStrategy` pairs set id 0 with the current authorities: on a node past the first set change honest peers are blocked |
| `trie_child_keys` | `ChildKeysSeeTransaction` | 6. `GetKeysWithPrefixFromChild` overwrites the upserts it copied with the entries of the child on the state: a key put by the open transaction is missing |
| `trie_limit` | `LimitRespected` | 7. `DeleteChildLimit` with limit 0 and no transaction open deletes every entry: the loop tests the limit after the increment |

`LimitRespected` is also violated with `Limits = {1}`, in five states:
inside a transaction, for a child that is not on the state,
`ClearPrefixInChildWithLimit` passes -1 to the diff (line 463) and clears
every key the transaction upserted under the prefix.  Whether the limit is
meant to count keys of the transaction is decided in `storageDiff`; it is
listed as a hazard, not as a finding.

Every property of a passing run has a mutant in `PROJECT.json`: a faulty
variant of one definition (defined next to it in the module) under which TLC
finds the property violated.

## 4. Bounds

| constant | value | why it is enough |
|---|---|---|
| `MaxBlock` | 6 (provider, strategy), 4 (service, violation runs of the strategy), 3 (liveness) | chains with several consecutive set changes, a block that is no set end, and a tip past the last change |
| `ScheduledAt`, `ForcedAt` | `{1,2,4}`, `{5}` (provider); `{3,4,5}` (strategy); `{1,2,3}` elsewhere | consecutive handoffs, a gap, and a forced change that breaks the chain of trust; in the strategy's run a first set that finalizes blocks 1 to 3 |
| `InitialTip` | 0 (strategy), 3 of 4 (service), 3 of 3 (liveness), 4 of 4 (`strategy_restart`) | an honest peer that finalizes the whole chain while it is asked and while it serves, every set end between two reads of `Generate` included; a peer one block short of the tip; a peer whose chain stands still |
| `NodeFinalized`, `NodeSetId` | 2, 0 (strategy); 0, 0 (service, `strategy_result`); 2, 2 (`strategy_restart`) | a node that starts inside a set, so that stored fragments below and above its start verify with its set; a node at genesis; a node past two set changes |
| `MaxWarpSyncProofSize`, `FragmentSize` | 7, 3 each | two fragments fit and the third does not: both exits of the loop, and the closing fragment both fitting and not |
| `NoJustification` | `{}` / `{0}` | the genesis block has no justification: `Generate` on a peer at height 0 fails |
| `AuthSet` | four sets over three honest and one Byzantine authority, mixed weights | the Byzantine authority is a member of sets but below the threshold of each; weights matter |
| `ByzantineProofs` (service) | four proofs of one fragment: a stored fragment, finished or not, a forged header under a stored justification, and one under impersonated precommits | a replay, a false end, a forgery and an impersonation against every interleaving of the service |
| `Peers`, `Honest` | `{h1, z}`, `{h1}` | one honest and one Byzantine peer: every interleaving of a good and a bad answer |
| `MaxResults` | 2 (1 in the liveness run) | both peers answer one round, in both orders |
| `ByzantineProofs` | every proof of at most 2 of 6 fragments, finished or not: the stored fragments of blocks 1, 3 and 4 and three forged ones | replays below the start, at a set end and past it, truncations, reorderings, forgeries and impersonations |
| `SecretStrings` | 6 phrases (the development phrase, a mnemonic, 32 bytes in hex with and without `0x`, 2 bytes in hex with `0x`, `0x` before what is no hex) x every path of at most 2 of 3 junctions (two hard, one soft) x no password or one; and a string that does not parse | every branch of `NewPairFromStringWithSeed` and of `Derive`: each error, the panic, paths that end alike, a path that is a prefix of another |
| `Passwords` | `""`, `"pw"` (and none) as override | an override of a password and of none; the empty password, which is no password |
| `Configs` | all six options, `WithMinPeers(2)` (service), `WithMinPeers(1)` (liveness) | the service of a node that warp-syncs; the engine can wait for workers, and can start short of them after a network error |
| `MaxClosed` | 1 | one disconnection at any point, including during a round |

| `Keys`, `MainKeys`, `CodeKey` | `{1, 2}`, `{1}`, `1` | two keys, one a prefix of the other, in the child trie: deletion in order, a limit below the number of keys, a key before and after the key asked for; one key in the main trie for put, delete and commit |
| `ChildKeys` | `{9}` | one child trie next to the main trie |
| `KeyPrefixes` | `{{1, 2}, {2}}` | a prefix of both keys and a prefix of one |
| `Values` | `{v1, v2}` (symmetric) | a value overwritten by another in a nested transaction; no operation tells values apart, so permuting them is sound |
| `Limits` | `{1, 2}` (`{0}` in `trie_limit`, `{1}` in `trie_child_keys`) | a limit below the number of keys and one equal to it: with limit 2 the loop of `DeleteChildLimit` can fail after it has deleted a key; the edge 0 |
| `MaxDepth` | 2 | a transaction nested in another: both branches of `CommitTransaction`, rollback of the inner with the outer kept |

`syncedFragments` is the only counter of the code without a bound of its own;
`TypeOK` shows it never exceeds the number of sets plus one in the model.

## 5. Fairness

`FairSpec` of `SyncService` assumes what Go's scheduler and the timers give:

* weak fairness of `Start` and of the engine's own steps (`EngineRuns`): the
  goroutine is scheduled and `time.After` fires;
* weak fairness of `StopReturns`: a goroutine blocked in `wg.Wait` is woken
  when the counter reaches zero, and the counter stays zero once the engine
  has ended;
* strong fairness of the stop cases (`WaitPeersStopped`, `EngineStops`): a
  `select` with several ready cases picks one at random, so a case that is
  ready again and again is taken; strong fairness of `RunStrategyBegin` for
  the same reason (the timer case against the stop case) and because the
  block state does not fail for ever;
* honest peers that are no workers shake hands again, and a handler that
  waits for `mu` gets it;
* every round ends (`[]<>~Locked`: the pool returns, `Process` returns), and
  if honest workers are asked again and again then again and again the pool
  returns the completed answer of one (`[]<>HonestAsked => []<>HonestAnswered`).
  These two are weak and strong fairness of the steps of a round, written on
  states: `ENABLED` of an action that evaluates `Generate` and `Verify` for
  every possible round is too costly for TLC.

`WarpSyncCompletes` needs the honest peer's tip not to be the last block of a
set (finding 2 makes an honest peer at such a tip useless) and no set to end
while the peer serves (finding 1 gets the peer blocked); the liveness
configuration has the honest peer at block 3, the end of the chain, with
changes at 1 and 2.

`TrieState` has no liveness property and no fairness: it is called, it does
not run; `Spec` is `Init /\ [][Next]_vars`.

## 6. Not modelled

* Of `TrieState`: `SetVersion`, `Trie` and the hashes of the trie (`Root`'s
  result, `GetChangedNodeHashes`): hashing and trie layout are out of
  reach, and the version changes nothing but the layout (with it as a
  variable the state space doubles and no property tells the versions
  apart); the errors of the trie other than a failing deletion in the loop of
  `DeleteChildLimit`; two goroutines on one `TrieState` (`Root` reads the
  transactions after it has released the mutex); nil values; writes to a
  child trie deleted in the open transaction (`Writable`).
* Of `ed25519.go`: the bytes.  That two seeds give two keys, and that a
  signature cannot be made without the secret, is assumed of
  `crypto/ed25519` and BLAKE2 (`spec.md` section 1 takes the primitives as
  given).  `Public.Bytes` is not used by the models.  Seen while modelling
  and not stated as a property, because the code does not satisfy it: a
  secret string with the prefix `0x` and hex digits for other than 32 bytes
  panics in `ed25519.NewKeyFromSeed`, where the comment of
  `NewPairFromSeedSlice` promises `None`; 64 hex digits without the prefix,
  which the comment of `NewPairFromStringWithSeed` allows, are taken for a
  mnemonic and refused.  Both strings are among `SecretStrings`.
* `chain/kusama/defaults.go`: constants of a configuration (paths, role,
  sync mode); the code that builds a sync service from a configuration is
  not among the sources.
* SCALE: encodings are injective; `Encode` and `Decode` of a proof are
  modelled by the field they drop.
* Vote ancestries of justifications: the verifier is not among the sources.
* The full-sync strategy beyond its interface.
* `Stop` called twice (the second `close` panics) and `Start` called twice
  (two engines on one strategy): it is assumed of the caller that the
  service is started and stopped once.
* A bound on how far below its start a client may settle.  The code has
  none within the set it trusts (`FollowsChainOfTrust` above), and neither
  `spec.md` nor a comment or a test states one, so none is checked.
* `GetAuthoritiesChangesFromBlock` is not among the sources.  It is taken
  from `spec.md` section 4.2 as the set ends strictly after the block asked
  from; the mock of `warp_sync_test.go` (lines 255-262) returns the ends at
  or after it, and more.  `UnfinishedProofAdvances` and the clause of
  `FragmentsAscend` about the start block rest on the strict reading.
* A forced change inside a proof: `Generate` never puts the block of a
  forced change into a proof unless it is the tip, so `hardForks` cannot
  carry a client over one that lies between the start block and the tip
  (`Provable`).

## 7. Plan

1. `GrandpaChain`, `WarpSyncProof`, `WarpSyncProvider` - done.
2. `WarpSync` - done.
3. `SyncService` composing `WarpSync` - done; the options of
   `configuration.go` - done.
4. `StorageDiff`, `TrieState`, `OverlayStore` - done.
5. `verify` with hard forks - done (`HardForksHandOver`); the strategy
   against an abstract chain of trust - done (`FollowsChainOfTrust`).
6. Which write each call of `TrieState` makes - done (`CallsAsOnTrie`);
   `DeleteChildLimit` stopped in the middle of its loop - done.
7. `Root` against a second goroutine on the same `TrieState`; `GetChildRoot`
   inside a transaction; a write to a child trie the open transaction
   deleted.  Each is expected to end in a counterexample.
8. Liveness of the strategy at a set end (finding 2): a client whose peers
   are all at the end of a set.
9. `Stop` before `Start`, and `Stop` against the `WaitGroup` - done
   (`StopWaitsForEngine`, `StopTerminates`).
10. `Ed25519`, and justifications signed and verified with it - done.
11. That no secret string panics (`rootOfSeed`): expected to end in a
    counterexample.
