---------------------------- MODULE SyncService ----------------------------
(***************************************************************************)
(* The sync service: dot/sync/service.go.                                  *)
(*                                                                         *)
(* One goroutine, the engine, waits for workers and then runs the current  *)
(* strategy once per slot: NextActions, the requests to the worker pool,   *)
(* Process, the reputation changes, the bans, and the swap from warp sync  *)
(* to full sync.  The network calls the handlers from goroutines of its    *)
(* own.  The mutex `mu' serializes the strategy calls; runStrategy holds   *)
(* it from NextActions to the swap, the wait for the worker pool included. *)
(* The worker pool has a lock of its own and is changed without `mu'.      *)
(*                                                                         *)
(* The warp-sync strategy is module WarpSync, instantiated on the same     *)
(* variables.  The worker pool, the network and the full-sync strategy are *)
(* not among the sources; they are modelled from the specification         *)
(* (sections 4.1 and 4.5) as far as the service depends on them.           *)
(***************************************************************************)
EXTENDS WarpSyncProof

CONSTANTS
    Peers, Honest, BadBlocks, NodeFinalized, NodeSetId, Announces,
    ByzantineProofs, ByzantineBlocks, MaxResults, InitialTip,   \* as in WarpSync
    Configs,            \* the options NewSyncService is called with, in order
    MaxClosed           \* bound on the connections that are closed

VARIABLES
    phase, syncedFragments, setId, authorities, lastBlock, result, peers,
    tasks,              \* the tasks runStrategy has submitted
    tips,
    ignorePeers         \* workerPool.ignorePeers

VARIABLES
    currentStrategy,    \* "warp" or "full"
    workers,            \* the workers of the pool
    asked,              \* the workers the pool had when the tasks were submitted
    results,            \* what submitRequests returned
    engine,             \* where the engine goroutine is
    stopCh,             \* TRUE once the channel is closed
    wg,                 \* counter of the WaitGroup
    stop,               \* the call of Stop: "idle", "waiting" or "returned"
    registering,        \* peers whose handshake is between the pool and the strategy
    reported,           \* the penalties ReportPeer was called with
    isSyncedGauge,
    closed              \* number of connections closed so far

Warp == INSTANCE WarpSync

strategyVars ==
    <<phase, syncedFragments, setId, authorities, lastBlock, result, peers>>

poolVars == <<workers, ignorePeers>>

\* The round in progress: the locals of runStrategy.
roundVars == <<tasks, asked, results>>

stopVars == <<stopCh, wg, stop>>

vars == <<strategyVars, roundVars, tips, poolVars, currentStrategy, engine,
          stopVars, registering, reported, isSyncedGauge, closed>>

-----------------------------------------------------------------------------
(* The options of configuration.go: a ServiceConfig is the fields it sets *)

WithWarpSyncStrategy(warpSyncStrategy) == [warpSyncStrategy |-> warpSyncStrategy]

WithFullSyncStrategy(fullSyncStrategy) == [fullSyncStrategy |-> fullSyncStrategy]

\* The pool newSyncWorkerPool makes has no workers.
WithNetwork(net) == [network |-> net, workerPool |-> {}]

WithBlockState(bs) == [blockState |-> bs]

WithSlotDuration(slotDuration) == [slotDuration |-> slotDuration]

WithMinPeers(min) == [minPeers |-> min]

minPeersDefault == 1

\* The service NewSyncService has made when it comes to choose the initial
\* strategy: its defaults, then every option in the order given, a later
\* one overriding an earlier one.  A field nothing has set is nil.
Configured(cfgs) ==
    FoldLeft(LAMBDA svc, cfg : cfg @@ svc, [minPeers |-> minPeersDefault], cfgs)

IsSet(field) == field \in DOMAIN Configured(Configs)

minPeers == Configured(Configs).minPeers

WarpSyncConfigured == IsSet("warpSyncStrategy")

\* Start and the handlers dereference the worker pool and the strategies
\* without a check: the service is given a network and a full-sync strategy.
ASSUME ServiceAssumption ==
    /\ minPeers \in Nat
    /\ IsSet("workerPool") /\ IsSet("fullSyncStrategy")
    /\ MaxClosed \in Nat

\* runStrategy holds mu from its first line to its return: while the engine
\* waits for the worker pool and while it processes the results.
Locked == engine \in {"submitted", "process"}

\* The penalties among reputation changes.
Penalties(changes) == {c \in changes : c.rep # "GossipSuccess"}

-----------------------------------------------------------------------------
(* The full-sync strategy, as far as the service can tell *)

FullSyncTask == Warp!SyncTask("FullSyncRequest", Warp!NoHeader)

\* Both strategies validate an announce against the bad blocks and keep the
\* view of the peers.
FullSyncOnBlockAnnounce(from, msg) == Warp!OnBlockAnnounce(from, msg)

FullSyncOnBlockAnnounceHandshake(from, msg) ==
    Warp!OnBlockAnnounceHandshake(from, msg)

-----------------------------------------------------------------------------
(* NewSyncService *)

NewSyncService ==
    /\ currentStrategy = IF WarpSyncConfigured
                             THEN Configured(Configs).warpSyncStrategy
                             ELSE Configured(Configs).fullSyncStrategy
    /\ stopCh = FALSE /\ wg = 0 /\ stop = "idle"
    /\ workers = Configured(Configs).workerPool /\ ignorePeers = {}
    /\ engine = "created"

Init ==
    /\ NewSyncService
    /\ Warp!NewWarpSyncStrategy
    /\ tasks = <<>> /\ asked = {} /\ results = <<>>
    /\ tips = [p \in Honest |-> InitialTip]
    /\ registering = {} /\ reported = {} /\ isSyncedGauge = 0 /\ closed = 0

-----------------------------------------------------------------------------
(* The engine: Start, waitWorkers, runSyncEngine, runStrategy *)

EngineGoes(from, to) ==
    /\ engine = from
    /\ engine' = to

\* A step of the engine goroutine that changes nothing but where it is.
EngineOnly(from, to) ==
    /\ EngineGoes(from, to)
    /\ UNCHANGED <<strategyVars, roundVars, tips, poolVars, currentStrategy,
                   stopVars, registering, reported, isSyncedGauge, closed>>

\* A step of the engine goroutine that changes the WaitGroup by `delta'.
EngineCounted(from, to, delta) ==
    /\ EngineGoes(from, to)
    /\ wg' = wg + delta
    /\ UNCHANGED <<strategyVars, roundVars, tips, poolVars, currentStrategy,
                   stopCh, stop, registering, reported, isSyncedGauge, closed>>

\* Faulty variant of Start: wg.Add is left to the goroutine, which may not
\* have run when Stop waits.
StartWithoutAdd == EngineOnly("created", "waitWorkers")

\* wg.Add(1), then the goroutine.
Start == EngineCounted("created", "waitWorkers", 1)

\* One turn of the loop of waitWorkers up to the select: enough workers end
\* the wait; otherwise a handshake is sent to the connected peers, and an
\* error of the network other than "no peers connected" ends the wait too.
WaitWorkers ==
    \/ Cardinality(workers) >= minPeers /\ EngineOnly("waitWorkers", "slot")
    \/ Cardinality(workers) < minPeers
         /\ \/ EngineOnly("waitWorkers", "waitPeersTimer")
            \/ EngineOnly("waitWorkers", "slot")

\* The select of waitWorkers: the timer fires, or the stop channel is closed.
WaitPeersTimer == EngineOnly("waitPeersTimer", "waitWorkers")

WaitPeersStopped == stopCh /\ EngineOnly("waitPeersTimer", "slot")

\* Faulty variant of EngineStops: the stop case leaves the select, not the
\* loop.
EngineStopsBreaksSelect == stopCh /\ EngineOnly("slot", "gauge")

\* The select of runSyncEngine takes the stop case: the goroutine returns,
\* and the deferred wg.Done runs.
EngineStops == stopCh /\ EngineCounted("slot", "stopped", -1)

\* runStrategy returns before it submits anything: the block state fails.
RunStrategyReturnsEarly == EngineOnly("slot", "gauge")

\* runStrategy from the lock to submitRequests.
RunStrategyBegin ==
    /\ EngineGoes("slot", "submitted")
    /\ \/ /\ currentStrategy = "warp"
          /\ Warp!NextActions
          /\ tasks' = Warp!NextActionsReturn
       \/ /\ currentStrategy = "full"
          /\ tasks' = <<FullSyncTask>>
          /\ UNCHANGED strategyVars
    /\ asked' = workers
    /\ UNCHANGED <<results, tips, poolVars, currentStrategy, stopVars,
                   registering, reported, isSyncedGauge, closed>>

\* The results submitRequests may return: results of workers the pool had.
SubmitRequests ==
    IF currentStrategy = "warp" THEN Warp!Rounds(tasks[1], asked) ELSE {<<>>}

SubmitRequestsReturns ==
    /\ EngineGoes("submitted", "process")
    /\ results' \in SubmitRequests
    /\ tips' \in IF currentStrategy = "warp"
                   THEN Warp!TipsAfter(tasks[1], results') ELSE {tips}
    /\ UNCHANGED <<strategyVars, tasks, asked, poolVars, currentStrategy,
                   stopVars, registering, reported, isSyncedGauge, closed>>

\* workerPool.ignorePeerAsWorker, for every peer the strategy wants blocked.
ignorePeerAsWorker(who) ==
    /\ workers' = workers \ who
    /\ ignorePeers' = ignorePeers \cup who

\* Faulty variant of ReportAndBan: the peers are reported and stay workers.
ReportOnly(ret) ==
    /\ reported' = reported \cup Penalties(ret.repChanges)
    /\ UNCHANGED poolVars

\* What runStrategy does with what Process returned: ReportPeer for every
\* reputation change, ignorePeerAsWorker for every ban.
ReportAndBan(ret) ==
    /\ reported' = reported \cup Penalties(ret.repChanges)
    /\ ignorePeerAsWorker(ret.bans)

\* Faulty variant of SwapStrategy: the strategy stays.
KeepStrategy(done) == UNCHANGED currentStrategy

\* The end of runStrategy: full sync takes over when the strategy is done.
SwapStrategy(done) ==
    currentStrategy' = IF done /\ WarpSyncConfigured THEN "full"
                       ELSE currentStrategy

\* runStrategy from the return of submitRequests to the unlock: Process, the
\* reputation changes, the bans, and the swap when the strategy is done.
RunStrategyEnd ==
    /\ EngineGoes("process", "gauge")
    /\ \/ /\ currentStrategy = "warp"
          /\ Warp!Process(results)
          /\ ReportAndBan(Warp!ProcessReturn(results))
          /\ SwapStrategy(phase' = "Completed")
       \/ /\ currentStrategy = "full"
          /\ UNCHANGED <<strategyVars, reported, poolVars, currentStrategy>>
    /\ tasks' = <<>> /\ asked' = {} /\ results' = <<>>
    /\ UNCHANGED <<tips, stopVars, registering, isSyncedGauge, closed>>

\* s.IsSynced() of the engine loop, and the gauge.
UpdateGauge ==
    /\ EngineGoes("gauge", "slot")
    /\ isSyncedGauge' \in IF currentStrategy = "warp"
                            THEN {IF Warp!IsSynced THEN 1 ELSE 0}
                            ELSE {0, 1}
    /\ UNCHANGED <<strategyVars, roundVars, tips, poolVars, currentStrategy,
                   stopVars, registering, reported, closed>>

\* Stop up to wg.Wait: it closes the channel.  Closing twice panics: Stop
\* is called once.
Stop ==
    /\ stop = "idle"
    /\ stopCh' = TRUE /\ stop' = "waiting"
    /\ UNCHANGED <<strategyVars, roundVars, tips, poolVars, currentStrategy,
                   engine, wg, registering, reported, isSyncedGauge, closed>>

\* wg.Wait returns when the counter is zero, and Stop with it.
StopReturns ==
    /\ stop = "waiting" /\ wg = 0
    /\ stop' = "returned"
    /\ UNCHANGED <<strategyVars, roundVars, tips, poolVars, currentStrategy,
                   engine, stopCh, wg, registering, reported, isSyncedGauge,
                   closed>>

-----------------------------------------------------------------------------
(* The handlers the network calls *)

\* Faulty variant of Lock: the handler does not wait for the mutex.
NoLock == TRUE

\* s.mu.Lock() in a handler returns once runStrategy does not hold mu.
Lock == ~Locked

\* HandleBlockAnnounceHandshake up to the lock: the pool takes the peer as a
\* worker, unless it is ignored (then the handler returns the error).
HandshakeRegisters(from) ==
    /\ from \notin registering
    /\ from \notin ignorePeers
    /\ workers' = workers \cup {from}
    /\ registering' = registering \cup {from}
    /\ UNCHANGED <<strategyVars, roundVars, tips, ignorePeers, currentStrategy,
                   engine, stopVars, reported, isSyncedGauge, closed>>

\* HandleBlockAnnounceHandshake from the lock on.
HandshakeDelivered(from, msg) ==
    /\ from \in registering
    /\ Lock
    /\ \/ currentStrategy = "warp" /\ Warp!OnBlockAnnounceHandshake(from, msg)
       \/ currentStrategy = "full" /\ FullSyncOnBlockAnnounceHandshake(from, msg)
    /\ registering' = registering \ {from}
    /\ UNCHANGED <<roundVars, tips, poolVars, currentStrategy, engine, stopVars,
                   reported, isSyncedGauge, closed>>

HandleBlockAnnounce(from, msg) ==
    /\ Lock
    /\ \/ currentStrategy = "warp" /\ Warp!OnBlockAnnounce(from, msg)
       \/ currentStrategy = "full" /\ FullSyncOnBlockAnnounce(from, msg)
    /\ reported' = reported
           \cup Penalties({Warp!OnBlockAnnounceReturn(from, msg).repChange})
    /\ UNCHANGED <<roundVars, tips, poolVars, currentStrategy, engine, stopVars,
                   registering, isSyncedGauge, closed>>

OnConnectionClosed(who) ==
    /\ who \in workers
    /\ closed < MaxClosed
    /\ closed' = closed + 1
    /\ workers' = workers \ {who}
    /\ UNCHANGED <<strategyVars, roundVars, tips, ignorePeers, currentStrategy,
                   engine, stopVars, registering, reported, isSyncedGauge>>

-----------------------------------------------------------------------------
(* The peers, and the specification *)

PeerFinalises(p) ==
    /\ tips[p] < MaxBlock
    /\ tips' = [tips EXCEPT ![p] = @ + 1]
    /\ UNCHANGED <<strategyVars, roundVars, poolVars, currentStrategy, engine,
                   stopVars, registering, reported, isSyncedGauge, closed>>

\* What a peer may announce: an honest one blocks of the chain only.
MayAnnounce(p) == {a \in Announces : p \in Honest => IsCanonical(a.Hash)}

EngineStep ==
    \/ WaitWorkers
    \/ WaitPeersTimer
    \/ WaitPeersStopped
    \/ EngineStops
    \/ RunStrategyReturnsEarly
    \/ RunStrategyBegin
    \/ SubmitRequestsReturns
    \/ RunStrategyEnd
    \/ UpdateGauge

NetworkStep ==
    \/ \E p \in Peers : HandshakeRegisters(p)
    \/ \E p \in Peers : \E a \in MayAnnounce(p) :
           HandshakeDelivered(p, [BestBlockHash |-> a.Hash,
                                  BestBlockNumber |-> a.Number])
    \/ \E p \in Peers : \E a \in MayAnnounce(p), best \in BOOLEAN :
           HandleBlockAnnounce(p, [Hash |-> a.Hash, Number |-> a.Number,
                                   BestBlock |-> best])
    \/ \E p \in Peers : OnConnectionClosed(p)

Next ==
    \/ Start
    \/ Stop
    \/ StopReturns
    \/ EngineStep
    \/ NetworkStep
    \/ \E p \in Honest : PeerFinalises(p)

Spec == Init /\ [][Next]_vars

-----------------------------------------------------------------------------
(* Fairness *)

\* The steps of the engine goroutine outside the rounds of the pool.
EngineRuns ==
    \/ WaitWorkers
    \/ WaitPeersTimer
    \/ RunStrategyReturnsEarly
    \/ RunStrategyBegin
    \/ UpdateGauge

\* An honest worker was asked and has an answer.
HonestAsked ==
    /\ engine = "submitted"
    /\ \E p \in asked \cap Honest : Warp!HonestResponses(p, tasks[1]) # {}

\* submitRequests has returned the completed answer of an honest worker.
HonestAnswered ==
    /\ engine = "process"
    /\ \E i \in DOMAIN results :
           results[i].who \in Honest /\ results[i].completed

\* Start is called, and a call of Stop runs.  The engine goroutine is
\* scheduled and its timers fire (weak fairness of its steps).  A select with the stop channel ready takes
\* it sooner or later (strong fairness: Go picks among the ready cases at
\* random), and the block state does not fail for ever.  An honest peer that
\* is no worker shakes hands again, and a handler gets the mutex.
\* Every round ends: the pool returns from submitRequests and Process
\* returns.  When honest workers are asked again and again, then again and
\* again the pool returns with the answer of one.  The last two are weak
\* and strong fairness of the steps of a round, stated on the states in
\* which they are enabled.
Fairness ==
    /\ WF_vars(Start)
    /\ WF_vars(StopReturns)
    /\ WF_vars(EngineRuns)
    /\ SF_vars(WaitPeersStopped)
    /\ SF_vars(EngineStops)
    /\ SF_vars(RunStrategyBegin)
    /\ WF_vars(\E p \in Honest \ workers : HandshakeRegisters(p))
    /\ SF_vars(\E p \in Honest : \E a \in MayAnnounce(p) :
                   HandshakeDelivered(p, [BestBlockHash |-> a.Hash,
                                          BestBlockNumber |-> a.Number]))
    /\ []<>(~Locked)
    /\ []<>HonestAsked => []<>HonestAnswered

FairSpec == Spec /\ Fairness

-----------------------------------------------------------------------------
(* Properties *)

EngineStates ==
    {"created", "waitWorkers", "waitPeersTimer", "slot", "submitted",
     "process", "gauge", "stopped"}

ProcessPenalties == {"BadWarpProof", "UnexpectedResponse", "BadBlock"}

TypeOK ==
    /\ Warp!TypeOK
    /\ currentStrategy \in {"warp", "full"}
    /\ workers \subseteq Peers /\ asked \subseteq Peers
    /\ Len(results) <= MaxResults
    /\ registering \subseteq Peers
    /\ engine \in EngineStates
    /\ stopCh \in BOOLEAN /\ wg \in {0, 1}
    /\ stop \in {"idle", "waiting", "returned"}
    /\ reported \subseteq
         [who : Peers, rep : ProcessPenalties \cup {"BadBlockAnnouncement"}]
    /\ isSyncedGauge \in {0, 1}
    /\ closed \in 0..MaxClosed

\* The handover from warp sync to full sync, the `if done' at the end of
\* runStrategy: the service runs the warp strategy exactly until its phase is
\* Completed.  A completed warp strategy that stayed current would answer the
\* next NextActions with a task that holds no request; a swap made too early
\* would leave the node without its target block.
HandoverAtCompletion ==
    WarpSyncConfigured => (currentStrategy = "full" <=> phase = "Completed")

\* A peer Process had blocked is a worker no more, whatever handshakes of
\* it arrive before, during or after the round: runStrategy hands every ban
\* to the pool, and HandleBlockAnnounceHandshake registers a peer without the
\* mutex, possibly while the round that blocks it is in progress.
BlockedNeverAsked ==
    \A c \in reported :
        c.rep \in ProcessPenalties => c.who \notin workers \cup asked

\* "Strategies see a consistent view per process() call" (specification,
\* section 5): between the NextActions and the Process of a round, while the
\* engine waits for the pool with the mutex held, no handler changes a field
\* of the strategy.
ConsistentView ==
    [][Locked /\ Locked' => UNCHANGED strategyVars]_vars

\* The chain of trust of module WarpSync, under the service: with handlers,
\* disconnections and stale workers interleaved, lastBlock is a finalized
\* block and the strategy verifies with the set in force after it.
TrustAnchored == Warp!TrustAnchored

\* Warp sync ends: with an honest worker that has finalized the chain and
\* answers in time, the service hands over to full sync unless it is stopped
\* first, whatever the Byzantine peers answer in the rounds they win.
WarpSyncCompletes ==
    <>(currentStrategy = "full" \/ stopCh)

\* Stop returns, and the engine ends: once the stop channel is closed the
\* engine goroutine ends wherever it was (waiting for workers, waiting for
\* the pool, between two slots), wg.Done lets wg.Wait go, and a Stop that
\* came before Start has returned at once.
StopTerminates ==
    stopCh ~> (stop = "returned" /\ engine = "stopped")

\* Stop waits for the engine: wg.Wait returns only while no engine goroutine
\* is running, because Start counts the goroutine before it starts it and
\* the goroutine is counted out only when it returns.  (A Stop that returns
\* before Start is called does not keep a later engine from starting; that
\* engine ends at its first select on the closed channel.)
StopWaitsForEngine ==
    [][stop' = "returned" /\ stop = "waiting" =>
           engine \in {"created", "stopped"}]_vars

=============================================================================
