--------------------------- MODULE WarpSyncProvider ---------------------------
(***************************************************************************)
(* A node serving warp-sync proofs while its own chain keeps finalizing:   *)
(* WarpSyncProofProvider.Generate of lib/grandpa/warpsync/warp_sync.go run *)
(* against a block state that GRANDPA advances concurrently.               *)
(*                                                                         *)
(* Generate reads the node's state three times and takes no snapshot: the  *)
(* highest finalized header and the list of authority-set changes before   *)
(* the loop, the highest finalized header again after it.  What the loop   *)
(* itself reads (headers and justifications of finalized blocks) never     *)
(* changes, so the call is two steps here: GenerateCollect up to the end   *)
(* of the loop, GenerateClose from the second read on.  Finalise may come  *)
(* between them.                                                           *)
(***************************************************************************)
EXTENDS WarpSyncProof

CONSTANTS
    StartBlocks     \* the headers a client may name as the start of a proof

VARIABLES
    finalized,      \* number of the node's highest finalized block
    call,           \* the Generate call in progress, if any
    reply           \* the outcome of the last Generate call

vars == <<finalized, call, reply>>

Idle == [pc |-> "idle"]

NoReply == [err |-> "no reply yet"]

-----------------------------------------------------------------------------

Init ==
    /\ finalized = 0
    /\ call = Idle
    /\ reply = NoReply

\* GRANDPA finalizes the next block of the chain.
Finalise ==
    /\ finalized < MaxBlock
    /\ finalized' = finalized + 1
    /\ UNCHANGED <<call, reply>>

\* Generate from its entry to the end of the loop.  An error ends the call.
GenerateCollect(start) ==
    /\ call = Idle
    /\ LET collected == generateCollect(start, finalized)
       IN  \/ /\ collected.err # Nil
              /\ reply' = [err |-> collected.err]
              /\ call' = Idle
           \/ /\ collected.err = Nil
              /\ call' = [pc |-> "closing", start |-> start,
                          beganAt |-> finalized, collected |-> collected]
              /\ reply' = reply
    /\ UNCHANGED finalized

\* Generate from the second read of the highest finalized header to its return.
GenerateClose ==
    /\ call.pc = "closing"
    /\ reply' = generateEnd(call.collected, finalized)
                  @@ [start |-> call.start, beganAt |-> call.beganAt,
                      endedAt |-> finalized]
    /\ call' = Idle
    /\ UNCHANGED finalized

Next ==
    \/ Finalise
    \/ \E start \in StartBlocks : GenerateCollect(start)
    \/ GenerateClose

Spec == Init /\ [][Next]_vars

-----------------------------------------------------------------------------
(* Properties *)

TypeOK ==
    /\ finalized \in Numbers
    /\ call.pc \in {"idle", "closing"}
    /\ call.pc = "closing" =>
         /\ call.start \in StartBlocks
         /\ call.beganAt \in 0..finalized
         /\ call.collected.limitReached \in BOOLEAN
         /\ call.collected.proof.proofsLength < MaxWarpSyncProofSize
         /\ call.collected.proof.proofsLength =
                FoldLeft(LAMBDA sum, f : sum + EncodedLen(f), 0,
                         call.collected.proof.Proofs)
    /\ reply.err = Nil =>
         /\ reply.start \in StartBlocks
         /\ reply.beganAt <= reply.endedAt /\ reply.endedAt <= finalized
         /\ reply.proof.IsFinished \in BOOLEAN

Served == reply.err = Nil

FragmentNumbers(proof) ==
    [i \in DOMAIN proof.Proofs |-> proof.Proofs[i].Header.Number]

ClientVerdict ==
    Verify(reply.proof, TrustedAt(reply.start).SetID,
           TrustedAt(reply.start).AuthorityList)

\* The handoffs from the start block to block n can be proved: no set in
\* between ended by a forced change, and no fragment alone fills a proof.
Provable(start, n) ==
    /\ \A c \in ForcedAt : ~(start.Number < c /\ c < n)
    /\ \A c \in Numbers : FragmentSize[c] < MaxWarpSyncProofSize

\* No authority set ended between the two reads Generate makes of the highest
\* finalized header.
ReadsAgree ==
    \A c \in ChangeBlocks : ~(reply.beganAt < c /\ c < reply.endedAt)

\* The start block is not at once the last block of a set and the highest
\* finalized block of the serving node.
StartBehindTip ==
    reply.start.Number \in ChangeBlocks => reply.start.Number < reply.endedAt

\* The proof verifies from the set in force after the start block, the
\* verifier ends at the proof's last header, and after an unfinished proof it
\* holds the set in force after that header.
Verifies ==
    /\ ClientVerdict.err = Nil
    /\ ClientVerdict.Header = Last(reply.proof.Proofs).Header
    /\ ClientVerdict.Completed = reply.proof.IsFinished
    /\ ~ClientVerdict.Completed =>
           SetIdAuthorityList(ClientVerdict.SetId, ClientVerdict.AuthorityList)
               = TrustedAt(ClientVerdict.Header)

\* Warp-proof round trip (specification, section 8), as far as the code
\* guarantees it: the proof Generate returns for a start block verifies from
\* the authority set in force after that block.  The property is about
\* Generate and verify together: the fragments the loop of Generate collects,
\* the closing fragment it adds or leaves out by lastProofBlockNumber, and the
\* set id verify carries from fragment to fragment.
RoundTrip ==
    Served /\ Provable(reply.start, reply.endedAt)
           /\ ReadsAgree /\ StartBehindTip => Verifies

\* p.hardForks as the operator of a node on this chain would set it: every
\* block that ended a set by a forced change, with the set in force after it.
ForcedForks ==
    [header \in {CanonicalHeader(c) : c \in ForcedAt} |-> TrustedAt(header)]

\* The verdict accepts the proof and has come to the set in force after the
\* header.
HandsOver(verdict, header) ==
    /\ verdict.err = Nil
    /\ SetIdAuthorityList(verdict.SetID, verdict.AuthorityList)
           = TrustedAt(header)

\* The hard-fork branch of verify carries a verifier over a forced change.
\* Generate ends a proof at a block that ended its set by a forced change
\* when that block is the highest finalized one; its header announces no
\* scheduled change, and verify, which learns of a new set from scheduled
\* changes only, would stay with the set that ended there.  With the forced
\* changes in hardForks it takes the override at that fragment, in place of
\* the justification, and after every proof Generate serves, finished or
\* not, it holds the set in force after the proof's last header.
HardForksHandOver ==
    Served /\ Provable(reply.start, reply.endedAt)
           /\ ReadsAgree /\ StartBehindTip =>
        HandsOver(verify(Decode(reply.proof), TrustedAt(reply.start).SetID,
                         TrustedAt(reply.start).AuthorityList, ForcedForks),
                  IF reply.proof.Proofs = <<>>
                      THEN reply.start
                      ELSE Last(reply.proof.Proofs).Header)

\* The round trip without the proviso that Generate read one state of the
\* node: section 8 of the specification states it of every generated proof,
\* and Generate reads the highest finalized header twice with the node
\* finalizing in between.
RoundTripWhileFinalising ==
    Served /\ Provable(reply.start, reply.endedAt) /\ StartBehindTip => Verifies

\* The round trip without the proviso on the start block: a client that was
\* handed the last block of a set continues from it, and the comment in
\* Generate lets the closing justification be "higher or equal to the initial
\* warp sync block".
RoundTripFromSetEnd ==
    Served /\ Provable(reply.start, reply.endedAt) /\ ReadsAgree => Verifies

\* A proof never goes back and never repeats a block: its fragments are
\* stored fragments of the chain at strictly increasing numbers, none below
\* the start block, and only the closing fragment of a finished proof may be
\* the start block itself.  This is what the guard on lastProofBlockNumber
\* in Generate is for: the closing fragment is left out when the highest
\* finalized block is the last block of the last set already in the proof.
FragmentsAscend ==
    Served =>
        LET numbers == FragmentNumbers(reply.proof)
            last    == Len(numbers)
        IN  /\ \A i \in DOMAIN numbers :
                 /\ reply.proof.Proofs[i] = CanonicalFragment(numbers[i])
                 /\ numbers[i] >= reply.start.Number
                 /\ numbers[i] = reply.start.Number =>
                        i = last /\ reply.proof.IsFinished
            /\ \A i, j \in DOMAIN numbers : i < j => numbers[i] < numbers[j]

\* A client that is sent an unfinished proof asks again from the proof's last
\* header: unless that header is above the start block the client asks the
\* same question for ever.  Addresses the loop of Generate leaving at the
\* size limit (limitReached) with whatever fits.
UnfinishedProofAdvances ==
    Served /\ ~reply.proof.IsFinished /\ reply.proof.Proofs # <<>> =>
        Last(reply.proof.Proofs).Header.Number > reply.start.Number

\* The comment above the last part of Generate: "If the limit is not reached
\* then retrieve the latest (best) justification and append in the proofs".
\* A finished proof ends at the highest finalized block Generate read.
FinishedProofReachesTip ==
    Served /\ reply.proof.IsFinished =>
        /\ reply.proof.Proofs # <<>>
        /\ Last(reply.proof.Proofs).Header.Number = reply.endedAt

=============================================================================
