---------------------------- MODULE ChainOfTrust ----------------------------
(***************************************************************************)
(* What warp sync promises (specification, sections 4.1 and 8): the client *)
(* holds one header of the finalized chain and trusts the authority set in *)
(* force after it.  While it asks for proofs it moves to the last header   *)
(* of that set or of a later one; a finished proof settles the target,     *)
(* which is a header that set or a later one finalized; then the target    *)
(* block is downloaded.  The header never moves to a block of an earlier   *)
(* set, never after the target is settled, and no stage is entered twice.  *)
(***************************************************************************)
EXTENDS Naturals

CONSTANTS
    Headers,        \* the headers of the finalized chain
    SetOf(_),       \* id of the authority set that finalizes a header
    SetAfter(_),    \* id of the set in force once it is finalized
    Start           \* the header the client trusts at first

VARIABLES
    trusted,        \* the header the client trusts
    stage           \* WarpProof, TargetBlock or Completed

\* What the set in force after `from', and the sets after it, finalize.
Within(from) == {h \in Headers : SetOf(h) >= SetAfter(from)}

EndsSet(h) == SetAfter(h) > SetOf(h)

Init == trusted = Start /\ stage = "WarpProof"

Follow ==
    /\ stage = "WarpProof"
    /\ trusted' \in {h \in Within(trusted) : EndsSet(h)}
    /\ UNCHANGED stage

Settle ==
    /\ stage = "WarpProof"
    /\ trusted' \in Within(trusted)
    /\ stage' = "TargetBlock"

Complete ==
    /\ stage = "TargetBlock"
    /\ stage' = "Completed"
    /\ UNCHANGED trusted

Next == Follow \/ Settle \/ Complete

Spec == Init /\ [][Next]_<<trusted, stage>>

=============================================================================
