-------------------------- MODULE MCWarpSyncProvider --------------------------
(***************************************************************************)
(* WarpSyncProvider on a chain of seven blocks and five authority sets:    *)
(* sets end at blocks 1, 2 and 4 by a scheduled change and at block 5 by a *)
(* forced one.  Two fragments fit in a proof, a third does not.            *)
(***************************************************************************)
EXTENDS WarpSyncProvider

CONSTANTS a1, a2, a3, b1

Weighted(members, heavy) ==
    {[AuthorityID |-> PublicOf(a), AuthorityWeight |-> IF a \in heavy THEN 2 ELSE 1] :
        a \in members}

MCAuthSet ==
    <<Weighted({a1, a2, a3, b1}, {}),
      Weighted({a1, a2, b1}, {a1, a2}),
      Weighted({a2, a3}, {}),
      Weighted({a1, a3, b1}, {a3}),
      Weighted({a1, a2, a3}, {})>>

MCFragmentSize == [n \in Numbers |-> 3]

MCHardForks == <<>>

MCStartBlocks ==
    CanonicalHeaders \cup {ForgedHeader(1, Weighted({b1}, {}))}

-----------------------------------------------------------------------------
(* The secret strings the keys of the authorities are checked on: the      *)
(* development phrase, a seed in hex of 32 bytes with and without the      *)
(* prefix 0x, one of 2 bytes, another mnemonic, and the prefix 0x before   *)
(* what is no hex; with no password or one; followed by up to two          *)
(* junctions, hard or soft.                                                *)

Phrases ==
    {ed25519!EmptyPhrase, ed25519!Mnemonic("legal winner thank year"),
     ed25519!HexPhrase(TRUE, ed25519!Slice(32, [raw |-> 1])),
     ed25519!HexPhrase(FALSE, ed25519!Slice(32, [raw |-> 1])),
     ed25519!HexPhrase(TRUE, ed25519!Slice(2, [raw |-> 2])),
     ed25519!Text(TRUE, "xyz")}

Junctions == {ed25519!Hard(a1), ed25519!Hard(a2), ed25519!Soft(a1)}

Passwords == {"", "pw"}

SecretStrings ==
    {ed25519!SecretString(phrase, path, password) :
        phrase \in Phrases, path \in SeqOf(Junctions, 2),
        password \in {ed25519!Nil, "pw"}}
      \cup {ed25519!Malformed}

\* Every pair made with its seed: from the strings, from fresh randomness and
\* from a fresh phrase.
AllMade ==
    ed25519!Made(SecretStrings, Passwords)
      \cup {ed25519!NewGeneratedPair([raw |-> 3])}
      \cup {ed25519!NewGeneratedPairWithPhrase(
                ed25519!Mnemonic("letter advice cage absurd"), password) :
                password \in Passwords \cup {ed25519!Nil}}

PairOf == ed25519!PairsOf(SecretStrings)

\* The payloads the authorities have signed: the precommits for the blocks
\* finalized so far.
Payloads ==
    {NewLocalizedPayload(1, SetIdAt(n), CanonicalHeader(n)) : n \in 0..finalized}

\* The seed NewPairFromStringWithSeed returns with a pair is the seed of that
\* pair: what the pair signs verifies under the public key NewPairFromSeed
\* makes of the seed.  Derive is handed the seed of the root of the path and
\* has to return the one it derived.
SeedRebuildsSigner == ed25519!SeedRebuildsSigner(AllMade, Payloads)

\* The loop of Derive gives the authorities of a keyring keys of their own:
\* of two secret strings with one phrase and password and different paths of
\* hard junctions, neither pair signs what verifies under the other's key.
PathsSeparateKeys == ed25519!PathsSeparateKeys(PairOf, Payloads)

=============================================================================
