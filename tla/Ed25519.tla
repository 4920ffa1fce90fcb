------------------------------ MODULE Ed25519 ------------------------------
(***************************************************************************)
(* Key pairs of internal/primitives/core/ed25519: how a pair is made from  *)
(* a seed, from a BIP-39 phrase and from a secret URI with its derivation  *)
(* path, and the signatures a pair makes and a public key verifies.        *)
(*                                                                         *)
(* Bytes are abstracted to what the callers tell apart.  A seed, a key and *)
(* a signature are records naming what they were computed from, so two of  *)
(* them are equal exactly when the same computation made them: BLAKE2,     *)
(* PBKDF2 and the curve are taken to be injective.  A byte slice keeps its *)
(* length, because crypto/ed25519 panics on a seed that is not 32 bytes.   *)
(* A string is what it parses to: a phrase is hex digits, mnemonic words   *)
(* or other text, with or without the prefix 0x.                           *)
(***************************************************************************)
EXTENDS Integers, Sequences, SequencesExt

Nil == "nil"

\* A call that returns (pair, seed, err).  Pair{} and [32]byte{} go with an
\* error; a panic is the outcome Panic.
NoPair == [public |-> [none |-> TRUE], secret |-> [none |-> TRUE]]
ZeroSeed == [raw |-> 0]
Ok(pair, seed) == [pair |-> pair, seed |-> seed, err |-> Nil]
Failed(err) == [pair |-> NoPair, seed |-> ZeroSeed, err |-> err]
Panic == Failed("panic")

-----------------------------------------------------------------------------
(* What the libraries do: crypto/ed25519, go-schnorrkel, encoding/hex,     *)
(* strings and the parser of secret URIs.                                  *)

SeedSize == 32

Slice(len, bytes) == [len |-> len, bytes |-> bytes]

\* NewKeyFromSeed(seed).Public()
PublicKey(seed) == [of |-> seed]

\* ed25519.Sign and ed25519.Verify: a signature is good for the message it
\* was made on, under the public key of the secret that made it.
LibSign(secret, message) == [by |-> PublicKey(secret), on |-> message]
LibVerify(public, message, sig) == sig = [by |-> public, on |-> message]

HexPhrase(prefixed, slice) == [prefixed |-> prefixed, hex |-> slice]
Mnemonic(words) == [prefixed |-> FALSE, words |-> words]
Text(prefixed, text) == [prefixed |-> prefixed, text |-> text]
EmptyPhrase == Text(FALSE, "")
DevPhrase == Mnemonic("bottom drive obey lake curtain smoke basket hold race lonely fit walk")

TrimPrefix(phrase) == [phrase EXCEPT !.prefixed = FALSE]

\* hex.DecodeString: the bytes, or an error for what is not hex digits.
IsHex(text) == "hex" \in DOMAIN text /\ ~text.prefixed

\* schnorrkel.SeedFromMnemonic: 64 bytes from the words and the password, or
\* an error for what is not a mnemonic.
IsMnemonic(phrase) == "words" \in DOMAIN phrase /\ ~phrase.prefixed
SeedFromMnemonic(phrase, pass) ==
    Slice(64, [mnemonic |-> phrase.words, password |-> pass])

Hard(cc) == [soft |-> FALSE, cc |-> cc]
Soft(cc) == [soft |-> TRUE, cc |-> cc]

\* crypto.NewSecretURI: phrase, password and junctions of a string.  A string
\* that begins with the path stands for the development phrase.
Malformed == [text |-> "?"]
SecretString(phrase, junctions, password) ==
    [phrase |-> phrase, junctions |-> junctions, password |-> password]
NewSecretURI(s) ==
    [Phrase    |-> IF s.phrase = EmptyPhrase THEN DevPhrase ELSE s.phrase,
     Password  |-> s.password,
     Junctions |-> s.junctions]

-----------------------------------------------------------------------------
(* ed25519.go *)

\* BlakeTwo256 of the encoded tuple ("Ed25519HDKD", secretSeed, cc).
deriveHardJunction(secretSeed, cc) == [hdkd |-> secretSeed, cc |-> cc]

\* Panics unless the slice has the size of a seed: callers check Fits first.
Fits(seedSlice) == seedSlice.len = SeedSize
NewPairFromSeedSlice(seedSlice) ==
    [public |-> PublicKey(seedSlice.bytes), secret |-> seedSlice.bytes]

NewPairFromSeed(seed) == NewPairFromSeedSlice(Slice(SeedSize, seed))

Seed(p) == p.secret

\* Faulty variant of derivedSeed: every junction derives from the seed of p.
derivedSeedOmittingParents(p, path) ==
    IF path = <<>> THEN Seed(p) ELSE deriveHardJunction(Seed(p), Last(path).cc)

\* The loop of Derive over a path of hard junctions: every junction derives
\* from the seed the junctions before it made.
derivedSeed(p, path) ==
    FoldLeft(deriveHardJunction, Seed(p), [i \in DOMAIN path |-> path[i].cc])

\* return NewPairFromSeed(seed), seed
withSeed(seed) == Ok(NewPairFromSeed(seed), seed)

\* Faulty variant of Derive: the seed handed in is the one returned.
DeriveReturningSeed(p, path, seed) ==
    IF \E i \in DOMAIN path : path[i].soft
      THEN Failed("soft key in path")
      ELSE Ok(NewPairFromSeed(derivedSeed(p, path)), seed)

\* A soft junction anywhere in the path fails the call.  The pointer `seed' is
\* never looked at: the seed returned is the derived one.
Derive(p, path, seed) ==
    IF \E i \in DOMAIN path : path[i].soft
      THEN Failed("soft key in path")
      ELSE withSeed(derivedSeed(p, path))

\* Public panics on the pair Pair{}, whose key is no ed25519.PublicKey.
Public(p) == p.public

Sign(p, message) == LibSign(p.secret, message)

Verify(p, sig, message) == LibVerify(p, message, sig)

NewPublic(data) == data
NewSignatureFromRaw(data) == data

\* rand.Read filled the seed with `random'.
NewGeneratedPair(random) == withSeed(random)

\* The first 32 bytes of the 64 the mnemonic and the password make.
firstHalf(bigSeed) == Ok(NewPairFromSeedSlice(Slice(SeedSize, bigSeed.bytes)),
                         bigSeed.bytes)

NewPairFromPhrase(phrase, password) ==
    IF IsMnemonic(phrase)
      THEN firstHalf(SeedFromMnemonic(phrase,
                                      IF password = Nil THEN "" ELSE password))
      ELSE Failed("invalid mnemonic")

\* panic(err) of a call that returned an error.
orPanic(made) == IF made.err = Nil THEN made ELSE Panic

\* bip39 made `phrase' of fresh entropy: a mnemonic, or the call panics.
NewGeneratedPairWithPhrase(phrase, password) ==
    orPanic(NewPairFromPhrase(phrase, password))

\* The root pair of a parsed secret URI: of the seed a phrase with the prefix
\* 0x spells, whatever the password, or of the mnemonic and the password.
rootOfSeed(trimmedPhrase) ==
    CASE ~IsHex(trimmedPhrase) -> Failed("invalid hex")
      [] IsHex(trimmedPhrase) /\ ~Fits(trimmedPhrase.hex) -> Panic
      [] OTHER -> Ok(NewPairFromSeedSlice(trimmedPhrase.hex),
                     trimmedPhrase.hex.bytes)

\* The root of a parsed URI and what Derive makes of it, or the error of
\* making the root.
rootOf(sURI, password) ==
    IF TrimPrefix(sURI.Phrase) # sURI.Phrase
      THEN rootOfSeed(TrimPrefix(sURI.Phrase))
      ELSE NewPairFromPhrase(sURI.Phrase, password)

derivedOf(root, junctions) ==
    IF root.err # Nil THEN root ELSE Derive(root.pair, junctions, root.seed)

fromURI(sURI, passwordOverride) ==
    derivedOf(rootOf(sURI, IF passwordOverride # Nil THEN passwordOverride
                           ELSE sURI.Password),
              sURI.Junctions)

NewPairFromStringWithSeed(s, passwordOverride) ==
    IF s = Malformed THEN Failed("invalid secret URI")
    ELSE fromURI(NewSecretURI(s), passwordOverride)

\* pair, _, err := NewPairFromStringWithSeed(s, passwordOverride)
withoutSeed(made) == [pair |-> made.pair, err |-> made.err]

NewPairFromString(s, passwordOverride) ==
    withoutSeed(NewPairFromStringWithSeed(s, passwordOverride))

-----------------------------------------------------------------------------
(* Properties, over the secret strings and passwords a model names *)

\* What NewPairFromStringWithSeed returns without an error for the strings
\* and password overrides of a model, and the pair of every string that
\* makes one.
Made(strings, passwords) ==
    {made \in {NewPairFromStringWithSeed(s, override) :
                  s \in strings, override \in passwords \cup {Nil}} :
        made.err = Nil}

PairsOf(strings) ==
    [s \in {s \in strings \ {Malformed} : NewPairFromString(s, Nil).err = Nil}
        |-> NewPairFromString(s, Nil).pair]

\* "Returns both the pair and an optional seed, in the case that the pair can
\* be expressed as a direct derivation from a seed" (NewPairFromStringWithSeed,
\* lines 192-194): whatever a pair made from a string signs verifies under the
\* public key of the pair NewPairFromSeed makes of the seed returned with it.
\* Derive is handed the seed of the root and returns the one it derived.
SeedRebuildsSigner(allMade, messages) ==
    \A made \in allMade, message \in messages :
        Verify(Public(NewPairFromSeed(made.seed)),
               Sign(made.pair, message), message)

\* Hard junctions separate keys (Derive, lines 65-78, with deriveHardJunction):
\* of two strings with one phrase and one password and different paths,
\* neither pair makes a signature that verifies under the other's public key.
\* The members of a keyring are told apart by nothing but their path.
PathsSeparateKeys(pairOf, messages) ==
    \A s, t \in DOMAIN pairOf :
        /\ s.phrase = t.phrase /\ s.password = t.password
        /\ s.junctions # t.junctions
        => \A message \in messages :
              ~Verify(Public(pairOf[t]), Sign(pairOf[s], message), message)

=============================================================================
