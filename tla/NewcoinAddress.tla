---------------------------- MODULE NewcoinAddress ----------------------------
(***************************************************************************)
(* Seeds, keys and account numbers (src/NewcoinAddress): one class for     *)
(* all, an object of which is <<nVersion, vchData>> and answers only the   *)
(* calls that fit its version.                                             *)
(*                                                                         *)
(* The elliptic curve, the hash of a pass phrase and Hash160 (shared/key.h *)
(* and OpenSSL) are stand-ins: functions on bytes that keep apart what the *)
(* real ones keep apart.                                                   *)
(***************************************************************************)
EXTENDS Rfc1751

VER ==
    [none |-> 1, nodePublic |-> 28, nodePrivate |-> 32, accountID |-> 0,
     accountPublic |-> 35, accountPrivate |-> 34, generator |-> 41, seed |-> 33]

Kinds == DOMAIN VER \ {"none"}

\* The calls that throw "unset source" or "bad source".
ThrowsError == NotDecoded

Is(na, kind) == na[1] = VER[kind]

-------------------------------------------------------------------------------
(* CKey and the hashes.                                                    *)

\* GenerateRootDeterministicKey, its private and its public part.
RootPrivate(seed) == <<1>> \o seed
PublicOf(private) == <<2>> \o private
\* GeneratePrivateDeterministicKey and GeneratePublicDeterministicKey: the
\* second does without the private key and finds the public part of the first.
FamilyPrivate(private, seq) == <<3, seq>> \o private
FamilyPublic(public, seq) == PublicOf(FamilyPrivate(Tail(public), seq))
Hash160(bytes) == <<4>> \o Check(bytes)
PassPhraseToKey(text) == <<5>> \o Check([i \in DOMAIN text |-> text[i] % 256]) \o [i \in 1..11 |-> 0]
Signature(private, hash) == <<private, hash>>
Verify(public, hash, sig) == sig[2] = hash /\ public = PublicOf(sig[1])

-------------------------------------------------------------------------------
(* What an object tells.                                                   *)

\* isValid: no bytes, no address.  The bytes of a key are checked by OpenSSL,
\* which takes those it made.
isValid(na) == na[2] # <<>>

\* The bytes of an object of the right kind.
BytesOf(na, kind) == IF Is(na, kind) THEN na[2] ELSE ThrowsError

getNodePublic(na) == BytesOf(na, "nodePublic")
getNodePrivate(na) == BytesOf(na, "nodePrivate")
getAccountPublic(na) == BytesOf(na, "accountPublic")
getAccountPrivate(na) == BytesOf(na, "accountPrivate")
getGenerator(na) == BytesOf(na, "generator")
getSeed(na) == BytesOf(na, "seed")

\* An account number, or that of the public key of an account.
getAccountID(na) == IF Is(na, "accountPublic") THEN Hash160(na[2]) ELSE BytesOf(na, "accountID")

\* The text of an object of the right kind.
Human(na, kind) == IF Is(na, kind) THEN AsString(na) ELSE ThrowsError

humanNodePublic(na) == Human(na, "nodePublic")
humanNodePrivate(na) == Human(na, "nodePrivate")
humanAccountPublic(na) == Human(na, "accountPublic")
humanAccountPrivate(na) == Human(na, "accountPrivate")
humanGenerator(na) == Human(na, "generator")
humanSeed(na) == Human(na, "seed")

humanAccountID(na) ==
    IF getAccountID(na) = ThrowsError THEN ThrowsError
    ELSE AsString(SetData(VER["accountID"], getAccountID(na)))

\* The bytes of a seed are kept in the order of the host.
humanSeed1751(na) == IF Is(na, "seed") THEN key2eng(Reverse(getSeed(na))) ELSE ThrowsError

signNodePrivate(na, hash) == Signature(getNodePrivate(na), hash)

verifyNodePublic(na, hash, sig) == Verify(getNodePublic(na), hash, sig)

accountPrivateSign(na, hash) == Signature(getAccountPrivate(na), hash)

accountPublicVerify(na, hash, sig) == Verify(getAccountPublic(na), hash, sig)

-------------------------------------------------------------------------------
(* How an object gets its contents.                                        *)

createSeed(bytes) == SetData(VER["seed"], bytes)

createNodePublic(naSeed) == SetData(VER["nodePublic"], PublicOf(RootPrivate(getSeed(naSeed))))

createNodePrivate(naSeed) == SetData(VER["nodePrivate"], RootPrivate(getSeed(naSeed)))

createGeneratorPublic(naSeed) == SetData(VER["generator"], PublicOf(RootPrivate(getSeed(naSeed))))

createAccountPublic(naGenerator, seq) ==
    SetData(VER["accountPublic"], FamilyPublic(getGenerator(naGenerator), seq))

createAccountPrivate(naGenerator, naSeed, seq) ==
    SetData(VER["accountPrivate"], FamilyPrivate(RootPrivate(getSeed(naSeed)), seq))

createAccountID(bytes) == SetData(VER["accountID"], bytes)

\* From a text: whether it is one of an object of that kind, and the object.
setNodePublic(text) == SetString(text, VER["nodePublic"])
setNodePrivate(text) == SetString(text, VER["nodePrivate"])
setAccountID(text) == SetString(text, VER["accountID"])
setAccountPublic(text) == SetString(text, VER["accountPublic"])
setAccountPrivate(text) == SetString(text, VER["accountPrivate"])
setGenerator(text) == SetString(text, VER["generator"])
setSeed(text) == SetString(text, VER["seed"])

\* setSeed1751: a text that is not twelve good words leaves the object alone.
SeedOfKey(na, key) ==
    [rc |-> key.rc, b58 |-> IF key.rc = 1 THEN createSeed(Reverse(key.key)) ELSE na]

setSeed1751(na, text) == SeedOfKey(na, eng2key(text))

\* The kinds of addresses that setSeedGeneric recognizes and refuses.
Refused == <<"accountID", "accountPublic", "accountPrivate", "nodePublic", "nodePrivate">>

\* A seed in either form is read; anything else is a pass phrase.
SeedOrPhrase(read, words, text) ==
    IF read.ok THEN read
    ELSE IF words.rc = 1 THEN [ok |-> TRUE, b58 |-> words.b58]
    ELSE [ok |-> TRUE, b58 |-> createSeed(PassPhraseToKey(text))]

\* setSeedGeneric: an address of another kind is refused and leaves the
\* object alone, except that of a family generator; every other text gives a
\* seed.
setSeedGeneric(na, text) ==
    LET bytes == DecodeBase58Check(text) IN
    IF text = <<>> \/ \E i \in DOMAIN Refused : SetDecoded(bytes, VER[Refused[i]]).ok
    THEN [ok |-> FALSE, b58 |-> na]
    ELSE SeedOrPhrase(SetDecoded(bytes, VER["seed"]), setSeed1751(Cleared, text), text)

\* The calls by the kind they are for.
humanOf(na) ==
    [nodePublic |-> humanNodePublic(na), nodePrivate |-> humanNodePrivate(na),
     accountID |-> humanAccountID(na), accountPublic |-> humanAccountPublic(na),
     accountPrivate |-> humanAccountPrivate(na), generator |-> humanGenerator(na),
     seed |-> humanSeed(na), words |-> humanSeed1751(na)]

setOf(text, kind) ==
    CASE kind = "nodePublic" -> setNodePublic(text)
      [] kind = "nodePrivate" -> setNodePrivate(text)
      [] kind = "accountID" -> setAccountID(text)
      [] kind = "accountPublic" -> setAccountPublic(text)
      [] kind = "accountPrivate" -> setAccountPrivate(text)
      [] kind = "generator" -> setGenerator(text)
      [] kind = "seed" -> setSeed(text)
===============================================================================
