------------------------ MODULE MC_PseudoRandomProof ------------------------
(***************************************************************************)
(* Checks GeneratePseudoRandomProof over bounded inputs: against the       *)
(* algorithm of spec section 4.3 on chosen digests, and as the code runs   *)
(* it, on the digest of the payload the code actually hashes.              *)
(***************************************************************************)
EXTENDS PseudoRandomProof

CONSTANTS
    BlockHashes,   \* model values standing for last-block-id hashes
    SessionHeader  \* a model value standing for header.HashString()

VARIABLES
    proofsHash,    \* the 16 hex digits the loop scans
    totalRelays,   \* the committed relay count
    blockHash1,    \* two block hashes the challenge may be derived from
    blockHash2

vars == <<proofsHash, totalRelays, blockHash1, blockHash2>>

(***************************************************************************)
(* The digests the reference run enumerates: a 13-digit head (all zero, a  *)
(* single leading digit at the int64 boundary, or the head of the          *)
(* as-built digest) followed by three free digits, so that every suffix    *)
(* length can be the one that is below totalRelays.                        *)
(***************************************************************************)
Heads == { [i \in 1..13 |-> 0],
           [i \in 1..13 |-> IF i = 1 THEN 7 ELSE 0],
           [i \in 1..13 |-> IF i = 1 THEN 8 ELSE 0],
           SubSeq(EmptyJSONProofsHash, 1, 13) }
TailDigit == {0, 1, 2, 3, 9, 15}
ReferenceDigests ==
    { h \o <<a, b, c>> : h \in Heads, a \in TailDigit, b \in TailDigit, c \in TailDigit }

(***************************************************************************)
(* Spec section 4.3, written independently of the code: s[i..] read as an *)
(* unsigned base-16 integer r, the first r < total_relays is returned,     *)
(* else 0.  With MaxRelays < 256, r < total_relays holds exactly when all  *)
(* but the last two digits of s[i..] are 0 and those two are below it.     *)
(***************************************************************************)
LastTwo(s) == IF Len(s) = 1 THEN s[1] ELSE 16 * s[Len(s) - 1] + s[Len(s)]
BelowTotal(s, n) == (\A j \in 1..(Len(s) - 2) : s[j] = 0) /\ LastTwo(s) < n

RECURSIVE SpecChallengeFrom(_, _, _)
SpecChallengeFrom(s, n, i) ==
    IF i = WindowLength THEN 0
    ELSE IF BelowTotal(SubSeq(s, i + 1, WindowLength), n)
         THEN LastTwo(SubSeq(s, i + 1, WindowLength))
         ELSE SpecChallengeFrom(s, n, i + 1)

SpecChallenge(s, n) == SpecChallengeFrom(s, n, 0)

ASSUME MaxRelays < 256

\* The spec's payload: the serialisation of {block_hash_hex, header_hash_hex}.
SpecPayload(blockHash, headerHash) == <<blockHash, headerHash>>

InitReference ==
    /\ proofsHash \in ReferenceDigests
    /\ totalRelays \in 1..MaxRelays
    /\ blockHash1 \in BlockHashes
    /\ blockHash2 = blockHash1

\* As built: the digest is that of the code's payload for the block hash.
InitAsBuilt ==
    /\ blockHash1 \in BlockHashes
    /\ blockHash2 \in BlockHashes
    /\ totalRelays \in 1..MaxRelays
    /\ GeneratorJSON(blockHash1, SessionHeader) = <<>>
    /\ proofsHash = EmptyJSONProofsHash

Next == UNCHANGED vars

Outcome == GeneratePseudoRandomProof(proofsHash, totalRelays)

\* The inputs have their types and the outcome is a panic flag with an
\* index no larger than any relay count a caller passes.
TypeOK ==
    /\ proofsHash \in Seq(HexDigit) /\ Len(proofsHash) = WindowLength
    /\ totalRelays \in 1..MaxRelays
    /\ {blockHash1, blockHash2} \subseteq BlockHashes
    /\ Outcome \in [panic : BOOLEAN, index : 0..MaxRelays]

\* When the loop of GeneratePseudoRandomProof returns (rather than
\* panicking) it returns the index the spec's algorithm selects, which is
\* always a leaf the committed tree has.
CodeMatchesSpec ==
    ~Outcome.panic =>
        /\ Outcome.index = SpecChallenge(proofsHash, totalRelays)
        /\ Outcome.index \in 0..(totalRelays - 1)

\* Spec 4.3 says the derivation always returns an index; the code's
\* strconv.ParseInt(proofsHash[i:], 16, 64) must therefore never fail and
\* reach panic(err).
NoParseIntPanic == ~Outcome.panic

\* Spec 4.3: the challenge is derived from the block hash at the proof
\* height, so different block hashes give different hashed payloads; the
\* code builds its payload with json.Marshal(pseudorandomGenerator{..}).
PayloadBindsBlockHash ==
    blockHash1 # blockHash2 =>
        GeneratorJSON(blockHash1, SessionHeader) # GeneratorJSON(blockHash2, SessionHeader)

=============================================================================
