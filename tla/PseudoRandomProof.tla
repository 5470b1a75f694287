-------------------------- MODULE PseudoRandomProof --------------------------
(***************************************************************************)
(* The pseudorandom challenge of the proof-of-relay protocol, as computed  *)
(* by Keeper.GeneratePseudoRandomProof (x/pocketcore/keeper/proof.go).     *)
(*                                                                         *)
(* The code marshals a pseudorandomGenerator{blockHash, header} with       *)
(* encoding/json, hashes the bytes with SHA3-256, keeps the first 16 hex   *)
(* characters and, for i = 0..15, parses the suffix starting at i with     *)
(* strconv.ParseInt(_, 16, 64), returning the first value below            *)
(* totalRelays, or 0.                                                      *)
(*                                                                         *)
(* A digest is a sequence of 16 hex digits (0..15).  Values are only ever  *)
(* compared with totalRelays <= MaxRelays, so they are computed saturated  *)
(* at MaxRelays + 1; the int64 range check of ParseInt is decided on the   *)
(* digits themselves, so the 64-bit width is kept exactly.                 *)
(***************************************************************************)
EXTENDS Integers, Sequences

LOCAL INSTANCE SequencesExt

CONSTANT MaxRelays    \* the largest totalRelays a caller passes

ASSUME MaxRelays \in Nat \ {0}

HexDigit == 0..15

\* proofsHash := hex.EncodeToString(SHA3(r))[:16]
WindowLength == 16

(***************************************************************************)
(* json.Marshal(pseudorandomGenerator{blockHash: .., header: ..}).  A JSON *)
(* object is represented by the sequence of the fields it serialises.      *)
(* Both fields are unexported, and encoding/json serialises exported       *)
(* fields only: the payload is {}, the empty sequence, whatever the block  *)
(* hash and the session header are.                                        *)
(***************************************************************************)
GeneratorJSON(blockHash, headerHash) == <<>>

\* hex(SHA3-256("{}"))[:16] = "840eb7aa2a9935de", the only string the code
\* ever scans.
EmptyJSONProofsHash == <<8,4,0,14,11,7,10,10,2,10,9,9,3,5,13,14>>

\* proofsHash[i:]
Suffix(proofsHash, i) == SubSeq(proofsHash, i + 1, WindowLength)

(***************************************************************************)
(* strconv.ParseInt(s, 16, 64) returns ErrRange when the value exceeds     *)
(* 2^63 - 1.  A string of at most 16 hex digits does so exactly when it    *)
(* has 16 digits and the first is 8 or more.                               *)
(***************************************************************************)
ParseIntOutOfRange(s) == Len(s) = 16 /\ s[1] >= 8

\* The value of the hex string s, saturated at MaxRelays + 1.
Saturated == MaxRelays + 1
HexValue(s) ==
    FoldLeft(LAMBDA v, d : IF v * 16 + d > Saturated THEN Saturated ELSE v * 16 + d,
             0, s)

\* Mutant: the comparison written totalRelays >= res.
StopsAtOrBelow(proofsHash, totalRelays) ==
    { i \in 0..(WindowLength - 1) :
        \/ ParseIntOutOfRange(Suffix(proofsHash, i))
        \/ totalRelays >= HexValue(Suffix(proofsHash, i)) }

\* The iterations of the loop at which it leaves: ParseInt fails (the code
\* panics) or totalRelays > res (the code returns res).
Stops(proofsHash, totalRelays) ==
    { i \in 0..(WindowLength - 1) :
        \/ ParseIntOutOfRange(Suffix(proofsHash, i))
        \/ totalRelays > HexValue(Suffix(proofsHash, i)) }

\* Mutant: the loop position returned in place of the parsed value.
GeneratePseudoRandomProofPosition(proofsHash, totalRelays) ==
    IF Stops(proofsHash, totalRelays) = {}
    THEN [panic |-> FALSE, index |-> 0]
    ELSE LET i == Min(Stops(proofsHash, totalRelays))
         IN  [panic |-> ParseIntOutOfRange(Suffix(proofsHash, i)), index |-> i]

(***************************************************************************)
(* The outcome of GeneratePseudoRandomProof: a panic, or the index.  When  *)
(* no iteration stops the loop the code returns 0.                         *)
(***************************************************************************)
GeneratePseudoRandomProof(proofsHash, totalRelays) ==
    IF Stops(proofsHash, totalRelays) = {}
    THEN [panic |-> FALSE, index |-> 0]
    ELSE LET i == Min(Stops(proofsHash, totalRelays))
             s == Suffix(proofsHash, i)
         IN  [panic |-> ParseIntOutOfRange(s),
              index |-> IF ParseIntOutOfRange(s) THEN 0 ELSE HexValue(s)]

=============================================================================
