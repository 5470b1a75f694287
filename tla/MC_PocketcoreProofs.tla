------------------------ MODULE MC_PocketcoreProofs -------------------------
(***************************************************************************)
(* Model-checking instance of PocketcoreProofs: two sessions of one        *)
(* application that start at the same height on two chains, so that one   *)
(* chain can be dropped while the other is served.                         *)
(***************************************************************************)
EXTENDS PocketcoreProofs

MCHeaders == { [chain |-> "c1", sbh |-> 1, app |-> "a1"], [chain |-> "c2", sbh |-> 1, app |-> "a1"] }
MCChains  == {"c1", "c2"}

\* One session, for the runs that follow a session through its whole window.
MCOneHeader == { [chain |-> "c1", sbh |-> 1, app |-> "a1"] }

\* A digest below 2^63 whose scan picks leaf 1 once a session has two
\* relays: the code past the ParseInt overflow.
NoOverflowProofsHash == <<4,0,14,11,7,10,10,2,10,9,9,3,5,13,0,1>>

\* A digest below 2^63 whose scan picks leaf 0.
LeafZeroProofsHash == <<4,0,14,11,7,10,10,2,10,9,9,3,5,13,3,0>>

(***************************************************************************)
(* SHA3 is not computed.  A payload that carries a block hash gets one of  *)
(* the two digests above by the parity of the block, so that consecutive   *)
(* blocks select different leaves for two relays.                          *)
(***************************************************************************)
FieldsDigest(payload) ==
    IF payload[1] % 2 = 0 THEN NoOverflowProofsHash ELSE LeafZeroProofsHash

\* hex(SHA3-256("{}"))[:16], what the code hashes.
AsBuiltDigest(payload) ==
    IF payload = <<>> THEN PRP!EmptyJSONProofsHash ELSE FieldsDigest(payload)

\* The code past the ParseInt overflow.
NoOverflowDigest(payload) ==
    IF payload = <<>> THEN NoOverflowProofsHash ELSE FieldsDigest(payload)

=============================================================================
