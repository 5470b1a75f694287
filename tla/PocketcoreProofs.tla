--------------------------- MODULE PocketcoreProofs ---------------------------
(***************************************************************************)
(* The proof-of-relay lifecycle of one service node (x/pocketcore).        *)
(*                                                                         *)
(* Naming follows the source: an "unverified proof" (MsgProof, kept under  *)
(* KeyForUnverifiedProof) is the commit of spec section 3, the Claim; a    *)
(* "claim" (MsgClaimProof, built by ClaimProofs) is the reveal, the Proof  *)
(* message; a verified proof (ProofOfRelay, SetProof) is the verified      *)
(* record.                                                                 *)
(*                                                                         *)
(* The in-memory evidence store keeps, per session header, the relays the *)
(* node served; leaves are identified by their dense index, so the store   *)
(* is the count per header, and a Merkle root or branch is identified by   *)
(* the number of leaves of the tree it was computed from.                  *)
(*                                                                         *)
(* height is the last committed block: relays (HandleRelay takes the       *)
(* context of app.LastBlockHeight()) and the per-block driver              *)
(* (SendUnverifiedProofs, ClaimProofs) read it; transactions are delivered *)
(* in block height + 1, whose EndBlock runs DeleteExpiredUnverifiedProofs  *)
(* and commits it.                                                         *)
(***************************************************************************)
EXTENDS Integers, FiniteSets

CONSTANTS
    Headers,                   \* session headers: records [chain, sbh]
    Chains,                    \* external chain identifiers
    SessionFrequency,          \* k.SessionFrequency(ctx), blocks per session
    ProofWaitingPeriod,        \* k.ProofWaitingPeriod(ctx), sessions
    ClaimExpiration,           \* claim window of the MsgProof handler, sessions
    UnverifiedProofExpiration, \* k.UnverifiedProofExpiration(ctx), sessions
    MaxRelays,                 \* max_evidence_per_session
    MaxHeight,                 \* heights from MaxHeight on are not told apart
    MaxRestarts,               \* node process restarts explored
    Digest(_),                 \* hex(SHA3-256(payload))[:16], as 16 hex digits
    ByValueDecode,             \* MustUnmarshalBinaryBare(bz, msg), msg not a pointer:
                               \*   "Panics" or "Decodes"
    BroadcastCanFail           \* building or broadcasting a transaction may fail

ASSUME /\ SessionFrequency \in Nat \ {0}
       /\ {ProofWaitingPeriod, ClaimExpiration, UnverifiedProofExpiration} \subseteq Nat
       /\ ByValueDecode \in {"Panics", "Decodes"}
       /\ BroadcastCanFail \in BOOLEAN
       /\ \A hd \in Headers : hd.chain \in Chains /\ hd.sbh \in Nat \ {0}
       \* every height a guard compares with lies below MaxHeight
       /\ \A hd \in Headers :
             /\ hd.sbh + (ProofWaitingPeriod + ClaimExpiration) * SessionFrequency < MaxHeight
             /\ hd.sbh + UnverifiedProofExpiration * SessionFrequency < MaxHeight

PRP == INSTANCE PseudoRandomProof

VARIABLES
    height,     \* last committed block height
    evidence,   \* pc.GetAllProofs(): relays held in memory per header, 0 = none
    claims,     \* unverified proofs in the store: their TotalRelays, 0 = none
    verified,   \* verified proofs in the store: their TotalRelays, 0 = none
    rewards,    \* reward events emitted per header
    mempool,    \* broadcast transactions not yet in a block
    supported,  \* chains the pocketcore parameters support
    nodeUp,     \* the node process is running
    restarts,   \* node restarts so far
    pending,    \* driver functions still to run at this height
    panicked,   \* the driver has panicked at least once
    halted      \* a panic in EndBlock stopped the chain

vars == <<height, evidence, claims, verified, rewards, mempool, supported,
          nodeUp, restarts, pending, panicked, halted>>

NoClaim == 0
NoProof == 0
DriverSteps == {"SendUnverifiedProofs", "ClaimProofs"}

ClaimTxs == [type : {"claim"}, header : Headers, totalRelays : 1..MaxRelays]
ProofTxs == [type : {"proof"}, header : Headers, leafIndex : 0..(MaxRelays - 1),
             branchSize : 1..MaxRelays]

SessionEnd(hd)    == hd.sbh + SessionFrequency
ClaimDeadline(hd) == hd.sbh + (ProofWaitingPeriod + ClaimExpiration) * SessionFrequency

(***************************************************************************)
(* The height of the next block.  Every guard compares a height with a     *)
(* session threshold below MaxHeight, so the heights from MaxHeight on     *)
(* behave alike and are represented by MaxHeight: the chain runs forever   *)
(* over finitely many states.                                              *)
(***************************************************************************)
NextHeight == IF height < MaxHeight THEN height + 1 ELSE MaxHeight

(***************************************************************************)
(* Operators translated from proof.go.                                     *)
(***************************************************************************)

\* Mutant: the waiting period counted in blocks, not sessions.
ProofIsReadyToClaimInBlocks(h, sessionBlockHeight) ==
    h >= ProofWaitingPeriod + sessionBlockHeight

\* ProofIsReadyToClaim: the waiting period has passed since the session.
ProofIsReadyToClaim(h, sessionBlockHeight) ==
    h >= ProofWaitingPeriod * SessionFrequency + sessionBlockHeight

(***************************************************************************)
(* GeneratePseudoRandomProof(ctx, totalRelays, header).  proofContext :=   *)
(* ctx.WithBlockHeight(sbh + ProofWaitingPeriod * SessionFrequency)        *)
(* changes only the Height of ctx's header, so BlockHeader().GetLastBlock- *)
(* Id() is that of the block ctx runs in, not of the proof height.  A      *)
(* block id is identified by the height of its block.  (Tabulated once     *)
(* over the headers, block ids and relay counts.)                          *)
(***************************************************************************)
LastBlockHash(ctxHeight) == ctxHeight - 1

ChallengeTable ==
    [hd \in Headers, b \in -1..MaxHeight, n \in 0..MaxRelays |->
        PRP!GeneratePseudoRandomProof(Digest(PRP!GeneratorJSON(b, hd)), n)]

Challenge(ctxHeight, hd, totalRelays) ==
    ChallengeTable[hd, LastBlockHash(ctxHeight), totalRelays]

(***************************************************************************)
(* ValidateProof(proof = the stored MsgProof, claim = the revealed leaf    *)
(* and branch), in the context of block h.  The branch of leaf i in a tree of n leaves reconstructs   *)
(* the root of that tree, which is the committed root exactly when n is    *)
(* the committed TotalRelays.  The leaves of this node carry a valid token *)
(* and client signature.                                                   *)
(***************************************************************************)
ValidateProof(h, totalRelays, tx) ==
    LET c == Challenge(h, tx.header, totalRelays) IN
    CASE c.panic                                       -> "Panic"
      [] c.index # tx.leafIndex                        -> "InvalidProofs"
      [] tx.branchSize # totalRelays                   -> "InvalidMerkleVerify"
      [] OTHER                                         -> "Valid"

\* Mutant: the loop's comparison written with >.
ExpiredStrict(h, hd) ==
    (h - hd.sbh) \div SessionFrequency > UnverifiedProofExpiration

\* DeleteExpiredUnverifiedProofs: more sessions than the expiration passed.
Expired(h, hd) ==
    (h - hd.sbh) \div SessionFrequency >= UnverifiedProofExpiration

\* Mutant: ClaimProofs without the GetProof lookup.
SettledNever(hd) == FALSE

\* ClaimProofs: the verified proof is already in the world state.
Settled(hd) == verified[hd] # NoProof

\* ClaimProofs panics on GetMerkleProof(reqProof) when the tree rebuilt from
\* the evidence in memory has no leaf reqProof (or on the challenge itself).
RevealPanics(hd) ==
    \/ Challenge(height, hd, claims[hd]).panic
    \/ Challenge(height, hd, claims[hd]).index >= evidence[hd]

\* Mutant: the sessions iterated without consulting the evidence store.
HeldAllHeaders == Headers

\* for _, proof := range pc.GetAllProofs().M: the sessions in memory.
Held == {hd \in Headers : evidence[hd] > 0}

\* GetUnverfiedProof: found, a MsgProof is stored for the session.
GetUnverfiedProofFound(hd) == claims[hd] # NoClaim

\* SetUnverifiedProof and SetProof: store a MsgProof / a verified proof.
SetUnverifiedProof(hd, totalRelays) == [claims EXCEPT ![hd] = totalRelays]
SetProof(hd, totalRelays) == [verified EXCEPT ![hd] = totalRelays]

\* GetAllProofs and GetAllProofsByApp: the KV prefix scans over this node's
\* verified proofs, and over those of one application's sessions.
GetAllProofs == {hd \in Headers : verified[hd] # NoProof}

GetAllProofsByApp(app) == {hd \in GetAllProofs : hd.app = app}

\* The iterator over the UnverifiedProofKey prefix: every stored MsgProof.
StoredUnverified == {hd \in Headers : claims[hd] # NoClaim}

\* GetMatureUnverifiedProofs: the stored MsgProofs ready to claim at h.
GetMatureUnverifiedProofs(h) ==
    {hd \in StoredUnverified : ProofIsReadyToClaim(h, hd.sbh)}

(***************************************************************************)
(* The sessions whose transaction may fail to go out.  newTxBuilderAndCli- *)
(* Ctx panics when the account lookup fails, and builds every transaction  *)
(* of one height with the sequence number of the committed account, so all *)
(* but one are rejected by CheckTx; proofTx / claimTx (outside src/) may   *)
(* return that as an error, which panics, or drop it (DropTx).             *)
(***************************************************************************)
BroadcastMayFail(S) == IF BroadcastCanFail THEN S ELSE {}

UnverifiedProofTx(hd) == [type |-> "claim", header |-> hd, totalRelays |-> evidence[hd]]

RevealTx(hd) ==
    [type |-> "proof", header |-> hd, leafIndex |-> Challenge(height, hd, claims[hd]).index,
     branchSize |-> evidence[hd]]

(***************************************************************************)
(* Actions.                                                                *)
(***************************************************************************)

\* A process crash loses the in-memory evidence store.
CrashEffects ==
    /\ nodeUp' = FALSE
    /\ evidence' = [hd \in Headers |-> 0]
    /\ pending' = {}

(***************************************************************************)
(* PocketCoreApp.HandleRelay: the relay is checked against the context of  *)
(* the last committed block; the session of that height must be the       *)
(* relay's, its chain supported, and the session below the evidence cap;   *)
(* the relay is appended with index = current length.                      *)
(***************************************************************************)
HandleRelay(hd) ==
    /\ nodeUp /\ ~halted
    /\ hd.sbh <= height /\ height < SessionEnd(hd)
    /\ hd.chain \in supported
    /\ evidence[hd] < MaxRelays
    /\ evidence' = [evidence EXCEPT ![hd] = @ + 1]
    /\ UNCHANGED <<height, claims, verified, rewards, mempool, supported,
                   nodeUp, restarts, pending, panicked, halted>>

(***************************************************************************)
(* SendUnverifiedProofs: for every session in memory, drop it if its chain *)
(* is unsupported, skip it if its MsgProof is stored, and otherwise        *)
(* broadcast a MsgProof with the current TotalRelays and Merkle root.      *)
(* An error from proofTx panics: the sessions visited before it (map       *)
(* order, unknown here) have been broadcast, and the process ends.         *)
(***************************************************************************)
SendUnverifiedProofs ==
    /\ nodeUp /\ ~halted
    /\ "SendUnverifiedProofs" \in pending
    /\ LET held    == Held
           dropped == {hd \in held : hd.chain \notin supported}
           toSend  == {hd \in held \ dropped : ~GetUnverfiedProofFound(hd)}
       IN  \/ /\ evidence' = [hd \in Headers |-> IF hd \in dropped THEN 0 ELSE evidence[hd]]
              /\ mempool' = mempool \cup {UnverifiedProofTx(hd) : hd \in toSend}
              /\ pending' = pending \ {"SendUnverifiedProofs"}
              /\ UNCHANGED <<nodeUp, panicked>>
           \/ \E f \in BroadcastMayFail(toSend) : \E before \in SUBSET (toSend \ {f}) :
                 /\ mempool' = mempool \cup {UnverifiedProofTx(hd) : hd \in before}
                 /\ CrashEffects
                 /\ panicked' = TRUE
    /\ UNCHANGED <<height, claims, verified, rewards, supported, restarts, halted>>

(***************************************************************************)
(* ClaimProofs over GetMatureUnverifiedProofs.  Decoding an entry into the *)
(* by-value msg either panics at once or yields it.  For each mature       *)
(* MsgProof: if verified, delete the evidence; else rebuild the tree from  *)
(* the evidence in memory and broadcast the leaf at the challenge index    *)
(* with its branch.  A panic (GetMerkleProof, or an error from claimTx)    *)
(* ends the loop and the process: the entries                              *)
(* the iterator returned before it (KV key order, unknown here) have had   *)
(* their effect.                                                           *)
(***************************************************************************)
ClaimProofs ==
    /\ nodeUp /\ ~halted
    /\ "ClaimProofs" \in pending
    /\ LET mine    == StoredUnverified
           mature  == GetMatureUnverifiedProofs(height)
           settled == {hd \in mature : Settled(hd)}
           failing == IF ByValueDecode = "Panics" THEN mine
                      ELSE {hd \in mature \ settled : RevealPanics(hd)}
           stops   == failing \cup BroadcastMayFail((mature \ settled) \ failing)
       IN  \/ /\ failing = {}
              /\ evidence' = [hd \in Headers |-> IF hd \in settled THEN 0 ELSE evidence[hd]]
              /\ mempool' = mempool \cup {RevealTx(hd) : hd \in mature \ settled}
              /\ pending' = pending \ {"ClaimProofs"}
              /\ UNCHANGED <<nodeUp, panicked>>
           \/ \E f \in stops : \E before \in SUBSET ((mature \ failing) \ {f}) :
                  /\ ByValueDecode = "Panics" => before = {}
                  /\ mempool' = mempool \cup {RevealTx(hd) : hd \in before \ settled}
                  /\ CrashEffects
                  /\ panicked' = TRUE
    /\ UNCHANGED <<height, claims, verified, rewards, supported, restarts, halted>>

(***************************************************************************)
(* The MsgProof handler (spec 4.4), in block height + 1: the session is    *)
(* over and within the claim window, TotalRelays > 0, the chain supported  *)
(* and no MsgProof stored for the key.  A rejected transaction changes     *)
(* nothing.                                                                *)
(***************************************************************************)
ClaimAccepted(tx, h) ==
    /\ h >= SessionEnd(tx.header)
    /\ h < ClaimDeadline(tx.header)
    /\ tx.totalRelays > 0
    /\ tx.header.chain \in supported
    /\ claims[tx.header] = NoClaim

\* The next block's transactions run after the driver of this height.
BlockOpen == ~halted /\ (pending = {} \/ ~nodeUp)

DeliverUnverifiedProof(tx) ==
    /\ BlockOpen
    /\ tx \in mempool /\ tx.type = "claim"
    /\ mempool' = mempool \ {tx}
    /\ claims' = IF ClaimAccepted(tx, height + 1)
                 THEN SetUnverifiedProof(tx.header, tx.totalRelays)
                 ELSE claims
    /\ UNCHANGED <<height, evidence, verified, rewards, supported, nodeUp,
                   restarts, pending, panicked, halted>>

(***************************************************************************)
(* The MsgClaimProof handler (spec 4.5): the MsgProof must be stored and   *)
(* mature (spec 8, NotReady), and ValidateProof must accept; a panic in    *)
(* it aborts the transaction.  Then the verified proof is written, the     *)
(* MsgProof deleted and the reward emitted.                                *)
(***************************************************************************)
ProofAccepted(tx, h) ==
    /\ claims[tx.header] # NoClaim
    /\ ProofIsReadyToClaim(h, tx.header.sbh)
    /\ ValidateProof(h, claims[tx.header], tx) = "Valid"

DeliverClaimProof(tx) ==
    /\ BlockOpen
    /\ tx \in mempool /\ tx.type = "proof"
    /\ mempool' = mempool \ {tx}
    /\ IF ProofAccepted(tx, height + 1)
       THEN /\ verified' = SetProof(tx.header, claims[tx.header])
            /\ claims' = [claims EXCEPT ![tx.header] = NoClaim]
            /\ rewards' = [rewards EXCEPT ![tx.header] = @ + 1]
       ELSE UNCHANGED <<verified, claims, rewards>>
    /\ UNCHANGED <<height, evidence, supported, nodeUp, restarts, pending,
                   panicked, halted>>

\* A broadcast transaction that never makes it into a block.
DropTx(tx) ==
    /\ ~halted
    /\ tx \in mempool
    /\ mempool' = mempool \ {tx}
    /\ UNCHANGED <<height, evidence, claims, verified, rewards, supported,
                   nodeUp, restarts, pending, panicked, halted>>

(***************************************************************************)
(* EndBlock of block height + 1: DeleteExpiredUnverifiedProofs iterates    *)
(* every stored MsgProof; decoding into the by-value msg either panics,    *)
(* halting the chain, or deletes the expired ones.  Then the block is      *)
(* committed and the driver is due at the new height.                      *)
(***************************************************************************)
CommitBlock ==
    /\ BlockOpen
    /\ IF ByValueDecode = "Panics" /\ StoredUnverified # {}
       THEN /\ halted' = TRUE
            /\ UNCHANGED <<height, claims, pending>>
       ELSE /\ claims' = [hd \in Headers |->
                            IF claims[hd] # NoClaim /\ Expired(height + 1, hd)
                            THEN NoClaim ELSE claims[hd]]
            /\ height' = NextHeight
            /\ pending' = IF nodeUp THEN DriverSteps ELSE {}
            /\ UNCHANGED halted
    /\ UNCHANGED <<evidence, verified, rewards, mempool, supported, nodeUp,
                   restarts, panicked>>

\* Governance removes a chain from the supported blockchains.
DropChain(c) ==
    /\ ~halted
    /\ c \in supported
    /\ supported' = supported \ {c}
    /\ UNCHANGED <<height, evidence, claims, verified, rewards, mempool,
                   nodeUp, restarts, pending, panicked, halted>>

\* The node process stops (the operator, the OS) ...
Crash ==
    /\ nodeUp /\ restarts < MaxRestarts
    /\ CrashEffects
    /\ UNCHANGED <<height, claims, verified, rewards, mempool, supported,
                   restarts, panicked, halted>>

\* ... and starts again with an empty evidence store.
Restart ==
    /\ ~nodeUp /\ restarts < MaxRestarts
    /\ nodeUp' = TRUE
    /\ restarts' = restarts + 1
    /\ UNCHANGED <<height, evidence, claims, verified, rewards, mempool,
                   supported, pending, panicked, halted>>

Init ==
    /\ height = 0
    /\ evidence = [hd \in Headers |-> 0]
    /\ claims = [hd \in Headers |-> NoClaim]
    /\ verified = [hd \in Headers |-> NoProof]
    /\ rewards = [hd \in Headers |-> 0]
    /\ mempool = {}
    /\ supported = Chains
    /\ nodeUp = TRUE
    /\ restarts = 0
    /\ pending = {}
    /\ panicked = FALSE
    /\ halted = FALSE

Next ==
    \/ \E hd \in Headers : HandleRelay(hd)
    \/ SendUnverifiedProofs
    \/ ClaimProofs
    \/ \E tx \in mempool : DeliverUnverifiedProof(tx) \/ DeliverClaimProof(tx) \/ DropTx(tx)
    \/ CommitBlock
    \/ \E c \in Chains : DropChain(c)
    \/ Crash
    \/ Restart

Spec == Init /\ [][Next]_vars

(***************************************************************************)
(* Fairness.  Consensus keeps committing blocks, and a running node runs   *)
(* both driver functions at every height it sees (spec 4.7): weak          *)
(* fairness of CommitBlock and of the two driver steps.  Nothing is        *)
(* assumed of relays, of the delivery or loss of a broadcast transaction,  *)
(* of governance, or of a node that is down coming back.                   *)
(***************************************************************************)
FairSpec ==
    /\ Spec
    /\ WF_vars(CommitBlock)
    /\ WF_vars(SendUnverifiedProofs)
    /\ WF_vars(ClaimProofs)

(***************************************************************************)
(* Properties.                                                             *)
(***************************************************************************)

\* Every variable has its type; every broadcast MsgProof commits to at
\* least one relay and every MsgClaimProof names a leaf of its tree.
TypeOK ==
    /\ height \in Nat
    /\ evidence \in [Headers -> 0..MaxRelays]
    /\ claims \in [Headers -> 0..MaxRelays]
    /\ verified \in [Headers -> 0..MaxRelays]
    /\ rewards \in [Headers -> Nat]
    /\ mempool \subseteq ClaimTxs \cup ProofTxs
    /\ supported \subseteq Chains
    /\ nodeUp \in BOOLEAN /\ panicked \in BOOLEAN /\ halted \in BOOLEAN
    /\ restarts \in 0..MaxRestarts
    /\ pending \subseteq DriverSteps

\* Spec 8: no MsgProof persists beyond sbh + UnverifiedProofExpiration
\* sessions.  Rests on DeleteExpiredUnverifiedProofs's session arithmetic
\* together with the claim window of the MsgProof handler, which may accept
\* a late MsgProof the sweep has to catch.
ClaimExpiryBound ==
    \A hd \in Headers :
        claims[hd] # NoClaim =>
            height < hd.sbh + UnverifiedProofExpiration * SessionFrequency

\* The verified proofs GetAllProofsByApp lists for an application are
\* exactly its paid sessions, each paid once.  After a proof is verified
\* its MsgProof is deleted and SendUnverifiedProofs, which only looks at
\* unverified proofs, commits the session again; only ClaimProofs's
\* GetProof lookup keeps the node from proving it a second time.
PaidSessionsAreListed ==
    \A hd \in Headers :
        rewards[hd] = IF hd \in GetAllProofsByApp(hd.app) THEN 1 ELSE 0

\* Spec 4.7: a claim is built from the session's final evidence, so a
\* stored MsgProof commits to every relay the node holds for the session
\* (SendUnverifiedProofs broadcasts whatever is in memory, every block).
ClaimMatchesEvidence ==
    \A hd \in Headers :
        claims[hd] # NoClaim /\ evidence[hd] > 0 => claims[hd] = evidence[hd]

\* Spec 7: the lifecycle driver logs and skips per-session failures and
\* never aborts; ClaimProofs panics on a missing leaf or branch.
DriverNeverPanics == ~panicked

\* Spec 7: block application is never aborted; DeleteExpiredUnverifiedProofs
\* runs in EndBlock over every stored MsgProof.
ChainNeverHalts == ~halted

\* Spec 4.8 (Revealed -> Settled): once the verified record is written the
\* node deletes the session's evidence.  The code deletes it only in
\* ClaimProofs, which sees the session only through a stored MsgProof.
SettledEvidenceReleased ==
    \A hd \in Headers : verified[hd] # NoProof ~> evidence[hd] = 0

(***************************************************************************)
(* Refinement.  The node and the chain implement the session state machine *)
(* of spec 4.8 (module SessionLifecycle).  A session is Settled once its   *)
(* verified proof is stored, Claimed while its MsgProof is stored, and     *)
(* otherwise Unclaimed while block height + 1 may still accept a MsgProof  *)
(* and Discarded after.  An expired MsgProof is Discarded only because     *)
(* the sweep comes no earlier than the end of the claim window             *)
(* (UnverifiedProofExpiration >= ProofWaitingPeriod + ClaimExpiration).    *)
(***************************************************************************)
PhaseOf(hd) ==
    CASE verified[hd] # NoProof                -> "Settled"
      [] claims[hd] # NoClaim                  -> "Claimed"
      [] height + 1 < ClaimDeadline(hd)        -> "Unclaimed"
      [] OTHER                                 -> "Discarded"

LC == INSTANCE SessionLifecycle WITH
          phase <- [hd \in Headers |-> PhaseOf(hd)],
          paid  <- rewards

\* Every step of the node and the chain is a step of the spec 4.8 state
\* machine or leaves its state alone: MsgProofs are accepted only in the
\* window, proofs only when mature, a session is paid once and only from
\* Claimed, and the DeleteExpiredUnverifiedProofs sweep of each committed
\* block discards exactly the expired MsgProofs.  Only the safety part is
\* claimed: as built, EndBlock halts at the first stored MsgProof
\* (ChainNeverHalts), so the chain does not keep committing blocks.
RefinesSessionLifecycle == LC!SafetySpec

=============================================================================
