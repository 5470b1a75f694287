# Model checking pocket-core's proof-of-relay lifecycle

This directory holds TLA+ models of the Go sources under `src/`. The sources are:

- `src/x/pocketcore/keeper/proof.go`: the proof keeper, the challenge derivation and the per-block lifecycle driver.
- `src/unnamed/part_000`: the `PocketCoreApp` query and relay facade and its pagination.

Each model is checked with TLC. `PROJECT.json` lists:

- the components;
- the runs and the mutants that show each property can fail;
- the map from every definition to the lines it translates;
- the findings;
- the hazards.

## Naming

The source and `spec.md` use different names for the same things:

| source | spec | model variable |
|---|---|---|
| "unverified proof" (`MsgProof`) | claim (commit) | `claims` |
| "claim" (`MsgClaimProof`, built by `ClaimProofs`) | proof (reveal) | proof transactions in the mempool |
| `ProofOfRelay` | verified record | `verified` |

## The system and how its parts interact

- **Relay front end.** `PocketCoreApp.HandleRelay` serves relays in the context of `app.LastBlockHeight()`. It appends each relay to an in-memory evidence store, which holds one Merkle tree per session header.
- **Lifecycle driver.** It runs once per committed block.
  - `SendUnverifiedProofs` walks the evidence store. It drops sessions of unsupported chains. It broadcasts a `MsgProof` (total relays, Merkle root) for every session with no `MsgProof` stored.
  - `ClaimProofs` walks the mature stored `MsgProof`s (`GetMatureUnverifiedProofs`). If the session is already verified (`GetProof`), it deletes the evidence. Otherwise it rebuilds the tree, derives the challenge index (`GeneratePseudoRandomProof`), and broadcasts the leaf with its branch.
- **Handlers.** They are not under `src/` and are modelled from spec sections 4.4 and 4.5.
  - The `MsgProof` handler stores the claim inside its claim window.
  - The `MsgClaimProof` handler checks maturity and `ValidateProof`, writes the verified proof (`SetProof`), deletes the `MsgProof` and emits the reward.
- **EndBlock.** `DeleteExpiredUnverifiedProofs` deletes `MsgProof`s older than `UnverifiedProofExpiration` sessions.
- **Query facade.** `checkPagination` and `paginate` page the lists returned by `QueryNodes`, `QueryApps`, `QueryReceipts` and `QueryClaims`.

## Modules

### `PseudoRandomProof`

Models `GeneratePseudoRandomProof` (proof.go 41-68) as a pure operator.

- The payload is what `json.Marshal` makes of `pseudorandomGenerator`, represented as the sequence of the fields it serialises. The fields are unexported, so the payload is `{}`, the empty sequence.
- A digest is 16 hex digits.
- `Stops` is the set of loop iterations that leave the loop: `ParseInt` fails, or `totalRelays > res`.
- The outcome is a panic or an index.
- `ParseInt`'s int64 range check is decided exactly on the digits: 16 digits with a first digit of 8 or more overflow.
- Values are saturated at `MaxRelays + 1`, which is enough because they are only compared with `totalRelays`.

`MC_PseudoRandomProof` has two kinds of initial state:

- `InitReference` enumerates 3456 digest and relay-count pairs. The digests are built from heads that sit on and around the int64 boundary, and from tails whose suffixes fall below every relay count. The run compares the code with a recursive reference, `SpecChallenge`, written from spec section 4.3.
- `InitAsBuilt` uses the digest the code really scans, the first 16 hex digits of SHA3-256 of `{}`.

### `PocketcoreProofs`

Models one service node and the chain, for a set of session headers.

State:

- `evidence`: relays per header. A Merkle root or branch is identified by the number of leaves it was built from.
- `claims`, `verified` and `rewards`: the KV stores and the reward events.
  `GetAllProofs` and `GetAllProofsByApp`, the prefix scans over the verified proofs, are sets over `verified`. The headers carry an `app` field for the by-app scan.
- `mempool`: broadcast transactions not yet in a block.
- `supported`: the supported chains.
- `nodeUp` and `restarts`: the process state.
- `pending`: driver steps still due at this height.
- `panicked` and `halted`: whether the driver panicked and whether EndBlock halted the chain.

Actions. Each one is the whole handler:

- `HandleRelay`.
- `SendUnverifiedProofs`. An error from `proofTx` panics and ends the process.
- `ClaimProofs`. A panic (a missing leaf, or an error from `claimTx`) ends the loop and the process. The iteration order of the map and of the KV store is not modelled, so the entries handled before the panic may be any subset of the others.
- `DeliverUnverifiedProof` and `DeliverClaimProof`: the handlers, in block `height + 1`.
- `DropTx`: a transaction that is lost.
- `CommitBlock`: EndBlock's `DeleteExpiredUnverifiedProofs`, then the commit. Heights from `MaxHeight` on are represented by `MaxHeight` (`NextHeight`). An `ASSUME` keeps every threshold a guard compares with below it, so those heights behave alike and the chain runs for ever over finitely many states.
- `DropChain`: governance removes a chain.
- `Crash` and `Restart`: a crash loses the in-memory evidence.

The next block opens only after this height's driver has run or the node is down (`BlockOpen`).

The challenge is `PseudoRandomProof`'s operator applied to the digest of the payload. `proofContext := ctx.WithBlockHeight(...)` changes only the header's height. So `BlockHeader().GetLastBlockId()` is the id of the block the context runs in, not of the proof height. `LastBlockHash` identifies a block id by the height of its block.

- The driver derives the challenge at `height`.
- The handler derives it in the block it runs in.
- `ChallengeTable` tabulates the outcome over headers, block ids and relay counts.

Three CONSTANTs select how the code behaves as built:

- **`Digest(_)`.** It gives the 16 hex digits of SHA3-256 of a payload. SHA3 is not computed.
  - `AsBuiltDigest` gives `{}` its real digest, which makes every challenge panic, so nothing past the challenge could be explored with it.
  - `NoOverflowDigest` gives `{}` a digest that lets the code run past the challenge. The passing runs use it, and so do the violation runs that concern the lifecycle.
  - Both give a payload that carries a block hash one of two digests, by the block's parity. Neighbouring blocks therefore select different leaves.
- **`ByValueDecode`.** This concerns `MustUnmarshalBinaryBare(bz, msg)` with a non-pointer `msg`.
  - `"Panics"` is go-amino's behaviour.
  - `"Decodes"` is the behaviour spec section 9 intends. It explores the rest of the lifecycle.
- **`BroadcastCanFail`.** `newTxBuilderAndCliCtx` panics when its account lookup fails. It also builds every transaction of a height with the committed sequence number, so all but one are rejected by CheckTx. `proofTx` and `claimTx` are outside `src/` and may return that rejection as an error, which panics. They may also lose the transaction, which is `DropTx`. With `TRUE`, any transaction the driver sends may fail (`BroadcastMayFail`). The violation runs use `FALSE`, so that their traces show the failure they are about.

`PhaseOf` maps the state to the phase of spec 4.8, and `LC` is `SessionLifecycle` instantiated with that mapping:

- `Settled` once the verified proof is stored;
- `Claimed` while a `MsgProof` is stored;
- otherwise `Unclaimed` while block `height + 1` may still accept a `MsgProof`, and `Discarded` after.

### `SessionLifecycle`

The abstract specification, written from spec 4.8 as the chain sees one session. Its variables are `height`, `phase` and `paid`. It has three actions:

- `Tick`: a block is committed. An unused window closes, and an expired claim is discarded.
- `Claim`: a claim is accepted once the session is over.
- `Settle`: a mature claim is proven, and the session is paid.

`Settled` and `Discarded` are final. `SafetySpec` is `Init /\ [][Next]_vars`; `Spec` adds weak fairness of `Tick`, the promise that blocks keep being committed. `PocketcoreProofs` claims only `SafetySpec` (`RefinesSessionLifecycle`): as built, EndBlock halts at the first stored `MsgProof` (`chain_halt`), so the liveness half of `Spec` does not hold of the code. The refinement needs `UnverifiedProofExpiration >= ProofWaitingPeriod + ClaimExpiration`: an expired claim must fall outside the window, or the code would let it be claimed again.

### `Pagination`

Models `checkPagination`, `paginate` and the four paging queries as operators over a list `1..l`.

`util.Paginate` comes from posmint, outside `src/`. It is modelled from its documented behaviour:

- a page of 0, or a start past the list, gives `-1, -1`;
- the default limit replaces a zero limit;
- the end is clamped to the list length.

`MC_Pagination` enumerates every query, list length 0..6, page -1..7 and limit -1..4.

### `Validation`

Models `ValidateServiceURL` and `ValidateNetworkIdentifier` (part_000 652-697) as operators.

A service URL is a record of the features its checks tell apart:

- how `url.ParseRequestURI` reads it (empty, `*`, path, relative, opaque or authority);
- its scheme, in either case (`strings.ToLower` maps it);
- its host, the text after a `:` in the host, whether a path follows, the text after a `:` in the path, whether it holds a `.`;
- its length.

From these, the model computes:

- the number of `:` (`strings.Split`);
- the third part (`strconv.Atoi`);
- the result of each check, in the code's order.

A network identifier is its length and whether it is all hex.

`MC_Validation` enumerates every shape up to 12 bytes and every identifier up to 6 characters.

## Runs

| run | expects | shows |
|---|---|---|
| `prp_reference` | pass | Whenever the scan returns, it returns the spec's index, a leaf of the tree. |
| `prp_overflow` | violation | The as-built digest `840eb7aa…` overflows `ParseInt`, so every challenge panics. |
| `prp_payload` | violation | Two block hashes give the same payload, so the challenge ignores the block hash. |
| `lifecycle` | pass | Every step of the node and chain is a step of the spec 4.8 state machine or leaves it alone (`RefinesSessionLifecycle`, a safety refinement). A stored claim never outlives `UnverifiedProofExpiration` (`ClaimExpiryBound`). The verified proofs `GetAllProofsByApp` lists are exactly the paid sessions, each paid once (`PaidSessionsAreListed`), even though `SendUnverifiedProofs` re-commits verified sessions. All of this holds with transaction loss, broadcast failures, a restart and chain removal. |
| `settled_evidence` | violation | After a proof is verified, the evidence is deleted only if the new `MsgProof` is accepted. When it misses the claim window, or is lost, the evidence stays in memory for ever, and a `MsgProof` is rebroadcast every block. |
| `stale_claim` | violation | With no crash, a claim sent in the session's last block commits to fewer relays than the node later holds. |
| `driver_panic` | violation | After a restart, `ClaimProofs` asks for a branch of a missing leaf and panics. |
| `chain_halt` | violation | With go-amino's panic on a by-value decode, the first stored claim halts EndBlock. |
| `pagination` | pass | Walking pages 1, 2, ... returns every item once, in order, for every query. |
| `network_id` | pass | `ValidateNetworkIdentifier` accepts exactly the 1- or 2-byte hex chain ids of spec 2. |
| `service_url_panic` | violation | The request URI `/` passes `ParseRequestURI`, and `u[:8]` then panics. |
| `pagination_total` | violation | A short last page reports `ceil(l/len(page))` pages, e.g. 3 items, limit 2 reports 3 pages. |

Every property of a passing run has a mutant in `PROJECT.json`. A mutant is a plausible bug in the code it replaces, and TLC finds the property violated under the mutant. The mutants are:

- `>` for `>=` in the expiry check;
- the `GetProof` lookup removed;
- the loop position returned in place of the parsed value;
- `>=` for `>` in the scan;
- a slice shifted by one;
- iterating every session whether or not the node holds evidence for it;
- `>=` for `>` in the identifier length bound;
- the waiting period counted in blocks, not sessions.

### Patched modes in the passing run

The `lifecycle` run uses `ByValueDecode = "Decodes"` and `NoOverflowDigest`, so that the reveal, the verification and the sweep are reached at all. Each of its four properties is a safety property that also holds of the code as built. With `AsBuiltDigest` and `ByValueDecode = "Panics"`, the same cfg passes with 17,312 distinct states when deadlock is not checked, because the chain halts at the first stored `MsgProof`. The patched modes therefore add states without hiding a violation. The challenge hazard at proof.go:43 has no property. Which block id the driver and the handler read matters only once the payload carries its fields (`prp_payload`) and its digest stops overflowing (`prp_overflow`). Until then, any property about it would hold only because of those two bugs.

## Bounds

The lifecycle runs use:

- one session header;
- `SessionFrequency = 2`, `ProofWaitingPeriod = 2`, `ClaimExpiration = 2` and `UnverifiedProofExpiration = 4`;
- up to three relays per session (two in the violation runs);
- heights saturating at 10;
- one restart.

These values are large enough for the interesting cases:

- every step of the lifecycle happens;
- a claim accepted early in its window must wait to mature, so the maturity checks matter;
- a claim can be accepted late in its window and must then be swept;
- a verified session is committed again and revealed again.

With a tighter window the re-reveal never happens.

`MCHeaders` holds two headers, on two chains. With it, the lifecycle cfg also passes, at 370,194 distinct states in about 1.5 minutes. It is not a recorded run, because its mutant runs would not stay within their time limit. Sessions interact only through `supported`, the mempool and the crash, and the one-header run already has all three.

`MC_Validation` also shows that the URL check reads its port by splitting the whole string. It accepts `http:///.:1`, which has an empty host, and rejects `http://a.b:80/x`. There is no spec statement of the accepted URL form, so this is a hazard in `PROJECT.json`, not a run.

The pagination bounds reach:

- empty lists;
- exact and short last pages;
- pages past the end;
- zero and negative arguments.

## Fairness

`FairSpec` adds weak fairness of `CommitBlock`, `SendUnverifiedProofs` and `ClaimProofs`:

- consensus keeps committing blocks;
- a running node runs both driver functions at every height it sees (spec 4.7).

Nothing is assumed about relays, about the delivery or loss of a transaction, about governance, or about a node that is down coming back.

`FairSpec` is used only by `settled_evidence`. There `SettledEvidenceReleased` fails, and the finding does not rest on a lost transaction alone: a proof verified in the last block of the window leaves a new `MsgProof` that is rejected even when delivered.

No passing run checks a liveness property. Under `ByValueDecode = "Decodes"`, a claim would always eventually be deleted and the node would implement `SessionLifecycle!Spec` with its fairness. But the code as built halts the chain at the first stored `MsgProof`, so such a result would describe a decode the code cannot perform. The passing runs use `Spec` and check deadlock. The height saturates, so a live chain never deadlocks.

## Not modelled, and the plan

Not modelled now:

- The query facade's single-value reads. They change no state.
- Validator encoding. It is formatting only.
- The product `(page-1)*limit` in posmint's `util.Paginate`. It is outside `src/`, and the model of `util.Paginate` computes it without a width.
- `HandleDispatch` and `HandleChallenge`. They delegate to keepers outside `src/`.
- How the ante handler treats the sequence number that `newTxBuilderAndCliCtx` shares between the transactions of a height. The ante handler is outside `src/`. The model lets any transaction fail or be lost instead.
- Governance changes of the parameters. The code reads them at use time (proof.go:233). The model and `SessionLifecycle` hold them fixed.
- Leaf indices. They are assigned, and challenges judged, in keeper code outside `src/`.
- Deleting while the expiry iterator is open (proof.go:234). A skipped entry needs two stored `MsgProof`s, and the lifecycle run holds one session.

The parameter change and the iterator delete are listed as hazards in `PROJECT.json`.

Planned:

1. Payment liveness (`a served session is eventually paid`). It needs fairness of transaction delivery, which the network does not give, and a chain that does not halt at the first stored `MsgProof`.
