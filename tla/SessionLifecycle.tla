--------------------------- MODULE SessionLifecycle ---------------------------
(***************************************************************************)
(* The session state machine of spec 4.8, as the chain sees it: what the  *)
(* proof-of-relay protocol promises about one session, whatever the node  *)
(* and the network do.                                                     *)
(*                                                                         *)
(*   Unclaimed  no claim on chain and the claim window still open          *)
(*              (Collecting, Ready);                                       *)
(*   Claimed    a claim on chain, not yet proven (Claimed, Mature);        *)
(*   Settled    the verified record is written and the session paid;      *)
(*   Discarded  the claim window passed unused, or the claim expired.      *)
(*                                                                         *)
(* height is the last committed block; a step happens in block height + 1. *)
(* Settled and Discarded are final.                                        *)
(***************************************************************************)
EXTENDS Integers

CONSTANTS Headers, SessionFrequency, ProofWaitingPeriod, ClaimExpiration,
          UnverifiedProofExpiration, MaxHeight

VARIABLES height, phase, paid

vars == <<height, phase, paid>>

Phases == {"Unclaimed", "Claimed", "Settled", "Discarded"}

\* Ready: the session is over.  Mature: the waiting period has passed.
ReadyAt(h, hd)  == h >= hd.sbh + SessionFrequency
MatureAt(h, hd) == h >= hd.sbh + ProofWaitingPeriod * SessionFrequency

\* A claim is accepted before the claim window closes ...
WindowOpenAt(h, hd) ==
    h < hd.sbh + (ProofWaitingPeriod + ClaimExpiration) * SessionFrequency

\* ... and discarded once UnverifiedProofExpiration sessions old.
ExpiredAt(h, hd) == h >= hd.sbh + UnverifiedProofExpiration * SessionFrequency

\* The chain commits block height + 1; heights from MaxHeight on are alike.
Tick ==
    LET h == IF height < MaxHeight THEN height + 1 ELSE MaxHeight IN
    /\ height' = h
    /\ phase' = [hd \in Headers |->
                   CASE phase[hd] = "Unclaimed" /\ ~WindowOpenAt(h + 1, hd) -> "Discarded"
                     [] phase[hd] = "Claimed" /\ ExpiredAt(h, hd)          -> "Discarded"
                     [] OTHER                                             -> phase[hd]]
    /\ UNCHANGED paid

\* Ready -> Claimed: a claim transaction is committed in the window.
Claim(hd) ==
    /\ phase[hd] = "Unclaimed"
    /\ ReadyAt(height + 1, hd)
    /\ phase' = [phase EXCEPT ![hd] = "Claimed"]
    /\ UNCHANGED <<height, paid>>

\* Mature -> Revealed -> Settled: an accepted proof writes the verified
\* record and pays the session.
Settle(hd) ==
    /\ phase[hd] = "Claimed"
    /\ MatureAt(height + 1, hd)
    /\ phase' = [phase EXCEPT ![hd] = "Settled"]
    /\ paid' = [paid EXCEPT ![hd] = @ + 1]
    /\ UNCHANGED height

Init ==
    /\ height = 0
    /\ phase = [hd \in Headers |-> "Unclaimed"]
    /\ paid = [hd \in Headers |-> 0]

Next ==
    \/ Tick
    \/ \E hd \in Headers : Claim(hd) \/ Settle(hd)

\* What may happen to a session, whether or not the chain goes on.
SafetySpec == Init /\ [][Next]_vars

\* The chain keeps committing blocks.
Spec == SafetySpec /\ WF_vars(Tick)

=============================================================================
