----------------------------- MODULE Readiness ------------------------------
(***************************************************************************)
(* The readiness endpoint GET /readyz (cosmos/app/rpc_readiness.go and     *)
(* x/evm/keeper/readiness.go).  A request reads the committed execution    *)
(* head, asks CometBFT whether it is catching up, asks the execution       *)
(* client (EL) whether it has that head, and compares the height of the    *)
(* head with the block height a trusted peer reports.  Blocks are          *)
(* committed, here and at the peer, between any two of these steps: the    *)
(* head and the report are both old when they are compared.                *)
(*                                                                         *)
(* The head's height counts execution blocks: it is below the CometBFT     *)
(* height by the number of blocks that executed no payload.                *)
(***************************************************************************)
EXTENDS Integers

CONSTANTS
  MaxLag,       \* HEAD_LAG_MAX_BLOCKS
  PeerUrl,      \* whether TRUSTED_PEER_STATUS_URL is set
  HeadersOk,    \* whether TRUSTED_PEER_STATUS_HEADERS parses
  Drift,        \* blocks that executed no payload: the first, and failed ones
  MaxTip,       \* bound: CometBFT heights
  MaxFaults     \* bound: EL restarts that lose blocks, and failed requests

ASSUME ReadinessAssumption ==
  /\ MaxLag \in Nat /\ Drift \in Nat \ {0}
  /\ PeerUrl \in BOOLEAN /\ HeadersOk \in BOOLEAN
  /\ MaxTip \in Nat /\ MaxFaults \in Nat

VARIABLES
  tip,       \* the height CometBFT has decided
  local,     \* the height this node has committed
  peer,      \* the height the trusted peer has committed
  catching,  \* SyncInfo.CatchingUp
  elHead,    \* the execution block the EL has as its head
  stage,     \* the stage of the request, "idle" if there is none
  head,      \* the height of the committed head the request has read
  reported,  \* the height the peer has reported to the request
  arrived,   \* the height the peer had when the request arrived (history)
  verdict,   \* the answer to the last request, or its failed stage
  faults

chain == <<tip, local, peer, catching, elHead>>
request == <<head, reported, arrived>>
readyVars == <<tip, local, peer, catching, elHead, stage, head, reported, arrived,
               verdict, faults>>

Stages == {"query_context", "cosmos", "reth", "head_lag", "trusted_peer_config",
           "trusted_peer_request", "trusted_peer_response"}

\* BlockState.Height once CometBFT height h is committed.
HeadAt(h) == IF h > Drift THEN h - Drift ELSE 0

ReadyInit ==
  /\ tip = 0 /\ local = 0 /\ peer = 0 /\ catching = TRUE /\ elHead = 0
  /\ stage = "idle" /\ head = 0 /\ reported = 0 /\ arrived = 0
  /\ verdict = "none" /\ faults = 0

---------------------------------------------------------------------------
\* The request.

Answer(v) == stage' = "idle" /\ verdict' = v /\ UNCHANGED <<chain, request>>

\* Before the first commit there is no state to query; InitGenesis stores the
\* head with the first one, so that the stage committed_state does not occur.
RunReadinessChecks ==
  /\ stage = "idle"
  /\ IF local = 0
     THEN Answer("query_context")
     ELSE /\ stage' = "comet" /\ head' = HeadAt(local) /\ arrived' = peer
          /\ UNCHANGED <<chain, reported, verdict>>
  /\ UNCHANGED faults

CheckLocalCometNotCatchingUp ==
  /\ stage = "comet"
  /\ IF catching
     THEN Answer("cosmos")
     ELSE stage' = "reth" /\ UNCHANGED <<chain, request, verdict>>
  /\ UNCHANGED faults

ProbeCommittedExecutionHead ==
  /\ stage = "reth"
  /\ IF elHead < head THEN Answer("reth")
     ELSE IF ~PeerUrl THEN Answer("ok")
     ELSE stage' = "peer" /\ UNCHANGED <<chain, request, verdict>>
  /\ UNCHANGED faults

\* Mutants: the limit itself is too far; only a peer behind counts.
LagReached(peerH, localH) == (IF peerH >= localH THEN peerH - localH ELSE localH - peerH) >= MaxLag

LagOfPeerOnly(peerH, localH) == localH - peerH > MaxLag

TooFar(peerH, localH) == (IF peerH >= localH THEN peerH - localH ELSE localH - peerH) > MaxLag

\* checkTrustedPeerLag sends the GET once the headers have parsed ...
SendPeerRequest ==
  /\ stage = "peer"
  /\ IF ~HeadersOk
     THEN Answer("trusted_peer_config")
     ELSE stage' = "asked" /\ UNCHANGED <<chain, request, verdict>>
  /\ UNCHANGED faults

\* ... the peer answers it with the height it has at that time ...
PeerReports ==
  /\ stage = "asked"
  /\ stage' = "reported" /\ reported' = peer
  /\ UNCHANGED <<chain, head, arrived, verdict, faults>>

\* ... and compares the height in the answer when that has arrived.
CheckTrustedPeerLag ==
  /\ stage = "reported"
  /\ Answer(IF TooFar(reported, head) THEN "head_lag" ELSE "ok")
  /\ UNCHANGED faults

\* The call of a stage fails or the request's deadline passes, before the peer
\* has seen the GET or after; the answer may also have another HTTP status, or
\* not parse.
StageFails ==
  /\ faults < MaxFaults
  /\ \/ stage = "comet" /\ Answer("cosmos")
     \/ stage = "reth" /\ Answer("reth")
     \/ stage \in {"asked", "reported"} /\ Answer("trusted_peer_request")
     \/ stage = "reported" /\ Answer("trusted_peer_response")
  /\ faults' = faults + 1

---------------------------------------------------------------------------
\* Around the request.

Decide ==
  /\ tip < MaxTip
  /\ tip' = tip + 1
  /\ UNCHANGED <<local, peer, catching, elHead, stage, request, verdict, faults>>

\* FinalizeBlock has the EL adopt the block before the node commits it.
CommitLocal ==
  /\ local < tip
  /\ local' = local + 1
  /\ elHead' \in IF elHead >= HeadAt(local) THEN {HeadAt(local + 1)} ELSE {elHead, HeadAt(local + 1)}
  /\ UNCHANGED <<tip, peer, catching, stage, request, verdict, faults>>

CommitPeer ==
  /\ peer < tip
  /\ peer' = peer + 1
  /\ UNCHANGED <<tip, local, catching, elHead, stage, request, verdict, faults>>

\* Block synchronisation ends near the tip.
SwitchToConsensus ==
  /\ catching /\ local + 1 >= tip
  /\ catching' = FALSE
  /\ UNCHANGED <<tip, local, peer, elHead, stage, request, verdict, faults>>

ElRestart ==
  /\ faults < MaxFaults
  /\ elHead' \in 0..elHead
  /\ faults' = faults + 1
  /\ UNCHANGED <<tip, local, peer, catching, stage, request, verdict>>

ElSync ==
  /\ elHead < HeadAt(local)
  /\ elHead' = HeadAt(local)
  /\ UNCHANGED <<tip, local, peer, catching, stage, request, verdict, faults>>

ReadyNext ==
  \/ RunReadinessChecks \/ CheckLocalCometNotCatchingUp \/ ProbeCommittedExecutionHead
  \/ SendPeerRequest \/ PeerReports \/ CheckTrustedPeerLag \/ StageFails
  \/ Decide \/ CommitLocal \/ CommitPeer \/ SwitchToConsensus \/ ElRestart \/ ElSync

ReadySpec == ReadyInit /\ [][ReadyNext]_readyVars

\* The endpoint is polled and its stages end; the nodes and the EL keep up.
ReadyFairness ==
  /\ WF_readyVars(RunReadinessChecks) /\ WF_readyVars(CheckLocalCometNotCatchingUp)
  /\ WF_readyVars(ProbeCommittedExecutionHead) /\ WF_readyVars(SendPeerRequest)
  /\ WF_readyVars(PeerReports) /\ WF_readyVars(CheckTrustedPeerLag)
  /\ WF_readyVars(Decide) /\ WF_readyVars(CommitLocal) /\ WF_readyVars(CommitPeer)
  /\ WF_readyVars(SwitchToConsensus) /\ WF_readyVars(ElSync)

FairReadySpec == ReadySpec /\ ReadyFairness

---------------------------------------------------------------------------
\* Properties.

\* Every variable has its type, heights are in their order, a request goes on
\* only with a committed head, and the report it gets is not older than itself.
ReadyTypeOK ==
  /\ tip \in 0..MaxTip /\ local \in 0..tip /\ peer \in 0..tip
  /\ catching \in BOOLEAN
  /\ elHead \in 0..HeadAt(local)
  /\ stage \in {"idle", "comet", "reth", "peer", "asked", "reported"}
  /\ head \in 0..HeadAt(local) /\ (stage # "idle" => local > 0)
  /\ reported \in 0..peer /\ arrived \in 0..peer
  /\ stage = "reported" => arrived <= reported
  /\ verdict \in {"none", "ok"} \cup Stages
  /\ faults \in 0..MaxFaults

\* An "ok" from the peer comparison places the node against the peer, although
\* head and report were read at different times, blocks were committed on both
\* sides since, and the head counts other blocks than the peer's height does:
\* the node is then not more than the limit behind the height the peer had when
\* the request arrived, and the head it vouches for is not more than the limit
\* ahead of the peer.  Against the peer's present height there is no bound.
OkIsNearPeer ==
  [][stage = "reported" /\ stage' = "idle" /\ verdict' = "ok" =>
       arrived - local <= MaxLag /\ head - peer <= MaxLag]_readyVars

\* A node that has caught up, with an EL that keeps up, answers "ok" to every
\* request in the end, when the chain pauses: no stage keeps it out.
SettledIsReady == <>[](verdict = "ok")
=============================================================================
