------------------------------ MODULE EvmNode -------------------------------
(***************************************************************************)
(* The life of an execution payload in nexusd: PrepareProposal asks the    *)
(* execution client (EL) for a payload, ProcessProposal validates it,      *)
(* CometBFT decides the block, and FinalizeBlock hands the payload to the  *)
(* EL and records it as the block state, which Commit persists             *)
(* (cosmos/x/evm/keeper).  Each node has its own EL (EngineApi) and its    *)
(* own persisted state; CometBFT is external and modelled as the sequence  *)
(* of decided blocks and the one proposal being voted on.                  *)
(*                                                                         *)
(* Faults: a node may crash at any point and replays the decided block it  *)
(* had not committed; an EL may restart, losing its builds and, if         *)
(* ElMayLag, its latest blocks; an Engine API call may fail, be executed   *)
(* with its answer lost, or be executed after the caller gave it up.     *)
(***************************************************************************)
EXTENDS EngineApi, Timestamps, Sequences, FiniteSets

CONSTANTS
  Nodes,                \* the validators
  Quorums,              \* sets of nodes with more than 2/3 of the power
  Config,               \* the timestamp configuration
  MaxBlobsPerBlock,     \* keeper.MaxBlobsPerBlock
  MaxUnknownPayload,    \* keeper.maxConsecutiveUnknownPayloadAttempts
  Blobs,                \* the blob counts a payload may have
  ForeignVerdicts,      \* EL verdicts on payloads of proposers outside Nodes
  ForeignShapes,        \* bound: how they relate to the block they name as parent
  ElMayLag,             \* whether an EL restart may lose executed blocks
  MaxHeight,            \* bound: CometBFT heights
  MaxTime,              \* bound: block times
  MaxFaults,            \* bound: crashes and EL restarts
  MaxLate,              \* bound: forkchoice updates given up at one time
  Probed,               \* the nodes whose readiness endpoint is polled
  Nil                   \* a value that is no block, proposal or job

ASSUME EvmNodeAssumption ==
  /\ IsFiniteSet(Nodes)
  /\ Quorums \subseteq (SUBSET Nodes) \ {{}}
  /\ Config \in TimestampConfig /\ ConfigAccepted(Config)
  /\ MaxBlobsPerBlock \in Nat /\ MaxUnknownPayload \in Nat \ {0}
  /\ Blobs \subseteq Nat
  /\ ForeignVerdicts \subseteq BOOLEAN
  /\ ForeignShapes \subseteq [above : Nat, later : Nat, wellFormed : BOOLEAN]
  /\ ElMayLag \in BOOLEAN
  /\ MaxHeight \in Nat /\ MaxTime \in Nat /\ MaxFaults \in Nat /\ MaxLate \in Nat
  /\ Probed \subseteq Nodes
  /\ Nil \notin Block /\ Nil \notin Job /\ Nil \notin Hash

VARIABLES
  decided,    \* the blocks CometBFT decided, by height
  proposal,   \* the proposal under vote, or Nil
  commit,     \* per node, the persisted height and block state
  fin,        \* per node, the progress of FinalizeBlock
  prep,       \* per node, the progress of PrepareProposal
  probe,      \* per node, the hash a readiness probe has read, or Nil
  el,         \* per node, its execution client
  late,       \* per node, forkchoice updates given up but not yet executed
  faults      \* crashes and restarts so far

vars == <<decided, proposal, commit, fin, prep, probe, el, late, faults>>

BlockState == [hash : Hash, height : Nat, timestamp : Nat]

\* Mutant: the parent's hash is recorded.
StateOfParent(p) ==
  [hash |-> p.parent, height |-> p.number, timestamp |-> p.timestamp]

\* The record ExecutionPayload stores once the payload is accepted.
StateOf(p) == [hash |-> p.hash, height |-> p.number, timestamp |-> p.timestamp]

CometBlock ==
  [time : Nat, app : BlockState, payload : Block \cup {Nil}]

Proposal ==
  [from : Nodes \cup {Nil}, time : Nat, app : BlockState,
   payload : Block \cup {Nil}, accepts : SUBSET Nodes, rejects : SUBSET Nodes]

ASSUME NilAssumption == Nil \notin Proposal

Preparation ==
  [pc : {"idle", "fcu", "get"}, time : Nat, job : Job \cup {Nil}, unknown : Nat]

NoPreparation == [pc |-> "idle", time |-> 0, job |-> Nil, unknown |-> 0]

FinalizePhases == {"idle", "send", "fcu", "applied", "failed"}

Init ==
  /\ decided = <<>>
  /\ proposal = Nil
  /\ commit = [n \in Nodes |-> [height |-> 0, state |-> StateOf(Genesis)]]
  /\ fin = [n \in Nodes |-> "idle"]
  /\ prep = [n \in Nodes |-> NoPreparation]
  /\ probe = [n \in Nodes |-> Nil]
  /\ el = [n \in Nodes |-> InitialClient]
  /\ late = [n \in Nodes |-> {}]
  /\ faults = 0

---------------------------------------------------------------------------
\* The time of the last decided block bounds the next proposal's from below.
LastTime == IF decided = <<>> THEN 0 ELSE decided[Len(decided)].time

AtTip(n) == commit[n].height = Len(decided)

\* ABCI calls of one node do not overlap.
Quiet(n) == fin[n] = "idle" /\ prep[n].pc = "idle"

\* The execution blocks that are decided or proposed.
Decided == {decided[h].payload : h \in DOMAIN decided} \ {Nil}
Blocks == {Genesis} \cup Decided \cup
            IF proposal = Nil THEN {} ELSE {proposal.payload} \ {Nil}

\* A hash that no block has.
Fresh(hash) == \A b \in Blocks : b.hash # hash

\* Mutant: the block number is not compared.
ValidateWithoutNumber(p, state, time, height) ==
  /\ p.wellFormed
  /\ p.parent = state.hash
  /\ p.timestamp > state.timestamp
  /\ p.timestamp = CalculateTimestamp(Config, time, height, state.timestamp)

\* The checks shared by ProcessProposal and FinalizeBlock.
ValidatePayload(p, state, time, height) ==
  /\ p.wellFormed
  /\ p.parent = state.hash
  /\ p.number = state.height + 1
  /\ p.timestamp > state.timestamp
  /\ p.timestamp = CalculateTimestamp(Config, time, height, state.timestamp)

---------------------------------------------------------------------------
\* PrepareProposal.

\* Hands the result to CometBFT, which drops it when the round is over.
Propose(n, payload) ==
  /\ prep' = [prep EXCEPT ![n] = NoPreparation]
  /\ proposal' =
       IF proposal = Nil /\ AtTip(n)
       THEN [from |-> n, time |-> prep[n].time, app |-> commit[n].state,
             payload |-> payload, accepts |-> {}, rejects |-> {}]
       ELSE proposal

\* Mutant: the height of the last block instead of the next one.
PrepareTimestampOfLast(n) ==
  CalculateTimestamp(Config, prep[n].time, commit[n].height,
                     commit[n].state.timestamp)

PrepareTimestamp(n) ==
  CalculateTimestamp(Config, prep[n].time, commit[n].height + 1,
                     commit[n].state.timestamp)

\* CometBFT asks n for a proposal; the first block is empty.
PrepareStart(n) ==
  /\ Quiet(n) /\ AtTip(n) /\ proposal = Nil /\ Len(decided) < MaxHeight
  /\ \E time \in LastTime..MaxTime :
       IF commit[n].height = 0
       THEN /\ proposal' = [from |-> n, time |-> time, app |-> commit[n].state,
                            payload |-> Nil, accepts |-> {}, rejects |-> {}]
            /\ UNCHANGED prep
       ELSE /\ prep' = [prep EXCEPT ![n] = [NoPreparation EXCEPT !.pc = "fcu", !.time = time]]
            /\ UNCHANGED proposal
  /\ UNCHANGED <<decided, commit, fin, probe, el, late, faults>>

\* The error paths: the deadline, a payload too large, and the two answers
\* that are not retried.  baseapp proposes the mempool's transactions instead.
PrepareFail(n) ==
  /\ prep[n].pc # "idle"
  /\ Propose(n, Nil)
  /\ UNCHANGED <<decided, commit, fin, probe, el, late, faults>>

\* forkchoiceUpdated(state.Hash, attributes) is answered.
PrepareForkchoice(n) ==
  LET hash == commit[n].state.hash
      timestamp == PrepareTimestamp(n)
      job == JobOf(el[n], hash, timestamp)
      updated == Forkchoice(el[n], hash)
  IN  /\ prep[n].pc = "fcu"
      /\ \/ /\ StartsJob(el[n], hash, timestamp)
            /\ el' = [el EXCEPT ![n] = [updated EXCEPT !.jobs = @ \cup {job}]]
            /\ \/ prep' = [prep EXCEPT ![n] = [@ EXCEPT !.pc = "get", !.job = job]]
               \/ UNCHANGED prep                   \* the answer is lost
            /\ UNCHANGED proposal
         \/ /\ ForkchoiceStatus(el[n], hash) # "VALID"
            /\ el' = [el EXCEPT ![n] = updated]
            /\ Propose(n, Nil)
         \/ /\ ForkchoiceStatus(el[n], hash) = "VALID"
            /\ updated.head.hash # hash            \* no payload id
            /\ UNCHANGED el
            /\ Propose(n, Nil)
         \/ /\ ForkchoiceStatus(el[n], hash) = "VALID"
            /\ updated.head.hash = hash
            /\ ~StartsJob(el[n], hash, timestamp)  \* the attributes are refused
            /\ el' = [el EXCEPT ![n] = updated]
            /\ UNCHANGED <<prep, proposal>>
      /\ UNCHANGED <<decided, commit, fin, probe, late, faults>>

\* Mutant: the payload is made the head as soon as it is built.
PrepareAdoptsPayload(n) ==
  LET job == prep[n].job
  IN  /\ prep[n].pc = "get" /\ job \in el[n].jobs
      /\ \E hash \in Hash, blobs \in Blobs :
           LET p == [hash |-> hash, parent |-> job.parent, number |-> job.number,
                     timestamp |-> job.timestamp, blobs |-> blobs,
                     wellFormed |-> TRUE, ok |-> TRUE]
           IN  /\ Fresh(hash)
               /\ Propose(n, p)
               /\ el' = [el EXCEPT ![n] = Forkchoice(NewPayload(@, p), hash)]
      /\ UNCHANGED <<decided, commit, fin, probe, late, faults>>

\* getPayload returns the block the EL built.
PrepareGetPayload(n) ==
  LET job == prep[n].job
  IN  /\ prep[n].pc = "get" /\ job \in el[n].jobs
      /\ \E hash \in Hash, blobs \in Blobs :
           LET p == [hash |-> hash, parent |-> job.parent, number |-> job.number,
                     timestamp |-> job.timestamp, blobs |-> blobs,
                     wellFormed |-> TRUE, ok |-> TRUE]
           IN  /\ Fresh(hash)
               /\ Propose(n, p)
      /\ UNCHANGED <<decided, commit, fin, probe, el, late, faults>>

\* getPayload fails: an unknown payload is retried a bounded number of times,
\* and any other error resets the count.
PrepareGetError(n) ==
  /\ prep[n].pc = "get"
  /\ \/ /\ prep[n].job \notin el[n].jobs
        /\ IF prep[n].unknown + 1 >= MaxUnknownPayload
           THEN Propose(n, Nil)
           ELSE /\ prep' = [prep EXCEPT ![n] = [@ EXCEPT !.unknown = prep[n].unknown + 1]]
                /\ UNCHANGED proposal
     \/ /\ prep' = [prep EXCEPT ![n] = [@ EXCEPT !.unknown = 0]]
        /\ UNCHANGED proposal
  /\ UNCHANGED <<decided, commit, fin, probe, el, late, faults>>

---------------------------------------------------------------------------
\* CometBFT and ProcessProposal.

\* Payloads of proposers outside Nodes, in any relation to the chain; one with
\* an invalid parent is invalid.
ForeignPayloads ==
  {[hash |-> hash, parent |-> parent.hash, number |-> parent.number + shape.above,
    timestamp |-> parent.timestamp + shape.later, blobs |-> blobs,
    wellFormed |-> shape.wellFormed, ok |-> ok /\ parent.ok] :
     hash \in {h \in Hash : Fresh(h)}, parent \in Blocks, shape \in ForeignShapes,
     blobs \in Blobs, ok \in ForeignVerdicts}

ForeignProposal ==
  /\ proposal = Nil /\ Len(decided) < MaxHeight
  /\ \E n \in Nodes, time \in LastTime..MaxTime, p \in ForeignPayloads :
       /\ AtTip(n)
       /\ proposal' = [from |-> Nil, time |-> time, app |-> commit[n].state,
                       payload |-> p, accepts |-> {}, rejects |-> {}]
  /\ UNCHANGED <<decided, commit, fin, prep, probe, el, late, faults>>

Accepts(n) ==
  IF Len(decided) = 0
  THEN proposal.payload = Nil
  ELSE /\ proposal.payload # Nil
       /\ ValidatePayload(proposal.payload, commit[n].state, proposal.time,
                          Len(decided) + 1)

\* CometBFT shows the proposal to n when its header carries n's own app hash.
ProcessProposal(n) ==
  /\ Quiet(n) /\ AtTip(n) /\ proposal # Nil
  /\ n \notin proposal.accepts \cup proposal.rejects
  /\ proposal.app = commit[n].state
  /\ proposal' = IF Accepts(n)
                 THEN [proposal EXCEPT !.accepts = @ \cup {n}]
                 ELSE [proposal EXCEPT !.rejects = @ \cup {n}]
  /\ UNCHANGED <<decided, commit, fin, prep, probe, el, late, faults>>

Decide ==
  /\ proposal # Nil
  /\ \E Q \in Quorums : Q \subseteq proposal.accepts
  /\ decided' = Append(decided, [time |-> proposal.time, app |-> proposal.app,
                                 payload |-> proposal.payload])
  /\ proposal' = Nil
  /\ UNCHANGED <<commit, fin, prep, probe, el, late, faults>>

NextRound ==
  /\ proposal # Nil
  /\ proposal' = Nil
  /\ UNCHANGED <<decided, commit, fin, prep, probe, el, late, faults>>

---------------------------------------------------------------------------
\* FinalizeBlock: ExecutionPayload, then Commit.

Current(n) == decided[commit[n].height + 1]

\* CometBFT refuses to apply a block whose app hash is not n's own.
FinalizeStart(n) ==
  /\ Quiet(n) /\ ~AtTip(n)
  /\ Current(n).app = commit[n].state
  /\ fin' = [fin EXCEPT ![n] =
               IF /\ Current(n).payload # Nil
                  /\ ValidatePayload(Current(n).payload, commit[n].state,
                                     Current(n).time, commit[n].height + 1)
               THEN "send" ELSE "failed"]
  /\ UNCHANGED <<decided, proposal, commit, prep, probe, el, late, faults>>

\* Mutant: the limit itself is refused.
BlobsBelowLimit(p) == p.blobs < MaxBlobsPerBlock

\* Too many blobs, or a transaction that does not decode, is an error of
\* sendPayload, retried like any other: a count above the limit stands for both.
BlobsAllowed(p) == p.blobs <= MaxBlobsPerBlock

\* Mutant: only VALID is a success.
SentIfValid(status) == status = "VALID"

Sent(status) == status \in {"VALID", "SYNCING"}

\* newPayload is answered.
SendPayload(n) ==
  LET p == Current(n).payload
  IN  /\ fin[n] = "send"
      /\ BlobsAllowed(p)
      /\ el' = [el EXCEPT ![n] = NewPayload(@, p)]
      /\ \E status \in NewPayloadStatuses(el[n], p) :
           fin' = [fin EXCEPT ![n] = IF Sent(status) THEN "fcu" ELSE "failed"]
      /\ UNCHANGED <<decided, proposal, commit, prep, probe, late, faults>>

\* Mutant: the head stays where it was.
UpdateForkchoiceSkipped(n) ==
  /\ fin[n] = "fcu"
  /\ fin' = [fin EXCEPT ![n] = "applied"]
  /\ UNCHANGED <<decided, proposal, commit, prep, probe, el, late, faults>>

\* forkchoiceUpdated(payload hash); only INVALID fails the transaction.
UpdateForkchoice(n) ==
  LET p == Current(n).payload
  IN  /\ fin[n] = "fcu"
      /\ \E status \in PayloadForkchoiceStatuses(el[n], p) :
           IF status = "INVALID"
           THEN /\ fin' = [fin EXCEPT ![n] = "failed"]
                /\ UNCHANGED el
           ELSE /\ fin' = [fin EXCEPT ![n] = "applied"]
                /\ el' = [el EXCEPT ![n] = Forkchoice(@, p.hash)]
      /\ UNCHANGED <<decided, proposal, commit, prep, probe, late, faults>>

\* Mutant: the block state is never stored.
StateKept(n) == commit[n].state

\* Mutant: the block state is stored whatever the outcome.
StateAlwaysStored(n) ==
  IF Current(n).payload # Nil THEN StateOf(Current(n).payload) ELSE commit[n].state

\* A failed transaction leaves the block state as it was.
NextState(n) ==
  IF fin[n] = "applied" THEN StateOf(Current(n).payload) ELSE commit[n].state

Commit(n) ==
  /\ fin[n] \in {"applied", "failed"}
  /\ commit' = [commit EXCEPT ![n] =
                  [height |-> @.height + 1, state |-> NextState(n)]]
  /\ fin' = [fin EXCEPT ![n] = "idle"]
  /\ UNCHANGED <<decided, proposal, prep, probe, el, late, faults>>

---------------------------------------------------------------------------
\* The readiness probe reads the committed head, and later sends it.

ProbeStart(n) ==
  /\ n \in Probed /\ probe[n] = Nil
  /\ probe' = [probe EXCEPT ![n] = commit[n].state.hash]
  /\ UNCHANGED <<decided, proposal, commit, fin, prep, el, late, faults>>

ProbeForkchoice(n) ==
  /\ probe[n] # Nil
  /\ el' = [el EXCEPT ![n] = Forkchoice(@, probe[n])]
  /\ probe' = [probe EXCEPT ![n] = Nil]
  /\ UNCHANGED <<decided, proposal, commit, fin, prep, late, faults>>

---------------------------------------------------------------------------
\* Faults.

\* A call of one of the retry loops fails without effect.
Retry(n) ==
  /\ fin[n] \in {"send", "fcu"} \/ prep[n].pc # "idle"
  /\ UNCHANGED vars

\* An Engine API call is executed and its answer is lost.
LostAnswer(n) ==
  /\ \/ /\ fin[n] = "send"
        /\ BlobsAllowed(Current(n).payload)
        /\ el' = [el EXCEPT ![n] = NewPayload(@, Current(n).payload)]
     \/ /\ fin[n] = "fcu"
        /\ PayloadForkchoiceStatuses(el[n], Current(n).payload) # {"INVALID"}
        /\ el' = [el EXCEPT ![n] = Forkchoice(@, Current(n).payload.hash)]
  /\ UNCHANGED <<decided, proposal, commit, fin, prep, probe, late, faults>>

\* A forkchoice update times out and stays in the EL's queue: FinalizeBlock
\* and PrepareProposal call again, the probe does not.
Postpone(n) ==
  /\ Cardinality(late[n]) < MaxLate
  /\ \/ /\ fin[n] = "fcu"
        /\ PayloadForkchoiceStatuses(el[n], Current(n).payload) # {"INVALID"}
        /\ late' = [late EXCEPT ![n] = @ \cup {Current(n).payload.hash}]
        /\ UNCHANGED probe
     \/ /\ prep[n].pc = "fcu"
        /\ late' = [late EXCEPT ![n] = @ \cup {commit[n].state.hash}]
        /\ UNCHANGED probe
     \/ /\ probe[n] # Nil
        /\ late' = [late EXCEPT ![n] = @ \cup {probe[n]}]
        /\ probe' = [probe EXCEPT ![n] = Nil]
  /\ UNCHANGED <<decided, proposal, commit, fin, prep, el, faults>>

ElLate(n) ==
  /\ \E hash \in late[n] :
       /\ el' = [el EXCEPT ![n] = Forkchoice(@, hash)]
       /\ late' = [late EXCEPT ![n] = @ \ {hash}]
  /\ UNCHANGED <<decided, proposal, commit, fin, prep, probe, faults>>

\* The EL fetches the blocks up to its target from its peers.
ElSync(n) ==
  /\ \E b \in Decided :
       /\ b.hash = el[n].target /\ b.ok
       /\ el' = [el EXCEPT ![n] = [@ EXCEPT
            !.known = el[n].known \cup {c \in Decided : c.ok /\ c.number <= b.number},
            !.head = b, !.target = NoHash]]
  /\ UNCHANGED <<decided, proposal, commit, fin, prep, probe, late, faults>>

ElRestart(n) ==
  /\ faults < MaxFaults
  /\ \E head \in el[n].known :
       /\ ElMayLag \/ \A b \in el[n].known : b.number <= head.number
       /\ el' = [el EXCEPT ![n] = Restarted(@, head)]
  /\ late' = [late EXCEPT ![n] = {}]
  /\ faults' = faults + 1
  /\ UNCHANGED <<decided, proposal, commit, fin, prep, probe>>

\* nexusd stops and starts again from what it had committed.
Crash(n) ==
  /\ faults < MaxFaults
  /\ fin' = [fin EXCEPT ![n] = "idle"]
  /\ prep' = [prep EXCEPT ![n] = NoPreparation]
  /\ probe' = [probe EXCEPT ![n] = Nil]
  /\ faults' = faults + 1
  /\ UNCHANGED <<decided, proposal, commit, el, late>>

---------------------------------------------------------------------------
NodeStep(n) ==
  \/ PrepareStart(n) \/ PrepareFail(n) \/ PrepareForkchoice(n)
  \/ PrepareGetPayload(n) \/ PrepareGetError(n)
  \/ ProcessProposal(n)
  \/ FinalizeStart(n) \/ SendPayload(n) \/ UpdateForkchoice(n) \/ Commit(n)
  \/ ProbeStart(n) \/ ProbeForkchoice(n)
  \/ Retry(n) \/ LostAnswer(n) \/ Postpone(n) \/ ElLate(n) \/ ElSync(n) \/ ElRestart(n)
  \/ Crash(n)

\* The bounds are used up and nothing is left to do; a node whose state is not
\* the one the next block was decided in stays where it is.
BoundReached ==
  /\ Len(decided) = MaxHeight /\ proposal = Nil
  /\ \A n \in Nodes : Quiet(n) /\ (~AtTip(n) => Current(n).app # commit[n].state)
  /\ UNCHANGED vars

Next ==
  \/ BoundReached
  \/ ForeignProposal \/ Decide \/ NextRound
  \/ \E n \in Nodes : NodeStep(n)

Spec == Init /\ [][Next]_vars

\* The retry loops go on until the EL answers, consensus keeps calling the
\* application, and the deadline of PrepareProposal passes.
Fairness ==
  \A n \in Nodes :
    /\ WF_vars(FinalizeStart(n)) /\ WF_vars(SendPayload(n))
    /\ WF_vars(UpdateForkchoice(n)) /\ WF_vars(Commit(n))
    /\ WF_vars(PrepareFail(n))

FairSpec == Spec /\ Fairness

\* Consensus is synchronous often enough for a round to complete: every stage
\* of a proposal that is possible again and again is taken, and an EL that
\* has a target to synchronise to reaches it.
PrepareObtainsJob(n) == PrepareForkchoice(n) /\ prep'[n].pc = "get"
AcceptProposal(n) == ProcessProposal(n) /\ n \in proposal'.accepts

Synchrony ==
  /\ WF_vars(NextRound) /\ SF_vars(Decide)
  /\ \A n \in Nodes :
       /\ WF_vars(PrepareStart(n))
       /\ SF_vars(PrepareForkchoice(n)) /\ SF_vars(PrepareObtainsJob(n))
       /\ SF_vars(PrepareGetPayload(n)) /\ SF_vars(AcceptProposal(n))
       /\ WF_vars(ElSync(n))

LiveSpec == FairSpec /\ Synchrony

---------------------------------------------------------------------------
\* Properties.

\* Every variable of the payload life cycle has its type.
TypeOK ==
  /\ decided \in Seq(CometBlock)
  /\ proposal \in Proposal \cup {Nil}
  /\ commit \in [Nodes -> [height : Nat, state : BlockState]]
  /\ fin \in [Nodes -> FinalizePhases]
  /\ prep \in [Nodes -> Preparation]
  /\ probe \in [Nodes -> Hash \cup {Nil}]
  /\ el \in [Nodes -> ExecutionClient]
  /\ late \in [Nodes -> SUBSET Hash]
  /\ faults \in Nat

\* Nodes that have committed the same CometBFT height hold the same block
\* state, whatever happened to their execution clients in between, unless the
\* payload of that very height is invalid.  Then a node whose client could tell
\* kept the state before it and one whose client answered SYNCING stored it;
\* nodes that go on past that height agree again.
Agreement ==
  \A m, n \in Nodes :
    commit[m].height = commit[n].height =>
      \/ commit[m].state = commit[n].state
      \/ LET block == decided[commit[n].height]
         IN  /\ block.payload # Nil /\ ~block.payload.ok
             /\ {commit[m].state, commit[n].state} = {block.app, StateOf(block.payload)}

\* FinalizeBlock moves the EL before Commit persists the block state.  The EL
\* is ahead of the persisted state only by the payload of the decided block
\* that the node has yet to commit, so that a replay finds a head it can use
\* and PrepareProposal never meets a head beyond its parent.
AheadOnlyByReplay ==
  \A n \in Nodes :
    el[n].head.number > commit[n].state.height =>
      ~AtTip(n) /\ el[n].head = Current(n).payload

\* No probe, late forkchoice update or restart leaves an EL that has the
\* committed block with a head behind it.
HeadNotBehindCommit ==
  \A n \in Nodes :
    Knows(el[n], commit[n].state.hash) =>
      el[n].head.number >= commit[n].state.height

\* The head of an EL is a block CometBFT decided and the EL found valid: a
\* payload that was only built or proposed never becomes a head.
HeadIsDecided ==
  \A n \in Nodes :
    \/ el[n].head = Genesis
    \/ \E h \in DOMAIN decided : el[n].head = decided[h].payload /\ el[n].head.ok

\* A payload that PrepareProposal obtained is accepted by ProcessProposal of
\* every node at that height: both compute the same parent, number and time.
PreparedIsAccepted ==
  proposal # Nil /\ proposal.from # Nil /\ proposal.payload # Nil =>
    proposal.rejects = {}

\* FinalizeBlock returns and the block is committed, by every node, whatever
\* finite number of crashes and restarts and however the calls fail meanwhile.
DecidedIsCommitted ==
  \A n \in Nodes, h \in 1..MaxHeight :
    (h <= Len(decided)) ~> (h <= commit[n].height)

\* retry gives up or succeeds ("until it returns true, or the context is done,
\* or the total allocation of time exceeds requestTimeout"), so a payload that
\* FinalizeBlock sends to an EL that answers does not stay in sendPayload.
SendPayloadReturns ==
  \A n \in Nodes : fin[n] = "send" ~> fin[n] # "send"

\* What PrepareProposal asks the EL to build is later than the committed
\* block, so that the EL does not refuse the attributes, except at the first
\* height of the timestamp window, whose branch of CalculateTimestamp has no
\* fallback to previousTimestamp+1.
PreparedTimeAdvances ==
  \A n \in Nodes :
    prep[n].pc = "fcu" =>
      \/ PrepareTimestamp(n) > commit[n].state.timestamp
      \/ Config.window /\ commit[n].height + 1 = Config.start

\* Whatever the crashes, restarts and lost calls left behind, the chain goes
\* on: PrepareProposal finds its way back to an EL that builds on the
\* committed block, and the payload is accepted.
ChainGrows == \A h \in 1..MaxHeight : <>(Len(decided) >= h)

\* The decided payloads as blocks of ExecutionChain.
TreeBlock(p) == [state |-> StateOf(p), parent |-> p.parent, valid |-> p.ok]
TreeBar == {TreeBlock(p) : p \in {Genesis} \cup Decided}

Chain == INSTANCE ExecutionChain WITH
  GenesisState <- StateOf(Genesis),
  NoParent <- NoHash,
  tree <- TreeBar,
  at <- [n \in Nodes |-> commit[n].state]

\* The valid payloads that CometBFT decides lie on one path of execution
\* blocks, each the successor of its parent and later than it, and every node
\* walks from a block to a child of it: what validatePayload is there to
\* ensure, whatever invalid payloads are decided in between.
OneChain == Chain!ChainSpec
=============================================================================
