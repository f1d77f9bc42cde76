# Formal model of nexus-node

This directory holds TLA+ specifications of the node in `src/`, the TLC
configurations that check them on small instances, and TLAPS proofs of the
central safety properties. `PROJECT.json` lists the components, the runs, the
mutants, the source lines behind every definition, the hazards, the findings
and the theorems.

## The system

nexus-node is an EVM chain in two processes. `nexusd` (Go, `src/cosmos`) is a
Cosmos SDK application under CometBFT: the consensus layer, CL. `nexus-reth`
(Rust, `src/reth`) is the execution layer, EL. The CL drives the EL through the
Engine API.

| Part | Source | Module |
|---|---|---|
| Execution payload life cycle: PrepareProposal, ProcessProposal, FinalizeBlock, Commit | `cosmos/x/evm/keeper` | `EvmNode` |
| Payload timestamps and their window | `x/evm/keeper/keeper.go` | `Timestamps` |
| The EL as the CL sees it | `lib/engine.go` (client), reth (external) | `EngineApi` |
| What the life cycle promises: one chain of execution blocks | abstract | `ExecutionChain` |
| Proposal handlers, allowlist, ante handler, minimum gas price | `app/proposal.go`, `app/ante.go`, `x/globalfee` | `Proposal` |
| Block hooks on the validator set | `app/block_hooks.go`, `app/upgrades.go`, `app/app.go` | `StakingHooks` |
| Upgrade and halt alerts | `app/upgrade_logging.go`, `halt_logging.go`, `webhook_notifier.go` | `UpgradeAlerts` |
| Readiness endpoint | `app/rpc_readiness.go`, `x/evm/keeper/readiness.go` | `Readiness`, and its Engine call in `EvmNode` |
| Engine API fork selection | `app/chain.go`, `app/types/chain.go`, `reth/evm/src` | `ForkRouting` |
| Genesis export, for height zero and at a height, and import | `app/export.go`, `x/evm/keeper/genesis.go` | `Relaunch`, on top of `StakingHooks` |
| Generated protobuf codec of the modules | `x/evm/types/*.pb.go`, `x/globalfee/types/*.pb.go` | `WireMessages` (the messages), `WireCodec` |
| The command `multi-node` | `cmd/nexusd/cmd/testnet_multi_node.go` | `Testnet` |

## The models

### EvmNode, with EngineApi and Timestamps

A node has a persisted height and block state (`commit`), the progress of
FinalizeBlock (`fin`) and of PrepareProposal (`prep`), a readiness probe
(`probe`) and an execution client (`el`). CometBFT is the sequence of `decided`
blocks and the one `proposal` under vote. The handlers are cut where they call
the EL, because other steps happen there:

* PrepareProposal: `PrepareStart`, `PrepareForkchoice`, `PrepareGetPayload`,
  with `PrepareGetError` and `PrepareFail` for the error paths. A
  PrepareProposal that fails makes baseapp propose without a payload.
* ProcessProposal: one action, it calls no one.
* FinalizeBlock: `FinalizeStart` validates, `SendPayload` is newPayload,
  `UpdateForkchoice` is forkchoiceUpdated, `Commit` persists. A failed
  transaction leaves the block state as it was and the block is committed.
* Faults: `Crash` (replay of the decided block), `ElRestart`, `Retry` (a call
  without effect), `LostAnswer` (a call with effect), `Postpone` and `ElLate` (a
  forkchoice update that is executed after it was given up).

The block state stands for the app hash: CometBFT shows a proposal, and gives a
block, only to a node whose block state is the one in its header.

A payload is its hash, parent, number, timestamp, blob count, whether it is well
formed (encoding, authority, empty fields) and whether it is valid. An EL that
has the parent says VALID or INVALID; one that has not says SYNCING, or INVALID
where it can tell without the parent. SYNCING counts as success, as in the code.
ACCEPTED, which `lib/engine.go:163` knows as well, is not answered by an EL that
is asked to make the payload its head next, and is left out. A payload that
sendPayload cannot decode is retried like one with too many blobs, which stands
for both; its third error, an empty app hash, does not occur, as the first block
has no payload and every later header has an app hash. Payloads of other proposers have the
shapes of `ForeignShapes`, on any decided parent: a successor, one a block too high
and one that is malformed.
The Engine API leaves it to the client whether an update to an ancestor of the
head is skipped (`AncestorFcu`); runs use both.

### ExecutionChain

The abstract specification: a tree of blocks grows by a block with a new hash,
one higher and later than its parent, and only from a parent that every other
valid block is below; each node steps from its block to a child of it. So the valid
blocks lie on one path, and an invalid block has no valid block beside it that is
left behind. `OneChain` says that `EvmNode` implements it, with the decided
payloads as the tree.

### Proposal

`CheckTx` admits transactions to the mempool, `PrepareProposal` filters them,
`ProcessProposal` checks a block, `FinalizeBlock` runs the ante handler over it.
A transaction is what the code looks at: message kinds, whether it is bare as a
payload's must be, size, gas, fee. CometBFT's `max_tx_bytes` is taken to keep
submitted transactions within `MaxTxSize`. PrepareProposal is handed the whole
mempool; CometBFT hands over a prefix of it that fits a block, so that
`PermittedIsIncluded` is about what the handler leaves out and not about what
CometBFT never shows it. An error of the EVM keeper, upon which baseapp proposes
what CometBFT gave it, belongs to `EvmNode`.

### StakingHooks

A block slashes and jails, has the staking module update the validator set, and
then performs the hooks of its height, in the order of `EndBlocker`. The module
keeps validator records, the power index, the two pools and signing information
as far as the hooks rely on them. A hook that returns an error keeps what it
wrote; a panic halts. The slashing module's Unjail is the external part of the
unjail hook: it refuses a validator without a self-delegation, and divides by the
validator's shares before it looks at anything else (`UnjailPanics`).

### UpgradeAlerts

Each block runs PreBlocker in two steps, the alert (`LogHaltIfTriggered`) and
what follows it (`PreBlocker`, with x/upgrade), then transactions that schedule
or cancel a plan, then commits. A webhook post is a separate actor with a number
of attempts; the post of a halt keeps PreBlocker waiting.

### Readiness

The request is cut at its calls, and the call to the trusted peer is cut again
where the peer answers: the height it reports is that of the moment it answers,
and the comparison comes later. Blocks are decided and committed in between, by
this node and by the peer. `Drift` counts the blocks without a payload, by which
the execution height is below the CometBFT height.

### ForkRouting

Both sides load and validate their own fork times and are restarted one at a
time, with other files, while payloads are fetched and finalized. A CL without
`NEXUS_CONFIG_PATH` has the empty schedule; with a path to a file that is missing,
cannot be read or does not decode, it panics and stays down.

### Relaunch

`Relaunch` extends `StakingHooks` by the life of a chain beyond one genesis:
blocks with hooks, `Export` or `ExportForZeroHeight` between two blocks,
`InitChain` of the new chain, and its first blocks. A block is `Begin` (with
ProcessProposal's rule for the last commit, and the payload), `UpdateValidators`
and `PerformHooks`. An export for height zero withdraws rewards, jails validators
outside the allowed list, resets heights and updates the validator set, in this
order; an error there is a panic. The books of the distribution module are one
amount of rewards that a withdrawal leaves behind. What InitChain wants of a
document is the SDK's and CometBFT's, external, and written as `GenesisAccepted`.

### WireCodec

A table in `WireMessages` gives the fields of each of the thirteen messages as
the three generated functions have them: tag and order for Marshal, size for
Size, number and wire type for Unmarshal. `WireCodec` is the code that is the
same for all: varints, the backward writing of MarshalToSizedBuffer, the loop of
Unmarshal with its early returns in order (one step per turn, one frame per
embedded message), and skip. Integers are two's complement of `Width` bits. The
reference is a separate definition of the wire format (`Wellformed`, `Meaning`)
that knows no index and no overflow; like the code, and unlike other decoders,
it cuts field numbers to their width and lets a group end with any number.

### Testnet

One step per write of the command: keys, the genesis transaction, the genesis
file, the copies, the collection. The command is run again and again into one
directory, with other arguments, and `Disturb` ends a run at any write, with part
of the file or none of it. An account is known by the run that made its key, as
the keyring entry is replaced while the node key is kept. An interruption
while keys are written may leave a torn key, upon which the next run removes the
output directory and fails, or a validator key without its state file, upon which
every later run exits.

## What the runs check

Passing runs; the number of distinct states is in parentheses.

* `one` (493,087): one node, five heights: before the timestamp window, its first
  and its second height, and after it; a crash or restart, a late forkchoice
  update, a polled probe. The EL is
  ahead of the persisted state only by the block being replayed
  (`AheadOnlyByReplay`), never behind it when it has the block
  (`HeadNotBehindCommit`), always at a decided block (`HeadIsDecided`); what
  PrepareProposal obtained is accepted (`PreparedIsAccepted`), and its timestamp
  is later than the last one, except at the window's first height
  (`PreparedTimeAdvances`).
* `two` (384,318): two nodes, of which one may fall behind, payloads of other
  proposers, valid or not, and clients that lose blocks. Nodes at one height hold
  the same block state, with one exception that the code really has: when the
  payload decided there is invalid, a node whose EL could tell keeps the state
  before it, and a node whose EL answered SYNCING stores the state after it.
  `Agreement` says that there is no other, and that nodes which go on past that
  height agree again: the next block has the app hash of one side, and the other
  side stays behind. `OneChain` is the refinement, with such partings in it.
* `live` (11,152): `DecidedIsCommitted` and `ChainGrows` with a restart, a late
  update and the probe, up to the first height of a window whose times are later
  than those before it. (Where they are not, PrepareProposal is refused at this
  height; see `PreparedTimeAdvances`.) Payloads have blobs up to the limit.
* `alerts` (103,066): two plan names and two infos, two schedules, two restarts,
  old and new binary, a skipped height: `PendingIsAnnounced`,
  `AnnouncedSparingly`, `HaltIsAnnounced`, `HaltAlertNotDropped`, and that a post
  ends (`NotifyEnds`).
* `proposal` (67,660): five kinds of submitted transactions, all foreign blocks
  of up to two transactions and some of three: `OwnIsAccepted`,
  `OnePayloadExecuted`, `FeesArePaid`, `PermittedIsIncluded`.
* `readiness` (171,238): `OkIsNearPeer`, which compares an ok with the height the
  peer had when the request arrived and with its height at the answer, and
  `SettledIsReady` with as many payload-less blocks as the limit on the distance
  allows. There is no bound against blocks the peer commits during the request.
* `forks` (27,102): all schedules over four times on both sides, two restarts:
  `RefusedOnlyIfMisaligned`, `FetchedIsSendable`, `ResumesWhenAligned`.
* `relaunch` (610,129): all hooks, alone and followed by a removal that burns,
  from funded and underfunded pools, then an export, the import and two blocks. In both
  chains: `PowerIndexMatches`; no step adds to a shortfall and a reconciliation
  mints exactly what is short (`ReconcileRepairs`); with funded pools only a
  removal of a validator that has no record or no signing information, or a hook
  that unjails or adds again one that a removal has emptied, stops the chain
  (`OnlyRemovalHalts`). Of the export: when it panics (`ExportPanicsOnlyFor`), when
  its document is refused (`ExportIsImportable`), who takes a height of the old
  chain along after the heights were reset (`StampedOnlyIfRemoved`), and that the
  new chain builds on the head of the execution chain (`HeadSurvives`).
* `wire` (282,143): decoding never panics (`NoPanic`), accepts exactly what the
  format allows and reads it as the format says (`DecodesTheFormat`), consumes at
  least two bytes in every turn of its loops (`DecodingEnds`), and what is
  marshalled again decodes to the same message (`RoundTrip`).
* `testnet` (402,238): three runs of two or three validators (and of none), with
  stakes that do not parse, are nothing, exceed the balance or are negative:
  `SuccessIsLaunchable`, `StatesDoNotDiffer`, `FailsOnlyFor`, `PortsDistinct`. A
  success says what is in the genesis, not that the stakes give the chain any
  power. The profiler's port, which all nodes have from the default configuration,
  is not among the ports.

The type invariants are checked in `one` and `relaunch`, and that of `Testnet` is
part of the invariant its proofs rest on; in the other modules `TypeOK` describes
the variables.

Each property of a passing run has a mutant: a plausible error in the code,
written before the definition it replaces, under which TLC finds the property
violated.

Runs that end in a violation, each of a sentence of the repository that the code
does not keep (the sentences are quoted under `findings`):

* `blobs`: retry is not bounded by `requestTimeout`, so a payload with too many
  blobs keeps FinalizeBlock from returning.
* `first_block`: a chain that starts from an export at a height rejects every
  proposal of its first block. ProcessProposal asks for more than two thirds of
  the power in the last commit of every block but that of height 1, and the last
  commit of the first block of a chain is empty.

Other sentences that the models show the code not to keep, without a run of
their own, because each can be seen in one handler:

* `cosmos/CODEBASE_OVERVIEW.md:24`, PrepareProposal "retries until the following
  path succeeds or times out": a forkchoice update answered SYNCING ends it at
  once (`PrepareForkchoice`).
* `cosmos/README.md:75`, the unix offset is "applied outside that window": it is
  not applied before it (`CalculateTimestamp`).
* `cosmos/app/upgrades.go:78`, the unjail hook mints "after unjailing": it mints
  before, and keeps the tokens when unjailing fails (`ExecuteUnjailing`).
* `cosmos/app/upgrades.go:144`, the add-validator hook "ensures a validator exists
  in the active set", "unjailing when applicable": a validator that has a record is
  left as it is, jailed or not (`ExecuteAddValidator`).
* `cosmos/UPGRADE_ALERTING.md:84`, the halt alert "fires exactly once per halt": a
  restart with the old binary fires it again (`LogHaltIfTriggered`).
* `cosmos/CODEBASE_OVERVIEW.md:27`, a block "contains a single cosmos
  transaction": permitted transactions come before the payload.
* `cosmos/app/types/chain.go:28`, "co-activation at the same timestamp is valid":
  the EL refuses `osaka_time` equal to `prague_time`.
* `cosmos/x/evm/keeper/keeper.go:140`, "Falls back to previousTimestamp+1 if the
  result is not strictly greater": the branch of the window has no fallback
  (`CalculateTimestamp`; the exception in `PreparedTimeAdvances`).
* `cosmos/app/upgrades.go:423`, "Reconciliation runs before
  ModuleManager.EndBlock so the staking module never sees a deficit": the hooks
  run after it (`PerformHooks`, after `UpdateValidators`).
* `cosmos/app/block_hooks.go:167`, "Delegations are handled by the normal unbonding
  process after jailing": after a removal that burns or sends the tokens they
  stay, with shares of nothing (`Removed`). A later hook that unjails the
  validator or adds it again halts the chain, and an export for height zero panics.
* `cosmos/app/export.go:166`, "never called as BeforeDelegationCreated always
  returns nil": it divides by the shares of such a validator (`RewardsPanic`).
  Likewise, a list of allowed addresses that leaves out a validator that is not
  jailed makes the export panic, as the validator stays in the power index.
* `cosmos/cmd/nexusd/cmd/testnet_multi_node.go:143`, the help text has successive
  addresses and port 46656: all nodes have one address, and ports count down from
  26656 (`Ports`).

### Bounds

Every bound is a constant named `Max...`. Three heights with a payload-less first
one give two execution blocks, which is what it takes to have a committed block,
its predecessor and a block in progress; `one` adds two heights to pass both
borders of the window, with a height in it that is not the first. `two` adds one,
so that a block can be built on either side of an invalid one. One node with the
quorum and one without let a node be behind, ahead and level. One crash or restart
meets every step of a handler; repeated ones are left to the proofs, which need no
bound.
Two hooks at one height and three heights let a hook meet what an earlier one
left and what the staking module made of it. In `Proposal` later heights are not
told apart, so the number of blocks is not bounded there. Two validators let one
leave while the chain goes on.

`WireCodec` has integers of 15 bits and field numbers of 8, in place of 64 and 32.
As with 64, the last byte of the longest varint carries one bit, so that lost
bits, negative lengths, sums that overflow and field numbers that are cut all
happen with buffers of a few bytes. The buffers are all sequences of pieces (tags,
lengths, cut and overlong varints): two pieces for messages without fields and
the two module messages, three for the others, and four or five of a selection
for groups, embedded messages and messages with many fields.

Three runs of `Testnet` are a larger one, an interrupted one and the one that
reads what they left; the proofs need no bound.

Deadlock is checked except in `Readiness`, where the chain may pause,
`ForkRouting`, where a process that refuses its file stays down, and `WireCodec`
and `Testnet`, which end.

### Fairness

* `EvmNode!Fairness`: the steps of FinalizeBlock and Commit, because the retry
  loops go on until they are answered and CometBFT calls again after a restart,
  and the deadline of PrepareProposal. `Synchrony`, used for `ChainGrows` and
  `DecidedIsCommitted`: a round that is possible again and again happens, and an
  EL with a target gets there; this is what consensus liveness assumes of the
  network.
* `UpgradeAlerts`: blocks are executed, and an attempt to post ends, as the HTTP
  client has a deadline.
* `Proposal`: every proposal is processed, every round ends, and this validator's
  proposals are decided from time to time, by CometBFT's rotation.
* `Readiness`: the endpoint is polled, each stage ends within the deadline of the
  request, and the nodes commit what is decided.
* `ForkRouting`: FinalizeBlock repeats newPayload.
* `Relaunch`, in `first_block` only: a node that can take a step does, as CometBFT
  keeps proposing.

## What is proved

For all values of the constants (nodes, quorums, hashes, timestamp
configuration, faults, bounds), from the named assumptions of `EngineApi` and
`EvmNode` on the constants:

* `TypeCorrect` (`EvmNodeAgreement`): `Spec => []TypeOK`.
* `NodesAgree` (`EvmNodeAgreement`): `Spec => []Agreement`.
* `NodesFollowOneChain` (`EvmNodeRefinement`): `Spec => OneChain`, the refinement.
* `AheadByReplay` (`EvmNodeClients`): `Spec => []AheadOnlyByReplay`.
* `HeadsDecided` (`EvmNodeClients`): `Spec => []HeadIsDecided`.
* `TimesAdvance` (`EvmNodeClients`): `Spec => []PreparedTimeAdvances`.
* `PreparedAccepted` (`EvmNodeClients`): `Spec => []PreparedIsAccepted`.
* `HeadsKept` (`EvmNodeRefinement`): `Spec => []HeadNotBehindCommit`, assuming
  also that `AncestorFcu` is "skip". With clients that go back to an ancestor it
  does not hold: a late update or a probe names the block before the committed one.

The first three hold whatever payloads are proposed. The others assume
`ValidPayloads`: proposers outside the modelled nodes propose payloads that the ELs
find valid (in any relation to the chain, well formed or not). They are about one
node and its EL, and an EL that has adopted an invalid block it could not judge is
in a state of which the Engine API says nothing.

The argument for agreement: it is not inductive, for it says nothing about the
block that a node is finalizing. A block of height h has a set of `Outcomes`, the
states a node may be in after it: one, or two if its payload is invalid.
`OutcomeInv` says that every decided block, and every proposal that someone has
accepted, is `Justified`: it was proposed in an outcome of the block before it, with
a payload that is valid in that state; that each node is in an outcome of its
height; and that a node which finalizes a block is in the state the block was
proposed in, and fails only an invalid payload. Two outcomes of one height are what
`Agreement` allows.

For the refinement, `TopInv` says that the state in which a block was proposed is
above every other valid block decided before it (`TopOf`), and `ProposalFresh` that
a proposed payload has a new hash. So `Decide` adds a block to the tree
(`DecideExtends`) and `Commit` moves a node to a child (`CommitAdvances`); every
other step leaves the tree and the nodes where they are.

For the clients, with valid payloads, `CommitInv` says that a height has one outcome
(`StateAfter`) and that FinalizeBlock never fails after the first block. `ClientInv`
adds that what a node's EL has, and every hash on its way there from a late call or
a probe, is a block the node has committed or is finalizing (`Reached`), which only
grows; `BlocksDistinct` that hashes identify blocks. The proof has one lemma per
group of actions and conjunct.

On top of these, `PreparedInv` follows a payload from the build to the vote: while
PrepareProposal waits for a build, the block it builds on stays the committed one
(`PreparationOf`, as ABCI calls of a node do not overlap), so what it proposes is
valid in the state that the header names (`ProposalValid`), which is the state of
every node that is shown the proposal. `PreparedTimeAdvances` needs no induction of
its own: in the window, the committed block has the timestamp of its height. For
the heads, `HeadInv` says that a client that knows a block knows every decided
block below it, and that what it has still to fetch is above its head; so an update
to a block it lacks, or a synchronisation, cannot lower the head. The block that
Commit is about to record is covered as soon as its forkchoice update is answered
(`Updated`).

For the command `multi-node` (`TestnetProofs`), for any sizes, stakes and number
of runs, from `TestnetAssumption`:

* `SuccessLaunches`: `Spec => []SuccessIsLaunchable`.
* `CollectedAlike`: `Spec => []StatesDoNotDiffer`.
* `FailsForReasons`: `Spec => []FailsOnlyFor`.
* `PortsApart`: `Spec => []PortsDistinct`, with at most 1317 validators; the next
  one would serve its API on port 0.

The argument: what a run reads is a mixture of files of several runs, so each
stage is described by what this run has replaced so far (`Progress`). Two facts
about the rest make it inductive. `NoForeignKey`: a transaction signed by an
account of this run is this run's, so whatever else is found in a directory is
refused. `Nested`: a transaction that a larger run left in a directory it also
left in the ones before it, so the first directory decides whether the run fails,
and the state collected there is that of every directory.

For the upgrade alerts (`ServicesProofs`), for any plans, binaries, skipped
heights, number of attempts and restarts, from `UpgradeAlertsAssumption`:

* `AlertTypes`: `Spec => []TypeOK`.
* `PendingAnnounced`: `Spec => []PendingIsAnnounced`.
* `AnnouncedOnce`: `Spec => []AnnouncedSparingly`.
* `HaltAnnounced`: `Spec => []HaltIsAnnounced`.
* `HaltAlertKept`: `Spec => []HaltAlertNotDropped`.

The argument: `AlertInv` ties what upgradeNotifier remembers to the log
(`LastAnnounced`), and the log to what x/upgrade is about to do (`HaltLogged`: a
process has logged a halt exactly if the block in execution is one that x/upgrade
will stop and `logHaltIfTriggered` is past). `AnnouncementsPaid` counts an
announcement that is still owed along with those made, so that scheduling and
restarting add to the debt and announcing pays it. The theorems on finite sets are
instantiated at the end of the module, for `AnnouncedOnce` only.

For the fork schedules and the readiness endpoint (`ServicesProofs`), from
`ForkRoutingAssumption` and `ReadinessAssumption`:

* `RefusalsMisaligned`: `ForkSpec => []RefusedOnlyIfMisaligned`, for any files.
* `FetchedSendable`: `ForkSpec => []FetchedIsSendable`, assuming `PragueFromGenesis`:
  the genesis has Prague at 0 and no Osaka, as the chain specifications of
  mainnet, testnet and devnet do (localnet's has no Prague time). Without it an EL whose file sets only Osaka
  could have Osaka active before Prague.
* `ReadinessTypes`: `ReadySpec => []ReadyTypeOK`; `OkNearPeer`:
  `ReadySpec => OkIsNearPeer`, an action property.

The argument: an answer in hand is about the payload in hand and about processes
that still run with the schedules they answered with (`AnswerInPlace`); agreement
on getPayload's version means agreement on Prague once each side has Osaka only
with Prague (`ElOrdered`, and `Validate` on the CL's side). The head that a
request has read is one that the node has committed, so it is never above the
node's own height.

For the block hooks, the export and the import (`StakingFacts`,
`StakingHooksProofs`, `RelaunchProofs`), for any finite set of validators, any
lists of hooks at any heights, any amounts and any number of blocks, from
`StakingHooksAssumption` and `RelaunchAssumption`:

* `RelaunchTypes`: `RelaunchSpec => []RelaunchTypeOK`; no pool, sum of tokens or
  power goes negative.
* `IndexMatches`: `RelaunchSpec => []PowerIndexMatches`.
* `HaltsOnlyFor`: `RelaunchSpec => OnlyRemovalHalts`, and `ReconcileCloses`:
  `RelaunchSpec => ReconcileRepairs`, action properties.
* `PanicsNamed`: `RelaunchSpec => []ExportPanicsOnlyFor`; `ExportsImportable`:
  `RelaunchSpec => []ExportIsImportable`; `HeadKept`:
  `RelaunchSpec => []HeadSurvives`; `StampsOnlyRemoved`:
  `RelaunchSpec => []StampedOnlyIfRemoved`.

The assumption on the initial states is `Regular`: the index and the delegations
are those of the records, there are no tokens without shares, and the pools hold
at most what is owed. The pools may be short, by any amount.

The argument: that the index matches is not inductive. A removal and an update of
the validator set take entries out by the power they compute, which is the filed
one only while records, index and pools agree. `HooksInv` says that the staking
state is `Sound` (the index is that of the records, there are no tokens without
shares, and the pools hold no more than is owed), that the validators sent to
CometBFT are bonded, and that a delegation without shares belongs to a tombstoned
validator. A pool is short by a gap (`BondedGap`,
`OwedGap`); each hook, slash and update changes one record or moves one set of
validators between the pools, and the lemmas on such changes say what this does to
the gaps. `RelaunchInv` adds what an exported document holds (`DocumentInv`) and
which powers CometBFT knows (`PowersSent`). For `StampsOnlyRemoved`, `LastSeated`
says that between blocks a validator of the last set is unjailed and has power
unless a hook removed it, so the export's update leaves it out only where the set
is full.

The gaps are sums over sets of validators. That `SumFunctionOnSet` adds up what it
should (`SumRemove`, `SumDisjoint`, `SumEqual`) is proved in `StakingFacts` by
taking a smallest set for which it does not; there is one because the set of
validators is finite in Tarski's sense (`Finite`), which is how
`StakingHooksAssumption` says it.

Only model-checked:

* liveness, which is out of the prover's reach;
* the properties of `Proposal`: a block is what `SelectSeq` leaves of the mempool,
  and what it leaves is shown by induction over the sequence;
* what an EL holds after it has adopted an invalid payload, which no property
  here is about;
* `WireCodec`, which is built on recursive operators: there is no proof by
  induction over buffers.

## Not modelled

* Application wiring, module order, metrics, flags and configuration templates,
  gRPC and JWT set-up, queries: input and output, without state of their own.
* The materialisation of an embedded genesis: it writes one file.
* `in-place-testnet`: it overwrites the staking store with a validator whose
  tokens are in no pool and leaves other delegations behind. What follows is
  decided inside the SDK's staking and distribution modules, which are external
  here.
* Of the export: redelegations, commissions and slash events, which no module
  here keeps; of the import: the reading of older JSON forms.
* Descriptors, registration and accessors of the generated code.
* reth's block executor, which wraps the reth library; the block time utility,
  which is no part of the node; and the mock engine of the tests, in whose place
  `EngineApi` stands.
* A configuration that differs between nodes, for timestamps and hooks.

## Plan

1. Compose `Proposal` with `EvmNode`: a failed PrepareProposal leaves a block of
   the mempool's transactions to baseapp, which `EvmNode` has as a block without
   a payload; and `Readiness` with payloads that fail.
2. Proofs: `OwnIsAccepted` in `Proposal`, once facts about filtered sequences can
   be used, with the lemma that `votedPower > totalPower * 2 / 3` in integers is
   the rule of two thirds.
