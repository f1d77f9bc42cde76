------------------------------ MODULE Relaunch ------------------------------
(***************************************************************************)
(* A chain that is stopped, exported (cosmos/app/export.go) and started    *)
(* again from the exported genesis: the staking records that StakingHooks  *)
(* follows, the block state of x/evm (keeper/genesis.go) and the books of  *)
(* the distribution module go from the old chain to the new one.           *)
(*                                                                         *)
(* An export is run between two blocks.  It works on a copy of the state;  *)
(* the old chain is not followed any further, and the variables of         *)
(* StakingHooks then stand for the exported state.  InitChain, the genesis *)
(* code of the SDK's modules and CometBFT are external.                    *)
(***************************************************************************)
EXTENDS StakingHooks

CONSTANTS
  AllowLists,      \* values of --jail-allowed-addrs, {} without one
  Malformed,       \* an element of such a list that is no validator address
  Dust,            \* rewards a withdrawal may leave behind, of a validator
  NewChainLists,   \* the lists of hooks a height of the new chain may have
  NewChainBlocks,  \* bound: blocks of the new chain
  NoDocument,      \* a value that is no genesis document
  NoHash           \* an absent hash in the genesis of x/evm

ASSUME RelaunchAssumption ==
  /\ AllowLists \subseteq SUBSET (Vals \cup {Malformed}) /\ Malformed \notin Vals
  /\ Dust \subseteq Nat
  /\ NewChainLists \subseteq HookLists /\ NewChainBlocks \in Nat
  /\ NoHash \notin Nat

VARIABLES
  lastPowers,       \* the powers of the last update sent to CometBFT
  unbondingHeight,  \* the heights at which validators began to unbond
  evm,              \* the block state of x/evm: hash, height and time of its head
  launch,           \* "first", "exported", "panicked", "refused" or "again"
  initial,          \* the initial height of the chain
  allowList,        \* --jail-allowed-addrs of the export
  document          \* the exported genesis, or NoDocument

newVars == <<lastPowers, unbondingHeight, evm, launch, initial, allowList, document>>
allVars == <<vars, newVars>>

\* A block of the execution chain stands for its hash by its number.
EvmGenesis ==
  [genesisHash : Nat, currentHash : Nat \cup {NoHash}, currentHeight : Nat,
   currentTimestamp : Nat]

Document ==
  [height : Nat, validators : [Vals -> Nat], evm : EvmGenesis,
   balance : Nat, outstanding : Nat, communityPool : Nat]

PowersOf(s, active) ==
  [v \in Vals |-> IF v \in active THEN Power(s.val[v]) ELSE 0]

\* Mutant: the imported block state is that of a fresh execution chain.
InitGenesisFresh(g) == [hash |-> g.genesisHash, height |-> 0, timestamp |-> 0]

\* InitGenesis of x/evm.  It refuses a genesis without genesisHash, which a
\* network is not started from and ExportGenesis does not write.
InitGenesis(g) ==
  IF g.currentHash # NoHash
  THEN [hash |-> g.currentHash, height |-> g.currentHeight, timestamp |-> g.currentTimestamp]
  ELSE [hash |-> g.genesisHash, height |-> 0, timestamp |-> 0]

\* ExportGenesis of x/evm.  InitGenesis has always stored a block state.
ExportGenesis(block) ==
  [genesisHash |-> block.hash, currentHash |-> block.hash, currentHeight |-> block.height,
   currentTimestamp |-> block.timestamp]

RelaunchInit ==
  /\ Init
  /\ lastPowers = PowersOf(staking, last)
  /\ unbondingHeight = [v \in Vals |-> 0]
  /\ evm = InitGenesis([genesisHash |-> 0, currentHash |-> NoHash, currentHeight |-> 0,
                        currentTimestamp |-> 0])
  /\ launch = "first" /\ initial = 1 /\ allowList = {} /\ document = NoDocument

---------------------------------------------------------------------------
\* Blocks.

\* ProcessProposal: the first block is empty, and any other needs a last
\* commit of more than two thirds of the power.  CometBFT has no commit for
\* the block before the initial height.
ProcessProposal ==
  LET totalPower == IF height = initial THEN 0 ELSE SumFunctionOnSet(lastPowers, last)
      votedPower == totalPower
  IN  height = 1 \/ votedPower > (totalPower * 2) \div 3

\* The payload of the block extends the head, at a later time.
PayloadExecuted ==
  evm' = IF height = 1 THEN evm
         ELSE [hash |-> evm.hash + 1, height |-> evm.height + 1,
               timestamp |-> evm.timestamp + 2]

Begin ==
  /\ launch \in {"first", "again"} /\ ProcessProposal
  /\ launch = "again" => height < initial + NewChainBlocks
  /\ BeginBlock \/ \E v \in Vals : BeginBlockSlash(v)
  /\ launch = "again" => hooks' \in NewChainLists
  /\ PayloadExecuted
  /\ UNCHANGED <<lastPowers, unbondingHeight, launch, initial, allowList, document>>

\* The queue of unbonding validators is ordered by time and height.
UpdateValidators ==
  /\ StakingEndBlock
  /\ \A v \in Vals : staking.val[v].status = "unbonding" /\ unbondingHeight[v] > height =>
       staking'.val[v].status # "unbonded"
  /\ lastPowers' = IF phase' = "halted" THEN lastPowers ELSE PowersOf(staking, last')
  /\ unbondingHeight' = [v \in Vals |->
       IF staking.val[v].status = "bonded" /\ staking'.val[v].status = "unbonding"
       THEN height ELSE unbondingHeight[v]]
  /\ UNCHANGED <<evm, launch, initial, allowList, document>>

PerformHooks ==
  /\ \/ ExecuteUnjailing \/ ExecuteAddValidator \/ ExecuteRemoveValidator
     \/ ExecuteReconcileStakingPools \/ EndBlockerDone
  /\ UNCHANGED newVars

---------------------------------------------------------------------------
\* The export.

\* ExportAppStateAndValidators, with the distribution module's books: its
\* balance, what is outstanding to validators, and the community pool, which
\* is counted from its value before the export.  The validators are those of
\* the last update, at the power of their present tokens.
DocumentOf(exportHeight, s, active, balance, outstanding, pool) ==
  [height |-> exportHeight, validators |-> PowersOf(s, active), evm |-> ExportGenesis(evm),
   balance |-> balance, outstanding |-> outstanding, communityPool |-> pool]

Exportable == launch = "first" /\ phase = "begin" /\ height > 1

Export ==
  /\ Exportable
  /\ document' = DocumentOf(height, staking, last, 0, 0, 0)
  /\ launch' = "exported"
  /\ UNCHANGED <<vars, lastPowers, unbondingHeight, evm, initial, allowList>>

\* Mutant: an empty list counts as a list.
JailedOutsideEmpty(s, allowed) ==
  [s EXCEPT !.val = [v \in Vals |->
     IF s.val[v].exists /\ v \notin allowed
     THEN [s.val[v] EXCEPT !.jailed = TRUE] ELSE s.val[v]]]

\* The loop over the validators jails those outside the list, and leaves the
\* power index as it is.
JailedOutside(s, allowed) ==
  [s EXCEPT !.val = [v \in Vals |->
     IF s.val[v].exists /\ allowed # {} /\ v \notin allowed
     THEN [s.val[v] EXCEPT !.jailed = TRUE] ELSE s.val[v]]]

\* The rewards of a delegation are withdrawn and its period of rewards is
\* started again: without shares both divide by zero, and without a validator
\* the second is an error.
RewardsPanic(s) == \E v \in s.delegations : ~s.val[v].shares

\* The update of the validator set in prepForZeroHeightGenesis reads the index
\* in order of power, and panics at a jailed validator.
UpdatePanics(s, active) ==
  \/ StakingPanics(s, active)
  \/ s.bonded + Moved(s, active) < 0 \/ s.notBonded - Moved(s, active) < 0

Updated(s, active) ==
  [s EXCEPT !.val = StatusIn(@, active),
            !.bonded = @ + Moved(s, active), !.notBonded = @ - Moved(s, active)]

\* Mutant: the outstanding rewards are reset without a donation.
DonatedNot(left) == [outstanding |-> 0, communityPool |-> 0]

\* What withdrawals left outstanding is donated to the community pool.
Donated(left) == [outstanding |-> 0, communityPool |-> left]

\* Mutant: heights of validators that are still unbonding are kept.
ResetHeightsKept(s, active) ==
  [v \in Vals |-> IF v \in last \ active THEN height - 1 ELSE unbondingHeight[v]]

\* Unbonding heights are reset, and then a validator that leaves the active
\* set gets the height of the last block of the old chain.  The creation
\* heights of unbonding delegations and redelegations and the start heights of
\* signing information are reset as well; nothing here reads them.
ResetHeights(s, active) ==
  [v \in Vals |-> IF v \in last \ active THEN height - 1 ELSE 0]

ExportForZeroHeight ==
  /\ Exportable
  /\ \E allowed \in AllowLists, left \in Dust :
       LET prepared == JailedOutside(staking, allowed)
       IN  /\ allowList' = allowed
           /\ \E active \in ActiveSets(prepared) :
                IF \/ Malformed \in allowed
                   \/ RewardsPanic(staking) \/ UpdatePanics(prepared, active)
                THEN /\ launch' = "panicked"
                     /\ UNCHANGED <<staking, last, lastPowers, unbondingHeight, document>>
                ELSE /\ launch' = "exported"
                     /\ staking' = Updated(prepared, active)
                     /\ last' = active
                     /\ lastPowers' = PowersOf(prepared, active)
                     /\ unbondingHeight' = ResetHeights(prepared, active)
                     /\ document' = DocumentOf(0, prepared, active, left,
                          Donated(left).outstanding, Donated(left).communityPool)
  /\ UNCHANGED <<info, hooks, phase, height, evm, initial>>

---------------------------------------------------------------------------
\* The import.  CometBFT wants validators with power, staking wants pools of
\* exactly what the records say, distribution wants its balance to match its
\* books, and BaseApp wants the validators of the document to be those that
\* staking returns, at the powers of the last update.
GenesisAccepted(d) ==
  /\ last # {} /\ \A v \in last : d.validators[v] > 0
  /\ staking.bonded = TokensOf(staking, Bonded(staking))
  /\ staking.notBonded = Owed(staking)
  /\ d.balance = d.outstanding + d.communityPool
  /\ d.validators = lastPowers

InitChain ==
  /\ launch = "exported"
  /\ IF GenesisAccepted(document)
     THEN /\ launch' = "again"
          /\ staking' = [staking EXCEPT !.index = IndexOf(staking.val)]
          /\ height' = Max({1, document.height}) /\ initial' = height'
          /\ evm' = InitGenesis(document.evm)
          /\ document' = NoDocument /\ allowList' = {}
     ELSE /\ launch' = "refused"
          /\ UNCHANGED <<staking, height, initial, evm, document, allowList>>
  /\ UNCHANGED <<info, last, hooks, phase, lastPowers, unbondingHeight>>

\* Nothing more happens, because the chain has stopped, the export or the
\* import has failed, no proposal is accepted, or a bound is reached.
Ended ==
  /\ \/ launch \in {"panicked", "refused"} \/ phase = "halted"
     \/ phase = "end" /\ ActiveSets(staking) = {{}}
     \/ /\ phase = "begin" /\ launch # "exported"
        /\ \/ height > MaxHeight \/ ~ProcessProposal
           \/ launch = "again" /\ height >= initial + NewChainBlocks
  /\ UNCHANGED allVars

RelaunchNext ==
  \/ Begin \/ UpdateValidators \/ PerformHooks
  \/ Export \/ ExportForZeroHeight \/ InitChain \/ Ended

RelaunchSpec == RelaunchInit /\ [][RelaunchNext]_allVars

\* A node that can go on does: CometBFT keeps proposing.
FairRelaunchSpec == RelaunchSpec /\ WF_allVars(RelaunchNext)

---------------------------------------------------------------------------
\* Properties.

\* Every variable of the relaunch has its type.
RelaunchTypeOK ==
  /\ TypeOK
  /\ lastPowers \in [Vals -> Nat]
  /\ unbondingHeight \in [Vals -> Nat]
  /\ evm \in [hash : Nat, height : Nat, timestamp : Nat]
  /\ launch \in {"first", "exported", "panicked", "refused", "again"}
  /\ initial \in 1..MaxHeight + 1
  /\ allowList \subseteq Vals \cup {Malformed}
  /\ document \in Document \cup {NoDocument}

\* With funded pools, the export for height zero panics only because its list
\* has a malformed address or leaves out a validator that is not jailed, or
\* because an earlier removal left a delegation to a validator without shares:
\* its comments say that the errors it panics on there cannot happen.
ExportPanicsOnlyFor ==
  launch = "panicked" =>
    \/ Deficit(staking) > 0 \/ Malformed \in allowList
    \/ allowList # {} /\ \E v \in Existing(staking) \ allowList : ~staking.val[v].jailed
    \/ \E v \in staking.delegations : info[v] = "tombstoned" /\ ~staking.val[v].shares

\* What an export writes, InitChain accepts, unless the pools are short or no
\* validator is left, or, at a height, the hooks of the last block changed the
\* power of a validator after it was sent to CometBFT.
ExportIsImportable ==
  launch = "refused" =>
    \/ Deficit(staking) > 0
    \/ last = {}
    \/ document.height > 0 /\ \E v \in last : Power(staking.val[v]) # lastPowers[v]

\* The update that ends an export for height zero stamps the height of the old
\* chain on whoever leaves the active set in it, after heights were reset: the
\* new chain would let it finish to unbond only when it has come that far.  This
\* happens only to a validator that a hook of the last block removed, or that
\* the limit on the active set leaves no place for; slashed or jailed ones, and
\* ones outside the export's list, never wait for a height of the old chain.
StampedOnlyIfRemoved ==
  launch = "exported" /\ document.height = 0 =>
    \A v \in Vals : unbondingHeight[v] > 0 =>
      info[v] = "tombstoned" \/ Cardinality(last) = MaxValidators

\* The new chain goes on from the head of the execution chain at which the old
\* one stopped, with its time, and the recorded height is that of the recorded
\* block.
HeadSurvives ==
  /\ evm.height = evm.hash
  /\ document # NoDocument => InitGenesis(document.evm) = evm

\* "zero height genesis is a temporary feature which will be deprecated in
\* favor of export at a block height": a chain started from an export at a
\* height executes its first block.
FirstBlockExecuted ==
  (launch = "again" /\ height = initial /\ height <= MaxHeight) ~> (phase # "begin")
=============================================================================
