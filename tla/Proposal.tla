------------------------------ MODULE Proposal ------------------------------
(***************************************************************************)
(* Transactions on their way into a block (cosmos/app/proposal.go, ante.go *)
(* and x/globalfee/ante/fee.go): admission to the mempool, the block that  *)
(* PrepareProposal puts together, the checks of ProcessProposal, and the   *)
(* ante handler when the block is executed.                                *)
(*                                                                         *)
(* What the payload of the EVM block must be is the concern of EvmNode;    *)
(* here it is valid or not.  A transaction is the part of it that the code *)
(* looks at: the types of its messages, whether it is bare (no signature,  *)
(* memo, fee, granter, and the module as payer), its size, gas and fee.    *)
(* CometBFT and its mempool are external.                                  *)
(***************************************************************************)
EXTENDS Integers, Sequences, SequencesExt, FiniteSets, FiniteSetsExt

CONSTANTS
  Submitted,       \* the transactions users submit
  Foreign,         \* the blocks other proposers may propose
  Validators,      \* the validators of the last block
  VotingPower,     \* their voting power
  MaxCosmosTxs,    \* maxCosmosTxsPerBlock
  MaxTxSize,       \* types.MaxTxSize
  MinimumGasPrice, \* minimum_gas_price of x/globalfee, per PriceUnit of gas
  PriceUnit,
  MaxHeight,       \* bound: later heights are not told apart
  NoBlock          \* a value that is no block

ASSUME ProposalAssumption ==
  /\ VotingPower \in [Validators -> Nat \ {0}] /\ IsFiniteSet(Validators)
  /\ MaxCosmosTxs \in Nat /\ MaxTxSize \in Nat
  /\ MinimumGasPrice \in Nat /\ PriceUnit \in Nat \ {0}
  /\ MaxHeight \in Nat /\ MaxHeight > 2

VARIABLES
  height,     \* the height being decided
  mempool,    \* transactions admitted, in order
  block,      \* the block proposed in this round, or NoBlock
  own,        \* whether this node proposed it
  verdict,    \* "none", "accept" or "reject"
  executed,   \* transactions of the last block that passed the ante handler
  included    \* transactions of users that were in a decided block

vars == <<height, mempool, block, own, verdict, executed, included>>

Kinds == {"payload", "permitted", "other"}

Tx ==
  [decodes : BOOLEAN, msgs : Seq(Kinds), bare : BOOLEAN, valid : BOOLEAN,
   size : Nat, gas : Nat, fee : Nat]

\* The transaction buildExecutionPayload and PrepareProposal make.
OwnPayload ==
  [decodes |-> TRUE, msgs |-> <<"payload">>, bare |-> TRUE, valid |-> TRUE,
   size |-> 1, gas |-> 0, fee |-> 0]

Init ==
  /\ height = 1
  /\ mempool = <<>> /\ block = NoBlock /\ own = FALSE /\ verdict = "none"
  /\ executed = <<>> /\ included = {}

---------------------------------------------------------------------------
\* Classification of a transaction.

ValidateMsgAllowed(tx) == Len(tx.msgs) = 1 /\ tx.msgs[1] \in {"payload", "permitted"}

IsEvm(tx) == tx.msgs[1] = "payload"

ValidateTx(tx) == Len(tx.msgs) = 1 /\ tx.bare

\* parseTx succeeds.
ParseTx(tx) ==
  /\ tx.decodes
  /\ ValidateMsgAllowed(tx)
  /\ IsEvm(tx) => ValidateTx(tx)

\* The ante handler: the fee rounded up to a whole amount.
RequiredFeeTruncated(tx) == (MinimumGasPrice * tx.gas) \div PriceUnit

RequiredFee(tx) == (MinimumGasPrice * tx.gas + PriceUnit - 1) \div PriceUnit

AnteHandler(tx, checking) ==
  IF Len(tx.msgs) = 1 /\ IsEvm(tx)
  THEN ~checking
  ELSE tx.fee >= RequiredFee(tx)

---------------------------------------------------------------------------
\* The handlers.

CheckTx(tx) ==
  /\ tx.decodes /\ AnteHandler(tx, TRUE)
  /\ ~Contains(mempool, tx) /\ tx \notin included
  /\ mempool' = Append(mempool, tx)
  /\ UNCHANGED <<height, block, own, verdict, executed, included>>

\* The first transactions of the mempool that are permitted, up to the limit.
CosmosTxsOfPrefix(txs) ==
  LET Permitted(tx) == ParseTx(tx) /\ ~IsEvm(tx)
  IN  SelectSeq(SubSeq(txs, 1, Min({Len(txs), MaxCosmosTxs})), Permitted)

CosmosTxsAll(txs) ==
  LET Permitted(tx) == ParseTx(tx) /\ ~IsEvm(tx)
  IN  SelectSeq(txs, Permitted)

CosmosTxs(txs) ==
  LET Permitted(tx) == ParseTx(tx) /\ ~IsEvm(tx)
      permitted == SelectSeq(txs, Permitted)
  IN  SubSeq(permitted, 1, Min({Len(permitted), MaxCosmosTxs}))

Commits == {flags \in SUBSET Validators :
  3 * SumFunctionOnSet(VotingPower, flags) > 2 * SumFunctionOnSet(VotingPower, Validators)}

\* This node proposes, with the votes CometBFT has for the last block.
PrepareProposal ==
  /\ block = NoBlock
  /\ \E commit \in Commits :
       block' = [txs |-> IF height = 1 THEN <<>> ELSE Append(CosmosTxs(mempool), OwnPayload),
                 commit |-> commit]
  /\ own' = TRUE
  /\ UNCHANGED <<height, mempool, verdict, executed, included>>

ForeignProposal ==
  /\ block = NoBlock
  /\ \E txs \in Foreign, commit \in Commits : block' = [txs |-> txs, commit |-> commit]
  /\ own' = FALSE
  /\ UNCHANGED <<height, mempool, verdict, executed, included>>

\* votedPower > totalPower*2/3, in integers.
EnoughVotes(commit) ==
  LET totalPower == SumFunctionOnSet(VotingPower, Validators)
      votedPower == SumFunctionOnSet(VotingPower, commit)
  IN  votedPower > (totalPower * 2) \div 3

ShapeAcceptedUnordered(txs) ==
  /\ \A i \in DOMAIN txs : txs[i].size <= MaxTxSize /\ ParseTx(txs[i])
  /\ \E i \in DOMAIN txs : IsEvm(txs[i])
  /\ Cardinality({i \in DOMAIN txs : ~IsEvm(txs[i])}) <= MaxCosmosTxs

ShapeAccepted(txs) ==
  /\ \A i \in DOMAIN txs :
       /\ txs[i].size <= MaxTxSize /\ ParseTx(txs[i])
       /\ IsEvm(txs[i]) <=> i = Len(txs)
  /\ Cardinality({i \in DOMAIN txs : ~IsEvm(txs[i])}) <= MaxCosmosTxs

Accepts(b) ==
  IF height = 1
  THEN b.txs = <<>>
  ELSE /\ b.txs # <<>>
       /\ EnoughVotes(b.commit)
       /\ ShapeAccepted(b.txs)
       /\ Last(b.txs).valid

ProcessProposal ==
  /\ block # NoBlock /\ verdict = "none"
  /\ verdict' = IF Accepts(block) THEN "accept" ELSE "reject"
  /\ UNCHANGED <<height, mempool, block, own, executed, included>>

\* The block is decided and executed: each transaction passes the ante handler
\* or has no effect.  CometBFT removes its transactions from the mempool.
FinalizeBlock ==
  /\ verdict = "accept"
  /\ LET Passes(tx) == AnteHandler(tx, FALSE)
         Stays(tx) == ~Contains(block.txs, tx)
     IN  /\ executed' = SelectSeq(block.txs, Passes)
         /\ mempool' = SelectSeq(mempool, Stays)
  /\ included' = included \cup (Submitted \cap ToSet(block.txs))
  /\ height' = Min({height + 1, MaxHeight})
  /\ block' = NoBlock /\ own' = FALSE /\ verdict' = "none"

\* Too few validators accepted the block.
NextRound ==
  /\ verdict # "none"
  /\ block' = NoBlock /\ own' = FALSE /\ verdict' = "none"
  /\ UNCHANGED <<height, mempool, executed, included>>

Next ==
  \/ \E tx \in Submitted : CheckTx(tx)
  \/ PrepareProposal \/ ForeignProposal \/ ProcessProposal
  \/ FinalizeBlock \/ NextRound

Spec == Init /\ [][Next]_vars

\* CometBFT has every proposal processed and every round ended, lets every
\* validator propose again and again, and decides a proposal of each from time
\* to time.
Fairness ==
  /\ WF_vars(ProcessProposal) /\ WF_vars(FinalizeBlock \/ NextRound)
  /\ SF_vars(PrepareProposal)
  /\ SF_vars(own /\ FinalizeBlock)

FairSpec == Spec /\ Fairness

---------------------------------------------------------------------------
\* Properties.

\* Every variable has its type; only a processed block has a verdict; no
\* transaction of the mempool is a lone payload, which CheckTx refuses.
TypeOK ==
  /\ height \in 1..MaxHeight
  /\ mempool \in Seq({tx \in Submitted : tx.msgs # <<"payload">>})
  /\ block = NoBlock \/ (block.txs \in Seq(Tx) /\ block.commit \subseteq Validators)
  /\ own \in BOOLEAN
  /\ verdict \in {"none", "accept", "reject"}
  /\ block = NoBlock => verdict = "none" /\ ~own
  /\ executed \in Seq(Tx)
  /\ included \subseteq Submitted

\* A block that PrepareProposal puts together, from whatever is in the mempool
\* and with any commit of more than two thirds of the power, passes the checks
\* of ProcessProposal: an honest proposer is not refused.
OwnIsAccepted == own => Accepts(block)

\* Every decided block after the first executes exactly one payload, a valid
\* one, after the other transactions; no ante rule keeps the payload out.
OnePayloadExecuted ==
  height > 2 =>
    /\ Cardinality({i \in DOMAIN executed : IsEvm(executed[i])}) = 1
    /\ IsEvm(Last(executed)) /\ Last(executed).valid

\* No transaction of a user takes effect below the minimum gas price, in the
\* block of any proposer: the price is a rule of execution, not of the mempool.
FeesArePaid ==
  \A i \in DOMAIN executed :
    IsEvm(executed[i]) \/ executed[i].fee * PriceUnit >= MinimumGasPrice * executed[i].gas

\* A permitted transaction in the mempool gets into a block, whatever waits
\* before it that no block may hold.
PermittedIsIncluded ==
  \A tx \in Submitted : Contains(mempool, tx) /\ ParseTx(tx) ~> tx \in included
=============================================================================
