--------------------------- MODULE ExecutionChain ---------------------------
(***************************************************************************)
(* What the payload life cycle promises, without proposals, execution      *)
(* clients, retries or faults.  The decided execution blocks form a tree,  *)
(* each one above and later than its parent.  No block is added beside or  *)
(* below a valid one, so that the valid blocks lie on one path, and every  *)
(* node walks the tree from a block to a child: nodes part ways only at a  *)
(* block that the execution clients find invalid.                          *)
(***************************************************************************)
EXTENDS Naturals

CONSTANTS Nodes, Hash, GenesisState, NoParent

VARIABLES
  tree,    \* the blocks: a block state, the parent's hash and the verdict
  at       \* per node, the block state it has committed

chainVars == <<tree, at>>

ChainInit ==
  /\ tree = {[state |-> GenesisState, parent |-> NoParent, valid |-> TRUE]}
  /\ at = [n \in Nodes |-> GenesisState]

Extend ==
  \E parent \in tree, block \in tree' \ tree :
    /\ block.parent = parent.state.hash
    /\ block.state.hash \in Hash
    /\ block.state.height = parent.state.height + 1
    /\ block.state.timestamp > parent.state.timestamp
    /\ \A b \in tree :
         /\ b.state.hash # block.state.hash
         /\ b.valid => b.state = parent.state \/ b.state.height < parent.state.height
    /\ tree' = tree \cup {block}
    /\ UNCHANGED at

Advance(n) ==
  \E block \in tree :
    /\ block.parent = at[n].hash
    /\ at' = [at EXCEPT ![n] = block.state]
    /\ UNCHANGED tree

ChainNext == Extend \/ \E n \in Nodes : Advance(n)

ChainSpec == ChainInit /\ [][ChainNext]_chainVars
=============================================================================
