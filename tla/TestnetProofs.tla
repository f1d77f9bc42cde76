--------------------------- MODULE TestnetProofs ----------------------------
(***************************************************************************)
(* Proofs about Testnet, for any numbers of validators, stakes and runs.   *)
(*                                                                         *)
(* What a run reads is a mixture of files of this and of earlier runs.     *)
(* The invariant says which ones this run has replaced so far (Progress),  *)
(* that a transaction signed by an account of this run is the one that     *)
(* this run wrote (NoForeignKey), and that a transaction another run left  *)
(* in a directory was left in all directories before it (Nested), so that  *)
(* the first directory decides whether the run fails.  Keys that cannot be *)
(* used are there only after an interrupted run (KeysLeft).                *)
(***************************************************************************)
EXTENDS Testnet, TLAPS

Own(j) == [account |-> <<j, run>>, chain |-> run, stake |-> StakeOf(args.stakes, j)]

RunAccounts(k) == {<<j, run>> : j \in 0..k - 1}

App == [accounts |-> RunAccounts(args.size), gentxs |-> {Own(j) : j \in Nodes}]

Blank ==
  [chain |-> run, time |-> 0,
   app |-> [accounts |-> RunAccounts(args.size), gentxs |-> {}]]

Final == [chain |-> run, time |-> run, app |-> App]

\* An account of this run signs nothing but this run's transaction.
NoForeignKey ==
  \A i, j \in Node :
    dirs[i].gentx[j] \in Gentx =>
      /\ dirs[i].gentx[j].account[2] <= run
      /\ dirs[i].gentx[j].account[2] = run => j \in Nodes /\ dirs[i].gentx[j] = Own(j)

Nested ==
  \A i, j, k \in Node :
    k < i /\ i < j /\ dirs[i].gentx[j] # Nothing => dirs[k].gentx[j] # Nothing

KeysLeft ==
  \A i \in Node : dirs[i].account \in Unusable => interrupted \/ disturbed

\* The directory has its account key and its own transaction.
Signed(i) == dirs[i].account = <<i, run>> /\ dirs[i].gentx[i] = Own(i)

KeysProgress ==
  pc \in {"keys", "gentx"} =>
    /\ run > 0 /\ args.stakes \in StakeLists /\ node \in Nodes
    /\ \A i \in Nodes : i < node => Signed(i)
    /\ pc = "gentx" => dirs[node].account = <<node, run>>
    /\ accounts = RunAccounts(node) /\ source = 0 /\ appState = Nothing

GenesisProgress ==
  pc = "genesis" =>
    /\ run > 0 /\ args.stakes \in StakeLists /\ node \in Nodes
    /\ \A i \in Nodes : Signed(i)
    /\ accounts = RunAccounts(args.size) /\ source = 0 /\ appState = Nothing
    /\ \A i \in Nodes : i < node => dirs[i].genesis = Blank

CopyProgress ==
  pc = "copy" =>
    /\ run > 0 /\ args.stakes \in StakeLists /\ node \in Nodes /\ source \in Nodes
    /\ appState = Nothing
    /\ \A i \in Nodes : Signed(i) /\ dirs[i].genesis = Blank
    /\ \A i, j \in Nodes : i < node => dirs[i].gentx[j] = Own(j)
    /\ \A j \in Nodes : j < source => dirs[node].gentx[j] = Own(j)

\* The first directory, once collected, holds nothing of another run, and the
\* stakes are accepted.
CollectProgress ==
  pc = "collect" =>
    /\ run > 0 /\ args.stakes \in StakeLists /\ node \in Nodes
    /\ \A i \in Nodes : dirs[i].account = <<i, run>>
    /\ \A i, j \in Nodes : dirs[i].gentx[j] = Own(j)
    /\ \A i \in Nodes : dirs[i].genesis = IF i < node THEN Final ELSE Blank
    /\ node = 0 => appState = Nothing
    /\ node > 0 =>
         /\ appState = App
         /\ \A j \in Node \ Nodes : dirs[0].gentx[j] = Nothing
         /\ \A j \in Nodes : Own(j).stake <= Balance

DoneProgress ==
  pc = "done" =>
    \A i \in Nodes : dirs[i].account = <<i, run>> /\ dirs[i].genesis = Final

Progress ==
  KeysProgress /\ GenesisProgress /\ CopyProgress /\ CollectProgress /\ DoneProgress

\* The inductive invariant: every success is launchable, the collected states
\* do not differ, and a run that is not disturbed fails only for its reasons.
IInv == TypeOK /\ NoForeignKey /\ Nested /\ KeysLeft /\ Progress /\ FailsOnlyFor

---------------------------------------------------------------------------
\* The pieces of a state.

\* A file is not mistaken for an absent or a torn one.
LEMMA FilesDiffer ==
  /\ \A g \in Gentx : g # Nothing /\ g # Torn
  /\ \A g \in Genesis : g # Nothing /\ g # Torn
  /\ \A a \in AppState : a # Nothing
  /\ Nothing # Torn
BY DEF Gentx, Genesis, AppState, Nothing, Torn

\* Keys are not mistaken for others.
LEMMA KeysDiffer ==
  /\ NoAccount \notin Unusable
  /\ \A i, k : <<i, k>> \notin Unusable
BY DEF NoAccount, Unusable, TornKeys, Stateless

\* A transaction file of a directory is replaced.
WithGentx(n, s, g) == [dirs EXCEPT ![n].gentx[s] = g]

\* Nothing else of the directories changes, and they keep their type.
LEMMA GentxReplaced ==
  ASSUME dirs \in [Node -> Dir], NEW n \in Node, NEW s \in Node,
         NEW g \in {Nothing, Torn} \cup Gentx
  PROVE  LET D == WithGentx(n, s, g)
         IN  /\ D \in [Node -> Dir]
             /\ \A i \in Node : D[i].account = dirs[i].account /\ D[i].genesis = dirs[i].genesis
             /\ \A i, j \in Node : D[i].gentx[j] = IF i = n /\ j = s THEN g ELSE dirs[i].gentx[j]
BY Zenon DEF Dir, WithGentx

\* The genesis file of a directory is replaced.
LEMMA GenesisReplaced ==
  ASSUME dirs \in [Node -> Dir], NEW n \in Node, NEW g \in {Nothing, Torn} \cup Genesis,
         NEW D, D = [dirs EXCEPT ![n].genesis = g]
  PROVE  /\ D \in [Node -> Dir]
         /\ \A i \in Node : /\ D[i].account = dirs[i].account
                            /\ D[i].gentx = dirs[i].gentx
                            /\ D[i].genesis = IF i = n THEN g ELSE dirs[i].genesis
BY DEF Dir

\* The account key of a directory is replaced.
LEMMA AccountReplaced ==
  ASSUME dirs \in [Node -> Dir], NEW n \in Node, NEW a \in Unusable \cup Account,
         NEW D, D = [dirs EXCEPT ![n].account = a]
  PROVE  /\ D \in [Node -> Dir]
         /\ \A i \in Node : /\ D[i].gentx = dirs[i].gentx
                            /\ D[i].genesis = dirs[i].genesis
                            /\ D[i].account = IF i = n THEN a ELSE dirs[i].account
BY Zenon DEF Dir

\* The nodes of a run are among all nodes.
LEMMA NodesAreNodes ==
  ASSUME TypeOK
  PROVE  args.size \in 0..MaxSize /\ Nodes \subseteq Node
<1>1. args \in [size : Sizes \cup {0}, stakes : StakeLists \cup {<<>>}]
  BY DEF TypeOK
<1>2. args.size \in Sizes \/ args.size = 0
  BY <1>1
<1>3. args.size \in 0..MaxSize
  <2>1. Sizes \subseteq 0..MaxSize /\ 0 \in 0..MaxSize
    BY TestnetAssumption
  <2> QED BY <1>2, <2>1, Zenon
<1> QED BY <1>3, TestnetAssumption DEF Nodes, Node

\* What a run writes has its type.
LEMMA OwnTypes ==
  ASSUME TypeOK, run > 0, args.stakes \in StakeLists
  PROVE  /\ \A j \in Nodes : <<j, run>> \in Account /\ Own(j) \in Gentx
         /\ \A k \in 0..args.size : RunAccounts(k) \subseteq Account
         /\ App \in AppState /\ Blank \in Genesis /\ Final \in Genesis
<1>1. run \in 1..MaxRuns
  BY TestnetAssumption DEF TypeOK
<1>2. \A j \in Nodes : <<j, run>> \in Account
  BY <1>1, NodesAreNodes DEF Account
<1>3. \A j \in Nodes : Own(j) \in Gentx
  BY <1>1, <1>2, NodesAreNodes DEF Own, Gentx, Stake
<1>4. \A k \in 0..args.size : RunAccounts(k) \subseteq Account
  <2> SUFFICES ASSUME NEW k \in 0..args.size PROVE RunAccounts(k) \subseteq Account
    OBVIOUS
  <2>1. 0..k - 1 \subseteq Nodes
    BY NodesAreNodes DEF Nodes
  <2> QED BY <1>2, <2>1 DEF RunAccounts
<1>5. RunAccounts(args.size) \subseteq Account
  BY <1>4, NodesAreNodes
<1>6. App \in AppState
  BY <1>3, <1>5 DEF App, AppState
<1>7. Blank \in Genesis /\ Final \in Genesis
  BY <1>1, <1>5, <1>6, TestnetAssumption DEF Blank, Final, Genesis, AppState
<1> QED BY <1>2, <1>3, <1>4, <1>6, <1>7

---------------------------------------------------------------------------
\* The invariant holds initially, and each action preserves it.

\* No directory has been written.
LEMMA InitInvariant == Init => IInv
<1> SUFFICES ASSUME Init PROVE IInv
  OBVIOUS
<1>1. NoDir \in Dir /\ 0 \in Node
  BY TestnetAssumption DEF NoDir, Dir, Node
<1>2. \A i, j \in Node : dirs[i].gentx[j] = Nothing
  BY DEF Init, NoDir, NoDirs
<1>3. TypeOK
  BY <1>1, TestnetAssumption, SMTT(30) DEF Init, TypeOK, NoArgs, NoDirs
<1>k. KeysLeft
  BY KeysDiffer DEF Init, NoDir, NoDirs, KeysLeft
<1>4. NoForeignKey /\ Nested
  BY <1>2, FilesDiffer DEF NoForeignKey, Nested
<1>5. Progress /\ FailsOnlyFor
  BY DEF Init, Progress, KeysProgress, GenesisProgress, CopyProgress, CollectProgress,
         DoneProgress, FailsOnlyFor
<1> QED BY <1>3, <1>4, <1>5, <1>k DEF IInv

\* A transaction in a directory was signed in a run that has begun.
LEMMA SignedBefore ==
  ASSUME TypeOK, NEW i \in Node, NEW j \in Node, dirs[i].gentx[j] \in Gentx
  PROVE  dirs[i].gentx[j].account[2] \in 1..MaxRuns
BY DEF Gentx, Account

\* A new run: its number is new, so that no file is its own.
LEMMA RunEInvariant == IInv /\ RunE => IInv'
<1> SUFFICES ASSUME IInv, RunE PROVE IInv'
  OBVIOUS
<1>1. PICK size \in Sizes, stakes \in StakeLists :
        /\ args' = [size |-> size, stakes |-> stakes]
        /\ pc' = IF \E k \in DOMAIN stakes : stakes[k] # NotANumber /\ stakes[k] < 0 THEN "failed"
                 ELSE IF size = 0 THEN "done" ELSE "keys"
  BY Zenon DEF RunE
<1>2. size \in 0..MaxSize /\ args'.size = size /\ args'.stakes = stakes
  BY <1>1, TestnetAssumption
<1>3. run \in 0..MaxRuns /\ run' = run + 1 /\ run' \in 1..MaxRuns
  BY TestnetAssumption DEF IInv, TypeOK, RunE
<1>4. TypeOK'
  <2>1. args' \in [size : Sizes \cup {0}, stakes : StakeLists \cup {<<>>}]
    BY <1>1
  <2>2. 0 \in Node
    BY TestnetAssumption DEF Node
  <2>3. pc' \in {"failed", "done", "keys"}
    BY <1>1
  <2>4. run' \in 0..MaxRuns
    BY <1>3, TestnetAssumption
  <2>5. /\ node' = 0 /\ source' = 0 /\ accounts' = {} /\ appState' = Nothing
        /\ disturbed' = FALSE /\ dirs' \in [Node -> Dir] /\ interrupted' \in BOOLEAN
    BY DEF RunE, IInv, TypeOK
  <2> QED BY <2>1, <2>2, <2>3, <2>4, <2>5, Zenon DEF TypeOK
<1>5. NoForeignKey'
  <2> SUFFICES ASSUME NEW i \in Node, NEW j \in Node, dirs[i].gentx[j] \in Gentx
               PROVE  /\ dirs[i].gentx[j].account[2] <= run'
                      /\ dirs[i].gentx[j].account[2] # run'
    BY DEF NoForeignKey, RunE
  <2>1. dirs[i].gentx[j].account[2] <= run
    BY DEF IInv, NoForeignKey
  <2>2. dirs[i].gentx[j].account[2] \in 1..MaxRuns
    BY SignedBefore DEF IInv
  <2> QED BY <2>1, <2>2, <1>3, TestnetAssumption
<1>6. Nested'
  BY DEF IInv, Nested, RunE
<1>k. KeysLeft'
  <2> SUFFICES ASSUME NEW i \in Node, dirs[i].account \in Unusable
               PROVE  interrupted'
    BY DEF KeysLeft, RunE
  <2>1. interrupted \/ disturbed
    BY DEF IInv, KeysLeft
  <2>2. dirs # NoDirs
    BY KeysDiffer DEF NoDirs, NoDir
  <2> QED BY <2>1, <2>2, Zenon DEF RunE
<1>7. KeysProgress'
  <2> SUFFICES ASSUME pc' = "keys"
               PROVE  /\ args'.stakes \in StakeLists /\ 0 \in Nodes'
                      /\ Nodes' \subseteq Nat /\ {} = RunAccounts(0)'
    BY <1>1, <1>3 DEF KeysProgress, RunE, Nodes
  <2>1. size # 0
    BY <1>1
  <2>2. Nodes' = 0..size - 1
    BY <1>2 DEF Nodes
  <2> QED BY <1>2, <2>1, <2>2, TestnetAssumption DEF RunAccounts
<1>8. GenesisProgress' /\ CopyProgress' /\ CollectProgress'
  BY <1>1 DEF GenesisProgress, CopyProgress, CollectProgress
<1>9. DoneProgress'
  BY <1>1, <1>2 DEF DoneProgress, Nodes
<1>10. FailsOnlyFor'
  BY <1>1, <1>2 DEF FailsOnlyFor
<1> QED BY <1>4, <1>5, <1>6, <1>k, <1>7, <1>8, <1>9, <1>10 DEF IInv, Progress

\* An error at keys of an earlier run: that run, or one before it, was
\* interrupted, for this one was not.
LEMMA KeysUnreadableInvariant == IInv /\ KeysUnreadable => IInv'
<1> SUFFICES ASSUME IInv, KeysUnreadable PROVE IInv'
  OBVIOUS
<1>1. /\ pc' = "failed" /\ run' = run /\ args' = args /\ node' = node /\ source' = source
      /\ accounts' = accounts /\ appState' = appState /\ disturbed' = disturbed
      /\ interrupted' = interrupted /\ node \in Node
      /\ dirs[node].account = TornKeys \/ dirs[node].account = Stateless
      /\ dirs' = IF dirs[node].account = TornKeys THEN NoDirs ELSE dirs
  BY DEF KeysUnreadable, Unusable, IInv, TypeOK
<1>2. ~disturbed => interrupted
  BY <1>1, Zenon DEF IInv, KeysLeft, Unusable
<1>3. Progress'
  BY <1>1 DEF Progress, KeysProgress, GenesisProgress, CopyProgress, CollectProgress,
              DoneProgress
<1>4. CASE dirs' = dirs /\ dirs[node].account = Stateless
  <2>1. Nodes' = Nodes /\ \A i : Own(i)' = Own(i)
    BY <1>1, Zenon DEF Nodes, Own
  <2>2. TypeOK' /\ KeysLeft'
    BY <1>1, <1>4, Zenon DEF IInv, TypeOK, KeysLeft
  <2>n. NoForeignKey' /\ Nested'
    BY <1>1, <1>4, <2>1 DEF IInv, NoForeignKey, Nested
  <2>3. FailsOnlyFor'
    BY <1>1, <1>2, <1>4, Zenon DEF FailsOnlyFor
  <2> QED BY <1>3, <2>2, <2>n, <2>3, Zenon DEF IInv
<1>5. CASE dirs' = NoDirs
  <2>1. \A i, j \in Node : dirs'[i].gentx[j] = Nothing /\ dirs'[i].account = NoAccount
    BY <1>5 DEF NoDirs, NoDir
  <2>2. NoDirs \in [Node -> Dir]
    BY DEF NoDirs, NoDir, Dir
  <2>3. TypeOK'
    BY <1>1, <1>5, <2>2, Zenon DEF IInv, TypeOK
  <2>4. NoForeignKey' /\ Nested' /\ KeysLeft'
    BY <2>1, FilesDiffer, KeysDiffer DEF NoForeignKey, Nested, KeysLeft
  <2>5. NoDirs' = NoDirs
    BY Zenon DEF NoDirs, NoDir
  <2>6. FailsOnlyFor'
    BY <1>1, <1>2, <1>5, <2>5, Zenon DEF FailsOnlyFor
  <2> QED BY <1>3, <2>3, <2>4, <2>6, Zenon DEF IInv
<1> QED BY <1>1, <1>4, <1>5, Zenon

\* A new key for the account of the directory.
LEMMA MakeKeysInvariant == IInv /\ MakeKeys => IInv'
<1> SUFFICES ASSUME IInv, MakeKeys PROVE IInv'
  OBVIOUS
<1>1. /\ run > 0 /\ args.stakes \in StakeLists /\ node \in Nodes
      /\ \A i \in Nodes : i < node => Signed(i)
      /\ accounts = RunAccounts(node) /\ source = 0 /\ appState = Nothing
  BY DEF IInv, Progress, KeysProgress, MakeKeys
<1>2. node \in Node /\ Nodes \subseteq Node /\ <<node, run>> \in Account
  BY <1>1, NodesAreNodes, OwnTypes DEF IInv
<1>3. /\ dirs' \in [Node -> Dir]
      /\ \A i \in Node : /\ dirs'[i].gentx = dirs[i].gentx
                         /\ dirs'[i].account = IF i = node THEN <<node, run>> ELSE dirs[i].account
  BY <1>2, AccountReplaced DEF IInv, TypeOK, MakeKeys
<1>4. TypeOK'
  BY <1>3 DEF IInv, TypeOK, MakeKeys
<1>5. Nodes' = Nodes /\ (\A i : Own(i)' = Own(i)) /\ (\A k : RunAccounts(k)' = RunAccounts(k))
  BY DEF MakeKeys, Nodes, Own, RunAccounts
<1>6. NoForeignKey' /\ Nested'
  BY <1>3, <1>5 DEF IInv, NoForeignKey, Nested, MakeKeys
<1>k. KeysLeft'
  BY <1>3, KeysDiffer DEF IInv, KeysLeft, MakeKeys
<1>7. KeysProgress'
  <2>1. \A i \in Nodes : i < node => Signed(i)'
    <3> SUFFICES ASSUME NEW i \in Nodes, i < node PROVE Signed(i)'
      OBVIOUS
    <3>1. i # node
      BY <1>2 DEF Node
    <3> QED BY <3>1, <1>1, <1>2, <1>3, <1>5 DEF Signed, MakeKeys
  <2> QED BY <1>1, <1>2, <1>3, <1>5, <2>1 DEF KeysProgress, MakeKeys
<1>8. GenesisProgress' /\ CopyProgress' /\ CollectProgress' /\ DoneProgress' /\ FailsOnlyFor'
  BY DEF MakeKeys, GenesisProgress, CopyProgress, CollectProgress, DoneProgress, FailsOnlyFor
<1> QED BY <1>4, <1>6, <1>k, <1>7, <1>8 DEF IInv, Progress

\* An empty output directory.
LEMMA RemoveAllInvariant == IInv /\ RemoveAll => IInv'
<1> SUFFICES ASSUME IInv, RemoveAll PROVE IInv'
  OBVIOUS
<1>1. \A i, j \in Node : dirs'[i].gentx[j] = Nothing
  BY DEF RemoveAll, NoDir, NoDirs
<1>2. NoDir \in Dir
  BY DEF NoDir, Dir
<1>3. TypeOK'
  BY <1>2 DEF IInv, TypeOK, RemoveAll, NoDirs
<1>4. NoForeignKey' /\ Nested' /\ KeysLeft'
  BY <1>1, FilesDiffer DEF NoForeignKey, Nested, KeysLeft, RemoveAll
<1>5. Progress' /\ FailsOnlyFor'
  BY DEF RemoveAll, Progress, KeysProgress, GenesisProgress, CopyProgress, CollectProgress,
         DoneProgress, FailsOnlyFor
<1> QED BY <1>3, <1>4, <1>5 DEF IInv

\* The loop over the nodes goes on, or has reached the last of them.
LEMMA OnwardNode ==
  ASSUME TypeOK, node \in Nodes, NEW part, NEW next, part # next, Onward(part, next)
  PROVE  \/ /\ pc' = part /\ node' = node + 1 /\ node' \in Nodes
            /\ \A i \in Nodes : i < node' <=> i < node \/ i = node
         \/ /\ pc' = next /\ node' = 0 /\ node' \in Nodes /\ node + 1 = args.size
            /\ \A i \in Nodes : i < node \/ i = node
            /\ \A i \in Nodes : ~(i < node')
BY NodesAreNodes DEF Onward, Nodes, Node

\* The transaction of the node is written, signed by its new key.
LEMMA WriteGentxInvariant == IInv /\ WriteGentx => IInv'
<1> SUFFICES ASSUME IInv, WriteGentx PROVE IInv'
  OBVIOUS
<1>1. /\ run > 0 /\ args.stakes \in StakeLists /\ node \in Nodes
      /\ \A i \in Nodes : i < node => Signed(i)
      /\ dirs[node].account = <<node, run>> /\ accounts = RunAccounts(node) /\ source = 0 /\ appState = Nothing
  BY DEF IInv, Progress, KeysProgress, WriteGentx
<1>2. node \in Node /\ Nodes \subseteq Node /\ <<node, run>> \in Account /\ Own(node) \in Gentx
  BY <1>1, NodesAreNodes, OwnTypes DEF IInv
<1>3. dirs' = WithGentx(node, node, Own(node))
  BY <1>1 DEF WriteGentx, WithGentx, Own
<1>4. /\ dirs' \in [Node -> Dir]
      /\ \A i \in Node : dirs'[i].account = dirs[i].account
      /\ \A i, j \in Node :
           dirs'[i].gentx[j] = IF i = node /\ j = node THEN Own(node) ELSE dirs[i].gentx[j]
  <2>1. dirs \in [Node -> Dir] /\ Own(node) \in {Nothing, Torn} \cup Gentx
    BY <1>2 DEF IInv, TypeOK
  <2> QED BY <1>2, <1>3, <2>1, GentxReplaced
<1>5. Nodes' = Nodes /\ (\A i : Own(i)' = Own(i)) /\ (\A k : RunAccounts(k)' = RunAccounts(k))
  BY DEF WriteGentx, Nodes, Own, RunAccounts
<1>6. accounts' = RunAccounts(node + 1)
  <2>1. 0..(node + 1) - 1 = (0..node - 1) \cup {node}
    BY <1>2 DEF Node
  <2>2. accounts' = RunAccounts(node) \cup {<<node, run>>}
    BY <1>1 DEF WriteGentx
  <2>3. ASSUME NEW A, NEW B, A = B \cup {node}
        PROVE  {<<j, run>> : j \in A} = {<<j, run>> : j \in B} \cup {<<node, run>>}
    BY <2>3
  <2> QED BY <2>1, <2>2, <2>3 DEF RunAccounts
<1>7. \/ /\ pc' = "keys" /\ node' = node + 1 /\ node' \in Nodes
         /\ \A i \in Nodes : i < node' <=> i < node \/ i = node
      \/ /\ pc' = "genesis" /\ node' = 0 /\ node' \in Nodes /\ node + 1 = args.size
         /\ \A i \in Nodes : i < node \/ i = node
         /\ \A i \in Nodes : ~(i < node')
  BY <1>1, OnwardNode DEF IInv, WriteGentx
<1>8. TypeOK'
  <2>1. accounts' \subseteq Account
    BY <1>1, <1>2 DEF WriteGentx, IInv, TypeOK
  <2> QED BY <1>2, <1>4, <1>7, <2>1 DEF IInv, TypeOK, WriteGentx
<1>9. NoForeignKey'
  <2> SUFFICES ASSUME NEW i \in Node, NEW j \in Node, dirs'[i].gentx[j] \in Gentx
               PROVE  /\ dirs'[i].gentx[j].account[2] <= run
                      /\ dirs'[i].gentx[j].account[2] = run =>
                           j \in Nodes /\ dirs'[i].gentx[j] = Own(j)
    BY <1>5 DEF NoForeignKey, WriteGentx
  <2>1. CASE i = node /\ j = node
    BY <2>1, <1>1, <1>4, TestnetAssumption DEF Own, IInv, TypeOK
  <2>2. CASE ~(i = node /\ j = node)
    BY <2>2, <1>4 DEF IInv, NoForeignKey
  <2> QED BY <2>1, <2>2, Zenon
<1>10. Nested'
  <2> SUFFICES ASSUME NEW i \in Node, NEW j \in Node, NEW k \in Node, k < i, i < j,
                      dirs'[i].gentx[j] # Nothing
               PROVE  dirs'[k].gentx[j] # Nothing
    BY DEF Nested
  <2>1. i # j /\ k # j
    BY DEF Node
  <2> QED BY <2>1, <1>4 DEF IInv, Nested
<1>k. KeysLeft'
  BY <1>4 DEF IInv, KeysLeft, WriteGentx
<1>11. \A i \in Nodes : i < node \/ i = node => Signed(i)'
  BY <1>1, <1>2, <1>4, <1>5 DEF Signed, WriteGentx
<1>12. KeysProgress'
  BY <1>1, <1>5, <1>6, <1>7, <1>11 DEF KeysProgress, WriteGentx
<1>13. GenesisProgress'
  BY <1>1, <1>5, <1>6, <1>7, <1>11 DEF GenesisProgress, WriteGentx
<1>14. CopyProgress' /\ CollectProgress' /\ DoneProgress' /\ FailsOnlyFor'
  BY <1>7 DEF CopyProgress, CollectProgress, DoneProgress, FailsOnlyFor
<1> QED BY <1>8, <1>9, <1>10, <1>k, <1>12, <1>13, <1>14 DEF IInv, Progress

\* The genesis of the node is written, without transactions.
LEMMA InitGenFilesInvariant == IInv /\ InitGenFiles => IInv'
<1> SUFFICES ASSUME IInv, InitGenFiles PROVE IInv'
  OBVIOUS
<1>1. /\ run > 0 /\ args.stakes \in StakeLists /\ node \in Nodes
      /\ \A i \in Nodes : Signed(i)
      /\ accounts = RunAccounts(args.size) /\ source = 0 /\ appState = Nothing
      /\ \A i \in Nodes : i < node => dirs[i].genesis = Blank
  BY DEF IInv, Progress, GenesisProgress, InitGenFiles
<1>2. node \in Node /\ Nodes \subseteq Node /\ Blank \in Genesis
  BY <1>1, NodesAreNodes, OwnTypes DEF IInv
<1>3. dirs' = [dirs EXCEPT ![node].genesis = Blank]
  BY <1>1 DEF InitGenFiles, Blank
<1>4. /\ dirs' \in [Node -> Dir]
      /\ \A i \in Node : /\ dirs'[i].account = dirs[i].account
                         /\ dirs'[i].gentx = dirs[i].gentx
                         /\ dirs'[i].genesis = IF i = node THEN Blank ELSE dirs[i].genesis
  BY <1>2, <1>3, GenesisReplaced DEF IInv, TypeOK
<1>5. /\ Nodes' = Nodes /\ Blank' = Blank
      /\ \A i : Own(i)' = Own(i)
      /\ \A k : RunAccounts(k)' = RunAccounts(k)
  BY DEF InitGenFiles, Nodes, Own, RunAccounts, Blank
<1>6. \/ /\ pc' = "genesis" /\ node' = node + 1 /\ node' \in Nodes
         /\ \A i \in Nodes : i < node' <=> i < node \/ i = node
      \/ /\ pc' = "copy" /\ node' = 0 /\ node' \in Nodes /\ node + 1 = args.size
         /\ \A i \in Nodes : i < node \/ i = node
         /\ \A i \in Nodes : ~(i < node')
  BY <1>1, OnwardNode DEF IInv, InitGenFiles
<1>7. TypeOK'
  BY <1>2, <1>4, <1>6 DEF IInv, TypeOK, InitGenFiles
<1>8. NoForeignKey' /\ Nested'
  BY <1>4, <1>5 DEF IInv, NoForeignKey, Nested, InitGenFiles
<1>k. KeysLeft'
  BY <1>4 DEF IInv, KeysLeft, InitGenFiles
<1>9. \A i \in Nodes : Signed(i)'
  BY <1>1, <1>2, <1>4, <1>5 DEF Signed, InitGenFiles
<1>10. GenesisProgress'
  BY <1>1, <1>2, <1>4, <1>5, <1>6, <1>9 DEF GenesisProgress, InitGenFiles
<1>11. CopyProgress'
  BY <1>1, <1>2, <1>4, <1>5, <1>6, <1>9 DEF CopyProgress, InitGenFiles
<1>12. KeysProgress' /\ CollectProgress' /\ DoneProgress' /\ FailsOnlyFor'
  BY <1>6 DEF KeysProgress, CollectProgress, DoneProgress, FailsOnlyFor
<1> QED BY <1>7, <1>8, <1>k, <1>10, <1>11, <1>12 DEF IInv, Progress

\* The transaction of a node is copied to another, or over itself.
LEMMA CopyGentxInvariant == IInv /\ CopyGentx => IInv'
<1> SUFFICES ASSUME IInv, CopyGentx PROVE IInv'
  OBVIOUS
<1>1. /\ run > 0 /\ args.stakes \in StakeLists /\ node \in Nodes /\ source \in Nodes
      /\ appState = Nothing
      /\ \A i \in Nodes : Signed(i) /\ dirs[i].genesis = Blank
      /\ \A i, j \in Nodes : i < node => dirs[i].gentx[j] = Own(j)
      /\ \A j \in Nodes : j < source => dirs[node].gentx[j] = Own(j)
  BY DEF IInv, Progress, CopyProgress, CopyGentx
<1>2. /\ node \in Node /\ source \in Node /\ Nodes \subseteq Node
      /\ Own(source) \in Gentx /\ Own(source) # Nothing
  BY <1>1, NodesAreNodes, OwnTypes, FilesDiffer, Zenon DEF IInv
<1>3. dirs' = WithGentx(node, source, Own(source))
  BY <1>1, Zenon DEF CopyGentx, WithGentx, Copied, Signed
<1>4. /\ dirs' \in [Node -> Dir]
      /\ \A i \in Node : dirs'[i].account = dirs[i].account /\ dirs'[i].genesis = dirs[i].genesis
      /\ \A i, j \in Node :
           dirs'[i].gentx[j] = IF i = node /\ j = source THEN Own(source) ELSE dirs[i].gentx[j]
  <2>1. dirs \in [Node -> Dir] /\ Own(source) \in {Nothing, Torn} \cup Gentx
    BY <1>2 DEF IInv, TypeOK
  <2> QED BY <1>2, <1>3, <2>1, GentxReplaced
<1>5. /\ Nodes' = Nodes /\ Blank' = Blank /\ \A i : Own(i)' = Own(i)
      /\ run' = run /\ args' = args /\ appState' = appState
  BY DEF CopyGentx, Nodes, Own, Blank, RunAccounts
<1>6. \/ /\ pc' = "copy" /\ node' = node /\ source' = source + 1 /\ source' \in Nodes
         /\ \A j \in Nodes : j < source' <=> j < source \/ j = source
      \/ /\ pc' = "copy" /\ node' = node + 1 /\ node' \in Nodes /\ source' = 0 /\ source' \in Nodes
         /\ \A j \in Nodes : ~(j < source') /\ (j < source \/ j = source)
         /\ \A i \in Nodes : i < node' <=> i < node \/ i = node
      \/ /\ pc' = "collect" /\ node' = 0 /\ node' \in Nodes /\ source' = 0 /\ source' \in Nodes
         /\ \A j \in Nodes : j < source \/ j = source
         /\ \A i \in Nodes : ~(i < node') /\ (i < node \/ i = node)
  <2>1. args.size \in 0..MaxSize
    BY NodesAreNodes DEF IInv
  <2>2. CASE source + 1 < args.size
    BY <1>1, <2>1, <2>2, TestnetAssumption DEF CopyGentx, Nodes
  <2>3. CASE ~(source + 1 < args.size)
    <3>1. /\ source' = 0 /\ source' \in Nodes
          /\ \A j \in Nodes : ~(j < source') /\ (j < source \/ j = source)
      BY <1>1, <2>1, <2>3, TestnetAssumption DEF CopyGentx, Nodes
    <3>2. Onward("copy", "collect")
      BY <2>3 DEF CopyGentx
    <3> QED BY <1>1, <3>1, <3>2, OnwardNode, Zenon DEF IInv
  <2> QED BY <2>2, <2>3
<1>7. TypeOK'
  BY <1>2, <1>4, <1>6 DEF IInv, TypeOK, CopyGentx
<1>8. NoForeignKey'
  <2> SUFFICES ASSUME NEW i \in Node, NEW j \in Node, dirs'[i].gentx[j] \in Gentx
               PROVE  /\ dirs'[i].gentx[j].account[2] <= run
                      /\ dirs'[i].gentx[j].account[2] = run =>
                           j \in Nodes /\ dirs'[i].gentx[j] = Own(j)
    BY <1>5 DEF NoForeignKey
  <2>1. CASE i = node /\ j = source
    BY <2>1, <1>1, <1>4, TestnetAssumption DEF Own, IInv, TypeOK
  <2>2. CASE ~(i = node /\ j = source)
    BY <2>2, <1>4 DEF IInv, NoForeignKey
  <2> QED BY <2>1, <2>2
<1>9. Nested'
  <2> SUFFICES ASSUME NEW i \in Node, NEW j \in Node, NEW k \in Node, k < i, i < j,
                      dirs'[i].gentx[j] # Nothing
               PROVE  dirs'[k].gentx[j] # Nothing
    BY DEF Nested
  <2>1. CASE i = node /\ j = source
    <3>1. k \in Nodes /\ k # node
      BY <1>1, <2>1, NodesAreNodes DEF Nodes, Node, IInv
    <3> QED BY <1>1, <1>2, <1>4, <2>1, <3>1
  <2>2. CASE ~(i = node /\ j = source)
    BY <2>2, <1>2, <1>4 DEF IInv, Nested
  <2> QED BY <2>1, <2>2
<1>k. KeysLeft'
  BY <1>4 DEF IInv, KeysLeft, CopyGentx
<1>10. \A i \in Nodes : Signed(i)' /\ dirs'[i].genesis = Blank
  BY <1>1, <1>2, <1>4, <1>5 DEF Signed
<1>11. /\ \A i, j \in Nodes : i < node => dirs'[i].gentx[j] = Own(j)
       /\ \A j \in Nodes : j < source \/ j = source => dirs'[node].gentx[j] = Own(j)
  BY <1>1, <1>2, <1>4
<1>12. CopyProgress'
  BY <1>1, <1>5, <1>6, <1>10, <1>11 DEF CopyProgress
<1>13. CollectProgress'
  <2> SUFFICES ASSUME pc' = "collect" PROVE CollectProgress'
    BY DEF CollectProgress
  <2>1. /\ node' = 0 /\ node' \in Nodes
        /\ \A i \in Nodes : ~(i < node')
        /\ \A i, j \in Nodes : dirs'[i].gentx[j] = Own(j)
    BY <1>6, <1>11
  <2>2. \A i \in Nodes : dirs'[i].account = <<i, run>>
    BY <1>5, <1>10 DEF Signed
  <2> QED BY <1>1, <1>5, <1>10, <2>1, <2>2 DEF CollectProgress
<1>14. KeysProgress' /\ GenesisProgress' /\ DoneProgress' /\ FailsOnlyFor'
  BY <1>6 DEF KeysProgress, GenesisProgress, DoneProgress, FailsOnlyFor
<1> QED BY <1>7, <1>8, <1>9, <1>k, <1>12, <1>13, <1>14 DEF IInv, Progress

---------------------------------------------------------------------------
\* The collection accepts a directory exactly if the stakes are in range and
\* no transaction of another run is in it, and then it takes the state App.
LEMMA CollectableIff ==
  ASSUME IInv, pc = "collect"
  PROVE  /\ Collectable(node) <=>
              /\ \A j \in Node \ Nodes : dirs[node].gentx[j] = Nothing
              /\ \A j \in Nodes : Own(j).stake <= Balance
         /\ Collectable(node) => Collected(node) = App
<1>1. /\ run > 0 /\ args.stakes \in StakeLists /\ node \in Nodes
      /\ \A j \in Nodes : dirs[node].gentx[j] = Own(j)
      /\ dirs[node].genesis = IF node < node THEN Final ELSE Blank
  BY DEF IInv, Progress, CollectProgress
<1>2. /\ node \in Node /\ Nodes \subseteq Node
      /\ \A j \in Nodes : Own(j) \in Gentx /\ Own(j) # Nothing /\ Own(j) # Torn
  BY <1>1, NodesAreNodes, OwnTypes, FilesDiffer, Zenon DEF IInv
<1>3. dirs[node].genesis = Blank
  BY <1>1, <1>2 DEF Node
<1>4. dirs[node].genesis.app = [accounts |-> RunAccounts(args.size), gentxs |-> {}]
  BY <1>3 DEF Blank
<1>5. ASSUME Collectable(node), NEW j \in Node \ Nodes
      PROVE  dirs[node].gentx[j] = Nothing
  <2> DEFINE g == dirs[node].gentx[j]
  <2> SUFFICES ASSUME g # Nothing PROVE FALSE
    OBVIOUS
  <2>1. GentxAccepted(g, dirs[node].genesis.app)
    BY <1>5 DEF Collectable, Gentxs
  <2>2. g # Torn /\ g.account \in RunAccounts(args.size)
    BY <1>4, <2>1 DEF GentxAccepted
  <2>3. g.account[2] = run
    BY <2>2 DEF RunAccounts
  <2>4. g \in Gentx
    BY <1>2, <2>2 DEF IInv, TypeOK, Dir
  <2> QED BY <1>2, <2>3, <2>4 DEF IInv, NoForeignKey
<1>6. ASSUME Collectable(node), NEW j \in Nodes
      PROVE  Own(j).stake <= Balance
  <2>1. Own(j) \in Gentxs(node)
    BY <1>1, <1>2 DEF Gentxs
  <2> QED BY <1>6, <2>1 DEF Collectable, GentxAccepted
<1>7. ASSUME \A j \in Node \ Nodes : dirs[node].gentx[j] = Nothing
      PROVE  Gentxs(node) = {Own(j) : j \in Nodes}
  BY <1>1, <1>2, <1>7 DEF Gentxs
<1>8. ASSUME \A j \in Node \ Nodes : dirs[node].gentx[j] = Nothing,
             \A j \in Nodes : Own(j).stake <= Balance
      PROVE  Collectable(node)
  <2> SUFFICES ASSUME NEW j \in Nodes PROVE GentxAccepted(Own(j), dirs[node].genesis.app)
    BY <1>7, <1>8 DEF Collectable
  <2>1. Own(j).account = <<j, run>>
    BY DEF Own
  <2>2. <<j, run>> \in RunAccounts(args.size)
    BY DEF RunAccounts, Nodes
  <2> QED BY <1>2, <1>4, <1>8, <2>1, <2>2 DEF GentxAccepted
<1>9. ASSUME Collectable(node) PROVE Collected(node) = App
  <2>1. Gentxs(node) = {Own(j) : j \in Nodes}
    BY <1>5, <1>7, <1>9
  <2> QED BY <1>4, <2>1 DEF Collected, App
<1> QED BY <1>5, <1>6, <1>8, <1>9

\* A later node finds what the first one found.
LEMMA LaterCollectable ==
  ASSUME IInv, pc = "collect", node > 0
  PROVE  Collectable(node) /\ appState = App
<1>1. /\ node \in Nodes /\ appState = App
      /\ \A j \in Node \ Nodes : dirs[0].gentx[j] = Nothing
      /\ \A j \in Nodes : Own(j).stake <= Balance
  BY DEF IInv, Progress, CollectProgress
<1>2. ASSUME NEW j \in Node \ Nodes PROVE dirs[node].gentx[j] = Nothing
  <2>1. 0 \in Node /\ node \in Node /\ 0 < node /\ node < j
    BY <1>1, NodesAreNodes, TestnetAssumption DEF IInv, Nodes, Node
  <2> QED BY <1>1, <2>1 DEF IInv, Nested
<1> QED BY <1>1, <1>2, CollectableIff

\* The genesis of the node is completed, or the run fails for its reasons.
LEMMA CollectGenFilesInvariant == IInv /\ CollectGenFiles => IInv'
<1> SUFFICES ASSUME IInv, CollectGenFiles PROVE IInv'
  OBVIOUS
<1>0. pc = "collect"
  BY DEF CollectGenFiles
<1>1. /\ run > 0 /\ args.stakes \in StakeLists /\ node \in Nodes
      /\ \A i \in Nodes : dirs[i].account = <<i, run>>
      /\ \A i, j \in Nodes : dirs[i].gentx[j] = Own(j)
      /\ \A i \in Nodes : dirs[i].genesis = IF i < node THEN Final ELSE Blank
      /\ node = 0 => appState = Nothing
      /\ node > 0 => \A j \in Node \ Nodes : dirs[0].gentx[j] = Nothing
  BY <1>0 DEF IInv, Progress, CollectProgress
<1>2. node \in Node /\ Nodes \subseteq Node /\ Final \in Genesis /\ App \in AppState
  BY <1>1, NodesAreNodes, OwnTypes DEF IInv
<1>3. /\ Nodes' = Nodes /\ Final' = Final /\ Blank' = Blank /\ App' = App
      /\ run' = run /\ args' = args /\ source' = source /\ accounts' = accounts
      /\ disturbed' = disturbed /\ interrupted' = interrupted /\ \A i : Own(i)' = Own(i)
  BY DEF CollectGenFiles, Nodes, Own, Blank, Final, App, RunAccounts
<1>4. CASE Collectable(node)
  <2>1. appState' = App
    <3>1. CASE node = 0
      BY <1>1, <1>4, <3>1, <1>0, CollectableIff DEF CollectGenFiles
    <3>2. CASE node > 0
      BY <1>2, <1>4, <3>2, <1>0, LaterCollectable, FilesDiffer DEF CollectGenFiles
    <3> QED BY <1>2, <3>1, <3>2 DEF Node
  <2>2. dirs' = [dirs EXCEPT ![node].genesis = Final]
    BY <1>4, <2>1 DEF CollectGenFiles, GenTime, Final
  <2>3. /\ dirs' \in [Node -> Dir]
        /\ \A i \in Node : /\ dirs'[i].account = dirs[i].account
                           /\ dirs'[i].gentx = dirs[i].gentx
                           /\ dirs'[i].genesis = IF i = node THEN Final ELSE dirs[i].genesis
    BY <1>2, <2>2, GenesisReplaced DEF IInv, TypeOK
  <2>4. \/ /\ pc' = "collect" /\ node' = node + 1 /\ node' \in Nodes
           /\ \A i \in Nodes : i < node' <=> i < node \/ i = node
        \/ /\ pc' = "done" /\ node' = 0 /\ node' \in Nodes /\ node + 1 = args.size
           /\ \A i \in Nodes : i < node \/ i = node
           /\ \A i \in Nodes : ~(i < node')
    BY <1>1, <1>4, OnwardNode DEF IInv, CollectGenFiles
  <2>5. TypeOK'
    BY <1>2, <1>3, <2>1, <2>3, <2>4, Zenon DEF IInv, TypeOK
  <2>6. NoForeignKey' /\ Nested'
    BY <1>3, <2>3 DEF IInv, NoForeignKey, Nested
  <2>k. KeysLeft'
    BY <1>3, <2>3 DEF IInv, KeysLeft
  <2>7. /\ \A j \in Node \ Nodes : dirs'[0].gentx[j] = Nothing
        /\ \A j \in Nodes : Own(j).stake <= Balance
    <3>1. 0 \in Node /\ (node = 0 \/ node > 0)
      BY <1>2, TestnetAssumption DEF Node
    <3> QED BY <1>0, <1>1, <1>4, <2>3, <3>1, CollectableIff
  <2>8. \A i \in Nodes : dirs'[i].account = <<i, run>> /\ \A j \in Nodes : dirs'[i].gentx[j] = Own(j)
    BY <1>1, <1>2, <2>3
  <2>9. \A i \in Nodes : i < node \/ i = node => dirs'[i].genesis = Final
    BY <1>1, <1>2, <2>3, ZenonT(60)
  <2>10. CollectProgress'
    <3> SUFFICES ASSUME pc' = "collect" PROVE CollectProgress'
      BY DEF CollectProgress
    <3>1. /\ node' = node + 1 /\ node' \in Nodes /\ node' # 0
          /\ \A i \in Nodes : i < node' <=> i < node \/ i = node
      BY <1>2, <2>4 DEF Node
    <3>2. \A i \in Nodes : dirs'[i].genesis = IF i < node' THEN Final ELSE Blank
      BY <1>1, <1>2, <2>3, <2>9, <3>1
    <3> QED BY <1>1, <1>3, <2>1, <2>7, <2>8, <3>1, <3>2 DEF CollectProgress
  <2>11. DoneProgress'
    BY <1>3, <2>4, <2>8, <2>9 DEF DoneProgress
  <2>12. KeysProgress' /\ GenesisProgress' /\ CopyProgress' /\ FailsOnlyFor'
    BY <2>4 DEF KeysProgress, GenesisProgress, CopyProgress, FailsOnlyFor
  <2> QED BY <2>5, <2>6, <2>k, <2>10, <2>11, <2>12 DEF IInv, Progress
<1>5. CASE ~Collectable(node)
  <2>1. pc' = "failed" /\ dirs' = dirs /\ node' = node /\ appState' = appState
    BY <1>5, Zenon DEF CollectGenFiles
  <2>2. TypeOK' /\ NoForeignKey' /\ Nested' /\ KeysLeft'
    BY <1>3, <2>1, ZenonT(60) DEF IInv, TypeOK, NoForeignKey, Nested, KeysLeft
  <2>3. Progress'
    BY <2>1 DEF Progress, KeysProgress, GenesisProgress, CopyProgress, CollectProgress, DoneProgress
  <2>4. \/ \E i \in Nodes : ~(StakeOf(args.stakes, i) <= Balance)
        \/ \E i \in Nodes, j \in Node \ Nodes : dirs[i].gentx[j] # Nothing
    BY <1>0, <1>1, <1>5, CollectableIff DEF Own
  <2>5. FailsOnlyFor'
    BY <1>3, <2>1, <2>4 DEF FailsOnlyFor
  <2> QED BY <2>2, <2>3, <2>5 DEF IInv
<1> QED BY <1>4, <1>5

\* A torn file is nobody's transaction; in a copy, the directories before
\* have the file.
LEMMA DisturbInvariant == IInv /\ Disturb => IInv'
<1> SUFFICES ASSUME IInv, Disturb PROVE IInv'
  OBVIOUS
<1>1. /\ pc' = "failed" /\ disturbed' = TRUE /\ run' = run /\ args' = args /\ node' = node
      /\ source' = source /\ accounts' = accounts /\ appState' = appState
      /\ interrupted' = interrupted
  BY DEF Disturb
<1>2. Nodes' = Nodes /\ \A i : Own(i)' = Own(i)
  BY <1>1, Zenon DEF Nodes, Own
<1>3. Progress' /\ FailsOnlyFor'
  BY <1>1 DEF Progress, KeysProgress, GenesisProgress, CopyProgress, CollectProgress,
              DoneProgress, FailsOnlyFor
<1>4. dirs \in [Node -> Dir] /\ node \in Node /\ source \in Node
  BY DEF IInv, TypeOK
<1>k. KeysLeft'
  BY <1>1, Zenon DEF KeysLeft
<1>5. SUFFICES dirs' \in [Node -> Dir] /\ NoForeignKey' /\ Nested'
  BY <1>1, <1>3, <1>k, Zenon DEF IInv, TypeOK
<1>6. CASE dirs' = dirs
  BY <1>1, <1>2, <1>6 DEF IInv, TypeOK, NoForeignKey, Nested
<1>7. CASE dirs' = [dirs EXCEPT ![node].genesis = Torn]
  <2>1. dirs' \in [Node -> Dir] /\ \A i \in Node : dirs'[i].gentx = dirs[i].gentx
    BY <1>4, <1>7, GenesisReplaced, SMTT(30)
  <2>2. NoForeignKey'
    BY <1>1, <1>2, <2>1, SMTT(30) DEF IInv, NoForeignKey
  <2>3. Nested'
    BY <2>1 DEF IInv, Nested
  <2> QED BY <2>1, <2>2, <2>3
<1>a. CASE \E keys \in Unusable : dirs' = [dirs EXCEPT ![node].account = keys]
  <2>1. dirs' \in [Node -> Dir] /\ \A i \in Node : dirs'[i].gentx = dirs[i].gentx
    BY <1>4, <1>a, AccountReplaced, SMTT(30)
  <2>2. NoForeignKey'
    BY <1>1, <1>2, <2>1, SMTT(30) DEF IInv, NoForeignKey
  <2>3. Nested'
    BY <2>1 DEF IInv, Nested
  <2> QED BY <2>1, <2>2, <2>3
<1>8. ASSUME NEW s \in Node, dirs' = WithGentx(node, s, Torn),
             \A k \in Node : k < node /\ node < s => dirs[k].gentx[s] # Nothing
      PROVE  dirs' \in [Node -> Dir] /\ NoForeignKey' /\ Nested'
  <2>1. /\ dirs' \in [Node -> Dir]
        /\ \A i, j \in Node :
             dirs'[i].gentx[j] = IF i = node /\ j = s THEN Torn ELSE dirs[i].gentx[j]
    BY <1>4, <1>8, GentxReplaced
  <2>2. NoForeignKey'
    <3>1. \A i, j \in Node :
            dirs'[i].gentx[j] \in Gentx => dirs'[i].gentx[j] = dirs[i].gentx[j]
      BY <2>1, FilesDiffer
    <3> QED BY <1>1, <1>2, <3>1 DEF IInv, NoForeignKey
  <2>3. Nested'
    <3> SUFFICES ASSUME NEW i \in Node, NEW j \in Node, NEW k \in Node, k < i, i < j,
                        dirs'[i].gentx[j] # Nothing
                 PROVE  dirs'[k].gentx[j] # Nothing
      BY DEF Nested
    <3>1. CASE i = node /\ j = s
      BY <1>8, <2>1, <3>1, FilesDiffer
    <3>2. CASE ~(i = node /\ j = s)
      BY <2>1, <3>2, FilesDiffer DEF IInv, Nested
    <3> QED BY <3>1, <3>2
  <2> QED BY <2>1, <2>2, <2>3
<1>9. CASE dirs' = [dirs EXCEPT ![node].gentx[node] = Torn]
  <2>1. dirs' = WithGentx(node, node, Torn)
    BY <1>9 DEF WithGentx
  <2> QED BY <1>4, <1>8, <2>1 DEF Node
<1>10. CASE pc = "copy" /\ dirs' = [dirs EXCEPT ![node].gentx[source] = Torn]
  <2>1. dirs' = WithGentx(node, source, Torn)
    BY <1>10 DEF WithGentx
  <2>2. /\ run > 0 /\ args.stakes \in StakeLists /\ node \in Nodes /\ source \in Nodes
        /\ \A i, j \in Nodes : i < node => dirs[i].gentx[j] = Own(j)
    BY <1>10 DEF IInv, Progress, CopyProgress
  <2>3. Own(source) # Nothing
    BY <2>2, OwnTypes, FilesDiffer, Zenon DEF IInv
  <2>4. \A k \in Node : k < node => k \in Nodes
    BY <2>2, NodesAreNodes DEF IInv, Nodes, Node
  <2> QED BY <1>4, <1>8, <2>1, <2>2, <2>3, <2>4
<1> QED BY <1>6, <1>7, <1>a, <1>9, <1>10, Zenon DEF Disturb

---------------------------------------------------------------------------
\* IInv is an invariant of the command.
THEOREM Invariance == Spec => []IInv
<1>1. IInv /\ [Next]_vars => IInv'
  <2> SUFFICES ASSUME IInv, [Next]_vars PROVE IInv'
    OBVIOUS
  <2>1. CASE UNCHANGED vars
    <3>1. /\ run' = run /\ args' = args /\ pc' = pc /\ node' = node /\ source' = source
          /\ dirs' = dirs /\ accounts' = accounts /\ appState' = appState
          /\ disturbed' = disturbed /\ interrupted' = interrupted
      BY <2>1, Zenon DEF vars
    <3>2. /\ Nodes' = Nodes /\ App' = App /\ Blank' = Blank /\ Final' = Final
          /\ \A i : Own(i)' = Own(i) /\ Signed(i)' = Signed(i)
          /\ \A k : RunAccounts(k)' = RunAccounts(k)
      BY <3>1, Zenon DEF Own, Nodes, RunAccounts, Blank, Final, App, Signed
    <3>3. TypeOK' /\ NoForeignKey' /\ Nested' /\ KeysLeft'
      BY <3>1, <3>2, ZenonT(60) DEF IInv, TypeOK, NoForeignKey, Nested, KeysLeft
    <3>4. KeysProgress' /\ GenesisProgress' /\ CopyProgress'
      BY <3>1, <3>2, ZenonT(60) DEF IInv, Progress, KeysProgress, GenesisProgress, CopyProgress
    <3>5. CollectProgress' /\ DoneProgress' /\ FailsOnlyFor'
      BY <3>1, <3>2 DEF IInv, Progress, CollectProgress, DoneProgress, FailsOnlyFor
    <3> QED BY <3>3, <3>4, <3>5 DEF IInv, Progress
  <2> QED BY <2>1, RunEInvariant, KeysUnreadableInvariant, MakeKeysInvariant, RemoveAllInvariant, WriteGentxInvariant,
             InitGenFilesInvariant, CopyGentxInvariant, CollectGenFilesInvariant,
             DisturbInvariant DEF Next
<1> QED BY <1>1, InitInvariant, PTL DEF Spec

\* Every run that reports success has written one genesis, of its own keys and
\* accounts only, whatever earlier runs left and wherever they stopped.
THEOREM SuccessLaunches == Spec => []SuccessIsLaunchable
<1>1. IInv => SuccessIsLaunchable
  <2> SUFFICES ASSUME IInv, pc = "done", NEW i \in Nodes
               PROVE  dirs[i].genesis =
                        [chain |-> run, time |-> run,
                         app |-> [accounts |-> {dirs[j].account : j \in Nodes},
                                  gentxs |-> {[account |-> dirs[j].account, chain |-> run,
                                               stake |-> StakeOf(args.stakes, j)] : j \in Nodes}]]
    BY Zenon DEF SuccessIsLaunchable
  <2>1. \A j \in Nodes : dirs[j].account = <<j, run>> /\ dirs[j].genesis = Final
    BY DEF IInv, Progress, DoneProgress
  <2>2. {dirs[j].account : j \in Nodes} = RunAccounts(args.size)
    BY <2>1 DEF RunAccounts, Nodes
  <2>3. {[account |-> dirs[j].account, chain |-> run, stake |-> StakeOf(args.stakes, j)] : j \in Nodes}
          = {Own(j) : j \in Nodes}
    BY <2>1, Zenon DEF Own
  <2> QED BY <2>1, <2>2, <2>3, Zenon DEF Final, App
<1> QED BY <1>1, Invariance, PTL

\* The states collected for the nodes of a run do not differ.
THEOREM CollectedAlike == Spec => []StatesDoNotDiffer
<1>1. IInv => StatesDoNotDiffer
  <2> SUFFICES ASSUME IInv, pc = "collect", appState # Nothing
               PROVE  Collectable(node) /\ Collected(node) = appState
    BY DEF StatesDoNotDiffer
  <2>1. node > 0
    BY DEF IInv, Progress, CollectProgress, TypeOK, Node
  <2> QED BY <2>1, LaterCollectable, CollectableIff
<1> QED BY <1>1, Invariance, PTL

\* A run that nothing disturbs fails only for its stakes, for a transaction of
\* a larger earlier run, or for keys that an interrupted run left unusable.
THEOREM FailsForReasons == Spec => []FailsOnlyFor
<1>1. IInv => FailsOnlyFor
  BY DEF IInv
<1> QED BY <1>1, Invariance, PTL

\* With at most 1317 validators, the API port being the first to run out, the
\* listeners of all nodes have ports of their own.
THEOREM PortsApart ==
  ASSUME MaxSize <= 1317
  PROVE  Spec => []PortsDistinct
<1>1. IInv => PortsDistinct
  <2> SUFFICES ASSUME IInv, NEW i \in Nodes, NEW j \in Nodes, NEW s \in Services, NEW t \in Services
               PROVE  /\ 0 < Ports(i)[s] /\ Ports(i)[s] < 65536
                      /\ Ports(i)[s] = Ports(j)[t] => i = j /\ s = t
    BY DEF PortsDistinct
  <2>1. i \in Nat /\ i < 1317 /\ j \in Nat /\ j < 1317
    <3>1. args.size \in 0..MaxSize
      BY NodesAreNodes DEF IInv
    <3> QED BY <3>1, TestnetAssumption DEF Nodes
  <2>2. ASSUME NEW n
        PROVE  /\ Ports(n)["p2p"] = 26656 - 3 * n /\ Ports(n)["rpc"] = 26657 - 3 * n
               /\ Ports(n)["proxy"] = 26658 - 3 * n /\ Ports(n)["prometheus"] = 26660 + n
               /\ Ports(n)["grpc"] = 9090 - 2 * n /\ Ports(n)["api"] = 1317 - n
    BY DEF Ports
  <2>3. s \in {"p2p", "rpc", "proxy", "prometheus", "grpc", "api"}
    BY DEF Services
  <2>4. t \in {"p2p", "rpc", "proxy", "prometheus", "grpc", "api"}
    BY DEF Services
  <2>5. 0 < Ports(i)[s] /\ Ports(i)[s] < 65536
    BY <2>1, <2>2, <2>3
  <2>6. Ports(i)[s] = Ports(j)[t] => i = j /\ s = t
    BY <2>1, <2>2, <2>3, <2>4
  <2> QED BY <2>5, <2>6
<1> QED BY <1>1, Invariance, PTL
=============================================================================
