------------------------------ MODULE Testnet -------------------------------
(***************************************************************************)
(* The command "multi-node", which writes the directories of a testnet     *)
(* (cosmos/cmd/nexusd/cmd/testnet_multi_node.go).  It is run several times *)
(* into the same output directory, with different numbers of validators,   *)
(* and a run may be interrupted or fail at any of its writes: the files of *)
(* earlier runs are what a later run finds.                                *)
(*                                                                         *)
(* Node keys are kept between runs and account keys are made anew, so that *)
(* a node stands for its node id, and an account is known by the run that  *)
(* made its key.  A run also stands for its chain id and genesis time.     *)
(* genutil, the keyring and the file system are external.                  *)
(***************************************************************************)
EXTENDS Integers, Sequences, FiniteSets

CONSTANTS
  MaxSize,       \* the largest value of --v
  Sizes,         \* values of --v
  StakeLists,    \* values of --validators-stake-amount
  NotANumber,    \* an entry of such a list that does not parse
  Balance,       \* staking tokens of an account
  DefaultStake,
  MaxRuns        \* bound: runs of the command

ASSUME TestnetAssumption ==
  /\ MaxSize \in Nat \ {0} /\ Sizes \subseteq 0..MaxSize
  /\ Balance \in Nat /\ DefaultStake \in 1..Balance /\ MaxRuns \in Nat

VARIABLES
  run,       \* the number of the run
  args,      \* its arguments: size and stakes
  pc,        \* what it is doing
  node,      \* the node it is doing it for
  source,    \* in a copy, the node whose transaction is copied
  dirs,      \* the directories of the nodes
  accounts,  \* genAccounts and genBalances
  appState,  \* the canonical application state of collectGenFiles
  disturbed, \* whether the run was interrupted, or a write of it failed
  interrupted \* history: whether a run before it was, since there are directories

vars == <<run, args, pc, node, source, dirs, accounts, appState, disturbed, interrupted>>

Node == 0..MaxSize - 1

Account == Node \X (1..MaxRuns)

\* RunE: an entry of the list that does not parse is left out, so that later
\* entries move up; a validator without an entry has the default.
StakeOf(stakes, i) ==
  LET Parsed(entry) == entry # NotANumber
      amounts == SelectSeq(stakes, Parsed)
  IN  IF i < Len(amounts) THEN amounts[i + 1] ELSE DefaultStake

Stake == {StakeOf(stakes, i) : stakes \in StakeLists, i \in Node}

\* A genesis transaction: its validator's account, chain id and stake.
Gentx == [account : Account, chain : 1..MaxRuns, stake : Stake]

\* No file, or no state; and what an interrupted write leaves of a file.
Nothing == [nothing |-> TRUE]
Torn == [torn |-> TRUE]

\* The keys of a node: none; what an interrupted write leaves of the node key
\* or of the account's record in the keyring, neither of which is replaced
\* atomically; and a validator key whose state file is not written yet.  A node
\* with all its keys is known by its account.
NoAccount == <<>>
TornKeys == <<"torn">>
Stateless == <<"stateless">>
Unusable == {TornKeys, Stateless}

AppState == [accounts : SUBSET Account, gentxs : SUBSET Gentx]

Genesis == [chain : 1..MaxRuns, time : 0..MaxRuns, app : AppState]

Dir ==
  [account : {NoAccount} \cup Unusable \cup Account,
   gentx : [Node -> {Nothing, Torn} \cup Gentx],
   genesis : {Nothing, Torn} \cup Genesis]

NoDir ==
  [account |-> NoAccount, gentx |-> [i \in Node |-> Nothing], genesis |-> Nothing]

NoArgs == [size |-> 0, stakes |-> <<>>]

NoDirs == [i \in Node |-> NoDir]

\* The nodes of the run.
Nodes == 0..args.size - 1

Init ==
  /\ run = 0 /\ args = NoArgs /\ pc = "idle" /\ node = 0 /\ source = 0
  /\ dirs = NoDirs
  /\ accounts = {} /\ appState = Nothing /\ disturbed = FALSE /\ interrupted = FALSE

---------------------------------------------------------------------------
\* sdk.NewCoin panics on a negative amount.
RunE ==
  /\ pc \in {"idle", "done", "failed"} /\ run < MaxRuns
  /\ \E size \in Sizes, stakes \in StakeLists :
       /\ args' = [size |-> size, stakes |-> stakes]
       /\ pc' = IF \E k \in DOMAIN stakes : stakes[k] # NotANumber /\ stakes[k] < 0 THEN "failed"
                ELSE IF size = 0 THEN "done" ELSE "keys"
  /\ run' = run + 1
  /\ node' = 0 /\ source' = 0 /\ accounts' = {} /\ appState' = Nothing
  /\ disturbed' = FALSE /\ interrupted' = ((interrupted \/ disturbed) /\ dirs # NoDirs)
  /\ UNCHANGED dirs

\* The loop goes on with the next node, or the next part begins.
Onward(part, next) ==
  IF node + 1 < args.size
  THEN pc' = part /\ node' = node + 1
  ELSE pc' = next /\ node' = 0

---------------------------------------------------------------------------
\* initTestnetFiles.

\* Mutant: what is left after unreadable keys is kept.
KeysUnreadableKept ==
  /\ pc = "keys" /\ dirs[node].account \in Unusable
  /\ pc' = "failed"
  /\ UNCHANGED <<run, args, node, source, dirs, accounts, appState, disturbed, interrupted>>

\* Keys that an earlier run left torn are an error, which removes the output
\* directory; without its state, the validator key ends the process.
KeysUnreadable ==
  /\ pc = "keys" /\ dirs[node].account \in Unusable
  /\ dirs' = IF dirs[node].account = TornKeys THEN NoDirs ELSE dirs
  /\ pc' = "failed"
  /\ UNCHANGED <<run, args, node, source, accounts, appState, disturbed, interrupted>>

\* The node key is found or made; the account key is replaced.
MakeKeys ==
  /\ pc = "keys" /\ dirs[node].account \notin Unusable
  /\ dirs' = [dirs EXCEPT ![node].account = <<node, run>>]
  /\ pc' = "gentx"
  /\ UNCHANGED <<run, args, node, source, accounts, appState, disturbed, interrupted>>

\* A write of these steps fails, which removes the output directory.
RemoveAll ==
  /\ pc = "keys"
  /\ dirs' = NoDirs
  /\ pc' = "failed" /\ disturbed' = TRUE
  /\ UNCHANGED <<run, args, node, source, accounts, appState, interrupted>>

\* The account of this run is funded and signs the transaction.
WriteGentx ==
  /\ pc = "gentx"
  /\ dirs' = [dirs EXCEPT ![node].gentx[node] =
       [account |-> dirs[node].account, chain |-> run, stake |-> StakeOf(args.stakes, node)]]
  /\ accounts' = accounts \cup {dirs[node].account}
  /\ Onward("keys", "genesis")
  /\ UNCHANGED <<run, args, source, appState, disturbed, interrupted>>

\* initGenFiles: the same genesis, without transactions or a time of its own.
InitGenFiles ==
  /\ pc = "genesis"
  /\ dirs' = [dirs EXCEPT ![node].genesis =
       [chain |-> run, time |-> 0, app |-> [accounts |-> accounts, gentxs |-> {}]]]
  /\ Onward("genesis", "copy")
  /\ UNCHANGED <<run, args, source, accounts, appState, disturbed, interrupted>>

\* Mutant: only files of later nodes count as outside the directory.
CopiedForward(i, j) == IF j < i THEN dirs[i].gentx[j] ELSE dirs[j].gentx[j]

\* isSubDir and copyFile: the file of node j as it is in directory i.
Copied(i, j) == dirs[j].gentx[j]

CopyGentx ==
  /\ pc = "copy"
  /\ dirs' = [dirs EXCEPT ![node].gentx[source] = Copied(node, source)]
  /\ IF source + 1 < args.size
     THEN source' = source + 1 /\ UNCHANGED <<pc, node>>
     ELSE source' = 0 /\ Onward("copy", "collect")
  /\ UNCHANGED <<run, args, accounts, appState, disturbed, interrupted>>

\* GenAppStateFromConfig takes every transaction of the directory, and wants
\* its account to be in the genesis with no less than the stake.  A stake of
\* nothing is no error here.
GentxAccepted(g, app) ==
  /\ g # Torn
  /\ g.account \in app.accounts /\ g.stake <= Balance

Gentxs(i) == {dirs[i].gentx[j] : j \in Node} \ {Nothing}

Collectable(i) == \A g \in Gentxs(i) : GentxAccepted(g, dirs[i].genesis.app)

Collected(i) == [dirs[i].genesis.app EXCEPT !.gentxs = Gentxs(i)]

\* Mutant: the time is taken for each node.
GenTimeOfNode(i) == IF i = 0 THEN run ELSE 0

GenTime(i) == run

\* collectGenFiles: the state of the first node is written to every node.
CollectGenFiles ==
  /\ pc = "collect"
  /\ IF Collectable(node)
     THEN /\ appState' = IF appState = Nothing THEN Collected(node) ELSE appState
          /\ dirs' = [dirs EXCEPT ![node].genesis =
               [chain |-> run, time |-> GenTime(node), app |-> appState']]
          /\ Onward("collect", "done")
     ELSE /\ pc' = "failed"
          /\ UNCHANGED <<dirs, node, appState>>
  /\ UNCHANGED <<run, args, source, accounts, disturbed, interrupted>>

\* The run is killed, or a write fails, and may leave part of the file.
Disturb ==
  /\ pc \in {"keys", "gentx", "genesis", "copy", "collect"}
  /\ \/ UNCHANGED dirs
     \/ /\ pc = "keys"
        /\ \E keys \in Unusable :
             /\ keys = Stateless => dirs[node].account = NoAccount
             /\ dirs' = [dirs EXCEPT ![node].account = keys]
     \/ /\ pc = "gentx"
        /\ dirs' = [dirs EXCEPT ![node].gentx[node] = Torn]
     \/ /\ pc \in {"genesis", "collect"}
        /\ dirs' = [dirs EXCEPT ![node].genesis = Torn]
     \/ /\ pc = "copy" /\ node # source
        /\ dirs' = [dirs EXCEPT ![node].gentx[source] = Torn]
  /\ pc' = "failed" /\ disturbed' = TRUE
  /\ UNCHANGED <<run, args, node, source, accounts, appState, interrupted>>

Next ==
  \/ RunE \/ KeysUnreadable \/ MakeKeys \/ RemoveAll \/ WriteGentx \/ InitGenFiles \/ CopyGentx
  \/ CollectGenFiles \/ Disturb

Spec == Init /\ [][Next]_vars

---------------------------------------------------------------------------
\* The ports of a node in config.toml and app.toml, without --list-ports.

\* Mutant: nodes are two ports apart.
PortsTwoApart(i) ==
  [p2p |-> 26656 - 2 * i, rpc |-> 26657 - 2 * i, proxy |-> 26658 - 2 * i,
   prometheus |-> 26660 + i, grpc |-> 9090 - 2 * i, api |-> 1317 - i]

Ports(i) ==
  [p2p |-> 26656 - 3 * i, rpc |-> 26657 - 3 * i, proxy |-> 26658 - 3 * i,
   prometheus |-> 26660 + i, grpc |-> 9090 - 2 * i, api |-> 1317 - i]

Services == {"p2p", "rpc", "proxy", "prometheus", "grpc", "api"}

---------------------------------------------------------------------------
\* Properties.

\* Every variable of the command has its type.
TypeOK ==
  /\ run \in 0..MaxRuns
  /\ args \in [size : Sizes \cup {0}, stakes : StakeLists \cup {<<>>}]
  /\ pc \in {"idle", "keys", "gentx", "genesis", "copy", "collect", "done", "failed"}
  /\ node \in Node /\ source \in Node
  /\ dirs \in [Node -> Dir]
  /\ accounts \subseteq Account
  /\ appState \in {Nothing} \cup AppState
  /\ disturbed \in BOOLEAN /\ interrupted \in BOOLEAN

\* Whatever earlier runs left, a run that reports success has written the same
\* genesis to all its directories: its transactions are those of the keys in
\* the directories, and only those, for its chain id, and their accounts are
\* funded.  A success does not say that the stakes are enough: one of nothing,
\* or stakes all below a unit of power, are left for InitChain to refuse.
SuccessIsLaunchable ==
  LET Own(j) == [account |-> dirs[j].account, chain |-> run, stake |-> StakeOf(args.stakes, j)]
      app == [accounts |-> {dirs[j].account : j \in Nodes}, gentxs |-> {Own(j) : j \in Nodes}]
  IN  pc = "done" =>
        \A i \in Nodes : dirs[i].genesis = [chain |-> run, time |-> run, app |-> app]

\* "set the canonical application state (they should not differ)": what is
\* collected for a later node is what was collected for the first.
StatesDoNotDiffer ==
  pc = "collect" /\ appState # Nothing => Collectable(node) /\ Collected(node) = appState

\* A run that is not disturbed fails only because of its stakes, because an
\* earlier run of more validators left a transaction that is now a stranger's,
\* or because an earlier run was interrupted while it wrote the keys of a node.
\* In the last case either the output directory is removed, so that the run
\* after it cannot fail for this reason, or a validator key is without its state
\* file, which nothing repairs.  Torn transactions and genesis files, and runs
\* interrupted elsewhere, never keep a later run from succeeding.
FailsOnlyFor ==
  pc = "failed" /\ ~disturbed =>
    \/ interrupted /\ (dirs = NoDirs \/ dirs[node].account = Stateless)
    \/ \E i \in Nodes : ~(StakeOf(args.stakes, i) <= Balance)
    \/ \E k \in DOMAIN args.stakes : args.stakes[k] # NotANumber /\ args.stakes[k] < 0
    \/ \E i \in Nodes, j \in Node \ Nodes : dirs[i].gentx[j] # Nothing

\* No two of these listeners of the nodes of a run share a port, and every port
\* is one.  (The profiler's, which the command leaves at its default for all
\* nodes alike, is not among them.)
PortsDistinct ==
  \A i, j \in Nodes :
    LET p == Ports(i)
        q == Ports(j)
    IN  \A s, t \in Services :
          /\ 0 < p[s] /\ p[s] < 65536
          /\ p[s] = q[t] => i = j /\ s = t
=============================================================================
