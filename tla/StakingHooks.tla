---------------------------- MODULE StakingHooks ----------------------------
(***************************************************************************)
(* The block hooks: operator actions on the validator set that EndBlocker  *)
(* performs at configured heights (cosmos/app/block_hooks.go, upgrades.go, *)
(* app.go).  They write the records of the staking, slashing and bank      *)
(* modules directly.  A hook that returns an error keeps what it had       *)
(* written; one that panics stops the chain.                               *)
(*                                                                         *)
(* Each block slashes and jails (BeginBlock of slashing), updates the      *)
(* validator set (EndBlock of staking), and then performs the hooks of     *)
(* its height.  The staking, slashing and bank modules are external: only  *)
(* what the hooks rely on is modelled.                                     *)
(***************************************************************************)
EXTENDS Integers, FiniteSets, FiniteSetsExt, Functions, Sequences

CONSTANTS
  Vals,              \* validators
  PowerReduction,    \* tokens of one unit of voting power
  MaxValidators,     \* the staking module's limit on the active set
  HookLists,         \* the lists of hooks a height may have
  InitialStaking,    \* the states the staking module may start in
  MaxHeight          \* bound: blocks

VARIABLES
  staking,   \* records of the staking and bank modules
  info,      \* signing information, which outlives a validator's record
  last,      \* the validators of the last update sent to CometBFT
  hooks,     \* hooks of this height still to be performed
  phase,     \* where in the block the application is
  height

vars == <<staking, info, last, hooks, phase, height>>

\* shares: its DelegatorShares are positive.
Validator ==
  [exists : BOOLEAN, status : {"bonded", "unbonding", "unbonded"},
   tokens : Nat, shares : BOOLEAN, jailed : BOOLEAN, minSelf : Nat]

NoValidator ==
  [exists |-> FALSE, status |-> "unbonded", tokens |-> 0, shares |-> FALSE,
   jailed |-> FALSE, minSelf |-> 0]

\* unbonding: what the pool of tokens not bonded holds for delegators.
\* delegations: the validators whose own account has a record of a delegation
\* to them (blocks carry no delegation by anyone else); started: those of
\* them whose period of rewards starts at this height.
Staking ==
  [val : [Vals -> Validator], index : SUBSET (Vals \X Nat),
   delegations : SUBSET Vals, started : SUBSET Vals,
   bonded : Nat, notBonded : Nat, unbonding : Nat, accounts : Nat]

SigningInfo == {"none", "ok", "tombstoned"}

NoTarget == 0

Hook ==
  [action : {"unjail"}, v : Vals, target : Nat] \cup
  [action : {"add"}, v : Vals, initial : Nat \ {0}, minSelf : Nat] \cup
  [action : {"remove"}, v : Vals, tokens : {"keep", "burn", "send"}] \cup
  [action : {"reconcile"}]

Power(val) == val.tokens \div PowerReduction
Entry(s, v) == <<v, Power(s.val[v])>>

Existing(s) == {v \in Vals : s.val[v].exists}
Bonded(s) == {v \in Existing(s) : s.val[v].status = "bonded"}
NotBonded(s) == Existing(s) \ Bonded(s)
TokensOf(s, V) == SumFunctionOnSet([v \in Vals |-> s.val[v].tokens], V)

\* The power index the staking module keeps: validators that are not jailed.
IndexOf(val) ==
  {<<v, Power(val[v])>> : v \in {w \in Vals : val[w].exists /\ ~val[w].jailed}}

\* What the modules see to in a state that no hook has written yet: the index
\* and the delegations are those of the records, there are no tokens without
\* shares, and the pools hold no tokens that nobody owns.
Regular(s) ==
  /\ s.index = IndexOf(s.val)
  /\ s.delegations = {v \in Vals : s.val[v].shares} /\ s.started = {}
  /\ \A v \in Vals : /\ ~s.val[v].exists => s.val[v] = NoValidator
                     /\ ~s.val[v].shares => s.val[v].tokens = 0
  /\ s.bonded <= TokensOf(s, Bonded(s))
  /\ s.notBonded <= TokensOf(s, NotBonded(s)) + s.unbonding

\* The validators are finitely many, in Tarski's words: of any sets of them one
\* contains no other.  It is the form in which proofs by induction use it.
Finite(S) ==
  \A B \in SUBSET SUBSET S :
    B # {} => \E U \in B : \A W \in B : W \subseteq U => W = U

ASSUME StakingHooksAssumption ==
  /\ Finite(Vals)
  /\ PowerReduction \in Nat \ {0} /\ MaxValidators \in Nat \ {0}
  /\ HookLists \subseteq Seq(Hook)
  /\ InitialStaking \subseteq {s \in Staking : Regular(s)}
  /\ MaxHeight \in Nat

Init ==
  /\ staking \in InitialStaking
  /\ last = {v \in Bonded(staking) : ~staking.val[v].jailed}
  /\ info = [v \in Vals |-> IF staking.val[v].status # "unbonded" THEN "ok" ELSE "none"]
  /\ hooks = <<>> /\ phase = "begin" /\ height = 1

---------------------------------------------------------------------------
\* The modules around the hooks.

Halt ==
  /\ phase' = "halted" /\ hooks' = <<>>
  /\ UNCHANGED <<staking, info, last, height>>

\* The hooks of the height are those of the node's configuration.
BeginBlock ==
  /\ phase = "begin" /\ height <= MaxHeight
  /\ hooks' \in HookLists
  /\ phase' = "end"
  /\ UNCHANGED <<staking, info, last, height>>

\* The same when v has missed too many blocks: it is slashed, its tokens being
\* burnt from the pool, and jailed.
BeginBlockSlash(v) ==
  /\ phase = "begin" /\ height <= MaxHeight
  /\ v \in last /\ ~staking.val[v].jailed
  /\ \E amount \in 0..staking.val[v].tokens :
       IF amount > staking.bonded
       THEN Halt
       ELSE /\ staking' = [staking EXCEPT
                 !.val[v].tokens = @ - amount, !.val[v].jailed = TRUE,
                 !.index = @ \ {Entry(staking, v)}, !.bonded = @ - amount]
            /\ hooks' \in HookLists
            /\ phase' = "end"
            /\ UNCHANGED <<info, last, height>>

\* The validators with power, the strongest of them if there are too many.
ActiveSets(s) ==
  LET able == {v \in Vals : \E e \in s.index : e[1] = v /\ Power(s.val[v]) > 0}
  IN  {S \in SUBSET able :
         /\ Cardinality(S) = Min({Cardinality(able), MaxValidators})
         /\ \A v \in S, w \in able \ S : Power(s.val[v]) >= Power(s.val[w])}

\* The update of the validator set moves the difference between the pools.
Moved(s, active) ==
  TokensOf(s, active \ Bonded(s)) - TokensOf(s, last \ active)

StatusIn(val, active) ==
  [v \in Vals |->
     IF v \in active THEN [val[v] EXCEPT !.status = "bonded"]
     ELSE IF v \in last THEN [val[v] EXCEPT !.status = "unbonding"]
     ELSE val[v]]

\* Validators whose unbonding period is over; without delegations they go.
Matured(val, mature) ==
  [v \in Vals |->
     IF v \notin mature THEN val[v]
     ELSE IF val[v].shares THEN [val[v] EXCEPT !.status = "unbonded"]
     ELSE NoValidator]

\* The module reads the index from the top, as far as the limit or the first
\* validator without power; a wrong entry anywhere counts here.
StakingPanics(s, active) ==
  \/ \E e \in s.index : ~s.val[e[1]].exists \/ s.val[e[1]].jailed
  \/ \E v \in last \ active : ~s.val[v].exists \/ s.val[v].status # "bonded"

StakingEndBlock ==
  /\ phase = "end"
  /\ \E active \in ActiveSets(staking) \ {{}},
        mature \in SUBSET {v \in Vals : staking.val[v].status = "unbonding"},
        paid \in {0, staking.unbonding} :
       LET moved == Moved(staking, active)
           val == StatusIn(staking.val, active)
           gone == Matured(val, mature \ active)
       IN  IF \/ StakingPanics(staking, active)
              \/ staking.bonded + moved < 0 \/ staking.notBonded - moved < 0
           THEN Halt
           ELSE /\ paid <= staking.notBonded - moved
                /\ staking' = [staking EXCEPT
                     !.val = gone,
                     !.index = {e \in @ : gone[e[1]].exists},
                     !.bonded = @ + moved, !.notBonded = @ - moved - paid,
                     !.unbonding = @ - paid, !.accounts = @ + paid]
                /\ info' = [v \in Vals |-> IF v \in active /\ info[v] = "none"
                                           THEN "ok" ELSE info[v]]
                /\ last' = active
                /\ phase' = "hooks"
                /\ UNCHANGED <<hooks, height>>

---------------------------------------------------------------------------
\* setValidatorBalance: mints what is missing up to the target, and delegates
\* it.  The coins stay with the account when the delegation is refused.

\* A delegation is changed after its rewards were paid out, for which the
\* distribution module divides by the shares of the validator, unless the
\* period of rewards starts at this height.
DelegatePanics(s, v, target) ==
  /\ s.val[v].exists /\ s.val[v].tokens < target
  /\ v \in s.delegations \ s.started /\ ~s.val[v].shares

DelegateAllowed(s, v) == s.val[v].exists /\ (s.val[v].tokens = 0 => ~s.val[v].shares)

BalanceSet(s, v, target) == s.val[v].tokens >= target \/ DelegateAllowed(s, v)

Delegated(s, v, amount) ==
  LET t == [s EXCEPT !.val[v].tokens = @ + amount, !.val[v].shares = TRUE,
                     !.delegations = @ \cup {v}, !.started = @ \cup {v}]
  IN  [t EXCEPT
         !.index = IF s.val[v].jailed THEN @ ELSE (@ \ {Entry(s, v)}) \cup {Entry(t, v)},
         !.bonded = IF v \in Bonded(s) THEN @ + amount ELSE @,
         !.notBonded = IF v \in Bonded(s) THEN @ ELSE @ + amount]

\* Mutant: the difference is taken the wrong way round.
SetBalanceNegative(s, v, target) ==
  IF s.val[v].tokens >= target THEN s
  ELSE LET amount == s.val[v].tokens - target
       IN  IF DelegateAllowed(s, v) THEN Delegated(s, v, amount)
           ELSE [s EXCEPT !.accounts = @ + amount]

SetValidatorBalance(s, v, target) ==
  IF s.val[v].tokens >= target THEN s
  ELSE LET amount == target - s.val[v].tokens
       IN  IF DelegateAllowed(s, v) THEN Delegated(s, v, amount)
           ELSE [s EXCEPT !.accounts = @ + amount]

---------------------------------------------------------------------------
\* The hooks.

\* The first hook of the list is done.
Performed == hooks' = Tail(hooks) /\ UNCHANGED <<last, phase, height>>

Scheduled(action) ==
  phase = "hooks" /\ hooks # <<>> /\ Head(hooks).action = action

\* Unjail of the slashing module, which ExecuteUnjailing calls for a validator
\* with signing information.  It refuses one without a self-delegation; then,
\* before anything else, it works out what the self-delegation is worth, for
\* which it divides by the shares of the validator; then it refuses one that has
\* too little delegated to itself, is not jailed or is tombstoned.
UnjailPanics(s, v) ==
  info[v] # "none" /\ v \in s.delegations /\ ~s.val[v].shares

UnjailAccepted(s, v) ==
  /\ v \in s.delegations /\ s.val[v].tokens >= s.val[v].minSelf
  /\ s.val[v].jailed /\ info[v] = "ok"

\* Mutant: a hook that fails is a panic.
UnjailingOrHalt ==
  LET v == Head(hooks).v
      topped == SetValidatorBalance(staking, v, Head(hooks).target)
  IN  /\ Scheduled("unjail")
      /\ IF staking.val[v].exists /\ UnjailAccepted(topped, v)
         THEN /\ staking' = [topped EXCEPT !.val[v].jailed = FALSE,
                                         !.index = @ \cup {Entry(topped, v)}]
              /\ Performed /\ UNCHANGED info
         ELSE Halt

ExecuteUnjailing ==
  LET v == Head(hooks).v
      topped == SetValidatorBalance(staking, v, Head(hooks).target)
      unjailed == [topped EXCEPT !.val[v].jailed = FALSE,
                                 !.index = @ \cup {Entry(topped, v)}]
  IN  /\ Scheduled("unjail")
      /\ IF \/ DelegatePanics(staking, v, Head(hooks).target)
            \/ /\ staking.val[v].exists /\ BalanceSet(staking, v, Head(hooks).target)
               /\ UnjailPanics(topped, v)
         THEN Halt
         ELSE /\ staking' =
                   IF ~staking.val[v].exists THEN staking
                   ELSE IF /\ BalanceSet(staking, v, Head(hooks).target)
                           /\ UnjailAccepted(topped, v)
                   THEN unjailed
                   ELSE topped
              /\ Performed /\ UNCHANGED info

\* ExecuteAddValidator.  An existing validator is left alone; a new one is
\* recorded only when its minimum self-delegation is positive.
ExecuteAddValidator ==
  LET v == Head(hooks).v
      created == [staking EXCEPT
        !.val[v] = [exists |-> TRUE, status |-> "bonded", tokens |-> 0,
                    shares |-> FALSE, jailed |-> FALSE,
                    minSelf |-> Head(hooks).minSelf],
        !.index = @ \cup {<<v, 0>>}]
  IN  /\ Scheduled("add")
      /\ \/ /\ staking.val[v].exists
            /\ Performed /\ UNCHANGED <<staking, info>>
         \/ /\ ~staking.val[v].exists /\ Head(hooks).minSelf > 0
            /\ IF DelegatePanics(created, v, Head(hooks).initial)
               THEN Halt
               ELSE /\ staking' = SetValidatorBalance(created, v, Head(hooks).initial)
                    /\ info' = [info EXCEPT ![v] = IF @ = "none" THEN "ok" ELSE @]
                    /\ Performed
         \/ /\ ~staking.val[v].exists /\ Head(hooks).minSelf = 0
            /\ staking' = SetValidatorBalance(staking, v, Head(hooks).initial)
            /\ Performed /\ UNCHANGED info

\* handleValidatorTokens: what is taken from the pool that holds the tokens,
\* no more than the pool has.
Pool(s, v) == IF v \in Bonded(s) THEN s.bonded ELSE s.notBonded

Taken(s, v, tokens) ==
  IF tokens = "keep" THEN 0 ELSE Min({s.val[v].tokens, Pool(s, v)})

HandleValidatorTokens(s, v, tokens) ==
  LET amount == Taken(s, v, tokens)
  IN  [s EXCEPT
         !.bonded = IF v \in Bonded(s) THEN @ - amount ELSE @,
         !.notBonded = IF v \in Bonded(s) THEN @ ELSE @ - amount,
         !.accounts = IF tokens = "send" THEN @ + amount ELSE @]

\* Mutant: the index entry is looked up after the tokens are gone.
RemovedLate(s, v, tokens) ==
  LET taken == Taken(s, v, tokens) > 0
      paid == [HandleValidatorTokens(s, v, tokens) EXCEPT
                 !.val[v].jailed = TRUE,
                 !.val[v].tokens = IF taken THEN 0 ELSE @,
                 !.val[v].shares = @ /\ ~taken]
  IN  [paid EXCEPT !.index = IF s.val[v].jailed THEN @ ELSE @ \ {Entry(paid, v)}]

\* ExecuteRemoveValidator: tombstones, removes from the power index, takes the
\* tokens, and jails.  A missing validator or signing info is a panic.
Removed(s, v, tokens) ==
  LET taken == Taken(s, v, tokens) > 0
      record == [s.val[v] EXCEPT !.jailed = TRUE, !.tokens = IF taken THEN 0 ELSE @,
                                 !.shares = @ /\ ~taken]
  IN  [HandleValidatorTokens(s, v, tokens) EXCEPT
         !.index = IF s.val[v].jailed THEN @ ELSE @ \ {Entry(s, v)},
         !.val[v] = record]

ExecuteRemoveValidator ==
  LET v == Head(hooks).v
  IN  /\ Scheduled("remove")
      /\ IF ~staking.val[v].exists \/ info[v] = "none"
         THEN Halt
         ELSE /\ staking' = Removed(staking, v, Head(hooks).tokens)
              /\ info' = [info EXCEPT ![v] = "tombstoned"]
              /\ Performed

\* Mutant: the unbonding delegations are not counted.
OwedToValidators(s) == TokensOf(s, NotBonded(s))

\* ExecuteReconcileStakingPools: mints what the pools are short of.
Owed(s) == TokensOf(s, NotBonded(s)) + s.unbonding

Reconciled(s) ==
  [s EXCEPT !.bonded = Max({@, TokensOf(s, Bonded(s))}),
            !.notBonded = Max({@, Owed(s)})]

ExecuteReconcileStakingPools ==
  /\ Scheduled("reconcile")
  /\ staking' = Reconciled(staking)
  /\ Performed /\ UNCHANGED info

EndBlockerDone ==
  /\ phase = "hooks" /\ hooks = <<>>
  /\ phase' = "begin" /\ height' = height + 1
  /\ staking' = [staking EXCEPT !.started = {}]
  /\ UNCHANGED <<info, last, hooks>>

\* The chain has stopped, as it also does when no validator is left, or the
\* bound is reached.
Stopped ==
  /\ \/ phase = "halted" \/ height > MaxHeight
     \/ phase = "end" /\ ActiveSets(staking) = {{}}
  /\ UNCHANGED vars

Next ==
  \/ BeginBlock \/ \E v \in Vals : BeginBlockSlash(v)
  \/ StakingEndBlock
  \/ ExecuteUnjailing \/ ExecuteAddValidator \/ ExecuteRemoveValidator
  \/ ExecuteReconcileStakingPools
  \/ EndBlockerDone \/ Stopped

Spec == Init /\ [][Next]_vars

---------------------------------------------------------------------------
\* Properties.

Deficit(s) ==
  Max({0, TokensOf(s, Bonded(s)) - s.bonded}) +
  Max({0, TokensOf(s, NotBonded(s)) + s.unbonding - s.notBonded})

Supply(s) == s.bonded + s.notBonded + s.accounts

\* Every variable of the hooks has its type.
TypeOK ==
  /\ staking \in Staking
  /\ info \in [Vals -> SigningInfo]
  /\ last \subseteq Vals
  /\ hooks \in Seq(Hook)
  /\ phase \in {"begin", "end", "hooks", "halted"}
  /\ height \in 1..MaxHeight + 1

\* Whatever the hooks wrote, the power index holds exactly the validators that
\* are not jailed, each at the power of its record: the staking module panics
\* on a jailed validator in the index, and misses one filed elsewhere.
PowerIndexMatches == staking.index = IndexOf(staking.val)

\* A removal that took the tokens of v, with its shares, and left the record of
\* its self-delegation.
Emptied(v) ==
  info[v] = "tombstoned" /\ v \in staking.delegations /\ ~staking.val[v].shares

\* With funded pools, the chain stops only at a removal of a validator that
\* has no record or no signing information, or at a hook that unjails (with a
\* target or without) or adds again a validator that an earlier removal has
\* emptied: the staking, slashing and distribution modules meet no other state
\* that the hooks have made inconsistent.
OnlyRemovalHalts ==
  [][phase' = "halted" /\ phase # "halted" /\ Deficit(staking) = 0 =>
       \/ /\ Scheduled("remove")
          /\ ~staking.val[Head(hooks).v].exists \/ info[Head(hooks).v] = "none"
       \/ (Scheduled("unjail") \/ Scheduled("add")) /\ Emptied(Head(hooks).v)]_vars

\* No step makes the shortfall of the pools larger, so that funded pools hold
\* what the validator records and the unbonding delegations say, and a
\* reconciliation ends a shortfall without minting more than is short.
ReconcileRepairs ==
  [][/\ Deficit(staking') <= Deficit(staking)
     /\ Scheduled("reconcile") =>
          /\ Deficit(staking') = 0
          /\ Supply(staking') = Supply(staking) + Deficit(staking)]_vars
=============================================================================
