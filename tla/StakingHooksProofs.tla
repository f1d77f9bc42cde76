------------------------ MODULE StakingHooksProofs --------------------------
(***************************************************************************)
(* The update of the validator set, the block hooks and the modules around *)
(* them keep the records of the validators sound, for any set of           *)
(* validators, hooks and heights.                                          *)
(***************************************************************************)
EXTENDS StakingFacts

\* The time a leaf may take.
USE SMTT(30)

---------------------------------------------------------------------------
\* The update of the validator set.

\* Everyone in the new set exists, has power, and is not jailed.
LEMMA ActiveExist ==
  ASSUME NEW s, NEW val, s.index = IndexOf(val), NEW active \in ActiveSets(s)
  PROVE  /\ active \in SUBSET Vals
         /\ \A v \in active : val[v].exists /\ ~val[v].jailed /\ Power(s.val[v]) > 0
  BY DEF ActiveSets, IndexOf

\* Tokens move between the pools as validators move between the sets.
LEMMA MovedGaps ==
  ASSUME NEW s \in Staking, NEW t \in Staking, NEW active \in SUBSET Existing(s),
         last \subseteq Bonded(s), NEW paid \in Nat,
         Bonded(t) = (Bonded(s) \ (last \ active)) \cup (active \ Bonded(s)),
         NotBonded(t) \subseteq
           (NotBonded(s) \ (active \ Bonded(s))) \cup (last \ active),
         \A v \in Bonded(t) \cup NotBonded(t) : s.val[v].tokens = t.val[v].tokens,
         \A v \in Vals \ (Bonded(t) \cup NotBonded(t)) : s.val[v].tokens = 0,
         t.bonded = s.bonded + Moved(s, active),
         t.notBonded = s.notBonded - Moved(s, active) - paid,
         t.unbonding = s.unbonding - paid
  PROVE  BondedGap(t) = BondedGap(s) /\ OwedGap(t) = OwedGap(s)
<1> DEFINE A == active \ Bonded(s)
           D == last \ active
           B == Bonded(s) \ D
           C == NotBonded(s) \ A
           N == NotBonded(t)
           R == (C \cup D) \ N
           Tok(V) == TokensOf(s, V)
<1>1. /\ s.val \in Records /\ Bonded(s) \in SUBSET Vals /\ NotBonded(s) \in SUBSET Vals
      /\ N \in SUBSET Vals /\ Bonded(t) \in SUBSET Vals
  BY GapsInt
<1>2. /\ A \in SUBSET NotBonded(s) /\ D \in SUBSET Bonded(s)
      /\ A \in SUBSET Vals /\ B \in SUBSET Vals /\ C \in SUBSET Vals /\ D \in SUBSET Vals
      /\ R \in SUBSET Vals
  BY <1>1 DEF NotBonded
<1>3. /\ Bonded(s) = B \cup D /\ B \cap D = {} /\ Bonded(t) = B \cup A /\ B \cap A = {}
      /\ NotBonded(s) = C \cup A /\ C \cap A = {}
      /\ C \cup D = N \cup R /\ N \cap R = {} /\ C \cap D = {}
  BY DEF NotBonded
<1>4. /\ Tok(B \cup D) = Tok(B) + Tok(D) /\ Tok(B \cup A) = Tok(B) + Tok(A)
      /\ Tok(C \cup A) = Tok(C) + Tok(A) /\ Tok(C \cup D) = Tok(C) + Tok(D)
      /\ Tok(N \cup R) = Tok(N) + Tok(R)
  <2> HIDE DEF A, B, C, D, N, R
  <2> QED
    BY <1>1, <1>2, <1>3, TokensSplit, ZenonT(60)
<1>5. /\ Tok(Bonded(s)) = Tok(B) + Tok(D) /\ Tok(Bonded(t)) = Tok(B) + Tok(A)
      /\ Tok(NotBonded(s)) = Tok(C) + Tok(A) /\ Tok(C) + Tok(D) = Tok(N) + Tok(R)
  <2> HIDE DEF A, B, C, D, N, R, Tok
  <2> QED
    BY <1>3, <1>4, Zenon
<1>6. Tok(R) = 0
  <2>1. R \cap Bonded(t) = {} /\ R \cap N = {} /\ N = NotBonded(t)
    <3>1. R \subseteq C \cup D /\ C \cap B = {} /\ D \cap A = {} /\ R \cap N = {}
      BY DEF NotBonded
    <3> HIDE DEF A, B, C, D, R
    <3> QED
      BY <1>3, <3>1
  <2>2. \A v \in R : s.val[v].tokens = 0
    <3> HIDE DEF A, B, C, D, R, N
    <3> QED
      BY <1>2, <2>1
  <2> HIDE DEF R
  <2> QED
    BY <1>2, <2>2, TokensZero
<1>7. TokensOf(t, Bonded(t)) = Tok(Bonded(t)) /\ TokensOf(t, N) = Tok(N)
  BY <1>1, TokensSame
<1>8. /\ Tok(A) \in Nat /\ Tok(B) \in Nat /\ Tok(C) \in Nat /\ Tok(D) \in Nat /\ Tok(N) \in Nat
  BY <1>1, TokensNat
<1>9. Moved(s, active) = Tok(A) - Tok(D)
  BY DEF Moved
<1>10. /\ BondedGap(t) = Tok(Bonded(t)) - t.bonded
       /\ OwedGap(t) = Tok(N) + t.unbonding - t.notBonded
  BY <1>7, GapsInt, Zenon
<1>11. /\ BondedGap(s) = Tok(Bonded(s)) - s.bonded
       /\ OwedGap(s) = Tok(NotBonded(s)) + s.unbonding - s.notBonded
       /\ s.bonded \in Nat /\ s.notBonded \in Nat /\ s.unbonding \in Nat
  BY GapsInt
<1> HIDE DEF Tok, A, B, C, D, N, R
<1> QED
  BY <1>5, <1>6, <1>8, <1>9, <1>10, <1>11

\* The fields of the state after an update, in which the validators of mature
\* have finished to unbond, and paid is what their delegators get back.
HasUpdated(s, t, active, mature, paid) ==
  /\ t \in Staking
  /\ t.val = Matured(StatusIn(s.val, active), mature \ active)
  /\ t.index = {e \in s.index : t.val[e[1]].exists}
  /\ t.delegations = s.delegations
  /\ t.bonded = s.bonded + Moved(s, active)
  /\ t.notBonded = s.notBonded - Moved(s, active) - paid
  /\ t.unbonding = s.unbonding - paid

\* The record of v before and after the update.
RecordFollows(s, t, active, v) ==
  /\ t.val[v].exists =>
       /\ s.val[v].exists /\ t.val[v].tokens = s.val[v].tokens
       /\ t.val[v].jailed = s.val[v].jailed /\ t.val[v].shares = s.val[v].shares
  /\ ~t.val[v].exists =>
       /\ ~s.val[v].shares /\ ~t.val[v].shares /\ t.val[v].tokens = 0
       /\ v \in active => ~s.val[v].exists
  /\ t.val[v].exists =>
       (t.val[v].status = "bonded" <=>
          v \in active \/ (v \notin last /\ s.val[v].status = "bonded"))
  /\ s.val[v].exists /\ s.val[v].status = "bonded" => t.val[v].exists

\* It is a record of the staking module's own making.
LEMMA RecordUpdated ==
  ASSUME NEW s, Sound(s), last \subseteq Bonded(s), NEW active \in SUBSET Vals,
         NEW mature \in SUBSET {v \in Vals : s.val[v].status = "unbonding"},
         NEW t, t.val = Matured(StatusIn(s.val, active), mature \ active), NEW v \in Vals
  PROVE  RecordFollows(s, t, active, v)
<1> USE DEF RecordFollows
<1>1. /\ s.val[v] \in Validator
      /\ ~s.val[v].exists => ~s.val[v].shares
      /\ ~s.val[v].shares => s.val[v].tokens = 0
  BY SoundParts, Zenon DEF Sound
<1> DEFINE r == StatusIn(s.val, active)[v]
<1>2. /\ r.exists = s.val[v].exists /\ r.tokens = s.val[v].tokens
      /\ r.jailed = s.val[v].jailed /\ r.shares = s.val[v].shares /\ r \in Validator
      /\ r.status = IF v \in active THEN "bonded"
                    ELSE IF v \in last THEN "unbonding" ELSE s.val[v].status
  BY <1>1 DEF StatusIn, Validator
<1>3. t.val[v] = IF v \notin mature \ active THEN r
                 ELSE IF r.shares THEN [r EXCEPT !.status = "unbonded"]
                 ELSE NoValidator
  BY DEF Matured
<1>4. v \in mature => s.val[v].status = "unbonding"
  OBVIOUS
<1>5. v \in last => s.val[v].exists /\ s.val[v].status = "bonded"
  BY DEF Bonded, Existing
<1> HIDE DEF r
<1>6. CASE v \notin mature \ active
  BY <1>3, <1>6, <1>2, <1>1
<1>7. CASE v \in mature \ active /\ r.shares
  BY <1>3, <1>7, <1>2, <1>1 DEF Validator
<1>8. CASE v \in mature \ active /\ ~r.shares
  BY <1>3, <1>8, <1>2 DEF NoValidator
<1> QED
  BY <1>6, <1>7, <1>8, Zenon

\* The update leaves the records sound and the gaps as they were.
LEMMA UpdateFollows ==
  ASSUME NEW s, Sound(s), last \subseteq Bonded(s), NEW active \in ActiveSets(s),
         NEW mature \in SUBSET {v \in Vals : s.val[v].status = "unbonding"},
         NEW paid \in Nat, NEW t, HasUpdated(s, t, active, mature, paid)
  PROVE  /\ Follows(s, t) /\ active \subseteq Bonded(t)
         /\ Unshared(t) \subseteq Unshared(s)
<1>1. s \in Staking /\ s.index = IndexOf(s.val) /\ t \in Staking
  BY Zenon DEF Sound, HasUpdated
<1>2. s.val \in Records /\ t.val \in Records
  BY <1>1, GapsInt
<1>3. active \in SUBSET Existing(s)
  BY <1>1, ActiveExist DEF Existing
<1>4. active \in SUBSET Vals
  BY <1>3 DEF Existing
<1>5. \A v \in Vals : RecordFollows(s, t, active, v)
  BY <1>4, RecordUpdated, Zenon DEF HasUpdated
<1> USE DEF RecordFollows
<1>6. \A v \in Vals \ Existing(t) : s.val[v].tokens = 0
  BY <1>5 DEF Sound, Existing
<1>7. \A v \in active : v \in Bonded(t)
  BY <1>3, <1>5, Zenon DEF Existing, Bonded
<1>8. \A v \in Vals : v \in Bonded(t) <=>
        v \in active \/ (v \in Bonded(s) /\ v \notin last)
  BY <1>5, <1>7, Zenon DEF Bonded, Existing
<1>9. Bonded(t) = (Bonded(s) \ (last \ active)) \cup (active \ Bonded(s))
  BY <1>4, <1>8 DEF Bonded, Existing
<1>10. NotBonded(t) \subseteq (NotBonded(s) \ (active \ Bonded(s))) \cup (last \ active)
  BY <1>5, <1>8 DEF NotBonded, Existing
<1>11. Bonded(t) \cup NotBonded(t) = Existing(t)
  BY DEF Bonded, NotBonded
<1>12. \A v \in Existing(t) : s.val[v].tokens = t.val[v].tokens
  BY <1>5, Zenon DEF Existing
<1>13. BondedGap(t) = BondedGap(s) /\ OwedGap(t) = OwedGap(s)
  <2>1. /\ t.bonded = s.bonded + Moved(s, active)
        /\ t.notBonded = s.notBonded - Moved(s, active) - paid
        /\ t.unbonding = s.unbonding - paid
    BY Zenon DEF HasUpdated
  <2>2. /\ \A v \in Bonded(t) \cup NotBonded(t) : s.val[v].tokens = t.val[v].tokens
        /\ \A v \in Vals \ (Bonded(t) \cup NotBonded(t)) : s.val[v].tokens = 0
    BY <1>6, <1>11, <1>12, Zenon
  <2> QED
    BY <1>1, <1>3, <1>9, <1>10, <2>1, <2>2, MovedGaps, Zenon
<1>14. t.index = IndexOf(t.val)
  <2>1. t.index = {e \in IndexOf(s.val) : t.val[e[1]].exists}
    BY <1>1, Zenon DEF HasUpdated
  <2>2. \A v \in Vals : t.val[v].exists => Power(t.val[v]) = Power(s.val[v])
    BY <1>5, Zenon DEF Power
  <2>3. \A v \in Vals : t.val[v].exists /\ ~t.val[v].jailed <=>
                        s.val[v].exists /\ ~s.val[v].jailed /\ t.val[v].exists
    BY <1>5, Zenon
  <2>4. \A e : e \in IndexOf(t.val) <=>
          \E v \in Vals : t.val[v].exists /\ ~t.val[v].jailed /\ e = <<v, Power(t.val[v])>>
    BY DEF IndexOf
  <2>5. \A e : e \in IndexOf(s.val) <=>
          \E v \in Vals : s.val[v].exists /\ ~s.val[v].jailed /\ e = <<v, Power(s.val[v])>>
    BY DEF IndexOf
  <2>6. \A e : e \in IndexOf(t.val) => e \in t.index
    BY <2>1, <2>2, <2>3, <2>4, <2>5
  <2>7. \A e : e \in t.index => e \in IndexOf(t.val)
    <3>1. ASSUME NEW e \in t.index PROVE e \in IndexOf(t.val)
      <4>1. PICK v \in Vals : s.val[v].exists /\ ~s.val[v].jailed /\ e = <<v, Power(s.val[v])>>
        BY <2>1, <2>5
      <4>2. t.val[v].exists
        BY <2>1, <4>1
      <4> QED
        BY <2>2, <2>3, <2>4, <4>1, <4>2
    <3> QED
      BY <3>1
  <2> QED
    BY <2>6, <2>7, Zenon
<1>15. Follows(s, t)
  BY <1>1, <1>13, GapsInt, <1>5, <1>14 DEF Sound, Follows
<1>16. Unshared(t) \subseteq Unshared(s)
  BY <1>5, Zenon DEF HasUpdated, Staking, Unshared
<1> QED
  BY <1>7, <1>15, <1>16

\* What an update moves, and the pools that it moves it between.
LEMMA MovedInt ==
  ASSUME NEW s \in Staking, last \subseteq Bonded(s), NEW active \in SUBSET Existing(s)
  PROVE  Moved(s, active) \in Int /\ s.bonded \in Nat /\ s.notBonded \in Nat
  BY GapsInt, TokensNat DEF Existing, Moved

\* With funded pools, the moves of an update are covered.
LEMMA MovesFunded ==
  ASSUME NEW s, Sound(s), last \subseteq Bonded(s), NEW active \in SUBSET Existing(s),
         Deficit(s) = 0
  PROVE  s.bonded + Moved(s, active) >= 0 /\ s.notBonded - Moved(s, active) >= 0
<1>1. s \in Staking /\ BondedGap(s) >= 0 /\ OwedGap(s) >= 0
  BY Zenon DEF Sound
<1>2. BondedGap(s) = 0 /\ OwedGap(s) = 0
  BY <1>1, DeficitGaps, GapsInt
<1>3. /\ s.val \in Records /\ Bonded(s) \in SUBSET Vals /\ NotBonded(s) \in SUBSET Vals
      /\ last \ active \in SUBSET Bonded(s) /\ active \ Bonded(s) \in SUBSET NotBonded(s)
      /\ last \ active \in SUBSET Vals /\ active \ Bonded(s) \in SUBSET Vals
  BY <1>1, GapsInt, Zenon DEF NotBonded
<1>4. /\ TokensOf(s, last \ active) <= TokensOf(s, Bonded(s))
      /\ TokensOf(s, active \ Bonded(s)) <= TokensOf(s, NotBonded(s))
  BY <1>3, TokensPart, Zenon
<1>5. TokensOf(s, last \ active) \in Nat /\ TokensOf(s, active \ Bonded(s)) \in Nat
  BY <1>3, TokensNat, Zenon
<1>6. /\ TokensOf(s, Bonded(s)) \in Nat /\ TokensOf(s, NotBonded(s)) \in Nat
      /\ s.bonded \in Nat /\ s.notBonded \in Nat /\ s.unbonding \in Nat
      /\ BondedGap(s) = TokensOf(s, Bonded(s)) - s.bonded
      /\ OwedGap(s) = TokensOf(s, NotBonded(s)) + s.unbonding - s.notBonded
  BY <1>1, GapsInt, Zenon
<1> DEFINE a == TokensOf(s, last \ active)
           b == TokensOf(s, active \ Bonded(s))
<1>7. Moved(s, active) = b - a
  BY DEF Moved
<1>8. a <= TokensOf(s, Bonded(s)) /\ b <= TokensOf(s, NotBonded(s)) /\ a \in Nat /\ b \in Nat
  BY <1>4, <1>5
<1> HIDE DEF a, b
<1> QED
  BY <1>2, <1>6, <1>7, <1>8

---------------------------------------------------------------------------
\* The invariant of the block hooks and the modules around them: the records
\* are sound, the validators sent to CometBFT are bonded, and a validator with
\* a delegation but without shares has been removed by a hook.
HooksInv ==
  /\ TypeOK
  /\ Sound(staking) /\ last \subseteq Bonded(staking)
  /\ \A v \in Unshared(staking) : info[v] = "tombstoned"
  /\ phase \in {"end", "hooks"} => height <= MaxHeight

\* What a step of a block does besides keeping it.
HaltsOnly ==
  phase' = "halted" /\ phase # "halted" /\ Deficit(staking) = 0 =>
    \/ /\ Scheduled("remove")
       /\ ~staking.val[Head(hooks).v].exists \/ info[Head(hooks).v] = "none"
    \/ (Scheduled("unjail") \/ Scheduled("add")) /\ Emptied(Head(hooks).v)

Repairs ==
  /\ Deficit(staking') <= Deficit(staking)
  /\ Scheduled("reconcile") =>
       /\ Deficit(staking') = 0
       /\ Supply(staking') = Supply(staking) + Deficit(staking)

HooksStep == HooksInv' /\ HaltsOnly /\ Repairs

\* A step that widens no gap makes the shortfall no larger.
LEMMA FollowsDeficit ==
  ASSUME NEW s, Sound(s), NEW t, Follows(s, t)
  PROVE  Deficit(t) <= Deficit(s)
  BY GapsInt, DeficitGaps DEF Follows, Sound

\* A state that does not change widens no gap.
LEMMA FollowsSelf ==
  ASSUME NEW s, Sound(s)
  PROVE  Follows(s, s)
  BY GapsInt DEF Sound, Follows

\* Two steps, each widening no gap.
LEMMA FollowsTwo ==
  ASSUME NEW r, Sound(r), NEW s, Follows(r, s), NEW t, Follows(s, t)
  PROVE  Follows(r, t)
  BY GapsInt DEF Follows, Sound

\* The fields that two sound states share decide all that the invariant says
\* of them.
LEMMA FollowsSame ==
  ASSUME NEW s, Sound(s), NEW t \in Staking,
         t.val = s.val, t.index = s.index, t.delegations = s.delegations,
         t.bonded = s.bonded, t.notBonded = s.notBonded, t.unbonding = s.unbonding
  PROVE  Follows(s, t) /\ Bonded(t) = Bonded(s) /\ Unshared(t) = Unshared(s)
<1>1. Bonded(t) = Bonded(s) /\ Unshared(t) = Unshared(s)
  BY Zenon DEF Bonded, Existing, Unshared
<1>2. BondedGap(t) = BondedGap(s) /\ OwedGap(t) = OwedGap(s)
  BY Zenon DEF BondedGap, OwedGap, Owed, TokensOf, NotBonded, Bonded, Existing
<1>3. Follows(s, s)
  BY FollowsSelf
<1>4. Follows(s, t)
  BY <1>2, <1>3, Zenon DEF Follows, Sound
<1> QED
  BY <1>1, <1>4

\* The chain stops in a state that is as sound as the one before.
LEMMA HaltKeeps ==
  ASSUME HooksInv, Halt
  PROVE  HooksInv' /\ Deficit(staking') <= Deficit(staking)
  BY FollowsSelf, FollowsDeficit DEF Halt, HooksInv, TypeOK

\* The hook at the head of the list, and what is left of the list.
LEMMA HeadHook ==
  ASSUME HooksInv, hooks # <<>>
  PROVE  /\ Tail(hooks) \in Seq(Hook)
         /\ Head(hooks).action = "unjail" => Head(hooks).v \in Vals /\ Head(hooks).target \in Nat
         /\ Head(hooks).action = "add" =>
              /\ Head(hooks).v \in Vals /\ Head(hooks).initial \in Nat
              /\ Head(hooks).minSelf \in Nat
         /\ Head(hooks).action = "remove" => Head(hooks).v \in Vals
<1>1. hooks \in Seq(Hook)
  BY DEF HooksInv, TypeOK
<1>2. Head(hooks) \in Hook /\ Tail(hooks) \in Seq(Hook)
  BY <1>1
<1> DEFINE h == Head(hooks)
<1>3. h \in Hook
  BY <1>2
<1> HIDE DEF h
<1>4. /\ h.action = "unjail" => h.v \in Vals /\ h.target \in Nat
      /\ h.action = "add" => h.v \in Vals /\ h.initial \in Nat /\ h.minSelf \in Nat
      /\ h.action = "remove" => h.v \in Vals
  BY <1>3 DEF Hook
<1> QED
  BY <1>2, <1>4 DEF h

\* A hook that is done, and did not harm the records.
LEMMA PerformedKeeps ==
  ASSUME HooksInv, Performed, hooks # <<>>,
         Follows(staking, staking'), Bonded(staking) \subseteq Bonded(staking'),
         info' \in [Vals -> SigningInfo],
         \A v \in Unshared(staking') : info'[v] = "tombstoned"
  PROVE  HooksInv' /\ HaltsOnly /\ Deficit(staking') <= Deficit(staking)
<1>1. hooks' = Tail(hooks) /\ last' = last /\ phase' = phase /\ height' = height
  BY DEF Performed
<1>2. Sound(staking) /\ Sound(staking') /\ staking' \in Staking
  BY Zenon DEF HooksInv, Follows, Sound
<1>3. TypeOK'
  BY <1>1, <1>2 DEF HooksInv, TypeOK
<1>4. last' \subseteq Bonded(staking')
  BY <1>1 DEF HooksInv
<1>5. HooksInv'
  BY <1>1, <1>2, <1>3 DEF HooksInv
<1>6. HaltsOnly
  BY <1>1 DEF HaltsOnly
<1> QED
  BY <1>2, <1>5, <1>6, FollowsDeficit

---------------------------------------------------------------------------
\* Every step of a block keeps the invariant, halts only for a reason that
\* OnlyRemovalHalts names, and repairs as ReconcileRepairs says.

\* BeginBlock without a slash.
LEMMA BeginBlockStep ==
  ASSUME HooksInv, BeginBlock
  PROVE  HooksStep
  BY StakingHooksAssumption, FollowsSelf, FollowsDeficit
     DEF BeginBlock, HooksInv, TypeOK, HooksStep, HaltsOnly, Repairs,
         Scheduled

\* BeginBlock of the slashing module: the pool of the bonded tokens covers the
\* slash when it is funded.
LEMMA SlashStep ==
  ASSUME HooksInv, NEW v \in Vals, BeginBlockSlash(v)
  PROVE  HooksStep
<1>1. phase = "begin" /\ height <= MaxHeight /\ v \in last /\ ~staking.val[v].jailed
  BY DEF BeginBlockSlash
<1>2. PICK amount \in 0..staking.val[v].tokens :
        IF amount > staking.bonded
        THEN Halt
        ELSE /\ staking' = Slashed(staking, v, amount)
             /\ hooks' \in HookLists
             /\ phase' = "end"
             /\ UNCHANGED <<info, last, height>>
  BY Zenon DEF BeginBlockSlash, Slashed
<1>3. Sound(staking) /\ v \in Bonded(staking) /\ staking \in Staking
  BY <1>1 DEF HooksInv, Sound
<1>4. /\ staking.val \in Records /\ staking.val[v].tokens \in Nat /\ staking.bonded \in Nat
      /\ Bonded(staking) \in SUBSET Vals /\ TokensOf(staking, Bonded(staking)) \in Nat
      /\ BondedGap(staking) \in Int
      /\ BondedGap(staking) = TokensOf(staking, Bonded(staking)) - staking.bonded
  BY <1>3, SoundParts, GapsInt
<1>5. amount \in Nat /\ amount <= staking.val[v].tokens
  OBVIOUS
<1>6. ~Scheduled("reconcile")
  BY <1>1 DEF Scheduled
<1>7. CASE amount > staking.bonded
  <2>1. Halt
    BY <1>2, <1>7, Zenon
  <2>2. {v} \in SUBSET Bonded(staking)
    BY <1>3
  <2>3. TokensOf(staking, {v}) <= TokensOf(staking, Bonded(staking))
    BY <1>4, <2>2, TokensPart, Zenon
  <2>4. TokensOf(staking, {v}) = staking.val[v].tokens
    BY <1>4, TokensOne, Zenon
  <2>5. BondedGap(staking) > 0
    <3> DEFINE a == TokensOf(staking, {v})
    <3>1. a <= TokensOf(staking, Bonded(staking)) /\ a = staking.val[v].tokens
      BY <2>3, <2>4
    <3> HIDE DEF a
    <3> QED
      BY <1>4, <1>7, <3>1
  <2>6. Deficit(staking) = BondedGap(staking) + OwedGap(staking)
    BY <1>3, DeficitGaps, Zenon
  <2>7. OwedGap(staking) \in Int /\ OwedGap(staking) >= 0
    BY <1>3, GapsInt DEF Sound
  <2>8. Deficit(staking) # 0
    BY <1>4, <2>5, <2>6, <2>7
  <2>9. HooksInv' /\ Deficit(staking') <= Deficit(staking)
    BY <2>1, HaltKeeps
  <2> QED
    BY <1>6, <2>8, <2>9 DEF HooksStep, HaltsOnly, Repairs
<1>8. CASE ~(amount > staking.bonded)
  <2>1. /\ staking' = Slashed(staking, v, amount) /\ hooks' \in HookLists /\ phase' = "end"
        /\ info' = info /\ last' = last /\ height' = height
    BY <1>2, <1>8, Zenon
  <2>2. amount <= staking.bonded
    BY <1>4, <1>8
  <2>3. /\ Follows(staking, staking') /\ Bonded(staking') = Bonded(staking)
        /\ Unshared(staking') = Unshared(staking)
    BY <1>1, <1>3, <1>5, <2>1, <2>2, SlashedFollows, Zenon
  <2>4. Sound(staking') /\ staking' \in Staking
    BY <2>3, Zenon DEF Follows, Sound
  <2>5. TypeOK'
    BY <2>1, <2>4, StakingHooksAssumption DEF HooksInv, TypeOK
  <2>6. HooksInv'
    BY <1>1, <2>1, <2>3, <2>4, <2>5 DEF HooksInv
  <2>7. Deficit(staking') <= Deficit(staking)
    BY <1>3, <2>3, FollowsDeficit, Zenon
  <2> QED
    BY <1>6, <2>1, <2>6, <2>7 DEF HooksStep, HaltsOnly, Repairs
<1> QED
  BY <1>7, <1>8

\* The staking module finds nothing to panic on: nobody in the index is jailed
\* or gone, and whoever leaves the set is bonded.
LEMMA NoStakingPanic ==
  ASSUME NEW s, Sound(s), last \subseteq Bonded(s), NEW active
  PROVE  ~StakingPanics(s, active)
  BY DEF Sound, IndexOf, Bonded, Existing, StakingPanics

\* The state that EndBlock of the staking module writes.
EndBlocked(s, active, mature, paid) ==
  LET moved == Moved(s, active)
      gone == Matured(StatusIn(s.val, active), mature \ active)
  IN  [s EXCEPT
         !.val = gone,
         !.index = {e \in @ : gone[e[1]].exists},
         !.bonded = @ + moved, !.notBonded = @ - moved - paid,
         !.unbonding = @ - paid, !.accounts = @ + paid]

\* It has the fields of an update.
LEMMA EndBlockedFields ==
  ASSUME NEW s, Sound(s), last \subseteq Bonded(s), NEW active \in ActiveSets(s),
         NEW mature \in SUBSET {v \in Vals : s.val[v].status = "unbonding"},
         NEW paid \in {0, s.unbonding},
         ~(s.bonded + Moved(s, active) < 0), paid <= s.notBonded - Moved(s, active),
         NEW t, t = EndBlocked(s, active, mature, paid)
  PROVE  HasUpdated(s, t, active, mature, paid) /\ paid \in Nat
<1> DEFINE moved == Moved(s, active)
           gone == Matured(StatusIn(s.val, active), mature \ active)
<1>1. s \in Staking /\ s.index = IndexOf(s.val)
  BY Zenon DEF Sound
<1>2. /\ s.val \in Records /\ s.bonded \in Nat /\ s.notBonded \in Nat
      /\ s.unbonding \in Nat /\ s.accounts \in Nat /\ Bonded(s) \in SUBSET Vals
      /\ s.index \in SUBSET (Vals \X Nat)
  BY <1>1, GapsInt DEF Staking
<1>3. active \in SUBSET Vals
  BY <1>1, ActiveExist, Zenon
<1>4. moved \in Int
  BY <1>2, <1>3, TokensNat DEF Moved
<1>5. gone \in Records
  <2> DEFINE val == StatusIn(s.val, active)
  <2>1. val \in Records
    BY <1>2 DEF Records, Validator, StatusIn
  <2> HIDE DEF val
  <2>2. ASSUME NEW v \in Vals
        PROVE  /\ [val[v] EXCEPT !.status = "unbonded"] \in Validator
               /\ val[v] \in Validator
    BY <2>1 DEF Records, Validator
  <2>3. NoValidator \in Validator
    BY DEF NoValidator, Validator
  <2>4. Matured(val, mature \ active) \in Records
    BY <2>2, <2>3 DEF Matured, Records
  <2> QED
    BY <2>4 DEF val
<1>6. t = [s EXCEPT
             !.val = gone,
             !.index = {e \in @ : gone[e[1]].exists},
             !.bonded = @ + moved, !.notBonded = @ - moved - paid,
             !.unbonding = @ - paid, !.accounts = @ + paid]
  BY Zenon DEF EndBlocked
<1> HIDE DEF moved, gone
<1>7. /\ paid \in Nat /\ s.bonded + moved \in Nat /\ s.notBonded - moved - paid \in Nat
      /\ s.unbonding - paid \in Nat /\ s.accounts + paid \in Nat
  BY <1>2, <1>4 DEF moved
<1>8. {e \in s.index : gone[e[1]].exists} \in SUBSET (Vals \X Nat)
  BY <1>2
<1>9. /\ t.val = gone /\ t.index = {e \in s.index : gone[e[1]].exists}
      /\ t.delegations = s.delegations
      /\ t.bonded = s.bonded + moved /\ t.notBonded = s.notBonded - moved - paid
      /\ t.unbonding = s.unbonding - paid /\ t.accounts = s.accounts + paid
  BY <1>1, <1>6, Zenon DEF Staking
<1>10. t \in Staking
  BY <1>1, <1>5, <1>6, <1>7, <1>8, ZenonT(60) DEF Staking, Records
<1> QED
  BY <1>7, <1>9, <1>10, Zenon DEF HasUpdated, moved, gone

\* EndBlock of the staking module: with funded pools it has nothing to panic
\* on, and no new validator goes without signing information.
LEMMA EndBlockStep ==
  ASSUME HooksInv, StakingEndBlock
  PROVE  /\ HooksStep
         /\ \/ Halt
            \/ /\ phase' = "hooks" /\ last' \in ActiveSets(staking)
               /\ UNCHANGED <<hooks, height>>
<1>1. PICK active \in ActiveSets(staking) \ {{}},
           mature \in SUBSET {v \in Vals : staking.val[v].status = "unbonding"},
           paid \in {0, staking.unbonding} :
        IF \/ StakingPanics(staking, active)
           \/ staking.bonded + Moved(staking, active) < 0
           \/ staking.notBonded - Moved(staking, active) < 0
        THEN Halt
        ELSE /\ paid <= staking.notBonded - Moved(staking, active)
             /\ staking' = EndBlocked(staking, active, mature, paid)
             /\ info' = [v \in Vals |-> IF v \in active /\ info[v] = "none"
                                        THEN "ok" ELSE info[v]]
             /\ last' = active
             /\ phase' = "hooks"
             /\ UNCHANGED <<hooks, height>>
  BY Zenon DEF StakingEndBlock, EndBlocked
<1>2. /\ Sound(staking) /\ last \subseteq Bonded(staking) /\ phase = "end"
      /\ height <= MaxHeight
  BY DEF HooksInv, StakingEndBlock
<1>3. ~Scheduled("reconcile")
  BY <1>2 DEF Scheduled
<1>4. active \in ActiveSets(staking)
  OBVIOUS
<1>5. active \in SUBSET Vals /\ active \in SUBSET Existing(staking)
  BY <1>2, ActiveExist DEF Sound, Existing
<1>6. ~StakingPanics(staking, active)
  BY <1>2, NoStakingPanic, Zenon
<1> DEFINE short == \/ staking.bonded + Moved(staking, active) < 0
                    \/ staking.notBonded - Moved(staking, active) < 0
<1>7. CASE short
  <2>1. Halt
    BY <1>1, <1>7, Zenon
  <2>2. Deficit(staking) # 0
    BY <1>2, <1>5, MovesFunded, MovedInt, <1>7 DEF Sound
  <2>3. HooksInv' /\ Deficit(staking') <= Deficit(staking)
    BY <2>1, HaltKeeps
  <2> QED
    BY <1>3, <2>1, <2>2, <2>3 DEF HooksStep, HaltsOnly, Repairs
<1>8. CASE ~short
  <2>1. /\ paid <= staking.notBonded - Moved(staking, active)
        /\ staking' = EndBlocked(staking, active, mature, paid)
        /\ info' = [v \in Vals |-> IF v \in active /\ info[v] = "none"
                                   THEN "ok" ELSE info[v]]
        /\ last' = active /\ phase' = "hooks" /\ hooks' = hooks /\ height' = height
    BY <1>1, <1>6, <1>8, Zenon
  <2>2. HasUpdated(staking, staking', active, mature, paid) /\ paid \in Nat
    BY <1>2, <1>8, <2>1, EndBlockedFields, Zenon
  <2>3. /\ Follows(staking, staking') /\ active \subseteq Bonded(staking')
        /\ Unshared(staking') \subseteq Unshared(staking)
    BY <1>2, <2>2, UpdateFollows, Zenon
  <2>4. Sound(staking') /\ staking' \in Staking
    BY <2>3, Zenon DEF Follows, Sound
  <2>5. info' \in [Vals -> SigningInfo]
    BY <2>1 DEF HooksInv, TypeOK, SigningInfo
  <2>6. TypeOK'
    BY <1>5, <2>1, <2>4, <2>5 DEF HooksInv, TypeOK
  <2>7. \A v \in Unshared(staking') : info'[v] = "tombstoned"
    BY <2>4, <2>3, <2>1 DEF Staking, Unshared, HooksInv
  <2>8. HooksInv'
    BY <1>2, <2>1, <2>3, <2>4, <2>6, <2>7 DEF HooksInv
  <2>9. Deficit(staking') <= Deficit(staking)
    BY <1>2, <2>3, FollowsDeficit, Zenon
  <2> QED
    BY <1>3, <2>1, <2>8, <2>9 DEF HooksStep, HaltsOnly, Repairs
<1> QED
  BY <1>7, <1>8

\* ExecuteUnjailing: it panics only on a validator whose shares are gone.
LEMMA UnjailStep ==
  ASSUME HooksInv, ExecuteUnjailing
  PROVE  HooksStep
<1> DEFINE v == Head(hooks).v
           target == Head(hooks).target
           topped == SetValidatorBalance(staking, v, target)
<1>1. Scheduled("unjail") /\ hooks # <<>>
  BY DEF ExecuteUnjailing, Scheduled
<1>2. v \in Vals /\ target \in Nat
  BY <1>1, HeadHook DEF Scheduled
<1>3. Sound(staking) /\ info \in [Vals -> SigningInfo]
  BY DEF HooksInv, TypeOK
<1>4. ~Scheduled("reconcile")
  BY <1>1 DEF Scheduled
<1>k. Keeps(staking, topped)
  BY <1>2, <1>3, BalanceFollows, Zenon
<1> DEFINE panics == \/ DelegatePanics(staking, v, target)
                     \/ /\ staking.val[v].exists /\ BalanceSet(staking, v, target)
                        /\ UnjailPanics(topped, v)
<1>5. CASE panics
  <2>1. Halt
    BY <1>5, Zenon DEF ExecuteUnjailing
  <2>2. v \in Unshared(staking)
    <3>1. DelegatePanics(staking, v, target) => v \in Unshared(staking)
      BY Zenon DEF DelegatePanics, Unshared
    <3>2. UnjailPanics(topped, v) => v \in Unshared(topped)
      BY Zenon DEF UnjailPanics, Unshared
    <3>3. Unshared(topped) \subseteq Unshared(staking)
      BY <1>k, Zenon DEF Keeps
    <3> QED
      BY <1>5, <3>1, <3>2, <3>3, Zenon
  <2>3. Emptied(v)
    BY <2>2, Zenon DEF Emptied, Unshared, HooksInv
  <2>4. HooksInv' /\ Deficit(staking') <= Deficit(staking)
    BY <2>1, HaltKeeps
  <2> QED
    BY <1>1, <1>4, <2>3, <2>4, Zenon DEF HaltsOnly, HooksStep, Repairs
<1>6. CASE ~panics
  <2>1. /\ staking' = IF ~staking.val[v].exists THEN staking
                      ELSE IF /\ BalanceSet(staking, v, target)
                              /\ UnjailAccepted(topped, v)
                      THEN Unjailed(topped, v)
                      ELSE topped
        /\ Performed /\ info' = info
    BY <1>6, Zenon DEF ExecuteUnjailing, Unjailed
  <2>2. Keeps(staking, topped)
    BY <1>k
  <2> HIDE DEF v, target, topped, panics
  <2>3. /\ Follows(staking, staking') /\ Bonded(staking) = Bonded(staking')
        /\ Unshared(staking') \subseteq Unshared(staking)
    BY <1>3, FollowsSelf, <2>2, <1>2, UnjailedFollows, FollowsTwo, <2>1
       DEF Keeps, Follows, UnjailAccepted
  <2>4. \A w \in Unshared(staking') : info'[w] = "tombstoned"
    BY <2>1, <2>3 DEF HooksInv
  <2>5. Bonded(staking) \subseteq Bonded(staking') /\ info' \in [Vals -> SigningInfo]
    BY <1>3, <2>1, <2>3
  <2>6. HooksInv' /\ HaltsOnly /\ Deficit(staking') <= Deficit(staking)
    BY <1>1, <2>1, <2>3, <2>4, <2>5, PerformedKeeps
  <2> QED
    BY <1>4, <2>6 DEF HooksStep, Repairs
<1> QED
  BY <1>5, <1>6

\* ExecuteAddValidator: the new record is sound, and its first delegation
\* panics only if the validator was removed before.
LEMMA AddStep ==
  ASSUME HooksInv, ExecuteAddValidator
  PROVE  HooksStep
<1> DEFINE v == Head(hooks).v
           amount == Head(hooks).initial
           minSelf == Head(hooks).minSelf
           created == Created(staking, v, minSelf)
<1>1. Scheduled("add") /\ hooks # <<>>
  BY DEF ExecuteAddValidator, Scheduled
<1>2. v \in Vals /\ amount \in Nat /\ minSelf \in Nat
  BY <1>1, HeadHook DEF Scheduled
<1>3. Sound(staking) /\ info \in [Vals -> SigningInfo]
  BY DEF HooksInv, TypeOK
<1>4. ~Scheduled("reconcile")
  BY <1>1 DEF Scheduled
<1>5. \/ /\ staking.val[v].exists /\ Performed
         /\ staking' = staking /\ info' = info
      \/ /\ ~staking.val[v].exists
         /\ DelegatePanics(created, v, amount) /\ Halt
      \/ /\ ~staking.val[v].exists /\ Performed
         /\ staking' = SetValidatorBalance(created, v, amount)
         /\ info' = [info EXCEPT ![v] = IF @ = "none" THEN "ok" ELSE @]
      \/ /\ ~staking.val[v].exists /\ Performed
         /\ staking' = SetValidatorBalance(staking, v, amount) /\ info' = info
  BY Zenon DEF ExecuteAddValidator, Created
<1>6. ~staking.val[v].exists =>
        /\ Follows(staking, created) /\ Bonded(created) = Bonded(staking) \cup {v}
        /\ Unshared(created) = Unshared(staking)
        /\ v \in created.delegations => v \in Unshared(staking)
  BY <1>2, <1>3, CreatedFollows, ZenonT(60)
<1>7. CASE ~staking.val[v].exists /\ DelegatePanics(created, v, amount) /\ Halt
  <2>1. v \in Unshared(staking)
    BY <1>6, <1>7, Zenon DEF DelegatePanics
  <2>2. Emptied(v)
    BY <2>1, Zenon DEF Emptied, Unshared, HooksInv
  <2>3. HooksInv' /\ Deficit(staking') <= Deficit(staking)
    BY <1>7, HaltKeeps
  <2> QED
    BY <1>1, <1>4, <2>2, <2>3, Zenon DEF HaltsOnly, HooksStep, Repairs
<1>8. CASE /\ Performed /\ Follows(staking, staking')
           /\ Bonded(staking) \subseteq Bonded(staking')
           /\ Unshared(staking') \subseteq Unshared(staking)
           /\ info' \in [Vals -> SigningInfo]
           /\ \A w \in Vals : info[w] = "tombstoned" => info'[w] = "tombstoned"
  BY <1>8, <1>1, PerformedKeeps, <1>4, Zenon
     DEF Follows, Sound, Staking, Unshared, HooksInv, HooksStep, Repairs
<1> HIDE DEF v, amount, minSelf, created
<1>9. CASE /\ staking.val[v].exists /\ Performed
           /\ staking' = staking /\ info' = info
  BY <1>3, <1>8, <1>9, FollowsSelf
<1>10. CASE /\ ~staking.val[v].exists /\ Performed
            /\ staking' = SetValidatorBalance(staking, v, amount) /\ info' = info
  BY <1>2, <1>3, <1>10, BalanceFollows, <1>8 DEF Keeps
<1>11. CASE /\ ~staking.val[v].exists /\ Performed
            /\ staking' = SetValidatorBalance(created, v, amount)
            /\ info' = [info EXCEPT ![v] = IF @ = "none" THEN "ok" ELSE @]
  BY <1>6, <1>11, <1>2, BalanceFollows, <1>3, FollowsTwo, <1>8
     DEF Follows, Keeps, SigningInfo
<1> QED
  BY <1>5, <1>7, <1>9, <1>10, <1>11

\* ExecuteRemoveValidator: whoever loses its shares here is tombstoned.
LEMMA RemoveStep ==
  ASSUME HooksInv, ExecuteRemoveValidator
  PROVE  HooksStep
<1> DEFINE v == Head(hooks).v
           tokens == Head(hooks).tokens
<1>1. Scheduled("remove") /\ hooks # <<>>
  BY DEF ExecuteRemoveValidator, Scheduled
<1>2. v \in Vals
  BY <1>1, HeadHook DEF Scheduled
<1>3. Sound(staking) /\ info \in [Vals -> SigningInfo]
  BY DEF HooksInv, TypeOK
<1>4. ~Scheduled("reconcile")
  BY <1>1 DEF Scheduled
<1>5. CASE ~staking.val[v].exists \/ info[v] = "none"
  <2>1. Halt
    BY <1>5, Zenon DEF ExecuteRemoveValidator
  <2>2. HooksInv' /\ Deficit(staking') <= Deficit(staking)
    BY <2>1, HaltKeeps
  <2> QED
    BY <1>1, <1>4, <1>5, <2>2, Zenon DEF HaltsOnly, HooksStep, Repairs
<1>6. CASE ~(~staking.val[v].exists \/ info[v] = "none")
  <2>1. /\ staking.val[v].exists /\ staking' = Removed(staking, v, tokens)
        /\ info' = [info EXCEPT ![v] = "tombstoned"] /\ Performed
    BY <1>6, Zenon DEF ExecuteRemoveValidator
  <2> HIDE DEF v, tokens
  <2>2. /\ Follows(staking, staking') /\ Bonded(staking') = Bonded(staking)
        /\ Unshared(staking') \subseteq Unshared(staking) \cup {v}
    BY <1>2, <1>3, <2>1, RemovedFollows
  <2>3. info' \in [Vals -> SigningInfo]
    BY <1>2, <1>3, <2>1 DEF SigningInfo
  <2>4. \A w \in Unshared(staking') : info'[w] = "tombstoned"
    BY <2>2, <1>3, <2>1 DEF Follows, Sound, Staking, Unshared, HooksInv
  <2>5. Bonded(staking) \subseteq Bonded(staking')
    BY <2>2
  <2>6. HooksInv' /\ HaltsOnly /\ Deficit(staking') <= Deficit(staking)
    BY <1>1, <2>1, <2>2, <2>3, <2>4, <2>5, PerformedKeeps
  <2> QED
    BY <1>4, <2>6 DEF HooksStep, Repairs
<1> QED
  BY <1>5, <1>6

\* ExecuteReconcileStakingPools.
LEMMA ReconcileStep ==
  ASSUME HooksInv, ExecuteReconcileStakingPools
  PROVE  HooksStep
  BY ReconciledFollows, PerformedKeeps
     DEF ExecuteReconcileStakingPools, Scheduled, HooksInv, TypeOK, HooksStep,
         Repairs

\* The end of the block.
LEMMA DoneStep ==
  ASSUME HooksInv, EndBlockerDone
  PROVE  HooksStep
<1>1. /\ phase = "hooks" /\ hooks = <<>> /\ phase' = "begin" /\ height' = height + 1
      /\ staking' = [staking EXCEPT !.started = {}]
      /\ info' = info /\ last' = last /\ hooks' = hooks
  BY DEF EndBlockerDone
<1>2. Sound(staking) /\ staking \in Staking
  BY Zenon DEF HooksInv, Sound
<1>3. /\ staking'.val = staking.val /\ staking'.index = staking.index
      /\ staking'.delegations = staking.delegations /\ staking'.bonded = staking.bonded
      /\ staking'.notBonded = staking.notBonded /\ staking'.unbonding = staking.unbonding
  BY <1>1, <1>2, Zenon DEF Staking
<1>4. staking' \in Staking
  BY <1>1, <1>2 DEF Staking
<1>5. /\ Follows(staking, staking') /\ Bonded(staking') = Bonded(staking)
      /\ Unshared(staking') = Unshared(staking)
  BY <1>2, <1>3, <1>4, FollowsSame, Zenon
<1>6. height + 1 \in 1..MaxHeight + 1
  BY <1>1, StakingHooksAssumption DEF HooksInv, TypeOK
<1>7. TypeOK'
  BY <1>1, <1>4, <1>6 DEF HooksInv, TypeOK
<1>8. Sound(staking') /\ last' \subseteq Bonded(staking')
  BY <1>1, <1>5, Zenon DEF HooksInv, Follows
<1>9. HooksInv'
  BY <1>1, <1>5, <1>7, <1>8, Zenon DEF HooksInv
<1>10. Deficit(staking') <= Deficit(staking)
  BY <1>2, <1>5, FollowsDeficit, Zenon
<1> QED
  BY <1>1, <1>9, <1>10 DEF HooksStep, HaltsOnly, Repairs, Scheduled

\* The chain starts in a state that the modules see to.
LEMMA InitialHooks ==
  ASSUME Init
  PROVE  HooksInv
<1>1. staking \in Staking /\ Regular(staking)
  BY StakingHooksAssumption DEF Init
<1>2. Sound(staking)
  BY <1>1, GapsInt DEF Regular, NoValidator, Sound
<1>3. Unshared(staking) = {}
  BY <1>1 DEF Unshared, Regular
<1>4. last \subseteq Bonded(staking) /\ last \subseteq Vals
  BY DEF Init, Bonded, Existing
<1>5. TypeOK
  BY StakingHooksAssumption, <1>4 DEF Init, SigningInfo, TypeOK
<1> QED
  BY <1>2, <1>3, <1>5 DEF Init, HooksInv
=============================================================================
