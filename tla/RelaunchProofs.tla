-------------------------- MODULE RelaunchProofs ----------------------------
(***************************************************************************)
(* Proofs about Relaunch, and through it about StakingHooks, for any set   *)
(* of validators, hooks, and heights.                                      *)
(***************************************************************************)
EXTENDS Relaunch, StakingHooksProofs

\* The time a leaf may take.
USE SMTT(30)

---------------------------------------------------------------------------
\* The invariant of the relaunch.

\* CometBFT knows the powers of the last update, and has been sent one after
\* the first block of the first chain.
PowersSent ==
  /\ \A v \in Vals \ last : lastPowers[v] = 0
  /\ launch = "first" /\ (height > 1 \/ phase = "hooks") =>
       \A v \in last : lastPowers[v] > 0

\* A document is there between an export and its import, and holds what the
\* exported state holds.
DocumentInv ==
  /\ launch \in {"exported", "panicked", "refused"} => phase = "begin"
  /\ document # NoDocument => launch \in {"exported", "refused"}
  /\ launch \in {"exported", "refused"} =>
       /\ document \in Document
       /\ document.evm = ExportGenesis(evm)
       /\ document.validators = PowersOf(staking, last)
       /\ document.height <= MaxHeight + 1
       /\ document.balance = document.outstanding + document.communityPool
       /\ \A v \in last : lastPowers[v] > 0
       /\ document.height = 0 => lastPowers = PowersOf(staking, last)

RelaunchInv ==
  /\ RelaunchTypeOK /\ HooksInv /\ PowersSent /\ DocumentInv
  /\ evm.height = evm.hash /\ ExportPanicsOnlyFor /\ ExportIsImportable

\* The powers of a validator set are natural numbers.
LEMMA PowersNat ==
  ASSUME NEW s \in Staking, NEW active
  PROVE  PowersOf(s, active) \in [Vals -> Nat]
<1>1. \A v \in Vals : s.val[v].tokens \in Nat
  BY GapsInt DEF Records, Validator
<1>2. \A v \in Vals : Power(s.val[v]) \in Nat
  BY <1>1, StakingHooksAssumption DEF Power
<1> QED
  BY <1>2 DEF PowersOf

\* A step of a block, on a chain that is running.
LEMMA RunningKeeps ==
  ASSUME RelaunchInv, HooksInv', launch \in {"first", "again"},
         UNCHANGED <<launch, initial, allowList, document>>,
         evm' \in [hash : Nat, height : Nat, timestamp : Nat], evm'.height = evm'.hash,
         lastPowers' \in [Vals -> Nat], unbondingHeight' \in [Vals -> Nat], PowersSent'
  PROVE  RelaunchInv'
  BY DEF RelaunchInv, RelaunchTypeOK, HooksInv, DocumentInv,
     ExportPanicsOnlyFor, ExportIsImportable

\* The start of a block, with the payload that it executes.
LEMMA BeginKeeps ==
  ASSUME RelaunchInv, Begin
  PROVE  RelaunchInv' /\ HooksStep
<1>1. HooksInv
  BY DEF RelaunchInv
<1>2. /\ launch \in {"first", "again"} /\ PayloadExecuted
      /\ UNCHANGED <<lastPowers, unbondingHeight, launch, initial, allowList, document>>
      /\ BeginBlock \/ \E v \in Vals : BeginBlockSlash(v)
  BY DEF Begin
<1>3. HooksStep
  BY <1>1, <1>2, BeginBlockStep, SlashStep
<1>4. last' = last /\ height' = height /\ phase' # "hooks"
  <2>1. CASE BeginBlock
    BY <2>1 DEF BeginBlock
  <2>2. CASE \E v \in Vals : BeginBlockSlash(v)
    <3>1. PICK v \in Vals : BeginBlockSlash(v)
      BY <2>2
    <3>2. Halt \/ (phase' = "end" /\ UNCHANGED <<info, last, height>>)
      BY <3>1, Zenon DEF BeginBlockSlash
    <3> QED
      BY <3>2 DEF Halt
  <2> QED
    BY <1>2, <2>1, <2>2
<1>5. evm' \in [hash : Nat, height : Nat, timestamp : Nat] /\ evm'.height = evm'.hash
  BY <1>2 DEF RelaunchInv, RelaunchTypeOK, PayloadExecuted
<1>6. PowersSent'
  BY <1>2, <1>4 DEF RelaunchInv, PowersSent
<1>7. lastPowers' \in [Vals -> Nat] /\ unbondingHeight' \in [Vals -> Nat]
  BY <1>2 DEF RelaunchInv, RelaunchTypeOK
<1>8. HooksInv' /\ UNCHANGED <<launch, initial, allowList, document>>
  BY <1>2, <1>3 DEF HooksStep
<1> QED
  BY <1>2, <1>3, <1>5, <1>6, <1>7, <1>8, RunningKeeps

\* The update of the validator set, with the powers sent to CometBFT.
LEMMA UpdateKeeps ==
  ASSUME RelaunchInv, UpdateValidators
  PROVE  RelaunchInv' /\ HooksStep
<1>1. HooksInv /\ Sound(staking) /\ staking \in Staking /\ height \in Nat
  BY DEF RelaunchInv, HooksInv, Sound, TypeOK
<1>2. /\ StakingEndBlock /\ phase = "end"
      /\ lastPowers' = IF phase' = "halted" THEN lastPowers ELSE PowersOf(staking, last')
      /\ unbondingHeight' = [v \in Vals |->
           IF staking.val[v].status = "bonded" /\ staking'.val[v].status = "unbonding"
           THEN height ELSE unbondingHeight[v]]
      /\ UNCHANGED <<evm, launch, initial, allowList, document>>
  BY Zenon DEF UpdateValidators, StakingEndBlock
<1>3. /\ HooksStep
      /\ \/ Halt
         \/ /\ phase' = "hooks" /\ last' \in ActiveSets(staking)
            /\ UNCHANGED <<hooks, height>>
  BY <1>1, <1>2, EndBlockStep
<1>4. launch \in {"first", "again"}
  BY <1>2 DEF RelaunchInv, RelaunchTypeOK, DocumentInv
<1>5. lastPowers' \in [Vals -> Nat] /\ unbondingHeight' \in [Vals -> Nat]
  BY <1>1, PowersNat, <1>2 DEF RelaunchInv, RelaunchTypeOK
<1>6. PowersSent'
  BY <1>2, <1>1, ActiveExist, <1>3
     DEF Halt, RelaunchInv, PowersSent, Sound, PowersOf
<1>7. evm' \in [hash : Nat, height : Nat, timestamp : Nat] /\ evm'.height = evm'.hash
  BY <1>2 DEF RelaunchInv, RelaunchTypeOK
<1>8. HooksInv' /\ UNCHANGED <<launch, initial, allowList, document>>
  BY <1>2, <1>3 DEF HooksStep
<1> QED
  BY <1>3, <1>4, <1>5, <1>6, <1>7, <1>8, RunningKeeps, ZenonT(60)

\* The hooks, and the end of the block.
LEMMA HooksKeep ==
  ASSUME RelaunchInv, PerformHooks
  PROVE  RelaunchInv' /\ HooksStep
<1>1. HooksInv
  BY DEF RelaunchInv
<1>2. HooksStep
  BY <1>1, UnjailStep, AddStep, RemoveStep, ReconcileStep, DoneStep
     DEF PerformHooks
<1>3. /\ lastPowers' = lastPowers /\ unbondingHeight' = unbondingHeight /\ evm' = evm
      /\ launch' = launch /\ initial' = initial /\ allowList' = allowList
      /\ document' = document
  BY ZenonT(60) DEF PerformHooks, newVars
<1>4. phase = "hooks" /\ last' = last
  BY DEF EndBlockerDone, ExecuteUnjailing, Scheduled, ExecuteAddValidator,
     ExecuteRemoveValidator, ExecuteReconcileStakingPools, PerformHooks, Halt,
     Performed
<1>5. launch \in {"first", "again"}
  BY <1>4 DEF RelaunchInv, RelaunchTypeOK, DocumentInv
<1>6. PowersSent'
  BY <1>3, <1>4 DEF RelaunchInv, PowersSent
<1>7. /\ lastPowers' \in [Vals -> Nat] /\ unbondingHeight' \in [Vals -> Nat]
      /\ evm' \in [hash : Nat, height : Nat, timestamp : Nat] /\ evm'.height = evm'.hash
  BY <1>3 DEF RelaunchInv, RelaunchTypeOK
<1>8. HooksInv' /\ UNCHANGED <<launch, initial, allowList, document>>
  BY <1>2, <1>3 DEF HooksStep
<1> QED
  BY <1>2, <1>5, <1>6, <1>7, <1>8, RunningKeeps

---------------------------------------------------------------------------
\* The exports and the import.

\* The export at a height writes what is there.
LEMMA ExportKeeps ==
  ASSUME RelaunchInv, Export
  PROVE  RelaunchInv' /\ UNCHANGED vars
<1>1. /\ UNCHANGED <<vars, lastPowers, unbondingHeight, evm, initial, allowList>>
      /\ document' = DocumentOf(height, staking, last, 0, 0, 0)
      /\ launch = "first" /\ launch' = "exported" /\ phase = "begin" /\ height > 1
  BY DEF Export, Exportable
<1>2. /\ staking' = staking /\ info' = info /\ last' = last /\ hooks' = hooks
      /\ phase' = phase /\ height' = height
  BY <1>1 DEF vars
<1>3. /\ staking \in Staking /\ height \in Nat /\ height <= MaxHeight + 1
      /\ evm \in [hash : Nat, height : Nat, timestamp : Nat]
  BY DEF RelaunchInv, RelaunchTypeOK, TypeOK
<1>4. HooksInv'
  BY <1>2 DEF RelaunchInv, HooksInv, TypeOK
<1>5. ExportGenesis(evm) \in EvmGenesis
  BY <1>3 DEF ExportGenesis, EvmGenesis
<1>6. PowersOf(staking, last) \in [Vals -> Nat]
  BY <1>3, PowersNat
<1>7. document' \in Document
  BY <1>1, <1>3, <1>5, <1>6 DEF DocumentOf, Document
<1>8. /\ document'.height = height /\ document'.validators = PowersOf(staking, last)
      /\ document'.evm = ExportGenesis(evm) /\ document'.balance = 0
      /\ document'.outstanding = 0 /\ document'.communityPool = 0
  BY <1>1 DEF DocumentOf
<1>9. \A v \in last : lastPowers[v] > 0
  BY <1>1 DEF RelaunchInv, PowersSent
<1>10. DocumentInv'
  BY <1>1, <1>2, <1>3, <1>7, <1>8, <1>9 DEF DocumentInv
<1>11. RelaunchTypeOK'
  BY <1>1, <1>4, <1>7 DEF RelaunchInv, RelaunchTypeOK, HooksInv
<1>12. PowersSent'
  BY <1>1, <1>2 DEF RelaunchInv, PowersSent
<1>13. ExportPanicsOnlyFor' /\ ExportIsImportable' /\ evm' = evm
  BY <1>1 DEF ExportPanicsOnlyFor, ExportIsImportable
<1> QED
  BY <1>1, <1>4, <1>10, <1>11, <1>12, <1>13 DEF RelaunchInv

\* When nobody in the power index gets jailed, nobody does.
LEMMA JailedNobody ==
  ASSUME NEW s, Sound(s), NEW allowed,
         \A e \in s.index : ~JailedOutside(s, allowed).val[e[1]].jailed
  PROVE  JailedOutside(s, allowed) = s
<1> DEFINE new == [v \in Vals |->
             IF s.val[v].exists /\ allowed # {} /\ v \notin allowed
             THEN [s.val[v] EXCEPT !.jailed = TRUE] ELSE s.val[v]]
<1>1. s \in Staking /\ s.index = IndexOf(s.val) /\ s.val \in Records
  BY GapsInt DEF Sound
<1>2. JailedOutside(s, allowed) = [s EXCEPT !.val = new]
  BY Zenon DEF JailedOutside
<1>3. JailedOutside(s, allowed).val = new
  BY <1>1, <1>2, Zenon DEF Staking
<1>4. ASSUME NEW v \in Vals
      PROVE  new[v] = s.val[v]
  <2>1. s.val[v] \in Validator
    BY <1>1 DEF Records
  <2>2. CASE ~(s.val[v].exists /\ allowed # {} /\ v \notin allowed)
    BY <2>2
  <2>3. CASE s.val[v].exists /\ allowed # {} /\ v \notin allowed
    <3>1. new[v] = [s.val[v] EXCEPT !.jailed = TRUE]
      BY <2>3
    <3>2. s.val[v].jailed
      <4>1. SUFFICES ASSUME ~s.val[v].jailed PROVE FALSE
        OBVIOUS
      <4>2. <<v, Power(s.val[v])>> \in s.index
        BY <1>1, <2>3, <4>1 DEF IndexOf
      <4>3. ~new[v].jailed
        <5> HIDE DEF new
        <5> QED
          BY <1>3, <4>2
      <4>4. new[v].jailed
        BY <2>1, <3>1, Zenon DEF Validator
      <4> QED
        BY <4>3, <4>4
    <3>3. s.val[v].jailed = TRUE
      BY <3>2, Zenon DEF Validator
    <3> QED
      BY <2>1, <3>3, Zenon DEF Validator
  <2> QED
    BY <2>3
<1>5. new = s.val
  <2>1. new = [v \in Vals |-> new[v]] /\ s.val = [v \in Vals |-> s.val[v]]
    BY <1>1, Zenon DEF Records
  <2> HIDE DEF new
  <2> QED
    BY <1>4, <2>1, Zenon
<1> HIDE DEF new
<1> QED
  BY <1>1, <1>2, <1>5, Zenon DEF Staking

\* An export for height zero panics for a reason that ExportPanicsOnlyFor
\* names: with funded pools, it jails a validator that is in the index, or
\* divides by the shares that a removal took.
LEMMA PanicNamed ==
  ASSUME HooksInv, NEW allowed \in AllowLists,
         NEW active \in ActiveSets(JailedOutside(staking, allowed)),
         RewardsPanic(staking) \/ UpdatePanics(JailedOutside(staking, allowed), active)
  PROVE  \/ Deficit(staking) > 0
         \/ allowed # {} /\ \E v \in Existing(staking) \ allowed : ~staking.val[v].jailed
         \/ \E v \in staking.delegations : info[v] = "tombstoned" /\ ~staking.val[v].shares
<1> DEFINE prepared == JailedOutside(staking, allowed)
<1>1. /\ Sound(staking) /\ staking \in Staking /\ last \subseteq Bonded(staking)
      /\ staking.index = IndexOf(staking.val)
  BY Zenon DEF HooksInv, Sound
<1>2. CASE RewardsPanic(staking)
  BY <1>2, Zenon DEF HooksInv, RewardsPanic, Unshared
<1>3. CASE \E e \in staking.index : prepared.val[e[1]].jailed
  <2>1. PICK e \in staking.index : prepared.val[e[1]].jailed
    BY <1>3
  <2> DEFINE v == e[1]
  <2>2. v \in Vals /\ staking.val[v].exists /\ ~staking.val[v].jailed
    BY <1>1 DEF IndexOf
  <2>3. prepared.val[v] = IF staking.val[v].exists /\ allowed # {} /\ v \notin allowed
                          THEN [staking.val[v] EXCEPT !.jailed = TRUE] ELSE staking.val[v]
    <3>1. prepared.val = [w \in Vals |->
            IF staking.val[w].exists /\ allowed # {} /\ w \notin allowed
            THEN [staking.val[w] EXCEPT !.jailed = TRUE] ELSE staking.val[w]]
      BY <1>1, Zenon DEF JailedOutside, Staking
    <3> HIDE DEF v, prepared
    <3> QED
      BY <2>2, <3>1
  <2>4. allowed # {} /\ v \notin allowed
    <3>1. prepared.val[v].jailed
      BY <2>1
    <3> HIDE DEF v, prepared
    <3> QED
      BY <2>2, <2>3, <3>1, Zenon
  <2> QED
    BY <2>2, <2>4 DEF Existing
<1>4. CASE /\ ~RewardsPanic(staking)
           /\ ~\E e \in staking.index : prepared.val[e[1]].jailed
  <2>1. prepared = staking
    BY <1>4, <1>1, JailedNobody
  <2>2. active \in ActiveSets(staking) /\ UpdatePanics(staking, active)
    BY <1>4, <2>1, Zenon
  <2>3. ~StakingPanics(staking, active)
    BY <1>1, NoStakingPanic, Zenon
  <2>4. active \in SUBSET Existing(staking)
    BY <1>1, <2>2, ActiveExist DEF Existing
  <2>5. Deficit(staking) # 0
    BY <1>1, <2>4, MovesFunded, MovedInt, <2>2, <2>3 DEF UpdatePanics
  <2>6. Deficit(staking) \in Nat
    BY <1>1, DeficitGaps, GapsInt DEF Sound
  <2> QED
    BY <2>5, <2>6
<1> QED
  BY <1>2, <1>3, <1>4

\* The state that an export for height zero writes has the fields of an update
\* in which nobody has finished to unbond.
LEMMA UpdatedFields ==
  ASSUME NEW s, Sound(s), last \subseteq Bonded(s), NEW active \in ActiveSets(s),
         ~UpdatePanics(s, active), NEW t, t = Updated(s, active)
  PROVE  /\ HasUpdated(s, t, active, {}, 0)
         /\ PowersOf(t, active) = PowersOf(s, active)
<1>1. s \in Staking /\ s.index = IndexOf(s.val)
  BY Zenon DEF Sound
<1>2. active \in SUBSET Vals /\ \A v \in active : s.val[v].exists
  BY <1>1, ActiveExist, Zenon
<1>3. Moved(s, active) \in Int /\ s.bonded \in Nat /\ s.notBonded \in Nat /\ s.unbonding \in Nat
  BY <1>2, <1>1, GapsInt, MovedInt DEF Existing
<1> DEFINE moved == Moved(s, active)
           val == StatusIn(s.val, active)
<1>4. t = [s EXCEPT !.val = val, !.bonded = @ + moved, !.notBonded = @ - moved]
  BY Zenon DEF Updated
<1>5. s.bonded + moved \in Nat /\ s.notBonded - moved \in Nat
  BY <1>3 DEF UpdatePanics
<1>6. /\ val \in Records
      /\ \A v \in Vals : val[v].exists = s.val[v].exists /\ val[v].tokens = s.val[v].tokens
  <2>1. ASSUME NEW v \in Vals
        PROVE  /\ val[v] \in Validator
               /\ val[v].exists = s.val[v].exists /\ val[v].tokens = s.val[v].tokens
    <3>1. s.val[v] \in Validator
      BY <1>1, GapsInt DEF Records
    <3>2. /\ [s.val[v] EXCEPT !.status = "bonded"] \in Validator
          /\ [s.val[v] EXCEPT !.status = "bonded"].exists = s.val[v].exists
          /\ [s.val[v] EXCEPT !.status = "bonded"].tokens = s.val[v].tokens
      BY <3>1, Zenon DEF Validator
    <3>3. /\ [s.val[v] EXCEPT !.status = "unbonding"] \in Validator
          /\ [s.val[v] EXCEPT !.status = "unbonding"].exists = s.val[v].exists
          /\ [s.val[v] EXCEPT !.status = "unbonding"].tokens = s.val[v].tokens
      BY <3>1, Zenon DEF Validator
    <3>4. val[v] \in {[s.val[v] EXCEPT !.status = "bonded"],
                      [s.val[v] EXCEPT !.status = "unbonding"], s.val[v]}
      BY DEF StatusIn
    <3> HIDE DEF val
    <3> QED
      BY <3>1, <3>2, <3>3, <3>4, ZenonT(60)
  <2>2. val = [v \in Vals |-> val[v]]
    BY DEF StatusIn
  <2> HIDE DEF val
  <2> QED
    BY <2>1, <2>2 DEF Records
<1>7. Matured(val, {} \ active) = val
  <2>1. Matured(val, {} \ active) = [v \in Vals |-> val[v]]
    BY DEF Matured
  <2> HIDE DEF val
  <2> QED
    BY <1>6, <2>1, Zenon DEF Records
<1> HIDE DEF moved, val
<1>8. /\ t.val = val /\ t.index = s.index /\ t.delegations = s.delegations
      /\ t.bonded = s.bonded + moved /\ t.notBonded = s.notBonded - moved
      /\ t.unbonding = s.unbonding /\ t.accounts = s.accounts
  BY <1>1, <1>4, Zenon DEF Staking
<1>9. t \in Staking
  BY <1>1, <1>4, <1>5, <1>6, ZenonT(60) DEF Staking, Records
<1>10. t.index = {e \in s.index : t.val[e[1]].exists}
  BY <1>1, <1>6, <1>8 DEF IndexOf
<1>11. /\ t.notBonded = s.notBonded - moved - 0 /\ t.unbonding = s.unbonding - 0
  BY <1>3, <1>8 DEF moved
<1>12. HasUpdated(s, t, active, {}, 0)
  BY <1>7, <1>8, <1>9, <1>10, <1>11, ZenonT(60) DEF HasUpdated, moved, val
<1>13. PowersOf(t, active) = PowersOf(s, active)
  BY <1>6, <1>8 DEF Power, PowersOf
<1> QED
  BY <1>12, <1>13

\* What the export does with one allow list, one rest of rewards, and one of
\* the validator sets that the staking module may choose.
ZeroHeight(allowed, left, active) ==
  IF \/ Malformed \in allowed
     \/ RewardsPanic(staking) \/ UpdatePanics(JailedOutside(staking, allowed), active)
  THEN /\ launch' = "panicked"
       /\ UNCHANGED <<staking, last, lastPowers, unbondingHeight, document>>
  ELSE /\ launch' = "exported"
       /\ staking' = Updated(JailedOutside(staking, allowed), active)
       /\ last' = active
       /\ lastPowers' = PowersOf(JailedOutside(staking, allowed), active)
       /\ unbondingHeight' = ResetHeights(JailedOutside(staking, allowed), active)
       /\ document' = DocumentOf(0, JailedOutside(staking, allowed), active, left,
            Donated(left).outstanding, Donated(left).communityPool)

\* The export for height zero.
LEMMA ZeroHeightKeeps ==
  ASSUME RelaunchInv, ExportForZeroHeight
  PROVE  RelaunchInv' /\ HooksStep
<1>1. /\ launch = "first" /\ phase = "begin" /\ height > 1
      /\ info' = info /\ hooks' = hooks /\ phase' = phase /\ height' = height
      /\ evm' = evm /\ initial' = initial
  BY DEF ExportForZeroHeight, Exportable
<1>2. PICK allowed \in AllowLists, left \in Dust :
        /\ allowList' = allowed
        /\ \E active \in ActiveSets(JailedOutside(staking, allowed)) :
             ZeroHeight(allowed, left, active)
  BY Zenon DEF ExportForZeroHeight, ZeroHeight
<1>3. PICK active \in ActiveSets(JailedOutside(staking, allowed)) :
        ZeroHeight(allowed, left, active)
  BY <1>2, ZenonT(60)
<1>4. /\ HooksInv /\ Sound(staking) /\ staking \in Staking /\ last \subseteq Bonded(staking)
      /\ staking.index = IndexOf(staking.val)
      /\ height \in Nat /\ evm \in [hash : Nat, height : Nat, timestamp : Nat] /\ evm.height = evm.hash
      /\ lastPowers \in [Vals -> Nat] /\ unbondingHeight \in [Vals -> Nat]
  BY DEF RelaunchInv, HooksInv, Sound, RelaunchTypeOK, TypeOK
<1>5. allowList' \subseteq Vals \cup {Malformed} /\ left \in Nat
  BY <1>2, RelaunchAssumption
<1>6. ~Scheduled("reconcile") /\ HaltsOnly
  BY <1>1, Zenon DEF Scheduled, HaltsOnly
<1> DEFINE panics ==
      \/ Malformed \in allowed
      \/ RewardsPanic(staking) \/ UpdatePanics(JailedOutside(staking, allowed), active)
<1>7. CASE panics
  <2>1. /\ launch' = "panicked" /\ staking' = staking /\ last' = last
        /\ lastPowers' = lastPowers /\ unbondingHeight' = unbondingHeight
        /\ document' = document /\ allowList' = allowed
    BY <1>2, <1>3, <1>7, ZenonT(60) DEF ZeroHeight
  <2>2. HooksInv'
    BY <1>1, <2>1 DEF RelaunchInv, HooksInv, TypeOK
  <2>3. document = NoDocument
    BY <1>1, Zenon DEF RelaunchInv, DocumentInv
  <2>4. RelaunchTypeOK' /\ DocumentInv' /\ PowersSent'
    BY <1>1, <1>5, <2>1, <2>2, Zenon
       DEF RelaunchInv, RelaunchTypeOK, HooksInv, DocumentInv, PowersSent
  <2>5. ExportPanicsOnlyFor'
    BY <1>4, <1>7, PanicNamed, <1>1, <2>1, ZenonT(60) DEF ExportPanicsOnlyFor
  <2>6. ExportIsImportable'
    BY <2>1 DEF ExportIsImportable
  <2>7. Deficit(staking') <= Deficit(staking)
    BY <1>4, <2>1, FollowsSelf, FollowsDeficit
  <2>8. HooksStep
    BY <1>6, <2>2, <2>7 DEF HooksStep, Repairs
  <2> QED
    BY <1>1, <2>2, <2>4, <2>5, <2>6, <2>8, Zenon DEF RelaunchInv
<1>8. CASE ~panics
  <2>1. JailedOutside(staking, allowed) = staking
    <3>1. ~StakingPanics(JailedOutside(staking, allowed), active)
      BY <1>8, Zenon DEF UpdatePanics
    <3>2. JailedOutside(staking, allowed).index = staking.index
      BY <1>4, Zenon DEF JailedOutside, Staking
    <3>3. \A e \in staking.index : ~JailedOutside(staking, allowed).val[e[1]].jailed
      BY <3>1, <3>2, Zenon DEF StakingPanics
    <3> QED
      BY <1>4, <3>3, JailedNobody, Zenon
  <2>2. active \in ActiveSets(staking) /\ ~UpdatePanics(staking, active)
    BY <1>8, <2>1, Zenon
  <2>3. /\ launch' = "exported" /\ staking' = Updated(staking, active) /\ last' = active
        /\ lastPowers' = PowersOf(staking, active)
        /\ unbondingHeight' = ResetHeights(staking, active)
        /\ document' = DocumentOf(0, staking, active, left, 0, left)
    BY <1>3, <1>8, <2>1 DEF Donated, ZeroHeight
  <2>4. /\ HasUpdated(staking, staking', active, {}, 0)
        /\ PowersOf(staking', active) = PowersOf(staking, active)
    BY <1>4, <2>2, <2>3, UpdatedFields, ZenonT(60)
  <2>5. /\ Follows(staking, staking') /\ active \subseteq Bonded(staking')
        /\ Unshared(staking') \subseteq Unshared(staking)
    BY <1>4, <2>2, <2>4, UpdateFollows, ZenonT(60)
  <2>6. Sound(staking') /\ staking' \in Staking
    BY <2>5, Zenon DEF Follows, Sound
  <2>7. active \in SUBSET Vals /\ \A v \in active : Power(staking.val[v]) > 0
    BY <1>4, <2>2, ActiveExist, Zenon
  <2>8. TypeOK'
    BY <1>1, <2>3, <2>6, <2>7, ZenonT(60) DEF RelaunchInv, RelaunchTypeOK, TypeOK
  <2>9. HooksInv'
    BY <1>1, <1>4, <2>5, <2>3, <2>6, <2>8, ZenonT(60) DEF HooksInv
  <2>10. /\ PowersOf(staking, active) \in [Vals -> Nat]
         /\ \A v \in active : PowersOf(staking, active)[v] > 0
         /\ \A v \in Vals \ active : PowersOf(staking, active)[v] = 0
    BY <1>4, PowersNat, <2>7, ZenonT(60) DEF PowersOf
  <2>11. document' \in Document
    BY <1>4, <1>5, <2>3, <2>10, ZenonT(60)
       DEF ExportGenesis, EvmGenesis, DocumentOf, Document
  <2>12. /\ document'.height = 0 /\ document'.validators = PowersOf(staking, active)
         /\ document'.evm = ExportGenesis(evm) /\ document'.balance = left
         /\ document'.outstanding = 0 /\ document'.communityPool = left
    BY <2>3 DEF DocumentOf
  <2>13. unbondingHeight' \in [Vals -> Nat]
    BY <1>1, <1>4, <2>3 DEF ResetHeights
  <2>14. RelaunchTypeOK'
    BY <1>1, <1>5, <2>3, <2>8, <2>10, <2>11, <2>13, ZenonT(60)
       DEF RelaunchInv, RelaunchTypeOK
  <2>15. PowersSent'
    BY <2>3, <2>10 DEF PowersSent
  <2>16. DocumentInv'
    <3>1. document'.validators = PowersOf(staking', last')
      BY <2>3, <2>4, <2>12, Zenon
    <3>2. lastPowers' = PowersOf(staking', last')
      BY <2>3, <2>4, Zenon
    <3>3. \A v \in last' : lastPowers'[v] > 0
      BY <2>3, <2>10, Zenon
    <3>4. document'.height <= MaxHeight + 1
      BY <2>12, StakingHooksAssumption
    <3>5. document'.balance = document'.outstanding + document'.communityPool
      BY <1>5, <2>12
    <3>6. document'.evm = ExportGenesis(evm') /\ phase' = "begin" /\ launch' = "exported"
      BY <1>1, <2>3, <2>12, ZenonT(60)
    <3> QED
      BY <2>11, <3>1, <3>2, <3>3, <3>4, <3>5, <3>6, ZenonT(60) DEF DocumentInv
  <2>17. ExportPanicsOnlyFor' /\ ExportIsImportable'
    BY <2>3 DEF ExportPanicsOnlyFor, ExportIsImportable
  <2>18. Deficit(staking') <= Deficit(staking)
    BY <1>4, <2>5, FollowsDeficit, Zenon
  <2>19. HooksStep
    BY <1>6, <2>9, <2>18 DEF HooksStep, Repairs
  <2> QED
    BY <1>1, <2>9, <2>14, <2>15, <2>16, <2>17, <2>19, ZenonT(60) DEF RelaunchInv
<1> QED
  BY <1>7, <1>8

\* A document that is refused is refused for a reason that ExportIsImportable
\* names: with funded pools, the pools are exactly what the records say, and
\* the validators are those of the last update, at their present power.
LEMMA RefusalNamed ==
  ASSUME RelaunchInv, launch = "exported", ~GenesisAccepted(document)
  PROVE  \/ Deficit(staking) > 0
         \/ last = {}
         \/ document.height > 0 /\ \E v \in last : Power(staking.val[v]) # lastPowers[v]
<1>1. /\ Sound(staking) /\ staking \in Staking /\ last \subseteq Vals
      /\ lastPowers \in [Vals -> Nat]
  BY Zenon DEF RelaunchInv, HooksInv, Sound, RelaunchTypeOK, TypeOK
<1>2. /\ document \in Document /\ document.validators = PowersOf(staking, last)
      /\ document.balance = document.outstanding + document.communityPool
      /\ \A v \in last : lastPowers[v] > 0
      /\ document.height = 0 => lastPowers = PowersOf(staking, last)
  BY DEF RelaunchInv, DocumentInv
<1>3. document.height \in Nat
  BY <1>2 DEF Document
<1>4. \A v \in Vals \ last : lastPowers[v] = 0
  BY ZenonT(60) DEF RelaunchInv, PowersSent
<1>5. /\ BondedGap(staking) \in Int /\ OwedGap(staking) \in Int
      /\ BondedGap(staking) >= 0 /\ OwedGap(staking) >= 0
      /\ Deficit(staking) = BondedGap(staking) + OwedGap(staking)
  BY <1>1, DeficitGaps, GapsInt DEF Sound
<1>6. SUFFICES ASSUME ~(Deficit(staking) > 0), last # {},
                      document.height > 0 => \A v \in last : Power(staking.val[v]) = lastPowers[v]
               PROVE  GenesisAccepted(document)
  BY Zenon
<1>7. /\ staking.bonded = TokensOf(staking, Bonded(staking))
      /\ staking.notBonded = Owed(staking)
  <2>1. BondedGap(staking) = 0 /\ OwedGap(staking) = 0
    BY <1>5, <1>6
  <2> QED
    BY <1>1, <2>1, GapsInt DEF Owed
<1>8. PowersOf(staking, last) = lastPowers
  BY <1>2, <1>6, <1>4, <1>1, <1>3 DEF PowersOf
<1> QED
  BY <1>2, <1>6, <1>7, <1>8, Zenon DEF GenesisAccepted

\* The import: the new chain starts with the records and the head of the old.
LEMMA ImportKeeps ==
  ASSUME RelaunchInv, InitChain
  PROVE  RelaunchInv' /\ HooksStep
<1>1. /\ launch = "exported" /\ info' = info /\ last' = last /\ hooks' = hooks
      /\ phase' = phase /\ lastPowers' = lastPowers /\ unbondingHeight' = unbondingHeight
  BY Zenon DEF InitChain
<1>2. /\ HooksInv /\ Sound(staking) /\ staking \in Staking
      /\ staking.index = IndexOf(staking.val)
      /\ phase = "begin" /\ document \in Document /\ document.height <= MaxHeight + 1
      /\ document.evm = ExportGenesis(evm)
      /\ evm \in [hash : Nat, height : Nat, timestamp : Nat] /\ evm.height = evm.hash
      /\ height \in 1..MaxHeight + 1
  BY <1>1, Zenon DEF RelaunchInv, HooksInv, Sound, DocumentInv, RelaunchTypeOK, TypeOK
<1>3. ~Scheduled("reconcile") /\ HaltsOnly
  BY <1>1, <1>2 DEF Scheduled, HaltsOnly
<1>4. /\ staking' = staking /\ height' \in 1..MaxHeight + 1
      /\ initial' \in 1..MaxHeight + 1 /\ evm' = evm
      /\ \/ launch' = "again" /\ document' = NoDocument /\ allowList' = {}
         \/ /\ launch' = "refused" /\ ~GenesisAccepted(document)
            /\ document' = document /\ allowList' = allowList
  <2>1. CASE GenesisAccepted(document)
    <3>1. /\ launch' = "again" /\ document' = NoDocument /\ allowList' = {}
          /\ staking' = [staking EXCEPT !.index = IndexOf(staking.val)]
          /\ height' = Max({1, document.height}) /\ initial' = height'
          /\ evm' = InitGenesis(document.evm)
      BY <2>1, Zenon DEF InitChain
    <3>2. staking' = staking
      BY <1>2, <3>1, Zenon DEF Staking
    <3>3. Max({1, document.height}) \in 1..MaxHeight + 1
      <4>1. document.height \in Nat /\ 1 \in Int /\ document.height \in Int
        BY <1>2 DEF Document
      <4>2. Max({1, document.height}) =
              IF 1 >= document.height THEN 1 ELSE document.height
        BY <4>1, MinMax, Zenon
      <4> QED
        BY <1>2, <4>1, <4>2, StakingHooksAssumption
    <3>4. InitGenesis(document.evm) = evm
      BY <1>2, RelaunchAssumption DEF InitGenesis, ExportGenesis
    <3> QED
      BY <3>1, <3>2, <3>3, <3>4, Zenon
  <2>2. CASE ~GenesisAccepted(document)
    BY <2>2, <1>2, ZenonT(60) DEF InitChain, RelaunchInv, RelaunchTypeOK
  <2> QED
    BY <2>1, <2>2
<1>5. HooksInv'
  BY <1>1, <1>2, <1>4 DEF RelaunchInv, HooksInv, TypeOK
<1>6. Deficit(staking') <= Deficit(staking)
  BY <1>2, <1>4, FollowsSelf, FollowsDeficit
<1>7. HooksStep
  BY <1>3, <1>5, <1>6, Zenon DEF HooksStep, Repairs
<1>8. RelaunchTypeOK'
  BY <1>1, <1>4, <1>5, ZenonT(60) DEF RelaunchInv, RelaunchTypeOK, HooksInv
<1>9. PowersSent'
  BY <1>1, <1>4 DEF RelaunchInv, PowersSent
<1>10. DocumentInv'
  <2>1. phase' = "begin" /\ DocumentInv
    BY <1>1, <1>2, Zenon DEF RelaunchInv
  <2>2. CASE launch' = "again" /\ document' = NoDocument
    <3>1. launch' \notin {"exported", "refused"}
      BY <2>2
    <3> QED
      BY <2>1, <2>2, <3>1, Zenon DEF DocumentInv
  <2>3. CASE launch' = "refused" /\ document' = document
    <3>1. launch \in {"exported", "refused"} /\ launch' \in {"exported", "refused"}
      BY <1>1, <2>3, Zenon
    <3> QED
      BY <1>1, <1>4, <2>1, <2>3, <3>1, Zenon DEF DocumentInv
  <2> QED
    BY <1>4, <2>2, <2>3, Zenon
<1>11. ExportPanicsOnlyFor'
  BY <1>4, Zenon DEF ExportPanicsOnlyFor
<1>12. ExportIsImportable'
  BY <1>1, RefusalNamed, <1>4, Zenon DEF ExportIsImportable
<1> QED
  BY <1>4, <1>5, <1>7, <1>8, <1>9, <1>10, <1>11, <1>12, ZenonT(60) DEF RelaunchInv

---------------------------------------------------------------------------
\* The theorems.

\* Nothing changes in a step in which nothing happens.
LEMMA UnchangedKeeps ==
  ASSUME RelaunchInv, UNCHANGED allVars
  PROVE  RelaunchInv'
<1>1. /\ staking' = staking /\ info' = info /\ last' = last /\ hooks' = hooks
      /\ phase' = phase /\ height' = height /\ lastPowers' = lastPowers
      /\ unbondingHeight' = unbondingHeight /\ evm' = evm /\ launch' = launch
      /\ initial' = initial /\ allowList' = allowList /\ document' = document
  BY DEF allVars, vars, newVars
<1> QED
  BY <1>1, ZenonT(60)
     DEF RelaunchInv, RelaunchTypeOK, HooksInv, TypeOK, PowersSent,
         DocumentInv, ExportPanicsOnlyFor, ExportIsImportable, PowersOf,
         ExportGenesis

\* Every step keeps the invariant, and every step of the hooks' variables
\* halts and repairs as it may.
LEMMA RelaunchStep ==
  ASSUME RelaunchInv, [RelaunchNext]_allVars
  PROVE  RelaunchInv' /\ (HooksStep \/ UNCHANGED vars)
<1>1. CASE Begin
  BY <1>1, BeginKeeps
<1>2. CASE UpdateValidators
  BY <1>2, UpdateKeeps
<1>3. CASE PerformHooks
  BY <1>3, HooksKeep
<1>4. CASE Export
  BY <1>4, ExportKeeps, ZenonT(60)
<1>5. CASE ExportForZeroHeight
  BY <1>5, ZeroHeightKeeps
<1>6. CASE InitChain
  BY <1>6, ImportKeeps
<1>7. CASE UNCHANGED allVars
  BY <1>7, UnchangedKeeps DEF allVars
<1> QED
  BY <1>1, <1>2, <1>3, <1>4, <1>5, <1>6, <1>7, Zenon DEF RelaunchNext, Ended

\* The invariant holds at the start of the first chain.
LEMMA RelaunchInitial ==
  ASSUME RelaunchInit
  PROVE  RelaunchInv
<1>1. HooksInv /\ staking \in Staking
  BY InitialHooks, ZenonT(60) DEF RelaunchInit, HooksInv, TypeOK
<1>2. /\ launch = "first" /\ initial = 1 /\ allowList = {} /\ document = NoDocument
      /\ lastPowers = PowersOf(staking, last) /\ unbondingHeight = [v \in Vals |-> 0]
      /\ height = 1 /\ phase = "begin"
  BY DEF RelaunchInit, Init
<1>3. evm \in [hash : Nat, height : Nat, timestamp : Nat] /\ evm.height = evm.hash
  BY DEF RelaunchInit, InitGenesis
<1>4. RelaunchTypeOK
  BY <1>1, PowersNat, StakingHooksAssumption, <1>2, <1>3
     DEF RelaunchTypeOK, HooksInv
<1>5. PowersSent /\ DocumentInv
  BY <1>2 DEF PowersSent, DocumentInv, PowersOf
<1>6. ExportPanicsOnlyFor /\ ExportIsImportable
  BY <1>2 DEF ExportPanicsOnlyFor, ExportIsImportable
<1> QED
  BY <1>1, <1>3, <1>4, <1>5, <1>6, ZenonT(60) DEF RelaunchInv

\* The invariant holds in every reachable state.
THEOREM RelaunchInvariant == RelaunchSpec => []RelaunchInv
<1>1. RelaunchInit => RelaunchInv
  BY RelaunchInitial
<1>2. RelaunchInv /\ [RelaunchNext]_allVars => RelaunchInv'
  BY RelaunchStep
<1> QED
  BY <1>1, <1>2, PTL DEF RelaunchSpec

\* The variables of StakingHooks and Relaunch keep their types: no sum of
\* tokens, pool or power that the hooks or the export compute goes negative.
THEOREM RelaunchTypes == RelaunchSpec => []RelaunchTypeOK
<1>1. RelaunchInv => RelaunchTypeOK
  BY DEF RelaunchInv
<1> QED
  BY <1>1, RelaunchInvariant, PTL

\* For any validators and any lists of hooks, the records that the hooks of
\* block_hooks.go write directly agree with the staking module's power index.
THEOREM IndexMatches == RelaunchSpec => []PowerIndexMatches
<1>1. RelaunchInv => PowerIndexMatches
  BY Zenon DEF RelaunchInv, HooksInv, Sound, PowerIndexMatches
<1> QED
  BY <1>1, RelaunchInvariant, PTL

\* However many blocks the old chain executed, the exported genesis of x/evm
\* is imported as the block state it was exported from.
THEOREM HeadKept == RelaunchSpec => []HeadSurvives
<1>1. ASSUME RelaunchInv PROVE HeadSurvives
  BY <1>1, RelaunchAssumption
     DEF RelaunchInv, RelaunchTypeOK, DocumentInv, InitGenesis, ExportGenesis,
         HeadSurvives
<1> QED
  BY <1>1, RelaunchInvariant, PTL

\* An export for height zero panics only for the reasons the property names,
\* whatever the removals, top-ups and slashes before it were.
THEOREM PanicsNamed == RelaunchSpec => []ExportPanicsOnlyFor
<1>1. RelaunchInv => ExportPanicsOnlyFor
  BY DEF RelaunchInv
<1> QED
  BY <1>1, RelaunchInvariant, PTL

\* InitChain refuses an exported genesis only for the reasons the property
\* names.
THEOREM ExportsImportable == RelaunchSpec => []ExportIsImportable
<1>1. RelaunchInv => ExportIsImportable
  BY DEF RelaunchInv
<1> QED
  BY <1>1, RelaunchInvariant, PTL

\* With funded pools, no hook, slash or update of the validator set halts the
\* chain but the removals and the top-ups the property names.
THEOREM HaltsOnlyFor == RelaunchSpec => OnlyRemovalHalts
<1>1. RelaunchInv /\ [RelaunchNext]_allVars => HaltsOnly \/ UNCHANGED vars
  BY RelaunchStep DEF HooksStep
<1> QED
  BY <1>1, RelaunchInvariant, PTL DEF RelaunchSpec, OnlyRemovalHalts, HaltsOnly

\* No step widens the shortfall of the pools, and a reconciliation closes it
\* with exactly the coins that are missing.
THEOREM ReconcileCloses == RelaunchSpec => ReconcileRepairs
<1>1. RelaunchInv /\ [RelaunchNext]_allVars => Repairs \/ UNCHANGED vars
  BY RelaunchStep DEF HooksStep
<1> QED
  BY <1>1, RelaunchInvariant, PTL DEF RelaunchSpec, ReconcileRepairs, Repairs

---------------------------------------------------------------------------
\* The heights that an export for height zero leaves.

\* After the update of the validator set, and until the next block, whoever is
\* in the active set could stay in it, unless a hook has removed it.
Seated(v) ==
  info[v] = "tombstoned" \/ (~staking.val[v].jailed /\ Power(staking.val[v]) > 0)

LastSeated ==
  launch = "first" /\ (phase = "hooks" \/ (phase = "begin" /\ height > 1)) =>
    \A v \in last : Seated(v)

\* More tokens are not less power.
LEMMA PowerGrows ==
  ASSUME NEW a \in Nat, NEW b \in Nat, a <= b, a \div PowerReduction > 0
  PROVE  b \div PowerReduction > 0
<1>1. PowerReduction \in Nat /\ PowerReduction > 0
  BY StakingHooksAssumption
<1> QED
  BY <1>1

\* Whoever the update chooses is seated.
LEMMA ActiveSeated ==
  ASSUME HooksInv, StakingEndBlock, phase' = "hooks", NEW v \in last'
  PROVE  Seated(v)'
<1>1. PICK active \in ActiveSets(staking) \ {{}},
           mature \in SUBSET {w \in Vals : staking.val[w].status = "unbonding"},
           paid \in {0, staking.unbonding} :
        /\ staking' = EndBlocked(staking, active, mature, paid)
        /\ last' = active
  <2>1. ~Halt
    BY DEF Halt
  <2>2. PICK active \in ActiveSets(staking) \ {{}},
             mature \in SUBSET {w \in Vals : staking.val[w].status = "unbonding"},
             paid \in {0, staking.unbonding} :
          IF \/ StakingPanics(staking, active)
             \/ staking.bonded + Moved(staking, active) < 0
             \/ staking.notBonded - Moved(staking, active) < 0
          THEN Halt
          ELSE /\ paid <= staking.notBonded - Moved(staking, active)
               /\ staking' = EndBlocked(staking, active, mature, paid)
               /\ info' = [w \in Vals |-> IF w \in active /\ info[w] = "none"
                                          THEN "ok" ELSE info[w]]
               /\ last' = active
               /\ phase' = "hooks"
               /\ UNCHANGED <<hooks, height>>
    BY Zenon DEF StakingEndBlock, EndBlocked
  <2>3. staking' = EndBlocked(staking, active, mature, paid) /\ last' = active
    BY <2>1, <2>2, Zenon
  <2> QED
    BY <2>3, Zenon
<1>2. /\ staking \in Staking /\ staking.index = IndexOf(staking.val)
  BY Zenon DEF HooksInv, Sound
<1>3. v \in Vals /\ ~staking.val[v].jailed /\ Power(staking.val[v]) > 0
  BY <1>1, <1>2, ActiveExist
<1>4. staking.val[v] \in Validator
  BY <1>2, <1>3 DEF Staking
<1>5. staking'.val = Matured(StatusIn(staking.val, active), mature \ active)
  BY <1>1, <1>2, Zenon DEF EndBlocked, Staking
<1>6. staking'.val[v] = [staking.val[v] EXCEPT !.status = "bonded"]
  BY <1>1, <1>3, <1>5 DEF Matured, StatusIn
<1>7. /\ staking'.val[v].jailed = staking.val[v].jailed
      /\ staking'.val[v].tokens = staking.val[v].tokens
  BY <1>4, <1>6, Zenon DEF Validator
<1> QED
  BY <1>3, <1>7 DEF Seated, Power

\* A top-up jails nobody and takes no tokens.
LEMMA ToppedSeats ==
  ASSUME NEW s \in Staking, NEW v \in Vals, NEW target \in Nat, NEW w \in Vals,
         NEW t, t = SetValidatorBalance(s, v, target)
  PROVE  /\ t.val[w].jailed = s.val[w].jailed /\ t.val[w].tokens >= s.val[w].tokens
         /\ t.val \in [Vals -> Validator] /\ t \in Staking
<1>1. s.val \in [Vals -> Validator] /\ s.val[v] \in Validator /\ s.val[w] \in Validator
  BY DEF Staking
<1>2. s.val[v].tokens \in Nat /\ s.val[w].tokens \in Nat
  BY <1>1 DEF Validator
<1>3. CASE s.val[v].tokens >= target
  <2>1. t = s
    BY <1>3, Zenon DEF SetValidatorBalance
  <2> QED
    BY <1>1, <1>2, <2>1
<1>4. CASE ~(s.val[v].tokens >= target) /\ DelegateAllowed(s, v)
  <2> DEFINE amount == target - s.val[v].tokens
  <2>1. amount \in Nat
    BY <1>2, <1>4
  <2>2. t = Delegated(s, v, amount)
    BY <1>4, Zenon DEF SetValidatorBalance
  <2> HIDE DEF amount
  <2>3. HasDelegated(s, v, amount, t)
    BY <2>1, <2>2, DelegatedFields, Zenon
  <2>4. /\ t \in Staking /\ \A u \in Vals \ {v} : t.val[u] = s.val[u]
        /\ t.val[v] = [s.val[v] EXCEPT !.tokens = s.val[v].tokens + amount, !.shares = TRUE]
    BY <2>3, Zenon DEF HasDelegated
  <2>5. t.val[v].jailed = s.val[v].jailed /\ t.val[v].tokens = s.val[v].tokens + amount
    BY <1>1, <2>4, Zenon DEF Validator
  <2>6. t.val[w].jailed = s.val[w].jailed /\ t.val[w].tokens >= s.val[w].tokens
    <3>1. CASE w = v
      <4>1. t.val[v].tokens >= s.val[v].tokens
        BY <1>2, <2>1, <2>5
      <4> QED
        BY <2>5, <3>1, <4>1, Zenon
    <3>2. CASE w # v
      <4>1. t.val[w] = s.val[w]
        BY <2>4, <3>2, Zenon
      <4>2. s.val[w].tokens >= s.val[w].tokens
        BY <1>2
      <4> QED
        BY <4>1, <4>2, Zenon
    <3> QED
      BY <3>1, <3>2, Zenon
  <2> QED
    BY <2>4, <2>6, Zenon DEF Staking
<1>5. CASE ~(s.val[v].tokens >= target) /\ ~DelegateAllowed(s, v)
  <2> DEFINE amount == target - s.val[v].tokens
  <2>1. s.accounts + amount \in Nat
    BY <1>2, <1>5 DEF Staking
  <2>2. t = [s EXCEPT !.accounts = s.accounts + amount]
    BY <1>5, Zenon DEF SetValidatorBalance
  <2> HIDE DEF amount
  <2>3. t.val = s.val /\ t \in Staking
    BY <2>1, <2>2, Zenon DEF Staking
  <2> QED
    BY <1>1, <1>2, <2>3
<1> QED
  BY <1>3, <1>4, <1>5, Zenon

\* ExecuteUnjailing unseats nobody.
LEMMA UnjailSeats ==
  ASSUME HooksInv, ExecuteUnjailing, phase' # "halted", NEW w \in Vals, Seated(w)
  PROVE  Seated(w)'
<1> DEFINE v == Head(hooks).v
           target == Head(hooks).target
           topped == SetValidatorBalance(staking, v, target)
<1>1. Scheduled("unjail") /\ hooks # <<>>
  BY DEF ExecuteUnjailing, Scheduled
<1>2. v \in Vals /\ target \in Nat
  BY <1>1, HeadHook DEF Scheduled
<1>h. ~Halt
  BY DEF Halt
<1>3. staking \in Staking /\ info' = info
  BY <1>h, Zenon DEF HooksInv, Sound, ExecuteUnjailing
<1>4. /\ topped.val[w].jailed = staking.val[w].jailed
      /\ topped.val[w].tokens >= staking.val[w].tokens
      /\ topped.val \in [Vals -> Validator] /\ topped \in Staking
  <2>1. topped = SetValidatorBalance(staking, v, target)
    OBVIOUS
  <2> HIDE DEF v, target, topped
  <2> QED
    BY <1>2, <1>3, <2>1, ToppedSeats
<1>5. staking' \in {staking, topped,
        [topped EXCEPT !.val[v].jailed = FALSE, !.index = @ \cup {Entry(topped, v)}]}
  <2>1. \/ staking' = staking \/ staking' = topped
        \/ staking' =
             [topped EXCEPT !.val[v].jailed = FALSE, !.index = @ \cup {Entry(topped, v)}]
    BY <1>h DEF ExecuteUnjailing
  <2> QED
    BY <2>1, Zenon
<1> HIDE DEF topped
<1>6. /\ staking.val[w].tokens \in Nat /\ topped.val[w].tokens \in Nat
      /\ topped.val[w] \in Validator
  BY <1>3, <1>4 DEF Staking, Validator
<1>7. /\ staking'.val[w].tokens \in {staking.val[w].tokens, topped.val[w].tokens}
      /\ staking'.val[w].jailed => staking.val[w].jailed
  <2>1. CASE staking' = staking \/ staking' = topped
    BY <1>4, <2>1, Zenon
  <2>2. CASE staking' = [topped EXCEPT !.val[v].jailed = FALSE,
                                       !.index = @ \cup {Entry(topped, v)}]
    <3>1. staking'.val = [topped.val EXCEPT ![v] = [topped.val[v] EXCEPT !.jailed = FALSE]]
      BY <1>4, <2>2, Zenon DEF Staking
    <3>2. staking'.val[w] = IF w = v THEN [topped.val[w] EXCEPT !.jailed = FALSE]
                            ELSE topped.val[w]
      <4> HIDE DEF v
      <4> QED
        BY <1>2, <1>4, <3>1, Zenon
    <3>3. /\ [topped.val[w] EXCEPT !.jailed = FALSE].tokens = topped.val[w].tokens
          /\ ~[topped.val[w] EXCEPT !.jailed = FALSE].jailed
      BY <1>6, Zenon DEF Validator
    <3> QED
      BY <1>4, <3>2, <3>3, Zenon
  <2> QED
    BY <1>5, <2>1, <2>2, Zenon
<1>8. Power(staking.val[w]) > 0 => Power(staking'.val[w]) > 0
  BY <1>4, <1>6, <1>7, PowerGrows DEF Power
<1> QED
  BY <1>3, <1>7, <1>8, Zenon DEF Seated

\* ExecuteAddValidator unseats nobody in the active set.
LEMMA AddSeats ==
  ASSUME HooksInv, ExecuteAddValidator, phase' # "halted", NEW w \in Bonded(staking),
         Seated(w)
  PROVE  Seated(w)'
<1> DEFINE v == Head(hooks).v
           amount == Head(hooks).initial
           minSelf == Head(hooks).minSelf
           created == Created(staking, v, minSelf)
<1>1. Scheduled("add") /\ hooks # <<>>
  BY DEF ExecuteAddValidator, Scheduled
<1>2. v \in Vals /\ amount \in Nat /\ minSelf \in Nat
  BY <1>1, HeadHook DEF Scheduled
<1>3. /\ Sound(staking) /\ staking \in Staking /\ info \in [Vals -> SigningInfo]
      /\ w \in Vals /\ staking.val[w].exists
  BY DEF HooksInv, TypeOK, Bonded, Existing
<1>h. ~Halt
  BY DEF Halt
<1>4. \/ staking' = staking /\ info' = info
      \/ staking' = SetValidatorBalance(staking, v, amount) /\ info' = info
      \/ /\ staking' = SetValidatorBalance(created, v, amount) /\ ~staking.val[v].exists
         /\ info' = [info EXCEPT ![v] = IF @ = "none" THEN "ok" ELSE @]
  BY <1>h, Zenon DEF ExecuteAddValidator, Created
<1>5. created = Created(staking, v, minSelf)
  OBVIOUS
<1> HIDE DEF v, amount, minSelf, created
<1>6. PICK s \in {staking, created} :
        /\ s \in Staking /\ s.val[w] = staking.val[w]
        /\ staking' = staking \/ staking' = SetValidatorBalance(s, v, amount)
        /\ info[w] = "tombstoned" => info'[w] = "tombstoned"
  <2>1. CASE staking' \in {staking, SetValidatorBalance(staking, v, amount)} /\ info' = info
    BY <1>3, <2>1, Zenon
  <2>2. CASE /\ staking' = SetValidatorBalance(created, v, amount) /\ ~staking.val[v].exists
             /\ info' = [info EXCEPT ![v] = IF @ = "none" THEN "ok" ELSE @]
    <3>1. created \in Staking
      <4>1. Follows(staking, created)
        BY <1>2, <1>3, <1>5, <2>2, CreatedFollows, Zenon
      <4> QED
        BY <4>1, Zenon DEF Follows, Sound
    <3>2. w # v
      BY <1>3, <2>2, Zenon
    <3>3. created.val[w] = staking.val[w]
      <4> DEFINE r == [exists |-> TRUE, status |-> "bonded", tokens |-> 0,
                       shares |-> FALSE, jailed |-> FALSE, minSelf |-> minSelf]
      <4>1. created.val = [staking.val EXCEPT ![v] = r]
        BY <1>3, <1>5, Zenon DEF Created, Staking
      <4> HIDE DEF r
      <4>2. staking.val \in [Vals -> Validator]
        BY <1>3, Zenon DEF Staking
      <4> QED
        BY <1>3, <3>2, <4>1, <4>2
    <3>4. info'[w] = info[w]
      BY <1>3, <2>2, <3>2
    <3> QED
      BY <2>2, <3>1, <3>3, <3>4, Zenon
  <2> QED
    BY <1>4, <2>1, <2>2, Zenon
<1>7. CASE staking' = staking
  BY <1>6, <1>7, Zenon DEF Seated
<1>8. CASE staking' = SetValidatorBalance(s, v, amount)
  <2>1. /\ staking'.val[w].jailed = s.val[w].jailed
        /\ staking'.val[w].tokens >= s.val[w].tokens /\ staking' \in Staking
    BY <1>2, <1>3, <1>6, <1>8, ToppedSeats
  <2>2. staking'.val[w].tokens \in Nat /\ staking.val[w].tokens \in Nat
    <3>1. staking'.val[w] \in Validator /\ staking.val[w] \in Validator
      BY <1>3, <2>1 DEF Staking
    <3> QED
      BY <3>1 DEF Validator
  <2>3. Power(staking.val[w]) > 0 => Power(staking'.val[w]) > 0
    BY <1>6, <2>1, <2>2, PowerGrows DEF Power
  <2> QED
    BY <1>6, <2>1, <2>3, Zenon DEF Seated
<1> QED
  BY <1>6, <1>7, <1>8, Zenon

\* ExecuteRemoveValidator unseats nobody but the validator it tombstones.
LEMMA RemoveSeats ==
  ASSUME HooksInv, ExecuteRemoveValidator, phase' # "halted", NEW w \in Vals, Seated(w)
  PROVE  Seated(w)'
<1> DEFINE v == Head(hooks).v
           tokens == Head(hooks).tokens
           u == HandleValidatorTokens(staking, v, tokens)
<1>1. Scheduled("remove") /\ hooks # <<>>
  BY DEF ExecuteRemoveValidator, Scheduled
<1>2. v \in Vals
  BY <1>1, HeadHook DEF Scheduled
<1>3. /\ Sound(staking) /\ staking \in Staking /\ info \in [Vals -> SigningInfo]
  BY DEF HooksInv, TypeOK
<1>h. ~Halt
  BY DEF Halt
<1>4. /\ staking' = Removed(staking, v, tokens)
      /\ info' = [info EXCEPT ![v] = "tombstoned"]
  BY <1>h, Zenon DEF ExecuteRemoveValidator
<1>5. \A x \in Vals \ {v} : Removed(staking, v, tokens).val[x] = staking.val[x]
  <2>1. staking.val \in [Vals -> Validator]
    BY <1>3, Zenon DEF Staking
  <2>2. u.val = staking.val /\ DOMAIN u = DOMAIN staking
    BY <1>3, Zenon DEF HandleValidatorTokens, Staking
  <2> DEFINE taken == Taken(staking, v, tokens) > 0
             r == [staking.val[v] EXCEPT !.jailed = TRUE,
                                         !.tokens = IF taken THEN 0 ELSE @,
                                         !.shares = @ /\ ~taken]
  <2>3. Removed(staking, v, tokens) =
          [u EXCEPT !.index = IF staking.val[v].jailed THEN @ ELSE @ \ {Entry(staking, v)},
                    !.val[v] = r]
    BY Zenon DEF Removed
  <2>4. DOMAIN staking = {"val", "index", "bonded", "notBonded", "delegations", "started",
                          "unbonding", "accounts"}
    BY <1>3, Zenon DEF Staking
  <2> HIDE DEF r, u, v, tokens
  <2>5. Removed(staking, v, tokens).val = [staking.val EXCEPT ![v] = r]
    BY <2>2, <2>3, <2>4
  <2> QED
    BY <1>2, <2>1, <2>5
<1> HIDE DEF v, tokens, u
<1>6. CASE w = v
  BY <1>2, <1>3, <1>4, <1>6, Zenon DEF Seated
<1>7. CASE w # v
  <2>1. staking'.val[w] = staking.val[w]
    BY <1>4, <1>5, <1>7, Zenon
  <2>2. info'[w] = info[w]
    BY <1>3, <1>4, <1>7, Zenon
  <2> QED
    BY <2>1, <2>2, Zenon DEF Seated
<1> QED
  BY <1>6, <1>7

\* The hooks unseat nobody but whom they tombstone, and the rest of a chain
\* keeps the invariant.
LEMMA SeatedStep ==
  ASSUME RelaunchInv, LastSeated, [RelaunchNext]_allVars
  PROVE  LastSeated'
<1>1. HooksInv /\ last \subseteq Bonded(staking) /\ last \subseteq Vals /\ staking \in Staking
  BY Zenon DEF RelaunchInv, HooksInv, Sound, TypeOK
<1>2. CASE Begin
  <2>1. phase' = "end" \/ phase' = "halted"
    BY <1>2, Zenon DEF Begin, BeginBlock, BeginBlockSlash, Halt
  <2> QED
    BY <2>1 DEF LastSeated
<1>3. CASE UpdateValidators
  <2>1. StakingEndBlock
    BY <1>3, Zenon DEF UpdateValidators
  <2>2. CASE phase' = "hooks"
    BY <1>1, <2>1, <2>2, ActiveSeated, Zenon DEF LastSeated
  <2>3. CASE Halt
    BY <2>3 DEF Halt, LastSeated
  <2> QED
    BY <1>1, <2>1, <2>2, <2>3, EndBlockStep, Zenon
<1>4. CASE PerformHooks
  <2>1. /\ phase = "hooks" /\ last' = last /\ launch' = launch
    <3>1. CASE EndBlockerDone
      BY <1>4, <3>1, Zenon DEF EndBlockerDone, PerformHooks, newVars
    <3>2. CASE ExecuteUnjailing
      BY <1>4, <3>2, Zenon DEF ExecuteUnjailing, Scheduled, Halt, Performed, PerformHooks, newVars
    <3>3. CASE ExecuteAddValidator
      BY <1>4, <3>3, Zenon DEF ExecuteAddValidator, Scheduled, Halt, Performed, PerformHooks, newVars
    <3>4. CASE ExecuteRemoveValidator
      BY <1>4, <3>4, Zenon DEF ExecuteRemoveValidator, Scheduled, Halt, Performed, PerformHooks, newVars
    <3>5. CASE ExecuteReconcileStakingPools
      BY <1>4, <3>5, Zenon
         DEF ExecuteReconcileStakingPools, Scheduled, Halt, Performed, PerformHooks, newVars
    <3> QED
      BY <1>4, <3>1, <3>2, <3>3, <3>4, <3>5, Zenon DEF PerformHooks
  <2>2. SUFFICES ASSUME phase' # "halted", NEW w \in last, Seated(w)
                 PROVE  Seated(w)'
    BY <2>1 DEF LastSeated
  <2>3. w \in Vals /\ w \in Bonded(staking)
    BY <1>1
  <2>4. CASE ExecuteReconcileStakingPools \/ EndBlockerDone
    <3>1. staking'.val = staking.val /\ info' = info
      BY <1>1, <2>4, Zenon
         DEF ExecuteReconcileStakingPools, Reconciled, EndBlockerDone, Staking
    <3> QED
      BY <2>2, <3>1, Zenon DEF Seated
  <2> QED
    BY <1>1, <1>4, <2>2, <2>3, <2>4, UnjailSeats, AddSeats, RemoveSeats, ZenonT(60)
       DEF PerformHooks
<1>5. CASE Export \/ ExportForZeroHeight
  BY <1>5 DEF Export, ExportForZeroHeight, LastSeated
<1>6. CASE InitChain
  BY <1>6 DEF InitChain, LastSeated
<1>7. CASE UNCHANGED allVars
  BY <1>7 DEF allVars, vars, newVars, LastSeated, Seated
<1> QED
  BY <1>2, <1>3, <1>4, <1>5, <1>6, <1>7, Zenon DEF RelaunchNext, Ended

\* An export that succeeds takes the validator set that the records say.
LEMMA ExportedSet ==
  ASSUME RelaunchInv, ExportForZeroHeight, launch' = "exported"
  PROVE  /\ last' \in ActiveSets(staking) /\ info' = info
         /\ unbondingHeight' = ResetHeights(staking, last')
<1>1. info' = info
  BY DEF ExportForZeroHeight
<1>2. PICK allowed \in AllowLists, left \in Dust :
        \E active \in ActiveSets(JailedOutside(staking, allowed)) :
          ZeroHeight(allowed, left, active)
  BY Zenon DEF ExportForZeroHeight, ZeroHeight
<1>3. PICK active \in ActiveSets(JailedOutside(staking, allowed)) :
        ZeroHeight(allowed, left, active)
  BY <1>2, ZenonT(60)
<1>4. /\ ~UpdatePanics(JailedOutside(staking, allowed), active) /\ last' = active
      /\ unbondingHeight' = ResetHeights(JailedOutside(staking, allowed), active)
  <2>1. launch' # "panicked"
    OBVIOUS
  <2> QED
    BY <1>3, <2>1, Zenon DEF ZeroHeight
<1>5. Sound(staking) /\ staking \in Staking
  BY Zenon DEF RelaunchInv, HooksInv, Sound
<1>6. JailedOutside(staking, allowed) = staking
  <2>1. ~StakingPanics(JailedOutside(staking, allowed), active)
    BY <1>4, Zenon DEF UpdatePanics
  <2>2. JailedOutside(staking, allowed).index = staking.index
    BY <1>5, Zenon DEF JailedOutside, Staking
  <2>3. \A e \in staking.index : ~JailedOutside(staking, allowed).val[e[1]].jailed
    BY <2>1, <2>2, Zenon DEF StakingPanics
  <2> QED
    BY <1>5, <2>3, JailedNobody, Zenon
<1> QED
  BY <1>1, <1>3, <1>4, <1>6, Zenon

\* What is known of the sizes of sets of validators.
Size(S) == Cardinality(S)

SizeFacts ==
  \A S \in SUBSET Vals : \A T \in SUBSET S :
    Size(S) \in Nat /\ (Size(S) = Size(T) => S = T)

\* Whoever the final update leaves out was removed, or there was no place.
LEMMA StampStep ==
  ASSUME SizeFacts, RelaunchInv, LastSeated, StampedOnlyIfRemoved, [RelaunchNext]_allVars
  PROVE  StampedOnlyIfRemoved'
<1>1. CASE launch' # "exported"
  BY <1>1 DEF StampedOnlyIfRemoved
<1>2. CASE Begin \/ UpdateValidators \/ PerformHooks
  <2>1. launch' = launch
    BY <1>2, Zenon DEF Begin, UpdateValidators, PerformHooks, newVars
  <2>2. phase = "end" \/ phase = "hooks" \/ launch \in {"first", "again"}
    BY <1>2, Zenon
       DEF Begin, UpdateValidators, StakingEndBlock, EndBlockerDone, ExecuteUnjailing,
           Scheduled, ExecuteAddValidator, ExecuteRemoveValidator,
           ExecuteReconcileStakingPools, PerformHooks
  <2>3. launch = "exported" => phase = "begin"
    BY Zenon DEF RelaunchInv, DocumentInv
  <2>4. launch # "exported"
    BY <2>2, <2>3
  <2> QED
    BY <1>1, <2>1, <2>4, Zenon
<1>3. CASE Export
  <2>1. height > 1 /\ document'.height = height
    BY <1>3 DEF Export, Exportable, DocumentOf
  <2> QED
    BY <2>1 DEF StampedOnlyIfRemoved
<1>4. CASE ExportForZeroHeight /\ launch' = "exported"
  <2>1. /\ last' \in ActiveSets(staking) /\ info' = info
        /\ unbondingHeight' = ResetHeights(staking, last')
    BY <1>4, ExportedSet, Zenon
  <2>2. /\ launch = "first" /\ phase = "begin" /\ height > 1
    BY <1>4 DEF ExportForZeroHeight, Exportable
  <2>3. SUFFICES ASSUME NEW v \in Vals, unbondingHeight'[v] > 0, info[v] # "tombstoned"
                 PROVE  Cardinality(last') = MaxValidators
    BY <2>1 DEF StampedOnlyIfRemoved
  <2>4. v \in last \ last'
    BY <2>1, <2>3 DEF ResetHeights
  <2>5. ~staking.val[v].jailed /\ Power(staking.val[v]) > 0
    BY <2>2, <2>3, <2>4, Zenon DEF LastSeated, Seated
  <2>6. staking.val[v].exists /\ staking.index = IndexOf(staking.val)
    BY <2>4 DEF RelaunchInv, HooksInv, Sound, Bonded, Existing
  <2> DEFINE able == {w \in Vals : \E e \in staking.index :
                                     e[1] = w /\ Power(staking.val[w]) > 0}
  <2>7. v \in able
    <3>1. <<v, Power(staking.val[v])>> \in staking.index
      BY <2>5, <2>6 DEF IndexOf
    <3>2. <<v, Power(staking.val[v])>>[1] = v
      OBVIOUS
    <3> QED
      BY <2>5, <3>1, <3>2, Zenon
  <2>8. /\ last' \in SUBSET able
        /\ Size(last') = Min({Size(able), MaxValidators})
    BY <2>1, Zenon DEF ActiveSets, Size
  <2>9. able \in SUBSET Vals
    OBVIOUS
  <2> HIDE DEF able
  <2>10. Size(able) \in Nat /\ Size(able) # Size(last')
    BY <2>4, <2>7, <2>8, <2>9, Zenon DEF SizeFacts
  <2>11. Size(last') = MaxValidators
    BY <2>8, <2>10, MinMax, StakingHooksAssumption
  <2> QED
    BY <2>11, Zenon DEF Size
<1>5. CASE InitChain
  <2>1. launch' # "exported"
    BY <1>5 DEF InitChain
  <2> QED
    BY <1>1, <2>1
<1>6. CASE UNCHANGED allVars
  BY <1>6 DEF allVars, vars, newVars, StampedOnlyIfRemoved
<1> QED
  BY <1>1, <1>2, <1>3, <1>4, <1>5, <1>6, Zenon DEF RelaunchNext, Ended

\* The property, from what is known of finite sets.
LEMMA StampInvariance ==
  ASSUME SizeFacts
  PROVE  RelaunchSpec => []StampedOnlyIfRemoved
<1>1. RelaunchInit => LastSeated /\ StampedOnlyIfRemoved
  BY DEF RelaunchInit, Init, LastSeated, StampedOnlyIfRemoved
<1>2. RelaunchInv /\ LastSeated /\ [RelaunchNext]_allVars => LastSeated'
  BY SeatedStep
<1>3. RelaunchInv /\ LastSeated /\ StampedOnlyIfRemoved /\ [RelaunchNext]_allVars =>
        StampedOnlyIfRemoved'
  BY SizeFacts, StampStep
<1> QED
  BY <1>1, <1>2, <1>3, RelaunchInvariant, PTL DEF RelaunchSpec

---------------------------------------------------------------------------
\* What is known of finite sets comes last, where no other proof has to carry
\* it.  INSTANCE brings a copy of Cardinality with it, which by its definition
\* is the same.

\* How the elements of a set are counted.
LEMMA SizeIs ==
  \A S : Size(S) = LET CS[T \in SUBSET S] == IF T = {} THEN 0
                                             ELSE 1 + CS[T \ {CHOOSE x : x \in T}]
                   IN  CS[S]
  BY Zenon DEF Size, Cardinality

LOCAL INSTANCE FiniteSetTheorems

\* The validators are finitely many also in the sense of FiniteSets.
LEMMA ValsFinite == IsFiniteSet(Vals)
<1> DEFINE B == {U \in SUBSET Vals : IsFiniteSet(Vals \ U)}
<1>1. B \in SUBSET SUBSET Vals
  OBVIOUS
<1>2. Vals \in B
  <2>1. Vals \ Vals = {}
    OBVIOUS
  <2> QED
    BY <2>1, FS_EmptySet, Zenon
<1>3. PICK U \in B : \A W \in B : W \subseteq U => W = U
  BY <1>1, <1>2, StakingHooksAssumption, Zenon DEF Finite
<1>4. ASSUME NEW x \in U
      PROVE  FALSE
  <2> DEFINE W == U \ {x}
  <2>1. Vals \ W = (Vals \ U) \cup {x}
    OBVIOUS
  <2>2. IsFiniteSet(Vals \ W)
    <3>1. IsFiniteSet(Vals \ U)
      OBVIOUS
    <3>2. IsFiniteSet((Vals \ U) \cup {x})
      BY <3>1, FS_AddElement, Zenon
    <3> HIDE DEF W
    <3> QED
      BY <2>1, <3>2, Zenon
  <2>3. W \in B /\ W \subseteq U /\ W # U
    BY <2>2
  <2> QED
    BY <1>3, <2>3, Zenon
<1>5. Vals \ U = Vals
  BY <1>4
<1> QED
  BY <1>5, Zenon

\* Whatever the hooks and slashes of the old chain were, no validator waits in
\* the new chain for a height of the old one but one that was removed in the
\* last block, or that a full active set displaced.
THEOREM StampsOnlyRemoved == RelaunchSpec => []StampedOnlyIfRemoved
<1>1. \A S : Size(S) = Cardinality(S)
  BY SizeIs, Zenon DEF Cardinality
<1>2. ASSUME NEW S \in SUBSET Vals, NEW T \in SUBSET S
      PROVE  Size(S) \in Nat /\ (Size(S) = Size(T) => S = T)
  <2>1. IsFiniteSet(S)
    BY ValsFinite, FS_Subset, Zenon
  <2>2. Cardinality(S) \in Nat /\ (Cardinality(S) = Cardinality(T) => S = T)
    BY <2>1, FS_Subset, FS_CardinalityType, Zenon
  <2> QED
    BY <1>1, <2>2, Zenon
<1>3. SizeFacts
  BY <1>2, Zenon DEF SizeFacts
<1> QED
  BY <1>3, StampInvariance, PTL
=============================================================================
