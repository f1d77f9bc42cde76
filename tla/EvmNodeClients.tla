--------------------------- MODULE EvmNodeClients ---------------------------
(***************************************************************************)
(* Where the execution clients of EvmNode are, at blocks that their node   *)
(* has committed or is finalizing, and what follows for PrepareProposal:   *)
(* it asks for later blocks, and what it obtains is accepted.              *)
(***************************************************************************)
EXTENDS EvmNodeAgreement

---------------------------------------------------------------------------
\* A node's EL, and every forkchoice update on its way there, is at a decided
\* block that the node has committed or is about to.
Reached(n) ==
  {b \in {Genesis} \cup Decided :
     \/ b.number <= commit[n].state.height
     \/ ~AtTip(n) /\ b = Current(n).payload}

ReachedHash(n) == {b.hash : b \in Reached(n)}

ClientAt(e, R) ==
  /\ e.known \subseteq R
  /\ e.head \in R
  /\ e.target \in {b.hash : b \in R} \cup {NoHash}

ClientInv ==
  \A n \in Nodes :
    /\ ClientAt(el[n], Reached(n))
    /\ late[n] \subseteq ReachedHash(n)
    /\ probe[n] \in ReachedHash(n) \cup {Nil}

Inductive == CommitInv /\ BlocksDistinct /\ ClientInv

---------------------------------------------------------------------------
\* The execution clients are at decided blocks.

\* The number of a decided payload is its CometBFT height less one.
LEMMA DecidedNumber ==
  ASSUME TypeInv, CommitInv, NEW b \in Decided
  PROVE  \E h \in 2..Len(decided) : b = decided[h].payload /\ b.number = h - 1
  <1>1. PICK h \in DOMAIN decided : b = decided[h].payload /\ b # Nil
    BY DEF Decided
  <1>2. h \in 1..Len(decided) /\ Len(decided) \in Nat
    BY <1>1, LenFacts DEF TypeInv, TypeOK
  <1>3. Acceptable(decided[h], h)
    BY <1>1 DEF CommitInv, DecidedAcceptable
  <1> QED
    BY <1>1, <1>2, <1>3 DEF Acceptable

\* The committed block state is that of a block the node has reached.
LEMMA CommitIsBlock ==
  ASSUME TypeInv, CommitInv, NEW n \in Nodes
  PROVE  \E b \in Reached(n) : commit[n].state = StateOf(b)
  <1>1. /\ commit[n].height \in 0..Len(decided)
        /\ commit[n].state = StateAfter(commit[n].height)
        /\ commit[n].state.height \in Nat
    BY LenFacts DEF TypeInv, TypeOK, CommitInv, CommitFollows, BlockState
  <1>2. CASE commit[n].height <= 1
    <2>1. commit[n].state = StateOf(Genesis)
      BY <1>1, <1>2 DEF StateAfter
    <2>2. Genesis \in Reached(n)
      BY <1>1, SMTT(30) DEF Reached, Genesis
    <2> QED
      BY <2>1, <2>2
  <1>3. CASE ~(commit[n].height <= 1)
    <2> DEFINE p == decided[commit[n].height].payload
    <2>1. commit[n].height \in DOMAIN decided
      BY <1>1, <1>3, LenFacts DEF TypeInv, TypeOK
    <2>2. p # Nil
      BY <1>3, <2>1 DEF CommitInv, DecidedAcceptable, Acceptable
    <2>3. commit[n].state = StateOf(p)
      BY <1>1, <1>3 DEF StateAfter
    <2>4. p \in Decided
      BY <2>1, <2>2 DEF Decided
    <2>5. p.number <= commit[n].state.height
      BY <1>1, <2>3 DEF StateOf
    <2> QED
      BY <2>3, <2>4, <2>5 DEF Reached
  <1> QED
    BY <1>1, <1>2, <1>3

\* So its hash is one the node has reached.
LEMMA CommitReached ==
  ASSUME TypeInv, CommitInv, NEW n \in Nodes
  PROVE  commit[n].state.hash \in ReachedHash(n)
  <1>1. PICK b \in Reached(n) : commit[n].state = StateOf(b)
    BY CommitIsBlock
  <1>2. commit[n].state.hash = b.hash
    BY <1>1 DEF StateOf
  <1> QED
    BY <1>2, Zenon DEF ReachedHash

\* A forkchoice update to a reached block leaves the client at one.
LEMMA ForkchoiceReached ==
  ASSUME NEW e \in ExecutionClient, NEW R, ClientAt(e, R),
         NEW hash \in {b.hash : b \in R}
  PROVE  ClientAt(Forkchoice(e, hash), R)
  BY BlockOfKnown DEF Forkchoice, ClientAt, ExecutionClient

\* A reached payload leaves the client at reached blocks.
LEMMA NewPayloadReached ==
  ASSUME NEW e \in ExecutionClient, NEW R, ClientAt(e, R), NEW p \in R
  PROVE  ClientAt(NewPayload(e, p), R)
  BY DEF NewPayload, ClientAt, ExecutionClient

\* The payload being sent is a reached block.
LEMMA CurrentReached ==
  ASSUME TypeInv, CommitInv, NEW n \in Nodes, fin[n] \in {"send", "fcu", "applied"}
  PROVE  /\ Current(n).payload \in Reached(n)
         /\ Current(n).payload.hash \in ReachedHash(n)
  BY CurrentAcceptable DEF TypeInv, InPlace, Reached, ReachedHash

\* What a node has reached, it has reached for good.
LEMMA ReachedGrows ==
  ASSUME TypeInv, CommitInv, [Next]_vars, NEW n \in Nodes
  PROVE  Reached(n) \subseteq Reached(n)'
  <1>a. commit[n].height \in Nat /\ commit[n].state.height \in Nat
    BY DEF TypeInv, TypeOK, BlockState
  <1>1. CASE UNCHANGED <<decided, commit>>
    BY <1>1 DEF Reached, Decided, AtTip, Current
  <1>2. CASE Decide
    <2> DEFINE block == [time |-> proposal.time, app |-> proposal.app,
                         payload |-> proposal.payload]
    <2>1. /\ decided \in Seq(CometBlock) /\ Len(decided) \in Nat
          /\ block \in CometBlock
      BY <1>2, LenFacts DEF TypeInv, TypeOK, Decide, Proposal, CometBlock
    <2>2. /\ Len(decided') = Len(decided) + 1
          /\ \A h \in 1..Len(decided) : decided'[h] = decided[h]
          /\ DOMAIN decided = 1..Len(decided)
          /\ DOMAIN decided' = 1..Len(decided) + 1
          /\ UNCHANGED commit
      BY <1>2, <2>1, AppendFacts, LenFacts DEF Decide
    <2>3. Decided \subseteq Decided'
      BY <2>1, <2>2 DEF Decided
    <2>4. ASSUME ~AtTip(n)
          PROVE  ~AtTip(n)' /\ Current(n)' = Current(n)
      BY <2>2, <2>4, CurrentType, <1>a, <2>1 DEF AtTip, Current
    <2> QED
      BY <2>2, <2>3, <2>4 DEF Reached
  <1>3. ASSUME NEW m \in Nodes, Commit(m)
        PROVE  Reached(n) \subseteq Reached(n)'
    <2>1. UNCHANGED decided
      BY <1>3, SMTT(30) DEF Commit
    <2>2. CASE m # n
      BY <1>3, <2>2, <2>1
         DEF Commit, TypeInv, TypeOK, Reached, Decided, AtTip, Current
    <2>3. CASE m = n
      <3>1. commit'[n].state = NextState(n)
        BY <1>3, <2>3 DEF Commit, TypeInv, TypeOK
      <3>2. ~AtTip(n) /\ commit[n].state = StateAfter(commit[n].height)
        BY <1>3, <2>3 DEF Commit, CommitInv, FinalizeInPlace, CommitFollows
      <3>3. CASE fin[n] = "applied"
        <4>1. Current(n).payload # Nil /\ Current(n).payload.number = commit[n].height
          BY <1>a, <3>2, <3>3, CurrentAcceptable
             DEF Acceptable, CommitInv, FinalizeInPlace
        <4>2. commit'[n].state.height = Current(n).payload.number
          BY <3>1, <3>3 DEF NextState, StateOf
        <4>3. commit[n].height \in 0..Len(decided)
          BY <1>a DEF CommitInv, CommitFollows
        <4>4. commit[n].state.height <= commit[n].height
          BY <1>a, <3>2, <4>3, StateAfterHeight DEF CommitInv
        <4>5. \A b \in Decided : b.number \in Nat
          BY BlocksType, Zenon DEF TypeInv, Block
        <4> QED
          BY <1>a, <2>1, <4>1, <4>2, <4>4, <4>5, SMTT(30) DEF Reached, Decided, Genesis
      <3>4. CASE fin[n] = "failed"
        BY <3>1, <3>2, <3>4, CurrentAcceptable, GenesisType,
           EvmNodeAssumption, <2>1
           DEF NextState, Acceptable, CommitInv, FinalizeInPlace, Decided,
               Reached
      <3> QED
        BY <1>3, <2>3, <3>3, <3>4 DEF Commit
    <2> QED
      BY <2>2, <2>3
  <1> QED
    BY <1>1, <1>2, <1>3, Moves

\* Distinct blocks have distinct hashes: a payload is built with a new one.
LEMMA DistinctStep ==
  ASSUME TypeInv, BlocksDistinct, [Next]_vars
  PROVE  BlocksDistinct'
  <1>a. ASSUME NEW p, Fresh(p.hash), Blocks' \subseteq Blocks \cup {p}
        PROVE  BlocksDistinct'
    BY <1>a DEF BlocksDistinct, Fresh
  <1>b. ASSUME Blocks' \subseteq Blocks PROVE BlocksDistinct'
    BY <1>b DEF BlocksDistinct
  <1>1. CASE UNCHANGED decided /\ (proposal' = proposal \/ proposal' = Nil)
    BY <1>1, <1>b DEF Blocks, Decided
  <1>2. ASSUME UNCHANGED decided, NEW n \in Nodes, Propose(n, Nil)
        PROVE  BlocksDistinct'
    BY <1>2, <1>b DEF Blocks, Decided, Propose
  <1>3. CASE ForeignProposal
    <2>1. PICK n \in Nodes, time \in LastTime..MaxTime, p \in ForeignPayloads :
            proposal' = [from |-> Nil, time |-> time, app |-> commit[n].state,
                         payload |-> p, accepts |-> {}, rejects |-> {}]
      BY <1>3, Zenon DEF ForeignProposal
    <2>2. Fresh(p.hash)
      BY ForeignType DEF TypeInv
    <2>3. proposal'.payload = p
      BY <2>1
    <2>4. Blocks' \subseteq Blocks \cup {p}
      BY <1>3, <2>3 DEF ForeignProposal, Blocks, Decided
    <2> QED
      BY <2>2, <2>4, <1>a
  <1>4. CASE Decide
    <2> DEFINE block == [time |-> proposal.time, app |-> proposal.app,
                         payload |-> proposal.payload]
    <2>1. /\ decided \in Seq(CometBlock) /\ Len(decided) \in Nat
          /\ block \in CometBlock
      BY <1>4, LenFacts DEF TypeInv, TypeOK, Decide, Proposal, CometBlock
    <2>2. /\ \A h \in 1..Len(decided) : decided'[h] = decided[h]
          /\ decided'[Len(decided) + 1] = block
          /\ DOMAIN decided = 1..Len(decided)
          /\ DOMAIN decided' = 1..Len(decided) + 1
      BY <1>4, <2>1, AppendFacts, LenFacts DEF Decide
    <2>3. Blocks' \subseteq Blocks
      BY <1>4, <2>1, <2>2 DEF Blocks, Decided, Decide
    <2> QED
      BY <2>3, <1>b
  <1>5. ASSUME NEW n \in Nodes, ProcessProposal(n)
        PROVE  BlocksDistinct'
    BY <1>5, <1>b
       DEF ProcessProposal, TypeInv, TypeOK, Proposal, Blocks, Decided
  <1>6. ASSUME NEW n \in Nodes, PrepareStart(n)
        PROVE  BlocksDistinct'
    BY <1>6, <1>b DEF PrepareStart, Blocks, Decided
  <1>7. ASSUME NEW n \in Nodes, PrepareGetPayload(n)
        PROVE  BlocksDistinct'
    <2>1. PICK p : Fresh(p.hash) /\ Propose(n, p)
      BY <1>7 DEF PrepareGetPayload
    <2>2. Blocks' \subseteq Blocks \cup {p}
      BY <1>7, <2>1, Zenon DEF PrepareGetPayload, Propose, Blocks, Decided
    <2> QED
      BY <2>1, <2>2, <1>a
  <1> QED
    BY <1>1, <1>2, <1>3, <1>4, <1>5, <1>6, <1>7, ProposalMoves

\* A step at node n that leaves its EL, its late calls and its probe at blocks
\* it had reached.
LEMMA ClientKept ==
  ASSUME TypeInv, CommitInv, ClientInv, [Next]_vars, NEW n \in Nodes,
         \A m \in Nodes \ {n} :
           el'[m] = el[m] /\ late'[m] = late[m] /\ probe'[m] = probe[m],
         ClientAt(el'[n], Reached(n)),
         late'[n] \subseteq ReachedHash(n),
         probe'[n] \in ReachedHash(n) \cup {Nil}
  PROVE  ClientInv'
  <1> SUFFICES ASSUME NEW m \in Nodes
               PROVE  /\ ClientAt(el'[m], Reached(m)')
                      /\ late'[m] \subseteq ReachedHash(m)'
                      /\ probe'[m] \in ReachedHash(m)' \cup {Nil}
    BY DEF ClientInv, ClientAt
  <1>1. Reached(m) \subseteq Reached(m)'
    BY ReachedGrows
  <1>2. ReachedHash(m) \subseteq ReachedHash(m)'
    BY <1>1 DEF ReachedHash
  <1>3. ClientAt(el'[m], Reached(m))
    BY DEF ClientInv
  <1>4. ClientAt(el'[m], Reached(m)')
    BY <1>1, <1>3 DEF ClientAt
  <1> QED
    BY <1>2, <1>4, Zenon DEF ClientInv

\* Every step keeps the execution clients at decided blocks.
LEMMA ClientStep ==
  ASSUME TypeInv, CommitInv, BlocksDistinct, ClientInv, [Next]_vars
  PROVE  ClientInv'
  <1>a. ASSUME UNCHANGED <<el, late, probe>>, NEW n \in Nodes
        PROVE  ClientInv'
    BY <1>a, ClientKept DEF ClientInv
  <1>b. ASSUME UNCHANGED <<el, late, probe>>, Nodes = {}
        PROVE  ClientInv'
    BY <1>b, SMTT(30) DEF ClientInv
  <1>1. CASE UNCHANGED vars \/ BoundReached \/ ForeignProposal \/ Decide \/ NextRound
    BY <1>1, <1>a, <1>b
       DEF vars, BoundReached, ForeignProposal, Decide, NextRound
  <1>2. ASSUME NEW n \in Nodes, NodeStep(n)
        PROVE  ClientInv'
    <2>a. /\ el \in [Nodes -> ExecutionClient] /\ el[n] \in ExecutionClient
          /\ late \in [Nodes -> SUBSET Hash]
          /\ probe \in [Nodes -> Hash \cup {Nil}]
      BY DEF TypeInv, TypeOK
    <2>b. /\ ClientAt(el[n], Reached(n)) /\ late[n] \subseteq ReachedHash(n)
          /\ probe[n] \in ReachedHash(n) \cup {Nil}
      BY DEF ClientInv
    <2>c. commit[n].state.hash \in ReachedHash(n)
      BY CommitReached
    <2>d. \A hash \in ReachedHash(n) : ClientAt(Forkchoice(el[n], hash), Reached(n))
      BY <2>a, <2>b, ForkchoiceReached DEF ReachedHash
    <2>e. ASSUME NEW e, ClientAt(e, Reached(n)), el' = [el EXCEPT ![n] = e],
                 UNCHANGED <<late, probe>>
          PROVE  ClientInv'
      BY <2>a, <2>b, <2>e, ClientKept
    <2>1. CASE \/ PrepareStart(n) \/ PrepareFail(n) \/ PrepareGetPayload(n)
               \/ PrepareGetError(n) \/ ProcessProposal(n) \/ FinalizeStart(n)
               \/ Commit(n) \/ Retry(n)
      BY <2>1, <1>a, Zenon
         DEF PrepareStart, PrepareFail, PrepareGetPayload, PrepareGetError,
             ProcessProposal, FinalizeStart, Commit, Retry, vars
    <2>2. CASE PrepareForkchoice(n)
      <3> DEFINE updated == Forkchoice(el[n], commit[n].state.hash)
      <3>1. ClientAt(updated, Reached(n)) /\ updated \in ExecutionClient
        BY <2>a, <2>c, <2>d, ForkchoiceType, SMTT(30) DEF TypeInv, TypeOK, BlockState
      <3>2. \A jobs : ClientAt([updated EXCEPT !.jobs = jobs], Reached(n))
        BY <3>1, SMTT(30) DEF ClientAt, ExecutionClient
      <3>3. \/ \E jobs : el' = [el EXCEPT ![n] = [updated EXCEPT !.jobs = jobs]]
            \/ el' = [el EXCEPT ![n] = updated]
            \/ UNCHANGED el
        BY <2>2, ZenonT(60) DEF PrepareForkchoice
      <3>4. UNCHANGED <<late, probe>>
        BY <2>2 DEF PrepareForkchoice
      <3>5. CASE \E jobs : el' = [el EXCEPT ![n] = [updated EXCEPT !.jobs = jobs]]
        BY <2>e, <3>2, <3>4, <3>5, Zenon
      <3>6. CASE el' = [el EXCEPT ![n] = updated]
        BY <2>e, <3>1, <3>4, <3>6, Zenon
      <3>7. CASE UNCHANGED el
        BY <1>a, <3>4, <3>7
      <3> QED
        BY <3>3, <3>5, <3>6, <3>7
    <2>3. CASE SendPayload(n)
      BY <2>3, <2>a, <2>b, CurrentReached, NewPayloadReached, <2>e, Zenon
         DEF SendPayload
    <2>4. CASE UpdateForkchoice(n)
      BY <2>4, <2>d, CurrentReached, <1>a, <2>e, SMTT(30) DEF UpdateForkchoice
    <2>5. CASE ProbeStart(n)
      BY <2>5, <2>a, <2>b, <2>c, ClientKept, SMTT(30) DEF ProbeStart
    <2>6. CASE ProbeForkchoice(n)
      BY <2>6, <2>b, <2>d, <2>a, ClientKept, ZenonT(60) DEF ProbeForkchoice
    <2>7. CASE LostAnswer(n)
      BY <2>a, <2>b, CurrentReached, NewPayloadReached, <2>d, <2>7, <2>e, ZenonT(60)
         DEF LostAnswer
    <2>8. CASE Postpone(n)
      BY <2>a, <2>b, CurrentReached, <2>c, <2>8, ClientKept, SMTT(30) DEF Postpone
    <2>9. CASE ElLate(n)
      <3>1. PICK hash \in late[n] :
              /\ el' = [el EXCEPT ![n] = Forkchoice(@, hash)]
              /\ late' = [late EXCEPT ![n] = @ \ {hash}]
        BY <2>9, Zenon DEF ElLate
      <3>2. ClientAt(Forkchoice(el[n], hash), Reached(n))
        BY <2>b, <2>d, <3>1
      <3> QED
        BY <2>9, <2>a, <2>b, <3>1, <3>2, ClientKept DEF ElLate
    <2>10. CASE ElSync(n)
      <3>1. PICK b \in Decided :
              /\ b.hash = el[n].target
              /\ el' = [el EXCEPT ![n] = [@ EXCEPT
                   !.known = el[n].known \cup {c \in Decided : c.ok /\ c.number <= b.number},
                   !.head = b, !.target = NoHash]]
        BY <2>10, Zenon DEF ElSync
      <3>2. b.hash # NoHash
        BY <3>1, BlocksType, EngineApiAssumption DEF TypeInv, Block
      <3>3. PICK r \in Reached(n) : r.hash = b.hash
        BY <2>b, <3>1, <3>2 DEF ClientAt
      <3>4. r = b
        BY <3>3 DEF Reached, BlocksDistinct, Blocks
      <3>5. \A c \in Decided : c.number <= b.number => c \in Reached(n)
        <4> SUFFICES ASSUME NEW c \in Decided, c.number <= b.number
                     PROVE  c \in Reached(n)
          OBVIOUS
        <4>1. /\ commit[n].height \in 0..Len(decided) /\ Len(decided) \in Nat
              /\ commit[n].state = StateAfter(commit[n].height)
          BY LenFacts DEF TypeInv, TypeOK, CommitInv, CommitFollows
        <4>2. commit[n].state.height =
                IF commit[n].height <= 1 THEN 0 ELSE commit[n].height - 1
          BY <4>1, StateAfterHeight, Zenon DEF CommitInv
        <4>3. PICK h \in 2..Len(decided) : c = decided[h].payload /\ c.number = h - 1
          BY DecidedNumber, ZenonT(60)
        <4>4. CASE b.number <= commit[n].state.height
          <5>1. b.number \in Nat /\ c.number \in Nat /\ commit[n].state.height \in Nat
            BY BlocksType, Zenon DEF TypeInv, TypeOK, Block, BlockState
          <5>2. c.number <= commit[n].state.height
            BY <4>4, <5>1
          <5> QED
            BY <5>2 DEF Reached
        <4>5. CASE ~AtTip(n) /\ b = Current(n).payload
          <5>1. b.number = commit[n].height /\ commit[n].height # 0
            <6>1. b # Nil
              BY DEF Decided
            <6>2. Acceptable(Current(n), commit[n].height + 1)
              BY <4>5, CurrentAcceptable, SMTT(30)
            <6>3. commit[n].height + 1 # 1
              BY <4>5, <6>1, <6>2, Zenon DEF Acceptable
            <6>4. Current(n).payload.number = (commit[n].height + 1) - 1
              BY <6>2, <6>3, Zenon DEF Acceptable
            <6> QED
              BY <4>1, <4>5, <6>3, <6>4
          <5>2. CASE h = commit[n].height + 1
            BY <4>3, <4>5, <5>2, ZenonT(60) DEF Reached, Current
          <5>3. CASE h # commit[n].height + 1
            <6>1. c.number <= commit[n].state.height
              <7>1. h - 1 <= commit[n].height
                BY <4>3, <5>1, Zenon
              <7>2. h \in Nat /\ commit[n].height \in Nat /\ h >= 2
                BY <4>1
              <7>3. /\ ~(commit[n].height <= 1)
                    /\ h - 1 <= commit[n].height - 1
                BY <5>3, <7>1, <7>2
              <7> QED
                BY <4>2, <4>3, <7>3, Zenon
            <6> QED
              BY <6>1 DEF Reached
          <5> QED
            BY <5>2, <5>3
        <4> QED
          BY <3>3, <3>4, <4>4, <4>5 DEF Reached
      <3>6. ClientAt([el[n] EXCEPT
                   !.known = el[n].known \cup {c \in Decided : c.ok /\ c.number <= b.number},
                   !.head = b, !.target = NoHash], Reached(n))
        BY <2>a, <2>b, <3>3, <3>4, <3>5, Zenon DEF ClientAt, ExecutionClient
      <3> QED
        BY <2>10, <2>e, <3>1, <3>6, Zenon DEF ElSync
    <2>11. CASE ElRestart(n)
      <3>1. PICK head \in el[n].known : el' = [el EXCEPT ![n] = Restarted(@, head)]
        BY <2>11, Zenon DEF ElRestart
      <3>2. ClientAt(Restarted(el[n], head), Reached(n))
        BY <2>a, <2>b, <3>1 DEF ClientAt, Restarted, ExecutionClient
      <3> QED
        BY <2>11, <2>a, <2>b, <3>1, <3>2, ClientKept DEF ElRestart
    <2>12. CASE Crash(n)
      BY <2>12, <2>a, <2>b, ClientKept, SMTT(30) DEF Crash
    <2> QED
      BY <1>2, <2>1, <2>2, <2>3, <2>4, <2>5, <2>6, <2>7, <2>8, <2>9, <2>10,
         <2>11, <2>12, ZenonT(60)
         DEF NodeStep
  <1> QED
    BY <1>1, <1>2 DEF Next

---------------------------------------------------------------------------
\* What the execution clients show.

\* The execution clients start at genesis.
LEMMA ClientInit ==
  ASSUME Init
  PROVE  BlocksDistinct /\ ClientInv
  <1>1. Blocks = {Genesis} /\ Decided = {}
    BY SMTT(30) DEF Init, Blocks, Decided
  <1>2. \A n \in Nodes : Genesis \in Reached(n)
    BY DEF Init, StateOf, Genesis, Reached
  <1>3. BlocksDistinct
    BY <1>1, ZenonT(60) DEF BlocksDistinct
  <1>4. \A n \in Nodes : /\ ClientAt(el[n], Reached(n))
                         /\ late[n] = {} /\ probe[n] = Nil
    BY <1>2 DEF Init, ClientAt, InitialClient
  <1> QED
    BY <1>3, <1>4 DEF ClientInv

\* Payloads the execution clients find valid, in every reachable state.
LEMMA Invariance ==
  ASSUME ValidPayloads
  PROVE  Spec => [](TypeInv /\ Inductive)
  <1>1. Init => TypeInv /\ Inductive
    BY TypeInit, CommitInit, ClientInit DEF Inductive
  <1>2. TypeInv /\ Inductive /\ [Next]_vars => (TypeInv /\ Inductive)'
    <2> SUFFICES ASSUME TypeInv, Inductive, [Next]_vars
                 PROVE  TypeInv' /\ Inductive'
      OBVIOUS
    <2>1. TypeInv'
      BY TypeStep
    <2>2. CommitInv'
      BY CommitStep DEF Inductive
    <2>3. BlocksDistinct'
      BY DistinctStep DEF Inductive
    <2>4. ClientInv'
      BY ClientStep, SMTT(30) DEF Inductive
    <2> QED
      BY <2>1, <2>2, <2>3, <2>4 DEF Inductive
  <1> QED
    BY <1>1, <1>2, PTL DEF Spec

\* A client's head is a decided block or genesis, and beyond the committed
\* block only by the payload about to be committed.
LEMMA HeadReached ==
  ASSUME TypeInv, Inductive
  PROVE  AheadOnlyByReplay /\ HeadIsDecided
  <1> SUFFICES ASSUME NEW n \in Nodes
               PROVE  /\ el[n].head.number > commit[n].state.height =>
                           ~AtTip(n) /\ el[n].head = Current(n).payload
                      /\ \/ el[n].head = Genesis
                         \/ \E h \in DOMAIN decided :
                              el[n].head = decided[h].payload /\ el[n].head.ok
    BY ZenonT(60) DEF AheadOnlyByReplay, HeadIsDecided
  <1>1. el[n].head \in Reached(n)
    BY DEF Inductive, ClientInv, ClientAt
  <1>2. el[n].head.number \in Nat /\ commit[n].state.height \in Nat
    BY Zenon DEF TypeInv, TypeOK, ExecutionClient, Block, BlockState
  <1>3. el[n].head \in Decided => el[n].head.ok
    BY ZenonT(60) DEF Inductive, CommitInv, BlocksValid, Blocks
  <1>4. el[n].head \in {Genesis} \cup Decided
    BY <1>1 DEF Reached
  <1>5. el[n].head \in Decided =>
          \E h \in DOMAIN decided : el[n].head = decided[h].payload
    BY DEF Decided
  <1>6. el[n].head.number > commit[n].state.height =>
          ~AtTip(n) /\ el[n].head = Current(n).payload
    BY <1>1, <1>2 DEF Reached
  <1> QED
    BY <1>3, <1>4, <1>5, <1>6, Zenon

\* While the execution clients find every decided payload valid, a client is
\* ahead of the persisted block state only by the payload a replay of
\* FinalizeBlock will send again: for any number of nodes, crashes, restarts
\* and late calls.
THEOREM AheadByReplay ==
  ASSUME ValidPayloads
  PROVE  Spec => []AheadOnlyByReplay
BY Invariance, HeadReached, PTL

\* Under the same assumption, the head of every execution client is a block
\* that CometBFT decided, never one that was only built or proposed.
THEOREM HeadsDecided ==
  ASSUME ValidPayloads
  PROVE  Spec => []HeadIsDecided
BY Invariance, HeadReached, PTL

---------------------------------------------------------------------------
\* PrepareProposal.

\* What PrepareProposal asks for is later than the committed block: in the
\* window because that block has the timestamp of its own height, one less,
\* and outside it by the fallback of CalculateTimestamp.
LEMMA TimeAdvances ==
  ASSUME TypeInv, CommitInv, NEW n \in Nodes
  PROVE  \/ PrepareTimestamp(n) > commit[n].state.timestamp
         \/ Config.window /\ commit[n].height + 1 = Config.start
  <1> DEFINE h == commit[n].height
             state == commit[n].state
  <1>1. /\ h \in 0..Len(decided) /\ Len(decided) \in Nat /\ state.timestamp \in Nat
        /\ prep[n].time \in Nat
        /\ state = StateAfter(h)
    BY LenFacts, SMTT(30)
       DEF TypeInv, TypeOK, CommitInv, CommitFollows, BlockState, Preparation
  <1>2. /\ Config.window \in BOOLEAN /\ Config.start \in Nat /\ Config.hasStop \in BOOLEAN
        /\ Config.stop \in Nat /\ Config.offset \in Nat /\ Config.unixOffset \in Nat
    BY EvmNodeAssumption DEF TimestampConfig
  <1>3. CASE ~InWindow(Config, h + 1)
    <2>1. PrepareTimestamp(n)
            = After(prep[n].time + UnixOffset(Config, h + 1), state.timestamp)
      BY <1>3, Zenon DEF PrepareTimestamp, CalculateTimestamp
    <2>2. UnixOffset(Config, h + 1) \in Nat
      BY <1>2 DEF UnixOffset
    <2> HIDE DEF h, state
    <2>3. PrepareTimestamp(n) > state.timestamp
      BY <1>1, <2>1, <2>2, SMTT(30) DEF After
    <2> QED
      BY <2>3 DEF state
  <1>4. CASE InWindow(Config, h + 1) /\ h + 1 # Config.start
    <2>1. PrepareTimestamp(n) = h + 1 + Config.offset
      BY <1>4, Zenon DEF PrepareTimestamp, CalculateTimestamp
    <2>2. CASE h <= 1
      <3>1. state.timestamp = 0
        BY <1>1, <2>2, SMTT(30) DEF StateAfter, StateOf, Genesis
      <3> QED
        BY <1>1, <1>2, <2>1, <3>1, SMTT(30)
    <2>3. CASE h > 1
      <3>1. Acceptable(decided[h], h) /\ state = StateOf(decided[h].payload)
        BY <1>1, <2>3, LenFacts, SMTT(30)
           DEF TypeInv, TypeOK, CommitInv, DecidedAcceptable, StateAfter
      <3>2. state.timestamp = CalculateTimestamp(Config, decided[h].time, h,
                                                 decided[h].app.timestamp)
        <4>1. ValidatePayload(decided[h].payload, decided[h].app, decided[h].time, h)
          <5>1. h # 1
            BY <1>1, <2>3, SMTT(30)
          <5> QED
            BY <3>1, <5>1, Zenon DEF Acceptable
        <4>2. state.timestamp = decided[h].payload.timestamp
          BY <3>1 DEF StateOf
        <4> QED
          BY <4>1, <4>2, Zenon DEF ValidatePayload
      <3>3. InWindow(Config, h)
        BY <1>1, <1>2, <1>4, SMTT(30) DEF InWindow
      <3>4. state.timestamp = h + Config.offset
        BY <3>2, <3>3, Zenon DEF CalculateTimestamp
      <3> QED
        BY <1>1, <1>2, <2>1, <3>4, SMTT(30)
    <2> QED
      BY <1>1, <2>2, <2>3
  <1> QED
    BY <1>2, <1>3, <1>4 DEF InWindow

\* The attributes that PrepareProposal sends are later than the block they are
\* to build on, except at the first height of the timestamp window: for any
\* configuration that readConfig accepts, whatever the wall clocks.
THEOREM TimesAdvance ==
  ASSUME ValidPayloads
  PROVE  Spec => []PreparedTimeAdvances
  <1>1. TypeInv /\ Inductive => PreparedTimeAdvances
    BY TimeAdvances DEF Inductive, PreparedTimeAdvances
  <1> QED
    BY <1>1, Invariance, PTL

\* The build a proposer waits for is one on its committed block, which stays
\* the committed one meanwhile.
PreparationOf(n) ==
  prep[n].pc # "idle" =>
    /\ fin[n] = "idle" /\ commit[n].height # 0
    /\ prep[n].pc = "get" =>
         /\ prep[n].job = [parent |-> commit[n].state.hash,
                           number |-> commit[n].state.height + 1,
                           timestamp |-> PrepareTimestamp(n)]
         /\ PrepareTimestamp(n) > commit[n].state.timestamp

\* What is proposed with a payload is valid in the state it names.
ProposalValid ==
  proposal # Nil /\ proposal.from # Nil /\ proposal.payload # Nil =>
    /\ Len(decided) # 0
    /\ ValidatePayload(proposal.payload, proposal.app, proposal.time, Len(decided) + 1)

PreparedInv ==
  (\A n \in Nodes : PreparationOf(n)) /\ ProposalValid /\ PreparedIsAccepted

\* The block with the committed hash is the committed one.
LEMMA CommittedKnown ==
  ASSUME TypeInv, Inductive, NEW n \in Nodes, NEW b \in {Genesis} \cup Decided,
         b.hash = commit[n].state.hash
  PROVE  commit[n].state = StateOf(b)
  <1>1. PICK c \in Reached(n) : commit[n].state = StateOf(c)
    BY CommitIsBlock, SMTT(30) DEF Inductive
  <1>2. c.hash = b.hash /\ c \in Blocks /\ b \in Blocks
    BY <1>1 DEF StateOf, Reached, Blocks
  <1> QED
    BY <1>1, <1>2 DEF Inductive, BlocksDistinct

\* The build that an update to the committed block starts.
LEMMA JobStarted ==
  ASSUME TypeInv, Inductive, NEW n \in Nodes, NEW time \in Nat,
         StartsJob(el[n], commit[n].state.hash, time)
  PROVE  /\ JobOf(el[n], commit[n].state.hash, time)
              = [parent |-> commit[n].state.hash, number |-> commit[n].state.height + 1,
                 timestamp |-> time]
         /\ time > commit[n].state.timestamp
  <1> DEFINE b == BlockOf(el[n], commit[n].state.hash)
  <1>1. Knows(el[n], commit[n].state.hash) /\ time > b.timestamp
    BY Zenon DEF StartsJob
  <1>2. b \in el[n].known /\ b.hash = commit[n].state.hash
    BY <1>1, BlockOfKnown, Zenon DEF TypeInv, TypeOK
  <1>3. b \in {Genesis} \cup Decided
    BY <1>2, Zenon DEF Inductive, ClientInv, ClientAt, Reached
  <1>4. commit[n].state = StateOf(b)
    BY <1>2, <1>3, CommittedKnown, ZenonT(60)
  <1>5. b.number = commit[n].state.height /\ b.timestamp = commit[n].state.timestamp
    BY <1>4 DEF StateOf
  <1> QED
    BY <1>1, <1>5, Zenon DEF JobOf

\* A step at one node leaves the preparations of the others alone.
LEMMA OthersPrepare ==
  ASSUME TypeInv, NEW n \in Nodes, NodeStep(n), NEW m \in Nodes \ {n}
  PROVE  prep'[m] = prep[m] /\ commit'[m] = commit[m] /\ fin'[m] = fin[m]
  <1>1. /\ prep \in [Nodes -> Preparation] /\ fin \in [Nodes -> FinalizePhases]
        /\ commit \in [Nodes -> [height : Nat, state : BlockState]]
    BY DEF TypeInv, TypeOK
  <1>2. prep' = prep \/ \E v : prep' = [prep EXCEPT ![n] = v]
    <2>1. CASE \/ PrepareStart(n) \/ PrepareFail(n) \/ PrepareForkchoice(n)
               \/ PrepareGetPayload(n) \/ PrepareGetError(n)
      BY <2>1, Zenon
         DEF PrepareStart, PrepareFail, PrepareForkchoice, PrepareGetPayload,
             PrepareGetError, Propose
    <2>2. CASE \/ ProcessProposal(n) \/ FinalizeStart(n) \/ SendPayload(n)
               \/ UpdateForkchoice(n) \/ Commit(n) \/ Crash(n) \/ Retry(n)
      BY <2>2, Zenon
         DEF ProcessProposal, FinalizeStart, SendPayload, UpdateForkchoice,
             Commit, Crash, Retry, vars
    <2>3. CASE \/ ProbeStart(n) \/ ProbeForkchoice(n) \/ LostAnswer(n) \/ Postpone(n)
               \/ ElLate(n) \/ ElSync(n) \/ ElRestart(n)
      BY <2>3, Zenon
         DEF ProbeStart, ProbeForkchoice, LostAnswer, Postpone, ElLate, ElSync,
             ElRestart
    <2> QED
      BY <2>1, <2>2, <2>3, Zenon DEF NodeStep
  <1>3. /\ commit' = commit \/ \E v : commit' = [commit EXCEPT ![n] = v]
        /\ fin' = fin \/ \E v : fin' = [fin EXCEPT ![n] = v]
    <2>1. CASE \/ PrepareStart(n) \/ PrepareFail(n) \/ PrepareForkchoice(n)
               \/ PrepareGetPayload(n) \/ PrepareGetError(n)
      BY <2>1, Zenon
         DEF PrepareStart, PrepareFail, PrepareForkchoice, PrepareGetPayload,
             PrepareGetError
    <2>2. CASE \/ ProcessProposal(n) \/ FinalizeStart(n) \/ SendPayload(n)
               \/ UpdateForkchoice(n) \/ Commit(n) \/ Crash(n) \/ Retry(n)
      BY <2>2, Zenon
         DEF ProcessProposal, FinalizeStart, SendPayload, UpdateForkchoice,
             Commit, Crash, Retry, vars
    <2>3. CASE \/ ProbeStart(n) \/ ProbeForkchoice(n) \/ LostAnswer(n) \/ Postpone(n)
               \/ ElLate(n) \/ ElSync(n) \/ ElRestart(n)
      BY <2>3, Zenon
         DEF ProbeStart, ProbeForkchoice, LostAnswer, Postpone, ElLate, ElSync,
             ElRestart
    <2> QED
      BY <2>1, <2>2, <2>3, Zenon DEF NodeStep
  <1> QED
    BY <1>1, <1>2, <1>3, Zenon

\* A node's own step keeps its preparation on the committed block.
LEMMA PreparationStep ==
  ASSUME TypeInv, Inductive, NEW n \in Nodes, PreparationOf(n), NodeStep(n)
  PROVE  PreparationOf(n)'
  <1>1. /\ prep \in [Nodes -> Preparation] /\ fin \in [Nodes -> FinalizePhases]
        /\ commit[n].height \in Nat /\ commit[n].state.timestamp \in Nat
        /\ prep[n].time \in Nat
    BY Zenon DEF TypeInv, TypeOK, Preparation, BlockState
  <1>a. ASSUME prep'[n].pc = "idle" PROVE PreparationOf(n)'
    BY <1>a, Zenon DEF PreparationOf
  <1>b. ASSUME prep' = prep, UNCHANGED <<commit, fin>> PROVE PreparationOf(n)'
    BY <1>b, Zenon DEF PreparationOf, PrepareTimestamp
  <1>c. ASSUME NEW p, Propose(n, p) PROVE PreparationOf(n)'
    <2>1. prep'[n] = NoPreparation
      BY <1>1, <1>c, Zenon DEF Propose
    <2>2. prep'[n].pc = "idle"
      BY <2>1 DEF NoPreparation
    <2> QED
      BY <2>2, <1>a, Zenon
  <1>2. CASE PrepareStart(n)
    <2>1. CASE commit[n].height = 0
      BY <1>2, <2>1, <1>b, ZenonT(60) DEF PrepareStart
    <2>2. CASE commit[n].height # 0
      <3>1. PICK time \in LastTime..MaxTime :
              prep' = [prep EXCEPT ![n] = [NoPreparation EXCEPT !.pc = "fcu", !.time = time]]
        BY <1>2, <2>2, Zenon DEF PrepareStart
      <3>2. prep'[n].pc = "fcu"
        BY <1>1, <3>1 DEF NoPreparation
      <3>3. fin'[n] = "idle" /\ commit'[n].height # 0
        BY <1>2, <2>2 DEF PrepareStart, Quiet
      <3> QED
        BY <3>2, <3>3 DEF PreparationOf
    <2> QED
      BY <2>1, <2>2
  <1>3. CASE PrepareForkchoice(n)
    <2> DEFINE hash == commit[n].state.hash
               time == PrepareTimestamp(n)
               job == JobOf(el[n], hash, time)
    <2>1. /\ UNCHANGED <<commit, fin>> /\ prep[n].pc = "fcu"
          /\ \/ prep' = prep
             \/ Propose(n, Nil)
             \/ /\ StartsJob(el[n], hash, time)
                /\ prep' = [prep EXCEPT ![n] = [@ EXCEPT !.pc = "get", !.job = job]]
      BY <1>3, Zenon DEF PrepareForkchoice
    <2>2. CASE /\ StartsJob(el[n], hash, time)
               /\ prep' = [prep EXCEPT ![n] = [@ EXCEPT !.pc = "get", !.job = job]]
      <3>a. commit[n].height + 1 \in Nat
        BY <1>1
      <3>1. time \in Nat
        BY <1>1, <3>a, TimestampType, Zenon DEF PrepareTimestamp
      <3>2. /\ job = [parent |-> commit[n].state.hash,
                      number |-> commit[n].state.height + 1, timestamp |-> time]
            /\ time > commit[n].state.timestamp
        BY <2>2, <3>1, JobStarted
      <3> HIDE DEF job
      <3>3. prep'[n].job = job /\ prep'[n].time = prep[n].time
        BY <1>1, <2>2 DEF Preparation
      <3>4. PrepareTimestamp(n)' = time
        BY <2>1, <3>3 DEF PrepareTimestamp
      <3>5. fin[n] = "idle" /\ commit[n].height # 0
        BY <2>1 DEF PreparationOf
      <3> HIDE DEF time
      <3> QED
        BY <2>1, <3>2, <3>3, <3>4, <3>5 DEF PreparationOf
    <2> QED
      BY <2>1, <2>2, <1>b, <1>c
  <1>4. CASE PrepareGetError(n)
    <2>1. /\ UNCHANGED <<commit, fin>>
          /\ \/ Propose(n, Nil)
             \/ \E u : prep' = [prep EXCEPT ![n] = [@ EXCEPT !.unknown = u]]
      BY <1>4, Zenon DEF PrepareGetError
    <2>2. ASSUME NEW u, prep' = [prep EXCEPT ![n] = [@ EXCEPT !.unknown = u]]
          PROVE  PreparationOf(n)'
      <3>1. /\ prep'[n].pc = prep[n].pc /\ prep'[n].job = prep[n].job
            /\ prep'[n].time = prep[n].time
        BY <1>1, <2>2 DEF Preparation
      <3> QED
        BY <2>1, <3>1 DEF PreparationOf, PrepareTimestamp
    <2> QED
      BY <2>1, <2>2, <1>c
  <1>5. CASE PrepareFail(n) \/ PrepareGetPayload(n)
    <2>1. \E p : Propose(n, p)
      BY <1>5, ZenonT(60) DEF PrepareFail, PrepareGetPayload
    <2> QED
      BY <2>1, <1>c
  <1>6. CASE FinalizeStart(n) \/ SendPayload(n) \/ UpdateForkchoice(n) \/ Commit(n)
    <2>1. prep' = prep /\ (fin[n] # "idle" \/ prep[n].pc = "idle")
      BY <1>6, Zenon DEF FinalizeStart, Quiet, SendPayload, UpdateForkchoice, Commit
    <2> QED
      BY <2>1, <1>a DEF PreparationOf
  <1>7. CASE \/ ProcessProposal(n) \/ ProbeStart(n) \/ ProbeForkchoice(n) \/ Retry(n)
             \/ LostAnswer(n) \/ Postpone(n) \/ ElLate(n) \/ ElSync(n) \/ ElRestart(n)
    BY <1>7, <1>b, ZenonT(60)
       DEF ProcessProposal, ProbeStart, ProbeForkchoice, Retry, LostAnswer, Postpone,
           ElLate, ElSync, ElRestart, vars
  <1>8. CASE Crash(n)
    <2>1. prep'[n] = NoPreparation
      BY <1>1, <1>8 DEF Crash
    <2>2. prep'[n].pc = "idle"
      BY <2>1 DEF NoPreparation
    <2> QED
      BY <2>2, <1>a, Zenon
  <1> QED
    BY <1>2, <1>3, <1>4, <1>5, <1>6, <1>7, <1>8, Zenon DEF NodeStep

\* A payload that was built is valid when it is proposed, and no node that is
\* shown it rejects it.
LEMMA ProposalStep ==
  ASSUME TypeInv, PreparedInv, [Next]_vars
  PROVE  ProposalValid' /\ PreparedIsAccepted'
  <1>1. CASE UNCHANGED decided /\ (proposal' = proposal \/ proposal' = Nil)
    BY <1>1, Zenon DEF PreparedInv, ProposalValid, PreparedIsAccepted
  <1>2. ASSUME UNCHANGED decided, NEW n \in Nodes, Propose(n, Nil)
        PROVE  ProposalValid' /\ PreparedIsAccepted'
    BY <1>2, ZenonT(60) DEF PreparedInv, Propose, ProposalValid, PreparedIsAccepted
  <1>3. CASE ForeignProposal
    <2>a. PICK n \in Nodes, time \in LastTime..MaxTime, p \in ForeignPayloads :
            proposal' = [from |-> Nil, time |-> time, app |-> commit[n].state,
                         payload |-> p, accepts |-> {}, rejects |-> {}]
      BY <1>3, Zenon DEF ForeignProposal
    <2>1. proposal'.from = Nil
      BY <2>a
    <2> QED
      BY <2>1 DEF ProposalValid, PreparedIsAccepted
  <1>4. CASE Decide
    BY <1>4 DEF Decide, ProposalValid, PreparedIsAccepted
  <1>5. ASSUME NEW n \in Nodes, ProcessProposal(n)
        PROVE  ProposalValid' /\ PreparedIsAccepted'
    <2>1. /\ UNCHANGED decided /\ proposal # Nil /\ proposal \in Proposal
          /\ proposal.app = commit[n].state
          /\ proposal' = IF Accepts(n)
                         THEN [proposal EXCEPT !.accepts = @ \cup {n}]
                         ELSE [proposal EXCEPT !.rejects = @ \cup {n}]
      BY <1>5 DEF ProcessProposal, TypeInv, TypeOK
    <2>2. /\ proposal'.from = proposal.from /\ proposal'.payload = proposal.payload
          /\ proposal'.app = proposal.app /\ proposal'.time = proposal.time
          /\ Accepts(n) => proposal'.rejects = proposal.rejects
      BY <2>1 DEF Proposal
    <2>3. CASE proposal.from = Nil \/ proposal.payload = Nil
      BY <2>2, <2>3 DEF ProposalValid, PreparedIsAccepted
    <2>4. CASE proposal.from # Nil /\ proposal.payload # Nil
      <3>1. /\ Len(decided) # 0 /\ proposal.rejects = {}
            /\ ValidatePayload(proposal.payload, proposal.app, proposal.time,
                               Len(decided) + 1)
        BY <2>1, <2>4 DEF PreparedInv, ProposalValid, PreparedIsAccepted
      <3>2. Accepts(n)
        BY <2>1, <2>4, <3>1, Zenon DEF Accepts
      <3> QED
        BY <2>1, <2>2, <3>1, <3>2, Zenon DEF ProposalValid, PreparedIsAccepted
    <2> QED
      BY <2>3, <2>4
  <1>6. ASSUME NEW n \in Nodes, PrepareStart(n)
        PROVE  ProposalValid' /\ PreparedIsAccepted'
    <2>1. /\ UNCHANGED decided
          /\ \/ proposal' = proposal
             \/ \E time : proposal' = [from |-> n, time |-> time, app |-> commit[n].state,
                                       payload |-> Nil, accepts |-> {}, rejects |-> {}]
      BY <1>6, Zenon DEF PrepareStart
    <2>2. proposal' = proposal \/ proposal'.payload = Nil
      BY <2>1
    <2> QED
      BY <2>1, <2>2, <1>1 DEF ProposalValid, PreparedIsAccepted
  <1>7. ASSUME NEW n \in Nodes, PrepareGetPayload(n)
        PROVE  ProposalValid' /\ PreparedIsAccepted'
    <2>1. UNCHANGED decided /\ prep[n].pc = "get"
      BY <1>7, Zenon DEF PrepareGetPayload
    <2>2. PICK hash, blobs :
            Propose(n, [hash |-> hash, parent |-> prep[n].job.parent,
                        number |-> prep[n].job.number,
                        timestamp |-> prep[n].job.timestamp, blobs |-> blobs,
                        wellFormed |-> TRUE, ok |-> TRUE])
      BY <1>7, Zenon DEF PrepareGetPayload
    <2> DEFINE p == [hash |-> hash, parent |-> prep[n].job.parent,
                     number |-> prep[n].job.number,
                     timestamp |-> prep[n].job.timestamp, blobs |-> blobs,
                     wellFormed |-> TRUE, ok |-> TRUE]
    <2>3. CASE ~(proposal = Nil /\ AtTip(n))
      BY <2>1, <2>2, <2>3, <1>1, ZenonT(60) DEF Propose
    <2>4. CASE proposal = Nil /\ AtTip(n)
      <3>1. proposal' = [from |-> n, time |-> prep[n].time, app |-> commit[n].state,
                         payload |-> p, accepts |-> {}, rejects |-> {}]
        BY <2>2, <2>4, Zenon DEF Propose
      <3>2. /\ commit[n].height # 0
            /\ prep[n].job = [parent |-> commit[n].state.hash,
                              number |-> commit[n].state.height + 1,
                              timestamp |-> PrepareTimestamp(n)]
            /\ PrepareTimestamp(n) > commit[n].state.timestamp
        BY <2>1, Zenon DEF PreparedInv, PreparationOf
      <3>3. ValidatePayload(p, commit[n].state, prep[n].time, commit[n].height + 1)
        <4>1. /\ p.parent = prep[n].job.parent /\ p.number = prep[n].job.number
              /\ p.timestamp = prep[n].job.timestamp
              /\ p.wellFormed
          BY Zenon
        <4>2. /\ prep[n].job.parent = commit[n].state.hash
              /\ prep[n].job.number = commit[n].state.height + 1
              /\ prep[n].job.timestamp = PrepareTimestamp(n)
          BY <3>2
        <4> HIDE DEF p
        <4> QED
          BY <3>2, <4>1, <4>2, Zenon DEF ValidatePayload, PrepareTimestamp
      <3>4. Len(decided') = commit[n].height
        BY <2>1, <2>4, ZenonT(60) DEF AtTip
      <3> HIDE DEF p
      <3>5. /\ proposal'.payload = p /\ proposal'.app = commit[n].state
            /\ proposal'.time = prep[n].time /\ proposal'.rejects = {}
        BY <3>1
      <3> QED
        BY <3>2, <3>3, <3>4, <3>5, Zenon DEF ProposalValid, PreparedIsAccepted
    <2> QED
      BY <2>3, <2>4, Zenon
  <1> QED
    BY <1>1, <1>2, <1>3, <1>4, <1>5, <1>6, <1>7, ProposalMoves

\* Every step keeps what PreparedIsAccepted rests on.
LEMMA PreparedStep ==
  ASSUME TypeInv, Inductive, PreparedInv, [Next]_vars
  PROVE  PreparedInv'
  <1>1. ASSUME NEW m \in Nodes PROVE PreparationOf(m)'
    <2>1. PreparationOf(m)
      BY ZenonT(60) DEF PreparedInv
    <2>2. CASE UNCHANGED <<prep, commit, fin>>
      BY <2>1, <2>2 DEF PreparationOf, PrepareTimestamp
    <2>3. ASSUME NEW n \in Nodes, NodeStep(n) PROVE PreparationOf(m)'
      <3>1. CASE n = m
        BY <2>1, <2>3, <3>1, PreparationStep, Zenon
      <3>2. CASE n # m
        BY <2>1, <2>3, <3>2, OthersPrepare, ZenonT(60) DEF PreparationOf, PrepareTimestamp
      <3> QED
        BY <3>1, <3>2
    <2>4. CASE UNCHANGED vars \/ BoundReached \/ ForeignProposal \/ Decide \/ NextRound
      BY <2>2, <2>4, Zenon DEF BoundReached, vars, ForeignProposal, Decide, NextRound
    <2> QED
      BY <2>3, <2>4, Zenon DEF Next
  <1> QED
    BY <1>1, ProposalStep, Zenon DEF PreparedInv

\* A payload that PrepareProposal obtained is accepted by every node that is
\* shown it, for any number of nodes, crashes, restarts, lost and late calls.
THEOREM PreparedAccepted ==
  ASSUME ValidPayloads
  PROVE  Spec => []PreparedIsAccepted
  <1>1. Init => PreparedInv
    BY DEF Init, PreparedInv, PreparationOf, NoPreparation, ProposalValid,
           PreparedIsAccepted
  <1>2. TypeInv /\ Inductive /\ PreparedInv /\ [Next]_vars => PreparedInv'
    BY PreparedStep
  <1>3. PreparedInv => PreparedIsAccepted
    BY DEF PreparedInv
  <1> QED
    BY <1>1, <1>2, <1>3, Invariance, PTL DEF Spec
=============================================================================
