-------------------------- MODULE EvmNodeAgreement --------------------------
(***************************************************************************)
(* The types of EvmNode, and the agreement of its nodes: for any set of    *)
(* nodes and hashes, any bounds, any timestamp configuration and any       *)
(* behaviour of the execution clients that EngineApi allows.               *)
(***************************************************************************)
EXTENDS EvmNode, TLAPS

---------------------------------------------------------------------------
\* Sequences.

\* A sequence is a function on the numbers up to its length.
LEMMA LenFacts ==
  ASSUME NEW S, NEW seq \in Seq(S)
  PROVE  Len(seq) \in Nat /\ DOMAIN seq = 1..Len(seq) /\ seq \in [1..Len(seq) -> S]
OBVIOUS

\* Append adds one element, at the end.
LEMMA AppendFacts ==
  ASSUME NEW S, NEW seq \in Seq(S), NEW elt \in S
  PROVE  /\ Append(seq, elt) \in Seq(S) /\ Len(Append(seq, elt)) = Len(seq) + 1
         /\ \A i \in 1..Len(seq) : Append(seq, elt)[i] = seq[i]
         /\ Append(seq, elt)[Len(seq) + 1] = elt
OBVIOUS

---------------------------------------------------------------------------
\* The operators of EngineApi and Timestamps.

\* CalculateTimestamp returns a timestamp, in and outside the window.
LEMMA TimestampType ==
  ASSUME NEW time \in Nat, NEW height \in Nat, NEW previous \in Nat
  PROVE  CalculateTimestamp(Config, time, height, previous) \in Nat
  BY EvmNodeAssumption
     DEF CalculateTimestamp, After, UnixOffset, InWindow, TimestampConfig

\* A block an execution client knows is found by its hash.
LEMMA BlockOfKnown ==
  ASSUME NEW e \in ExecutionClient, NEW hash, Knows(e, hash)
  PROVE  /\ BlockOf(e, hash) \in e.known
         /\ BlockOf(e, hash) \in Block
         /\ BlockOf(e, hash).hash = hash
  BY DEF Knows, BlockOf, ExecutionClient

\* newPayload leaves an execution client.
LEMMA NewPayloadType ==
  ASSUME NEW e \in ExecutionClient, NEW p \in Block
  PROVE  NewPayload(e, p) \in ExecutionClient
  BY DEF NewPayload, ExecutionClient

\* forkchoiceUpdated leaves an execution client.
LEMMA ForkchoiceType ==
  ASSUME NEW e \in ExecutionClient, NEW hash \in Hash
  PROVE  Forkchoice(e, hash) \in ExecutionClient
  BY BlockOfKnown, Zenon DEF Forkchoice, ExecutionClient

\* The genesis block is a block, and its state a block state.
LEMMA GenesisType == Genesis \in Block /\ StateOf(Genesis) \in BlockState
  BY EngineApiAssumption DEF Genesis, Block, StateOf, BlockState

\* The block state that a payload leaves.
LEMMA StateOfType ==
  ASSUME NEW p \in Block
  PROVE  StateOf(p) \in BlockState
  BY DEF Block, StateOf, BlockState

---------------------------------------------------------------------------
\* Types.

\* What the types rest on: FinalizeBlock is about a decided block, and one
\* with a payload once the payload is on its way to the EL.
InPlace ==
  \A n \in Nodes :
    /\ commit[n].height <= Len(decided)
    /\ fin[n] # "idle" => ~AtTip(n)
    /\ fin[n] \in {"send", "fcu", "applied"} => Current(n).payload # Nil

TypeInv == TypeOK /\ InPlace

\* The block a node is finalizing, and its payload.
LEMMA CurrentType ==
  ASSUME TypeInv, NEW n \in Nodes, ~AtTip(n)
  PROVE  /\ commit[n].height + 1 \in DOMAIN decided
         /\ Current(n) \in CometBlock
         /\ Current(n).payload # Nil => Current(n).payload \in Block
  <1>1. commit[n].height \in Nat /\ decided \in Seq(CometBlock)
    BY DEF TypeInv, TypeOK
  <1>2. commit[n].height + 1 \in 1..Len(decided)
    BY <1>1 DEF TypeInv, InPlace, AtTip
  <1>3. Current(n) \in CometBlock
    BY <1>1, <1>2 DEF Current
  <1> QED
    BY <1>2, <1>3 DEF CometBlock

\* Block times are times.
LEMMA LastTimeType == TypeOK => LastTime \in Nat
  <1> SUFFICES ASSUME TypeOK PROVE LastTime \in Nat
    OBVIOUS
  <1>1. CASE decided = <<>>
    BY <1>1 DEF LastTime
  <1>2. CASE decided # <<>>
    <2>1. decided \in Seq(CometBlock)
      BY DEF TypeOK
    <2>2. Len(decided) \in 1..Len(decided)
      BY <1>2
    <2>3. decided[Len(decided)] \in CometBlock
      BY <2>1, <2>2
    <2> QED
      BY <2>3 DEF LastTime, CometBlock
  <1> QED
    BY <1>1, <1>2

\* The execution blocks that are decided or proposed are blocks.
LEMMA BlocksType ==
  ASSUME TypeOK
  PROVE  Decided \subseteq Block /\ Blocks \subseteq Block
  <1>1. \A h \in DOMAIN decided : decided[h] \in CometBlock
    BY DEF TypeOK
  <1>2. Decided \subseteq Block
    BY <1>1 DEF Decided, CometBlock
  <1>3. proposal # Nil => proposal.payload \in Block \cup {Nil}
    BY DEF TypeOK, Proposal
  <1> QED
    BY <1>2, <1>3, GenesisType DEF Blocks

\* The payload life cycle starts in the types.
LEMMA TypeInit == Init => TypeInv
  <1> SUFFICES ASSUME Init PROVE TypeInv
    OBVIOUS
  <1>1. InitialClient \in ExecutionClient
    BY GenesisType DEF InitialClient, ExecutionClient
  <1>2. NoPreparation \in Preparation
    BY DEF NoPreparation, Preparation
  <1>3. TypeOK
    BY <1>1, <1>2, GenesisType DEF Init, TypeOK, FinalizePhases
  <1>4. InPlace
    BY DEF Init, InPlace
  <1> QED
    BY <1>3, <1>4 DEF TypeInv

\* Propose keeps the types of what it changes.
LEMMA ProposeType ==
  ASSUME TypeOK, NEW n \in Nodes, NEW payload \in Block \cup {Nil},
         Propose(n, payload)
  PROVE  /\ prep' \in [Nodes -> Preparation]
         /\ proposal' \in Proposal \cup {Nil}
  BY DEF NoPreparation, Preparation, TypeOK, Proposal, Propose

\* A step that changes no block, commit or phase keeps FinalizeBlock in place.
LEMMA InPlaceKept ==
  ASSUME InPlace, UNCHANGED <<decided, commit, fin>>
  PROVE  InPlace'
  BY DEF InPlace, AtTip, Current

\* The steps of PrepareProposal keep the types.
LEMMA TypePrepare ==
  ASSUME TypeInv, NEW n \in Nodes,
         \/ PrepareStart(n) \/ PrepareFail(n) \/ PrepareForkchoice(n)
         \/ PrepareGetPayload(n) \/ PrepareGetError(n)
  PROVE  TypeInv'
  <1> USE DEF TypeInv
  <1>a. /\ commit[n].state \in BlockState /\ commit[n].state.hash \in Hash
        /\ commit[n].state.timestamp \in Nat /\ commit[n].height \in Nat
    BY DEF TypeOK, BlockState
  <1>b. el[n] \in ExecutionClient /\ prep[n] \in Preparation
    BY DEF TypeOK
  <1>1. CASE PrepareStart(n)
    <2>1. LastTime \in Nat
      BY LastTimeType
    <2>2. PICK time \in LastTime..MaxTime :
            IF commit[n].height = 0
            THEN /\ proposal' = [from |-> n, time |-> time, app |-> commit[n].state,
                                 payload |-> Nil, accepts |-> {}, rejects |-> {}]
                 /\ UNCHANGED prep
            ELSE /\ prep' = [prep EXCEPT ![n] =
                       [NoPreparation EXCEPT !.pc = "fcu", !.time = time]]
                 /\ UNCHANGED proposal
      BY <1>1, Zenon DEF PrepareStart
    <2>3. time \in Nat
      BY <2>1
    <2>4. [NoPreparation EXCEPT !.pc = "fcu", !.time = time] \in Preparation
      BY <2>3, Zenon DEF NoPreparation, Preparation
    <2>5. [from |-> n, time |-> time, app |-> commit[n].state,
           payload |-> Nil, accepts |-> {}, rejects |-> {}] \in Proposal
      BY <1>a, <2>3 DEF Proposal
    <2>6. TypeOK'
      BY <1>1, <2>2, <2>4, <2>5, ZenonT(60) DEF PrepareStart, TypeOK
    <2> QED
      BY <1>1, <2>6, InPlaceKept, Zenon DEF PrepareStart
  <1>2. CASE PrepareFail(n)
    BY <1>2, ProposeType, InPlaceKept DEF PrepareFail, TypeOK
  <1>3. CASE PrepareForkchoice(n)
    <2> DEFINE hash == commit[n].state.hash
               job == JobOf(el[n], hash, PrepareTimestamp(n))
               updated == Forkchoice(el[n], hash)
    <2>1. updated \in ExecutionClient
      BY <1>a, <1>b, ForkchoiceType
    <2>2. CASE /\ StartsJob(el[n], hash, PrepareTimestamp(n))
               /\ el' = [el EXCEPT ![n] = [updated EXCEPT !.jobs = @ \cup {job}]]
               /\ \/ prep' = [prep EXCEPT ![n] = [@ EXCEPT !.pc = "get", !.job = job]]
                  \/ UNCHANGED prep
               /\ UNCHANGED proposal
      <3>1. BlockOf(el[n], hash) \in Block
        BY <1>b, <2>2, BlockOfKnown DEF StartsJob
      <3>2. PrepareTimestamp(n) \in Nat
        <4>1. prep[n].time \in Nat /\ commit[n].height + 1 \in Nat
          BY <1>a, <1>b DEF Preparation
        <4> QED
          BY <1>a, <4>1, TimestampType, Zenon DEF PrepareTimestamp
      <3>3. job \in Job
        BY <1>a, <3>1, <3>2 DEF JobOf, Job, Block
      <3>4. [updated EXCEPT !.jobs = @ \cup {job}] \in ExecutionClient
        BY <2>1, <3>3 DEF ExecutionClient
      <3>5. el' \in [Nodes -> ExecutionClient]
        BY <2>2, <3>4 DEF TypeOK
      <3>6. prep' \in [Nodes -> Preparation]
        <4>1. [prep[n] EXCEPT !.pc = "get", !.job = job] \in Preparation
          BY <1>b, <3>3, Zenon DEF Preparation
        <4> QED
          BY <2>2, <4>1, Zenon DEF TypeOK
      <3> QED
        BY <1>3, <2>2, <3>5, <3>6, InPlaceKept, Zenon
           DEF PrepareForkchoice, TypeOK
    <2>3. CASE el' = [el EXCEPT ![n] = updated] /\ Propose(n, Nil)
      BY <1>3, <2>1, <2>3, ProposeType, InPlaceKept, Zenon
         DEF PrepareForkchoice, TypeOK
    <2>4. CASE UNCHANGED el /\ Propose(n, Nil)
      BY <1>3, <2>4, ProposeType, InPlaceKept, Zenon DEF PrepareForkchoice, TypeOK
    <2>5. CASE el' = [el EXCEPT ![n] = updated] /\ UNCHANGED <<prep, proposal>>
      BY <1>3, <2>1, <2>5, InPlaceKept, Zenon DEF PrepareForkchoice, TypeOK
    <2> QED
      BY <1>3, <2>2, <2>3, <2>4, <2>5, Zenon DEF PrepareForkchoice
  <1>4. CASE PrepareGetPayload(n)
    <2>1. PICK hash \in Hash, blobs \in Blobs :
            Propose(n, [hash |-> hash, parent |-> prep[n].job.parent,
                        number |-> prep[n].job.number,
                        timestamp |-> prep[n].job.timestamp, blobs |-> blobs,
                        wellFormed |-> TRUE, ok |-> TRUE])
      BY <1>4, Zenon DEF PrepareGetPayload
    <2>2. prep[n].job \in Job
      BY <1>4, <1>b, SMTT(30) DEF PrepareGetPayload, ExecutionClient
    <2>3. [hash |-> hash, parent |-> prep[n].job.parent,
           number |-> prep[n].job.number,
           timestamp |-> prep[n].job.timestamp, blobs |-> blobs,
           wellFormed |-> TRUE, ok |-> TRUE] \in Block
      BY <2>2, EvmNodeAssumption, SMTT(30) DEF Job, Block
    <2>4. TypeOK'
      BY <1>4, <2>1, <2>3, ProposeType DEF PrepareGetPayload, TypeOK
    <2> QED
      BY <1>4, <2>4, InPlaceKept DEF PrepareGetPayload
  <1>5. CASE PrepareGetError(n)
    <2>1. CASE Propose(n, Nil)
      BY <1>5, <2>1, ProposeType, InPlaceKept DEF PrepareGetError, TypeOK
    <2>2. CASE /\ \/ prep' = [prep EXCEPT ![n] = [@ EXCEPT !.unknown = prep[n].unknown + 1]]
                  \/ prep' = [prep EXCEPT ![n] = [@ EXCEPT !.unknown = 0]]
               /\ UNCHANGED proposal
      <3>1. prep' \in [Nodes -> Preparation]
        <4>1. /\ [prep[n] EXCEPT !.unknown = prep[n].unknown + 1] \in Preparation
              /\ [prep[n] EXCEPT !.unknown = 0] \in Preparation
          BY <1>b DEF Preparation
        <4> QED
          BY <2>2, <4>1, Zenon DEF TypeOK
      <3>2. TypeOK'
        BY <1>5, <2>2, <3>1 DEF PrepareGetError, TypeOK
      <3> QED
        BY <1>5, <3>2, InPlaceKept DEF PrepareGetError
    <2> QED
      BY <1>5, <2>1, <2>2 DEF PrepareGetError
  <1> QED
    BY <1>1, <1>2, <1>3, <1>4, <1>5

\* Payloads of other proposers are blocks with a new hash, valid if they are
\* so by assumption and their parent is valid.
LEMMA ForeignType ==
  ASSUME TypeOK, NEW p \in ForeignPayloads
  PROVE  /\ p \in Block /\ Fresh(p.hash)
         /\ \E parent \in Blocks, ok \in ForeignVerdicts : p.ok = (ok /\ parent.ok)
  <1>1. Blocks \subseteq Block
    BY BlocksType, ZenonT(60)
  <1>2. PICK hash \in {h \in Hash : Fresh(h)}, parent \in Blocks,
             shape \in ForeignShapes, blobs \in Blobs, ok \in ForeignVerdicts :
          p = [hash |-> hash, parent |-> parent.hash,
               number |-> parent.number + shape.above,
               timestamp |-> parent.timestamp + shape.later, blobs |-> blobs,
               wellFormed |-> shape.wellFormed, ok |-> ok /\ parent.ok]
    BY SMTT(40) DEF ForeignPayloads
  <1>3. parent \in Block
    BY <1>1
  <1>4. shape \in [above : Nat, later : Nat, wellFormed : BOOLEAN]
    BY EvmNodeAssumption
  <1>5. parent.hash \in Hash /\ parent.number + shape.above \in Nat
        /\ parent.timestamp + shape.later \in Nat
    BY <1>3, <1>4 DEF Block
  <1>6. blobs \in Nat /\ shape.wellFormed \in BOOLEAN /\ (ok /\ parent.ok) \in BOOLEAN
    BY <1>4, EvmNodeAssumption
  <1>7. p \in Block
    BY <1>2, <1>5, <1>6, Zenon DEF Block
  <1>8. p.hash = hash /\ p.ok = (ok /\ parent.ok)
    BY <1>2, Zenon
  <1> QED
    BY <1>7, <1>8, Zenon

\* Consensus and ProcessProposal keep the types.
LEMMA TypeConsensus ==
  ASSUME TypeInv,
         \/ BoundReached \/ ForeignProposal \/ Decide \/ NextRound
         \/ \E n \in Nodes : ProcessProposal(n)
  PROVE  TypeInv'
  <1> USE DEF TypeInv
  <1>1. CASE BoundReached
    BY <1>1, InPlaceKept DEF BoundReached, vars, TypeOK
  <1>2. CASE ForeignProposal
    <2>1. PICK n \in Nodes, time \in LastTime..MaxTime, p \in ForeignPayloads :
            proposal' = [from |-> Nil, time |-> time, app |-> commit[n].state,
                         payload |-> p, accepts |-> {}, rejects |-> {}]
      BY <1>2, Zenon DEF ForeignProposal
    <2>2. LastTime \in Nat
      BY LastTimeType
    <2>3. time \in Nat
      BY <2>2
    <2>4. p \in Block
      BY ForeignType
    <2>5. commit[n].state \in BlockState
      BY DEF TypeOK
    <2>6. proposal' \in Proposal
      BY <2>1, <2>3, <2>4, <2>5 DEF Proposal
    <2> QED
      BY <1>2, <2>6, InPlaceKept, SMTT(30) DEF ForeignProposal, TypeOK
  <1>3. CASE Decide
    <2>1. proposal \in Proposal
      BY <1>3 DEF Decide, TypeOK
    <2>2. [time |-> proposal.time, app |-> proposal.app,
           payload |-> proposal.payload] \in CometBlock
      BY <2>1, SMTT(30) DEF Proposal, CometBlock
    <2>3. TypeOK'
      BY <1>3, <2>2, SMTT(30) DEF Decide, TypeOK
    <2>4. /\ Len(decided') = Len(decided) + 1
          /\ \A h \in 1..Len(decided) : decided'[h] = decided[h]
      BY <1>3 DEF Decide, TypeOK
    <2>5. InPlace'
      <3> SUFFICES ASSUME NEW n \in Nodes
                   PROVE  /\ commit'[n].height <= Len(decided')
                          /\ fin'[n] # "idle" => ~AtTip(n)'
                          /\ fin'[n] \in {"send", "fcu", "applied"}
                               => Current(n)'.payload # Nil
        BY DEF InPlace
      <3>1. commit' = commit /\ fin' = fin
        BY <1>3 DEF Decide
      <3>2. commit[n].height \in Nat /\ Len(decided) \in Nat
        BY DEF TypeOK
      <3>3. ~AtTip(n) => Current(n)' = Current(n)
        BY <2>4, <3>1, <3>2, SMTT(30) DEF InPlace, AtTip, Current
      <3> QED
        BY <2>4, <3>1, <3>2, <3>3 DEF InPlace, AtTip
    <2> QED
      BY <2>3, <2>5, SMTT(30)
  <1>4. CASE NextRound
    BY <1>4, InPlaceKept DEF NextRound, TypeOK
  <1>5. ASSUME NEW n \in Nodes, ProcessProposal(n)
        PROVE  TypeInv'
    <2>1. proposal \in Proposal
      BY <1>5 DEF ProcessProposal, TypeOK
    <2>2. proposal' \in Proposal
      BY <1>5, <2>1 DEF ProcessProposal, Proposal
    <2> QED
      BY <1>5, <2>2, InPlaceKept DEF ProcessProposal, TypeOK
  <1> QED
    BY <1>1, <1>2, <1>3, <1>4, <1>5

\* FinalizeBlock and Commit keep the types.
LEMMA TypeFinalize ==
  ASSUME TypeInv, NEW n \in Nodes,
         FinalizeStart(n) \/ SendPayload(n) \/ UpdateForkchoice(n) \/ Commit(n)
  PROVE  TypeInv'
  <1> USE DEF TypeInv
  <1>a. el[n] \in ExecutionClient
    BY DEF TypeOK
  <1>1. CASE FinalizeStart(n)
    <2>1. TypeOK'
      BY <1>1, Zenon DEF FinalizeStart, TypeOK, FinalizePhases
    <2>2. InPlace'
      BY <1>1 DEF FinalizeStart, InPlace, AtTip, Current, TypeOK
    <2> QED
      BY <2>1, <2>2
  <1>2. CASE SendPayload(n)
    <2>1. NewPayload(el[n], Current(n).payload) \in ExecutionClient
      BY <1>2, <1>a, CurrentType, NewPayloadType, Zenon DEF SendPayload, InPlace
    <2>2. TypeOK'
      BY <1>2, <2>1, Zenon DEF SendPayload, TypeOK, FinalizePhases
    <2>3. InPlace'
      BY <1>2, ZenonT(60) DEF SendPayload, InPlace, AtTip, Current, TypeOK
    <2> QED
      BY <2>2, <2>3
  <1>3. CASE UpdateForkchoice(n)
    <2>1. Current(n).payload \in Block
      BY <1>3, CurrentType DEF UpdateForkchoice, InPlace
    <2>2. Forkchoice(el[n], Current(n).payload.hash) \in ExecutionClient
      BY <1>a, <2>1, ForkchoiceType DEF Block
    <2>3. TypeOK'
      BY <1>3, <2>2, Zenon DEF UpdateForkchoice, TypeOK, FinalizePhases
    <2>4. InPlace'
      BY <1>3 DEF UpdateForkchoice, InPlace, AtTip, Current, TypeOK
    <2> QED
      BY <2>3, <2>4
  <1>4. CASE Commit(n)
    <2>1. commit[n] \in [height : Nat, state : BlockState]
      BY DEF TypeOK
    <2>2. NextState(n) \in BlockState
      BY <2>1, CurrentType, StateOfType, SMTT(30) DEF Commit, NextState, InPlace
    <2>3. TypeOK'
      BY <1>4, <2>2, SMTT(30) DEF Commit, TypeOK, FinalizePhases
    <2>4. commit'[n].height <= Len(decided') /\ fin'[n] = "idle"
      BY <1>4, SMTT(30) DEF Commit, TypeOK, InPlace, AtTip
    <2>5. \A m \in Nodes \ {n} : commit'[m] = commit[m] /\ fin'[m] = fin[m]
      BY <1>4 DEF Commit, TypeOK
    <2>6. InPlace'
      BY <1>4, <2>4 DEF Commit, InPlace, AtTip, Current
    <2> QED
      BY <2>3, <2>6
  <1> QED
    BY <1>1, <1>2, <1>3, <1>4

\* The probe, the faults and the EL's own steps keep the types.
LEMMA TypeFaults ==
  ASSUME TypeInv, NEW n \in Nodes,
         \/ ProbeStart(n) \/ ProbeForkchoice(n) \/ Retry(n) \/ LostAnswer(n)
         \/ Postpone(n) \/ ElLate(n) \/ ElSync(n) \/ ElRestart(n) \/ Crash(n)
  PROVE  TypeInv'
  <1> USE DEF TypeInv
  <1>a. el[n] \in ExecutionClient /\ late[n] \subseteq Hash
    BY DEF TypeOK
  <1>b. commit[n].state.hash \in Hash
    BY ZenonT(60) DEF TypeOK, BlockState
  <1>c. fin[n] \in {"send", "fcu", "applied"} =>
          Current(n).payload \in Block /\ Current(n).payload.hash \in Hash
    BY CurrentType, SMTT(30) DEF InPlace, Block
  <1>1. CASE ProbeStart(n)
    BY <1>1, <1>b, InPlaceKept DEF ProbeStart, TypeOK
  <1>2. CASE ProbeForkchoice(n)
    BY <1>2, ForkchoiceType, InPlaceKept DEF ProbeForkchoice, TypeOK
  <1>3. CASE Retry(n)
    BY <1>3, InPlaceKept DEF Retry, vars, TypeOK
  <1>4. CASE LostAnswer(n)
    <2>1. fin[n] = "send" => NewPayload(el[n], Current(n).payload) \in ExecutionClient
      BY <1>a, <1>c, NewPayloadType, SMTT(30)
    <2>2. fin[n] = "fcu" => Forkchoice(el[n], Current(n).payload.hash) \in ExecutionClient
      BY <1>a, <1>c, ForkchoiceType, SMTT(30)
    <2> QED
      BY <1>4, <2>1, <2>2, InPlaceKept, ZenonT(60) DEF LostAnswer, TypeOK
  <1>5. CASE Postpone(n)
    <2>1. PICK hash \in Hash : late' = [late EXCEPT ![n] = @ \cup {hash}]
      BY <1>c, <1>b, <1>5, Zenon DEF TypeOK, Postpone
    <2>2. late' \in [Nodes -> SUBSET Hash]
      BY <2>1 DEF TypeOK
    <2>3. probe' \in [Nodes -> Hash \cup {Nil}]
      BY <1>5, Zenon DEF Postpone, TypeOK
    <2>4. TypeOK'
      BY <1>5, <2>2, Zenon DEF Postpone, TypeOK
    <2> QED
      BY <1>5, <2>4, InPlaceKept, Zenon DEF Postpone
  <1>6. CASE ElLate(n)
    <2>1. PICK hash \in late[n] :
            /\ el' = [el EXCEPT ![n] = Forkchoice(@, hash)]
            /\ late' = [late EXCEPT ![n] = @ \ {hash}]
      BY <1>6, Zenon DEF ElLate
    <2>2. Forkchoice(el[n], hash) \in ExecutionClient
      BY <1>a, ForkchoiceType, Zenon
    <2> QED
      BY <1>6, <2>1, <2>2, InPlaceKept DEF ElLate, TypeOK
  <1>7. CASE ElSync(n)
    <2>1. PICK b \in Decided :
            el' = [el EXCEPT ![n] = [@ EXCEPT
              !.known = el[n].known \cup {c \in Decided : c.ok /\ c.number <= b.number},
              !.head = b, !.target = NoHash]]
      BY <1>7, Zenon DEF ElSync
    <2>2. [el[n] EXCEPT
              !.known = el[n].known \cup {c \in Decided : c.ok /\ c.number <= b.number},
              !.head = b, !.target = NoHash] \in ExecutionClient
      BY <1>a, BlocksType, Zenon DEF ExecutionClient
    <2> QED
      BY <1>7, <2>1, <2>2, InPlaceKept, Zenon DEF ElSync, TypeOK
  <1>8. CASE ElRestart(n)
    <2>1. PICK head \in el[n].known : el' = [el EXCEPT ![n] = Restarted(@, head)]
      BY <1>8, Zenon DEF ElRestart
    <2>2. Restarted(el[n], head) \in ExecutionClient
      BY <1>a, Zenon DEF Restarted, ExecutionClient
    <2>3. el' \in [Nodes -> ExecutionClient] /\ late' \in [Nodes -> SUBSET Hash]
      BY <1>8, <2>1, <2>2, Zenon DEF ElRestart, TypeOK
    <2>4. faults' = faults + 1 /\ faults \in Nat
      BY <1>8, ZenonT(60) DEF ElRestart, TypeOK
    <2>5. faults' \in Nat
      BY <2>4
    <2>6. TypeOK'
      BY <1>8, <2>3, <2>5, Zenon DEF ElRestart, TypeOK
    <2> QED
      BY <1>8, <2>6, InPlaceKept, Zenon DEF ElRestart
  <1>9. CASE Crash(n)
    <2>1. NoPreparation \in Preparation
      BY DEF NoPreparation, Preparation
    <2>2. TypeOK'
      BY <1>9, <2>1 DEF Crash, TypeOK, FinalizePhases
    <2>3. InPlace'
      BY <1>9 DEF Crash, InPlace, AtTip, Current, TypeOK
    <2> QED
      BY <2>2, <2>3
  <1> QED
    BY <1>1, <1>2, <1>3, <1>4, <1>5, <1>6, <1>7, <1>8, <1>9

\* Every step keeps the types.
LEMMA TypeStep == TypeInv /\ [Next]_vars => TypeInv'
  <1> SUFFICES ASSUME TypeInv, [Next]_vars PROVE TypeInv'
    OBVIOUS
  <1>1. CASE UNCHANGED vars
    BY <1>1, InPlaceKept, SMTT(30) DEF TypeInv, TypeOK, vars
  <1>2. CASE Next
    BY <1>2, TypePrepare, TypeConsensus, TypeFinalize, TypeFaults
       DEF Next, NodeStep
  <1> QED
    BY <1>1, <1>2

\* Every variable keeps its type in every behaviour, faults included: the
\* payload a phase of FinalizeBlock refers to is always there.
THEOREM TypeCorrect == Spec => []TypeOK
  <1>1. Spec => []TypeInv
    BY TypeInit, TypeStep, PTL DEF Spec
  <1>2. TypeInv => TypeOK
    BY DEF TypeInv
  <1> QED
    BY <1>1, <1>2, PTL

---------------------------------------------------------------------------
\* Which steps move what.

\* Only Decide and Commit change what is decided and committed.
LEMMA Moves ==
  ASSUME [Next]_vars
  PROVE  \/ UNCHANGED <<decided, commit>> \/ Decide
         \/ \E m \in Nodes : Commit(m)
  <1>1. CASE UNCHANGED vars \/ BoundReached \/ ForeignProposal \/ NextRound
    BY <1>1 DEF vars, BoundReached, ForeignProposal, NextRound
  <1>2. ASSUME NEW m \in Nodes,
               \/ PrepareStart(m) \/ PrepareFail(m) \/ PrepareForkchoice(m)
               \/ PrepareGetPayload(m) \/ PrepareGetError(m) \/ ProcessProposal(m)
        PROVE  UNCHANGED <<decided, commit>>
    BY <1>2, Zenon
       DEF PrepareStart, PrepareFail, PrepareForkchoice, PrepareGetPayload,
           PrepareGetError, ProcessProposal
  <1>3. ASSUME NEW m \in Nodes,
               \/ FinalizeStart(m) \/ SendPayload(m) \/ UpdateForkchoice(m)
               \/ ProbeStart(m) \/ ProbeForkchoice(m) \/ Retry(m) \/ LostAnswer(m)
               \/ Postpone(m) \/ ElLate(m) \/ ElSync(m) \/ ElRestart(m) \/ Crash(m)
        PROVE  UNCHANGED <<decided, commit>>
    BY <1>3, Zenon
       DEF FinalizeStart, SendPayload, UpdateForkchoice, ProbeStart,
           ProbeForkchoice, Retry, LostAnswer, Postpone, ElLate, ElSync,
           ElRestart, Crash, vars
  <1> QED
    BY <1>1, <1>2, <1>3 DEF Next, NodeStep

\* What a step does to the proposal, and which steps decide a block.
LEMMA ProposalMoves ==
  ASSUME [Next]_vars
  PROVE  \/ UNCHANGED decided /\ (proposal' = proposal \/ proposal' = Nil)
         \/ ForeignProposal \/ Decide
         \/ \E n \in Nodes : \/ UNCHANGED decided /\ Propose(n, Nil)
                             \/ ProcessProposal(n)
                             \/ PrepareStart(n) \/ PrepareGetPayload(n)
  <1>1. CASE UNCHANGED vars \/ BoundReached \/ NextRound \/ ForeignProposal \/ Decide
    BY <1>1, SMTT(30) DEF vars, BoundReached, NextRound
  <1>2. ASSUME NEW n \in Nodes,
               \/ PrepareFail(n) \/ PrepareForkchoice(n) \/ PrepareGetError(n)
               \/ FinalizeStart(n) \/ SendPayload(n) \/ UpdateForkchoice(n) \/ Commit(n)
        PROVE  UNCHANGED decided /\ (proposal' = proposal \/ Propose(n, Nil))
    BY <1>2, Zenon
       DEF PrepareFail, PrepareForkchoice, PrepareGetError, FinalizeStart,
           SendPayload, UpdateForkchoice, Commit
  <1>3. ASSUME NEW n \in Nodes,
               \/ ProbeStart(n) \/ ProbeForkchoice(n) \/ Retry(n) \/ LostAnswer(n)
               \/ Postpone(n) \/ ElLate(n) \/ ElSync(n) \/ ElRestart(n) \/ Crash(n)
        PROVE  UNCHANGED decided /\ (proposal' = proposal \/ proposal' = Nil)
    <2>1. CASE \/ ProbeStart(n) \/ ProbeForkchoice(n) \/ Retry(n) \/ LostAnswer(n) \/ Crash(n)
      BY <2>1 DEF ProbeStart, ProbeForkchoice, Retry, LostAnswer, Crash, vars
    <2>2. CASE Postpone(n) \/ ElLate(n) \/ ElSync(n) \/ ElRestart(n)
      BY <2>2, Zenon DEF Postpone, ElLate, ElSync, ElRestart
    <2> QED
      BY <1>3, <2>1, <2>2, Zenon
  <1>4. ASSUME NEW n \in Nodes, NodeStep(n)
        PROVE  \/ UNCHANGED decided
                  /\ (proposal' = proposal \/ proposal' = Nil \/ Propose(n, Nil))
               \/ ProcessProposal(n) \/ PrepareStart(n) \/ PrepareGetPayload(n)
    BY <1>2, <1>3, <1>4, Zenon DEF NodeStep
  <1> QED
    BY <1>1, <1>4, Zenon DEF Next

---------------------------------------------------------------------------
\* Agreement of the nodes.

\* The block states in which a node may be after CometBFT height h: the first
\* block has no payload, and only an invalid payload leaves a choice.
Outcomes(h) ==
  IF h = 0 THEN {StateOf(Genesis)}
  ELSE LET block == decided[h]
       IN  IF block.payload = Nil THEN {block.app}
           ELSE IF block.payload.ok THEN {StateOf(block.payload)}
           ELSE {block.app, StateOf(block.payload)}

\* The inductive invariant: a block is decided in an outcome of the block
\* before it, with a payload that is valid there; a node that finalizes a block
\* is in the state it was decided in, and fails only what may fail.
Justified(b, h) ==
  /\ b.app \in Outcomes(h - 1)
  /\ IF h = 1 THEN b.payload = Nil
     ELSE b.payload # Nil /\ ValidatePayload(b.payload, b.app, b.time, h)

DecidedJustified == \A h \in DOMAIN decided : Justified(decided[h], h)

AcceptedJustified ==
  proposal # Nil /\ proposal.accepts # {} => Justified(proposal, Len(decided) + 1)

CommitOutcome == \A n \in Nodes : commit[n].state \in Outcomes(commit[n].height)

FinalizeJustified ==
  \A n \in Nodes :
    /\ fin[n] # "idle" => Current(n).app = commit[n].state
    /\ fin[n] = "failed" => Current(n).payload = Nil \/ ~Current(n).payload.ok

OutcomeInv ==
  DecidedJustified /\ AcceptedJustified /\ CommitOutcome /\ FinalizeJustified

\* A change of the proposal alone to one nobody has accepted.
LEMMA OutcomeKept ==
  ASSUME OutcomeInv, UNCHANGED <<decided, commit, fin>>,
         proposal' = proposal \/ proposal' = Nil \/ proposal'.accepts = {}
  PROVE  OutcomeInv'
  <1> USE DEF OutcomeInv
  <1>1. \A h : Outcomes(h)' = Outcomes(h)
    BY DEF Outcomes
  <1>2. DecidedJustified'
    BY <1>1, Zenon DEF DecidedJustified, Justified
  <1>3. AcceptedJustified'
    BY <1>1, Zenon DEF AcceptedJustified, Justified
  <1>4. CommitOutcome'
    BY <1>1, Zenon DEF CommitOutcome
  <1>5. FinalizeJustified'
    BY Zenon DEF FinalizeJustified, Current
  <1> QED
    BY <1>2, <1>3, <1>4, <1>5, Zenon

\* The block being finalized is justified.
LEMMA CurrentJustified ==
  ASSUME TypeInv, OutcomeInv, NEW n \in Nodes, ~AtTip(n)
  PROVE  Justified(Current(n), commit[n].height + 1)
  BY CurrentType, Zenon DEF OutcomeInv, DecidedJustified, Current

\* ProcessProposal accepts a payload in an outcome of the last block.
LEMMA OutcomeProcess ==
  ASSUME TypeInv, OutcomeInv, NEW n \in Nodes, ProcessProposal(n)
  PROVE  OutcomeInv'
  <1> USE DEF OutcomeInv
  <1>a. UNCHANGED <<decided, commit, fin>> /\ proposal \in Proposal
    BY DEF ProcessProposal, TypeInv, TypeOK
  <1>b. Len(decided) \in Nat
    BY LenFacts DEF TypeInv, TypeOK
  <1>1. /\ proposal'.time = proposal.time /\ proposal'.app = proposal.app
        /\ proposal'.payload = proposal.payload
        /\ proposal'.accepts = IF Accepts(n) THEN proposal.accepts \cup {n}
                               ELSE proposal.accepts
    BY <1>a DEF ProcessProposal, Proposal
  <1>2. \A h : Outcomes(h)' = Outcomes(h)
    BY <1>a DEF Outcomes
  <1>3. DecidedJustified' /\ CommitOutcome'
    BY <1>a, <1>2, Zenon DEF DecidedJustified, Justified, CommitOutcome
  <1>4. FinalizeJustified'
    BY <1>a, Zenon DEF FinalizeJustified, Current
  <1>5. ASSUME Accepts(n) PROVE Justified(proposal, Len(decided) + 1)
    <2>1. proposal.app \in Outcomes((Len(decided) + 1) - 1)
      <3>1. (Len(decided) + 1) - 1 = commit[n].height
        BY <1>b DEF ProcessProposal, AtTip
      <3> QED
        BY <3>1, Zenon DEF ProcessProposal, CommitOutcome
    <2>2. IF Len(decided) + 1 = 1 THEN proposal.payload = Nil
          ELSE proposal.payload # Nil /\ ValidatePayload(proposal.payload, proposal.app,
                                           proposal.time, Len(decided) + 1)
      <3>1. Len(decided) + 1 = 1 <=> Len(decided) = 0
        BY <1>b
      <3> QED
        BY <1>5, <3>1, Zenon DEF Accepts, ProcessProposal
    <2> QED
      BY <2>1, <2>2, Zenon DEF Justified
  <1>6. AcceptedJustified'
    <2> SUFFICES ASSUME proposal'.accepts # {}
                 PROVE  Justified(proposal, Len(decided) + 1)'
      BY Zenon DEF AcceptedJustified
    <2>1. Justified(proposal, Len(decided) + 1)
      BY <1>1, <1>5, Zenon DEF AcceptedJustified, ProcessProposal
    <2> QED
      BY <1>a, <1>1, <1>2, <2>1, Zenon DEF Justified, ValidatePayload
  <1> QED
    BY <1>3, <1>4, <1>6, Zenon

\* What Decide does to the sequence of decided blocks.
LEMMA DecideFacts ==
  ASSUME TypeInv, Decide
  PROVE  /\ Len(decided) \in Nat /\ Len(decided') = Len(decided) + 1
         /\ DOMAIN decided = 1..Len(decided) /\ DOMAIN decided' = 1..Len(decided) + 1
         /\ \A h \in 1..Len(decided) : decided'[h] = decided[h]
         /\ decided'[Len(decided) + 1] = [time |-> proposal.time, app |-> proposal.app,
                                          payload |-> proposal.payload]
         /\ proposal.accepts # {} /\ UNCHANGED <<commit, fin>> /\ proposal' = Nil
  <1> DEFINE block == [time |-> proposal.time, app |-> proposal.app,
                       payload |-> proposal.payload]
  <1>1. decided \in Seq(CometBlock) /\ proposal \in Proposal
    BY Zenon DEF TypeInv, TypeOK, Decide
  <1>2. block \in CometBlock
    BY <1>1 DEF Proposal, CometBlock
  <1>3. decided' = Append(decided, block) /\ proposal' = Nil
        /\ UNCHANGED <<commit, fin>>
    BY Zenon DEF Decide
  <1>4. proposal.accepts # {}
    BY EvmNodeAssumption, Zenon DEF Decide
  <1> HIDE DEF block
  <1>5. Len(decided) \in Nat /\ DOMAIN decided = 1..Len(decided)
    BY <1>1, LenFacts, Zenon
  <1>6. /\ Append(decided, block) \in Seq(CometBlock)
        /\ Len(Append(decided, block)) = Len(decided) + 1
        /\ \A i \in 1..Len(decided) : Append(decided, block)[i] = decided[i]
        /\ Append(decided, block)[Len(decided) + 1] = block
    BY <1>1, <1>2, AppendFacts
  <1>7. DOMAIN decided' = 1..Len(decided) + 1
    BY <1>3, <1>6, LenFacts, Zenon
  <1> QED
    BY <1>3, <1>4, <1>5, <1>6, <1>7, Zenon DEF block

\* A decided block is justified: some node of the quorum accepted it.
LEMMA OutcomeDecide ==
  ASSUME TypeInv, OutcomeInv, Decide
  PROVE  OutcomeInv'
  <1> USE DEF OutcomeInv
  <1> DEFINE last == Len(decided)
  <1>a. /\ last \in Nat /\ Len(decided') = last + 1
        /\ DOMAIN decided = 1..last /\ DOMAIN decided' = 1..last + 1
        /\ \A h \in 1..last : decided'[h] = decided[h]
        /\ proposal.accepts # {} /\ UNCHANGED <<commit, fin>> /\ proposal' = Nil
    BY DecideFacts, Zenon
  <1>b. /\ decided'[last + 1].time = proposal.time /\ decided'[last + 1].app = proposal.app
        /\ decided'[last + 1].payload = proposal.payload
    BY DecideFacts
  <1>c. \A h \in 0..last : Outcomes(h)' = Outcomes(h)
    <2> SUFFICES ASSUME NEW h \in 0..last PROVE Outcomes(h)' = Outcomes(h)
      OBVIOUS
    <2>1. h = 0 \/ decided'[h] = decided[h]
      BY <1>a
    <2> QED
      BY <2>1, Zenon DEF Outcomes
  <1>d. \A n \in Nodes : commit[n].height \in 0..last
    <2> SUFFICES ASSUME NEW n \in Nodes PROVE commit[n].height \in 0..last
      OBVIOUS
    <2>1. commit[n].height \in Nat
      BY DEF TypeInv, TypeOK
    <2>2. commit[n].height <= last
      BY Zenon DEF TypeInv, InPlace
    <2> HIDE DEF last
    <2> QED
      BY <1>a, <2>1, <2>2
  <1>1. DecidedJustified'
    <2> SUFFICES ASSUME NEW h \in 1..last + 1
                 PROVE  Justified(decided[h], h)'
      BY <1>a, Zenon DEF DecidedJustified
    <2>1. Outcomes(h - 1)' = Outcomes(h - 1)
      <3>1. h - 1 \in 0..last
        BY <1>a
      <3> QED
        BY <1>c, <3>1, Zenon
    <2>2. CASE h \in 1..last
      <3>1. decided'[h] = decided[h] /\ Justified(decided[h], h)
        BY <1>a, <2>2, Zenon DEF DecidedJustified
      <3> QED
        BY <2>1, <3>1, Zenon DEF Justified, ValidatePayload
    <2>3. CASE h = last + 1
      <3>1. Justified(proposal, h)
        BY <1>a, <2>3, Zenon DEF AcceptedJustified, Decide
      <3> QED
        BY <1>b, <2>1, <2>3, <3>1, Zenon DEF Justified, ValidatePayload
    <2> QED
      BY <1>a, <2>2, <2>3
  <1>2. AcceptedJustified'
    BY <1>a, Zenon DEF AcceptedJustified
  <1>3. CommitOutcome'
    BY <1>a, <1>c, <1>d, Zenon DEF CommitOutcome
  <1>4. FinalizeJustified'
    <2> SUFFICES ASSUME NEW n \in Nodes
                 PROVE  /\ fin[n] # "idle" => Current(n)'.app = commit[n].state
                        /\ fin[n] = "failed" =>
                             Current(n)'.payload = Nil \/ ~Current(n)'.payload.ok
      BY <1>a, Zenon DEF FinalizeJustified
    <2>1. fin[n] # "idle" => commit[n].height + 1 \in 1..last
      BY <1>a, <1>d DEF TypeInv, InPlace, AtTip
    <2>2. fin[n] # "idle" => Current(n)' = Current(n)
      BY <1>a, <2>1, Zenon DEF Current
    <2> QED
      BY <2>2, Zenon DEF FinalizeJustified
  <1> QED
    BY <1>1, <1>2, <1>3, <1>4, Zenon

\* FinalizeBlock fails a decided payload only if it is invalid: neither the
\* checks before the call nor SYNCING fails it.
LEMMA OutcomeFinalize ==
  ASSUME TypeInv, OutcomeInv, NEW n \in Nodes,
         FinalizeStart(n) \/ SendPayload(n) \/ UpdateForkchoice(n)
  PROVE  OutcomeInv'
  <1> USE DEF OutcomeInv
  <1>a. UNCHANGED <<decided, proposal, commit>>
    BY Zenon DEF FinalizeStart, SendPayload, UpdateForkchoice
  <1>b. ~AtTip(n) /\ Current(n).app = commit[n].state
    BY Zenon
       DEF FinalizeStart, SendPayload, UpdateForkchoice, FinalizeJustified,
           TypeInv, InPlace
  <1>c. Justified(Current(n), commit[n].height + 1)
    BY <1>b, CurrentJustified, Zenon
  <1>1. \A h : Outcomes(h)' = Outcomes(h)
    BY <1>a DEF Outcomes
  <1>2. DecidedJustified' /\ AcceptedJustified' /\ CommitOutcome'
    BY <1>a, <1>1, Zenon
       DEF DecidedJustified, AcceptedJustified, Justified, CommitOutcome
  <1>3. \E phase : /\ fin' = [fin EXCEPT ![n] = phase]
                   /\ phase = "failed" => Current(n).payload = Nil \/ ~Current(n).payload.ok
    <2>1. CASE FinalizeStart(n)
      <3>1. Current(n).payload # Nil =>
              ValidatePayload(Current(n).payload, commit[n].state,
                              Current(n).time, commit[n].height + 1)
        BY <1>b, <1>c, Zenon DEF Justified
      <3> DEFINE sound == /\ Current(n).payload # Nil
                          /\ ValidatePayload(Current(n).payload, commit[n].state,
                                             Current(n).time, commit[n].height + 1)
      <3>2. fin' = [fin EXCEPT ![n] = IF sound THEN "send" ELSE "failed"]
        BY <2>1, Zenon DEF FinalizeStart
      <3>3. ~sound => Current(n).payload = Nil
        BY <3>1, Zenon
      <3> HIDE DEF sound
      <3> QED
        BY <3>2, <3>3, Zenon
    <2>2. CASE SendPayload(n)
      <3>1. PICK status \in NewPayloadStatuses(el[n], Current(n).payload) :
              fin' = [fin EXCEPT ![n] = IF Sent(status) THEN "fcu" ELSE "failed"]
        BY <2>2, Zenon DEF SendPayload
      <3>2. ~Sent(status) => ~Current(n).payload.ok
        BY Zenon DEF NewPayloadStatuses, Sent
      <3> QED
        BY <3>1, <3>2, Zenon
    <2>3. CASE UpdateForkchoice(n)
      <3>1. PICK status \in PayloadForkchoiceStatuses(el[n], Current(n).payload) :
              fin' = [fin EXCEPT ![n] = IF status = "INVALID" THEN "failed" ELSE "applied"]
        BY <2>3, Zenon DEF UpdateForkchoice
      <3>2. status = "INVALID" => ~Current(n).payload.ok
        BY Zenon DEF PayloadForkchoiceStatuses, ForkchoiceStatus
      <3> QED
        BY <3>1, <3>2, Zenon
    <2> QED
      BY <2>1, <2>2, <2>3, Zenon
  <1>4. FinalizeJustified'
    <2>1. PICK phase : /\ fin' = [fin EXCEPT ![n] = phase]
                       /\ phase = "failed" =>
                            Current(n).payload = Nil \/ ~Current(n).payload.ok
      BY <1>3, Zenon
    <2>2. \A m \in Nodes : Current(m)' = Current(m)
      BY <1>a, Zenon DEF Current
    <2>3. fin \in [Nodes -> FinalizePhases]
      BY Zenon DEF TypeInv, TypeOK
    <2>4. fin'[n] = phase /\ \A m \in Nodes : m # n => fin'[m] = fin[m]
      BY <2>1, <2>3
    <2> QED
      BY <1>a, <1>b, <2>1, <2>2, <2>4, ZenonT(60) DEF FinalizeJustified
  <1> QED
    BY <1>2, <1>4, Zenon

\* Commit stores an outcome of the block it finalized.
LEMMA OutcomeCommit ==
  ASSUME TypeInv, OutcomeInv, NEW n \in Nodes, Commit(n)
  PROVE  OutcomeInv'
  <1> USE DEF OutcomeInv
  <1>a. UNCHANGED <<decided, proposal>> /\ fin[n] \in {"applied", "failed"}
    BY Zenon DEF Commit
  <1>b. /\ commit'[n].height = commit[n].height + 1 /\ commit'[n].state = NextState(n)
        /\ fin'[n] = "idle"
        /\ \A m \in Nodes \ {n} : commit'[m] = commit[m] /\ fin'[m] = fin[m]
    BY DEF Commit, TypeInv, TypeOK
  <1>c. commit[n].height + 1 # 0
    BY DEF TypeInv, TypeOK
  <1>1. \A h : Outcomes(h)' = Outcomes(h)
    BY <1>a DEF Outcomes
  <1>2. DecidedJustified' /\ AcceptedJustified'
    BY <1>a, <1>1, Zenon DEF DecidedJustified, AcceptedJustified, Justified
  <1>3. NextState(n) \in Outcomes(commit[n].height + 1)
    <2>1. CASE fin[n] = "applied"
      <3>1. Current(n).payload # Nil /\ NextState(n) = StateOf(Current(n).payload)
        BY <2>1, Zenon DEF NextState, TypeInv, InPlace
      <3> QED
        BY <1>c, <3>1, Zenon DEF Outcomes, Current
    <2>2. CASE fin[n] = "failed"
      <3>1. fin[n] # "applied" /\ fin[n] # "idle"
        BY <2>2
      <3>2. /\ NextState(n) = Current(n).app
            /\ Current(n).payload = Nil \/ ~Current(n).payload.ok
        BY <2>2, <3>1, Zenon DEF NextState, FinalizeJustified
      <3> QED
        BY <1>c, <3>2, Zenon DEF Outcomes, Current
    <2> QED
      BY <1>a, <2>1, <2>2, Zenon
  <1>4. CommitOutcome'
    <2> SUFFICES ASSUME NEW m \in Nodes
                 PROVE  commit'[m].state \in Outcomes(commit'[m].height)
      BY <1>1, Zenon DEF CommitOutcome
    <2> QED
      BY <1>b, <1>3, Zenon DEF CommitOutcome
  <1>5. FinalizeJustified'
    BY <1>a, <1>b, Zenon DEF FinalizeJustified, Current
  <1> QED
    BY <1>2, <1>4, <1>5, Zenon

\* Every step keeps the committed states outcomes of the decided blocks.
LEMMA OutcomeStep ==
  ASSUME TypeInv, OutcomeInv, [Next]_vars
  PROVE  OutcomeInv'
  <1>1. CASE UNCHANGED vars \/ BoundReached \/ NextRound
    BY <1>1, OutcomeKept, Zenon DEF BoundReached, NextRound, vars
  <1>2. CASE ForeignProposal
    <2>1. PICK n \in Nodes, time \in LastTime..MaxTime, p \in ForeignPayloads :
            proposal' = [from |-> Nil, time |-> time, app |-> commit[n].state,
                         payload |-> p, accepts |-> {}, rejects |-> {}]
      BY <1>2, Zenon DEF ForeignProposal
    <2>2. proposal'.accepts = {}
      BY <2>1, Zenon
    <2> QED
      BY <1>2, <2>2, OutcomeKept, Zenon DEF ForeignProposal
  <1>3. CASE Decide
    BY <1>3, OutcomeDecide, Zenon
  <1>4. ASSUME NEW n \in Nodes, NEW payload, UNCHANGED <<decided, commit, fin>>,
               Propose(n, payload)
        PROVE  OutcomeInv'
    BY <1>4, OutcomeKept, Zenon DEF Propose
  <1>5. ASSUME NEW n \in Nodes, NodeStep(n)
        PROVE  OutcomeInv'
    <2>1. CASE PrepareStart(n)
      <3>1. proposal' = proposal \/ proposal'.accepts = {}
        BY <2>1, SMTT(30) DEF PrepareStart
      <3> QED
        BY <2>1, <3>1, OutcomeKept, Zenon DEF PrepareStart
    <2>2. CASE PrepareFail(n) \/ PrepareGetPayload(n)
      BY <2>2, <1>4, Zenon DEF PrepareFail, PrepareGetPayload
    <2>3. CASE PrepareForkchoice(n) \/ PrepareGetError(n)
      BY <2>3, <1>4, OutcomeKept, ZenonT(60) DEF PrepareForkchoice, PrepareGetError
    <2>4. CASE ProcessProposal(n)
      BY <2>4, OutcomeProcess, Zenon
    <2>5. CASE FinalizeStart(n) \/ SendPayload(n) \/ UpdateForkchoice(n)
      BY <2>5, OutcomeFinalize, Zenon
    <2>6. CASE Commit(n)
      BY <2>6, OutcomeCommit, Zenon
    <2>7. CASE Crash(n)
      <3>1. UNCHANGED <<decided, proposal, commit>> /\ fin' = [fin EXCEPT ![n] = "idle"]
        BY <2>7, Zenon DEF Crash
      <3>2. fin'[n] = "idle" /\ \A m \in Nodes : m # n => fin'[m] = fin[m]
        BY <3>1 DEF TypeInv, TypeOK
      <3>3. \A h : Outcomes(h)' = Outcomes(h)
        BY <3>1 DEF Outcomes
      <3>4. FinalizeJustified'
        BY <3>1, <3>2, Zenon DEF OutcomeInv, FinalizeJustified, Current
      <3> QED
        BY <3>1, <3>3, <3>4, Zenon
           DEF OutcomeInv, DecidedJustified, AcceptedJustified, Justified, CommitOutcome
    <2>8. CASE \/ ProbeStart(n) \/ ProbeForkchoice(n) \/ Retry(n) \/ LostAnswer(n)
               \/ Postpone(n) \/ ElLate(n) \/ ElSync(n) \/ ElRestart(n)
      BY <2>8, OutcomeKept, Zenon
         DEF ProbeStart, ProbeForkchoice, Retry, LostAnswer, Postpone, ElLate,
             ElSync, ElRestart, vars
    <2> QED
      BY <1>5, <2>1, <2>2, <2>3, <2>4, <2>5, <2>6, <2>7, <2>8, Zenon DEF NodeStep
  <1> QED
    BY <1>1, <1>2, <1>3, <1>5, Zenon DEF Next

\* Nodes start in the state of the genesis block.
LEMMA OutcomeInit == Init => OutcomeInv
  <1> SUFFICES ASSUME Init PROVE OutcomeInv
    OBVIOUS
  <1>1. DOMAIN decided = {} /\ proposal = Nil
    BY DEF Init
  <1>2. CommitOutcome
    BY DEF Init, CommitOutcome, Outcomes
  <1>3. FinalizeJustified
    BY DEF Init, FinalizeJustified
  <1> QED
    BY <1>1, <1>2, <1>3 DEF OutcomeInv, DecidedJustified, AcceptedJustified

\* Two outcomes of a block differ only by an invalid payload.
LEMMA OutcomesAgree ==
  ASSUME OutcomeInv
  PROVE  Agreement
  <1> SUFFICES ASSUME NEW m \in Nodes, NEW n \in Nodes, commit[m].height = commit[n].height,
                      commit[m].state # commit[n].state
               PROVE  LET block == decided[commit[n].height]
                      IN  /\ block.payload # Nil /\ ~block.payload.ok
                          /\ {commit[m].state, commit[n].state}
                               = {block.app, StateOf(block.payload)}
    BY Zenon DEF Agreement
  <1> DEFINE h == commit[n].height
             block == decided[h]
  <1>1. commit[m].state \in Outcomes(h) /\ commit[n].state \in Outcomes(h)
    BY Zenon DEF OutcomeInv, CommitOutcome
  <1>2. h # 0 /\ block.payload # Nil /\ ~block.payload.ok
    BY <1>1, Zenon DEF Outcomes
  <1>3. /\ commit[m].state \in {block.app, StateOf(block.payload)}
        /\ commit[n].state \in {block.app, StateOf(block.payload)}
    BY <1>1, <1>2, Zenon DEF Outcomes
  <1>4. {commit[m].state, commit[n].state} = {block.app, StateOf(block.payload)}
    BY <1>3, Zenon
  <1> QED
    BY <1>2, <1>4, Zenon

\* Nodes that have committed the same CometBFT height hold the same block state
\* unless the payload of that height is invalid: no other answer, crash or
\* restart of an execution client changes what ExecutionPayload stores, and a
\* node goes on past such a height only in the state the next block names.
THEOREM NodesAgree == Spec => []Agreement
  <1>1. TypeInv /\ OutcomeInv /\ [Next]_vars => (TypeInv /\ OutcomeInv)'
    BY TypeStep, OutcomeStep
  <1>2. Init => TypeInv /\ OutcomeInv
    BY TypeInit, OutcomeInit
  <1> QED
    BY <1>1, <1>2, OutcomesAgree, PTL DEF Spec

---------------------------------------------------------------------------
\* Payloads that the execution clients find valid leave no choice.

\* Every payload that is proposed is one an execution client finds valid.
ValidPayloads == ForeignVerdicts \subseteq {TRUE}

\* The block state after CometBFT height h: the first block has no payload.
StateAfter(h) == IF h <= 1 THEN StateOf(Genesis) ELSE StateOf(decided[h].payload)

Acceptable(b, h) ==
  /\ b.app = StateAfter(h - 1)
  /\ IF h = 1 THEN b.payload = Nil
     ELSE /\ b.payload # Nil
          /\ ValidatePayload(b.payload, b.app, b.time, h)
          /\ b.payload.number = h - 1

BlocksValid == \A b \in Blocks : b.ok

BlocksDistinct == \A b, c \in Blocks : b.hash = c.hash => b = c

DecidedAcceptable == \A h \in DOMAIN decided : Acceptable(decided[h], h)

AcceptedAcceptable ==
  proposal # Nil /\ proposal.accepts # {} => Acceptable(proposal, Len(decided) + 1)

CommitFollows ==
  \A n \in Nodes :
    commit[n].height <= Len(decided) /\ commit[n].state = StateAfter(commit[n].height)

FinalizeInPlace ==
  \A n \in Nodes :
    /\ fin[n] # "idle" => ~AtTip(n)
    /\ fin[n] \in {"send", "fcu", "applied"} => commit[n].height # 0
    /\ fin[n] = "failed" => commit[n].height = 0

CommitInv ==
  /\ BlocksValid /\ DecidedAcceptable /\ AcceptedAcceptable
  /\ CommitFollows /\ FinalizeInPlace

\* What is to be shown of every step: a valid payload for each height but the
\* first, with the number that goes with it.
Numbered ==
  \A h \in DOMAIN decided : h > 1 => decided[h].payload.number = h - 1

\* The state after a decided height is a block state, of the expected height.
LEMMA StateAfterHeight ==
  ASSUME TypeInv, DecidedAcceptable, NEW h \in 0..Len(decided)
  PROVE  /\ StateAfter(h) \in BlockState
         /\ StateAfter(h).height = IF h <= 1 THEN 0 ELSE h - 1
  <1>1. CASE h <= 1
    BY <1>1, GenesisType DEF StateAfter, StateOf, Genesis
  <1>2. CASE ~(h <= 1)
    <2>1. decided \in Seq(CometBlock) /\ h \in 1..Len(decided)
      BY <1>2 DEF TypeInv, TypeOK
    <2>2. decided[h] \in CometBlock /\ h \in DOMAIN decided
      BY <2>1
    <2>3. Acceptable(decided[h], h)
      BY <2>2 DEF DecidedAcceptable
    <2>4. decided[h].payload \in Block /\ decided[h].payload.number = h - 1
      BY <1>2, <2>2, <2>3 DEF Acceptable, CometBlock
    <2> QED
      BY <1>2, <2>4, StateOfType DEF StateAfter, StateOf
  <1> QED
    BY <1>1, <1>2, ZenonT(60)

\* The payload of the block being finalized is valid, and the block acceptable.
LEMMA CurrentAcceptable ==
  ASSUME TypeInv, CommitInv, NEW n \in Nodes, ~AtTip(n)
  PROVE  /\ Acceptable(Current(n), commit[n].height + 1)
         /\ commit[n].state = StateAfter(commit[n].height)
         /\ Current(n).payload # Nil => Current(n).payload \in Decided /\ Current(n).payload.ok
  BY CurrentType, ZenonT(60)
     DEF CommitInv, DecidedAcceptable, Current, Decided, BlocksValid, Blocks,
         CommitFollows

\* Valid payloads leave one outcome of every height.
LEMMA OneOutcome ==
  ASSUME TypeInv, BlocksValid, NEW h \in 0..Len(decided),
         h = 1 => decided[h].payload = Nil /\ decided[h].app = StateOf(Genesis),
         h > 1 => decided[h].payload # Nil
  PROVE  Outcomes(h) = {StateAfter(h)}
  <1>1. h \in 0..Len(decided) /\ Len(decided) \in Nat /\ DOMAIN decided = 1..Len(decided)
    BY LenFacts DEF TypeInv, TypeOK
  <1>2. CASE h = 0
    BY <1>2 DEF Outcomes, StateAfter
  <1>3. CASE h = 1
    BY <1>3 DEF Outcomes, StateAfter
  <1>4. CASE h > 1
    <2>1. h # 0 /\ ~(h <= 1) /\ h \in DOMAIN decided /\ decided[h].payload # Nil
      BY <1>1, <1>4
    <2>2. decided[h].payload.ok
      BY <2>1, Zenon DEF BlocksValid, Blocks, Decided
    <2> QED
      BY <2>1, <2>2, Zenon DEF Outcomes, StateAfter
  <1> QED
    BY <1>1, <1>2, <1>3, <1>4

\* The states of CommitInv are outcomes.
LEMMA CommitOutcomes ==
  ASSUME TypeInv, CommitInv
  PROVE  OutcomeInv
  <1>a. Len(decided) \in Nat /\ DOMAIN decided = 1..Len(decided)
    BY LenFacts DEF TypeInv, TypeOK
  <1>b. \A n \in Nodes : commit[n].height \in 0..Len(decided)
    BY <1>a DEF TypeInv, TypeOK, InPlace
  <1>1. ASSUME NEW h \in 0..Len(decided)
        PROVE  Outcomes(h) = {StateAfter(h)}
    <2>1. h # 0 => Acceptable(decided[h], h)
      BY <1>a, <1>1 DEF CommitInv, DecidedAcceptable
    <2>2. h = 1 => decided[h].payload = Nil /\ decided[h].app = StateOf(Genesis)
      BY <2>1 DEF Acceptable, StateAfter
    <2>3. h > 1 => decided[h].payload # Nil
      BY <1>a, <1>1, <2>1 DEF Acceptable
    <2> QED
      BY <1>1, <2>2, <2>3, OneOutcome, Zenon DEF CommitInv
  <1>2. ASSUME NEW b, NEW h \in 1..Len(decided) + 1, Acceptable(b, h)
        PROVE  Justified(b, h)
    <2>1. h - 1 \in 0..Len(decided)
      BY <1>a, <1>2
    <2>2. Outcomes(h - 1) = {StateAfter(h - 1)}
      BY <1>1, <2>1, Zenon
    <2> QED
      BY <1>2, <2>2, Zenon DEF Acceptable, Justified
  <1>3. DecidedJustified
    <2> SUFFICES ASSUME NEW h \in DOMAIN decided PROVE Justified(decided[h], h)
      BY Zenon DEF DecidedJustified
    <2>1. h \in 1..Len(decided) + 1
      BY <1>a
    <2>2. Acceptable(decided[h], h)
      BY Zenon DEF CommitInv, DecidedAcceptable
    <2> QED
      BY <1>2, <2>1, <2>2, Zenon
  <1>4. AcceptedJustified
    <2>1. Len(decided) + 1 \in 1..Len(decided) + 1
      BY <1>a
    <2> QED
      BY <1>2, <2>1, Zenon DEF CommitInv, AcceptedAcceptable, AcceptedJustified
  <1>5. CommitOutcome
    <2> SUFFICES ASSUME NEW n \in Nodes PROVE commit[n].state \in Outcomes(commit[n].height)
      BY Zenon DEF CommitOutcome
    <2>1. Outcomes(commit[n].height) = {StateAfter(commit[n].height)}
      BY <1>1, <1>b, Zenon
    <2> QED
      BY <2>1, Zenon DEF CommitInv, CommitFollows
  <1>6. FinalizeJustified
    <2> SUFFICES ASSUME NEW n \in Nodes, fin[n] # "idle"
                 PROVE  /\ Current(n).app = commit[n].state
                        /\ fin[n] = "failed" => Current(n).payload = Nil
      BY Zenon DEF FinalizeJustified
    <2>1. ~AtTip(n)
      BY Zenon DEF TypeInv, InPlace
    <2>2. /\ Acceptable(Current(n), commit[n].height + 1)
          /\ commit[n].state = StateAfter(commit[n].height)
      BY <2>1, CurrentAcceptable, Zenon
    <2>3. (commit[n].height + 1) - 1 = commit[n].height
      BY <1>b
    <2>4. fin[n] = "failed" => commit[n].height + 1 = 1
      <3>1. fin[n] = "failed" => commit[n].height = 0
        BY Zenon DEF CommitInv, FinalizeInPlace
      <3> QED
        BY <3>1
    <2> QED
      BY <2>2, <2>3, <2>4, Zenon DEF Acceptable
  <1> QED
    BY <1>3, <1>4, <1>5, <1>6, Zenon DEF OutcomeInv

\* With valid payloads and their numbers, outcomes are the states of CommitInv.
LEMMA OutcomesCommit ==
  TypeInv /\ OutcomeInv /\ BlocksValid /\ Numbered => CommitInv
  <1> SUFFICES ASSUME TypeInv, OutcomeInv, BlocksValid, Numbered
               PROVE  CommitInv
    OBVIOUS
  <1>a. Len(decided) \in Nat /\ DOMAIN decided = 1..Len(decided)
    BY LenFacts DEF TypeInv, TypeOK
  <1>b. \A n \in Nodes : commit[n].height \in 0..Len(decided)
    BY <1>a DEF TypeInv, TypeOK, InPlace
  <1>1. ASSUME NEW h \in 0..Len(decided)
        PROVE  Outcomes(h) = {StateAfter(h)}
    <2>1. h # 0 => Justified(decided[h], h)
      BY <1>a, <1>1 DEF OutcomeInv, DecidedJustified
    <2>2. h = 1 => decided[h].payload = Nil /\ decided[h].app = StateOf(Genesis)
      BY <2>1 DEF Justified, Outcomes
    <2>3. h > 1 => decided[h].payload # Nil
      BY <1>a, <1>1, <2>1 DEF Justified
    <2> QED
      BY <1>1, <2>2, <2>3, OneOutcome, Zenon
  <1>2. ASSUME NEW b, NEW h \in 1..Len(decided) + 1, Justified(b, h)
        PROVE  b.app = StateAfter(h - 1)
    <2>1. h - 1 \in 0..Len(decided)
      BY <1>a, <1>2
    <2>2. Outcomes(h - 1) = {StateAfter(h - 1)}
      BY <1>1, <2>1, Zenon
    <2> QED
      BY <1>2, <2>2, Zenon DEF Justified
  <1>3. DecidedAcceptable
    <2> SUFFICES ASSUME NEW h \in DOMAIN decided PROVE Acceptable(decided[h], h)
      BY Zenon DEF DecidedAcceptable
    <2>1. h \in 1..Len(decided) + 1 /\ (h # 1 => h > 1)
      BY <1>a
    <2>2. Justified(decided[h], h) /\ (h > 1 => decided[h].payload.number = h - 1)
      BY Zenon DEF OutcomeInv, DecidedJustified, Numbered
    <2>3. decided[h].app = StateAfter(h - 1)
      BY <1>2, <2>1, <2>2, Zenon
    <2> QED
      BY <2>1, <2>2, <2>3, Zenon DEF Justified, Acceptable
  <1>4. AcceptedAcceptable
    <2> SUFFICES ASSUME proposal # Nil, proposal.accepts # {}
                 PROVE  Acceptable(proposal, Len(decided) + 1)
      BY Zenon DEF AcceptedAcceptable
    <2> DEFINE h == Len(decided) + 1
    <2>1. h \in 1..Len(decided) + 1 /\ h - 1 = Len(decided) /\ Len(decided) \in 0..Len(decided)
      BY <1>a
    <2>2. Justified(proposal, h)
      BY Zenon DEF OutcomeInv, AcceptedJustified
    <2>3. proposal.app = StateAfter(h - 1)
      BY <1>2, <2>1, <2>2, Zenon
    <2>4. ASSUME h # 1 PROVE proposal.payload.number = h - 1
      <3>1. proposal.payload.number = proposal.app.height + 1
        BY <2>2, <2>4, Zenon DEF Justified, ValidatePayload
      <3>2. StateAfter(Len(decided)).height = IF Len(decided) <= 1 THEN 0 ELSE Len(decided) - 1
        BY <1>3, <2>1, StateAfterHeight, Zenon
      <3> QED
        BY <1>a, <2>1, <2>3, <2>4, <3>1, <3>2
    <2> HIDE DEF h
    <2>5. Acceptable(proposal, h)
      BY <2>2, <2>3, <2>4, Zenon DEF Justified, Acceptable
    <2> QED
      BY <2>5 DEF h
  <1>5. CommitFollows
    <2> SUFFICES ASSUME NEW n \in Nodes
                 PROVE  commit[n].height <= Len(decided)
                        /\ commit[n].state = StateAfter(commit[n].height)
      BY Zenon DEF CommitFollows
    <2>1. Outcomes(commit[n].height) = {StateAfter(commit[n].height)}
      BY <1>1, <1>b, Zenon
    <2>2. commit[n].height <= Len(decided)
      BY <1>a, <1>b
    <2> QED
      BY <2>1, <2>2, Zenon DEF OutcomeInv, CommitOutcome
  <1>6. FinalizeInPlace
    <2> SUFFICES ASSUME NEW n \in Nodes, fin[n] # "idle"
                 PROVE  /\ ~AtTip(n)
                        /\ fin[n] \in {"send", "fcu", "applied"} => commit[n].height # 0
                        /\ fin[n] = "failed" => commit[n].height = 0
      BY Zenon DEF FinalizeInPlace
    <2>1. ~AtTip(n) /\ (fin[n] \in {"send", "fcu", "applied"} => Current(n).payload # Nil)
      BY Zenon DEF TypeInv, InPlace
    <2>2. Justified(Current(n), commit[n].height + 1)
      BY <2>1, CurrentJustified, Zenon
    <2>3. Current(n).payload = Nil <=> commit[n].height = 0
      <3>1. commit[n].height + 1 = 1 <=> commit[n].height = 0
        BY <1>b
      <3> QED
        BY <2>2, <3>1, Zenon DEF Justified
    <2>4. fin[n] = "failed" => Current(n).payload = Nil
      <3>1. Current(n).payload # Nil => Current(n).payload \in Decided
        BY <2>1, CurrentType, Zenon DEF Current, Decided
      <3>2. Current(n).payload \in Decided => Current(n).payload.ok
        BY Zenon DEF BlocksValid, Blocks
      <3> QED
        BY <3>1, <3>2, Zenon DEF OutcomeInv, FinalizeJustified
    <2> QED
      BY <2>1, <2>3, <2>4, Zenon
  <1> QED
    BY <1>3, <1>4, <1>5, <1>6, Zenon DEF CommitInv

\* A proposal with a valid payload keeps the payloads valid.
LEMMA ValidKept ==
  ASSUME BlocksValid, UNCHANGED decided,
         \/ proposal' = proposal \/ proposal' = Nil
         \/ proposal'.payload = Nil \/ proposal'.payload.ok
  PROVE  BlocksValid'
BY ZenonT(60) DEF BlocksValid, Blocks, Decided

\* Payloads stay valid if the foreign ones are.
LEMMA ValidStep ==
  ASSUME ValidPayloads, TypeInv, BlocksValid, [Next]_vars
  PROVE  BlocksValid'
  <1>1. CASE UNCHANGED decided /\ (proposal' = proposal \/ proposal' = Nil)
    BY <1>1, ValidKept, Zenon
  <1>2. ASSUME NEW n \in Nodes, UNCHANGED decided, Propose(n, Nil)
        PROVE  BlocksValid'
    <2>1. proposal' = proposal \/ proposal'.payload = Nil
      BY <1>2, Zenon DEF Propose
    <2> QED
      BY <1>2, <2>1, ValidKept, Zenon
  <1>3. CASE ForeignProposal
    <2>1. PICK n \in Nodes, time \in LastTime..MaxTime, p \in ForeignPayloads :
            proposal' = [from |-> Nil, time |-> time, app |-> commit[n].state,
                         payload |-> p, accepts |-> {}, rejects |-> {}]
      BY <1>3, Zenon DEF ForeignProposal
    <2>2. PICK parent \in Blocks, ok \in ForeignVerdicts : p.ok = (ok /\ parent.ok)
      BY ForeignType, Zenon DEF TypeInv
    <2>3. p.ok
      BY <2>2, Zenon DEF ValidPayloads, BlocksValid
    <2>4. proposal'.payload.ok
      BY <2>1, <2>3, Zenon
    <2> QED
      BY <1>3, <2>4, ValidKept, Zenon DEF ForeignProposal
  <1>4. CASE Decide
    <2>1. Blocks' \subseteq Blocks
      BY <1>4, DecideFacts DEF Blocks, Decided, Decide
    <2> QED
      BY <2>1, Zenon DEF BlocksValid
  <1>5. ASSUME NEW n \in Nodes, ProcessProposal(n)
        PROVE  BlocksValid'
    <2>1. proposal # Nil /\ proposal \in Proposal /\ UNCHANGED decided
      BY <1>5, Zenon DEF ProcessProposal, TypeInv, TypeOK
    <2>2. proposal'.payload = proposal.payload
      BY <1>5, <2>1 DEF ProcessProposal, Proposal
    <2>3. proposal.payload = Nil \/ proposal.payload.ok
      BY <2>1, Zenon DEF BlocksValid, Blocks
    <2> QED
      BY <2>1, <2>2, <2>3, ValidKept, Zenon
  <1>6. ASSUME NEW n \in Nodes, PrepareStart(n)
        PROVE  BlocksValid'
    <2>1. proposal' = proposal \/ proposal'.payload = Nil
      BY <1>6, SMTT(30) DEF PrepareStart
    <2> QED
      BY <1>6, <2>1, ValidKept, Zenon DEF PrepareStart
  <1>7. ASSUME NEW n \in Nodes, PrepareGetPayload(n)
        PROVE  BlocksValid'
    <2>1. PICK p : p.ok /\ Propose(n, p)
      BY <1>7, Zenon DEF PrepareGetPayload
    <2>2. proposal' = proposal \/ proposal'.payload.ok
      BY <2>1, Zenon DEF Propose
    <2> QED
      BY <1>7, <2>2, ValidKept, Zenon DEF PrepareGetPayload
  <1> QED
    BY <1>1, <1>2, <1>3, <1>4, <1>5, <1>6, <1>7, ProposalMoves, Zenon

\* Every step keeps the committed states those of the decided blocks.
LEMMA CommitStep ==
  ASSUME ValidPayloads
  PROVE  TypeInv /\ CommitInv /\ [Next]_vars => CommitInv'
  <1>1. TypeInv /\ CommitInv /\ [Next]_vars => TypeInv' /\ OutcomeInv' /\ BlocksValid'
    BY TypeStep, CommitOutcomes, OutcomeStep, ValidStep, Zenon DEF CommitInv
  <1>2. ASSUME TypeInv, CommitInv, [Next]_vars
        PROVE  Numbered'
    <2>1. CASE UNCHANGED decided
      <3>1. \A h \in DOMAIN decided : h > 1 => h # 1
        BY LenFacts, SMTT(30) DEF TypeInv, TypeOK
      <3>2. Numbered
        BY <1>2, <3>1, Zenon DEF CommitInv, DecidedAcceptable, Acceptable, Numbered
      <3> QED
        BY <2>1, <3>2, Zenon DEF Numbered
    <2>2. CASE Decide
      <3> SUFFICES ASSUME NEW h \in DOMAIN decided', h > 1
                   PROVE  decided'[h].payload.number = h - 1
        BY Zenon DEF Numbered
      <3>1. h # 1
        BY <1>2, <2>2, DecideFacts
      <3>2. CASE h \in 1..Len(decided)
        <4>1. decided'[h] = decided[h] /\ Acceptable(decided[h], h)
          BY <1>2, <2>2, <3>2, DecideFacts, Zenon DEF CommitInv, DecidedAcceptable
        <4> QED
          BY <3>1, <4>1, Zenon DEF Acceptable
      <3>3. CASE h = Len(decided) + 1
        <4>1. Acceptable(proposal, h)
          BY <1>2, <2>2, <3>3, DecideFacts, Zenon DEF CommitInv, AcceptedAcceptable, Decide
        <4>2. decided'[h].payload = proposal.payload
          BY <1>2, <2>2, <3>3, DecideFacts
        <4> QED
          BY <3>1, <4>1, <4>2, Zenon DEF Acceptable
      <3> QED
        BY <1>2, <2>2, <3>2, <3>3, DecideFacts
    <2> QED
      BY <1>2, <2>1, <2>2, Moves, Zenon DEF Commit
  <1>3. (TypeInv /\ OutcomeInv /\ BlocksValid /\ Numbered => CommitInv)'
    BY OutcomesCommit, PTL
  <1> QED
    BY <1>1, <1>2, <1>3, Zenon

\* The committed states are those of the decided blocks from the start.
LEMMA CommitInit == Init => CommitInv
  <1> SUFFICES ASSUME Init PROVE CommitInv
    OBVIOUS
  <1>1. decided = <<>> /\ DOMAIN decided = {} /\ proposal = Nil
    BY DEF Init
  <1>2. BlocksValid /\ Numbered
    BY <1>1 DEF BlocksValid, Blocks, Decided, Genesis, Numbered
  <1> QED
    BY <1>2, TypeInit, OutcomeInit, OutcomesCommit, Zenon
=============================================================================
