------------------------- MODULE EvmNodeRefinement --------------------------
(***************************************************************************)
(* EvmNode implements ExecutionChain: the valid payloads lie on one path,  *)
(* and every node walks from a block to a child of it.  With valid         *)
(* payloads, the heads of the execution clients do not fall behind.        *)
(***************************************************************************)
EXTENDS EvmNodeClients

---------------------------------------------------------------------------
\* Heads are not left behind.

\* Genesis and the decided payloads.
Canonical == {Genesis} \cup Decided

\* A client that knows a block knows every canonical block below it, its head
\* included; what it is still to fetch is above its head.
ClientHead(e, C) ==
  /\ e.head \in e.known
  /\ \A b \in e.known, c \in C : c.number <= b.number => c \in e.known
  /\ \A b \in C : b.hash = e.target => b.number > e.head.number

NotBehind(e, b) == b \in e.known => b.number <= e.head.number

\* The committed block, and the one whose forkchoice update is behind.
Updated(n) ==
  {b \in Canonical : \/ b.hash = commit[n].state.hash
                     \/ fin[n] = "applied" /\ b = Current(n).payload}

HeadOf(n) ==
  ClientHead(el[n], Canonical) /\ \A b \in Updated(n) : NotBehind(el[n], b)

HeadInv == \A n \in Nodes : HeadOf(n)

\* A forkchoice update that skips ancestors never lowers the head, and leaves
\* it at the block of the update if the client has that block.
LEMMA HeadForkchoice ==
  ASSUME AncestorFcu = "skip",
         NEW e \in ExecutionClient, NEW C \in SUBSET Block, e.known \subseteq C,
         \A b, c \in C : b.hash = c.hash => b = c,
         ClientHead(e, C), NEW hash \in {b.hash : b \in C}
  PROVE  /\ ClientHead(Forkchoice(e, hash), C)
         /\ \A b \in C : NotBehind(e, b) \/ b.hash = hash => NotBehind(Forkchoice(e, hash), b)
  <1> DEFINE f == Forkchoice(e, hash)
             b0 == BlockOf(e, hash)
  <1>1. /\ e.head \in Block /\ e.head.number \in Nat
        /\ \A b \in C : b.number \in Nat /\ b.hash # NoHash
    BY EngineApiAssumption DEF ExecutionClient, Block
  <1>2. CASE ~Knows(e, hash)
    <2>1. f.head = e.head /\ f.known = e.known /\ f.target = hash
      BY <1>2 DEF Forkchoice, ExecutionClient
    <2>2. ASSUME NEW b \in C, b.hash = hash PROVE b \notin e.known
      BY <1>2, <2>2 DEF Knows
    <2>3. ASSUME NEW b \in C, b.hash = hash PROVE b.number > e.head.number
      BY <1>1, <2>2, <2>3 DEF ClientHead
    <2> HIDE DEF f
    <2>4. ClientHead(f, C)
      BY <2>1, <2>3, Zenon DEF ClientHead
    <2>5. ASSUME NEW b \in C, NotBehind(e, b) \/ b.hash = hash PROVE NotBehind(f, b)
      BY <2>1, <2>2, <2>5, Zenon DEF NotBehind
    <2> QED
      BY <2>4, <2>5, Zenon DEF f
  <1>3. CASE Knows(e, hash)
    <2>1. b0 \in e.known /\ b0.hash = hash
      BY <1>3, BlockOfKnown
    <2>2. \A b \in C : b.hash = hash => b = b0
      BY <2>1
    <2>3. CASE b0.number < e.head.number
      <3>1. f = e
        BY <1>3, <2>3 DEF Forkchoice
      <3>2. b0.number \in Nat /\ b0.number <= e.head.number
        BY <1>1, <2>1, <2>3
      <3> HIDE DEF f, b0
      <3>3. ASSUME NEW b \in C, NotBehind(e, b) \/ b.hash = hash PROVE NotBehind(f, b)
        BY <2>2, <3>1, <3>2, <3>3, Zenon DEF NotBehind
      <3> QED
        BY <3>1, <3>3, Zenon DEF f
    <2>4. CASE ~(b0.number < e.head.number)
      <3>1. f.head = b0 /\ f.known = e.known /\ f.target = NoHash
        BY <1>3, <2>4 DEF Forkchoice, ExecutionClient
      <3> HIDE DEF f, b0
      <3>2. ClientHead(f, C)
        BY <1>1, <2>1, <3>1, Zenon DEF ClientHead
      <3>3. ASSUME NEW b \in C, NotBehind(e, b) \/ b.hash = hash, b \in f.known
            PROVE  b.number <= b0.number
        <4>1. b.number \in Nat /\ b0.number \in Nat /\ e.head.number \in Nat
          BY <1>1, <2>1
        <4>2. b.number <= e.head.number \/ b = b0
          BY <2>2, <3>1, <3>3, Zenon DEF NotBehind
        <4> QED
          BY <2>4, <4>1, <4>2
      <3> QED
        BY <3>1, <3>2, <3>3, Zenon DEF f, NotBehind
    <2> QED
      BY <2>3, <2>4
  <1> QED
    BY <1>2, <1>3

\* A payload on top of a canonical block becomes known above it.
LEMMA HeadNewPayload ==
  ASSUME NEW e \in ExecutionClient, NEW C \in SUBSET Block, e.known \subseteq C,
         ClientHead(e, C), NEW p \in C,
         \A c \in C : c.number = p.number => c = p,
         \A c \in C : c.hash = p.parent => c.number + 1 = p.number
  PROVE  /\ ClientHead(NewPayload(e, p), C)
         /\ \A b \in C \ {p} : NotBehind(e, b) => NotBehind(NewPayload(e, p), b)
  <1> DEFINE f == NewPayload(e, p)
  <1>1. CASE ~(Knows(e, p.parent) /\ p.ok)
    <2>1. f = e
      BY <1>1 DEF NewPayload
    <2> QED
      BY <2>1
  <1>2. CASE Knows(e, p.parent) /\ p.ok
    <2>1. f.known = e.known \cup {p} /\ f.head = e.head /\ f.target = e.target
      BY <1>2 DEF NewPayload, ExecutionClient
    <2>2. PICK q \in e.known : q.hash = p.parent
      BY <1>2 DEF Knows
    <2>3. q.number + 1 = p.number /\ \A c \in C : c.number \in Nat
      BY <2>2 DEF Block
    <2>4. ASSUME NEW c \in C, c.number <= p.number PROVE c \in f.known
      <3>1. c.number = p.number \/ c.number <= q.number
        BY <2>2, <2>3, <2>4
      <3> QED
        BY <2>1, <2>2, <3>1 DEF ClientHead
    <2> HIDE DEF f
    <2>5. ClientHead(f, C)
      BY <2>1, <2>4, Zenon DEF ClientHead
    <2>6. \A b \in C \ {p} : NotBehind(e, b) => NotBehind(f, b)
      BY <2>1, Zenon DEF NotBehind
    <2> QED
      BY <2>5, <2>6, Zenon DEF f
  <1> QED
    BY <1>1, <1>2

\* A client that synchronises has every canonical block up to its new head,
\* which is above the old one.
LEMMA HeadSync ==
  ASSUME NEW e \in ExecutionClient, NEW C \in SUBSET Block, e.known \subseteq C,
         ClientHead(e, C), NEW b \in C, b.hash = e.target,
         NEW D \in SUBSET C, b \in D,
         \A c \in D : c.number <= b.number,
         \A c \in C : c.number <= b.number => c \in e.known \cup D,
         NEW f, f.known = e.known \cup D, f.head = b, f.target = NoHash
  PROVE  /\ ClientHead(f, C)
         /\ \A c \in C : NotBehind(e, c) => NotBehind(f, c)
  <1>1. \A c \in C : c.number \in Nat /\ c.hash # NoHash
    BY EngineApiAssumption DEF Block
  <1>2. e.head \in C /\ b.number > e.head.number
    BY DEF ClientHead
  <1>3. ASSUME NEW x \in f.known, NEW c \in C, c.number <= x.number PROVE c \in f.known
    <2>1. CASE x \in e.known
      BY <1>3, <2>1 DEF ClientHead
    <2>2. CASE x \in D
      <3>1. x.number <= b.number
        BY <2>2
      <3>2. c.number <= b.number
        BY <1>1, <1>3, <2>2, <3>1
      <3> QED
        BY <3>2, Zenon
    <2> QED
      BY <1>3, <2>1, <2>2
  <1>4. ClientHead(f, C)
    BY <1>1, <1>3, Zenon DEF ClientHead
  <1>5. ASSUME NEW c \in C, NotBehind(e, c), c \in f.known PROVE c.number <= b.number
    <2>1. c \in D \/ c.number <= e.head.number
      BY <1>5, Zenon DEF NotBehind
    <2>2. c.number \in Nat /\ e.head.number \in Nat /\ b.number \in Nat
      BY <1>1, <1>2
    <2> QED
      BY <1>2, <2>1, <2>2
  <1> QED
    BY <1>4, <1>5, Zenon DEF NotBehind

\* A restart keeps no block above the new head.
LEMMA HeadRestart ==
  ASSUME NEW e \in ExecutionClient, NEW C \in SUBSET Block, e.known \subseteq C,
         ClientHead(e, C), NEW head \in e.known
  PROVE  /\ ClientHead(Restarted(e, head), C)
         /\ \A b \in C : NotBehind(Restarted(e, head), b)
  <1> DEFINE f == Restarted(e, head)
  <1>1. \A c \in C : c.number \in Nat /\ c.hash # NoHash
    BY EngineApiAssumption DEF Block
  <1>2. /\ f.known = {b \in e.known : b.number <= head.number}
        /\ f.head = head /\ f.target = NoHash
    BY DEF Restarted, ExecutionClient
  <1> HIDE DEF f
  <1>3. ASSUME NEW x \in f.known, NEW c \in C, c.number <= x.number PROVE c \in f.known
    <2>1. c \in e.known
      BY <1>2, <1>3 DEF ClientHead
    <2>2. c.number <= head.number
      BY <1>1, <1>2, <1>3, <2>1
    <2> QED
      BY <1>2, <2>1, <2>2
  <1>4. head \in f.known
    BY <1>1, <1>2
  <1>5. ClientHead(f, C)
    BY <1>1, <1>2, <1>3, <1>4, Zenon DEF ClientHead
  <1>6. \A b \in C : NotBehind(f, b)
    BY <1>2 DEF NotBehind
  <1> QED
    BY <1>5, <1>6, Zenon DEF f

\* Canonical blocks have hashes and numbers of their own, and are valid.
LEMMA CanonicalFacts ==
  ASSUME TypeInv, Inductive
  PROVE  /\ Canonical \in SUBSET Block
         /\ \A b, c \in Canonical : b.hash = c.hash => b = c
         /\ \A b, c \in Canonical : b.number = c.number => b = c
         /\ \A b \in Canonical : b.ok
         /\ \A n \in Nodes : el[n].known \subseteq Canonical
         /\ \A n \in Nodes : ReachedHash(n) \subseteq {b.hash : b \in Canonical}
  <1>1. Canonical \in SUBSET Block
    BY BlocksType, GenesisType DEF TypeInv, Canonical
  <1>2. /\ \A b, c \in Canonical : b.hash = c.hash => b = c
        /\ \A b \in Canonical : b.ok
    BY Zenon
       DEF Inductive, CommitInv, BlocksValid, BlocksDistinct, Blocks, Canonical
  <1>3. ASSUME NEW b \in Canonical, NEW c \in Canonical, b.number = c.number
        PROVE  b = c
    <2>1. CASE b = Genesis /\ c = Genesis
      BY <2>1
    <2>2. CASE b \in Decided /\ c \in Decided
      <3>1. PICK h \in 2..Len(decided) : b = decided[h].payload /\ b.number = h - 1
        BY <2>2, DecidedNumber, Zenon DEF Inductive
      <3>2. PICK i \in 2..Len(decided) : c = decided[i].payload /\ c.number = i - 1
        BY <2>2, DecidedNumber, Zenon DEF Inductive
      <3>3. h = i
        BY <1>3, <3>1, <3>2
      <3> QED
        BY <3>1, <3>2, <3>3
    <2>3. ASSUME NEW d \in Decided PROVE d.number # Genesis.number
      <3>1. PICK h \in 2..Len(decided) : d = decided[h].payload /\ d.number = h - 1
        BY DecidedNumber, Zenon DEF Inductive
      <3> QED
        BY <3>1 DEF Genesis
    <2> QED
      BY <1>3, <2>1, <2>2, <2>3, Zenon DEF Canonical
  <1>4. ASSUME NEW n \in Nodes
        PROVE  /\ el[n].known \subseteq Canonical
               /\ ReachedHash(n) \subseteq {b.hash : b \in Canonical}
    <2>1. Reached(n) \subseteq Canonical
      BY DEF Reached, Canonical
    <2>2. el[n].known \subseteq Reached(n)
      BY DEF Inductive, ClientInv, ClientAt
    <2> QED
      BY <2>1, <2>2 DEF ReachedHash
  <1> QED
    BY <1>1, <1>2, <1>3, <1>4, Zenon

\* A block that is decided is above every canonical block.
LEMMA DecideAbove ==
  ASSUME TypeInv, Inductive, TypeInv', Inductive', Decide,
         NEW b \in Canonical, NEW c \in Canonical', c \notin Canonical
  PROVE  c.number \in Nat /\ c.number > b.number
  <1> DEFINE block == [time |-> proposal.time, app |-> proposal.app,
                       payload |-> proposal.payload]
  <1>1. /\ decided \in Seq(CometBlock) /\ Len(decided) \in Nat
        /\ block \in CometBlock
    BY LenFacts DEF TypeInv, TypeOK, Decide, Proposal, CometBlock
  <1>2. /\ Len(decided') = Len(decided) + 1
        /\ \A h \in 1..Len(decided) : decided'[h] = decided[h]
        /\ DOMAIN decided = 1..Len(decided)
    BY <1>1, AppendFacts, LenFacts DEF Decide
  <1>3. c \in Decided' /\ c \notin Decided /\ c # Nil
    BY DEF Canonical, Decided
  <1>4. PICK h \in DOMAIN decided' : c = decided'[h].payload
    BY <1>3 DEF Decided
  <1>5. h \in 2..Len(decided') /\ c.number = h - 1
    <2>1. Acceptable(decided[h], h)'
      BY <1>4 DEF Inductive, CommitInv, DecidedAcceptable
    <2>2. h # 1 /\ c.number = h - 1
      BY <1>3, <1>4, <2>1 DEF Acceptable
    <2>3. DOMAIN decided' = 1..Len(decided')
      BY LenFacts DEF TypeInv, TypeOK
    <2> QED
      BY <1>1, <1>2, <1>4, <2>2, <2>3
  <1>6. h = Len(decided) + 1
    <2>1. h \in 1..Len(decided) => c \in Decided
      BY <1>2, <1>3, <1>4 DEF Decided
    <2> QED
      BY <1>1, <1>2, <1>3, <1>5, <2>1
  <1>7. CASE b = Genesis
    BY <1>1, <1>2, <1>5, <1>6, <1>7 DEF Genesis
  <1>8. CASE b \in Decided
    <2>1. PICK i \in 2..Len(decided) : b.number = i - 1
      BY <1>8, DecidedNumber, Zenon DEF Inductive
    <2> QED
      BY <1>1, <1>5, <1>6, <2>1
  <1> QED
    BY <1>7, <1>8 DEF Canonical

\* Deciding a block leaves the heads where they are.
LEMMA HeadDecide ==
  ASSUME TypeInv, Inductive, TypeInv', Inductive', HeadInv, Decide
  PROVE  HeadInv'
  <1> SUFFICES ASSUME NEW n \in Nodes PROVE HeadOf(n)'
    BY DEF HeadInv
  <1>1. UNCHANGED <<commit, fin, el>>
    BY DEF Decide
  <1>2. /\ el[n].known \subseteq Canonical /\ el[n].head \in el[n].known
        /\ ClientHead(el[n], Canonical)
        /\ \A b \in Updated(n) : NotBehind(el[n], b)
    BY CanonicalFacts, Zenon DEF HeadInv, HeadOf, ClientHead
  <1>3. ASSUME NEW c \in Canonical', c \notin Canonical, NEW b \in el[n].known
        PROVE  c.number > b.number /\ ~(c.number <= b.number)
    <2>1. c.number \in Nat /\ c.number > b.number
      BY <1>2, <1>3, DecideAbove
    <2>2. b.number \in Nat
      BY DEF TypeInv, TypeOK, ExecutionClient, Block
    <2> QED
      BY <2>1, <2>2
  <1>4. ClientHead(el[n], Canonical')
    BY <1>2, <1>3, Zenon DEF ClientHead
  <1>5. ASSUME NEW b \in Updated(n)' PROVE NotBehind(el[n], b)
    <2>1. CASE b \notin Canonical
      BY <1>2, <2>1, Zenon DEF NotBehind
    <2>2. CASE b \in Canonical
      <3>1. fin[n] = "applied" => Current(n)' = Current(n)
        <4>1. ASSUME fin[n] = "applied" PROVE commit[n].height + 1 \in 1..Len(decided)
          BY <4>1, CurrentType, LenFacts, Zenon DEF TypeInv, TypeOK, InPlace
        <4>2. /\ decided \in Seq(CometBlock)
              /\ [time |-> proposal.time, app |-> proposal.app,
                  payload |-> proposal.payload] \in CometBlock
          BY DEF TypeInv, TypeOK, Decide, Proposal, CometBlock
        <4>3. \A h \in 1..Len(decided) : decided'[h] = decided[h]
          BY <4>2, AppendFacts DEF Decide
        <4> QED
          BY <1>1, <4>1, <4>3 DEF Current
      <3>2. b \in Updated(n)
        BY <1>1, <2>2, <3>1, Zenon DEF Updated
      <3> QED
        BY <1>2, <3>2, Zenon
    <2> QED
      BY <2>1, <2>2
  <1> QED
    BY <1>1, <1>4, <1>5 DEF HeadOf, ClientHead, NotBehind

\* Commit records a block that the head of the client is not behind.
LEMMA HeadCommit ==
  ASSUME TypeInv, Inductive, HeadInv, NEW n \in Nodes, Commit(n)
  PROVE  HeadInv'
  <1> SUFFICES ASSUME NEW m \in Nodes PROVE HeadOf(m)'
    BY DEF HeadInv
  <1>1. /\ UNCHANGED <<decided, el>> /\ Canonical' = Canonical
        /\ commit' = [commit EXCEPT ![n] = [height |-> @.height + 1, state |-> NextState(n)]]
        /\ fin' = [fin EXCEPT ![n] = "idle"]
        /\ fin[n] \in {"applied", "failed"}
    BY DEF Commit, Canonical, Decided
  <1>2. /\ fin \in [Nodes -> FinalizePhases]
        /\ commit \in [Nodes -> [height : Nat, state : BlockState]]
    BY DEF TypeInv, TypeOK
  <1>3. ClientHead(el[m], Canonical) /\ \A b \in Updated(m) : NotBehind(el[m], b)
    BY DEF HeadInv, HeadOf
  <1>4. Updated(m)' \subseteq Updated(m)
    <2>1. CASE m # n
      BY <1>1, <1>2, <2>1 DEF Updated, Current
    <2>2. CASE m = n
      <3>1. fin'[n] = "idle" /\ commit'[n].state = NextState(n)
        BY <1>1, <1>2, SMTT(30)
      <3>2. CASE fin[n] = "failed"
        <4>1. commit'[n].state = commit[n].state
          BY <3>1, <3>2, SMTT(30) DEF NextState
        <4> QED
          BY <1>1, <2>2, <3>1, <4>1 DEF Updated
      <3>3. CASE fin[n] = "applied"
        <4>1. commit'[n].state.hash = Current(n).payload.hash
          BY <3>1, <3>3 DEF NextState, StateOf
        <4>2. Current(n).payload \in Canonical
          BY <3>3, CurrentReached DEF Inductive, Reached, Canonical
        <4>3. \A b \in Canonical : b.hash = Current(n).payload.hash => b = Current(n).payload
          BY <4>2, CanonicalFacts, Zenon
        <4> QED
          BY <1>1, <2>2, <3>1, <3>3, <4>1, <4>3, ZenonT(60) DEF Updated
      <3> QED
        BY <1>1, <3>2, <3>3
    <2> QED
      BY <2>1, <2>2, SMTT(30)
  <1> QED
    BY <1>1, <1>3, <1>4 DEF HeadOf, ClientHead, NotBehind

\* A step that moves the client of one node.
LEMMA HeadAt ==
  ASSUME TypeInv, HeadInv, UNCHANGED <<decided, commit>>, NEW n \in Nodes,
         \A m \in Nodes \ {n} : el'[m] = el[m] /\ fin'[m] = fin[m],
         ClientHead(el'[n], Canonical),
         \A b \in Updated(n) : NotBehind(el'[n], b),
         fin'[n] = "applied" /\ fin[n] # "applied" =>
           NotBehind(el'[n], Current(n).payload)
  PROVE  HeadInv'
  <1> SUFFICES ASSUME NEW m \in Nodes PROVE HeadOf(m)'
    BY DEF HeadInv
  <1>1. Canonical' = Canonical /\ Current(m)' = Current(m)
    BY DEF Canonical, Decided, Current
  <1>2. ClientHead(el[m], Canonical) /\ \A b \in Updated(m) : NotBehind(el[m], b)
    BY ZenonT(60) DEF HeadInv, HeadOf
  <1>3. CASE m # n
    <2>1. Updated(m)' = Updated(m) /\ el'[m] = el[m]
      BY <1>1, <1>3, ZenonT(60) DEF Updated
    <2> QED
      BY <1>1, <1>2, <2>1, SMTT(30) DEF HeadOf, ClientHead, NotBehind
  <1>4. CASE m = n
    <2>1. ASSUME NEW b \in Updated(n)' PROVE NotBehind(el'[n], b)
      <3>1. b \in Updated(n) \/ (/\ fin'[n] = "applied" /\ fin[n] # "applied"
                                 /\ b = Current(n).payload)
        BY <1>1, <1>4, <2>1, ZenonT(60) DEF Updated
      <3> QED
        BY <3>1, SMTT(30)
    <2> QED
      BY <1>1, <1>4, <2>1, SMTT(30) DEF HeadOf, ClientHead, NotBehind
  <1> QED
    BY <1>3, <1>4

\* The payload being sent extends the committed block.
LEMMA CurrentExtends ==
  ASSUME TypeInv, Inductive, NEW n \in Nodes, fin[n] = "send"
  PROVE  /\ Current(n).payload \in Canonical
         /\ \A c \in Canonical :
              c.hash = Current(n).payload.parent => c.number + 1 = Current(n).payload.number
         /\ \A b \in Updated(n) : b # Current(n).payload
  <1> DEFINE p == Current(n).payload
  <1>1. p \in Canonical
    BY CurrentReached, Zenon DEF Inductive, Reached, Canonical
  <1>2. /\ Acceptable(Current(n), commit[n].height + 1)
        /\ commit[n].state = StateAfter(commit[n].height)
        /\ commit[n].height \in Nat \ {0}
    BY CurrentAcceptable, ZenonT(60)
       DEF TypeInv, TypeOK, InPlace, Inductive, CommitInv, FinalizeInPlace
  <1>3. /\ p.parent = Current(n).app.hash /\ p.number = Current(n).app.height + 1
        /\ Current(n).app = StateAfter((commit[n].height + 1) - 1)
    BY <1>2 DEF Acceptable, ValidatePayload
  <1>4. Current(n).app = commit[n].state
    BY <1>2, <1>3
  <1>5. ASSUME NEW c \in Canonical, c.hash = commit[n].state.hash
        PROVE  c.number + 1 = p.number /\ c # p
    <2>1. commit[n].state = StateOf(c)
      BY <1>5, CommittedKnown, Zenon DEF Canonical
    <2>2. c.number = commit[n].state.height /\ c.number \in Nat
      BY <2>1, SMTT(30) DEF StateOf, TypeInv, TypeOK, BlockState
    <2>3. c.number + 1 = p.number
      BY <1>3, <1>4, <2>2
    <2> QED
      BY <2>2, <2>3
  <1> QED
    BY <1>1, <1>3, <1>4, <1>5 DEF Updated

\* A step of a node, or of its client, keeps the head of the client.
LEMMA HeadNode ==
  ASSUME AncestorFcu = "skip", TypeInv, Inductive, HeadInv, NEW n \in Nodes,
         NodeStep(n), ~Commit(n)
  PROVE  HeadInv'
  <1>a. /\ el \in [Nodes -> ExecutionClient] /\ el[n] \in ExecutionClient
        /\ fin \in [Nodes -> FinalizePhases]
        /\ Canonical \in SUBSET Block /\ el[n].known \subseteq Canonical
        /\ Updated(n) \subseteq Canonical
    BY CanonicalFacts DEF TypeInv, TypeOK, Updated
  <1>b. /\ late[n] \subseteq ReachedHash(n) /\ probe[n] \in ReachedHash(n) \cup {Nil}
        /\ commit[n].state.hash \in ReachedHash(n)
        /\ ReachedHash(n) \subseteq {b.hash : b \in Canonical}
    BY CommitReached, CanonicalFacts, Zenon DEF Inductive, ClientInv
  <1>c. ClientHead(el[n], Canonical) /\ \A b \in Updated(n) : NotBehind(el[n], b)
    BY DEF HeadInv, HeadOf
  <1>d. ASSUME NEW hash \in ReachedHash(n)
        PROVE  /\ ClientHead(Forkchoice(el[n], hash), Canonical)
               /\ \A b \in Canonical :
                    NotBehind(el[n], b) \/ b.hash = hash =>
                      NotBehind(Forkchoice(el[n], hash), b)
    <2>1. hash \in {b.hash : b \in Canonical}
      BY <1>b, Zenon
    <2> QED
      BY <1>a, <1>c, <2>1, CanonicalFacts, HeadForkchoice, Zenon
  <1>e. ASSUME UNCHANGED <<decided, commit, el>>,
               fin' = fin \/ \E v : v # "applied" /\ fin' = [fin EXCEPT ![n] = v]
        PROVE  HeadInv'
    BY <1>a, <1>c, <1>e, HeadAt, ZenonT(60)
  <1>f. ASSUME UNCHANGED <<decided, commit>>, NEW e, el' = [el EXCEPT ![n] = e],
               fin' = fin \/ \E v : v # "applied" /\ fin' = [fin EXCEPT ![n] = v],
               ClientHead(e, Canonical), \A b \in Updated(n) : NotBehind(e, b)
        PROVE  HeadInv'
    BY <1>a, <1>f, HeadAt
  <1>g. ASSUME UNCHANGED <<decided, commit, fin>>, NEW hash \in ReachedHash(n),
               el' = [el EXCEPT ![n] = Forkchoice(@, hash)]
        PROVE  HeadInv'
    BY <1>a, <1>c, <1>d, <1>f, <1>g, Zenon
  <1>1. CASE \/ PrepareStart(n) \/ PrepareFail(n) \/ PrepareGetPayload(n)
             \/ PrepareGetError(n) \/ ProcessProposal(n) \/ FinalizeStart(n)
             \/ ProbeStart(n) \/ Postpone(n) \/ Retry(n) \/ Crash(n)
    <2>1. CASE \/ PrepareStart(n) \/ PrepareFail(n) \/ PrepareGetPayload(n)
               \/ PrepareGetError(n) \/ ProcessProposal(n)
               \/ ProbeStart(n) \/ Postpone(n) \/ Retry(n)
      BY <2>1, <1>e, Zenon
         DEF PrepareStart, PrepareFail, PrepareGetPayload, PrepareGetError,
             ProcessProposal, ProbeStart, Postpone, Retry, vars
    <2>2. CASE FinalizeStart(n)
      <3>1. UNCHANGED <<decided, commit, el>>
        BY <2>2 DEF FinalizeStart
      <3>2. PICK v \in {"send", "failed"} : fin' = [fin EXCEPT ![n] = v]
        BY <2>2, Zenon DEF FinalizeStart
      <3>3. v # "applied"
        BY <3>2
      <3> QED
        BY <1>e, <3>1, <3>2, <3>3, Zenon
    <2>3. CASE Crash(n)
      BY <2>3, <1>e, Zenon DEF Crash
    <2> QED
      BY <1>1, <2>1, <2>2, <2>3, SMTT(30)
  <1>2. CASE PrepareForkchoice(n)
    <2> DEFINE updated == Forkchoice(el[n], commit[n].state.hash)
    <2>1. updated \in ExecutionClient
      BY <1>a, ForkchoiceType DEF TypeInv, TypeOK, BlockState
    <2>2. ASSUME NEW jobs
          PROVE  /\ ClientHead([updated EXCEPT !.jobs = jobs], Canonical)
                 /\ \A b \in Updated(n) : NotBehind([updated EXCEPT !.jobs = jobs], b)
      <3> DEFINE e == [updated EXCEPT !.jobs = jobs]
      <3>1. e.known = updated.known /\ e.head = updated.head /\ e.target = updated.target
        BY <2>1 DEF ExecutionClient
      <3>2. ClientHead(updated, Canonical) /\ \A b \in Updated(n) : NotBehind(updated, b)
        BY <1>a, <1>b, <1>c, <1>d, Zenon
      <3> HIDE DEF e, updated
      <3>3. ClientHead(e, Canonical) /\ \A b \in Updated(n) : NotBehind(e, b)
        BY <3>1, <3>2, Zenon DEF ClientHead, NotBehind
      <3> QED
        BY <3>3 DEF e
    <2>3. /\ UNCHANGED <<decided, commit, fin>>
          /\ \/ \E jobs : el' = [el EXCEPT ![n] = [updated EXCEPT !.jobs = jobs]]
             \/ el' = [el EXCEPT ![n] = updated]
             \/ UNCHANGED el
      BY <1>2, Zenon DEF PrepareForkchoice
    <2> QED
      BY <1>b, <1>e, <1>f, <1>g, <2>2, <2>3, Zenon
  <1>3. ASSUME fin[n] = "send"
        PROVE  /\ ClientHead(NewPayload(el[n], Current(n).payload), Canonical)
               /\ \A b \in Updated(n) : NotBehind(NewPayload(el[n], Current(n).payload), b)
    <2> DEFINE p == Current(n).payload
    <2>1. /\ p \in Canonical /\ \A b \in Updated(n) : b # p
          /\ \A c \in Canonical : c.hash = p.parent => c.number + 1 = p.number
          /\ \A c \in Canonical : c.number = p.number => c = p
      BY <1>3, CurrentExtends, CanonicalFacts, Zenon
    <2>2. /\ ClientHead(NewPayload(el[n], p), Canonical)
          /\ \A b \in Canonical \ {p} : NotBehind(el[n], b) => NotBehind(NewPayload(el[n], p), b)
      BY <1>a, <1>c, <2>1, HeadNewPayload, Zenon
    <2> QED
      BY <1>a, <1>c, <2>1, <2>2, Zenon
  <1>4. CASE SendPayload(n)
    <2>1. /\ UNCHANGED <<decided, commit>> /\ fin[n] = "send"
          /\ el' = [el EXCEPT ![n] = NewPayload(@, Current(n).payload)]
      BY <1>4 DEF SendPayload
    <2>2. PICK v \in {"fcu", "failed"} : fin' = [fin EXCEPT ![n] = v]
      BY <1>4, Zenon DEF SendPayload
    <2>3. v # "applied"
      BY <2>2
    <2> QED
      BY <1>3, <1>f, <2>1, <2>2, <2>3, Zenon
  <1>5. ASSUME fin[n] = "fcu"
        PROVE  /\ Current(n).payload \in Canonical
               /\ Current(n).payload.hash \in ReachedHash(n)
    BY <1>5, CurrentReached, SMTT(30) DEF Inductive, Reached, Canonical
  <1>6. CASE UpdateForkchoice(n)
    <2>1. UNCHANGED <<decided, commit>> /\ fin[n] = "fcu"
      BY <1>6 DEF UpdateForkchoice
    <2>2. CASE fin' = [fin EXCEPT ![n] = "failed"] /\ UNCHANGED el
      BY <1>e, <2>1, <2>2, Zenon
    <2>3. CASE /\ fin' = [fin EXCEPT ![n] = "applied"]
               /\ el' = [el EXCEPT ![n] = Forkchoice(@, Current(n).payload.hash)]
      <3> DEFINE e == Forkchoice(el[n], Current(n).payload.hash)
      <3>1. /\ ClientHead(e, Canonical) /\ \A b \in Updated(n) : NotBehind(e, b)
            /\ NotBehind(e, Current(n).payload)
        BY <1>a, <1>c, <1>d, <1>5, <2>1, ZenonT(60)
      <3>2. el'[n] = e /\ \A m \in Nodes \ {n} : el'[m] = el[m] /\ fin'[m] = fin[m]
        BY <1>a, <2>3
      <3> HIDE DEF e
      <3> QED
        BY <2>1, <3>1, <3>2, HeadAt
    <2> QED
      BY <1>6, <2>2, <2>3 DEF UpdateForkchoice
  <1>7. CASE ProbeForkchoice(n)
    BY <1>7, <1>b, <1>g, Zenon DEF ProbeForkchoice
  <1>8. CASE LostAnswer(n)
    BY <1>8, <1>3, <1>5, <1>f, <1>g, Zenon DEF LostAnswer
  <1>9. CASE ElLate(n)
    BY <1>9, <1>b, <1>g, Zenon DEF ElLate
  <1>10. CASE ElSync(n)
    <2>1. PICK b \in Decided :
            /\ b.hash = el[n].target /\ b.ok
            /\ el' = [el EXCEPT ![n] = [@ EXCEPT
                 !.known = el[n].known \cup {c \in Decided : c.ok /\ c.number <= b.number},
                 !.head = b, !.target = NoHash]]
      BY <1>10, Zenon DEF ElSync
    <2> DEFINE D == {c \in Decided : c.ok /\ c.number <= b.number}
               e == [el[n] EXCEPT !.known = el[n].known \cup D,
                                  !.head = b, !.target = NoHash]
    <2>2. e.known = el[n].known \cup D /\ e.head = b /\ e.target = NoHash
      BY <1>a DEF ExecutionClient
    <2>3. /\ b \in Canonical /\ b.number \in Nat /\ b \in D
          /\ D \in SUBSET Canonical /\ \A c \in D : c.number <= b.number
      BY <1>a, <2>1 DEF Canonical, Block
    <2>4. Genesis \in el[n].known
      <3>1. Genesis.number <= el[n].head.number
        BY <1>a DEF Genesis, ExecutionClient, Block
      <3> QED
        BY <1>c, <3>1, Zenon DEF ClientHead, Canonical
    <2>5. \A c \in Canonical : c.number <= b.number => c \in el[n].known \cup D
      BY <2>4, CanonicalFacts, Zenon DEF Canonical
    <2>6. el' = [el EXCEPT ![n] = e]
      BY <2>1, Zenon
    <2> HIDE DEF e, D
    <2>7. ClientHead(e, Canonical) /\ \A c \in Canonical : NotBehind(el[n], c) => NotBehind(e, c)
      BY <1>a, <1>c, <2>1, <2>2, <2>3, <2>5, HeadSync, SMTT(30)
    <2>8. UNCHANGED <<decided, commit, fin>>
      BY <1>10 DEF ElSync
    <2> QED
      BY <1>a, <1>c, <1>f, <2>6, <2>7, <2>8, Zenon
  <1>11. CASE ElRestart(n)
    <2>1. PICK head \in el[n].known : el' = [el EXCEPT ![n] = Restarted(@, head)]
      BY <1>11, Zenon DEF ElRestart
    <2>2. /\ ClientHead(Restarted(el[n], head), Canonical)
          /\ \A b \in Canonical : NotBehind(Restarted(el[n], head), b)
      BY <1>a, <1>c, <2>1, HeadRestart, Zenon
    <2>3. UNCHANGED <<decided, commit, fin>>
      BY <1>11 DEF ElRestart
    <2> QED
      BY <1>a, <1>f, <2>1, <2>2, <2>3, Zenon
  <1> QED
    BY <1>1, <1>2, <1>4, <1>6, <1>7, <1>8, <1>9, <1>10, <1>11, ZenonT(60) DEF NodeStep

\* Every step keeps the heads.
LEMMA HeadStep ==
  ASSUME AncestorFcu = "skip", TypeInv, Inductive, TypeInv', Inductive', HeadInv,
         [Next]_vars
  PROVE  HeadInv'
  <1>1. CASE UNCHANGED <<decided, commit, fin, el>>
    BY <1>1 DEF HeadInv, HeadOf, ClientHead, NotBehind, Updated, Canonical, Decided,
                Current
  <1>2. CASE UNCHANGED vars \/ BoundReached \/ ForeignProposal \/ NextRound
    BY <1>1, <1>2, Zenon DEF vars, BoundReached, ForeignProposal, NextRound
  <1>3. ASSUME NEW n \in Nodes, NodeStep(n) PROVE HeadInv'
    BY <1>3, HeadCommit, HeadNode, Zenon
  <1> QED
    BY <1>2, <1>3, HeadDecide, ZenonT(60) DEF Next

\* With execution clients that skip an update to an ancestor of their head, no
\* probe, late forkchoice update, synchronisation or restart leaves a client
\* that has the committed block with a head behind it.
THEOREM HeadsKept ==
  ASSUME ValidPayloads, AncestorFcu = "skip"
  PROVE  Spec => []HeadNotBehindCommit
  <1>1. Init => HeadInv
    <2> SUFFICES ASSUME Init, NEW n \in Nodes PROVE HeadOf(n)
      BY ZenonT(60) DEF HeadInv
    <2>1. Decided = {} /\ Canonical = {Genesis}
      BY SMTT(30) DEF Init, Decided, Canonical
    <2>2. /\ el[n].known = {Genesis} /\ el[n].head = Genesis /\ el[n].target = NoHash
      BY DEF Init, InitialClient
    <2>3. Genesis.hash # NoHash /\ Genesis.number = 0
      BY EngineApiAssumption DEF Genesis
    <2>4. ClientHead(el[n], Canonical)
      BY <2>1, <2>2, <2>3, ZenonT(60) DEF ClientHead
    <2>5. NotBehind(el[n], Genesis)
      BY <2>2, <2>3 DEF NotBehind
    <2> QED
      BY <2>1, <2>4, <2>5, Zenon DEF HeadOf, Updated
  <1>2. TypeInv /\ Inductive /\ (TypeInv /\ Inductive)' /\ HeadInv /\ [Next]_vars => HeadInv'
    BY HeadStep, Zenon
  <1>3. TypeInv /\ Inductive /\ HeadInv => HeadNotBehindCommit
    <2> SUFFICES ASSUME TypeInv, Inductive, HeadInv, NEW n \in Nodes,
                        Knows(el[n], commit[n].state.hash)
                 PROVE  el[n].head.number >= commit[n].state.height
      BY DEF HeadNotBehindCommit
    <2>1. PICK b \in el[n].known : b.hash = commit[n].state.hash
      BY DEF Knows
    <2>2. b \in Canonical
      BY CanonicalFacts, Zenon
    <2>3. commit[n].state = StateOf(b)
      BY <2>1, <2>2, CommittedKnown DEF Canonical
    <2>4. b.number <= el[n].head.number
      BY <2>1, <2>2, Zenon DEF HeadInv, HeadOf, Updated, NotBehind
    <2>5. commit[n].state.height = b.number /\ b.number \in Nat /\ el[n].head.number \in Nat
      <3>1. commit[n].state.height = b.number
        BY <2>3 DEF StateOf
      <3>2. el[n] \in ExecutionClient
        BY DEF TypeInv, TypeOK
      <3>3. b \in Block /\ el[n].head \in Block
        BY <3>2 DEF ExecutionClient
      <3> QED
        BY <3>1, <3>3 DEF Block
    <2> QED
      BY <2>4, <2>5
  <1> QED
    BY <1>1, <1>2, <1>3, Invariance, PTL DEF Spec

---------------------------------------------------------------------------
\* The refinement.

\* The blocks decided up to CometBFT height h.
Before(h) == {Genesis} \cup ({decided[i].payload : i \in 1..h} \ {Nil})

\* A state that a payload may be built on: that of a block, and above every
\* other valid block.
TopOf(s, blocks) ==
  /\ \E b \in blocks : StateOf(b) = s
  /\ \A b \in blocks : b.ok => StateOf(b) = s \/ b.number < s.height

TopInv == \A h \in DOMAIN decided : TopOf(decided[h].app, Before(h - 1))

\* The payload of the proposal has a hash of its own.
ProposalFresh ==
  proposal # Nil /\ proposal.payload # Nil =>
    \A b \in {Genesis} \cup Decided : b.hash # proposal.payload.hash

\* After all decided heights, the blocks are those decided.
LEMMA BeforeAll ==
  ASSUME TypeInv
  PROVE  /\ Before(Len(decided)) = {Genesis} \cup Decided
         /\ Len(decided) \in Nat /\ DOMAIN decided = 1..Len(decided)
BY LenFacts DEF TypeInv, TypeOK, Before, Decided

\* One more height adds its payload.
LEMMA BeforeNext ==
  ASSUME NEW h \in Nat \ {0}
  PROVE  Before(h) = Before(h - 1) \cup ({decided[h].payload} \ {Nil})
  <1>1. \A i \in 1..h : i \in 1..(h - 1) \/ i = h
    OBVIOUS
  <1>2. h \in 1..h /\ \A i \in 1..(h - 1) : i \in 1..h
    OBVIOUS
  <1> QED
    BY <1>1, <1>2, Zenon DEF Before

\* Every outcome of a height can be built on after it.
LEMMA OutcomeTop ==
  ASSUME TypeInv, OutcomeInv, TopInv, NEW h \in 0..Len(decided), NEW s \in Outcomes(h)
  PROVE  TopOf(s, Before(h))
  <1>a. Len(decided) \in Nat /\ DOMAIN decided = 1..Len(decided)
    BY BeforeAll, Zenon
  <1>1. CASE h = 0
    <2>1. s = StateOf(Genesis) /\ Before(h) = {Genesis}
      BY <1>1 DEF Outcomes, Before
    <2> QED
      BY <2>1, Zenon DEF TopOf
  <1>2. CASE h # 0
    <2> DEFINE block == decided[h]
               p == block.payload
    <2>1. h \in DOMAIN decided /\ h \in Nat \ {0}
      BY <1>a, <1>2
    <2>2. Justified(block, h) /\ TopOf(block.app, Before(h - 1))
      BY <2>1, Zenon DEF OutcomeInv, DecidedJustified, TopInv
    <2>3. Before(h) = Before(h - 1) \cup ({p} \ {Nil})
      BY <2>1, BeforeNext, Zenon
    <2>4. CASE s = block.app /\ (p = Nil \/ ~p.ok)
      <3> HIDE DEF block, p
      <3>1. \A b \in Before(h) : b.ok => b \in Before(h - 1)
        BY <2>3, <2>4, Zenon
      <3>2. Before(h - 1) \subseteq Before(h)
        BY <2>3, Zenon
      <3> QED
        BY <2>2, <2>4, <3>1, <3>2, Zenon DEF TopOf
    <2>5. CASE s = StateOf(p) /\ p # Nil
      <3>1. p.number = block.app.height + 1
        BY <2>2, <2>5, Zenon DEF Justified, ValidatePayload
      <3>2. p \in Before(h)
        BY <2>3, <2>5, Zenon
      <3>3. s.height = p.number
        BY <2>5 DEF StateOf
      <3>4. block \in CometBlock
        BY <2>1 DEF TypeInv, TypeOK
      <3>5. block.app.height \in Nat
        BY <3>4 DEF CometBlock, BlockState
      <3>6. ASSUME NEW b \in Before(h - 1), b.ok
            PROVE  b.number < s.height
        <4>1. StateOf(b) = block.app \/ b.number < block.app.height
          BY <2>2, <3>6, Zenon DEF TopOf
        <4>2. StateOf(b).height = b.number
          BY DEF StateOf
        <4>3. b \in Block
          BY BlocksType, <2>1, <1>a DEF Before, TypeInv, Blocks, Decided
        <4>4. b.number \in Nat
          BY <4>3 DEF Block
        <4> HIDE DEF block, p
        <4> QED
          BY <3>1, <3>3, <3>5, <4>1, <4>2, <4>4
      <3> QED
        BY <2>3, <2>5, <3>2, <3>6, Zenon DEF TopOf
    <2>6. \/ s = block.app /\ (p = Nil \/ ~p.ok)
          \/ s = StateOf(p) /\ p # Nil
      BY <1>2, Zenon DEF Outcomes
    <2> QED
      BY <2>4, <2>5, <2>6, Zenon
  <1> QED
    BY <1>1, <1>2, Zenon

\* The app hash of a decided block names a state that can be built on.
LEMMA TopStep ==
  ASSUME TypeInv, OutcomeInv, TopInv, [Next]_vars
  PROVE  TopInv'
  <1>1. CASE UNCHANGED decided
    BY <1>1, Zenon DEF TopInv, Before
  <1>2. CASE Decide
    <2> DEFINE last == Len(decided)
    <2>1. /\ last \in Nat /\ DOMAIN decided = 1..last /\ DOMAIN decided' = 1..last + 1
          /\ \A h \in 1..last : decided'[h] = decided[h]
      BY <1>2, DecideFacts, Zenon
    <2>2. decided'[last + 1].app = proposal.app
      BY <1>2, DecideFacts
    <2>3. ASSUME NEW h \in 0..last PROVE Before(h)' = Before(h)
      <3>1. \A i \in 1..h : decided'[i] = decided[i]
        BY <2>1
      <3> QED
        BY <3>1, Zenon DEF Before
    <2>4. ASSUME NEW h \in 1..last + 1
          PROVE  TopOf(decided[h].app, Before(h - 1))'
      <3>1. h - 1 \in 0..last
        BY <2>1
      <3>2. Before(h - 1)' = Before(h - 1)
        BY <2>3, <3>1, Zenon
      <3>3. TopOf(decided'[h].app, Before(h - 1))
        <4>1. CASE h \in 1..last
          BY <2>1, <4>1, Zenon DEF TopInv
        <4>2. CASE h = last + 1
          <5>1. Justified(proposal, h)
            BY <1>2, <4>2, DecideFacts, Zenon DEF OutcomeInv, AcceptedJustified, Decide
          <5>2. proposal.app \in Outcomes(h - 1)
            BY <5>1, Zenon DEF Justified
          <5> QED
            BY <2>2, <3>1, <4>2, <5>2, OutcomeTop, Zenon
        <4> QED
          BY <2>1, <4>1, <4>2
      <3> QED
        BY <3>2, <3>3, Zenon
    <2> QED
      BY <2>1, <2>4, Zenon DEF TopInv
  <1> QED
    BY <1>1, <1>2, Moves, Zenon DEF Commit

\* The hash of a proposed payload is new when it is proposed, and nothing is
\* decided before the proposal is.
LEMMA FreshStep ==
  ASSUME TypeInv, ProposalFresh, [Next]_vars
  PROVE  ProposalFresh'
  <1>a. ASSUME UNCHANGED decided, proposal' = proposal \/ proposal' = Nil
        PROVE  ProposalFresh'
    BY <1>a, Zenon DEF ProposalFresh, Decided
  <1>b. ASSUME UNCHANGED decided, proposal'.payload = Nil
        PROVE  ProposalFresh'
    BY <1>b, Zenon DEF ProposalFresh
  <1>c. ASSUME UNCHANGED decided, NEW p, Fresh(p.hash), proposal'.payload = p
        PROVE  ProposalFresh'
    BY <1>c, Zenon DEF ProposalFresh, Fresh, Blocks, Decided
  <1>1. ASSUME NEW n \in Nodes, UNCHANGED decided, Propose(n, Nil)
        PROVE  ProposalFresh'
    <2>1. proposal' = proposal \/ proposal'.payload = Nil
      BY <1>1, Zenon DEF Propose
    <2> QED
      BY <1>1, <1>a, <1>b, <2>1, Zenon
  <1>2. CASE ForeignProposal
    <2>1. PICK n \in Nodes, time \in LastTime..MaxTime, p \in ForeignPayloads :
            proposal' = [from |-> Nil, time |-> time, app |-> commit[n].state,
                         payload |-> p, accepts |-> {}, rejects |-> {}]
      BY <1>2, Zenon DEF ForeignProposal
    <2>2. Fresh(p.hash)
      BY ForeignType, Zenon DEF TypeInv
    <2>3. proposal'.payload = p
      BY <2>1, Zenon
    <2> QED
      BY <1>2, <1>c, <2>2, <2>3, Zenon DEF ForeignProposal
  <1>3. CASE Decide
    BY <1>3, Zenon DEF Decide, ProposalFresh
  <1>4. ASSUME NEW n \in Nodes, ProcessProposal(n)
        PROVE  ProposalFresh'
    <2>1. proposal # Nil /\ proposal \in Proposal /\ UNCHANGED decided
      BY <1>4, Zenon DEF ProcessProposal, TypeInv, TypeOK
    <2>2. proposal'.payload = proposal.payload
      BY <1>4, <2>1 DEF ProcessProposal, Proposal
    <2> QED
      BY <2>1, <2>2, Zenon DEF ProposalFresh, Decided
  <1>5. ASSUME NEW n \in Nodes, PrepareStart(n)
        PROVE  ProposalFresh'
    <2>1. proposal' = proposal \/ proposal'.payload = Nil
      BY <1>5, SMTT(30) DEF PrepareStart
    <2> QED
      BY <1>5, <1>a, <1>b, <2>1, Zenon DEF PrepareStart
  <1>6. ASSUME NEW n \in Nodes, PrepareGetPayload(n)
        PROVE  ProposalFresh'
    <2>1. PICK p : Fresh(p.hash) /\ Propose(n, p)
      BY <1>6, Zenon DEF PrepareGetPayload
    <2>2. proposal' = proposal \/ proposal'.payload = p
      BY <2>1, Zenon DEF Propose
    <2> QED
      BY <1>6, <1>a, <1>c, <2>1, <2>2, Zenon DEF PrepareGetPayload
  <1> QED
    BY <1>a, <1>1, <1>2, <1>3, <1>4, <1>5, <1>6, ProposalMoves, Zenon

\* Deciding a payload adds a block to the tree.
LEMMA DecideExtends ==
  ASSUME TypeInv, OutcomeInv, TopInv, ProposalFresh, Decide
  PROVE  Chain!Extend \/ UNCHANGED Chain!chainVars
  <1> DEFINE last == Len(decided)
             p == proposal.payload
  <1>1. /\ last \in Nat /\ DOMAIN decided = 1..last /\ DOMAIN decided' = 1..last + 1
        /\ \A h \in 1..last : decided'[h] = decided[h]
        /\ proposal.accepts # {} /\ commit' = commit /\ proposal # Nil
    BY DecideFacts, Zenon DEF Decide
  <1>2. decided'[last + 1].payload = p
    BY DecideFacts
  <1>3. Decided' = Decided \cup ({p} \ {Nil})
    <2>1. 1..last + 1 = (1..last) \cup {last + 1}
      BY <1>1
    <2>2. DOMAIN decided' = DOMAIN decided \cup {last + 1}
      BY <1>1, <2>1, Zenon
    <2>3. \A h \in DOMAIN decided : decided'[h] = decided[h]
      BY <1>1, Zenon
    <2> HIDE DEF last, p
    <2>4. ASSUME NEW q \in Decided'
          PROVE  q \in Decided \/ q \in {p} \ {Nil}
      <3>1. PICK h \in DOMAIN decided' : q = decided'[h].payload /\ q # Nil
        BY Zenon DEF Decided
      <3>2. CASE h \in DOMAIN decided
        BY <2>3, <3>1, <3>2, Zenon DEF Decided
      <3>3. CASE h = last + 1
        BY <1>2, <3>1, <3>3, Zenon
      <3> QED
        BY <2>2, <3>2, <3>3, Zenon
    <2>5. ASSUME NEW q \in Decided
          PROVE  q \in Decided'
      <3>1. PICK h \in DOMAIN decided : q = decided[h].payload /\ q # Nil
        BY Zenon DEF Decided
      <3>2. h \in DOMAIN decided' /\ q = decided'[h].payload
        BY <2>2, <2>3, <3>1, Zenon
      <3> QED
        BY <3>1, <3>2, Zenon DEF Decided
    <2>6. ASSUME NEW q \in {p} \ {Nil}
          PROVE  q \in Decided'
      <3>1. last + 1 \in DOMAIN decided' /\ q = decided'[last + 1].payload /\ q # Nil
        BY <1>2, <2>2, Zenon
      <3> QED
        BY <3>1, Zenon DEF Decided
    <2> QED
      BY <2>4, <2>5, <2>6, Zenon
  <1>4. UNCHANGED [n \in Nodes |-> commit[n].state]
    BY <1>1, Zenon
  <1>5. Justified(proposal, last + 1)
    BY <1>1, Zenon DEF OutcomeInv, AcceptedJustified
  <1>6. CASE p = Nil
    <2>1. Decided' = Decided
      BY <1>3, <1>6, Zenon
    <2>2. TreeBar' = TreeBar
      BY <2>1, Zenon DEF TreeBar
    <2> QED
      BY <1>4, <2>2, Zenon DEF Chain!chainVars
  <1>7. CASE p # Nil
    <2>1. last + 1 # 1 /\ (last + 1) - 1 = last /\ last \in 0..last
      BY <1>1, <1>5, <1>7 DEF Justified
    <2>2. /\ proposal.app \in Outcomes(last)
          /\ ValidatePayload(p, proposal.app, proposal.time, last + 1)
      BY <1>5, <2>1, Zenon DEF Justified
    <2>3. TopOf(proposal.app, Before(last)) /\ Before(last) = {Genesis} \cup Decided
      BY <2>1, <2>2, OutcomeTop, BeforeAll, Zenon
    <2>4. PICK top \in {Genesis} \cup Decided : StateOf(top) = proposal.app
      BY <2>3, Zenon DEF TopOf
    <2>5. /\ p.parent = StateOf(top).hash
          /\ StateOf(p).height = StateOf(top).height + 1
          /\ StateOf(p).timestamp > StateOf(top).timestamp
      BY <2>2, <2>4 DEF ValidatePayload, StateOf
    <2>6. StateOf(p).hash \in Hash
      <3>1. p \in Block
        <4>1. proposal \in Proposal
          BY <1>1, Zenon DEF TypeInv, TypeOK
        <4> QED
          BY <1>7, <4>1 DEF Proposal
      <3> QED
        BY <3>1 DEF Block, StateOf
    <2>7. ASSUME NEW b \in {Genesis} \cup Decided
          PROVE  /\ StateOf(b).hash # StateOf(p).hash
                 /\ b.ok => \/ StateOf(b) = StateOf(top)
                            \/ StateOf(b).height < StateOf(top).height
      <3>1. StateOf(b).hash = b.hash /\ StateOf(p).hash = p.hash /\ StateOf(b).height = b.number
        BY DEF StateOf
      <3>2. b.hash # p.hash
        BY <1>1, <1>7, Zenon DEF ProposalFresh
      <3>3. b.ok => StateOf(b) = proposal.app \/ b.number < proposal.app.height
        BY <2>3, Zenon DEF TopOf
      <3> QED
        BY <2>4, <3>1, <3>2, <3>3, Zenon
    <2>8. TreeBar' = TreeBar \cup {TreeBlock(p)}
      <3>1. {Genesis} \cup Decided' = ({Genesis} \cup Decided) \cup {p}
        BY <1>3, <1>7, Zenon
      <3> HIDE DEF p
      <3> QED
        BY <3>1, Zenon DEF TreeBar
    <2> HIDE DEF last, p
    <2>9. /\ TreeBlock(p).parent = TreeBlock(top).state.hash
          /\ TreeBlock(p).state.hash \in Hash
          /\ TreeBlock(p).state.height = TreeBlock(top).state.height + 1
          /\ TreeBlock(p).state.timestamp > TreeBlock(top).state.timestamp
      BY <2>5, <2>6, Zenon DEF TreeBlock
    <2>10. \A t \in TreeBar :
             /\ t.state.hash # TreeBlock(p).state.hash
             /\ t.valid => \/ t.state = TreeBlock(top).state
                           \/ t.state.height < TreeBlock(top).state.height
      <3> TAKE t \in TreeBar
      <3>1. PICK b \in {Genesis} \cup Decided : t = TreeBlock(b)
        BY Zenon DEF TreeBar
      <3>2. t.state = StateOf(b) /\ t.valid = b.ok
        BY <3>1, Zenon DEF TreeBlock
      <3>3. TreeBlock(p).state = StateOf(p) /\ TreeBlock(top).state = StateOf(top)
        BY Zenon DEF TreeBlock
      <3> QED
        BY <2>7, <3>2, <3>3, Zenon
    <2>11. TreeBlock(top) \in TreeBar /\ TreeBlock(p) \in TreeBar' \ TreeBar
      BY <2>8, <2>10, Zenon DEF TreeBar
    <2>12. Chain!Extend
      BY <1>4, <2>8, <2>9, <2>10, <2>11, Zenon DEF Chain!Extend
    <2> QED
      BY <2>12
  <1> QED
    BY <1>6, <1>7, Zenon

\* Committing a block takes the node to a child of its block, or leaves it.
LEMMA CommitAdvances ==
  ASSUME TypeInv, OutcomeInv, NEW n \in Nodes, Commit(n)
  PROVE  Chain!Advance(n) \/ UNCHANGED Chain!chainVars
  <1> DEFINE at == [m \in Nodes |-> commit[m].state]
  <1>1. UNCHANGED TreeBar
    BY Zenon DEF Commit, TreeBar, Decided
  <1>2. at' = [at EXCEPT ![n] = NextState(n)]
    BY ZenonT(60) DEF Commit, TypeInv, TypeOK
  <1>3. CASE fin[n] # "applied"
    BY <1>1, <1>2, <1>3, Zenon DEF NextState, Chain!chainVars
  <1>4. CASE fin[n] = "applied"
    <2> DEFINE p == Current(n).payload
    <2>1. ~AtTip(n) /\ p # Nil /\ Current(n).app = commit[n].state
      <3>1. fin[n] # "idle"
        BY <1>4
      <3> QED
        BY <1>4, <3>1, Zenon DEF TypeInv, InPlace, OutcomeInv, FinalizeJustified
    <2>2. Justified(Current(n), commit[n].height + 1)
      BY <2>1, CurrentJustified, Zenon
    <2>3. p.parent = commit[n].state.hash
      BY <2>1, <2>2, Zenon DEF Justified, ValidatePayload
    <2>4. p \in Decided
      BY <2>1, CurrentType, Zenon DEF Current, Decided
    <2>5. TreeBlock(p) \in TreeBar
      BY <2>4, Zenon DEF TreeBar
    <2>6. NextState(n) = StateOf(p)
      BY <1>4, Zenon DEF NextState
    <2>7. TreeBlock(p).parent = at[n].hash /\ TreeBlock(p).state = NextState(n)
      BY <2>3, <2>6, Zenon DEF TreeBlock
    <2> HIDE DEF p
    <2> QED
      BY <1>1, <1>2, <2>5, <2>7, Zenon DEF Chain!Advance
  <1> QED
    BY <1>3, <1>4, Zenon

\* The payload life cycle implements the tree of ExecutionChain, whatever
\* payloads are invalid: valid ones lie on one path, each the successor of its
\* parent and later than it, and a node steps only to a child of its block.
\* This holds for any number of nodes and whatever crashes, restarts and lost
\* calls there were.
THEOREM NodesFollowOneChain == Spec => OneChain
  <1> DEFINE Refined == TypeInv /\ OutcomeInv /\ TopInv /\ ProposalFresh
  <1>1. Init => Chain!ChainInit /\ Refined
    <2> SUFFICES ASSUME Init
                 PROVE  Chain!ChainInit /\ Refined
      BY Zenon
    <2>1. Decided = {} /\ DOMAIN decided = {} /\ proposal = Nil
      BY DEF Init, Decided
    <2>2. TreeBar = {[state |-> StateOf(Genesis), parent |-> NoHash, valid |-> TRUE]}
      <3>1. Genesis.parent = NoHash /\ Genesis.ok = TRUE
        BY DEF Genesis
      <3> QED
        BY <2>1, <3>1, Zenon DEF TreeBar, TreeBlock
    <2>3. [n \in Nodes |-> commit[n].state] = [n \in Nodes |-> StateOf(Genesis)]
      BY ZenonT(60) DEF Init
    <2>4. TopInv /\ ProposalFresh
      BY <2>1, Zenon DEF TopInv, ProposalFresh
    <2> QED
      BY <2>2, <2>3, <2>4, TypeInit, OutcomeInit, Zenon DEF Chain!ChainInit
  <1>2. Refined /\ [Next]_vars => Refined'
    BY TypeStep, OutcomeStep, TopStep, FreshStep, Zenon
  <1>3. Refined /\ [Next]_vars => [Chain!ChainNext]_(Chain!chainVars)
    <2> SUFFICES ASSUME Refined, [Next]_vars
                 PROVE  [Chain!ChainNext]_(Chain!chainVars)
      OBVIOUS
    <2>1. CASE UNCHANGED <<decided, commit>>
      BY <2>1, Zenon DEF Chain!chainVars, TreeBar, Decided
    <2>2. CASE Decide
      BY <2>2, DecideExtends, Zenon DEF Chain!ChainNext
    <2>3. ASSUME NEW m \in Nodes, Commit(m)
          PROVE  [Chain!ChainNext]_(Chain!chainVars)
      BY <2>3, CommitAdvances, Zenon DEF Chain!ChainNext
    <2> QED
      BY <2>1, <2>2, <2>3, Moves, Zenon
  <1> QED
    BY <1>1, <1>2, <1>3, PTL DEF Spec, OneChain, Chain!ChainSpec
=============================================================================
