----------------------------- MODULE EngineApi ------------------------------
(***************************************************************************)
(* The execution client as the consensus layer sees it through the Engine  *)
(* API (external: reth; the client side is cosmos/lib/engine.go).          *)
(*                                                                         *)
(* A block is a record; its hash identifies it, wellFormed says that its   *)
(* encoding, authority and empty fields are what the consensus layer       *)
(* expects, and ok that the execution client finds it valid once it can    *)
(* execute it, its ancestors included.  The state of an execution client   *)
(* is a record of                                                          *)
(*   known   the blocks it has executed                                    *)
(*   head    the head of its canonical chain                               *)
(*   target  the last forkchoice hash it could not resolve, or NoHash      *)
(*   jobs    the payload builds it has started                             *)
(***************************************************************************)
EXTENDS Naturals

CONSTANTS
  Hash,          \* block hashes
  GenesisHash,   \* the hash of the genesis execution block
  NoHash,        \* stands for the absence of a hash
  AncestorFcu    \* what forkchoiceUpdated does with an ancestor of the head

\* The Engine API lets a client skip an update to an ancestor of its head.
ASSUME EngineApiAssumption ==
  /\ GenesisHash \in Hash
  /\ NoHash \notin Hash
  /\ AncestorFcu \in {"skip", "rewind"}

Block ==
  [hash : Hash, parent : Hash \cup {NoHash}, number : Nat, timestamp : Nat,
   blobs : Nat, wellFormed : BOOLEAN, ok : BOOLEAN]

Genesis ==
  [hash |-> GenesisHash, parent |-> NoHash, number |-> 0, timestamp |-> 0,
   blobs |-> 0, wellFormed |-> TRUE, ok |-> TRUE]

\* PayloadAttributes and the head they apply to: one payload id for each.
Job == [parent : Hash, number : Nat, timestamp : Nat]

ExecutionClient ==
  [known : SUBSET Block, head : Block, target : Hash \cup {NoHash},
   jobs : SUBSET Job]

InitialClient ==
  [known |-> {Genesis}, head |-> Genesis, target |-> NoHash, jobs |-> {}]

Knows(el, hash) == \E b \in el.known : b.hash = hash

BlockOf(el, hash) == CHOOSE b \in el.known : b.hash = hash

---------------------------------------------------------------------------
\* engine_newPayload: the statuses a client may answer, and the client after
\* the call.  A client that lacks the parent cannot execute the payload, and
\* finds it invalid only if it has refused one of its ancestors before.  A
\* client never answers ACCEPTED.

NewPayloadStatuses(el, p) ==
  IF Knows(el, p.parent)
  THEN {IF p.ok THEN "VALID" ELSE "INVALID"}
  ELSE {"SYNCING"} \cup {s \in {"INVALID"} : ~p.ok}

NewPayload(el, p) ==
  IF Knows(el, p.parent) /\ p.ok
  THEN [el EXCEPT !.known = @ \cup {p}]
  ELSE el

\* engine_forkchoiceUpdated of head hash: a block the client does not have
\* becomes the target of its synchronisation.
ForkchoiceStatus(el, hash) == IF Knows(el, hash) THEN "VALID" ELSE "SYNCING"

\* The same for a payload the client has been sent and may have refused since.
PayloadForkchoiceStatuses(el, p) ==
  IF p.ok
  THEN {ForkchoiceStatus(el, p.hash)}
  ELSE {"INVALID"} \cup {s \in {"SYNCING"} : ~Knows(el, p.parent)}

Forkchoice(el, hash) ==
  IF ~Knows(el, hash)
  THEN [el EXCEPT !.target = hash]
  ELSE LET b == BlockOf(el, hash)
       IN  IF b.number < el.head.number /\ AncestorFcu = "skip"
           THEN el
           ELSE [el EXCEPT !.head = b, !.target = NoHash]

\* The build an update with payload attributes starts; none when the head
\* was skipped over or the attributes are not later than the head.
StartsJob(el, hash, timestamp) ==
  /\ Knows(el, hash)
  /\ Forkchoice(el, hash).head.hash = hash
  /\ timestamp > BlockOf(el, hash).timestamp

JobOf(el, hash, timestamp) ==
  [parent |-> hash, number |-> BlockOf(el, hash).number + 1,
   timestamp |-> timestamp]

\* A restart keeps the blocks up to the new head, and no build.
Restarted(el, head) ==
  [el EXCEPT !.known = {b \in el.known : b.number <= head.number},
             !.head = head, !.target = NoHash, !.jobs = {}]
=============================================================================
