---------------------------- MODULE MCWireCodec -----------------------------
(***************************************************************************)
(* Buffers for WireCodec: every sequence of a few pieces, among them tags  *)
(* of known and unknown fields, lengths that are zero, right, too long,    *)
(* negative or largest, and varints that are cut, truncated or too long.   *)
(***************************************************************************)
EXTENDS WireCodec

Tags == { <<10>>, <<18>>, <<24>> }

\* Fields 6 and 7 are unknown: a group's start and end, bytes, fixed32,
\* fixed64 with its value, and a wire type that does not exist.
UnknownTags == { <<51>>, <<52>>, <<58>>, <<61>>,
                 <<57, 0, 0, 0, 0, 0, 0, 0, 0>>, <<62>> }

\* Field number 257, which 8 bits take for 1, and 128, which they take for -128.
WideTags == { <<138, 16>>, <<130, 8>> }

\* 0, 1, 2; four bytes; 2^14 - 1, 2^14 (negative as an int), 1 with a bit that
\* is lost, one that never ends, and one that is cut.
Numbers == { <<0>>, <<1>>, <<2>>, <<0, 0, 0, 0>>, <<255, 127>>,
             <<128, 128, 1>>, <<129, 128, 2>>, <<255, 255, 255>>, <<128>> }

Buffers(pieces, n) == {FlattenSeq(s) : s \in BoundedSeq(pieces, n)}

AllPieces == Tags \cup UnknownTags \cup WideTags \cup Numbers

\* Groups, lengths and small fields.
DeepPieces ==
  { <<10>>, <<24>>, <<51>>, <<52>>, <<58>>, <<0>>, <<1>>, <<255, 127>>,
    <<128, 128, 1>>, <<128>> }

\* Two levels: the tags of both messages, lengths that fit and that do not.
NestedPieces ==
  { <<10, 2>>, <<18, 4>>, <<10, 0>>, <<24, 1>>, <<10, 1>>, <<0>>, <<61>> }

\* The fields of the two messages with five fields, and an unknown one with a
\* length of -4.
WidePieces ==
  { <<10, 1, 7>>, <<18, 1, 7>>, <<24, 129, 1>>, <<26, 1, 7>>, <<34, 2, 7, 7>>,
    <<32, 128, 128, 1>>, <<40, 127>>, <<40, 0>>, <<58, 252, 255, 1>> }

\* The messages with one string or no field, some of which have the same code.
Small ==
  {t \in MessageTypes : DOMAIN Codecs[t].unmarshal = {}}
    \cup {"EvmModule", "GlobalfeeModule"}

AllInputs ==
  ((MessageTypes \ Small) \X Buffers(AllPieces, 3))
    \cup (Small \X Buffers(AllPieces, 2))
    \cup ({"WithdrawalRequest"} \X Buffers(DeepPieces, 4))
    \cup ({"ConsensusRequests"} \X Buffers(NestedPieces, 5))
    \cup ({"DepositRequest", "GenesisState"} \X Buffers(WidePieces, 4))
=============================================================================
