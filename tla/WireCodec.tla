----------------------------- MODULE WireCodec ------------------------------
(***************************************************************************)
(* The generated protobuf code of x/evm/types and x/globalfee/types: Size, *)
(* Marshal and Unmarshal of every message, over the field tables of        *)
(* WireMessages, and the skipping of fields a message does not know.       *)
(*                                                                         *)
(* A buffer arrives and is decoded, one step per turn of Unmarshal's loop; *)
(* an embedded message is a frame of its own, as the call of its Unmarshal *)
(* is.  What was decoded is marshalled, as a node does that stores it or   *)
(* sends it on, and the result is decoded once more.                       *)
(*                                                                         *)
(* Integers have Width bits, and field numbers FieldBits, where the code   *)
(* has 64 and 32.  Like 64, Width is one more than a multiple of the 7     *)
(* bits of a varint byte, so that the last byte a varint may have carries  *)
(* one bit, and FieldBits is less than Width - 3.                          *)
(***************************************************************************)
EXTENDS WireMessages, Integers, FiniteSets, SequencesExt

CONSTANTS
  Width,       \* bits of int and uint64
  FieldBits,   \* bits of int32, the type of a field number
  Inputs       \* pairs of a message type and a buffer to decode

VARIABLES
  type,        \* the message type that is decoded
  input,       \* the buffer
  frames,      \* the calls of Unmarshal, innermost last
  result,      \* "running", "ok", "panic" or the error returned
  decoded,     \* the message, once decoded
  first,       \* what the first decoding gave, while the second goes on
  turns        \* turns of the loops so far that read a field

vars == << type, input, frames, result, decoded, first, turns >>

ASSUME WidthAssumption == Width % 7 = 1 /\ FieldBits < Width - 3

Signed(v, bits) == IF v >= 2^(bits - 1) THEN v - 2^bits ELSE v
AsInt(v) == Signed(v % 2^Width, Width)
From(d, i) == SubSeq(d, i + 1, Len(d))
Zeros(n) == [k \in 1 .. n |-> 0]
-----------------------------------------------------------------------------
(* Encoding. *)

sov(x) ==
  LET bits == Cardinality({k \in 0 .. Width - 1 : 2^k <= x})
  IN  ((IF bits = 0 THEN 1 ELSE bits) + 6) \div 7

RECURSIVE VarintBytes(_)
VarintBytes(v) ==
  IF v < 128 THEN << v >> ELSE << 128 + (v % 128) >> \o VarintBytes(v \div 128)

\* w is what the buffer holds from the offset on.  The bytes of v are written
\* upwards from sov(v) places below it.
encodeVarint(w, v) ==
  LET b == VarintBytes(v)
      at == Zeros(sov(v)) \o w
  IN  b \o From(at, Len(b))

RECURSIVE MarshalToSizedBuffer(_, _)
MarshalToSizedBuffer(t, m) ==
  LET Delimited(w, tag, b) == << tag >> \o encodeVarint(b \o w, Len(b))
      Field(w, f) ==
        LET v == m[f.name] IN
        CASE f.kind = "varint" ->
               IF v = 0 THEN w ELSE << f.tag >> \o encodeVarint(w, v)
          [] f.kind = "bytes" ->
               IF v = << >> THEN w ELSE Delimited(w, f.tag, v)
          [] f.kind = "message" ->
               Delimited(w, f.tag,
                         MarshalToSizedBuffer(Embedded[f.name], v))
          [] f.kind = "repeated" ->
               FoldLeft(LAMBDA u, e :
                          Delimited(u, f.tag,
                                    MarshalToSizedBuffer(Embedded[f.name], e)),
                        w, Reverse(v))
  IN  FoldLeft(Field, << >>, Codecs[t].marshal)

RECURSIVE Size(_, _)
Size(t, m) ==
  LET Delimited(l) == 1 + l + sov(l)
      Field(n, f) ==
        LET v == m[f.name] IN
        CASE f.kind = "varint" -> IF v = 0 THEN n ELSE n + 1 + sov(v)
          [] f.kind = "bytes" -> IF v = << >> THEN n ELSE n + Delimited(Len(v))
          [] f.kind = "message" -> n + Delimited(Size(Embedded[f.name], v))
          [] f.kind = "repeated" ->
               FoldLeft(LAMBDA k, e : k + Delimited(Size(Embedded[f.name], e)),
                        n, v)
  IN  FoldLeft(Field, 0, Codecs[t].size)

\* Writing below the start of the buffer of Size() bytes panics.  dAtA[:n] are
\* its first n bytes, although the message was written to its end.
Marshal(t, m) ==
  LET size == Size(t, m)
      w == MarshalToSizedBuffer(t, m)
  IN  IF Len(w) > size
      THEN [panics |-> TRUE, dAtA |-> << >>]
      ELSE [panics |-> FALSE,
            dAtA |-> SubSeq(Zeros(size - Len(w)) \o w, 1, Len(w))]
-----------------------------------------------------------------------------
(* Decoding. *)

\* The loop that reads a varint from index i on: the value, of Width bits, and
\* the index after it.  An index outside the buffer panics.
RECURSIVE VarintFrom(_, _, _, _)
VarintFrom(d, i, shift, v) ==
  CASE shift >= Width -> [err |-> "overflow", val |-> 0, next |-> i]
    [] shift < Width /\ i >= Len(d) -> [err |-> "eof", val |-> 0, next |-> i]
    [] shift < Width /\ i < 0 -> [err |-> "panic", val |-> 0, next |-> i]
    [] OTHER ->
         LET b == d[i + 1]
             u == (v + (b % 128) * 2^shift) % 2^Width
         IN  IF b < 128
             THEN [err |-> "none", val |-> u, next |-> i + 1]
             ELSE VarintFrom(d, i + 1, shift + 7, u)

Varint(d, i) == VarintFrom(d, i, 0, 0)

\* Mutant: a length whose highest bit is set is not refused.
SkipValueAnyLength(d, i, wire) ==
  LET v == Varint(d, i)
      At(n) == [err |-> "none", next |-> AsInt(n)]
  IN  CASE wire = 0 -> [err |-> v.err, next |-> v.next]
        [] wire = 1 -> At(i + 8)
        [] wire = 2 -> IF v.err # "none" THEN [err |-> v.err, next |-> i]
                       ELSE At(v.next + AsInt(v.val))
        [] wire \in {3, 4} -> At(i)
        [] wire = 5 -> At(i + 4)
        [] OTHER -> [err |-> "illegalWireType", next |-> i]

\* The switch of skip: the index after the value of a field of this wire type.
SkipValue(d, i, wire) ==
  LET v == Varint(d, i)
      At(n) == [err |-> "none", next |-> AsInt(n)]
  IN  CASE wire = 0 -> [err |-> v.err, next |-> v.next]
        [] wire = 1 -> At(i + 8)
        [] wire = 2 -> CASE v.err # "none" -> [err |-> v.err, next |-> i]
                         [] v.err = "none" /\ AsInt(v.val) < 0 ->
                              [err |-> "length", next |-> i]
                         [] OTHER -> At(v.next + v.val)
        [] wire \in {3, 4} -> At(i)
        [] wire = 5 -> At(i + 4)
        [] OTHER -> [err |-> "illegalWireType", next |-> i]

\* skip from index i on, inside depth groups.
RECURSIVE SkipFrom(_, _, _)
SkipFrom(d, i, depth) ==
  LET tag == Varint(d, i)
      wire == tag.val % 8
      after == SkipValue(d, tag.next, wire)
      inner == CASE wire = 3 -> depth + 1 [] wire = 4 -> depth - 1
                 [] OTHER -> depth
      Stop(e) == [err |-> e, next |-> 0]
  IN  CASE i >= Len(d) -> Stop("eof")
        [] i < Len(d) /\ tag.err # "none" -> Stop(tag.err)
        [] OTHER ->
             CASE after.err # "none" -> Stop(after.err)
               [] after.err = "none" /\ inner < 0 -> Stop("endOfGroup")
               [] after.err = "none" /\ inner >= 0 /\ after.next < 0 ->
                    Stop("length")
               [] OTHER -> IF inner = 0
                           THEN [err |-> "none", next |-> after.next]
                           ELSE SkipFrom(d, after.next, inner)

skip(d) == SkipFrom(d, 0, 0)
-----------------------------------------------------------------------------
(* Unmarshal. *)

RECURSIVE Default(_)
Default(t) ==
  LET table == Codecs[t].unmarshal
      Zero(f) == CASE f.kind = "varint" -> 0
                   [] f.kind = "message" -> Default(Embedded[f.name])
                   [] OTHER -> << >>
  IN  [n \in {table[k].name : k \in DOMAIN table} |->
         Zero(CHOOSE f \in ToSet(table) : f.name = n)]

\* A call of Unmarshal; slot is the field of the caller's message it fills.
Frame(t, d, m, slot) ==
  [type |-> t, dAtA |-> d, iNdEx |-> 0, m |-> m, slot |-> slot]

Top == Last(frames)
InLoop == result = "running" /\ Top.iNdEx < Len(Top.dAtA)

\* What the loop reads first: the tag, with its field number and wire type.
Tag(F) == Varint(F.dAtA, F.iNdEx)
FieldNum(F) == Signed((Tag(F).val \div 8) % 2^FieldBits, FieldBits)
WireType(F) == Tag(F).val % 8
Known(F) == FieldNum(F) \in DOMAIN Codecs[F.type].unmarshal
Case(F) == Codecs[F.type].unmarshal[FieldNum(F)]

\* The value of a varint, or the length of another known field, and the index
\* after a field of that length.
Value(F) == Varint(F.dAtA, Tag(F).next)
PostIndex(F) == AsInt(Value(F).next + AsInt(Value(F).val))

\* Mutant: the sum of index and length is not checked for overflow.
LengthErrorUnchecked(F) ==
  CASE AsInt(Value(F).val) < 0 -> "length"
    [] PostIndex(F) > Len(F.dAtA) -> "eof"
    [] OTHER -> "none"

LengthError(F) ==
  CASE AsInt(Value(F).val) < 0 -> "length"
    [] AsInt(Value(F).val) >= 0 /\ PostIndex(F) < 0 -> "length"
    [] PostIndex(F) > Len(F.dAtA) -> "eof"
    [] OTHER -> "none"

SkipError(F) ==
  LET s == skip(From(F.dAtA, F.iNdEx))
  IN  CASE s.err # "none" -> s.err
        [] s.err = "none" /\ (s.next < 0 \/ AsInt(F.iNdEx + s.next) < 0) ->
             "length"
        [] OTHER -> IF AsInt(F.iNdEx + s.next) > Len(F.dAtA) THEN "eof" ELSE "none"

\* Mutant: the wire type of a known field is not compared.
FieldErrorAnyWireType(F) ==
  CASE Tag(F).err # "none" -> Tag(F).err
    [] Tag(F).err = "none" /\ WireType(F) = 4 -> "endGroup"
    [] Tag(F).err = "none" /\ WireType(F) # 4 /\ FieldNum(F) <= 0 ->
         "illegalTag"
    [] OTHER ->
         CASE ~Known(F) -> SkipError(F)
           [] Known(F) /\ Value(F).err # "none" -> Value(F).err
           [] OTHER -> IF Case(F).kind = "varint" THEN "none"
                       ELSE LengthError(F)

\* The early returns of a turn of the loop, in their order.
FieldError(F) ==
  CASE Tag(F).err # "none" -> Tag(F).err
    [] Tag(F).err = "none" /\ WireType(F) = 4 -> "endGroup"
    [] Tag(F).err = "none" /\ WireType(F) # 4 /\ FieldNum(F) <= 0 ->
         "illegalTag"
    [] OTHER ->
         CASE ~Known(F) -> SkipError(F)
           [] Known(F) /\ WireType(F) # Case(F).wire -> "wrongWireType"
           [] Known(F) /\ WireType(F) = Case(F).wire
                /\ Value(F).err # "none" -> Value(F).err
           [] OTHER -> IF Case(F).kind = "varint" THEN "none"
                       ELSE LengthError(F)

Fail ==
  /\ InLoop
  /\ FieldError(Top) # "none"
  /\ result' = FieldError(Top)
  /\ frames' = << >>
  /\ UNCHANGED << type, input, decoded, first, turns >>

\* The innermost frame after a field, its message with the field set to v.
Advanced(i, v) ==
  [frames EXCEPT ![Len(frames)].iNdEx = i,
                 ![Len(frames)].m = [@ EXCEPT ![Case(Top).name] = v]]

Decodes(kinds) ==
  /\ InLoop
  /\ Known(Top)
  /\ Case(Top).kind \in kinds
  /\ FieldError(Top) = "none"

\* A slice with bounds out of order or out of range panics.
Slices(F) == Value(F).next <= PostIndex(F) /\ PostIndex(F) <= Len(F.dAtA)

DecodeVarint ==
  /\ Decodes({"varint"})
  /\ frames' = Advanced(Value(Top).next, Value(Top).val)
  /\ turns' = turns + 1
  /\ UNCHANGED << type, input, result, decoded, first >>

DecodeBytes ==
  /\ Decodes({"bytes"})
  /\ LET b == SubSeq(Top.dAtA, Value(Top).next + 1, PostIndex(Top))
     IN  frames' = Advanced(PostIndex(Top), b)
  /\ result' = IF Slices(Top) THEN result ELSE "panic"
  /\ turns' = turns + 1
  /\ UNCHANGED << type, input, decoded, first >>

\* An embedded message is decoded into the one that is there; an element of a
\* repeated field is a new one.  The caller goes on at PostIndex afterwards.
DecodeMessage ==
  /\ Decodes({"message", "repeated"})
  /\ LET f == Case(Top)
         b == SubSeq(Top.dAtA, Value(Top).next + 1, PostIndex(Top))
         m == IF f.kind = "message" THEN Top.m[f.name]
              ELSE Default(Embedded[f.name])
     IN  frames' = Append([frames EXCEPT ![Len(frames)].iNdEx = PostIndex(Top)],
                          Frame(Embedded[f.name], b, m, f.name))
  /\ result' = IF Slices(Top) THEN result ELSE "panic"
  /\ turns' = turns + 1
  /\ UNCHANGED << type, input, decoded, first >>

SkipField ==
  /\ InLoop
  /\ ~Known(Top)
  /\ FieldError(Top) = "none"
  /\ LET skippy == skip(From(Top.dAtA, Top.iNdEx)).next
     IN  frames' = [frames EXCEPT ![Len(frames)].iNdEx = @ + skippy]
  /\ turns' = turns + 1
  /\ UNCHANGED << type, input, result, decoded, first >>

Returns == result = "running" /\ Top.iNdEx >= Len(Top.dAtA)

ReturnNested ==
  /\ Returns
  /\ Len(frames) > 1
  /\ LET caller == frames[Len(frames) - 1]
         kind == (CHOOSE f \in ToSet(Codecs[caller.type].unmarshal) :
                    f.name = Top.slot).kind
         Into(v) == IF kind = "message" THEN Top.m ELSE Append(v, Top.m)
     IN  frames' = [Front(frames) EXCEPT
                      ![Len(frames) - 1].m = [@ EXCEPT ![Top.slot] = Into(@)]]
  /\ UNCHANGED << type, input, result, decoded, first, turns >>

Return ==
  /\ Returns
  /\ Len(frames) = 1
  /\ result' = "ok"
  /\ decoded' = Top.m
  /\ frames' = << >>
  /\ UNCHANGED << type, input, first, turns >>

\* The decoded message is marshalled, and the bytes are decoded by the receiver.
Forward ==
  /\ result = "ok"
  /\ first = << >>
  /\ first' = << decoded >>
  /\ LET out == Marshal(type, decoded)
     IN  /\ input' = out.dAtA
         /\ result' = IF out.panics THEN "panic" ELSE "running"
         /\ frames' = << Frame(type, out.dAtA, Default(type), "") >>
  /\ decoded' = << >>
  /\ turns' = 0
  /\ UNCHANGED type

Init ==
  /\ \E in \in Inputs :
       /\ type = in[1]
       /\ input = in[2]
       /\ frames = << Frame(in[1], in[2], Default(in[1]), "") >>
  /\ result = "running"
  /\ decoded = << >>
  /\ first = << >>
  /\ turns = 0

Next ==
  \/ Fail \/ DecodeVarint \/ DecodeBytes \/ DecodeMessage \/ SkipField
  \/ ReturnNested \/ Return \/ Forward

Spec == Init /\ [][Next]_vars
-----------------------------------------------------------------------------
(* The format, stated without the decoder: which byte strings are a message, *)
(* and what they mean.                                                     *)

MaxVarint == Width \div 7 + 1

IsVarint(s) ==
  /\ Len(s) \in 1 .. MaxVarint
  /\ \A k \in 1 .. Len(s) : s[k] < 128 <=> k = Len(s)

VarintValue(s) ==
  FoldLeft(LAMBDA n, b : n * 128 + (b % 128), 0, Reverse(s)) % 2^Width

\* s is a length and as many bytes.
IsDelimited(s) ==
  \E k \in 1 .. Len(s) : /\ IsVarint(SubSeq(s, 1, k))
                         /\ AsInt(VarintValue(SubSeq(s, 1, k))) = Len(s) - k

TagLength(s) == CHOOSE k \in 1 .. Len(s) : IsVarint(SubSeq(s, 1, k))
HasTag(s) == \E k \in 1 .. Len(s) : IsVarint(SubSeq(s, 1, k))
TagOf(s) == VarintValue(SubSeq(s, 1, TagLength(s)))
Body(s) == From(s, TagLength(s))

RECURSIVE IsItem(_), IsGroupBody(_)
\* s is a tag with the value its wire type announces; a group ends with an end
\* tag, of whatever number.
IsItem(s) ==
  /\ HasTag(s)
  /\ LET w == TagOf(s) % 8
         v == Body(s)
     IN  \/ w = 0 /\ IsVarint(v)
         \/ w = 1 /\ Len(v) = 8
         \/ w = 2 /\ IsDelimited(v)
         \/ w = 3 /\ IsGroupBody(v)
         \/ w = 5 /\ Len(v) = 4
IsGroupBody(s) ==
  \/ IsVarint(s) /\ VarintValue(s) % 8 = 4
  \/ \E k \in 1 .. Len(s) - 1 : IsItem(SubSeq(s, 1, k)) /\ IsGroupBody(From(s, k))

NumberOf(s) == Signed((TagOf(s) \div 8) % 2^FieldBits, FieldBits)
Content(s) == From(Body(s), TagLength(Body(s)))

RECURSIVE Wellformed(_, _)
IsField(t, s) ==
  /\ IsItem(s)
  /\ NumberOf(s) > 0
  /\ NumberOf(s) \in DOMAIN Codecs[t].unmarshal =>
       LET f == Codecs[t].unmarshal[NumberOf(s)]
       IN  /\ TagOf(s) % 8 = (IF f.kind = "varint" THEN 0 ELSE 2)
           /\ f.kind \in {"message", "repeated"} =>
                Wellformed(Embedded[f.name], Content(s))
Wellformed(t, s) ==
  \/ s = << >>
  \/ \E k \in 1 .. Len(s) : IsField(t, SubSeq(s, 1, k)) /\ Wellformed(t, From(s, k))

RECURSIVE Meaning(_, _, _)
\* m with the fields of s: a later value replaces, a message is merged, an
\* element is appended, an unknown field changes nothing.
Meaning(t, m, s) ==
  IF s = << >> THEN m
  ELSE LET k == CHOOSE k \in 1 .. Len(s) : IsField(t, SubSeq(s, 1, k))
           g == SubSeq(s, 1, k)
           f == Codecs[t].unmarshal[NumberOf(g)]
           sub == Embedded[f.name]
           v == CASE f.kind = "varint" -> VarintValue(Body(g))
                  [] f.kind = "bytes" -> Content(g)
                  [] f.kind = "message" ->
                       Meaning(sub, m[f.name], Content(g))
                  [] f.kind = "repeated" ->
                       Append(m[f.name],
                              Meaning(sub, Default(sub), Content(g)))
       IN  Meaning(t, IF NumberOf(g) \in DOMAIN Codecs[t].unmarshal
                      THEN [m EXCEPT ![f.name] = v] ELSE m,
                   From(s, k))
-----------------------------------------------------------------------------
(* Properties. *)

\* Neither Unmarshal nor Marshal indexes or slices out of range, whatever the
\* buffer is: every length and every sum of an index and a length is checked.
NoPanic ==
  /\ result # "panic"
  /\ \A k \in DOMAIN frames : frames[k].iNdEx \in 0 .. Len(frames[k].dAtA)

\* Unmarshal accepts exactly the byte strings that are a message of its type,
\* and gives the message they mean, fields it does not know left out.
DecodesTheFormat ==
  result \notin {"running", "panic"} =>
    /\ (result = "ok") <=> Wellformed(type, input)
    /\ result = "ok" => decoded = Meaning(type, Default(type), input)

\* Marshal fills exactly the Size() bytes it allocates, and what it writes is
\* decoded to the message it was given.
RoundTrip ==
  first # << >> =>
    /\ Len(input) = Size(type, first[1])
    /\ result \in {"running", "ok"}
    /\ result = "ok" => decoded = first[1]

\* Decoding ends whatever the buffer holds: a turn of the loop, at any level,
\* consumes at least two bytes that no other turn consumes.
DecodingEnds == 2 * turns <= Len(input)
=============================================================================
