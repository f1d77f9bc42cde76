---------------------------- MODULE WireMessages ----------------------------
(***************************************************************************)
(* The protobuf messages of x/evm and x/globalfee, as the generated code   *)
(* knows them.  Three functions of a message list its fields, each on its  *)
(* own: MarshalToSizedBuffer (from the last field to the first, with the   *)
(* tag byte it writes), Size, and the switch of Unmarshal (by number, with *)
(* the wire type it demands).  They are transcribed one by one: that they  *)
(* fit together is a property, not a convention of this module.            *)
(*                                                                         *)
(* A field is "varint" (uint64), "bytes" ([]byte or string, which the code *)
(* treats alike), "message" (embedded by value) or "repeated" (a slice of  *)
(* messages).                                                              *)
(***************************************************************************)
EXTENDS Naturals, Sequences

Put(tag, kind, name) == [tag |-> tag, kind |-> kind, name |-> name]
Add(kind, name) == [kind |-> kind, name |-> name]
Take(wire, kind, name) == [wire |-> wire, kind |-> kind, name |-> name]

\* The message type of an embedded or repeated field.
Embedded ==
  [Params |-> "Params", Deposits |-> "DepositRequest",
   Withdrawals |-> "WithdrawalRequest"]
-----------------------------------------------------------------------------
(* consensus.pb.go *)

\* Mutant: two tags swapped.
WithdrawalRequestTagsSwapped ==
  << Put(24, "varint", "Amount"), Put(10, "bytes", "ValidatorPubkey"),
     Put(18, "bytes", "SourceAddress") >>

WithdrawalRequestMarshal ==
  << Put(24, "varint", "Amount"), Put(18, "bytes", "ValidatorPubkey"),
     Put(10, "bytes", "SourceAddress") >>

WithdrawalRequestSize ==
  << Add("bytes", "SourceAddress"), Add("bytes", "ValidatorPubkey"),
     Add("varint", "Amount") >>

WithdrawalRequestUnmarshal ==
  << Take(2, "bytes", "SourceAddress"), Take(2, "bytes", "ValidatorPubkey"),
     Take(0, "varint", "Amount") >>

DepositRequestMarshal ==
  << Put(40, "varint", "Index"), Put(34, "bytes", "Signature"),
     Put(24, "varint", "Amount"), Put(18, "bytes", "WithdrawalCredentials"),
     Put(10, "bytes", "Pubkey") >>

DepositRequestSize ==
  << Add("bytes", "Pubkey"), Add("bytes", "WithdrawalCredentials"),
     Add("varint", "Amount"), Add("bytes", "Signature"),
     Add("varint", "Index") >>

DepositRequestUnmarshal ==
  << Take(2, "bytes", "Pubkey"), Take(2, "bytes", "WithdrawalCredentials"),
     Take(0, "varint", "Amount"), Take(2, "bytes", "Signature"),
     Take(0, "varint", "Index") >>

ConsensusRequestsMarshal ==
  << Put(18, "repeated", "Withdrawals"), Put(10, "repeated", "Deposits") >>

ConsensusRequestsSize ==
  << Add("repeated", "Deposits"), Add("repeated", "Withdrawals") >>

ConsensusRequestsUnmarshal ==
  << Take(2, "repeated", "Deposits"), Take(2, "repeated", "Withdrawals") >>
-----------------------------------------------------------------------------
(* genesis.pb.go *)

GenesisStateMarshal ==
  << Put(40, "varint", "CurrentBlockTimestamp"),
     Put(32, "varint", "CurrentBlockHeight"),
     Put(26, "bytes", "CurrentBlockHash"),
     Put(18, "bytes", "GenesisExecutionBlockHash"),
     Put(10, "message", "Params") >>

GenesisStateSize ==
  << Add("message", "Params"), Add("bytes", "GenesisExecutionBlockHash"),
     Add("bytes", "CurrentBlockHash"), Add("varint", "CurrentBlockHeight"),
     Add("varint", "CurrentBlockTimestamp") >>

GenesisStateUnmarshal ==
  << Take(2, "message", "Params"),
     Take(2, "bytes", "GenesisExecutionBlockHash"),
     Take(2, "bytes", "CurrentBlockHash"),
     Take(0, "varint", "CurrentBlockHeight"),
     Take(0, "varint", "CurrentBlockTimestamp") >>
-----------------------------------------------------------------------------
(* params.pb.go, query.pb.go and the two module.pb.go *)

ParamsMarshal == << >>
ParamsSize == << >>
ParamsUnmarshal == << >>

QueryParamsRequestMarshal == << >>
QueryParamsRequestSize == << >>
QueryParamsRequestUnmarshal == << >>

QueryParamsResponseMarshal == << Put(10, "message", "Params") >>
QueryParamsResponseSize == << Add("message", "Params") >>
QueryParamsResponseUnmarshal == << Take(2, "message", "Params") >>

EvmModuleMarshal == << Put(10, "bytes", "Authority") >>
EvmModuleSize == << Add("bytes", "Authority") >>
EvmModuleUnmarshal == << Take(2, "bytes", "Authority") >>

GlobalfeeModuleMarshal == << Put(10, "bytes", "Authority") >>
GlobalfeeModuleSize == << Add("bytes", "Authority") >>
GlobalfeeModuleUnmarshal == << Take(2, "bytes", "Authority") >>
-----------------------------------------------------------------------------
(* tx.pb.go *)

MsgUpdateParamsMarshal ==
  << Put(18, "message", "Params"), Put(10, "bytes", "Authority") >>
MsgUpdateParamsSize == << Add("bytes", "Authority"), Add("message", "Params") >>

MsgUpdateParamsUnmarshal ==
  << Take(2, "bytes", "Authority"), Take(2, "message", "Params") >>

MsgUpdateParamsResponseMarshal == << >>
MsgUpdateParamsResponseSize == << >>
MsgUpdateParamsResponseUnmarshal == << >>

MsgExecutionPayloadMarshal ==
  << Put(18, "bytes", "ExecutionPayload"), Put(10, "bytes", "Authority") >>
MsgExecutionPayloadSize ==
  << Add("bytes", "Authority"), Add("bytes", "ExecutionPayload") >>
MsgExecutionPayloadUnmarshal ==
  << Take(2, "bytes", "Authority"), Take(2, "bytes", "ExecutionPayload") >>

MsgExecutionPayloadResponseMarshal == << >>
MsgExecutionPayloadResponseSize == << >>
MsgExecutionPayloadResponseUnmarshal == << >>
-----------------------------------------------------------------------------
Codec(m, s, u) == [marshal |-> m, size |-> s, unmarshal |-> u]

Codecs ==
  [WithdrawalRequest |->
     Codec(WithdrawalRequestMarshal, WithdrawalRequestSize,
           WithdrawalRequestUnmarshal),
   DepositRequest |->
     Codec(DepositRequestMarshal, DepositRequestSize, DepositRequestUnmarshal),
   ConsensusRequests |->
     Codec(ConsensusRequestsMarshal, ConsensusRequestsSize,
           ConsensusRequestsUnmarshal),
   GenesisState |->
     Codec(GenesisStateMarshal, GenesisStateSize, GenesisStateUnmarshal),
   Params |-> Codec(ParamsMarshal, ParamsSize, ParamsUnmarshal),
   QueryParamsRequest |->
     Codec(QueryParamsRequestMarshal, QueryParamsRequestSize,
           QueryParamsRequestUnmarshal),
   QueryParamsResponse |->
     Codec(QueryParamsResponseMarshal, QueryParamsResponseSize,
           QueryParamsResponseUnmarshal),
   EvmModule |-> Codec(EvmModuleMarshal, EvmModuleSize, EvmModuleUnmarshal),
   GlobalfeeModule |->
     Codec(GlobalfeeModuleMarshal, GlobalfeeModuleSize,
           GlobalfeeModuleUnmarshal),
   MsgUpdateParams |->
     Codec(MsgUpdateParamsMarshal, MsgUpdateParamsSize,
           MsgUpdateParamsUnmarshal),
   MsgUpdateParamsResponse |->
     Codec(MsgUpdateParamsResponseMarshal, MsgUpdateParamsResponseSize,
           MsgUpdateParamsResponseUnmarshal),
   MsgExecutionPayload |->
     Codec(MsgExecutionPayloadMarshal, MsgExecutionPayloadSize,
           MsgExecutionPayloadUnmarshal),
   MsgExecutionPayloadResponse |->
     Codec(MsgExecutionPayloadResponseMarshal, MsgExecutionPayloadResponseSize,
           MsgExecutionPayloadResponseUnmarshal)]

MessageTypes == DOMAIN Codecs
=============================================================================
