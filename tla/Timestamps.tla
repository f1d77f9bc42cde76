----------------------------- MODULE Timestamps -----------------------------
(***************************************************************************)
(* The timestamp the consensus layer gives an execution block              *)
(* (cosmos/x/evm/keeper/keeper.go).  Both PrepareProposal, which asks the  *)
(* execution client for a block with this timestamp, and validatePayload,  *)
(* which requires it, call CalculateTimestamp.                             *)
(*                                                                         *)
(* A configuration is a record of                                          *)
(*   window      use_block_timestamp is present                            *)
(*   start       start_block_height                                        *)
(*   hasStop     stop_block_height is present                              *)
(*   stop        stop_block_height                                         *)
(*   offset      offset                                                    *)
(*   unixOffset  unix_timestamp_offset                                     *)
(* Seconds and heights are naturals: the values in use are far below 2^64. *)
(***************************************************************************)
EXTENDS Naturals

TimestampConfig ==
  [window : BOOLEAN, start : Nat, hasStop : BOOLEAN, stop : Nat,
   offset : Nat, unixOffset : Nat]

\* readConfig: a stop height below the start height is refused (panic).
ConfigAccepted(cfg) == cfg.window /\ cfg.hasStop => cfg.start <= cfg.stop

\* Mutant: the start height is not in the window.
InWindowAfterStart(cfg, height) ==
  /\ cfg.window
  /\ cfg.start < height
  /\ cfg.hasStop => height < cfg.stop

InWindow(cfg, height) ==
  /\ cfg.window
  /\ cfg.start <= height
  /\ cfg.hasStop => height < cfg.stop

\* Mutant: the fallback repeats the previous timestamp.
NotBefore(timestamp, previous) ==
  IF timestamp <= previous THEN previous ELSE timestamp

\* The fallback of both wall-clock branches.
After(timestamp, previous) ==
  IF timestamp <= previous THEN previous + 1 ELSE timestamp

UnixOffset(cfg, height) ==
  IF cfg.window /\ cfg.hasStop /\ cfg.stop <= height THEN cfg.unixOffset ELSE 0

\* The branch of the window returns without the fallback.
CalculateTimestamp(cfg, blockTime, height, previous) ==
  IF InWindow(cfg, height)
  THEN height + cfg.offset
  ELSE After(blockTime + UnixOffset(cfg, height), previous)
=============================================================================
