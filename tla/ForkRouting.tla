---------------------------- MODULE ForkRouting -----------------------------
(***************************************************************************)
(* Which version of the Engine API the consensus client (CL) calls, and    *)
(* which one the execution client (EL) accepts.  Each side reads its own   *)
(* fork times from its own file when it starts (cosmos/app/chain.go,       *)
(* app/types/chain.go; reth/evm/src/nexus.rs, main.rs), and the EL lays    *)
(* its file's times over those of the genesis.  Operators change the files *)
(* one at a time, with a restart, while blocks are produced.               *)
(*                                                                         *)
(* A block is fetched with getPayload by its proposer and, once decided,   *)
(* sent with newPayload.  A refused getPayload costs the round, a refused  *)
(* newPayload is retried for as long as it takes.                          *)
(***************************************************************************)
EXTENDS Naturals

CONSTANTS
  ClFiles,       \* what the CL may find: fork times in its file, NoPath or BadFile
  ElFiles,       \* fork times the EL's file may hold
  ElGenesis,     \* fork times of the EL's genesis
  Unset,         \* no fork time
  NoPath,        \* NEXUS_CONFIG_PATH is not set
  BadFile,       \* it names a file that is missing, unreadable or does not decode
  Down,          \* a process that did not start
  MaxTime,       \* bound: timestamps
  MaxReloads     \* bound: restarts of either process

ForkTime == Nat \cup {Unset}
ClForks == [prague : ForkTime, osaka : ForkTime, amsterdam : ForkTime]
ElForks == [prague : ForkTime, osaka : ForkTime]

ASSUME ForkRoutingAssumption ==
  /\ ClFiles \subseteq ClForks \cup {NoPath, BadFile} /\ ElFiles \subseteq ElForks
  /\ ElGenesis \in ElForks
  /\ Unset \notin Nat /\ NoPath \notin ClForks /\ BadFile \notin ClForks
  /\ NoPath # BadFile
  /\ Down \notin ClForks /\ Down \notin ElForks
  /\ MaxTime \in Nat /\ MaxReloads \in Nat

VARIABLES
  cl,        \* the CL's ChainSpec, or Down
  el,        \* the EL's fork times, or Down
  time,      \* timestamp of the last committed payload
  call,      \* "idle", "get" (preparing) or "send" (decided, finalizing)
  stamp,     \* timestamp of the payload in hand
  answer,    \* what the EL said to the last call, "none" after a restart
  settled,   \* neither process restarted since the payload was fetched
  reloads

forkVars == <<cl, el, time, call, stamp, answer, settled, reloads>>

---------------------------------------------------------------------------
\* The CL's schedule.

Active(fork, t) == fork # Unset /\ t >= fork

\* Mutant: the fork starts after its activation time.
ActiveAfter(fork, t) == fork # Unset /\ t > fork

IsActive(fork, t) == fork # Unset /\ t >= fork

Follows(fork, previous) == fork # Unset => previous # Unset /\ fork >= previous

Validate(spec) == Follows(spec.osaka, spec.prague) /\ Follows(spec.amsterdam, spec.osaka)

\* ReadConfigFile returns an error only when the path is not set, which gives
\* the empty schedule; a file that is missing or cannot be read or decoded, and
\* a schedule that is not in order, are panics.
LoadChainSpec(file) ==
  IF file = NoPath THEN [prague |-> Unset, osaka |-> Unset, amsterdam |-> Unset]
  ELSE IF file # BadFile /\ Validate(file) THEN file
  ELSE Down

GetPayloadEngineRPCVersion(t) ==
  IF IsActive(cl.osaka, t) THEN 5 ELSE IF IsActive(cl.prague, t) THEN 4 ELSE 3

\* Mutant: newPayload moves to its next version with Osaka, as getPayload does.
NewVersionOfGet(t) == GetPayloadEngineRPCVersion(t)

NewPayloadEngineRPCVersion(t) ==
  IF IsActive(cl.amsterdam, t) THEN 5 ELSE IF IsActive(cl.prague, t) THEN 4 ELSE 3

---------------------------------------------------------------------------
\* The EL's schedule, and the versions it accepts.

ElValidate(file) == file.prague # Unset /\ file.osaka # Unset => file.osaka > file.prague

Overlaid(fork, genesis) == IF fork = Unset THEN genesis ELSE fork

ApplyForks(file) ==
  IF ElValidate(file)
  THEN [prague |-> Overlaid(file.prague, ElGenesis.prague), osaka |-> Overlaid(file.osaka, ElGenesis.osaka)]
  ELSE Down

ElGetVersion(t) == IF Active(el.osaka, t) THEN 5 ELSE IF Active(el.prague, t) THEN 4 ELSE 3

\* The EL has no Amsterdam time: it serves no fifth newPayload.
ElNewVersion(t) == IF Active(el.prague, t) THEN 4 ELSE 3

---------------------------------------------------------------------------
Running == cl # Down /\ el # Down

ForkInit ==
  /\ \E c \in ClFiles : cl = LoadChainSpec(c)
  /\ \E e \in ElFiles : el = ApplyForks(e)
  /\ time = 0 /\ call = "idle" /\ stamp = 0
  /\ answer = "none" /\ settled = FALSE /\ reloads = 0

PrepareProposal ==
  /\ Running /\ call = "idle"
  /\ \E t \in (time + 1)..MaxTime : stamp' = t
  /\ call' = "get"
  /\ UNCHANGED <<cl, el, time, answer, settled, reloads>>

GetPayload ==
  /\ Running /\ call = "get"
  /\ IF ElGetVersion(stamp) = GetPayloadEngineRPCVersion(stamp)
     THEN call' = "send" /\ answer' = "ok" /\ settled' = TRUE
     ELSE call' = "get" /\ answer' = "refused" /\ settled' = FALSE
  /\ UNCHANGED <<cl, el, time, stamp, reloads>>

\* PrepareProposal's time runs out, or another proposer's round replaces it.
GiveUp ==
  /\ cl # Down /\ call = "get"
  /\ call' = "idle" /\ answer' = "none"
  /\ UNCHANGED <<cl, el, time, stamp, settled, reloads>>

\* The decided payload may be another proposer's.
DecideOther ==
  /\ cl # Down /\ call \in {"idle", "get"}
  /\ \E t \in (time + 1)..MaxTime : stamp' = t
  /\ call' = "send" /\ answer' = "none" /\ settled' = FALSE
  /\ UNCHANGED <<cl, el, time, reloads>>

\* Mutant: a refused block is dropped, and another one is prepared.
SendPayloadOnce ==
  /\ Running /\ call = "send"
  /\ IF ElNewVersion(stamp) = NewPayloadEngineRPCVersion(stamp)
     THEN call' = "idle" /\ time' = stamp /\ answer' = "ok"
     ELSE call' = "get" /\ time' = time /\ answer' = "refused"
  /\ settled' = FALSE
  /\ UNCHANGED <<cl, el, stamp, reloads>>

SendPayload ==
  /\ Running /\ call = "send"
  /\ IF ElNewVersion(stamp) = NewPayloadEngineRPCVersion(stamp)
     THEN call' = "idle" /\ time' = stamp /\ answer' = "ok"
     ELSE call' = "send" /\ time' = time /\ answer' = "refused"
  /\ settled' = FALSE
  /\ UNCHANGED <<cl, el, stamp, reloads>>

\* A decided block is replayed after the restart; a prepared one is lost.
RestartCl ==
  /\ reloads < MaxReloads
  /\ \E c \in ClFiles : cl' = LoadChainSpec(c)
  /\ call' = IF call = "get" THEN "idle" ELSE call
  /\ answer' = "none" /\ settled' = FALSE /\ reloads' = reloads + 1
  /\ UNCHANGED <<el, time, stamp>>

\* The CL keeps calling while the EL restarts.
RestartEl ==
  /\ reloads < MaxReloads
  /\ \E e \in ElFiles : el' = ApplyForks(e)
  /\ answer' = "none" /\ settled' = FALSE /\ reloads' = reloads + 1
  /\ UNCHANGED <<cl, time, call, stamp>>

ForkNext ==
  \/ PrepareProposal \/ GetPayload \/ GiveUp \/ DecideOther \/ SendPayload
  \/ RestartCl \/ RestartEl

ForkSpec == ForkInit /\ [][ForkNext]_forkVars

\* FinalizeBlock repeats the call until the EL answers it.
FairForkSpec == ForkSpec /\ WF_forkVars(SendPayload)

---------------------------------------------------------------------------
\* Properties.

\* Every variable has its type: a CL that runs has an ordered schedule.
ForkTypeOK ==
  /\ cl # Down => cl \in ClForks /\ Validate(cl)
  /\ el # Down => el \in ElForks
  /\ time \in 0..MaxTime /\ stamp \in 0..MaxTime
  /\ call \in {"idle", "get", "send"}
  /\ answer \in {"none", "ok", "refused"}
  /\ settled \in BOOLEAN /\ reloads \in 0..MaxReloads

\* The forks the two sides hold active at a time are the same.
AlignedAt(t) ==
  /\ Active(cl.prague, t) = Active(el.prague, t)
  /\ Active(cl.osaka, t) = Active(el.osaka, t)
  /\ ~Active(cl.amsterdam, t)

\* Calls are refused only where the schedules disagree at the very timestamp
\* of the payload: a difference in the past or in the future does no harm,
\* and neither does the activation second itself.
RefusedOnlyIfMisaligned == Running /\ answer = "refused" => ~AlignedAt(stamp)

\* A payload that its proposer could fetch can also be finalized, with the
\* processes it was fetched with and before Amsterdam: disagreement shows where
\* it costs a round, not where it stops the chain.
FetchedIsSendable ==
  call = "send" /\ settled /\ ~Active(cl.amsterdam, stamp)
    => ElNewVersion(stamp) = NewPayloadEngineRPCVersion(stamp)

\* Once the operators have aligned the two schedules for good, a decided
\* payload is finalized, also one the EL had refused, without another restart.
ResumesWhenAligned ==
  <>[](Running /\ \A t \in 0..MaxTime : AlignedAt(t)) => (call = "send" ~> call = "idle")
=============================================================================
