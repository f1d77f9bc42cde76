--------------------------- MODULE UpgradeAlerts ----------------------------
(***************************************************************************)
(* The alerts about software upgrades (cosmos/app/upgrade_logging.go,      *)
(* halt_logging.go, webhook_notifier.go and PreBlocker in app.go), around  *)
(* the x/upgrade module, which is external.                                *)
(*                                                                         *)
(* Each block runs PreBlocker, then transactions that may schedule or      *)
(* cancel a plan, then commits.  upgrade_scheduled is posted to the        *)
(* webhook by a goroutine; halt_triggered is posted before PreBlocker goes *)
(* on to x/upgrade, which stops the chain.  A process may be restarted at  *)
(* any point, with the old or the new binary; it forgets what it logged.   *)
(***************************************************************************)
EXTENDS Naturals, Sequences, FiniteSets

CONSTANTS
  Names, Infos,     \* names and info texts of plans
  Binaries,         \* the sets of plan names that binaries have handlers for
  SkipHeights,      \* heights given to --unsafe-skip-upgrades
  Webhook,          \* whether NEXUS_ALERT_WEBHOOK_URL is set
  MaxAttempts,      \* webhookNotifier.maxAttempts
  MaxHeight,        \* bound: heights
  MaxSchedules,     \* bound: plans scheduled
  MaxRestarts,      \* bound: restarts
  Nil               \* a value that is no plan

Plan == [name : Names, height : Nat, info : Infos]

ASSUME UpgradeAlertsAssumption ==
  /\ Binaries \subseteq SUBSET Names
  /\ SkipHeights \subseteq Nat
  /\ Webhook \in BOOLEAN
  /\ MaxAttempts \in Nat \ {0}
  /\ MaxHeight \in Nat /\ MaxSchedules \in Nat /\ MaxRestarts \in Nat
  /\ Nil \notin Plan /\ Nil \notin Names

VARIABLES
  height,      \* the height of the block being executed
  phase,       \* where in the block, or how the chain was stopped
  plan,        \* the committed plan, or Nil
  stored,      \* the plan in the state of the block being executed
  applied,     \* names of the upgrades applied, in order
  binary,      \* the plan names this binary has a handler for
  last,        \* upgradeNotifier: the plan last logged, or Nil
  log,         \* the events logged, by all processes
  started,     \* events logged before this process started
  posts,       \* webhook posts being attempted
  schedules, restarts

vars == <<height, phase, plan, stored, applied, binary, last, log, started, posts,
          schedules, restarts>>

Event == [event : {"upgrade_scheduled", "halt_triggered"}, plan : Plan, at : Nat]
Post == [id : Nat, event : {"upgrade_scheduled", "halt_triggered"}, tries : Nat]

Init ==
  /\ height = 1 /\ phase = "pre"
  /\ plan = Nil /\ stored = Nil /\ applied = <<>>
  /\ binary \in Binaries
  /\ last = Nil /\ log = <<>> /\ started = 0 /\ posts = {}
  /\ schedules = 0 /\ restarts = 0

---------------------------------------------------------------------------
\* PreBlocker.

Due == plan # Nil /\ plan.height <= height

LogEvent(event) ==
  log' = Append(log, [event |-> event, plan |-> plan, at |-> height])

NewPost(event) == [id |-> Len(log) + 1, event |-> event, tries |-> 0]

HaltTriggeredOnTime ==
  plan # Nil /\ plan.height = height /\ height \notin SkipHeights /\ plan.name \notin binary

HaltTriggered == Due /\ height \notin SkipHeights /\ plan.name \notin binary

LogHaltUnwaited ==
  /\ phase = "pre" /\ height <= MaxHeight
  /\ phase' = "logged"
  /\ IF HaltTriggered
     THEN /\ LogEvent("halt_triggered")
          /\ posts' = IF Webhook THEN posts \cup {NewPost("halt_triggered")} ELSE posts
     ELSE UNCHANGED <<log, posts>>
  /\ UNCHANGED <<height, plan, stored, applied, binary, last, started, schedules,
                 restarts>>

\* logHaltIfTriggered logs, and does not return before the post is over.
LogHaltIfTriggered ==
  /\ phase = "pre" /\ height <= MaxHeight
  /\ phase' = IF HaltTriggered /\ Webhook THEN "notify" ELSE "logged"
  /\ IF HaltTriggered
     THEN /\ LogEvent("halt_triggered")
          /\ posts' = IF Webhook THEN posts \cup {NewPost("halt_triggered")} ELSE posts
     ELSE UNCHANGED <<log, posts>>
  /\ UNCHANGED <<height, plan, stored, applied, binary, last, started, schedules,
                 restarts>>

IsNewPlanByHeight == last = Nil \/ plan.name # last.name \/ plan.height # last.height

IsNewPlanAlways == TRUE

\* Whether the plan differs from the one logged last, in name, height or info.
IsNewPlan == plan # last

MaybeLogNewPlan ==
  IF plan = Nil
  THEN last' = Nil /\ UNCHANGED <<log, posts>>
  ELSE IF ~Due /\ IsNewPlan
  THEN /\ last' = plan
       /\ LogEvent("upgrade_scheduled")
       /\ posts' = IF Webhook THEN posts \cup {NewPost("upgrade_scheduled")} ELSE posts
  ELSE UNCHANGED <<last, log, posts>>

\* x/upgrade: an upgrade that is due needs its handler, unless it is skipped.
UpgradeNeeded == Due /\ height \notin SkipHeights /\ plan.name \notin binary

\* x/upgrade refuses a binary without the handler of the last upgrade, and one
\* with the handler of an upgrade that is not due.
WrongBinary ==
  \/ /\ applied # <<>> /\ applied[Len(applied)] \notin binary
     /\ ~Due \/ height \in SkipHeights
  \/ plan # Nil /\ ~Due /\ plan.name \in binary

PreBlock ==
  IF UpgradeNeeded \/ WrongBinary
  THEN /\ phase' = IF UpgradeNeeded THEN "needed" ELSE "refused"
       /\ UNCHANGED <<stored, applied>>
  ELSE /\ phase' = "txs"
       /\ stored' = IF Due THEN Nil ELSE plan
       /\ applied' = IF Due /\ height \notin SkipHeights
                     THEN Append(applied, plan.name) ELSE applied

\* The rest of PreBlocker, once logHaltIfTriggered has returned.
PreBlocker ==
  /\ phase = "logged"
  /\ MaybeLogNewPlan
  /\ PreBlock
  /\ UNCHANGED <<height, plan, binary, started, schedules, restarts>>

---------------------------------------------------------------------------
\* The rest of the block, and the process.

\* A plan may be scheduled for the height of the block itself.
ScheduleUpgrade ==
  /\ phase = "txs" /\ schedules < MaxSchedules
  /\ \E name \in Names, at \in height..MaxHeight, info \in Infos :
       /\ \A i \in DOMAIN applied : applied[i] # name
       /\ stored' = [name |-> name, height |-> at, info |-> info]
  /\ schedules' = schedules + 1
  /\ UNCHANGED <<height, phase, plan, applied, binary, last, log, started, posts, restarts>>

CancelUpgrade ==
  /\ phase = "txs" /\ stored # Nil
  /\ stored' = Nil
  /\ UNCHANGED <<height, phase, plan, applied, binary, last, log, started, posts,
                 schedules, restarts>>

Commit ==
  /\ phase = "txs"
  /\ plan' = stored
  /\ height' = height + 1 /\ phase' = "pre"
  /\ UNCHANGED <<stored, applied, binary, last, log, started, posts, schedules, restarts>>

\* What was not committed is lost: an upgrade applied in this block too.
Restart ==
  /\ restarts < MaxRestarts
  /\ binary' \in Binaries
  /\ phase' = "pre" /\ stored' = plan
  /\ applied' = IF phase = "txs" /\ Due /\ height \notin SkipHeights
                THEN SubSeq(applied, 1, Len(applied) - 1) ELSE applied
  /\ last' = Nil /\ started' = Len(log) /\ posts' = {}
  /\ restarts' = restarts + 1
  /\ UNCHANGED <<height, plan, log, schedules>>

---------------------------------------------------------------------------
\* Notify, one attempt of a post at a time.

\* logHaltIfTriggered returns when its post is over.
PostDone(post) ==
  /\ posts' = posts \ {post}
  /\ phase' = IF phase = "notify" /\ post.event = "halt_triggered" THEN "logged" ELSE phase

\* Received, or refused with a status that is not retried.
PostAnswered(post) ==
  /\ PostDone(post)
  /\ UNCHANGED <<height, plan, stored, applied, binary, last, log, started, schedules,
                 restarts>>

PostRetried(post, tries) ==
  /\ posts' = (posts \ {post}) \cup {[post EXCEPT !.tries = tries]}
  /\ UNCHANGED phase

PostFailedForever(post) ==
  /\ PostRetried(post, IF post.tries + 1 >= MaxAttempts THEN 0 ELSE post.tries + 1)
  /\ UNCHANGED <<height, plan, stored, applied, binary, last, log, started, schedules,
                 restarts>>

\* No answer in time, or a 5xx: also when the post was received.
PostFailed(post) ==
  /\ IF post.tries + 1 >= MaxAttempts
     THEN PostDone(post) ELSE PostRetried(post, post.tries + 1)
  /\ UNCHANGED <<height, plan, stored, applied, binary, last, log, started, schedules,
                 restarts>>

\* The chain is stopped, or the bound is reached.
Stopped ==
  /\ phase \in {"needed", "refused"} \/ height > MaxHeight
  /\ posts = {}
  /\ UNCHANGED vars

Next ==
  \/ LogHaltIfTriggered \/ PreBlocker
  \/ ScheduleUpgrade \/ CancelUpgrade \/ Commit \/ Restart
  \/ \E post \in posts : PostAnswered(post) \/ PostFailed(post)
  \/ Stopped

Spec == Init /\ [][Next]_vars

\* Consensus executes blocks; a post has a deadline, so an attempt ends.
Fairness ==
  /\ WF_vars(LogHaltIfTriggered) /\ WF_vars(PreBlocker) /\ WF_vars(Commit)
  /\ WF_vars(\E post \in posts : PostAnswered(post) \/ PostFailed(post))

FairSpec == Spec /\ Fairness

---------------------------------------------------------------------------
\* Properties.

Scheduled == {i \in DOMAIN log : log[i].event = "upgrade_scheduled"}
Halts == {i \in DOMAIN log : log[i].event = "halt_triggered"}

\* Every variable of the alerts has its type.
TypeOK ==
  /\ height \in 1..MaxHeight + 1
  /\ phase \in {"pre", "notify", "logged", "txs", "needed", "refused"}
  /\ plan \in Plan \cup {Nil} /\ stored \in Plan \cup {Nil} /\ last \in Plan \cup {Nil}
  /\ applied \in Seq(Names)
  /\ binary \in Binaries
  /\ log \in Seq(Event)
  /\ started \in 0..Len(log)
  /\ posts \subseteq Post
  /\ schedules \in 0..MaxSchedules /\ restarts \in 0..MaxRestarts

\* Once PreBlocker is past, a pending plan that is not due is the last one this
\* process has announced: after any cancellation, rescheduling in the same
\* block, restart or replay of a block.
PendingIsAnnounced ==
  phase = "txs" /\ plan # Nil /\ plan.height > height =>
    \E i \in Scheduled :
      /\ i > started /\ log[i].plan = plan
      /\ \A j \in Scheduled : j <= i

\* Announcements do not repeat block after block: each is owed to a plan that
\* was scheduled or to a restart.
AnnouncedSparingly == Cardinality(Scheduled) <= schedules + restarts

\* A process that logs halt_triggered is stopped by x/upgrade in that block,
\* and one that x/upgrade stops for want of a handler has logged it: the
\* conditions of logHaltIfTriggered are those of the module.
HaltIsAnnounced ==
  /\ phase = "needed" => \E i \in Halts : i > started
  /\ phase \in {"pre", "txs", "refused"} => \A i \in Halts : i <= started

\* The chain does not stop while its halt_triggered is still being posted, so
\* that no restart or shutdown can drop the alert.
HaltAlertNotDropped ==
  phase = "needed" => \A post \in posts : post.event # "halt_triggered"

\* An endpoint that is slow or down does not keep the chain from its halt, nor
\* from its next block: a post ends within its attempts.
NotifyEnds == phase = "notify" ~> phase # "notify"
=============================================================================
