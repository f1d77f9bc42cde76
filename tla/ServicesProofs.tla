-------------------------- MODULE ServicesProofs ----------------------------
(***************************************************************************)
(* Proofs about three parts of nexusd beside the payload life cycle: the   *)
(* upgrade alerts of UpgradeAlerts, for any plans, binaries, heights to    *)
(* skip, number of attempts and bounds, with and without a webhook; the    *)
(* Engine API versions of ForkRouting, for any fork times in the two files *)
(* and any number of restarts; and the readiness endpoint of Readiness,    *)
(* for any limit, any number of blocks without a payload, any heights and  *)
(* any number of faults.                                                   *)
(***************************************************************************)
EXTENDS UpgradeAlerts, ForkRouting, Readiness, TLAPS

---------------------------------------------------------------------------
\* UpgradeAlerts: the inductive invariant.

\* An upgrade that the block in execution has applied can be taken back.
AppliedHere ==
  phase = "txs" /\ Due /\ height \notin SkipHeights => applied # <<>>

\* What upgradeNotifier remembers is what this process announced last, and
\* PreBlocker leaves it at the pending plan.
Announced(p) ==
  \E i \in Scheduled :
    /\ i > started /\ log[i].plan = p
    /\ \A j \in Scheduled : j <= i

LastAnnounced ==
  /\ last # Nil => Announced(last)
  /\ phase = "txs" /\ plan # Nil /\ ~Due => last = plan

\* The block in execution is one that x/upgrade will stop, and
\* logHaltIfTriggered is past.
Halting ==
  phase \in {"notify", "needed"} \/ (phase = "logged" /\ HaltTriggered)

HaltLogged ==
  /\ phase = "notify" => HaltTriggered
  /\ Halting => \E i \in Halts : i > started
  /\ ~Halting => \A i \in Halts : i <= started

\* There is one halt_triggered to post, and PreBlocker waits for it.
HaltPosted ==
  \A p, q \in posts :
    p.event = "halt_triggered" /\ q.event = "halt_triggered" =>
      p = q /\ phase = "notify"

\* A block is executed up to the bound only.
WithinBound == phase # "pre" => height <= MaxHeight

AlertInv ==
  TypeOK /\ WithinBound /\ AppliedHere /\ LastAnnounced /\ HaltLogged /\ HaltPosted

---------------------------------------------------------------------------
\* What an event logged changes, and what a step without one leaves alone.

\* An event goes to the end of the log, and to the one kind it is of.
LEMMA EventLogged ==
  ASSUME log \in Seq(Event), NEW e \in Event, log' = Append(log, e)
  PROVE  /\ log' \in Seq(Event) /\ Len(log) \in Nat /\ Len(log') = Len(log) + 1
         /\ \A i \in 1..Len(log) : log'[i] = log[i]
         /\ log'[Len(log) + 1] = e
         /\ Scheduled \subseteq 1..Len(log) /\ Halts \subseteq 1..Len(log)
         /\ Scheduled' = IF e.event = "upgrade_scheduled"
                         THEN Scheduled \cup {Len(log) + 1} ELSE Scheduled
         /\ Halts' = IF e.event = "halt_triggered"
                     THEN Halts \cup {Len(log) + 1} ELSE Halts
  BY DEF Scheduled, Halts

\* The events of either kind are positions in the log.
LEMMA Positions ==
  ASSUME log \in Seq(Event)
  PROVE  Len(log) \in Nat /\ Scheduled \subseteq 1..Len(log) /\ Halts \subseteq 1..Len(log)
  BY DEF Scheduled, Halts

\* The event that LogEvent builds from a plan.
LEMMA EventType ==
  ASSUME TypeOK, plan # Nil, NEW kind \in {"upgrade_scheduled", "halt_triggered"}
  PROVE  /\ [event |-> kind, plan |-> plan, at |-> height] \in Event
         /\ NewPost(kind) \in Post /\ NewPost(kind).event = kind
  BY DEF TypeOK, Event, Post, NewPost

---------------------------------------------------------------------------
\* The steps of a block.

\* logHaltIfTriggered keeps the invariant: it logs a halt exactly when
\* x/upgrade will stop the block, and announces no plan.
LEMMA LogHaltStep == AlertInv /\ LogHaltIfTriggered => AlertInv'
  <1> SUFFICES ASSUME AlertInv, LogHaltIfTriggered PROVE AlertInv'
    OBVIOUS
  <1> USE DEF AlertInv
  <1>a. /\ phase = "pre" /\ phase' \in {"notify", "logged"}
        /\ UNCHANGED <<height, plan, stored, applied, binary, last, started, schedules,
                       restarts>>
    BY DEF LogHaltIfTriggered
  <1>b. HaltTriggered' = HaltTriggered /\ Due' = Due
    BY <1>a DEF HaltTriggered, Due
  <1>c. AppliedHere' /\ WithinBound'
    BY DEF AppliedHere, WithinBound, LogHaltIfTriggered
  <1>d. log \in Seq(Event) /\ started \in 0..Len(log) /\ Len(log) \in Nat
    BY DEF TypeOK
  <1>1. CASE HaltTriggered
    <2> DEFINE e == [event |-> "halt_triggered", plan |-> plan, at |-> height]
    <2>1. plan # Nil /\ e \in Event
      BY <1>1, EventType DEF HaltTriggered, Due
    <2>2. log' = Append(log, e)
      BY <1>1 DEF LogHaltIfTriggered, LogEvent
    <2>3. /\ log' \in Seq(Event) /\ Len(log') = Len(log) + 1
          /\ \A i \in 1..Len(log) : log'[i] = log[i]
          /\ Scheduled \subseteq 1..Len(log) /\ Scheduled' = Scheduled
          /\ Halts' = Halts \cup {Len(log) + 1}
      BY <1>d, <2>1, <2>2, EventLogged
    <2>4. posts' = IF Webhook THEN posts \cup {NewPost("halt_triggered")} ELSE posts
      BY <1>1 DEF LogHaltIfTriggered
    <2>5. TypeOK'
      BY <2>1, <2>4, EventType, <1>a, <2>3 DEF TypeOK
    <2>6. LastAnnounced'
      BY <1>a, <2>3 DEF LastAnnounced, Announced
    <2>7. HaltLogged'
      <3>1. HaltTriggered' /\ Halting'
        BY <1>1, <1>a, <1>b DEF Halting
      <3>2. Len(log) + 1 \in Halts' /\ Len(log) + 1 > started'
        BY <1>a, <1>d, <2>3
      <3> QED
        BY <3>1, <3>2 DEF HaltLogged
    <2>8. HaltPosted'
      BY DEF HaltPosted, LogHaltIfTriggered
    <2> QED
      BY <1>c, <2>5, <2>6, <2>7, <2>8
  <1>2. CASE ~HaltTriggered
    <2>1. UNCHANGED <<log, posts>> /\ phase' = "logged"
      BY <1>2 DEF LogHaltIfTriggered
    <2>2. Scheduled' = Scheduled /\ Halts' = Halts
      BY <2>1 DEF Scheduled, Halts
    <2>3. TypeOK'
      BY <1>a, <2>1 DEF TypeOK
    <2>4. LastAnnounced'
      BY <1>a, <2>1, <2>2 DEF LastAnnounced, Announced
    <2>5. HaltLogged'
      BY <1>2, <1>a, <1>b, <2>1, <2>2 DEF HaltLogged, Halting
    <2>6. HaltPosted'
      BY <1>a, <2>1 DEF HaltPosted
    <2> QED
      BY <1>c, <2>3, <2>4, <2>5, <2>6
  <1> QED
    BY <1>1, <1>2

\* The rest of PreBlocker keeps the invariant: a plan is announced only when
\* the announcement is owed, and x/upgrade stops the block whose halt is logged.
LEMMA PreBlockerStep == AlertInv /\ PreBlocker => AlertInv'
  <1> SUFFICES ASSUME AlertInv, PreBlocker PROVE AlertInv'
    OBVIOUS
  <1> USE DEF AlertInv
  <1>a. /\ phase = "logged" /\ phase' \in {"needed", "refused", "txs"}
        /\ phase' = "needed" <=> HaltTriggered
        /\ UNCHANGED <<height, plan, binary, started, schedules, restarts>>
    BY DEF PreBlocker, PreBlock, UpgradeNeeded, HaltTriggered
  <1>b. HaltTriggered' = HaltTriggered /\ Due' = Due
    BY <1>a DEF HaltTriggered, Due
  <1>c. /\ log \in Seq(Event) /\ started \in 0..Len(log) /\ Len(log) \in Nat
        /\ Scheduled \subseteq 1..Len(log) /\ Halts \subseteq 1..Len(log)
    BY Positions DEF TypeOK
  <1>e. AppliedHere' /\ applied' \in Seq(Names) /\ stored' \in Plan \cup {Nil}
    <2>1. CASE phase' = "txs" /\ Due /\ height \notin SkipHeights
      <3>1. applied' = Append(applied, plan.name)
        BY <2>1 DEF PreBlocker, PreBlock
      <3>2. applied \in Seq(Names) /\ plan.name \in Names
        BY <2>1 DEF TypeOK, Due, Plan
      <3>3. applied' \in Seq(Names) /\ applied' # <<>>
        BY <3>1, <3>2
      <3>4. stored' = Nil
        BY <2>1 DEF PreBlocker, PreBlock
      <3> QED
        BY <3>3, <3>4 DEF AppliedHere
    <2>2. CASE ~(phase' = "txs" /\ Due /\ height \notin SkipHeights)
      BY <2>2, <1>b DEF PreBlocker, PreBlock, AppliedHere, TypeOK
    <2> QED
      BY <2>1, <2>2
  <1>g. WithinBound'
    BY <1>a DEF WithinBound
  <1>f. \A p \in posts : p.event # "halt_triggered"
    BY <1>a DEF HaltPosted
  <1>1. CASE ~Due /\ plan # Nil /\ plan # last
    <2> DEFINE e == [event |-> "upgrade_scheduled", plan |-> plan, at |-> height]
    <2>1. /\ log' = Append(log, e) /\ last' = plan
          /\ posts' = IF Webhook THEN posts \cup {NewPost("upgrade_scheduled")} ELSE posts
      BY <1>1 DEF PreBlocker, MaybeLogNewPlan, IsNewPlan, LogEvent
    <2>2. /\ e \in Event /\ NewPost("upgrade_scheduled") \in Post
          /\ NewPost("upgrade_scheduled").event = "upgrade_scheduled"
      BY <1>1, EventType
    <2>3. /\ log' \in Seq(Event) /\ Len(log') = Len(log) + 1
          /\ log'[Len(log) + 1] = e
          /\ Scheduled' = Scheduled \cup {Len(log) + 1}
          /\ Halts' = Halts
      BY <1>c, <2>1, <2>2, EventLogged
    <2>4. TypeOK'
      BY <2>1, <2>2, <1>a, <1>e DEF TypeOK
    <2>5. LastAnnounced'
      BY <1>a, <1>c, <2>1, <2>3 DEF LastAnnounced, Announced
    <2>6. HaltLogged'
      BY <1>a, <2>3 DEF HaltLogged, Halting
    <2>7. HaltPosted'
      BY <1>f, <2>1, <2>2 DEF HaltPosted
    <2> QED
      BY <1>e, <1>g, <2>4, <2>5, <2>6, <2>7
  <1>2. CASE Due \/ plan = Nil \/ plan = last
    <2>1. /\ UNCHANGED <<log, posts>>
          /\ IF plan = Nil THEN last' = Nil ELSE last' = last
      BY <1>2 DEF PreBlocker, MaybeLogNewPlan, IsNewPlan
    <2>2. Scheduled' = Scheduled /\ Halts' = Halts
      BY <2>1 DEF Scheduled, Halts
    <2>3. TypeOK'
      BY <1>a, <1>e, <2>1 DEF TypeOK
    <2>4. LastAnnounced'
      BY <1>2, <1>a, <1>b, <2>1, <2>2 DEF LastAnnounced, Announced
    <2>5. HaltLogged'
      BY <1>a, <2>2 DEF HaltLogged, Halting
    <2>6. HaltPosted'
      BY <1>f, <2>1 DEF HaltPosted
    <2> QED
      BY <1>e, <1>g, <2>3, <2>4, <2>5, <2>6
  <1> QED
    BY <1>1, <1>2

\* Transactions that change the plan, and the commit of the block.
LEMMA BlockStep ==
  AlertInv /\ (ScheduleUpgrade \/ CancelUpgrade \/ Commit) => AlertInv'
  <1> SUFFICES ASSUME AlertInv, ScheduleUpgrade \/ CancelUpgrade \/ Commit
               PROVE  AlertInv'
    OBVIOUS
  <1> USE DEF AlertInv
  <1>a. /\ phase = "txs" /\ phase' \in {"txs", "pre"}
        /\ UNCHANGED <<applied, binary, last, log, started, posts, restarts>>
    BY DEF ScheduleUpgrade, CancelUpgrade, Commit
  <1>b. Scheduled' = Scheduled /\ Halts' = Halts
    BY <1>a, Zenon DEF Scheduled, Halts
  <1>c. /\ UNCHANGED <<height, plan>> \/ phase' = "pre"
        /\ height \in Nat /\ height >= 1 /\ MaxHeight \in Nat
    BY UpgradeAlertsAssumption
       DEF ScheduleUpgrade, CancelUpgrade, Commit, TypeOK
  <1>1. stored' \in Plan \cup {Nil}
    <2>1. CASE ScheduleUpgrade
      <3>1. PICK name \in Names, at \in height..MaxHeight, info \in Infos :
              stored' = [name |-> name, height |-> at, info |-> info]
        BY <2>1 DEF ScheduleUpgrade
      <3> QED
        BY <1>c, <3>1 DEF Plan
    <2>2. CASE CancelUpgrade \/ Commit
      BY <2>2, ZenonT(60) DEF CancelUpgrade, Commit, TypeOK
    <2> QED
      BY <2>1, <2>2
  <1>2. TypeOK'
    BY <1>1, <1>a, UpgradeAlertsAssumption, <1>c, SMTT(30)
       DEF ScheduleUpgrade, TypeOK, CancelUpgrade, WithinBound, Commit
  <1>3. AppliedHere' /\ WithinBound'
    BY <1>a, <1>c DEF AppliedHere, WithinBound, Due
  <1>4. LastAnnounced'
    BY <1>a, <1>b, <1>c DEF LastAnnounced, Announced, Due
  <1>5. HaltLogged'
    BY <1>a, <1>b DEF HaltLogged, Halting
  <1>6. HaltPosted'
    BY <1>a DEF HaltPosted
  <1> QED
    BY <1>2, <1>3, <1>4, <1>5, <1>6

---------------------------------------------------------------------------
\* The process and its posts.

\* A restart forgets what was logged and posted, and may have to announce the
\* pending plan once more.
LEMMA RestartStep == AlertInv /\ Restart => AlertInv'
  <1> SUFFICES ASSUME AlertInv, Restart PROVE AlertInv'
    OBVIOUS
  <1> USE DEF AlertInv
  <1>a. /\ phase' = "pre" /\ stored' = plan /\ last' = Nil /\ started' = Len(log)
        /\ posts' = {} /\ restarts < MaxRestarts /\ restarts' = restarts + 1
        /\ UNCHANGED <<height, plan, log, schedules>>
    BY DEF Restart
  <1>b. /\ Scheduled' = Scheduled /\ Halts' = Halts
        /\ Len(log) \in Nat /\ Halts \subseteq 1..Len(log)
    BY <1>a DEF Scheduled, Halts, TypeOK
  <1>1. applied' \in Seq(Names)
    BY DEF AppliedHere, TypeOK, Restart
  <1>2. TypeOK'
    BY UpgradeAlertsAssumption DEF Restart, TypeOK
  <1>3. WithinBound' /\ AppliedHere' /\ LastAnnounced' /\ HaltPosted'
    BY <1>a DEF WithinBound, AppliedHere, LastAnnounced, HaltPosted
  <1>4. HaltLogged'
    BY <1>a, <1>b DEF HaltLogged, Halting
  <1> QED
    BY <1>2, <1>3, <1>4

\* An attempt of a post ends: the post stays, with another attempt to come, or
\* is over, and then PreBlocker goes on if it was the one it waited for.
LEMMA PostStep ==
  ASSUME AlertInv, NEW post \in posts, PostAnswered(post) \/ PostFailed(post)
  PROVE  AlertInv'
  <1> USE DEF AlertInv
  <1>a. UNCHANGED <<height, plan, stored, applied, binary, last, log, started, schedules,
                    restarts>>
    BY DEF PostAnswered, PostFailed
  <1>b. PostDone(post) \/ PostRetried(post, post.tries + 1)
    BY DEF PostAnswered, PostFailed
  <1>c. /\ Scheduled' = Scheduled /\ Halts' = Halts
        /\ HaltTriggered' = HaltTriggered /\ Due' = Due
    BY <1>a DEF Scheduled, Halts, HaltTriggered, Due
  <1>d. /\ phase' = phase \/ (phase = "notify" /\ phase' = "logged")
        /\ phase' # phase => posts' = posts \ {post} /\ post.event = "halt_triggered"
    BY <1>b DEF PostDone, PostRetried
  <1>e. post \in Post
    BY DEF TypeOK
  <1>f. posts' = posts \ {post}
        \/ posts' = (posts \ {post}) \cup {[post EXCEPT !.tries = post.tries + 1]}
    BY <1>b DEF PostDone, PostRetried
  <1>g. LET q == [post EXCEPT !.tries = post.tries + 1]
        IN  q \in Post /\ q.event = post.event
    BY <1>e DEF Post
  <1>1. TypeOK'
    BY <1>f, <1>g, <1>a, <1>d DEF TypeOK
  <1>2. AppliedHere' /\ WithinBound'
    BY <1>a, <1>c, <1>d DEF AppliedHere, WithinBound
  <1>3. LastAnnounced'
    BY <1>a, <1>c, <1>d DEF LastAnnounced, Announced
  <1>4. HaltLogged'
    BY <1>a, <1>c, <1>d DEF HaltLogged, Halting
  <1>5. HaltPosted'
    BY <1>f, <1>g, <1>d, Zenon DEF HaltPosted
  <1> QED
    BY <1>1, <1>2, <1>3, <1>4, <1>5

---------------------------------------------------------------------------
\* The alerts are what x/upgrade does.

\* The invariant holds in every state that the application reaches.
LEMMA AlertInvariance == Spec => []AlertInv
  <1>1. Init => AlertInv
    <2> SUFFICES ASSUME Init PROVE AlertInv
      OBVIOUS
    <2>1. Scheduled = {} /\ Halts = {}
      BY DEF Init, Scheduled, Halts
    <2>2. TypeOK
      BY UpgradeAlertsAssumption DEF Init, TypeOK
    <2> QED
      BY <2>1, <2>2
         DEF Init, AlertInv, WithinBound, AppliedHere, LastAnnounced,
             HaltLogged, Halting, HaltPosted
  <1>2. AlertInv /\ [Next]_vars => AlertInv'
    <2> SUFFICES ASSUME AlertInv, [Next]_vars PROVE AlertInv'
      BY ZenonT(60)
    <2>1. CASE UNCHANGED vars
      BY <2>1
         DEF vars, AlertInv, TypeOK, WithinBound, AppliedHere, LastAnnounced,
             Announced, HaltLogged, Halting, HaltTriggered, Due, HaltPosted,
             Scheduled, Halts
    <2>2. CASE Stopped
      BY <2>1, <2>2 DEF Stopped
    <2> QED
      BY <2>1, <2>2, LogHaltStep, PreBlockerStep, BlockStep, RestartStep,
         PostStep
         DEF Next
  <1> QED
    BY <1>1, <1>2, PTL DEF Spec

\* Every variable of the alerts keeps its type: the restart that takes back an
\* upgrade of the block in execution finds one to take back.
THEOREM AlertTypes == Spec => []TypeOK
  BY AlertInvariance DEF AlertInv

\* A pending plan is the last one that this process has announced, whatever
\* was cancelled, rescheduled or restarted before.
THEOREM PendingAnnounced == Spec => []PendingIsAnnounced
  <1>1. AlertInv => PendingIsAnnounced
    <2> SUFFICES ASSUME AlertInv, phase = "txs", plan # Nil, plan.height > height
                 PROVE  Announced(plan)
      BY DEF PendingIsAnnounced, Announced
    <2>1. ~Due
      BY DEF Due, AlertInv, TypeOK, Plan
    <2> QED
      BY <2>1 DEF AlertInv, LastAnnounced
  <1> QED
    BY <1>1, AlertInvariance, PTL

\* halt_triggered is logged in exactly the blocks that x/upgrade stops for want
\* of a handler: by the process that is stopped, and by no other.
THEOREM HaltAnnounced == Spec => []HaltIsAnnounced
  <1>1. AlertInv => HaltIsAnnounced
    BY DEF AlertInv, HaltLogged, Halting, HaltIsAnnounced
  <1> QED
    BY <1>1, AlertInvariance, PTL

\* The chain does not stop before the post of its halt_triggered is over.
THEOREM HaltAlertKept == Spec => []HaltAlertNotDropped
  <1>1. AlertInv => HaltAlertNotDropped
    BY DEF AlertInv, HaltPosted, HaltAlertNotDropped
  <1> QED
    BY <1>1, AlertInvariance, PTL

---------------------------------------------------------------------------
\* UpgradeAlerts: the number of announcements.

\* What is used of finite sets and their sizes.
Fin(S) == IsFiniteSet(S)
Size(S) == Cardinality(S)

SizeFacts ==
  /\ Fin({}) /\ Size({}) = 0
  /\ \A S : Fin(S) => Size(S) \in Nat
  /\ \A S : Fin(S) => \A x : x \notin S => Fin(S \cup {x}) /\ Size(S \cup {x}) = Size(S) + 1

\* The next plan that PreBlocker sees, and whether it is one to announce.
Ahead == IF phase = "txs" THEN stored ELSE plan
Owed == IF Ahead # Nil /\ Ahead # last THEN 1 ELSE 0

AnnouncementsPaid ==
  Fin(Scheduled) /\ Size(Scheduled) + Owed <= schedules + restarts

\* The numbers that are compared.
LEMMA Counts ==
  ASSUME SizeFacts, TypeOK, AnnouncementsPaid
  PROVE  /\ Size(Scheduled) \in Nat /\ schedules \in Nat /\ restarts \in Nat
         /\ Owed \in {0, 1} /\ Owed' \in {0, 1}
  <1>1. Size(Scheduled) \in Nat
    BY Zenon DEF SizeFacts, AnnouncementsPaid
  <1>2. schedules \in Nat /\ restarts \in Nat
    BY DEF TypeOK
  <1>3. Owed \in {0, 1} /\ Owed' \in {0, 1}
    BY Zenon DEF Owed
  <1> QED
    BY <1>1, <1>2, <1>3, Zenon

\* PreBlocker announces a plan only when that is owed.
LEMMA PreBlockerPays ==
  ASSUME SizeFacts, AlertInv, AnnouncementsPaid, PreBlocker
  PROVE  AnnouncementsPaid'
  <1>a. /\ phase = "logged" /\ phase' \in {"needed", "refused", "txs"}
        /\ UNCHANGED <<plan, schedules, restarts>>
    BY Zenon DEF PreBlocker, PreBlock
  <1>b. /\ Ahead = plan /\ Ahead' \in {plan, Nil}
        /\ ~Due => Ahead' = plan
    BY <1>a DEF PreBlocker, PreBlock, Ahead
  <1>c. /\ Size(Scheduled) \in Nat /\ schedules \in Nat /\ restarts \in Nat
        /\ Owed \in {0, 1}
    BY Counts, Zenon DEF AlertInv
  <1>1. CASE ~Due /\ plan # Nil /\ plan # last
    <2> DEFINE e == [event |-> "upgrade_scheduled", plan |-> plan, at |-> height]
    <2>1. log' = Append(log, e) /\ last' = plan
      BY <1>1, Zenon DEF PreBlocker, MaybeLogNewPlan, IsNewPlan, LogEvent
    <2>2. e \in Event /\ log \in Seq(Event)
      BY <1>1, EventType, Zenon DEF AlertInv, TypeOK
    <2>3. Scheduled' = Scheduled \cup {Len(log) + 1} /\ Len(log) + 1 \notin Scheduled
      BY <2>1, <2>2, EventLogged
    <2>4. Fin(Scheduled') /\ Size(Scheduled') = Size(Scheduled) + 1
      BY <2>3, Zenon DEF AnnouncementsPaid, SizeFacts
    <2>5. Owed = 1 /\ Owed' = 0
      BY <1>1, <1>b, <2>1, Zenon DEF Owed
    <2> QED
      BY <1>a, <1>c, <2>4, <2>5 DEF AnnouncementsPaid
  <1>2. CASE Due \/ plan = Nil \/ plan = last
    <2>1. UNCHANGED log /\ (IF plan = Nil THEN last' = Nil ELSE last' = last)
      BY <1>2, Zenon DEF PreBlocker, MaybeLogNewPlan, IsNewPlan
    <2>2. Scheduled' = Scheduled
      BY <2>1, Zenon DEF Scheduled
    <2>3. Owed' = 0 \/ Owed' = Owed
      BY <2>1, <1>b, Zenon DEF Owed
    <2> QED
      BY <1>a, <1>c, <2>2, <2>3 DEF AnnouncementsPaid
  <1> QED
    BY <1>1, <1>2, Zenon

\* A plan that is scheduled and a restart pay for one announcement; nothing
\* else makes one due.
LEMMA OthersPay ==
  ASSUME SizeFacts, AlertInv, AnnouncementsPaid,
         \/ LogHaltIfTriggered \/ ScheduleUpgrade \/ CancelUpgrade \/ Commit \/ Restart
         \/ \E post \in posts : PostAnswered(post) \/ PostFailed(post)
         \/ UNCHANGED vars
  PROVE  AnnouncementsPaid'
  <1>a. /\ Size(Scheduled) \in Nat /\ schedules \in Nat /\ restarts \in Nat
        /\ Owed \in {0, 1} /\ Owed' \in {0, 1}
    BY Counts, Zenon DEF AlertInv
  <1>b. Scheduled' = Scheduled
    <2>1. CASE LogHaltIfTriggered /\ HaltTriggered
      <3> DEFINE e == [event |-> "halt_triggered", plan |-> plan, at |-> height]
      <3>1. log' = Append(log, e)
        BY <2>1, Zenon DEF LogHaltIfTriggered, LogEvent
      <3>2. e \in Event /\ log \in Seq(Event)
        BY <2>1, EventType DEF HaltTriggered, Due, AlertInv, TypeOK
      <3> QED
        BY <3>1, <3>2, EventLogged
    <2>2. CASE ~(LogHaltIfTriggered /\ HaltTriggered)
      <3>1. UNCHANGED log
        BY <2>2, Zenon
           DEF LogHaltIfTriggered, ScheduleUpgrade, CancelUpgrade, Commit,
               Restart, PostAnswered, PostFailed, vars
      <3> QED
        BY <3>1, Zenon DEF Scheduled
    <2> QED
      BY <2>1, <2>2, Zenon
  <1>1. CASE ScheduleUpgrade \/ Restart
    <2>1. schedules' + restarts' = schedules + restarts + 1
      BY <1>1, <1>a DEF ScheduleUpgrade, Restart
    <2> QED
      BY <1>a, <1>b, <2>1, SMTT(30) DEF AnnouncementsPaid
  <1>2. CASE ~(ScheduleUpgrade \/ Restart)
    <2>1. UNCHANGED <<schedules, restarts>>
      BY <1>2, Zenon
         DEF LogHaltIfTriggered, CancelUpgrade, Commit, PostAnswered,
             PostFailed, vars
    <2>2. UNCHANGED last
      BY <1>2, Zenon
         DEF LogHaltIfTriggered, CancelUpgrade, Commit, PostAnswered,
             PostFailed, vars
    <2>3. Ahead' \in {Ahead, Nil}
      BY <1>2
         DEF LogHaltIfTriggered, CancelUpgrade, Commit, PostAnswered,
             PostFailed, PostDone, PostRetried, vars, Ahead
    <2>4. Owed' = 0 \/ Owed' = Owed
      BY <2>2, <2>3, Zenon DEF Owed
    <2> QED
      BY <1>a, <1>b, <2>1, <2>4 DEF AnnouncementsPaid
  <1> QED
    BY <1>1, <1>2, Zenon

\* Every announcement is paid for, from the start on.
LEMMA PaidInvariance ==
  ASSUME SizeFacts
  PROVE  Spec => []AnnouncedSparingly
  <1>1. Init => AnnouncementsPaid
    <2> SUFFICES ASSUME Init PROVE AnnouncementsPaid
      OBVIOUS
    <2>1. Scheduled = {} /\ Owed = 0
      BY DEF Init, Scheduled, Owed, Ahead
    <2>2. Fin(Scheduled) /\ Size(Scheduled) = 0
      BY <2>1, Zenon DEF SizeFacts
    <2> QED
      BY <2>1, <2>2 DEF Init, AnnouncementsPaid
  <1>2. AlertInv /\ AnnouncementsPaid /\ [Next]_vars => AnnouncementsPaid'
    BY PreBlockerPays, OthersPay, Zenon DEF Next, Stopped
  <1>3. AlertInv /\ AnnouncementsPaid => AnnouncedSparingly
    <2> SUFFICES ASSUME AlertInv, AnnouncementsPaid PROVE AnnouncedSparingly
      OBVIOUS
    <2>1. /\ Size(Scheduled) \in Nat /\ schedules \in Nat /\ restarts \in Nat
          /\ Owed \in {0, 1}
      BY Counts, Zenon DEF AlertInv
    <2> QED
      BY <2>1 DEF AnnouncementsPaid, AnnouncedSparingly, Size
  <1> QED
    BY <1>1, <1>2, <1>3, AlertInvariance, PTL DEF Spec

---------------------------------------------------------------------------
\* What the genesis files of mainnet, testnet and devnet hold.
PragueFromGenesis == ElGenesis.prague = 0 /\ ElGenesis.osaka = Unset

---------------------------------------------------------------------------
\* ForkRouting: the inductive invariants.

\* An answer is about the payload in hand, and a fetched one is to be sent.
AnswerInPlace ==
  /\ answer = "refused" => call # "idle"
  /\ settled => call = "send" /\ Running

RefusalInv == ForkTypeOK /\ AnswerInPlace /\ RefusedOnlyIfMisaligned

\* An EL never has Osaka active without Prague.
ElOrdered == el # Down => Follows(el.osaka, el.prague)

FetchInv == RefusalInv /\ ElOrdered /\ FetchedIsSendable

---------------------------------------------------------------------------
\* ForkRouting: the schedules.

\* The CL starts with an ordered schedule or not at all.
LEMMA LoadType ==
  ASSUME NEW c \in ClFiles
  PROVE  LoadChainSpec(c) # Down =>
           LoadChainSpec(c) \in ClForks /\ Validate(LoadChainSpec(c))
  BY ForkRoutingAssumption, Zenon
     DEF LoadChainSpec, ClForks, ForkTime, Validate, Follows

\* The EL starts with the times of its file over those of the genesis.
LEMMA ApplyType ==
  ASSUME NEW e \in ElFiles
  PROVE  ApplyForks(e) # Down => ApplyForks(e) \in ElForks
  BY ForkRoutingAssumption, ZenonT(60) DEF ApplyForks, Overlaid, ElForks

\* With Prague in the genesis and no Osaka, a file that the EL accepts leaves
\* Osaka at or after Prague.
LEMMA ApplyOrdered ==
  ASSUME PragueFromGenesis, NEW e \in ElFiles, ApplyForks(e) # Down
  PROVE  Follows(ApplyForks(e).osaka, ApplyForks(e).prague)
  BY ForkRoutingAssumption
     DEF ElForks, ApplyForks, PragueFromGenesis, Overlaid, Follows,
         ElValidate, ForkTime

\* In an ordered schedule a fork is active only with the one before it.
LEMMA ActiveInOrder ==
  ASSUME NEW fork \in ForkTime, NEW previous \in ForkTime, Follows(fork, previous),
         NEW t \in Nat, Active(fork, t)
  PROVE  Active(previous, t)
  BY DEF Follows, Active, ForkTime

\* Schedules that agree at a time give the same versions at that time.
LEMMA AlignedVersions ==
  ASSUME NEW t, AlignedAt(t)
  PROVE  /\ ElGetVersion(t) = GetPayloadEngineRPCVersion(t)
         /\ ElNewVersion(t) = NewPayloadEngineRPCVersion(t)
  BY DEF AlignedAt, ElGetVersion, GetPayloadEngineRPCVersion, ElNewVersion,
     NewPayloadEngineRPCVersion, IsActive, Active

\* Schedules that agree on getPayload agree on Prague, and so on newPayload
\* before Amsterdam.
LEMMA SameGetSameNew ==
  ASSUME cl \in ClForks, el \in ElForks, Validate(cl), Follows(el.osaka, el.prague),
         NEW t \in Nat, ElGetVersion(t) = GetPayloadEngineRPCVersion(t),
         ~Active(cl.amsterdam, t)
  PROVE  ElNewVersion(t) = NewPayloadEngineRPCVersion(t)
  BY ActiveInOrder
     DEF ClForks, Validate, ElForks, IsActive, Active, ElGetVersion,
         GetPayloadEngineRPCVersion, ElNewVersion, NewPayloadEngineRPCVersion

---------------------------------------------------------------------------
\* ForkRouting: the steps.

\* The invariant of the refusals holds initially and is kept by every step.
LEMMA RefusalInvariance == ForkSpec => []RefusalInv
  <1>1. ForkInit => RefusalInv
    <2> SUFFICES ASSUME ForkInit PROVE RefusalInv
      OBVIOUS
    <2>1. cl # Down => cl \in ClForks /\ Validate(cl)
      BY LoadType DEF ForkInit
    <2>2. el # Down => el \in ElForks
      BY ApplyType DEF ForkInit
    <2>3. ForkTypeOK
      <3>1. time \in 0..MaxTime /\ stamp \in 0..MaxTime /\ reloads \in 0..MaxReloads
        BY ForkRoutingAssumption DEF ForkInit
      <3>2. call = "idle" /\ answer = "none" /\ settled \in BOOLEAN
        BY Zenon DEF ForkInit
      <3> QED
        BY <2>1, <2>2, <3>1, <3>2, Zenon DEF ForkTypeOK
    <2> QED
      BY <2>3 DEF ForkInit, RefusalInv, AnswerInPlace, RefusedOnlyIfMisaligned
  <1>2. RefusalInv /\ [ForkNext]_forkVars => RefusalInv'
    <2> SUFFICES ASSUME RefusalInv, [ForkNext]_forkVars PROVE RefusalInv'
      OBVIOUS
    <2> USE DEF RefusalInv
    <2>a. MaxTime \in Nat /\ MaxReloads \in Nat
      BY ForkRoutingAssumption, ZenonT(60)
    <2>1. CASE UNCHANGED forkVars
      BY <2>1
         DEF forkVars, ForkTypeOK, AnswerInPlace, RefusedOnlyIfMisaligned,
             Running, AlignedAt
    <2>2. CASE PrepareProposal
      <3>1. AnswerInPlace' /\ RefusedOnlyIfMisaligned'
        BY <2>2, Zenon DEF PrepareProposal, AnswerInPlace, RefusedOnlyIfMisaligned
      <3>2. ForkTypeOK'
        BY <2>2 DEF PrepareProposal, ForkTypeOK
      <3> QED
        BY <3>1, <3>2, Zenon
    <2>3. CASE GetPayload
      BY <2>3, AlignedVersions, Zenon
         DEF GetPayload, RefusedOnlyIfMisaligned, AlignedAt, ForkTypeOK,
             AnswerInPlace, Running
    <2>4. CASE GiveUp
      BY <2>4 DEF GiveUp, ForkTypeOK, AnswerInPlace, RefusedOnlyIfMisaligned
    <2>5. CASE DecideOther
      <3>1. ForkTypeOK'
        <4>1. stamp' \in 0..MaxTime
          BY <2>5 DEF DecideOther, ForkTypeOK
        <4> QED
          BY <2>5, <4>1, Zenon DEF DecideOther, ForkTypeOK
      <3> QED
        BY <2>5, <3>1 DEF DecideOther, AnswerInPlace, RefusedOnlyIfMisaligned
    <2>6. CASE SendPayload
      BY <2>6, AlignedVersions, Zenon
         DEF SendPayload, RefusedOnlyIfMisaligned, AlignedAt, ForkTypeOK,
             AnswerInPlace
    <2>7. CASE RestartCl
      <3>1. cl' # Down => cl' \in ClForks /\ Validate(cl')
        BY <2>7, LoadType DEF RestartCl
      <3>2. ForkTypeOK'
        <4>1. reloads' \in 0..MaxReloads
          BY <2>7, <2>a DEF RestartCl, ForkTypeOK
        <4> QED
          BY <2>7, <3>1, <4>1, Zenon DEF RestartCl, ForkTypeOK
      <3> QED
        BY <2>7, <3>2 DEF RestartCl, AnswerInPlace, RefusedOnlyIfMisaligned
    <2>8. CASE RestartEl
      <3>1. el' # Down => el' \in ElForks
        BY <2>8, ApplyType DEF RestartEl
      <3>2. ForkTypeOK'
        <4>1. reloads' \in 0..MaxReloads
          BY <2>8, <2>a DEF RestartEl, ForkTypeOK
        <4> QED
          BY <2>8, <3>1, <4>1, Zenon DEF RestartEl, ForkTypeOK
      <3> QED
        BY <2>8, <3>2 DEF RestartEl, AnswerInPlace, RefusedOnlyIfMisaligned
    <2> QED
      BY <2>1, <2>2, <2>3, <2>4, <2>5, <2>6, <2>7, <2>8 DEF ForkNext
  <1> QED
    BY <1>1, <1>2, PTL DEF ForkSpec

\* The invariant of the fetched payloads, with the genesis files as they are.
LEMMA FetchInvariance ==
  ASSUME PragueFromGenesis
  PROVE  ForkSpec => []FetchInv
  <1>1. ForkInit => ElOrdered /\ FetchedIsSendable
    BY ApplyOrdered DEF ForkInit, ElOrdered, FetchedIsSendable
  <1>2. RefusalInv /\ FetchInv /\ [ForkNext]_forkVars => (ElOrdered /\ FetchedIsSendable)'
    <2> SUFFICES ASSUME FetchInv, [ForkNext]_forkVars PROVE ElOrdered' /\ FetchedIsSendable'
      BY Zenon
    <2> USE DEF FetchInv, RefusalInv
    <2>1. CASE UNCHANGED <<cl, el, stamp, call, settled>>
      BY <2>1, ZenonT(60)
         DEF ElOrdered, FetchedIsSendable, ElNewVersion,
             NewPayloadEngineRPCVersion
    <2>2. CASE UNCHANGED el /\ settled' = FALSE
      BY <2>2 DEF ElOrdered, FetchedIsSendable
    <2>3. CASE RestartEl
      BY <2>3, ApplyOrdered, ZenonT(60) DEF RestartEl, ElOrdered, FetchedIsSendable
    <2>4. CASE GetPayload /\ settled'
      BY <2>4, SameGetSameNew
         DEF GetPayload, Running, ForkTypeOK, ElOrdered, FetchedIsSendable,
             ElNewVersion, NewPayloadEngineRPCVersion
    <2>5. CASE PrepareProposal \/ GiveUp
      BY <2>5, <2>2, Zenon DEF PrepareProposal, GiveUp, ForkTypeOK, AnswerInPlace
    <2>6. CASE GetPayload /\ ~settled'
      BY <2>2, <2>6, Zenon DEF GetPayload
    <2>7. CASE DecideOther \/ SendPayload \/ RestartCl
      BY <2>2, <2>7, Zenon DEF DecideOther, SendPayload, RestartCl
    <2> QED
      BY <2>1, <2>3, <2>4, <2>5, <2>6, <2>7 DEF ForkNext, forkVars
  <1> QED
    BY <1>1, <1>2, RefusalInvariance, PTL DEF ForkSpec, FetchInv

---------------------------------------------------------------------------
\* A refused call is a disagreement of the two schedules at the timestamp of
\* the payload, whatever the schedules are elsewhere and whoever restarts.
THEOREM RefusalsMisaligned == ForkSpec => []RefusedOnlyIfMisaligned
  BY RefusalInvariance DEF RefusalInv

\* With the genesis files as they are, a payload that getPayload returned is
\* one that newPayload takes, before Amsterdam and with the same processes.
THEOREM FetchedSendable ==
  ASSUME PragueFromGenesis
  PROVE  ForkSpec => []FetchedIsSendable
  BY FetchInvariance DEF FetchInv

---------------------------------------------------------------------------
\* Readiness.

\* The height of the head is a height, below the node's, and grows with it.
LEMMA HeadBounds ==
  ASSUME NEW h \in Nat
  PROVE  /\ HeadAt(h) \in Nat /\ HeadAt(h) <= h
         /\ HeadAt(h) <= HeadAt(h + 1)
  BY ReadinessAssumption DEF HeadAt

\* A request does not move the chain: an answer ends it, a stage that passes
\* leaves the head it has read, and the peer reports the height it has.
LEMMA RequestTypes ==
  ASSUME ReadyTypeOK,
         \/ RunReadinessChecks \/ CheckLocalCometNotCatchingUp
         \/ ProbeCommittedExecutionHead \/ SendPeerRequest \/ PeerReports
         \/ CheckTrustedPeerLag \/ StageFails
  PROVE  ReadyTypeOK'
  <1>1. /\ UNCHANGED chain
        /\ stage' \in {"idle", "comet", "reth", "peer", "asked", "reported"}
        /\ head' \in {head, HeadAt(local)}
        /\ reported' \in {reported, peer} /\ arrived' \in {arrived, peer}
        /\ stage' = "reported" => reported' = peer /\ arrived' = arrived
        /\ verdict' \in {verdict, "ok", "head_lag"} \cup Stages
        /\ stage' = "idle" \/ local > 0
    <2>1. local \in Nat
      BY DEF ReadyTypeOK
    <2>2. CASE RunReadinessChecks
      BY <2>1, <2>2 DEF RunReadinessChecks, Answer, Stages, request
    <2>3. CASE CheckLocalCometNotCatchingUp
      BY <2>3 DEF CheckLocalCometNotCatchingUp, Answer, Stages, ReadyTypeOK, request
    <2>4. CASE ProbeCommittedExecutionHead
      BY <2>4 DEF ProbeCommittedExecutionHead, Answer, Stages, ReadyTypeOK, request
    <2>5. CASE SendPeerRequest
      BY <2>5 DEF SendPeerRequest, Answer, Stages, ReadyTypeOK, request
    <2>6. CASE PeerReports
      BY <2>6 DEF PeerReports, ReadyTypeOK
    <2>7. CASE CheckTrustedPeerLag
      BY <2>7 DEF CheckTrustedPeerLag, Answer, request
    <2>8. CASE StageFails
      BY <2>8, SMTT(30) DEF StageFails, Answer, Stages, request
    <2> QED
      BY <2>2, <2>3, <2>4, <2>5, <2>6, <2>7, <2>8
  <1>2. faults' \in 0..MaxFaults
    BY ReadinessAssumption
       DEF RunReadinessChecks, CheckLocalCometNotCatchingUp,
           ProbeCommittedExecutionHead, SendPeerRequest, PeerReports,
           CheckTrustedPeerLag, StageFails, ReadyTypeOK
  <1>3. HeadAt(local) \in 0..HeadAt(local) /\ peer \in 0..peer
    BY HeadBounds DEF ReadyTypeOK
  <1>4. UNCHANGED <<tip, local, peer, catching, elHead>>
    BY <1>1 DEF chain
  <1>5. HeadAt(local)' = HeadAt(local)
    BY <1>4 DEF HeadAt
  <1>6. head' \in 0..HeadAt(local)'
    BY <1>1, <1>3, <1>5 DEF ReadyTypeOK
  <1>7. /\ reported' \in 0..peer' /\ arrived' \in 0..peer'
        /\ stage' = "reported" => arrived' <= reported'
    BY <1>1, <1>3, <1>4 DEF ReadyTypeOK
  <1>8. verdict' \in {"none", "ok"} \cup Stages
    BY <1>1 DEF ReadyTypeOK, Stages
  <1>9. /\ tip' \in 0..MaxTip /\ local' \in 0..tip' /\ peer' \in 0..tip'
        /\ catching' \in BOOLEAN /\ elHead' \in 0..HeadAt(local)'
    BY <1>4, <1>5 DEF ReadyTypeOK
  <1>10. stage' # "idle" => local' > 0
    BY <1>1, <1>4
  <1> QED
    BY <1>1, <1>2, <1>6, <1>7, <1>8, <1>9, <1>10, Zenon DEF ReadyTypeOK

\* Blocks and faults around a request leave the head it has read at or below
\* the committed one, and the peer's report at or below the peer's height.
LEMMA ChainTypes ==
  ASSUME ReadyTypeOK,
         \/ Decide \/ CommitLocal \/ CommitPeer \/ SwitchToConsensus \/ ElRestart
         \/ ElSync
  PROVE  ReadyTypeOK'
  <1>1. /\ tip \in Nat /\ local \in Nat /\ peer \in Nat /\ elHead \in Nat /\ head \in Nat
        /\ local <= tip /\ peer <= tip /\ tip <= MaxTip /\ MaxTip \in Nat
        /\ HeadAt(local) \in Nat /\ elHead <= HeadAt(local) /\ head <= HeadAt(local)
        /\ faults \in 0..MaxFaults /\ MaxFaults \in Nat
    BY HeadBounds, ReadinessAssumption, SMTT(30) DEF ReadyTypeOK
  <1>2. CASE Decide
    BY <1>1, <1>2 DEF Decide, ReadyTypeOK, HeadAt, request
  <1>3. CASE CommitLocal
    <2>1. /\ HeadAt(local + 1) \in Nat /\ HeadAt(local) <= HeadAt(local + 1)
      BY <1>1, HeadBounds
    <2>2. elHead' \in {elHead, HeadAt(local + 1)}
      BY <1>3 DEF CommitLocal
    <2>3. local' = local + 1 /\ local < tip
          /\ UNCHANGED <<tip, peer, catching, stage, head, reported, arrived, verdict, faults>>
      BY <1>3 DEF CommitLocal, request
    <2>4. HeadAt(local)' = HeadAt(local + 1)
      BY <2>3 DEF HeadAt
    <2>5. elHead' \in 0..HeadAt(local)' /\ head' \in 0..HeadAt(local)'
      BY <1>1, <2>1, <2>2, <2>3, <2>4
    <2>6. local' \in 0..tip' /\ (stage' # "idle" => local' > 0)
      BY <1>1, <2>3
    <2> QED
      BY <2>3, <2>5, <2>6, Zenon DEF ReadyTypeOK
  <1>4. CASE CommitPeer
    BY <1>4 DEF CommitPeer, ReadyTypeOK, HeadAt, request
  <1>5. CASE SwitchToConsensus
    BY <1>5, Zenon DEF SwitchToConsensus, ReadyTypeOK, HeadAt, request
  <1>6. CASE ElRestart
    BY <1>1, <1>6, SMTT(30) DEF ElRestart, ReadyTypeOK, HeadAt, request
  <1>7. CASE ElSync
    BY <1>7 DEF ElSync, ReadyTypeOK, HeadAt, request
  <1> QED
    BY <1>2, <1>3, <1>4, <1>5, <1>6, <1>7, Zenon

\* The heights keep their order, a request that goes on has read a head that
\* this node has committed, and the report it gets is not older than itself.
THEOREM ReadinessTypes == ReadySpec => []ReadyTypeOK
  <1>1. ReadyInit => ReadyTypeOK
    BY ReadinessAssumption, SMTT(30) DEF ReadyInit, ReadyTypeOK, HeadAt
  <1>2. ReadyTypeOK /\ UNCHANGED readyVars => ReadyTypeOK'
    BY Zenon DEF ReadyTypeOK, readyVars, HeadAt
  <1>3. ReadyTypeOK /\ [ReadyNext]_readyVars => ReadyTypeOK'
    BY <1>2, RequestTypes, ChainTypes DEF ReadyNext
  <1> QED
    BY <1>1, <1>3, PTL DEF ReadySpec

\* The head a request has read and the height its peer has reported are old
\* when they are compared, and one counts other blocks than the other.  An "ok"
\* still means that the node is within the limit of the height the peer had when
\* the request arrived, and that the peer is within the limit of the head: the
\* report lies between the peer's height then and now, the head at or below the
\* node's height.
THEOREM OkNearPeer == ReadySpec => OkIsNearPeer
  <1>1. ReadyTypeOK /\ [ReadyNext]_readyVars =>
          [stage = "reported" /\ stage' = "idle" /\ verdict' = "ok" =>
             arrived - local <= MaxLag /\ head - peer <= MaxLag]_readyVars
    <2> SUFFICES ASSUME ReadyTypeOK, ReadyNext, stage = "reported", stage' = "idle",
                        verdict' = "ok"
                 PROVE  arrived - local <= MaxLag /\ head - peer <= MaxLag
      BY ZenonT(60)
    <2>1. CheckTrustedPeerLag
      BY DEF ReadyNext, RunReadinessChecks, CheckLocalCometNotCatchingUp,
         ProbeCommittedExecutionHead, SendPeerRequest, PeerReports, StageFails, Answer,
         Decide, CommitLocal, CommitPeer, SwitchToConsensus, ElRestart, ElSync
    <2>2. ~TooFar(reported, head)
      BY <2>1 DEF CheckTrustedPeerLag, Answer
    <2>3. /\ peer \in Nat /\ local \in Nat /\ head \in Nat
          /\ head <= HeadAt(local) /\ HeadAt(local) <= local /\ HeadAt(local) \in Nat
      BY HeadBounds DEF ReadyTypeOK
    <2>4. /\ reported \in Nat /\ arrived \in Nat
          /\ arrived <= reported /\ reported <= peer
      BY <2>3 DEF ReadyTypeOK
    <2> QED
      BY <2>2, <2>3, <2>4, ReadinessAssumption DEF TooFar
  <1> QED
    BY <1>1, ReadinessTypes, PTL DEF ReadySpec, OkIsNearPeer

---------------------------------------------------------------------------
\* UpgradeAlerts: what is known of finite sets comes last, where no other
\* proof has to carry it.  INSTANCE brings a copy of IsFiniteSet and of
\* Cardinality with it, which by their definitions are the same.

\* What it is to be finite.
LEMMA FinIs ==
  \A S : Fin(S) <=> \E seq \in Seq(S) : \A s \in S : \E n \in 1..Len(seq) : seq[n] = s
  BY Zenon DEF Fin, IsFiniteSet

\* How the elements are counted.
LEMMA SizeIs ==
  \A S : Size(S) = LET CS[T \in SUBSET S] == IF T = {} THEN 0
                                             ELSE 1 + CS[T \ {CHOOSE x : x \in T}]
                   IN  CS[S]
  BY Zenon DEF Size, Cardinality

LOCAL INSTANCE FiniteSetTheorems

\* No announcement is repeated: each is owed to a schedule or to a restart.
THEOREM AnnouncedOnce == Spec => []AnnouncedSparingly
  <1>1. \A S : Fin(S) <=> IsFiniteSet(S)
    BY FinIs, Zenon DEF IsFiniteSet
  <1>2. \A S : Size(S) = Cardinality(S)
    BY SizeIs, Zenon DEF Cardinality
  <1>3. Fin({}) /\ Size({}) = 0
    BY <1>1, <1>2, FS_EmptySet, Zenon
  <1>4. \A S : Fin(S) => Size(S) \in Nat
    BY <1>1, <1>2, FS_CardinalityType, Zenon
  <1>5. ASSUME NEW S, Fin(S), NEW x, x \notin S
        PROVE  Fin(S \cup {x}) /\ Size(S \cup {x}) = Size(S) + 1
    <2>1. IsFiniteSet(S)
      BY <1>1, <1>5, Zenon
    <2>2. IsFiniteSet(S \cup {x}) /\ Cardinality(S \cup {x}) = Cardinality(S) + 1
      BY <1>5, <2>1, FS_AddElement, Zenon
    <2> QED
      BY <1>1, <1>2, <2>2, Zenon
  <1>6. SizeFacts
    BY <1>3, <1>4, <1>5, Zenon DEF SizeFacts
  <1> QED
    BY <1>6, PaidInvariance, PTL
=============================================================================
