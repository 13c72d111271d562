-------------------------- MODULE TimerHelperProofs --------------------------
(***************************************************************************)
(* The properties of TimerHelper, for every set of workers and requests and  *)
(* every width of the clock.  TypeOK carries the refinement; the answers,    *)
(* the attempts and the time of the fire each need an inductive              *)
(* strengthening of their own, stated first.                                 *)
(***************************************************************************)
EXTENDS TimerHelper, TLAPS

(* What schedule was asked for, counted without any width.                   *)
Asked == (IF set.due.basis = "delay" THEN set.at ELSE 0) + set.due.value

(* An operation has one retained result, and callers were told only those;   *)
(* a claim that may still complete has no result yet.                        *)
ReceiptsAgree ==
  /\ \A d, e \in receipts : SameOperation(d.request, e.request) => d = e
  /\ \A e \in receipts : e = [request |-> e.request, result |-> e.result]
  /\ answers \subseteq receipts

CompleteOnce == \A e \in receipts : e.request.kind = "complete_fire" => timer.state = "fired"

(* Only the holder of the record's claim has a transaction in progress.      *)
AttemptHeld ==
  \A w \in Worker :
    worker[w].phase # "idle" =>
      timer.state = "claimed" /\ timer.fence = worker[w].fence /\ timer.holder = w

(* The deadline of the record is the time asked for.                         *)
DeadlineAsked == timer # NoTimer => set \in [at : MinClock..MaxClock, due : Due]
                                      /\ timer.deadline = Asked

(* A claim, and hence a fire, comes after the deadline.                      *)
FireDue ==
  /\ timer # NoTimer /\ timer.state = "claimed" => timer.deadline <= now
  /\ firedAt # None => timer # NoTimer /\ timer.state = "fired" /\ firedAt >= timer.deadline

-----------------------------------------------------------------------------
(* A record has the fields that its state test reads.                        *)
LEMMA NoTimerIsNoRecord == NoTimer \notin TimerSet /\ NoTimer.state = "absent"
BY DEF NoTimer, TimerSet

LEMMA TypeInit == Init => TypeOK
BY ClockAssumption, NoneAssumption DEF Init, TypeOK, Idle, NotSet

LEMMA TypeSchedule ==
  ASSUME TypeOK, NEW q \in ScheduleRequests, Schedule(q)
  PROVE  TypeOK'
<1>1. q.arg \in Due
  BY DEF ScheduleRequests, Request
<1>2. timer' \in TimerSet
  BY ClockAssumption, NoneAssumption DEF Schedule, TimerSet, InClock
<1>3. set' \in [at : MinClock..MaxClock, due : Due]
  BY <1>1 DEF Schedule, TypeOK
<1> QED
  BY <1>2, <1>3 DEF Schedule, TypeOK, TimerSet

LEMMA TypeCommit ==
  ASSUME TypeOK, NEW w \in Worker, CommitFire(w), timer.state = "claimed"
  PROVE  timer' \in TimerSet /\ admissions' \in Nat /\ firedAt' \in Int
<1>1. timer \in TimerSet
  BY NoTimerIsNoRecord DEF TypeOK
<1>2. /\ timer' = [timer EXCEPT !.state = "fired", !.rev = @ + 1, !.holder = None, !.expires = 0]
      /\ admissions' = admissions + 1
      /\ firedAt' = now
  BY DEF CommitFire
<1>3. timer.rev + 1 \in Nat
  BY <1>1 DEF TimerSet
<1>4. timer' \in TimerSet
  <2>1. DOMAIN timer = {"state", "deadline", "rev", "fence", "holder", "expires"}
    BY <1>1 DEF TimerSet
  <2>2. timer' = [state |-> "fired", deadline |-> timer.deadline, rev |-> timer.rev + 1,
                  fence |-> timer.fence, holder |-> None, expires |-> 0]
    BY <1>1, <1>2, <2>1 DEF TimerSet
  <2> QED
    BY <1>1, <1>3, <2>2 DEF TimerSet
<1>5. admissions' \in Nat
  BY <1>2 DEF TypeOK
<1>6. now \in Int
  BY ClockAssumption DEF TypeOK
<1> QED
  BY <1>2, <1>4, <1>5, <1>6

LEMMA TypeStep == TypeOK /\ [Next]_vars => TypeOK'
<1> SUFFICES ASSUME TypeOK, [Next]_vars PROVE TypeOK'
  OBVIOUS
<1>1. ASSUME NEW q \in ScheduleRequests, Schedule(q) PROVE TypeOK'
  BY <1>1, TypeSchedule
<1>2. CASE Cancel(Request("cancel", 1, None))
  <2>1. timer \in TimerSet
    BY <1>2, NoTimerIsNoRecord DEF Cancel, TypeOK
  <2>2. timer' = [timer EXCEPT !.state = "cancelled", !.rev = @ + 1]
    BY <1>2 DEF Cancel
  <2>3. timer.rev + 1 \in Nat
    BY <2>1 DEF TimerSet
  <2>4. timer' \in TimerSet
    BY <2>1, <2>2, <2>3 DEF TimerSet
  <2> QED
    BY <1>2, <2>4 DEF Cancel, TypeOK
<1>3. ASSUME NEW e \in receipts, Replay(e.request) PROVE TypeOK'
  BY <1>3 DEF Replay, TypeOK, TimerSet
<1>4. ASSUME NEW w \in Worker, ClaimFire(w) PROVE TypeOK'
  <2>1. timer \in TimerSet
    BY <1>4, NoTimerIsNoRecord DEF ClaimFire, DueForClaim, TypeOK
  <2>2. timer.fence + 1 \in 0..MaxFence /\ timer.rev + 1 \in Nat /\ now + Lease \in Int
    BY <1>4, <2>1, ClockAssumption DEF ClaimFire, TimerSet, TypeOK
  <2>3. timer' = [timer EXCEPT !.state = "claimed", !.rev = @ + 1, !.fence = @ + 1,
                               !.holder = w, !.expires = now + Lease]
    BY <1>4 DEF ClaimFire
  <2>4. timer' \in TimerSet
    BY <2>1, <2>2, <2>3 DEF TimerSet
  <2> QED
    BY <1>4, <2>4 DEF ClaimFire, TypeOK
<1>5. ASSUME NEW w \in Worker, BeginComplete(w) PROVE TypeOK'
  <2>1. timer.fence \in 0..MaxFence
    BY <1>5, NoTimerIsNoRecord DEF BeginComplete, HoldsLease, TypeOK, TimerSet
  <2> QED
    BY <1>5, <2>1 DEF BeginComplete, store, TypeOK, TimerSet
<1>6. ASSUME NEW w \in Worker, FinishComplete(w) PROVE TypeOK'
  <2>1. worker' \in [Worker -> [phase : {"idle", "admitted", "unknown"}, fence : 0..MaxFence]]
    BY <1>6, ClockAssumption DEF FinishComplete, TypeOK, Idle
  <2>2. CASE MayCommit(w) /\ CommitFire(w)
    BY <1>6, <2>1, <2>2, TypeCommit DEF FinishComplete, MayCommit, HoldsLease, TypeOK, TimerSet
  <2>3. CASE UNCHANGED <<store, firedAt, answers>>
    BY <1>6, <2>1, <2>3 DEF FinishComplete, store, TypeOK, TimerSet
  <2> QED
    BY <1>6, <2>2, <2>3 DEF FinishComplete
<1>7. ASSUME NEW w \in Worker, LoseWorker(w) PROVE TypeOK'
  <2>1. worker' \in [Worker -> [phase : {"idle", "admitted", "unknown"}, fence : 0..MaxFence]]
    BY <1>7 DEF LoseWorker, TypeOK
  <2> QED
    BY <1>7, <2>1 DEF LoseWorker, store, TypeOK, TimerSet
<1>8. ASSUME NEW w \in Worker, SettleFate(w) PROVE TypeOK'
  <2>1. worker' \in [Worker -> [phase : {"idle", "admitted", "unknown"}, fence : 0..MaxFence]]
    BY <1>8, ClockAssumption DEF SettleFate, TypeOK, Idle
  <2>2. CASE PriorStateStands(w) /\ CommitFire(w)
    BY <1>8, <2>1, <2>2, TypeCommit DEF SettleFate, PriorStateStands, TypeOK, TimerSet
  <2>3. CASE UNCHANGED <<store, firedAt>>
    BY <1>8, <2>1, <2>3 DEF SettleFate, store, TypeOK, TimerSet
  <2> QED
    BY <1>8, <2>2, <2>3 DEF SettleFate
<1>9. CASE Tick
  BY <1>9, ClockAssumption DEF Tick, store, TypeOK, TimerSet
<1>10. CASE UNCHANGED vars
  BY <1>10 DEF vars, TypeOK, TimerSet
<1> QED
  BY <1>1, <1>2, <1>3, <1>4, <1>5, <1>6, <1>7, <1>8, <1>9, <1>10 DEF Next

(* Every value of the record, the clock and the workers' attempts keeps the  *)
(* shape the code gives it; a deadline stays within the clock's width.       *)
THEOREM TypeCorrect == Spec => []TypeOK
<1>1. Init => TypeOK
  BY TypeInit
<1>2. TypeOK /\ [Next]_vars => TypeOK'
  BY TypeStep
<1> QED
  BY <1>1, <1>2, PTL DEF Spec

-----------------------------------------------------------------------------
(* Both ways to fire leave from the claimed state, with the attempt's fence. *)
Fires(w) == CommitFire(w) /\ timer.state = "claimed" /\ timer.fence = worker[w].fence

LEMMA FireIsOneStep ==
  ASSUME TypeOK, NEW w \in Worker, Fires(w)
  PROVE  /\ timer' = [timer EXCEPT !.state = "fired", !.rev = @ + 1, !.holder = None, !.expires = 0]
         /\ timer \in TimerSet
         /\ timer' \in TimerSet
         /\ timer'.state = "fired"
         /\ admissions' = admissions + 1
<1>1. timer \in TimerSet
  BY NoTimerIsNoRecord DEF Fires, TypeOK
<1>2. timer' \in TimerSet
  BY TypeCommit DEF Fires
<1>3. /\ timer' = [timer EXCEPT !.state = "fired", !.rev = @ + 1, !.holder = None, !.expires = 0]
      /\ admissions' = admissions + 1
  BY DEF Fires, CommitFire
<1> QED
  BY <1>1, <1>2, <1>3 DEF TimerSet

LEMMA OnceInitial == Init => Once!OnceInit
BY DEF Init, Once!OnceInit, NoTimer

LEMMA OnceStep == TypeOK /\ [Next]_vars => [Once!OnceNext]_(Once!onceVars)
<1> SUFFICES ASSUME TypeOK, [Next]_vars PROVE [Once!OnceNext]_(Once!onceVars)
  OBVIOUS
<1> USE DEF Once!OnceNext, Once!onceVars, Once!Set, Once!Stop, Once!Fire
<1>1. ASSUME NEW q \in ScheduleRequests, Schedule(q) PROVE Once!Set
  BY <1>1, NoTimerIsNoRecord DEF Schedule
<1>2. CASE Cancel(Request("cancel", 1, None))
  <2>1. timer \in TimerSet
    BY <1>2, NoTimerIsNoRecord DEF Cancel, TypeOK
  <2>2. timer' = [timer EXCEPT !.state = "cancelled", !.rev = @ + 1]
    BY <1>2 DEF Cancel
  <2>3. timer'.state = "cancelled"
    BY <2>1, <2>2 DEF TimerSet
  <2> QED
    BY <1>2, <2>3 DEF Cancel
<1>3. ASSUME NEW e \in receipts, Replay(e.request) PROVE UNCHANGED Once!onceVars
  BY <1>3 DEF Replay
<1>4. ASSUME NEW w \in Worker, ClaimFire(w) PROVE UNCHANGED Once!onceVars
  <2>1. timer \in TimerSet /\ timer.state \in {"pending", "claimed"}
    BY <1>4, NoTimerIsNoRecord DEF ClaimFire, DueForClaim, TypeOK
  <2>2. timer' = [timer EXCEPT !.state = "claimed", !.rev = @ + 1, !.fence = @ + 1,
                               !.holder = w, !.expires = now + Lease]
    BY <1>4 DEF ClaimFire
  <2>3. timer'.state = "claimed"
    BY <2>1, <2>2 DEF TimerSet
  <2> QED
    BY <1>4, <2>1, <2>3 DEF ClaimFire
<1>5. ASSUME NEW w \in Worker, Fires(w) PROVE Once!Fire
  BY <1>5, FireIsOneStep DEF Fires
<1>6. ASSUME NEW w \in Worker, FinishComplete(w) \/ SettleFate(w)
      PROVE  Fires(w) \/ UNCHANGED Once!onceVars
  BY <1>6 DEF FinishComplete, SettleFate, MayCommit, HoldsLease, PriorStateStands, Fires, store
<1>7. ASSUME NEW w \in Worker, BeginComplete(w) \/ LoseWorker(w) PROVE UNCHANGED Once!onceVars
  BY <1>7 DEF BeginComplete, LoseWorker, store
<1>8. CASE Tick \/ UNCHANGED vars
  BY <1>8 DEF Tick, store, vars
<1> QED
  BY <1>1, <1>2, <1>3, <1>4, <1>5, <1>6, <1>7, <1>8 DEF Next

(* Through leases, lost workers, unknown commits and replays the timer is    *)
(* set once, and its record fires in the very step that admits its event.    *)
THEOREM TimerFiresOnce == Spec => ImplementsOnceTimer
<1>1. Init => Once!OnceInit
  BY OnceInitial
<1>2. TypeOK /\ [Next]_vars => [Once!OnceNext]_(Once!onceVars)
  BY OnceStep
<1> QED
  BY <1>1, <1>2, TypeCorrect, PTL DEF Spec, ImplementsOnceTimer, Once!OnceSpec

-----------------------------------------------------------------------------
LEMMA RetainsOne ==
  ASSUME ReceiptsAgree, NEW q, NEW r, Retained(q) = {},
         receipts' = receipts \cup {[request |-> q, result |-> r]},
         answers' \in {answers, answers \cup {[request |-> q, result |-> r]}}
  PROVE  ReceiptsAgree'
<1>1. \A e \in receipts : ~ SameOperation(e.request, q) /\ ~ SameOperation(q, e.request)
  BY DEF Retained, SameOperation
<1> QED
  BY <1>1 DEF ReceiptsAgree, SameOperation

LEMMA FireRetainsOne ==
  ASSUME ReceiptsAgree, CompleteOnce, NEW w \in Worker, Fires(w),
         answers' = answers \/ Tell(Request("complete_fire", worker[w].fence, w), Result(timer'))
  PROVE  ReceiptsAgree'
<1> DEFINE q == Request("complete_fire", worker[w].fence, w)
<1>1. Retained(q) = {}
  BY DEF CompleteOnce, Fires, Retained, SameOperation, Request
<1>2. /\ receipts' = receipts \cup {[request |-> q, result |-> Result(timer')]}
      /\ answers' \in {answers, answers \cup {[request |-> q, result |-> Result(timer')]}}
  BY DEF Fires, CommitFire, Keep, Tell
<1> QED
  BY <1>1, <1>2, RetainsOne

LEMMA FinishOrSettle ==
  ASSUME NEW w \in Worker, FinishComplete(w) \/ SettleFate(w)
  PROVE  /\ worker' = [worker EXCEPT ![w] = Idle]
         /\ UNCHANGED <<now, set>>
         /\ \/ /\ Fires(w)
               /\ answers' = answers \/ Tell(Request("complete_fire", worker[w].fence, w), Result(timer'))
            \/ UNCHANGED <<store, firedAt, answers>>
BY DEF FinishComplete, SettleFate, MayCommit, HoldsLease, PriorStateStands, Fires

LEMMA ReceiptsStep ==
  ASSUME TypeOK, ReceiptsAgree, CompleteOnce, [Next]_vars
  PROVE  ReceiptsAgree'
<1>1. ASSUME NEW q \in ScheduleRequests, Schedule(q) PROVE ReceiptsAgree'
  BY <1>1, RetainsOne DEF Schedule, Keep, Tell
<1>2. CASE Cancel(Request("cancel", 1, None))
  BY <1>2, RetainsOne DEF Cancel, Keep, Tell
<1>3. ASSUME NEW e \in receipts, Replay(e.request) PROVE ReceiptsAgree'
  <2>1. PICK d \in receipts : d.request = e.request /\ Tell(e.request, d.result)
    BY <1>3 DEF Replay, Retained
  <2>2. d = [request |-> e.request, result |-> d.result]
    BY <2>1 DEF ReceiptsAgree
  <2>3. answers' \subseteq answers \cup {d}
    BY <2>1, <2>2 DEF Tell
  <2> QED
    BY <1>3, <2>1, <2>3 DEF Replay, ReceiptsAgree
<1>4. ASSUME NEW w \in Worker, ClaimFire(w) PROVE ReceiptsAgree'
  BY <1>4, RetainsOne DEF ClaimFire, Keep, Tell
<1>5. ASSUME NEW w \in Worker, FinishComplete(w) \/ SettleFate(w) PROVE ReceiptsAgree'
  BY <1>5, FinishOrSettle, FireRetainsOne DEF ReceiptsAgree, store
<1>6. ASSUME NEW w \in Worker, BeginComplete(w) \/ LoseWorker(w) PROVE ReceiptsAgree'
  BY <1>6 DEF BeginComplete, LoseWorker, store, ReceiptsAgree
<1>7. CASE Tick \/ UNCHANGED vars
  BY <1>7 DEF Tick, store, vars, ReceiptsAgree
<1> QED
  BY <1>1, <1>2, <1>3, <1>4, <1>5, <1>6, <1>7 DEF Next

LEMMA CompleteOnceStep ==
  ASSUME TypeOK, CompleteOnce, [Next]_vars
  PROVE  CompleteOnce'
<1>1. ASSUME NEW q \in ScheduleRequests, Schedule(q) PROVE CompleteOnce'
  <2>1. q.kind = "schedule"
    BY DEF ScheduleRequests, Request
  <2> QED
    BY <1>1, <2>1 DEF Schedule, Keep, CompleteOnce, NoTimer
<1>2. CASE Cancel(Request("cancel", 1, None))
  BY <1>2 DEF Cancel, Keep, CompleteOnce, Request
<1>3. ASSUME NEW e \in receipts, Replay(e.request) PROVE CompleteOnce'
  BY <1>3 DEF Replay, CompleteOnce
<1>4. ASSUME NEW w \in Worker, ClaimFire(w) PROVE CompleteOnce'
  <2>1. timer.state # "fired"
    BY <1>4 DEF ClaimFire, DueForClaim
  <2> QED
    BY <1>4, <2>1 DEF ClaimFire, Keep, CompleteOnce, Request
<1>5. ASSUME NEW w \in Worker, FinishComplete(w) \/ SettleFate(w) PROVE CompleteOnce'
  <2>1. CASE Fires(w)
    BY <2>1, FireIsOneStep DEF CompleteOnce
  <2>2. CASE UNCHANGED <<store, firedAt, answers>>
    BY <2>2 DEF CompleteOnce, store
  <2> QED
    BY <1>5, <2>1, <2>2, FinishOrSettle
<1>6. ASSUME NEW w \in Worker, BeginComplete(w) \/ LoseWorker(w) PROVE CompleteOnce'
  BY <1>6 DEF BeginComplete, LoseWorker, store, CompleteOnce
<1>7. CASE Tick \/ UNCHANGED vars
  BY <1>7 DEF Tick, store, vars, CompleteOnce
<1> QED
  BY <1>1, <1>2, <1>3, <1>4, <1>5, <1>6, <1>7 DEF Next

LEMMA AnswersFromReceipts == ReceiptsAgree => AnswersAgree
BY DEF ReceiptsAgree, AnswersAgree

(* A caller that repeats an operation is told what its first answer said,    *)
(* whatever became of the timer since: answers come from retained receipts,  *)
(* and an identity has one.                                                  *)
THEOREM AnswersStand == Spec => []AnswersAgree
<1>1. Init => ReceiptsAgree /\ CompleteOnce
  BY DEF Init, ReceiptsAgree, CompleteOnce
<1>2. TypeOK /\ ReceiptsAgree /\ CompleteOnce /\ [Next]_vars => (ReceiptsAgree /\ CompleteOnce)'
  BY ReceiptsStep, CompleteOnceStep
<1> QED
  BY <1>1, <1>2, AnswersFromReceipts, TypeCorrect, PTL DEF Spec

-----------------------------------------------------------------------------
LEMMA ClaimSets ==
  ASSUME TypeOK, NEW w \in Worker, ClaimFire(w)
  PROVE  /\ timer \in TimerSet
         /\ timer' \in TimerSet
         /\ timer'.state = "claimed"
         /\ timer'.deadline = timer.deadline
         /\ timer'.holder = w
<1>1. timer \in TimerSet
  BY NoTimerIsNoRecord DEF ClaimFire, DueForClaim, TypeOK
<1>2. timer' = [timer EXCEPT !.state = "claimed", !.rev = @ + 1, !.fence = @ + 1,
                             !.holder = w, !.expires = now + Lease]
  BY DEF ClaimFire
<1>3. timer.fence + 1 \in 0..MaxFence /\ timer.rev + 1 \in Nat /\ now + Lease \in Int
  BY <1>1, ClockAssumption DEF ClaimFire, TimerSet, TypeOK
<1> QED
  BY <1>1, <1>2, <1>3 DEF TimerSet

LEMMA IdleIsIdle == Idle.phase = "idle"
BY DEF Idle

LEMMA AttemptStep ==
  ASSUME TypeOK, AttemptHeld, [Next]_vars
  PROVE  AttemptHeld'
<1>1. ASSUME NEW q \in ScheduleRequests, Schedule(q) PROVE AttemptHeld'
  <2>1. timer.state # "claimed"
    BY <1>1, NoTimerIsNoRecord DEF Schedule
  <2> QED
    BY <1>1, <2>1 DEF Schedule, AttemptHeld
<1>2. CASE Cancel(Request("cancel", 1, None))
  <2>1. timer.state # "claimed" /\ worker' = worker
    BY <1>2 DEF Cancel
  <2> QED
    BY <2>1 DEF AttemptHeld
<1>3. ASSUME NEW e \in receipts, Replay(e.request) PROVE AttemptHeld'
  BY <1>3 DEF Replay, AttemptHeld
<1>4. ASSUME NEW w \in Worker, ClaimFire(w) PROVE AttemptHeld'
  <2>1. \A v \in Worker : worker[v].phase = "idle"
    BY <1>4 DEF ClaimFire, DueForClaim, ProvedUncommitted, AttemptHeld
  <2> QED
    BY <1>4, <2>1 DEF ClaimFire, AttemptHeld
<1>5. ASSUME NEW w \in Worker, BeginComplete(w) PROVE AttemptHeld'
  <2>1. /\ timer' = timer
        /\ timer.state = "claimed" /\ timer.holder = w
        /\ worker' = [worker EXCEPT ![w] = [phase |-> "admitted", fence |-> timer.fence]]
    BY <1>5 DEF BeginComplete, HoldsLease, store
  <2> QED
    BY <2>1 DEF AttemptHeld, TypeOK
<1>6. ASSUME NEW w \in Worker, FinishComplete(w) \/ SettleFate(w) PROVE AttemptHeld'
  <2>1. \A v \in Worker : worker'[v] = IF v = w THEN Idle ELSE worker[v]
    BY <1>6, FinishOrSettle DEF TypeOK
  <2>2. worker[w].phase # "idle"
    BY <1>6 DEF FinishComplete, SettleFate
  <2>3. \A v \in Worker : v # w => worker[v].phase = "idle"
    BY <2>2 DEF AttemptHeld
  <2> QED
    BY <2>1, <2>3, IdleIsIdle DEF AttemptHeld
<1>7. ASSUME NEW w \in Worker, LoseWorker(w) PROVE AttemptHeld'
  <2>1. timer' = timer /\ worker[w].phase # "idle"
    BY <1>7 DEF LoseWorker, store
  <2>2. \A v \in Worker : worker'[v].fence = worker[v].fence
                         /\ (v # w => worker'[v] = worker[v])
    BY <1>7 DEF LoseWorker, TypeOK
  <2> QED
    BY <2>1, <2>2 DEF AttemptHeld
<1>8. CASE Tick \/ UNCHANGED vars
  BY <1>8 DEF Tick, store, vars, AttemptHeld
<1> QED
  BY <1>1, <1>2, <1>3, <1>4, <1>5, <1>6, <1>7, <1>8 DEF Next

(* A transaction in progress, or one of unknown fate, is always for the      *)
(* claim that stands: its worker holds the claim until its fate is settled.  *)
THEOREM AttemptStaysCurrent == Spec => []AttemptIsCurrent
<1>1. Init => AttemptHeld
  BY IdleIsIdle DEF Init, AttemptHeld
<1>2. TypeOK /\ AttemptHeld /\ [Next]_vars => AttemptHeld'
  BY AttemptStep
<1>3. AttemptHeld => AttemptIsCurrent
  BY DEF AttemptHeld, AttemptIsCurrent
<1> QED
  BY <1>1, <1>2, <1>3, TypeCorrect, PTL DEF Spec

-----------------------------------------------------------------------------
DueInv == DeadlineAsked /\ FireDue

LEMMA FireKeepsDeadline ==
  ASSUME TypeOK, NEW w \in Worker, Fires(w)
  PROVE  timer'.deadline = timer.deadline /\ timer' # NoTimer /\ firedAt' = now
<1>1. firedAt' = now
  BY DEF Fires, CommitFire
<1> QED
  BY <1>1, FireIsOneStep, NoTimerIsNoRecord DEF TimerSet

LEMMA DueStep ==
  ASSUME TypeOK, DueInv, [Next]_vars
  PROVE  DueInv'
<1> USE DEF DueInv, DeadlineAsked, FireDue, Asked
<1>0. now \in Int /\ (timer # NoTimer => timer \in TimerSet /\ timer.deadline \in Int)
  BY ClockAssumption DEF TypeOK, TimerSet
<1>1. ASSUME NEW q \in ScheduleRequests, Schedule(q) PROVE DueInv'
  <2>1. q.arg \in Due /\ q.arg.basis \in {"delay", "deadline"} /\ q.arg.value \in Int
    BY DueAssumption DEF ScheduleRequests, Request
  <2>2. set' = [at |-> now, due |-> q.arg] /\ firedAt' = firedAt
    BY <1>1 DEF Schedule
  <2>3. timer'.state = "pending" /\ timer'.deadline = Deadline(q.arg)
    BY <1>1 DEF Schedule
  <2>4. firedAt = None
    BY <1>1 DEF Schedule
  <2>5. set'.due = q.arg /\ set'.at = now
    BY <2>2
  <2>6. Deadline(q.arg) = (IF set'.due.basis = "delay" THEN set'.at ELSE 0) + set'.due.value
    BY <1>0, <2>1, <2>5 DEF Deadline
  <2>7. set' \in [at : MinClock..MaxClock, due : Due]
    BY <2>1, <2>2 DEF TypeOK
  <2> QED
    BY <2>2, <2>3, <2>4, <2>6, <2>7
<1>2. CASE Cancel(Request("cancel", 1, None))
  <2>1. timer \in TimerSet /\ timer # NoTimer
    BY <1>2, NoTimerIsNoRecord DEF Cancel, TypeOK
  <2>2. timer' = [timer EXCEPT !.state = "cancelled", !.rev = @ + 1]
    BY <1>2 DEF Cancel
  <2>3. timer'.state = "cancelled" /\ timer'.deadline = timer.deadline
    BY <2>1, <2>2 DEF TimerSet
  <2>4. set' = set /\ firedAt' = firedAt /\ firedAt = None
    BY <1>2 DEF Cancel
  <2> QED
    BY <2>1, <2>3, <2>4
<1>3. ASSUME NEW e \in receipts, Replay(e.request) PROVE DueInv'
  BY <1>3 DEF Replay
<1>4. ASSUME NEW w \in Worker, ClaimFire(w) PROVE DueInv'
  <2>1. set' = set /\ firedAt' = firedAt /\ now' = now /\ DueForClaim
    BY <1>4 DEF ClaimFire
  <2>2. timer # NoTimer /\ timer' # NoTimer
    BY <1>4, ClaimSets, NoTimerIsNoRecord
  <2>3. firedAt = None /\ timer.deadline <= now
    BY <2>1, <2>2 DEF DueForClaim
  <2> QED
    BY <1>4, <2>1, <2>2, <2>3, ClaimSets
<1>5. ASSUME NEW w \in Worker, FinishComplete(w) \/ SettleFate(w) PROVE DueInv'
  <2>1. now' = now /\ set' = set
    BY <1>5, FinishOrSettle
  <2>2. CASE Fires(w)
    <3>1. timer # NoTimer /\ timer.deadline <= now
      BY <2>2, NoTimerIsNoRecord DEF Fires
    <3>2. now >= timer.deadline
      BY <1>0, <3>1
    <3> QED
      BY <2>1, <2>2, <3>1, <3>2, FireIsOneStep, FireKeepsDeadline
  <2>3. CASE UNCHANGED <<store, firedAt, answers>>
    BY <2>1, <2>3 DEF store
  <2> QED
    BY <1>5, <2>2, <2>3, FinishOrSettle
<1>6. ASSUME NEW w \in Worker, BeginComplete(w) \/ LoseWorker(w) PROVE DueInv'
  BY <1>6 DEF BeginComplete, LoseWorker, store
<1>7. CASE Tick
  <2>1. now' = now + 1 /\ UNCHANGED <<timer, set, firedAt>>
    BY <1>7 DEF Tick, store
  <2> QED
    BY <1>0, <2>1
<1>8. CASE UNCHANGED vars
  BY <1>8 DEF vars
<1> QED
  BY <1>1, <1>2, <1>3, <1>4, <1>5, <1>6, <1>7, <1>8 DEF Next

(* No timer fires before the time that was asked for, counted without the    *)
(* clock's width: a sum that leaves the width was never stored.              *)
THEOREM FiresInTime == Spec => []NeverEarly
<1>1. Init => DueInv
  BY NoTimerIsNoRecord DEF Init, DueInv, DeadlineAsked, FireDue
<1>2. TypeOK /\ DueInv /\ [Next]_vars => DueInv'
  BY DueStep
<1>3. TypeOK /\ DueInv => NeverEarly
  BY DEF DueInv, DeadlineAsked, FireDue, Asked, NeverEarly
<1> QED
  BY <1>1, <1>2, <1>3, TypeCorrect, PTL DEF Spec
=============================================================================
