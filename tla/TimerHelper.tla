----------------------------- MODULE TimerHelper -----------------------------
(***************************************************************************)
(* The timer helper of the timer-helper profile for one timer: its record,   *)
(* its retained receipts and the checkpoint of the core, which one native    *)
(* transaction of the host changes together.                                 *)
(* scripts/generate_timer_helper_profile.py renders every operation with the *)
(* state before and after it, scripts/timer_helper_validator.py states what  *)
(* those may be, and scripts/run_timer_helper_profile.py what a commit binds.*)
(*                                                                         *)
(* Completing a fire takes several steps: the trusted clock is read, the     *)
(* core admits the event, the clock is read again and all is committed, or   *)
(* nothing is.  A worker may die in between and leave a transaction whose    *)
(* fate nobody knows yet; meanwhile its lease expires.                       *)
(***************************************************************************)
EXTENDS Integers, FiniteSets

CONSTANTS
  Worker,      \* worker principals
  Due,         \* when schedule requests ask for: basis and value
  Start,       \* readings at which the trusted clock may start
  MinClock,    \* the clock's width: -2^63 and 2^63 - 1 in the code
  MaxClock,
  Lease,       \* length of a claim
  MaxFence,    \* bound: attempts to fire
  None         \* stands where there is no worker, time or argument

ASSUME ClockAssumption ==
  /\ MinClock \in Int /\ MaxClock \in Int
  /\ Start \subseteq MinClock..MaxClock
  /\ Lease \in Nat \ {0} /\ MaxFence \in Nat
ASSUME NoneAssumption == None \notin Worker \cup Int \cup Due
ASSUME DueAssumption == Due \subseteq [basis : {"delay", "deadline"}, value : Int]

VARIABLES
  timer,       \* the helper's record
  receipts,    \* retained results: request, result
  admissions,  \* admissions of the fire event in the core's checkpoint
  worker,      \* worker -> its attempt to complete a fire
  now,         \* the trusted clock
  set,         \* what the caller was promised: clock reading and request
  firedAt,     \* clock reading of the commit that fired
  answers      \* accepted results that callers got

store == <<timer, receipts, admissions>>
vars == <<timer, receipts, admissions, worker, now, set, firedAt, answers>>

NoTimer == [state |-> "absent"]
NotSet == [at |-> 0, due |-> None]
Idle == [phase |-> "idle", fence |-> 0]
InClock(t) == t \in MinClock..MaxClock

Init ==
  /\ timer = NoTimer
  /\ receipts = {}
  /\ admissions = 0
  /\ worker = [w \in Worker |-> Idle]
  /\ now \in Start
  /\ set = NotSet
  /\ firedAt = None
  /\ answers = {}

-----------------------------------------------------------------------------
Request(kind, n, arg) == [kind |-> kind, n |-> n, arg |-> arg]
SameOperation(q, r) == q.kind = r.kind /\ q.n = r.n
Retained(q) == {e \in receipts : SameOperation(e.request, q)}

(* The answer to an accepted request: the record as its commit left it.      *)
Result(t) == [rev |-> t.rev, fence |-> t.fence, delivered |-> t.state = "fired"]
Keep(q, t) == receipts' = receipts \cup {[request |-> q, result |-> Result(t)]}
Tell(q, result) == answers' \in {answers, answers \cup {[request |-> q, result |-> result]}}

(* Equal bytes of an operation that committed get the retained result, in    *)
(* whatever state the timer is now, before any clock is read; other bytes    *)
(* under its identity are a conflict.                                        *)
Replay(q) ==
  /\ \E e \in Retained(q) : e.request = q /\ Tell(q, e.result)
  /\ UNCHANGED <<timer, receipts, admissions, worker, now, set, firedAt>>

-----------------------------------------------------------------------------
(* schedule: an absolute time is checked without the clock; a delay is added *)
(* to its reading, and a sum that leaves the clock's width is refused.       *)
Valid(due) == InClock(due.value) /\ (due.basis = "delay" => due.value >= 0)
WrappedDeadline(due) ==
  IF due.basis = "deadline" THEN due.value
  ELSE ((now + due.value - MinClock) % (MaxClock - MinClock + 1)) + MinClock
Deadline(due) == IF due.basis = "deadline" THEN due.value ELSE now + due.value

Schedule(q) ==
  /\ Valid(q.arg)
  /\ Retained(q) = {}
  /\ timer = NoTimer
  /\ InClock(Deadline(q.arg))
  /\ timer' = [state |-> "pending", deadline |-> Deadline(q.arg), rev |-> 1, fence |-> 0,
               holder |-> None, expires |-> 0]
  /\ set' = [at |-> now, due |-> q.arg]
  /\ Keep(q, timer')
  /\ Tell(q, Result(timer'))
  /\ UNCHANGED <<admissions, worker, now, firedAt>>

Cancel(q) ==
  /\ Retained(q) = {}
  /\ timer.state = "pending"
  /\ timer' = [timer EXCEPT !.state = "cancelled", !.rev = @ + 1]
  /\ Keep(q, timer')
  /\ Tell(q, Result(timer'))
  /\ UNCHANGED <<admissions, worker, now, set, firedAt>>

(* The previous attempt is known not to have committed, and cannot any more. *)
ProvedUncommitted == \A w \in Worker : worker[w].phase = "idle"

DueForClaim ==
  \/ timer.state = "pending" /\ timer.deadline <= now
  \/ /\ timer.state = "claimed"
     /\ timer.expires <= now
     /\ ProvedUncommitted

ClaimFire(w) ==
  LET q == Request("claim_fire", timer.rev, w)
  IN  /\ DueForClaim
      /\ timer.fence < MaxFence
      /\ Retained(q) = {}
      /\ timer' = [timer EXCEPT !.state = "claimed", !.rev = @ + 1, !.fence = @ + 1,
                                !.holder = w, !.expires = now + Lease]
      /\ Keep(q, timer')
      /\ Tell(q, Result(timer'))
      /\ UNCHANGED <<admissions, worker, now, set, firedAt>>

-----------------------------------------------------------------------------
(* complete_fire.  The first clock reading, then the core's admission; a     *)
(* rejected admission ends the operation.                                    *)
HoldsLease(w, fence) ==
  /\ timer.state = "claimed"
  /\ timer.fence = fence
  /\ timer.holder = w
  /\ now < timer.expires

BeginComplete(w) ==
  /\ worker[w].phase = "idle"
  /\ HoldsLease(w, timer.fence)
  /\ Retained(Request("complete_fire", timer.fence, w)) = {}
  /\ worker' = [worker EXCEPT ![w] = [phase |-> "admitted", fence |-> timer.fence]]
  /\ UNCHANGED <<store, now, set, firedAt, answers>>

AdmitFirst(w) == admissions' = admissions + 1 /\ firedAt' = now /\ UNCHANGED <<timer, receipts>>

(* The one native transaction: record, receipt and admission.                *)
CommitFire(w) ==
  LET q == Request("complete_fire", worker[w].fence, w)
  IN  /\ timer' = [timer EXCEPT !.state = "fired", !.rev = @ + 1, !.holder = None, !.expires = 0]
      /\ Keep(q, timer')
      /\ admissions' = admissions + 1
      /\ firedAt' = now

(* The second reading decides whether the transaction commits at all.        *)
MayCommit(w) == HoldsLease(w, worker[w].fence)

FinishComplete(w) ==
  /\ worker[w].phase = "admitted"
  /\ worker' = [worker EXCEPT ![w] = Idle]
  /\ \/ /\ MayCommit(w)
        /\ CommitFire(w)
        /\ Tell(Request("complete_fire", worker[w].fence, w), Result(timer'))
     \/ UNCHANGED <<store, firedAt, answers>>
  /\ UNCHANGED <<now, set>>

(* The worker dies after the second reading; its transaction is left with    *)
(* the host, which commits it or rolls it back later.                        *)
LoseWorker(w) ==
  /\ worker[w].phase = "admitted"
  /\ MayCommit(w)
  /\ worker' = [worker EXCEPT ![w].phase = "unknown"]
  /\ UNCHANGED <<store, now, set, firedAt, answers>>

(* A commit binds the full prior state, so one that finds another is lost.   *)
PriorStateStands(w) == timer.state = "claimed" /\ timer.fence = worker[w].fence

SettleFate(w) ==
  /\ worker[w].phase = "unknown"
  /\ worker' = [worker EXCEPT ![w] = Idle]
  /\ \/ PriorStateStands(w) /\ CommitFire(w)
     \/ UNCHANGED <<store, firedAt>>
  /\ UNCHANGED <<now, set, answers>>

Tick ==
  /\ now < MaxClock
  /\ now' = now + 1
  /\ UNCHANGED <<store, worker, set, firedAt, answers>>

ScheduleRequests == {Request("schedule", n, due) : n \in 1..2, due \in Due}

Next ==
  \/ \E q \in ScheduleRequests : Schedule(q)
  \/ Cancel(Request("cancel", 1, None))
  \/ \E e \in receipts : Replay(e.request)
  \/ \E w \in Worker :
       ClaimFire(w) \/ BeginComplete(w) \/ FinishComplete(w) \/ LoseWorker(w) \/ SettleFate(w)
  \/ Tick

Spec == Init /\ [][Next]_vars

-----------------------------------------------------------------------------
TimerSet ==
  [state : {"pending", "claimed", "cancelled", "fired"}, deadline : MinClock..MaxClock, rev : Nat,
   fence : 0..MaxFence, holder : Worker \cup {None}, expires : Int]

TypeOK ==
  /\ timer \in TimerSet \cup {NoTimer}
  /\ admissions \in Nat
  /\ worker \in [Worker -> [phase : {"idle", "admitted", "unknown"}, fence : 0..MaxFence]]
  /\ now \in MinClock..MaxClock
  /\ set \in [at : MinClock..MaxClock, due : Due] \cup {NotSet}
  /\ firedAt \in Int \cup {None}

(* A caller that repeats an operation, at any later time, is told what the   *)
(* first answer said, and no other operation runs under its identity.        *)
AnswersAgree == \A a, b \in answers : SameOperation(a.request, b.request) => a = b

(* No transaction can still fire the timer for an attempt that another claim *)
(* replaced or a cancellation overtook: a lease alone does not give way.     *)
AttemptIsCurrent ==
  \A w \in Worker :
    worker[w].phase # "idle" => timer.state = "claimed" /\ timer.fence = worker[w].fence

(* A fire is never early: what was asked for, counted without any width, had *)
(* passed when it was committed.                                             *)
NeverEarly ==
  firedAt # None =>
    firedAt >= (IF set.due.basis = "delay" THEN set.at ELSE 0) + set.due.value

(* The timer is set once and then fires, together with the one admission of  *)
(* its event, or is cancelled without one.                                   *)
Once == INSTANCE OnceTimer WITH
  status <- IF timer.state \in {"pending", "claimed"} THEN "set" ELSE timer.state
ImplementsOnceTimer == Once!OnceSpec
=============================================================================
