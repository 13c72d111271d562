----------------------------- MODULE HostStore ------------------------------
(***************************************************************************)
(* The driver-owned durable host store of the lossless-delivery profile,     *)
(* scripts/lossless_delivery_test_store.py.  Every request is a process of   *)
(* its own: it reads the host document, which opens no transaction, decides, *)
(* and writes in one transaction.  Adapters may run several at a time.       *)
(*                                                                           *)
(* Abstractions.  A document is the set of source items it holds a binding   *)
(* or a dead letter for and a number that every commit changes; a digest is  *)
(* the document itself.  The native transaction identity is that of its      *)
(* operation, both being unique in the journal.                              *)
(***************************************************************************)
EXTENDS Naturals, Sequences, FiniteSets

CONSTANTS
  Op,           \* operation identities, one per request of the driver
  Source,       \* source items, by scope and delivery identity
  Invocation,   \* timer helper invocations
  Fault,        \* crashes the driver injects
  Process,      \* store processes that can run at the same time
  MaxStep,      \* bound: commits by which a document is away from the seed
  NoInvocation, \* the commit carries no timer receipt
  NoOp          \* the timer returned outside a native transaction

ASSUME NoInvocationAssumption == NoInvocation \notin Invocation
ASSUME NoOpAssumption == NoOp \notin Op
ASSUME FaultAssumption == Fault \subseteq {"crash_before_commit", "crash_after_commit"}
ASSUME MaxStepAssumption == MaxStep \in Nat

VARIABLES
  seed,      \* the document the driver seeded
  state,     \* host_state.state_json
  journal,   \* native_transactions, in sequence order; before is what was compared
  cuts,      \* crash_cuts
  started,   \* timer_invocations: identity and start_state_digest
  returned,  \* the invocations with a return: return state and transaction
  call       \* per process: the request and the document it read

storeVars == <<seed, state, journal, cuts, started, returned, call>>

Idle == [kind |-> "idle"]

-----------------------------------------------------------------------------
(* An adapter derives the document it commits from the one it expects to     *)
(* replace: by taking over a source item, or by work on what is held.        *)
Successors(d) ==
  {[held |-> h, step |-> d.step + 1] :
     h \in {d.held} \cup {d.held \cup {s} : s \in Source}}

(* Documents an adapter can have seen.                                       *)
Known == {seed} \cup {journal[i].after : i \in DOMAIN journal}

Committed(op) == \E i \in DOMAIN journal : journal[i].op = op

Cut(op) == \E c \in cuts : c.op = op

HasReturned(inv) == \E r \in returned : r.inv = inv

Read(p, request) ==
  /\ call[p].kind = "idle"
  /\ call' = [call EXCEPT ![p] =
       [kind |-> "busy", request |-> request, seen |-> state]]
  /\ UNCHANGED <<seed, state, journal, cuts, started, returned>>

(* Slip: the expected document is not compared.                              *)
AnyExpectation(q, seen) == TRUE

ExpectationMet(q, seen) == q.expected = seen

(* Slip: the start document of the invocation is not compared.               *)
JoinsAnyStart(inv, seen) == (\E s \in started : s.inv = inv) /\ ~HasReturned(inv)

Joins(inv, seen) ==
  /\ \E s \in started : s.inv = inv /\ s.start = seen
  /\ ~HasReturned(inv)

CommitAllowed(q, seen) ==
  /\ ExpectationMet(q, seen)
  /\ ~Committed(q.op)
  /\ q.receipt # NoInvocation => Joins(q.receipt, seen)
  /\ q.crash => ~Cut(q.op)

JoinedReturn(q) ==
  IF q.receipt = NoInvocation THEN {}
  ELSE {[inv |-> q.receipt, state |-> q.after, op |-> q.op]}

(* One transaction: the new document, its journal row, the timer's return    *)
(* and the crash cut.  The adapter is killed after it where a cut was asked. *)
Commit(p, q, seen) ==
  /\ q.kind = "commit"
  /\ CommitAllowed(q, seen)
  /\ state' = q.after
  /\ journal' = Append(journal, [op |-> q.op, before |-> seen, after |-> q.after])
  /\ returned' = returned \cup JoinedReturn(q)
  /\ cuts' = IF q.crash THEN cuts \cup {[op |-> q.op, phase |-> "after_commit"]} ELSE cuts
  /\ UNCHANGED <<seed, started>>

(* Slip: the phases of the two cuts are confused.                            *)
LateCut(op) == [op |-> op, phase |-> "after_commit"]

EarlyCut(op) == [op |-> op, phase |-> "before_commit"]

(* crash_before_commit: the cut is durable before the adapter is killed.     *)
CutBefore(p, q) ==
  /\ q.kind = "crash_before_commit"
  /\ ~Cut(q.op)
  /\ cuts' = cuts \cup {EarlyCut(q.op)}
  /\ UNCHANGED <<seed, state, journal, started, returned>>

StartTimer(p, q, seen) ==
  /\ q.kind = "timer_invocation_start"
  /\ \A s \in started : s.inv # q.inv
  /\ started' = started \cup {[inv |-> q.inv, start |-> seen]}
  /\ UNCHANGED <<seed, state, journal, cuts, returned>>

ReturnAllowed(inv) == (\E s \in started : s.inv = inv) /\ ~HasReturned(inv)

ReturnTimer(p, q, seen) ==
  /\ q.kind = "timer_invocation_return"
  /\ ReturnAllowed(q.inv)
  /\ returned' = {r \in returned : r.inv # q.inv}
                   \cup {[inv |-> q.inv, state |-> seen, op |-> NoOp]}
  /\ UNCHANGED <<seed, state, journal, cuts, started>>

Write(p) ==
  /\ call[p].kind = "busy"
  /\ LET q == call[p].request
         seen == call[p].seen
     IN \/ Commit(p, q, seen)
        \/ CutBefore(p, q)
        \/ StartTimer(p, q, seen)
        \/ ReturnTimer(p, q, seen)
  /\ call' = [call EXCEPT ![p] = Idle]

Refused(q, seen) ==
  \/ q.kind = "commit" /\ ~CommitAllowed(q, seen)
  \/ q.kind = "crash_before_commit" /\ Cut(q.op)
  \/ q.kind = "timer_invocation_start" /\ \E s \in started : s.inv = q.inv
  \/ q.kind = "timer_invocation_return" /\ ~ReturnAllowed(q.inv)

(* Any failed check or unique constraint rolls the transaction back.         *)
Refuse(p) ==
  /\ call[p].kind = "busy"
  /\ Refused(call[p].request, call[p].seen)
  /\ call' = [call EXCEPT ![p] = Idle]
  /\ UNCHANGED <<seed, state, journal, cuts, started, returned>>

StoreInit ==
  /\ seed \in {[held |-> h, step |-> 0] : h \in SUBSET Source}
  /\ state = seed
  /\ journal = <<>> /\ cuts = {} /\ started = {} /\ returned = {}
  /\ call = [p \in Process |-> Idle]

CommitRequest(p, ops) ==
  \E op \in ops, d \in Known, inv \in Invocation \cup {NoInvocation}, crash \in BOOLEAN :
    /\ d.step < MaxStep
    /\ crash => "crash_after_commit" \in Fault
    /\ \E e \in Successors(d) :
         Read(p, [kind |-> "commit", op |-> op, expected |-> d, after |-> e,
                  receipt |-> inv, crash |-> crash])

OtherRequest(p, ops) ==
  \/ \E op \in ops :
       /\ "crash_before_commit" \in Fault
       /\ Read(p, [kind |-> "crash_before_commit", op |-> op])
  \/ \E inv \in Invocation,
        kind \in {"timer_invocation_start", "timer_invocation_return"} :
       Read(p, [kind |-> kind, inv |-> inv])

(* Requests for the operations handed out so far, and running processes.     *)
StoreStep(ops) ==
  \E p \in Process :
    CommitRequest(p, ops) \/ OtherRequest(p, ops) \/ Write(p) \/ Refuse(p)

StoreNext == StoreStep(Op)

StoreSpec == StoreInit /\ [][StoreNext]_storeVars

-----------------------------------------------------------------------------
(* A timer's return joined to a transaction is that transaction's: it began  *)
(* from the document the transaction compared and names in its proof, it     *)
(* returned with the one the transaction wrote, and it shares the transaction *)
(* with no other timer.  A process that lost a race overwrites another       *)
(* document than it compared; then the timer did not see what was replaced.  *)
TimerJoined ==
  \A r \in returned : r.op # NoOp =>
    /\ \E i \in DOMAIN journal, s \in started :
         /\ s.inv = r.inv
         /\ journal[i] = [op |-> r.op, before |-> s.start, after |-> r.state]
    /\ \A q \in returned : q.op = r.op => q = r

(* A cut recorded after a commit has its transaction in the journal, and the *)
(* document is the one of the last transaction.                              *)
CutsTellFate ==
  /\ \A c \in cuts : c.phase = "after_commit" => Committed(c.op)
  /\ state = IF journal = <<>> THEN seed ELSE journal[Len(journal)].after
=============================================================================
