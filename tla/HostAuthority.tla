---------------------------- MODULE HostAuthority ----------------------------
(***************************************************************************)
(* The authority of one scope as the host-authority profile requires it of  *)
(* an installation: scripts/generate_host_authority_profile.py renders the   *)
(* ledgers, responses and native schedules that an adapter must reproduce,   *)
(* scripts/validate_host_authority.py states the rules they follow.          *)
(*                                                                         *)
(* The ledger (`ledger`) is durable.  Sessions send requests; a mutating     *)
(* request runs inside the native guard, one session at a time, and what it  *)
(* found and what it writes belong to one native transaction.  The response  *)
(* may be lost, the authority may restart, and a session cut off before the  *)
(* outcome of its transaction is known leaves the scope in doubt until the   *)
(* outcome is resolved from storage and the session is fenced.  The storage  *)
(* decides the old transaction on its own, at any time before the fencing;   *)
(* that its fate is asked for only after that is required of the storage.    *)
(***************************************************************************)
EXTENDS Integers, Sequences, FiniteSets

CONSTANTS
  Session,       \* sessions of the storage
  Operation,     \* operation identity -> operation
  Worker,        \* worker principals
  Participants,  \* required participant records
  Capability,    \* operations whose guarantee the installation claims
  MaxCalls       \* bound: calls that sessions make

ASSUME OperationAssumption ==
  \A id \in DOMAIN Operation :
    Operation[id] \in {"guarded_commit", "freeze_scope", "fence_worker", "prove_retirement"}
ASSUME WorkerAssumption == Worker # {}
ASSUME BoundsAssumption == MaxCalls \in Nat

VARIABLES
  ledger,    \* the authority's storage
  session,   \* session -> phase, request, the fate it was told, and whether
             \* the storage holds its transaction open after it was cut off
  issued,    \* claims that workers were given
  answers,   \* accepted results that were delivered
  calls

vars == <<ledger, session, issued, answers, calls>>

None == "none"
Epoch == 2
OldEpoch == 1
Generation0 == 4
Fence0 == 3
NoRequest == [id |-> None]
Idle == [phase |-> "idle", request |-> NoRequest, told |-> None, open |-> FALSE]
NoFreeze == [evidence |-> 0]

FirstLedger ==
  [allocated |-> TRUE, epoch |-> Epoch, gen |-> Generation0, state |-> "active",
   receipts |-> <<>>, mutations |-> <<>>, checkpoints |-> <<>>, fence |-> Fence0,
   claims |-> {}, freeze |-> NoFreeze, inventory |-> {}, grants |-> {}]

Member(kind, identity) == [kind |-> kind, identity |-> identity]

(* What a complete inventory lists; roots, tombstones, definitions and       *)
(* intents do not change in this profile and are left out.                   *)
InventoryOf(l) ==
  {Member("receipt", l.receipts[i].request.id) : i \in DOMAIN l.receipts}
    \cup {Member("checkpoint", i) : i \in DOMAIN l.checkpoints}
    \cup {Member("journal", "effect-17")}
    \cup {Member("participant", p) : p \in Participants}

-----------------------------------------------------------------------------
(* What the ledger says of a request.                                        *)
RetainedReceipts(l, id) ==
  {i \in DOMAIN l.receipts : l.receipts[i].request.id = id /\ l.receipts[i].result # 0}
Receipts(l, id) == {i \in DOMAIN l.receipts : l.receipts[i].request.id = id}
Recorded(l, r) == Receipts(l, r.id) # {}
Receipt(l, r) == l.receipts[CHOOSE i \in Receipts(l, r.id) : TRUE]

Claim(l, r) ==
  [epoch |-> l.epoch, fence |-> l.fence + 1, worker |-> r.worker]

(* A committed freeze: the record of the storage and its retained receipt.   *)
FreezeProved(l, evidence) ==
  /\ l.freeze # NoFreeze
  /\ evidence = l.freeze.evidence
  /\ \E i \in DOMAIN l.receipts : l.receipts[i].evidence = evidence
  /\ l.freeze.participants = Participants

(* Slip: writers are let in after the freeze.                                *)
StateForWriters ==
  [guarded_commit |-> {"active", "frozen"}, freeze_scope |-> {"active"},
   fence_worker |-> {"active"}, prove_retirement |-> {"frozen"}]

StateFor == [guarded_commit |-> {"active"}, freeze_scope |-> {"active"},
             fence_worker |-> {"active"}, prove_retirement |-> {"frozen"}]

Refusals(l, r) ==
  <<[code |-> "host_capability_mismatch", holds |-> r.op \notin Capability],
    [code |-> "stale_scope_authority", holds |-> r.epoch # l.epoch],
    [code |-> "scope_generation_conflict", holds |-> r.gen # l.gen],
    [code |-> "scope_not_in_state", holds |-> l.state \notin StateFor[r.op]],
    [code |-> "worker_principal_mismatch",
     holds |-> r.op = "fence_worker" /\ r.principal # r.worker],
    [code |-> "stale_attempt_fence", holds |-> r.op = "fence_worker" /\ r.fence # l.fence],
    [code |-> "scope_fence_unproven",
     holds |-> r.op = "prove_retirement" /\ ~FreezeProved(l, r.evidence)]>>

Refused(l, r) == \E i \in DOMAIN Refusals(l, r) : Refusals(l, r)[i].holds

(* Every accepted operation advances the generation and keeps a receipt; a   *)
(* result binds the request, so its evidence is not the request's digest.    *)
Accepted(l, r) ==
  LET gen == l.gen + 1
  IN  [l EXCEPT !.gen = gen,
                !.receipts = Append(@, [request |-> r, result |-> gen, evidence |-> gen])]

Committed(l, r) ==
  [Accepted(l, r) EXCEPT !.mutations = Append(@, r.id), !.checkpoints = Append(@, r.id)]

FencedInPlace(l, r) ==
  [Accepted(l, r) EXCEPT !.claims = {[Claim(l, r) EXCEPT !.fence = l.fence]}]
Fenced(l, r) ==
  [Accepted(l, r) EXCEPT !.fence = l.fence + 1, !.claims = {Claim(l, r)}]

Frozen(l, r) ==
  LET after == [Accepted(l, r) EXCEPT !.state = "frozen"]
  IN  [after EXCEPT !.inventory = InventoryOf(after),
                    !.freeze = [evidence |-> after.gen, participants |-> Participants]]

Retired(l, r) ==
  [Accepted(l, r) EXCEPT
     !.state = "retired",
     !.grants = @ \cup {[freeze |-> r.evidence, consumed |-> FALSE]}]

After(l, r) ==
  CASE r.op = "guarded_commit" -> Committed(l, r)
    [] r.op = "fence_worker" -> Fenced(l, r)
    [] r.op = "freeze_scope" -> Frozen(l, r)
    [] r.op = "prove_retirement" -> Retired(l, r)

-----------------------------------------------------------------------------
Init ==
  /\ ledger = FirstLedger
  /\ session = [s \in Session |-> Idle]
  /\ issued = {[epoch |-> e, fence |-> Fence0, worker |-> CHOOSE w \in Worker : TRUE] :
                 e \in {Epoch, OldEpoch}}
  /\ answers = {}
  /\ calls = 0

(* A request names the authority as its sender last read it: the evidence it *)
(* offers for a retirement is the committed one or the freeze's own digest.  *)
Requests ==
  {[id |-> id, op |-> Operation[id], epoch |-> epoch, gen |-> ledger.gen,
    worker |-> w, principal |-> p, fence |-> ledger.fence,
    evidence |-> e] :
      id \in DOMAIN Operation, epoch \in {Epoch, OldEpoch}, w \in Worker, p \in Worker,
      e \in {0, ledger.freeze.evidence}}

(* Arguments an operation does not have are fixed.                           *)
WellFormed(r) ==
  /\ r.op # "fence_worker" => r.worker = r.principal /\ r.worker = CHOOSE w \in Worker : TRUE
  /\ r.op # "prove_retirement" => r.evidence = 0
  /\ r.op # "guarded_commit" => r.epoch = Epoch

HeldOrWaiting(s) == session[s].phase \in {"waiting", "guard", "unknown", "resolved"}
Held(s) == session[s].phase \in {"guard", "unknown", "resolved"}
GuardFree == \A s \in Session : ~Held(s)
InDoubt == \E s \in Session : session[s].phase \in {"unknown", "resolved"}

Answer(r, gen) == answers' = answers \cup {[id |-> r.id, request |-> r, gen |-> gen]}
End(s) == session' = [session EXCEPT ![s].phase = "idle"]

(* read_authority, then a request is written down.                           *)
Prepare(s) ==
  /\ session[s].phase = "idle"
  /\ calls < MaxCalls
  /\ \E r \in {q \in Requests : WellFormed(q)} :
       session' = [session EXCEPT ![s].phase = "ready", ![s].request = r]
  /\ calls' = calls + 1
  /\ UNCHANGED <<ledger, issued, answers>>

(* After a lost response, or a restart, the same bytes are sent once more.   *)
Resend(s) ==
  /\ session[s].phase = "idle"
  /\ session[s].request # NoRequest
  /\ calls < MaxCalls
  /\ session' = [session EXCEPT ![s].phase = "ready"]
  /\ calls' = calls + 1
  /\ UNCHANGED <<ledger, issued, answers>>

SameBytes(kept, r) == kept.request = r

(* A recorded operation is never run again: equal bytes get the retained     *)
(* result, other bytes a conflict, and an expired result an error.           *)
AnswerFromReceipt(s) ==
  LET r == session[s].request
      kept == Receipt(ledger, r)
  IN  /\ Recorded(ledger, r)
      /\ IF SameBytes(kept, r) /\ kept.result # 0
         THEN Answer(r, kept.result)
         ELSE UNCHANGED answers
      /\ End(s)
      /\ UNCHANGED ledger

(* A freeze does not wait for a writer whose fate is unknown; the others,    *)
(* and a freeze behind a live writer, wait at the guard.                     *)
RefuseInDoubt(s) ==
  /\ session[s].request.op = "freeze_scope"
  /\ "freeze_scope" \in Capability
  /\ InDoubt
  /\ ledger' = [ledger EXCEPT !.state = "transaction_in_doubt"]
  /\ End(s)
  /\ UNCHANGED answers

EnterGuard(s) ==
  /\ ~Recorded(ledger, session[s].request)
  /\ \/ /\ session[s].request.op \notin Capability
        /\ End(s)
        /\ UNCHANGED <<ledger, answers>>
     \/ RefuseInDoubt(s)
     \/ /\ GuardFree
        /\ session' = [session EXCEPT ![s].phase = "guard"]
        /\ UNCHANGED <<ledger, answers>>
     \/ /\ ~GuardFree
        /\ session[s].request.op = "freeze_scope" => ~InDoubt
        /\ session[s].phase # "waiting"
        /\ session' = [session EXCEPT ![s].phase = "waiting"]
        /\ UNCHANGED <<ledger, answers>>

Call(s) ==
  /\ session[s].phase \in {"ready", "waiting"}
  /\ AnswerFromReceipt(s) \/ EnterGuard(s)
  /\ UNCHANGED <<issued, calls>>

(* The end of a guarded transaction: the checks and the writes are one step; *)
(* the response may be dropped after it, a freeze may find that its          *)
(* enumeration of the storage leaves a receipt out.                          *)
RunGuarded(s) ==
  /\ session[s].phase = "guard"
  /\ LET r == session[s].request
         after == After(ledger, r)
     IN  \/ /\ ~Refused(ledger, r)
            /\ ledger' = after
            /\ issued' = issued \cup after.claims
            /\ Answer(r, after.gen) \/ UNCHANGED answers
         \/ /\ Refused(ledger, r) \/ (r.op = "freeze_scope" /\ ledger.receipts # <<>>)
            /\ UNCHANGED <<ledger, issued, answers>>
  /\ End(s)
  /\ UNCHANGED calls

(* The native transaction is aborted before its commit.                      *)
AbortBeforeCommit(s) ==
  /\ session[s].phase = "guard"
  /\ End(s)
  /\ UNCHANGED <<ledger, issued, answers, calls>>

(* A writer whose checks passed is cut off and nobody knows whether its      *)
(* transaction commits.                                                      *)
Disconnect(s) ==
  /\ session[s].phase = "guard"
  /\ session[s].request.op = "guarded_commit"
  /\ ~Refused(ledger, session[s].request)
  /\ session' = [session EXCEPT ![s].phase = "unknown", ![s].open = TRUE]
  /\ ledger' = [ledger EXCEPT !.state = "transaction_in_doubt"]
  /\ UNCHANGED <<issued, answers, calls>>

(* The storage ends the transaction it still holds: it commits there, or it  *)
(* is rolled back.  No participant of the profile has a say in when.         *)
CommitLate(s) ==
  /\ session[s].open
  /\ LET r == session[s].request
         before == [ledger EXCEPT !.state = "active"]
     IN  /\ ~Recorded(ledger, r)
         /\ ~Refused(before, r)
         /\ ledger' = [After(before, r) EXCEPT !.state = "transaction_in_doubt"]
  /\ session' = [session EXCEPT ![s].open = FALSE]
  /\ UNCHANGED <<issued, answers, calls>>

RollBackLate(s) ==
  /\ session[s].open
  /\ session' = [session EXCEPT ![s].open = FALSE]
  /\ UNCHANGED <<ledger, issued, answers, calls>>

(* Slip: the storage is asked while it still holds the transaction open.     *)
AskedEarly(s) == TRUE

(* The fate is what the storage holds once it has decided the transaction;   *)
(* then the old session is fenced and the scope leaves doubt.                *)
StorageDecided(s) == ~session[s].open

StoredFate(r) == IF Recorded(ledger, r) THEN "committed" ELSE "rolled_back"

ResolveFate(s) ==
  /\ session[s].phase = "unknown"
  /\ StorageDecided(s)
  /\ session' = [session EXCEPT ![s].phase = "resolved",
                                ![s].told = StoredFate(session[s].request)]
  /\ UNCHANGED <<ledger, issued, answers, calls>>

FenceOldSession(s) ==
  /\ session[s].phase = "resolved"
  /\ session' = [session EXCEPT ![s] = Idle]
  /\ ledger' = [ledger EXCEPT !.state = "active"]
  /\ UNCHANGED <<issued, answers, calls>>

(* restart_authority: open transactions roll back, the ledger stays.         *)
RestartAuthority ==
  /\ ~InDoubt
  /\ \E s \in Session : session[s].phase \in {"guard", "waiting"}
  /\ session' = [s \in Session |->
                   IF session[s].phase \in {"guard", "waiting"}
                   THEN [session[s] EXCEPT !.phase = "idle"]
                   ELSE session[s]]
  /\ UNCHANGED <<ledger, issued, answers, calls>>

(* Replay evidence is not kept for ever: a receipt stays, its result goes.   *)
ExpireReplayEvidence ==
  /\ \E i \in DOMAIN ledger.receipts :
       /\ ledger.receipts[i].result # 0
       /\ ledger' = [ledger EXCEPT !.receipts[i].result = 0, !.receipts[i].evidence = 0]
  /\ UNCHANGED <<session, issued, answers, calls>>

(* Deleting the portable checkpoint does not free the scope's identity; it   *)
(* is possible in every state of the scope.                                  *)
DeletePortableCheckpoint ==
  /\ ledger.checkpoints # <<>>
  /\ ledger' = [ledger EXCEPT !.checkpoints = <<>>]
  /\ UNCHANGED <<session, issued, answers, calls>>

(* Whether a worker may dispatch or report under a claim it holds, as long   *)
(* as the claim has not expired.                                             *)
ClaimValid(c) ==
  /\ c.epoch = ledger.epoch
  /\ c.fence = ledger.fence
  /\ ledger.state = "active"

Next ==
  \/ \E s \in Session :
       \/ Prepare(s) \/ Resend(s) \/ Call(s) \/ RunGuarded(s) \/ AbortBeforeCommit(s)
       \/ Disconnect(s) \/ CommitLate(s) \/ RollBackLate(s) \/ ResolveFate(s)
       \/ FenceOldSession(s)
  \/ RestartAuthority \/ ExpireReplayEvidence \/ DeletePortableCheckpoint

Fairness ==
  \A s \in Session :
    /\ WF_vars(Call(s))
    /\ WF_vars(RunGuarded(s) \/ AbortBeforeCommit(s))
    /\ WF_vars(CommitLate(s) \/ RollBackLate(s))
    /\ WF_vars(ResolveFate(s))
    /\ WF_vars(FenceOldSession(s))

Spec == Init /\ [][Next]_vars /\ Fairness

-----------------------------------------------------------------------------
(* An operation identity is recorded once, however often it is sent, and the *)
(* native mutations are those of the recorded commits, in their order.       *)
(* Whoever is given an accepted result of an operation is given the same one *)
(* for the same request: an answer lost and replayed, after other operations *)
(* moved the generation, or asked for by another session.                    *)
AppliedOnce ==
  LET recorded(i) == ledger.receipts[i].request
      mutation(k) == ledger.mutations[k]
  IN  /\ \A i, j \in DOMAIN ledger.receipts : recorded(i).id = recorded(j).id => i = j
      /\ {mutation(k) : k \in DOMAIN ledger.mutations}
           = {recorded(i).id : i \in {j \in DOMAIN ledger.receipts :
                                       recorded(j).op = "guarded_commit"}}
      /\ \A k, l \in DOMAIN ledger.mutations, i, j \in DOMAIN ledger.receipts :
           mutation(k) = recorded(i).id /\ mutation(l) = recorded(j).id => (k < l <=> i < j)
      /\ \A a, b \in answers : a.id = b.id => a = b

(* A frozen scope has no transaction left whose fate is unknown, and the     *)
(* inventory its freeze evidence covers lists all that the storage holds; of *)
(* what it lists only portable checkpoints can be gone since.  A retirement  *)
(* grant is given for that freeze, once, and nothing else is committed in    *)
(* between.                                                                  *)
FreezeCoversStorage ==
  /\ ledger.state = "frozen" =>
       /\ ~InDoubt
       /\ InventoryOf(ledger) \subseteq ledger.inventory
       /\ \A m \in ledger.inventory \ InventoryOf(ledger) : m.kind = "checkpoint"
  /\ Cardinality(ledger.grants) <= 1
  /\ \A g \in ledger.grants :
       /\ g.freeze = ledger.gen - 1 /\ ledger.state = "retired"
       /\ ledger.receipts[Len(ledger.receipts) - 1].request.op = "freeze_scope"

(* What a session was told of its transaction's fate is what the storage     *)
(* holds, from the answer until the session is fenced: the transaction does  *)
(* not arrive in between.                                                    *)
FateStands ==
  \A s \in Session :
    session[s].phase = "resolved" => session[s].told = StoredFate(session[s].request)

(* Of all claims that workers ever held at most one lets a worker act.       *)
OneLiveClaim == \A c, d \in issued : ClaimValid(c) /\ ClaimValid(d) => c = d

(* Every call is answered or its connection ends: a call at the guard is not *)
(* left waiting by a writer that aborts, is cut off or restarts.             *)
EveryCallEnds ==
  \A s \in Session : session[s].phase \in {"ready", "waiting"} ~> session[s].phase = "idle"
=============================================================================
