------------------------------ MODULE Recovery ------------------------------
(***************************************************************************)
(* The driver of the recovery profile, scripts/run_recovery_profile.py, over *)
(* the native store: one case per behaviour.  A case of local transfer first *)
(* runs the source's life (lifecycle plan, freeze, export and, for one case, *)
(* a process cut in the middle of a source transaction); then the archive is *)
(* staged, the case's lineage of setup operations runs, and the tested       *)
(* operation.  After every call the driver compares the store before and     *)
(* after it with what the call may do, and gives up at the first difference. *)
(*                                                                           *)
(* The bridge is the reviewed adapter of an implementation, outside the      *)
(* repository: here it may do what the operation should, or get one field of *)
(* the store wrong, skip the commit, answer otherwise, claim a commit that   *)
(* is not there, leave out a journal entry or die.  So the invariants say    *)
(* what the driver's checks establish of whatever passes them.               *)
(***************************************************************************)
EXTENDS RecoveryStore, FiniteSets

CONSTANTS
  Case,        \* case label -> what the fixture says of the case
  Tested,      \* labels of the cases to run
  Plan,        \* the operations of the source lifecycle plan
  MaxDefects,  \* bound: wrong documents a bridge commits in one case
  MaxRetry,    \* bound: further attempts of a bridge in one call
  MaxBuild     \* bound: upgrades of the installed bridge during a case

ASSUME TestedAssumption == Tested \subseteq DOMAIN Case
ASSUME BoundsAssumption == {MaxDefects, MaxRetry, MaxBuild} \subseteq Nat

VARIABLES
  label,     \* the case that runs
  todo,      \* the calls the driver has still to make, in order
  call,      \* the call under way: operation, snapshot before it, the answer
  ref,       \* source_reference: the frozen source the driver compares with
  accepted,  \* labels and source steps whose call passed its checks
  verdict,   \* running, passed or failed
  build,     \* installed bridge
  defects

driverVars == <<label, todo, call, ref, accepted, verdict, build, defects>>
vars == <<recoveryStoreVars, driverVars>>

None == "none"
SourceOperations ==
  {"configure_scope", "allocate_scope", "create_root", "admit_event", "step_root",
   "append_host_journal", "claim_worker"}
NoCall == [op |-> 0]
NoRef == [scope |-> None]

Initial ==
  [built |-> {}, scope |-> [st |-> "absent", auth |-> 0, home |-> TRUE, fenced |-> FALSE],
   inv |-> "archive", claims |-> FALSE, slog |-> <<>>, alog |-> {}, records |-> {},
   staged |-> FALSE, scopes |-> {}, names |-> {}, ended |-> {}, imported |-> FALSE,
   foreignClaims |-> FALSE, external |-> FALSE, proofs |-> {}]

-----------------------------------------------------------------------------
(* The plan of a case.                                                       *)
Producers ==
  [strict_quarantine |-> <<"strict_quarantine">>,
   standalone_inactive |-> <<"standalone_takeover">>,
   standalone_resumed |-> <<"standalone_takeover", "standalone_resume">>,
   clone_inactive |-> <<"clone_scope">>,
   clone_resolved |-> <<"clone_scope", "clone_cancel_pending">>,
   local_transfer_staged |-> <<"local_prepare", "local_stage">>]

(* What the profile's validator demands of the cases: a record grants a fresh *)
(* scope with a namespace of its own to whoever does not relocate, ...        *)
RecordValid(x) == x.mode \in {"standalone", "clone"} => x.scope # "source" /\ x.ns # None

(* ... a case starts from a record that exists, and relocates or presents a   *)
(* proof of transfer under the profile of local transfer only, ...            *)
CaseValid(c) ==
  /\ c.prior \in {None} \cup DOMAIN Producers \cup DOMAIN Case
  /\ \A x \in c.record : RecordValid(x) /\ (x.mode = "relocation" => c.local)
  /\ c.proof # None => c.local

(* ... and the namespace of a scope that was taken over and ended is refused  *)
(* under the ordinary profile.                                               *)
NamespaceCaseValid(c) ==
  c.ended => c.prior = "standalone_inactive" /\ ~c.succeeds /\ c.record = {} /\ ~c.local

ASSUME CaseAssumption ==
  \A l \in DOMAIN Case : CaseValid(Case[l]) /\ NamespaceCaseValid(Case[l])

(* A record that no producer makes is named by the case that leaves it.      *)
Lineage[l \in DOMAIN Case] ==
  LET prior == Case[l].prior
  IN  IF prior \in DOMAIN Producers THEN Append(Producers[prior], l)
      ELSE IF prior \in DOMAIN Case THEN Append(Lineage[prior], l)
      ELSE <<l>>

(* input_for returns: a lineage is finite, and no case is its own setup.  In  *)
(* recovery-cases-v1.json, local_activate activates an import, and each case  *)
(* with it in its lineage is configured for local transfer.                  *)
ASSUME LineageAssumption ==
  \A l \in DOMAIN Case :
    LET run == Lineage[l]
    IN  /\ run \in Seq(STRING) /\ run # <<>> /\ run[Len(run)] = l
        /\ \A i, j \in DOMAIN run : run[i] = run[j] => i = j
        /\ (\E i \in DOMAIN run : run[i] = "local_activate") =>
             Case[l].local /\ Case["local_activate"].op = "activate_import"

(* An operation of the plan is known by its name, as each has an identity of *)
(* its own in the code.                                                      *)
ASSUME PlanAssumption ==
  Plan \in Seq(STRING) /\ \A i, j \in DOMAIN Plan : Plan[i] = Plan[j] => i = j

(* An equal replay first runs the very request it repeats.                   *)
Setup(l) ==
  IF l = "standalone_equal_replay" THEN <<"standalone_takeover">>
  ELSE LET run == Lineage[l] IN SubSeq(run, 1, Len(run) - 1)

ValidPlan(plan) ==
  LET names == {plan[i] : i \in DOMAIN plan}
  IN  /\ names \subseteq SourceOperations
      /\ Cardinality({i \in DOMAIN plan : plan[i] = "create_root"}) = 1
      /\ {"configure_scope", "allocate_scope", "admit_event", "step_root",
          "append_host_journal", "claim_worker"} \subseteq names

Calls(phase, names) == [i \in DOMAIN names |-> [phase |-> phase, name |-> names[i]]]

SourceCalls(l) ==
  Calls("source_operation", Plan) \o
  <<[phase |-> "source_freeze", name |-> None], [phase |-> "archive_export", name |-> None]>> \o
  (IF l = "local_in_doubt_source" THEN <<[phase |-> "source_fault_cut", name |-> None]>> ELSE <<>>)

CaseCalls(l) ==
  (IF Case[l].local THEN SourceCalls(l) ELSE <<>>) \o
  <<[phase |-> "archive_stage", name |-> None]>> \o
  Calls("recovery", Setup(l)) \o
  (IF Case[l].ended THEN <<[phase |-> "scope_terminate", name |-> None]>> ELSE <<>>) \o
  <<[phase |-> "recovery", name |-> l]>>

-----------------------------------------------------------------------------
(* What the operation of a call should make of the store.                    *)
Allocating == {"standalone_takeover", "clone_scope"}
Importing == Allocating \cup {"strict_restore", "activate_import"}
Entry(state) == [state |-> state, bound |-> TRUE]

Built(s, op) ==
  [s EXCEPT !.built = @ \cup {op},
            !.claims = @ \/ op = "claim_worker",
            !.scope.st = IF op = "configure_scope" THEN "active" ELSE @]

Frozen(s) ==
  [s EXCEPT !.scope.st = "frozen", !.claims = FALSE, !.slog = Append(@, "freeze")]

Recovered(c, s) ==
  [s EXCEPT
    !.records = {r \in @ : \A x \in c.record : r.scope # x.scope} \cup c.record,
    !.scopes = IF c.op \in Allocating THEN @ \cup {x.scope : x \in c.record} ELSE @,
    !.names = IF c.op \in Allocating THEN @ \cup {x.ns : x \in c.record} ELSE @,
    !.imported = @ \/ c.op \in Importing,
    !.scope = IF c.op = "commit_transfer"
              THEN [@ EXCEPT !.st = "retired", !.auth = 1, !.fenced = TRUE] ELSE @,
    !.slog = IF c.op = "commit_transfer" THEN Append(@, "commit") ELSE @,
    !.alog = @ \cup (CASE c.op = "prepare_transfer" -> {Entry("reserved")}
                       [] c.op = "commit_transfer" -> {Entry("consumed")}
                       [] OTHER -> {}),
    !.proofs = IF c.proof = None THEN @ ELSE @ \cup {c.proof}]

Due(k, s) ==
  CASE k.phase = "source_operation" -> Built(s, k.name)
    [] k.phase = "source_freeze" -> Frozen(s)
    [] k.phase = "archive_stage" -> [s EXCEPT !.staged = TRUE]
    [] k.phase = "scope_terminate" -> [s EXCEPT !.ended = {"d1"}]
    [] k.phase = "recovery" /\ Case[k.name].succeeds /\ ~Case[k.name].reads
         -> Recovered(Case[k.name], s)
    [] OTHER -> s

(* One field of the document is wrong.                                       *)
SourceDefects(s) ==
  {[s EXCEPT !.scope = r] :
     r \in {[s.scope EXCEPT !.st = x] : x \in {"absent", "active", "frozen", "retired"}}
           \cup {[s.scope EXCEPT !.auth = 1 - @], [s.scope EXCEPT !.home = ~@],
                 [s.scope EXCEPT !.fenced = ~@]}}
  \cup {[s EXCEPT !.inv = "altered"], [s EXCEPT !.claims = ~@],
        [s EXCEPT !.slog = <<>>], [s EXCEPT !.slog = Append(@, "commit")]}

DestinationDefects(s) ==
  {[s EXCEPT !.alog = @ \ {Entry("reserved")}],
   [s EXCEPT !.alog = @ \cup {[state |-> "reserved", bound |-> FALSE]}],
   [s EXCEPT !.alog = @ \cup {[state |-> "consumed", bound |-> FALSE]}],
   [s EXCEPT !.records = {}], [s EXCEPT !.staged = ~@], [s EXCEPT !.scopes = {}],
   [s EXCEPT !.names = {}], [s EXCEPT !.ended = {}], [s EXCEPT !.imported = FALSE],
   [s EXCEPT !.foreignClaims = TRUE], [s EXCEPT !.external = TRUE],
   [s EXCEPT !.proofs = {}], [s EXCEPT !.proofs = @ \cup {"committed"}]}

Wrong(k, s) ==
  IF k.phase = "source_operation" THEN SourceDefects(s)
  ELSE SourceDefects(s) \cup DestinationDefects(s)

-----------------------------------------------------------------------------
(* The driver's checks.  b and a are the documents before and after a call.  *)
NewInvocations == Since(invocations, call.before.invocations)
NewTransactions == Since(transactions, call.before.transactions)
Changed == call.before.state # native

(* native_call: one invocation, returned, of this very request; the document *)
(* changed if and only if one commit did it, and the answer claims just it.  *)
JournalOneCommit(k) ==
  /\ Len(NewTransactions) <= 1
  /\ Changed <=> Len(NewTransactions) = 1
  /\ Changed =>
       LET t == NewTransactions[1]
       IN  /\ t.op = call.op /\ t.phase = k.phase /\ t.request = k
           /\ t.before = call.before.state /\ t.after = native
  /\ call.claims <=> Changed

NativeCallAccepted(k) ==
  /\ call.child = "returned"
  /\ NewInvocations = <<[op |-> call.op, phase |-> k.phase, request |-> k,
                          bridge |-> call.bridge, response |-> "expected"]>>
  /\ JournalOneCommit(k)

(* The plan is complete and the source it made is the one of the archive.    *)
LiveInventory(s) ==
  /\ s.built = SourceOperations
  /\ s.scope = [st |-> "active", auth |-> 0, home |-> TRUE, fenced |-> FALSE]
  /\ s.inv = "archive" /\ s.claims

(* Slip: a writer may keep its claim over the freeze.                        *)
FreezeKeepsClaims(b, a) ==
  /\ NewTransactions # <<>>
  /\ a.scope = [b.scope EXCEPT !.st = "frozen"] /\ a.inv = b.inv /\ a.built = b.built
  /\ Cardinality({i \in DOMAIN a.slog : a.slog[i] = "freeze"}) = 1

FreezeAccepted(b, a) ==
  /\ FreezeKeepsClaims(b, a)
  /\ ~a.claims

ExportAccepted(b, a) ==
  /\ a = b /\ call.before.exports = <<>>
  /\ Len(exports) = 1 /\ exports[1].op = call.op
  /\ exports[1].archive = "archive" /\ exports[1].freeze = ref.freeze

CutAccepted(b, a) ==
  LET found == Since(cuts, call.before.cuts)
  IN  /\ call.child = "killed" /\ a = b /\ transactions = call.before.transactions
      /\ Len(found) = 1 /\ found[1].op = call.op /\ found[1].scope = "source"
      /\ found[1].fate = "in_doubt"
      /\ NewInvocations = <<[op |-> call.op, phase |-> "source_fault_cut",
           request |-> Head(todo), bridge |-> call.bridge, response |-> NoResponse]>>

(* verify_source_integrity, without a retirement.                            *)
SourceKept(b, a) ==
  /\ b.scope = ref.scope /\ b.slog = ref.slog
  /\ \A s \in {a, b} : s.inv = ref.inv /\ s.built = ref.built /\ ~s.claims

SourceUntouched(b, a) ==
  SourceKept(b, a) /\ a.scope = ref.scope /\ a.slog = ref.slog

(* Slip: a retired source may go by any authority.                           *)
RetiredByName(b, a) ==
  SourceKept(b, a) /\ a.scope.st = "retired" /\ a.slog = Append(ref.slog, "commit")

SourceRetired(b, a) ==
  /\ SourceKept(b, a)
  /\ a.scope = [ref.scope EXCEPT !.st = "retired", !.auth = 1, !.fenced = TRUE]
  /\ a.slog = Append(ref.slog, "commit")

Retiring(c) == c.op = "commit_transfer" /\ c.succeeds

StageAccepted(b, a) ==
  /\ ref # NoRef => SourceUntouched(b, a)
  /\ ~b.staged /\ a = [b EXCEPT !.staged = TRUE]

InDoubtRefused(c, b, a) ==
  ref.cut => c.op = "prepare_transfer" /\ ~c.succeeds /\ a = b

ReservedIn(s) == {e \in s.alog : e.state = "reserved"}
ConsumedIn(s) == {e \in s.alog : e.state = "consumed"}

PrepareProved(b, a) == NewTransactions # <<>> /\ Entry("reserved") \in a.alog \ b.alog

CommitProved(b, a) ==
  /\ NewTransactions # <<>> /\ b.scope.st = "frozen" /\ a.scope.st = "retired"
  /\ ReservedIn(b) = {Entry("reserved")}
  /\ Cardinality({r \in b.records : r.mode = "relocation"}) = 1
  /\ ConsumedIn(a) \ b.alog = {Entry("consumed")}
  /\ \A i \in DOMAIN b.slog : b.slog[i] # "commit"

ActsAfterRetirement(b, a) == b.scope.st = "retired" /\ a.scope.st = "retired"

LocalStepAccepted(c, b, a) ==
  /\ b.scope.home /\ a.scope.home /\ "freeze" \in {b.slog[i] : i \in DOMAIN b.slog}
  /\ ref.prepared => Entry("reserved") \in b.alog \cap a.alog
  /\ IF Retiring(c) THEN SourceRetired(b, a) ELSE SourceUntouched(b, a)
  /\ InDoubtRefused(c, b, a)
  /\ ~ref.cut =>
       /\ c.op \in {"prepare_transfer", "stage_transfer"} =>
            b.scope.st = "frozen" /\ a.scope.st = "frozen"
       /\ c.op = "prepare_transfer" /\ c.succeeds => PrepareProved(b, a)
       /\ Retiring(c) => CommitProved(b, a)
       /\ c.op \in {"activate_import", "guarded_action"} => ActsAfterRetirement(b, a)
       /\ ~c.succeeds /\ c.op \notin {"activate_import", "guarded_action"} => a = b

TerminationAccepted(b, a) ==
  a.names = b.names /\ "d1" \in a.ended /\ "d1" \in a.scopes

ReadsAndRefusalsWriteNothing(c, b, a) == ~c.succeeds \/ c.reads => a = b

(* The checks of run_case on the tested operation alone.                     *)
VerdictPassed(c, b, a) ==
  /\ b.staged /\ a.staged
  /\ LET setup == Setup(label)
     IN  setup # <<>> => Case[setup[Len(setup)]].record \subseteq b.records
  /\ b.external = a.external
  /\ ReadsAndRefusalsWriteNothing(c, b, a)
  /\ c.succeeds /\ ~c.reads => \A x \in c.record :
       /\ x \in a.records /\ a # b
       /\ c.op \in Allocating => x.scope \in a.scopes \ b.scopes /\ x.ns \in a.names \ b.names
       /\ x.mode \in {"standalone", "clone", "strict"} => a.imported /\ ~a.foreignClaims
  /\ c.proof # None =>
       /\ c.op \in {"prepare_transfer", "commit_transfer"} => c.proof \notin b.proofs
       /\ c.proof \in a.proofs
       /\ \E e \in a.alog : e.bound
  /\ c.op = "activate_import" /\ c.succeeds => a.imported

RecoveryAccepted(k, b, a) ==
  /\ Case[label].local => LocalStepAccepted(Case[k.name], b, a)
  /\ Len(todo) = 1 => VerdictPassed(Case[k.name], b, a)

CallAccepted(k) ==
  LET b == call.before.state
  IN  CASE k.phase = "source_operation" -> NativeCallAccepted(k) /\ NewTransactions # <<>>
        [] k.phase = "source_freeze" -> NativeCallAccepted(k) /\ FreezeAccepted(b, native)
        [] k.phase = "archive_export" -> NativeCallAccepted(k) /\ ExportAccepted(b, native)
        [] k.phase = "source_fault_cut" -> CutAccepted(b, native)
        [] k.phase = "archive_stage" -> NativeCallAccepted(k) /\ StageAccepted(b, native)
        [] k.phase = "scope_terminate" -> NativeCallAccepted(k) /\ TerminationAccepted(b, native)
        [] k.phase = "recovery" -> NativeCallAccepted(k) /\ RecoveryAccepted(k, b, native)

(* source_reference after an accepted call.                                  *)
NextRef(k) ==
  CASE k.phase = "source_freeze" ->
         [scope |-> native.scope, inv |-> native.inv, built |-> native.built,
          slog |-> native.slog, freeze |-> Len(transactions), cut |-> FALSE,
          prepared |-> FALSE]
    [] k.phase = "source_fault_cut" -> [ref EXCEPT !.cut = TRUE]
    [] k.phase = "recovery" /\ ref # NoRef /\ Retiring(Case[k.name]) ->
         [ref EXCEPT !.scope = native.scope, !.slog = native.slog]
    [] k.phase = "recovery" /\ ref # NoRef /\ Case[k.name].op = "prepare_transfer"
         /\ Case[k.name].succeeds -> [ref EXCEPT !.prepared = TRUE]
    [] OTHER -> ref

-----------------------------------------------------------------------------
Init ==
  /\ StoreInit(Initial)
  /\ label \in Tested
  /\ todo = CaseCalls(label)
  /\ call = NoCall /\ ref = NoRef /\ accepted = {}
  /\ verdict = IF Case[label].local /\ ~ValidPlan(Plan) THEN "failed" ELSE "running"
  /\ build = 0 /\ defects = 0

(* A freeze is asked for when the source is live and its inventory whole.    *)
SourceReady == Head(todo).phase = "source_freeze" => LiveInventory(native)

(* The driver snapshots the store and starts the bridge.                     *)
CallBridge ==
  /\ verdict = "running" /\ call = NoCall /\ todo # <<>> /\ SourceReady
  /\ call' = [op |-> Len(CaseCalls(label)) - Len(todo) + 1, before |-> Snapshot, bridge |-> 0,
              child |-> "alive", claims |-> FALSE]
  /\ UNCHANGED <<recoveryStoreVars, label, todo, ref, accepted, verdict, build, defects>>

GiveUpFreeze ==
  /\ verdict = "running" /\ call = NoCall /\ todo # <<>> /\ ~SourceReady
  /\ verdict' = "failed"
  /\ UNCHANGED <<recoveryStoreVars, label, todo, call, ref, accepted, build, defects>>

Bridged == call # NoCall /\ call.child = "alive"

(* An attempt is an operation identity the bridge uses in the call: its own   *)
(* first, and others where it tries again because it lost an answer.         *)
Attempts == {call.op} \cup {100 * n + call.op : n \in 1..MaxRetry}

BridgeStarts ==
  /\ Bridged
  /\ \E op \in Attempts :
       /\ op # call.op => Invoked(call.op)
       /\ InvocationStart(op, Head(todo).phase, Head(todo), call.bridge)
  /\ UNCHANGED driverVars

(* The commit carries the document of the call's start, as the driver sent.  *)
BridgeCommits ==
  /\ Bridged
  /\ LET k == Head(todo)
     IN  \E op \in Attempts, after \in {Due(k, native)} \cup (IF defects < MaxDefects THEN Wrong(k, Due(k, native)) ELSE {}) :
           /\ Commit(op, k.phase, k, call.before.state, after, "expected")
           /\ defects' = IF after = Due(k, native) THEN defects ELSE defects + 1
  /\ UNCHANGED <<label, todo, call, ref, accepted, verdict, build>>

BridgeExports ==
  /\ Bridged
  /\ ExportObservation(call.op, Len(transactions), native.inv)
  /\ UNCHANGED driverVars

BridgeIsCut ==
  /\ Bridged
  /\ SourceProcessCut(call.op, "source")
  /\ call' = [call EXCEPT !.child = "killed"]
  /\ UNCHANGED <<label, todo, ref, accepted, verdict, build, defects>>

BridgeReturns ==
  /\ Bridged
  /\ \E response \in {"expected", "other"}, claims \in BOOLEAN :
       /\ InvocationReturn(call.op, response)
       /\ call' = [call EXCEPT !.child = "returned", !.claims = claims]
  /\ UNCHANGED <<label, todo, ref, accepted, verdict, build, defects>>

(* The bridge can exit at any point; the driver reads the store and judges.  *)
Judge ==
  /\ call # NoCall /\ verdict = "running"
  /\ IF CallAccepted(Head(todo))
     THEN /\ todo' = Tail(todo)
          /\ ref' = NextRef(Head(todo))
          /\ accepted' = accepted \cup {Head(todo)}
          /\ UNCHANGED verdict
     ELSE /\ verdict' = "failed"
          /\ UNCHANGED <<todo, ref, accepted>>
  /\ call' = NoCall
  /\ UNCHANGED <<recoveryStoreVars, label, build, defects>>

BridgeUnchanged == build = 0

Finish ==
  /\ verdict = "running" /\ todo = <<>> /\ call = NoCall
  /\ verdict' = IF BridgeUnchanged THEN "passed" ELSE "failed"
  /\ UNCHANGED <<recoveryStoreVars, label, todo, call, ref, accepted, build, defects>>

(* Somebody installs another build of the bridge; it is not taken back.      *)
Upgrade ==
  /\ verdict = "running" /\ build < MaxBuild
  /\ build' = build + 1
  /\ UNCHANGED <<recoveryStoreVars, label, todo, call, ref, accepted, verdict, defects>>

Next ==
  \/ CallBridge \/ GiveUpFreeze \/ BridgeStarts \/ BridgeCommits \/ BridgeExports
  \/ BridgeIsCut \/ BridgeReturns \/ Judge \/ Finish \/ Upgrade

Spec == Init /\ [][Next]_vars
-----------------------------------------------------------------------------
AcceptedCase(l) == \E k \in accepted : k.phase = "recovery" /\ k.name = l
FrozenHere == ref # NoRef

(* A destination the driver saw activated stands alone: the source it was    *)
(* moved from is retired under the new authority, its old writes are fenced, *)
(* no source worker holds a claim, and it was retired once.                  *)
ActivationAfterRetirement ==
  AcceptedCase("local_activate") /\ call = NoCall /\ verdict # "failed" =>
    /\ native.scope = [st |-> "retired", auth |-> 1, home |-> TRUE, fenced |-> TRUE]
    /\ ~native.claims
    /\ Cardinality({i \in DOMAIN native.slog : native.slog[i] = "commit"}) = 1

(* From the freeze on, through every phase of a transfer, the source's       *)
(* inventory is the one exported and no writer works on it.                  *)
FrozenSourceKept ==
  FrozenHere /\ call = NoCall /\ verdict # "failed" =>
    native.inv = "archive" /\ native.built = SourceOperations /\ ~native.claims

(* An operation is committed once, also where the bridge lost the answer of  *)
(* its commit and asks again under another operation identity; one that is   *)
(* refused or only reads, an equal replay of a takeover among them, is not.  *)
AppliedOnce ==
  /\ \A i, j \in DOMAIN transactions :
       transactions[i].request = transactions[j].request => i = j
  /\ verdict = "passed" /\ (~Case[label].succeeds \/ Case[label].reads) =>
       \A i \in DOMAIN transactions : transactions[i].request # [phase |-> "recovery", name |-> label]
=============================================================================
