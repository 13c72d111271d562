--------------------------- MODULE RecoveryStore ---------------------------
(***************************************************************************)
(* The native store of the recovery probes, scripts/recovery_test_store.py:  *)
(* one document, and four append-only tables that witness what the bridge    *)
(* did: invocations, commits, process cuts and export observations.          *)
(*                                                                           *)
(* Abstractions.  A digest is the value it is computed from.  The commands   *)
(* of one call run one after another (the bridge is a sequential child of    *)
(* the driver; HostStore studies the store of this form under concurrency),  *)
(* so a command is one atomic step.  The native transaction identity of a    *)
(* commit is its place in the journal.                                       *)
(***************************************************************************)
EXTENDS Naturals, Sequences

VARIABLES
  native,        \* native_state.state_json
  transactions,  \* native_transactions, in sequence order
  invocations,   \* native_invocations, in sequence order
  cuts,          \* source_process_cuts
  exports        \* source_export_observations

recoveryStoreVars == <<native, transactions, invocations, cuts, exports>>

CommitPhases ==
  {"archive_stage", "recovery", "scope_terminate", "source_operation", "source_freeze"}

NoResponse == "none"

Snapshot ==
  [state |-> native, transactions |-> transactions, invocations |-> invocations,
   cuts |-> cuts, exports |-> exports]

(* The rows a later snapshot has and an earlier one has not.                 *)
Since(later, earlier) == SubSeq(later, Len(earlier) + 1, Len(later))

StoreInit(initial) ==
  /\ native = initial
  /\ transactions = <<>> /\ invocations = <<>> /\ cuts = <<>> /\ exports = <<>>

Invoked(op) == \E i \in DOMAIN invocations : invocations[i].op = op

(* The invocation of op has not returned, in this phase.                     *)
Live(op, phase) ==
  \E i \in DOMAIN invocations :
    invocations[i].op = op /\ invocations[i].phase = phase
      /\ invocations[i].response = NoResponse

CommittedBy(op) == {i \in DOMAIN transactions : transactions[i].op = op}

(* operation_id is UNIQUE in every table.                                    *)
InvocationStart(op, phase, request, bridge) ==
  /\ ~Invoked(op)
  /\ invocations' = Append(invocations,
       [op |-> op, phase |-> phase, request |-> request, bridge |-> bridge,
        response |-> NoResponse])
  /\ UNCHANGED <<native, transactions, cuts, exports>>

ReturnsCommitted(op, response) ==
  \A i \in CommittedBy(op) : transactions[i].response = response

InvocationReturn(op, response) ==
  /\ ReturnsCommitted(op, response)
  /\ \E i \in DOMAIN invocations :
       /\ invocations[i].op = op /\ invocations[i].response = NoResponse
       /\ invocations' = [invocations EXCEPT ![i].response = response]
  /\ UNCHANGED <<native, transactions, cuts, exports>>

(* The cut is durable, with its fate in doubt, before the bridge is killed.  *)
SourceProcessCut(op, scope) ==
  /\ Live(op, "source_fault_cut")
  /\ \A i \in DOMAIN cuts : cuts[i].op # op
  /\ cuts' = Append(cuts, [op |-> op, scope |-> scope, fate |-> "in_doubt"])
  /\ UNCHANGED <<native, transactions, invocations, exports>>

ExportObservation(op, freeze, archive) ==
  /\ Live(op, "archive_export")
  /\ \A i \in DOMAIN exports : exports[i].op # op
  /\ exports' = Append(exports, [op |-> op, freeze |-> freeze, archive |-> archive])
  /\ UNCHANGED <<native, transactions, invocations, cuts>>

(* Slip: the document the commit replaces is not compared.                   *)
CommitOverAnything(expected, after) == after # native

SwapAllowed(expected, after) == expected = native /\ after # native

Commit(op, phase, request, expected, after, response) ==
  /\ phase \in CommitPhases
  /\ Live(op, phase) /\ \A i \in DOMAIN invocations :
       invocations[i].op = op => invocations[i].request = request
  /\ CommittedBy(op) = {}
  /\ SwapAllowed(expected, after)
  /\ native' = after
  /\ transactions' = Append(transactions,
       [op |-> op, phase |-> phase, request |-> request, response |-> response,
        before |-> native, after |-> after])
  /\ UNCHANGED <<invocations, cuts, exports>>
=============================================================================
