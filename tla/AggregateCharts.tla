--------------------------- MODULE AggregateCharts ---------------------------
(***************************************************************************)
(* The state machines the aggregates of the version-1 vectors run:           *)
(* conformance/core/117-version1-mailboxes/machine.yaml (one runtime that    *)
(* defers events) and component-machine.yaml (a root with components that    *)
(* complete, are cancelled or fault).  A leaf stands for its whole chain of  *)
(* active states.                                                            *)
(***************************************************************************)
EXTENDS Sequences

Runtimes == {"root", "left", "right", "faulty", "observer", "retained", "retained_peer"}
Machines == {"transaction_server", "parallel_components"}

InitialLeaf == [transaction_server |-> "idle", parallel_components |-> "processing"]

InputEvents == [
  transaction_server |-> {"new_request", "received", "authorized", "priority_request",
                          "retry", "held_request"},
  parallel_components |-> {"fanout", "finish_left", "finish_right", "enter_faulty",
                           "cancel_after_send", "cleanup_rollback", "enter_cleanup",
                           "aggregate_finish"}]
InternalEvents == [transaction_server |-> {},
                   parallel_components |-> {"component_work", "component_finish"}]

(* What only the core itself may send.  A failed component faults an owner    *)
(* that does not handle it; the others may go unhandled.                     *)
Reserved == {"done", "component_completed", "component_failed"}
MustBeHandled == {"component_failed"}

(* The components a leaf activates, and those of them whose initialization     *)
(* faults, in the order they are activated.                                   *)
ComponentsOf(leaf) ==
  CASE leaf = "processing"        -> {"left", "right"}
    [] leaf = "faulty_processing" -> {"faulty", "observer"}
    [] leaf = "cleanup_failed"    -> {"retained", "retained_peer"}
    [] OTHER                      -> {}
FaultAtStart(leaf) == IF leaf = "faulty_processing" THEN <<"faulty">> ELSE <<>>

Send(event, to) == [event |-> event, to |-> to]

(* The entry action of a leaf. *)
EntrySends(leaf) ==
  IF leaf = "faulty_processing" THEN <<Send("component_work", "faulty")>> ELSE <<>>

(* The exit action of cleanup_failed divides by zero. *)
ExitFaults(leaf) == leaf = "cleanup_failed"

(* The events a leaf defers: an inner state's own handler or deferral comes   *)
(* before the outer state's.                                                 *)
DeferredIn(leaf) ==
  CASE leaf = "receiving"   -> {"new_request", "retry", "held_request"}
    [] leaf = "authorizing" -> {"priority_request", "held_request"}
    [] OTHER                -> {}

(* A reaction sends events and then stays, moves to another leaf, reaches the *)
(* final state of its runtime, or stops the aggregate.                       *)
Does(sends, kind, goto) == [sends |-> sends, kind |-> kind, goto |-> goto]
Stay(sends) == Does(sends, "stay", "")
Move(leaf) == Does(<<>>, "move", leaf)
Final(sends) == Does(sends, "final", "")

(* The handlers of the leaves.  retry in authorizing has a guard that is      *)
(* false: it is not deferred there and nothing handles it.                    *)
Handlers ==
  {<<"idle", "new_request", Move("receiving")>>,
   <<"receiving", "received", Move("authorizing")>>,
   <<"receiving", "priority_request", Move("idle")>>,
   <<"authorizing", "new_request", Stay(<<>>)>>,
   <<"authorizing", "authorized", Move("idle")>>,
   <<"processing", "fanout",
     Stay(<<Send("component_work", "left"), Send("component_work", "right")>>)>>,
   <<"processing", "finish_left", Stay(<<Send("component_finish", "left")>>)>>,
   <<"processing", "finish_right", Stay(<<Send("component_finish", "right")>>)>>,
   <<"processing", "cancel_after_send", Final(<<Send("component_work", "left")>>)>>,
   <<"processing", "done", Final(<<>>)>>,
   <<"processing", "component_completed", Stay(<<>>)>>,
   <<"cleanup_failed", "cleanup_rollback", Final(<<Send("component_work", "retained")>>)>>,
   <<"left", "component_work", Stay(<<>>)>>,
   <<"right", "component_work", Stay(<<>>)>>,
   <<"left", "component_finish", Final(<<Send("component_work", "left")>>)>>,
   <<"right", "component_finish", Final(<<Send("component_work", "right")>>)>>}
  \cup {<<leaf, "enter_faulty", Move("faulty_processing")>> :
          leaf \in {"processing", "faulty_processing", "cleanup_failed"}}
  \cup {<<leaf, "enter_cleanup", Move("cleanup_failed")>> :
          leaf \in {"processing", "faulty_processing", "cleanup_failed"}}
  \cup {<<leaf, "aggregate_finish",
          Does(<<Send("component_work", "root")>>, "stop", "")>> :
          leaf \in {"processing", "faulty_processing", "cleanup_failed"}}

Reactions(leaf, event) == {h[3] : h \in {g \in Handlers : g[1] = leaf /\ g[2] = event}}
=============================================================================
