---------------------------- MODULE MCAggregate ----------------------------
(* A transaction server with two definitions, of which the second has less      *)
(* capacity and no held_request, or parallel components with three, of which the *)
(* last has no finish_right.                                                  *)
EXTENDS AggregateMigration

CONSTANTS t1, t2, p1, p2, p3, a, b, c, m, n

DefinitionsDef == {t1, t2, p1, p2, p3}
ChartDef == (t1 :> "transaction_server") @@ (t2 :> "transaction_server")
            @@ (p1 :> "parallel_components") @@ (p2 :> "parallel_components")
            @@ (p3 :> "parallel_components")
CapacityDef == (t1 :> 2) @@ (t2 :> 1) @@ (p1 :> 1) @@ (p2 :> 1) @@ (p3 :> 1)
RemovedDef == (t1 :> {}) @@ (t2 :> {"held_request"}) @@ (p1 :> {}) @@ (p2 :> {}) @@ (p3 :> {"finish_right"})

Request(id, event, to, mode) ==
  [id |-> <<id>>, event |-> event, target |-> to, mode |-> mode, sound |-> TRUE, proper |-> TRUE]
RequestsDef ==
  {Request(a, e, "root", "input") : e \in {"new_request", "fanout", "finish_left", "enter_faulty"}}
  \cup {Request(b, e, "root", "input") : e \in {"received", "finish_right", "enter_cleanup"}}
  \cup {Request(c, e, "root", "input") : e \in {"new_request", "held_request", "aggregate_finish"}}
  \cup {Request(n, "component_work", "retained", "internal"),
        Request(n, "cancel_after_send", "root", "input")}

Hop(from, to, disposes, preserves) ==
  [from |-> from, to |-> to, disposes |-> disposes, preserves |-> preserves]
Plan(route, target, maintenance) ==
  [route |-> route, target |-> target, maintenance |-> maintenance]
PlansDef ==
  {Plan(<<Hop(t1, t2, {}, {})>>, t2, FALSE),
   Plan(<<Hop(t1, t2, {"held_request"}, {})>>, t2, FALSE),
   Plan(<<>>, t1, TRUE),
   Plan(<<Hop(p1, p2, {}, {})>>, p2, FALSE),
   Plan(<<Hop(p1, p2, {}, {"faulted"}), Hop(p2, p3, {}, {"faulted"})>>, p3, TRUE)}
=============================================================================
