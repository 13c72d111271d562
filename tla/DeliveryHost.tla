---------------------------- MODULE DeliveryHost ----------------------------
(***************************************************************************)
(* The host that the lossless-delivery profile requires: who owns a source   *)
(* item or an outbound effect, from the vectors and the evidence links that  *)
(* validate_lossless_delivery.py demands and run_lossless_delivery_profile.py*)
(* compares an adapter with.                                                 *)
(*                                                                         *)
(* Several workers of an adapter take source items to the host document and  *)
(* effects to their destination.  They read the document, call the transport *)
(* and commit by compare-and-swap; a worker may be killed between any two    *)
(* of these, another owner may take the scope over, a source item may come   *)
(* again, with other content, or be poison.  The store's and the transport's *)
(* own steps are in HostStore and LosslessDelivery.                          *)
(*                                                                         *)
(* Abstractions.  The number of host commits stands for the document's       *)
(* digest and its checkpoint's revision; an event is named by the source     *)
(* item that carries it; the machine is the profile's transaction server.    *)
(***************************************************************************)
EXTENDS Integers, Sequences, FiniteSets, Functions

CONSTANTS
  Worker,      \* workers of the adapter
  Items,       \* the source items of a scope, in source order
  Event,       \* the event that each item's envelope carries
  Content,     \* per item, the canonical contents it may come with
  Effect,      \* effects with a pending intent
  MaxCommit,   \* bound: host commits
  MaxEpoch     \* bound: owners of the scope

ASSUME BoundsAssumption == {MaxCommit, MaxEpoch} \subseteq Nat
ASSUME ItemAssumption ==
  /\ Items \in Seq(Range(Items)) /\ IsInjective(Items)
  /\ Event \in [Range(Items) -> {"new_request", "received"}]
  /\ DOMAIN Content = Range(Items)

VARIABLES
  host,          \* the host document
  sources,       \* source items that the transport holds
  acknowledged,  \* those the source may forget, with the content it was told for
  epoch,         \* present owner of the scope
  ordered,       \* the source is configured as source_ordered
  worker         \* per worker: its operation

vars == <<host, sources, acknowledged, epoch, ordered, worker>>

Idle == [kind |-> "idle"]
NotCanonical == "not_canonical"
Removed == "removed"
Item == Range(Items)

-----------------------------------------------------------------------------
(* The driver seeds a host that has work of one kind: source items to come, *)
(* or effects whose intents the core emitted.                               *)
Seed(machine, effects) ==
  [rev |-> 0, machine |-> machine, ready |-> <<>>, deferred |-> <<>>, receipts |-> <<>>,
   transfers |-> {}, destination |-> {}, outbox |-> [e \in effects |-> "pending"]]

Init ==
  /\ \E machine \in {"idle", "receiving"}, effects \in {{}, Effect} :
       /\ host = Seed(machine, effects)
       /\ sources = IF effects = {} THEN Item ELSE {}
  /\ acknowledged = {}
  /\ epoch = 1
  /\ ordered \in BOOLEAN
  /\ worker = [w \in Worker |-> Idle]

(* A request names a source item and holds its content and its envelope, none *)
(* for poison.  Spellings that are not canonical are refused.                *)
Requests ==
  UNION {[source : {s}, content : Content[s] \cup {NotCanonical},
          envelope : {"declared", "undeclared", "none"}] : s \in Item}
ValidSource(m) == m.content # NotCanonical

Place(s) == CHOOSE i \in DOMAIN Items : Items[i] = s
Ingest(ms) == \A i \in DOMAIN ms : ms[i].envelope # "none"
Operations ==
  {<<m>> : m \in Requests}
    \cup {ms \in Requests \X Requests : Place(ms[1].source) < Place(ms[2].source) /\ Ingest(ms)}

Transferred == {t.source : t \in host.transfers}
Kind(m) == IF m.envelope = "none" THEN "dead_letter" ELSE "binding"

(* Slip: the item's identity alone is looked up. *)
MatchesIdentity(t, m) == t.source = m.source
Matches(t, m) == t.source = m.source /\ t.content = m.content /\ t.kind = Kind(m)

(* An equal redelivery is answered from what was committed for it; any other *)
(* use of its identity is a conflict and changes nothing.                    *)
Redelivered(ms) == \A i \in DOMAIN ms : \E t \in host.transfers : Matches(t, ms[i])

(* In a source-ordered scope an item waits for the unresolved ones before it; *)
(* those of its own batch are resolved with it.                              *)
Waits(ms) ==
  ordered /\ \E k \in DOMAIN ms : \E i \in 1 .. Place(ms[k].source) - 1 :
    Items[i] \notin Transferred \cup {ms[j].source : j \in DOMAIN ms}

(* What is transferred for the first time: a batch as a whole or not at all. *)
Fresh(ms) ==
  /\ \A i \in DOMAIN ms : ms[i].source \notin Transferred /\ ms[i].envelope # "undeclared"
  /\ Ingest(ms) => host.machine # Removed
  /\ ~Waits(ms)

(* Slip: whoever read the document may commit. *)
AnyOwner(claimed) == TRUE

(* A worker fetches items and reads the host document.  The present owner    *)
(* alone may answer an equal redelivery, which it does from the document and *)
(* with the acknowledgement that is still owed; else the items stay the      *)
(* source's.                                                                 *)
CurrentOwner(claimed) == claimed = epoch

Owed(ms) == {m \in Range(ms) : \A a \in acknowledged : a.source # m.source}

Fetch(w, ms, claimed) ==
  /\ worker[w] = Idle
  /\ \A i \in DOMAIN ms : ms[i].source \in sources /\ ValidSource(ms[i])
  /\ CurrentOwner(claimed)
  /\ \/ /\ Redelivered(ms) /\ Owed(ms) # {}
        /\ worker' = [worker EXCEPT ![w] = [kind |-> "transferred", owed |-> Owed(ms)]]
     \/ /\ Fresh(ms)
        /\ worker' = [worker EXCEPT ![w] =
             [kind |-> "fetched", members |-> ms, epoch |-> claimed]]
  /\ UNCHANGED <<host, sources, acknowledged, epoch, ordered>>

(* Slip: a worker commits on what it read, whatever became of it. *)
NotOvertaken(v) == worker[v]

(* A native transaction replaces the document that was read: it overtakes    *)
(* every other worker that read it, whose commit then fails.                 *)
Overtaken(v) ==
  IF worker[v].kind \in {"fetched", "delivered"} THEN Idle ELSE worker[v]
Replace(w, next) == worker' = [v \in Worker |-> IF v = w THEN next ELSE Overtaken(v)]

Transfer(m, receipt, owner) ==
  [kind |-> Kind(m), source |-> m.source, content |-> m.content,
   receipt |-> receipt, rev |-> host.rev + 1, epoch |-> owner]

(* The mailbox entries, their acceptance receipts and the bindings in one    *)
(* commit.                                                                   *)
Admitted(ms, owner) ==
  LET entries == [i \in DOMAIN ms |-> ms[i].source]
  IN [host EXCEPT
        !.rev = @ + 1,
        !.ready = @ \o entries,
        !.receipts = @ \o [i \in DOMAIN ms |-> [kind |-> "acceptance", source |-> ms[i].source]],
        !.transfers = @ \cup {Transfer(ms[i], Len(host.receipts) + i, owner) : i \in DOMAIN ms}]

(* A dead letter keeps the original content; the checkpoint is not touched.  *)
DeadLettered(m, owner) ==
  [host EXCEPT !.rev = @ + 1, !.transfers = @ \cup {Transfer(m, 0, owner)}]

Commit(w) ==
  /\ worker[w].kind = "fetched" /\ host.rev < MaxCommit
  /\ CurrentOwner(worker[w].epoch)
  /\ LET ms == worker[w].members
         owner == worker[w].epoch
     IN /\ host' = IF Ingest(ms) THEN Admitted(ms, owner) ELSE DeadLettered(ms[1], owner)
        /\ Replace(w, [kind |-> "transferred", owed |-> Range(ms)])
  /\ UNCHANGED <<sources, acknowledged, epoch, ordered>>

(* The source is told of one item after the other.  It forgets an item once; *)
(* a second acknowledgement is refused.                                      *)
Acknowledge(w) ==
  /\ worker[w].kind = "transferred"
  /\ \E m \in worker[w].owed :
       /\ acknowledged' = IF m \in Owed(<<m>>)
                          THEN acknowledged \cup {[source |-> m.source, content |-> m.content]}
                          ELSE acknowledged
       /\ worker' = [worker EXCEPT ![w] =
            IF @.owed = {m} THEN Idle ELSE [kind |-> "transferred", owed |-> @.owed \ {m}]]
  /\ UNCHANGED <<host, sources, epoch, ordered>>

-----------------------------------------------------------------------------
(* The machine takes the oldest ready event: it handles it, leaves it        *)
(* unhandled, or defers it while busy; `received` ends the state that        *)
(* defers, and what was deferred is ready again.                             *)
Reaction ==
  [idle        |-> [new_request |-> "receiving", received |-> "unhandled"],
   receiving   |-> [new_request |-> "deferred",  received |-> "authorizing"],
   authorizing |-> [new_request |-> "authorizing", received |-> "unhandled"]]

Terminal(s, disposition) == [kind |-> "event_terminal", source |-> s, disposition |-> disposition]

Stepped(s, reaction) ==
  CASE reaction = "deferred" ->
         [host EXCEPT !.rev = @ + 1, !.ready = Tail(@), !.deferred = Append(@, s)]
    [] reaction = "unhandled" ->
         [host EXCEPT !.rev = @ + 1, !.ready = Tail(@),
                      !.receipts = Append(@, Terminal(s, "unhandled"))]
    [] OTHER ->
         [host EXCEPT !.rev = @ + 1, !.machine = reaction,
                      !.ready = Tail(@) \o (IF reaction = host.machine THEN <<>> ELSE host.deferred),
                      !.deferred = IF reaction = host.machine THEN @ ELSE <<>>,
                      !.receipts = Append(@, Terminal(s, "handled"))]

Process ==
  /\ host.ready # <<>> /\ host.machine # Removed /\ host.rev < MaxCommit
  /\ LET s == Head(host.ready)
     IN host' = Stepped(s, Reaction[host.machine][Event[s]])
  /\ worker' = [v \in Worker |-> Overtaken(v)]
  /\ UNCHANGED <<sources, acknowledged, epoch, ordered>>

-----------------------------------------------------------------------------
(* Outbound.  The pending intent goes to its destination, whose answer is    *)
(* committed; an ambiguous one leaves the effect pending.  A terminal effect *)
(* is answered from its record.                                              *)
Pending(e) == host.outbox[e] \in {"pending", "ambiguous"}

Outcomes == {"ambiguous", "confirmed", "dead_lettered"}

Deliver(w, e, outcome) ==
  /\ worker[w] = Idle
  /\ Pending(e)
  /\ worker' = [worker EXCEPT ![w] =
       [kind |-> "delivered", effect |-> e, outcome |-> outcome]]
  /\ UNCHANGED <<host, sources, acknowledged, epoch, ordered>>

DestinationReceipt(e, outcome) == [effect |-> e, outcome |-> outcome, rev |-> host.rev + 1]
Decided(e, outcome) == IF outcome = "ambiguous" THEN {} ELSE {DestinationReceipt(e, outcome)}

Recorded(e, outcome) ==
  [host EXCEPT !.rev = @ + 1, !.outbox[e] = outcome, !.destination = @ \cup Decided(e, outcome)]

RecordOutcome(w) ==
  /\ worker[w].kind = "delivered" /\ host.rev < MaxCommit
  /\ host' = Recorded(worker[w].effect, worker[w].outcome)
  /\ Replace(w, Idle)
  /\ UNCHANGED <<sources, acknowledged, epoch, ordered>>

-----------------------------------------------------------------------------
(* A commit that fails, is overtaken or loses its owner leaves things as     *)
(* they are; so does a crash, before the commit or after it.                 *)
Abandon(w) ==
  /\ worker[w] # Idle
  /\ worker' = [worker EXCEPT ![w] = Idle]
  /\ UNCHANGED <<host, sources, acknowledged, epoch, ordered>>

TakeOver ==
  /\ epoch < MaxEpoch
  /\ epoch' = epoch + 1
  /\ UNCHANGED <<host, sources, acknowledged, ordered, worker>>

(* The root that the items are for ends. *)
RemoveTarget ==
  /\ host.machine # Removed /\ host.rev < MaxCommit
  /\ host' = [host EXCEPT !.machine = Removed, !.rev = @ + 1]
  /\ worker' = [v \in Worker |-> Overtaken(v)]
  /\ UNCHANGED <<sources, acknowledged, epoch, ordered>>

Next ==
  \/ \E w \in Worker :
       \/ \E ms \in Operations, claimed \in 1..epoch : Fetch(w, ms, claimed)
       \/ Commit(w) \/ Acknowledge(w)
       \/ \E e \in DOMAIN host.outbox, o \in Outcomes : Deliver(w, e, o)
       \/ RecordOutcome(w) \/ Abandon(w)
  \/ Process \/ TakeOver \/ RemoveTarget

Spec == Init /\ [][Next]_vars

-----------------------------------------------------------------------------
Accepted == {i \in DOMAIN host.receipts : host.receipts[i].kind = "acceptance"}
Places(s) ==
  {<<"ready", i>> : i \in {j \in DOMAIN host.ready : host.ready[j] = s}}
    \cup {<<"deferred", i>> : i \in {j \in DOMAIN host.deferred : host.deferred[j] = s}}
    \cup {<<"terminal", i>> : i \in {j \in DOMAIN host.receipts \ Accepted : host.receipts[j].source = s}}

(* A source item has one owner.  What the source was told to forget is what   *)
(* one binding or one dead letter holds; a binding has the one acceptance     *)
(* receipt of its event, and the event is in one mailbox or terminal, after   *)
(* redeliveries, conflicts, races, crashes, deferral and recall.              *)
OneOwner ==
  /\ \A a \in acknowledged :
       \E t \in host.transfers : t.source = a.source /\ t.content = a.content
  /\ \A t, u \in host.transfers : t.source = u.source => t = u
  /\ {<<t.receipt, t.source>> : t \in {u \in host.transfers : u.kind = "binding"}}
       = {<<i, host.receipts[i].source>> : i \in Accepted}
  /\ \A i \in Accepted : Cardinality(Places(host.receipts[i].source)) = 1

(* Owners of a scope commit one after the other, none after its successor,    *)
(* and in a source-ordered scope nothing overtakes an unresolved item.        *)
FencedInOrder ==
  /\ \A t, u \in host.transfers : t.rev < u.rev => t.epoch <= u.epoch
  /\ ordered => \A i, j \in DOMAIN Items :
       i < j /\ Items[j] \in Transferred => Items[i] \in Transferred

(* An effect is decided once and stays as it was decided; without a decision  *)
(* it is still pending.                                                       *)
DecidedOnce ==
  \A e \in DOMAIN host.outbox :
    LET decisions == {d \in host.destination : d.effect = e}
    IN /\ Pending(e) <=> decisions = {}
       /\ \A d \in decisions : decisions = {d} /\ host.outbox[e] = d.outcome
=============================================================================
