--------------------------- MODULE SpawnedRuntimes ---------------------------
(***************************************************************************)
(* The checkpoint of an order machine that spawns one payment runtime, as    *)
(* the trace functions of scripts/generate_execution_checkpoint_profile.py   *)
(* change it, and the evidence checks that                                   *)
(* validate_execution_checkpoint_v1_semantics makes on every checkpoint.     *)
(* The two are written independently; PersistenceHost runs the first and     *)
(* asks the second of what it stores.                                        *)
(*                                                                           *)
(* The order machine is that of checkpoint-05 (paid is an ordinary state) or *)
(* of checkpoint-06 (paid is final) with the host_commit handler of          *)
(* persistence-02 at its root.  A checkpoint is one record, because the code *)
(* passes one document from function to function.                            *)
(***************************************************************************)
EXTENDS Naturals, SequencesExt

CONSTANTS
  Starts,    \* deliveries of start to the order runtime
  Pays,      \* deliveries of pay to the payment runtime
  Short,     \* those of Pays whose amount is below what is due
  Commits,   \* deliveries of host_commit to the order runtime
  Terminal   \* whether the state paid is final

Deliveries == Starts \cup Pays \cup Commits

ASSUME ShortAssumption == Short \subseteq Pays
ASSUME TerminalAssumption == Terminal \in BOOLEAN
ASSUME EventsAssumption == Starts \cap (Pays \cup Commits) = {} /\ Pays \cap Commits = {}

(* The identity of a native event, or of an effect, names the delivery and    *)
(* the logical step that made it; no delivery of the host is called so.      *)
NativeId == [cause : Deliveries, step : Nat]
ASSUME IdentityAssumption == Deliveries \cap NativeId = {}

Runtimes == {"order", "payment"}
MailboxOf(id) == IF id \in Pays THEN "payment" ELSE "order"

Created ==
  [revision |-> 0, definition |-> "source",
   state |-> "idle", status |-> "running", payment |-> "absent",
   ready |-> [r \in Runtimes |-> <<>>],
   nextAcceptance |-> 0, nextQueue |-> 0, nextStep |-> 1, nextOutput |-> 0,
   receipts |-> <<[kind |-> "creation", revision |-> 0]>>,
   intents |-> <<>>, audits |-> <<>>]

-----------------------------------------------------------------------------
(* Admission. *)

Enqueued(c, id) ==
  [c EXCEPT !.ready[MailboxOf(id)] =
              Append(@, [id |-> id, acceptance |-> c.nextAcceptance, queue |-> c.nextQueue]),
            !.nextAcceptance = @ + 1, !.nextQueue = @ + 1]

Admitted(c, id) ==
  [Enqueued(c, id) EXCEPT
     !.revision = @ + 1,
     !.receipts = Append(@, [kind |-> "acceptance", id |-> id, revision |-> c.revision + 1,
                             acceptance |-> c.nextAcceptance])]

-----------------------------------------------------------------------------
(* Steps.  Each takes the oldest entry of a mailbox, commits a revision and  *)
(* appends the terminal receipt of the entry.                                *)

Taken(c, r) == [c EXCEPT !.ready[r] = Tail(@), !.revision = @ + 1]

Stepped(c, r) == [Taken(c, r) EXCEPT !.nextStep = @ + 1]

Concluded(after, x, disposition, emissions) ==
  [after EXCEPT !.receipts = Append(@,
     [kind |-> "terminal", id |-> x.id, revision |-> after.revision,
      acceptance |-> x.acceptance, queue |-> x.queue,
      disposition |-> disposition, status |-> after.status, emissions |-> emissions])]

Unhandled(c, r, x) == Concluded(Taken(c, r), x, "unhandled", <<>>)

(* start in idle: the order spawns its payment runtime and checks out.       *)
PaymentStarted(c, x) ==
  Concluded([Stepped(c, "order") EXCEPT !.state = "checkout", !.payment = "running"],
            x, "handled", <<>>)

(* pay in full: the payment runtime is removed, its completion is queued at  *)
(* its owner behind what the owner holds.                                    *)
PaymentCompleted(c, x) ==
  LET done == [cause |-> x.id, step |-> c.nextStep]
      reference == [kind |-> "internal_mailbox", id |-> done,
                    acceptance |-> c.nextAcceptance, queue |-> c.nextQueue]
  IN Concluded([Enqueued(Stepped(c, "payment"), done) EXCEPT
                  !.payment = "removed", !.ready["payment"] = <<>>],
               x, "handled", <<reference>>)

(* Slip: the producer's reference keeps saying that the event is queued.     *)
StillQueued(receipts, x) == receipts

(* The reference of its producer moves from the mailbox to the receipt that  *)
(* is appended next.                                                         *)
Terminated(receipts, x) ==
  LET settled(ref) ==
        IF ref.kind = "internal_mailbox" /\ ref.id = x.id
        THEN [kind |-> "internal_terminal", id |-> ref.id,
              acceptance |-> ref.acceptance, terminal |-> Len(receipts) + 1]
        ELSE ref
  IN [i \in DOMAIN receipts |->
        IF receipts[i].kind = "terminal"
        THEN [receipts[i] EXCEPT
                !.emissions = [k \in DOMAIN @ |-> settled(receipts[i].emissions[k])]]
        ELSE receipts[i]]

DoneProcessed(c, x) ==
  Concluded([Stepped(c, "order") EXCEPT
               !.state = "paid", !.status = IF Terminal THEN "completed" ELSE @,
               !.receipts = Terminated(@, x)],
            x, "handled", <<>>)

(* host_commit: one external effect, whose intent joins the outbox.          *)
EffectSent(c, x) ==
  LET effect == [cause |-> x.id, step |-> c.nextStep]
      after == Stepped(c, "order")
  IN Concluded([after EXCEPT
                  !.intents = Append(@, [effect |-> effect, sequence |-> c.nextOutput,
                                         revision |-> after.revision]),
                  !.nextOutput = @ + 1],
               x, "handled", <<[kind |-> "external_outbox", effect |-> effect]>>)

Runnable(c, r) == c.ready[r] # <<>> /\ c.status = "running"

Processed(c, r) ==
  LET x == Head(c.ready[r]) IN
  CASE x.id \in Starts /\ c.state = "idle" -> PaymentStarted(c, x)
    [] x.id \in Pays \ Short               -> PaymentCompleted(c, x)
    [] x.id \in Commits                    -> EffectSent(c, x)
    [] x.id \notin Deliveries              -> DoneProcessed(c, x)
    [] OTHER                               -> Unhandled(c, r, x)

-----------------------------------------------------------------------------
(* Migration, admission and processing in one transaction.                   *)

Migrated(c) ==
  [c EXCEPT !.definition = "target",
            !.audits = Append(@, [source |-> c.definition, target |-> "target",
                                  sourceRevision |-> c.revision])]

(* Slip: the intents keep the revision the processing gave them.             *)
ReceiptsCoalesced(source, processed) ==
  [processed EXCEPT
     !.revision = source.revision + 1,
     !.receipts = [i \in DOMAIN @ |->
        IF i <= Len(source.receipts) THEN processed.receipts[i]
        ELSE [processed.receipts[i] EXCEPT !.revision = source.revision + 1]]]

Coalesced(source, processed) ==
  [processed EXCEPT
     !.revision = source.revision + 1,
     !.receipts = [i \in DOMAIN @ |->
        IF i <= Len(source.receipts) THEN processed.receipts[i]
        ELSE [processed.receipts[i] EXCEPT !.revision = source.revision + 1]],
     !.intents = [i \in DOMAIN @ |->
        IF processed.intents[i].revision <= source.revision THEN processed.intents[i]
        ELSE [processed.intents[i] EXCEPT !.revision = source.revision + 1]]]

Combined(c, id, migrates) ==
  Coalesced(c, Processed(Admitted(IF migrates THEN Migrated(c) ELSE c, id), MailboxOf(id)))

-----------------------------------------------------------------------------
(* The validator's view of a checkpoint. *)

Ends(c) == {i \in DOMAIN c.receipts : c.receipts[i].kind = "terminal"}
Accepted(c) == {c.receipts[i] : i \in {j \in DOMAIN c.receipts : c.receipts[j].kind = "acceptance"}}
Live(c) == UNION {Range(c.ready[r]) : r \in Runtimes}
Located(c) == Live(c) \cup {c.receipts[i] : i \in Ends(c)}

(* The emission references, with the place of the receipt that makes them.   *)
References(c) ==
  UNION {{[by |-> i, ref |-> r] : r \in Range(c.receipts[i].emissions)} : i \in Ends(c)}
Produced(c) == {p \in References(c) : p.ref.kind \in {"internal_mailbox", "internal_terminal"}}

(* Identities and acceptance numbers are used once, in one place.            *)
PlacesDistinct(c) ==
  LET uniqueIn(S) == \A x, y \in S : (x.id = y.id \/ x.acceptance = y.acceptance) => x = y
  IN /\ uniqueIn(Located(c)) /\ uniqueIn(Accepted(c))
     /\ \A x \in Located(c) \cup Accepted(c) : x.acceptance < c.nextAcceptance

(* A host delivery has its acceptance and no producer; a native event has no *)
(* acceptance and one producer, which came before it and says where it is.   *)
HostEvidence(c) ==
  \A x \in Located(c) :
    {a.acceptance : a \in {b \in Accepted(c) : b.id = x.id}}
      = IF x.id \in Deliveries THEN {x.acceptance} ELSE {}

ProducedOnce(c) ==
  /\ \A x \in Live(c) : x.id \notin Deliveries =>
       {p.ref : p \in {q \in Produced(c) : q.ref.id = x.id}} =
         {[kind |-> "internal_mailbox", id |-> x.id, acceptance |-> x.acceptance,
           queue |-> x.queue]}
  /\ \A i \in Ends(c) : LET x == c.receipts[i] IN x.id \notin Deliveries =>
       \E p \in Produced(c) :
         /\ {q \in Produced(c) : q.ref.id = x.id} = {p}
         /\ p.ref = [kind |-> "internal_terminal", id |-> x.id,
                     acceptance |-> x.acceptance, terminal |-> i]
         /\ p.by < i

NothingOrphaned(c) ==
  {a.id : a \in Accepted(c)} \cup {p.ref.id : p \in Produced(c)}
    \subseteq {x.id : x \in Located(c)}

EffectsReferenced(c) ==
  {n.effect : n \in Range(c.intents)} = {p.ref.effect : p \in References(c) \ Produced(c)}

Chronological(c) ==
  /\ \A i, j \in DOMAIN c.receipts : i < j => c.receipts[i].revision <= c.receipts[j].revision
  /\ \A i \in DOMAIN c.receipts : c.receipts[i].revision <= c.revision
  /\ \A i \in DOMAIN c.intents : c.intents[i].revision <= c.revision

(* A runtime takes its deliveries in the order in which they were queued.    *)
OldestFirst(c) ==
  LET ends(r) == {i \in Ends(c) : MailboxOf(c.receipts[i].id) = r}
  IN \A r \in Runtimes : \A i \in ends(r) :
       /\ \A j \in ends(r) : i < j => c.receipts[i].queue < c.receipts[j].queue
       /\ \A x \in Range(c.ready[r]) : c.receipts[i].queue < x.queue

EvidenceValid(c) ==
  PlacesDistinct(c) /\ HostEvidence(c) /\ ProducedOnce(c) /\ NothingOrphaned(c)
    /\ EffectsReferenced(c) /\ Chronological(c) /\ OldestFirst(c)
=============================================================================
