-------------------------- MODULE LosslessDelivery --------------------------
(***************************************************************************)
(* The inspectable transport of the lossless-delivery profile,               *)
(* scripts/lossless_delivery_test_transport.py, beside the host store it     *)
(* reads before it lets a source item be acknowledged.  An acknowledgement   *)
(* is a process of its own, in the four steps between which other processes  *)
(* can run: the attempt row is committed, fetch and barrier are compared,    *)
(* the store is read through a child process, and the source is updated.     *)
(*                                                                           *)
(* The digest of a binding or of a dead letter is the source item it is for, *)
(* and the checkpoint digest is the document.                                *)
(***************************************************************************)
EXTENDS HostStore, FiniteSetsExt

CONSTANTS
  AckProcess,   \* acknowledgement processes that can run at the same time
  MaxAttempts   \* bound: acknowledgement attempts

ASSUME MaxAttemptsAssumption == MaxAttempts \in Nat

VARIABLES
  fetched,       \* source items with a fetch in the calls journal
  barrier,       \* acknowledgement_barrier: none or the driver's last binding
  issued,        \* operation identities the driver has drawn
  acknowledged,  \* sources with the acknowledged flag
  seededAcks,    \* those seeded with the flag
  attempts,      \* acknowledgement_attempts, in sequence order
  ackCalls,      \* the ack rows of the calls journal, in sequence order
  ack            \* per acknowledgement process: its progress

transportVars ==
  <<fetched, barrier, issued, acknowledged, seededAcks, attempts, ackCalls, ack>>
vars == <<storeVars, transportVars>>

NoBarrier == {}

-----------------------------------------------------------------------------
(* The driver draws a new operation identity, reads the store's document and *)
(* binds the operation to the document and the transfer it expects of it;    *)
(* then it hands the operation to the adapter.                               *)
Configure(op, document, source) ==
  /\ op \notin issued
  /\ \A b \in barrier : b.op # op
  /\ barrier' = {[op |-> op, document |-> document, source |-> source]}
  /\ issued' = issued \cup {op}
  /\ UNCHANGED <<storeVars, fetched, acknowledged, seededAcks, attempts, ackCalls, ack>>

Fetch(source) ==
  /\ source \notin fetched
  /\ fetched' = fetched \cup {source}
  /\ UNCHANGED <<storeVars, barrier, issued, acknowledged, seededAcks, attempts,
                 ackCalls, ack>>

FirstStatus == "rejected"

(* The attempt is on record as rejected before anything is checked.          *)
Attempt(a, source, document) ==
  /\ ack[a].kind = "idle"
  /\ Len(attempts) < MaxAttempts
  /\ attempts' = Append(attempts, [source |-> source, status |-> FirstStatus])
  /\ ack' = [ack EXCEPT ![a] = [kind |-> "attempted", row |-> Len(attempts) + 1,
                                source |-> source, document |-> document]]
  /\ UNCHANGED <<storeVars, fetched, barrier, issued, acknowledged, seededAcks,
                 ackCalls>>

Bound(r) ==
  /\ r.source \in fetched
  /\ \E b \in barrier : b.document = r.document /\ b.source = r.source

Compare(a) ==
  /\ ack[a].kind = "attempted"
  /\ ack' = [ack EXCEPT ![a] =
       IF Bound(ack[a])
       THEN [kind |-> "bound", row |-> ack[a].row, source |-> ack[a].source,
             barrier |-> CHOOSE b \in barrier : TRUE]
       ELSE Idle]
  /\ UNCHANGED <<storeVars, fetched, barrier, issued, acknowledged, seededAcks,
                 attempts, ackCalls>>

(* The store answers with its document and, in a later statement, its        *)
(* journal.                                                                  *)
ReadDocument(a) ==
  /\ ack[a].kind = "bound"
  /\ ack' = [ack EXCEPT ![a] =
       [kind |-> "read", row |-> @.row, source |-> @.source, barrier |-> @.barrier,
        document |-> state]]
  /\ UNCHANGED <<storeVars, fetched, barrier, issued, acknowledged, seededAcks,
                 attempts, ackCalls>>

(* Slip: only the checkpoint in the answer is looked at.                     *)
CheckpointOnly(r) == Committed(r.barrier.op) /\ r.document = r.barrier.document

Transferred(r) ==
  /\ Committed(r.barrier.op)
  /\ r.document = r.barrier.document
  /\ r.source \in r.document.held

Judge(a) ==
  /\ ack[a].kind = "read"
  /\ ack' = [ack EXCEPT ![a] =
       IF Transferred(@)
       THEN [kind |-> "cleared", row |-> @.row, source |-> @.source, barrier |-> @.barrier]
       ELSE Idle]
  /\ UNCHANGED <<storeVars, fetched, barrier, issued, acknowledged, seededAcks,
                 attempts, ackCalls>>

(* Slip: the update does not ask that the flag was clear.                    *)
FlagIgnored(source) == TRUE

FlagClear(source) == source \notin acknowledged

(* The flag, the journal row and the attempt's status in one transaction.    *)
Acknowledge(a) ==
  /\ ack[a].kind = "cleared"
  /\ FlagClear(ack[a].source)
  /\ acknowledged' = acknowledged \cup {ack[a].source}
  /\ ackCalls' = Append(ackCalls, [source |-> ack[a].source, barrier |-> ack[a].barrier])
  /\ attempts' = [attempts EXCEPT ![ack[a].row].status = "accepted"]
  /\ ack' = [ack EXCEPT ![a] = Idle]
  /\ UNCHANGED <<storeVars, fetched, barrier, issued, seededAcks>>

RefuseSecond(a) ==
  /\ ack[a].kind = "cleared"
  /\ ~FlagClear(ack[a].source)
  /\ ack' = [ack EXCEPT ![a] = Idle]
  /\ UNCHANGED <<storeVars, fetched, barrier, issued, acknowledged, seededAcks,
                 attempts, ackCalls>>

-----------------------------------------------------------------------------
Init ==
  /\ StoreInit
  /\ fetched = {} /\ barrier = NoBarrier /\ issued = {}
  /\ seededAcks \in SUBSET seed.held
  /\ acknowledged = seededAcks
  /\ attempts = <<>> /\ ackCalls = <<>>
  /\ ack = [a \in AckProcess |-> Idle]

Next ==
  \/ StoreStep(issued) /\ UNCHANGED transportVars
  \/ \E op \in Op, s \in Source, d \in {state} \cup Successors(state) :
       Configure(op, d, s)
  \/ \E s \in Source : Fetch(s)
  \/ \E a \in AckProcess :
       \/ \E s \in Source, b \in barrier : Attempt(a, s, b.document)
       \/ Compare(a) \/ ReadDocument(a) \/ Judge(a)
       \/ Acknowledge(a) \/ RefuseSecond(a)

Spec == Init /\ [][Next]_vars

-----------------------------------------------------------------------------
(* A source item is acknowledged at most once: the flag is set exactly for   *)
(* the items seeded with it and the items in the journal, none is there      *)
(* twice, and the attempts on record as accepted are those that set it.      *)
AckedOnce ==
  /\ acknowledged = seededAcks \cup {ackCalls[i].source : i \in DOMAIN ackCalls}
  /\ \A i, j \in DOMAIN ackCalls : ackCalls[i].source = ackCalls[j].source => i = j
  /\ \A i \in DOMAIN ackCalls : ackCalls[i].source \notin seededAcks
  /\ \A s \in Source :
       Quantify(DOMAIN attempts,
                LAMBDA i : attempts[i].source = s /\ attempts[i].status = "accepted")
         = Quantify(DOMAIN ackCalls, LAMBDA i : ackCalls[i].source = s)

(* "At acknowledgement time the transport reads the controlled host store    *)
(* directly and refuses an early ack attempt unless the exact source binding *)
(* or dead letter is already committed": behind every acknowledgement is a   *)
(* fetch, a committed operation of the driver, and a document that holds the *)
(* item and was the store's.                                                 *)
AckedAfterTransfer ==
  \A i \in DOMAIN ackCalls :
    LET c == ackCalls[i] IN
      /\ c.source \in fetched
      /\ Committed(c.barrier.op)
      /\ c.barrier.document \in Known
      /\ c.source \in c.barrier.document.held

(* An acknowledged item stays in the store: the source may forget it.        *)
AckedStaysHeld ==
  \A i \in DOMAIN ackCalls : ackCalls[i].source \in state.held
=============================================================================
