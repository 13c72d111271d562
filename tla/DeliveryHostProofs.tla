------------------------- MODULE DeliveryHostProofs --------------------------
(***************************************************************************)
(* Theorems about DeliveryHost, for any workers, source items, contents and  *)
(* effects, and any number of commits and owners.                            *)
(***************************************************************************)
EXTENDS DeliveryHost, FiniteSetTheorems, TLAPS

-----------------------------------------------------------------------------
(* Types.                                                                    *)

Reading == (UNION {Content[s] : s \in Item}) \cup {NotCanonical}
Request == [source : Item, content : Reading, envelope : {"declared", "undeclared", "none"}]
Batch == {ms \in Seq(Request) : Len(ms) \in {1, 2}}

Live == {"idle", "receiving", "authorizing"}
AcceptanceReceipt == [kind : {"acceptance"}, source : Item]
TerminalReceipt ==
  [kind : {"event_terminal"}, source : Item, disposition : {"handled", "unhandled"}]
TransferRow ==
  [kind : {"binding", "dead_letter"}, source : Item, content : Reading,
   receipt : Nat, rev : Nat, epoch : Nat]
DestinationRow == [effect : Effect, outcome : {"confirmed", "dead_lettered"}, rev : Nat]
OutboxState == {"pending", "ambiguous", "confirmed", "dead_lettered"}

HostDocument ==
  [rev : Nat, machine : Live \cup {Removed}, ready : Seq(Item), deferred : Seq(Item),
   receipts : Seq(AcceptanceReceipt \cup TerminalReceipt),
   transfers : SUBSET TransferRow, destination : SUBSET DestinationRow,
   outbox : [{} -> OutboxState] \cup [Effect -> OutboxState]]

WorkerState ==
  {Idle} \cup [kind : {"fetched"}, members : Batch, epoch : Nat]
         \cup [kind : {"transferred"}, owed : SUBSET Request]
         \cup [kind : {"delivered"}, effect : Effect, outcome : Outcomes]

OwnershipTypeOK ==
  /\ host \in HostDocument
  /\ epoch \in Nat /\ ordered \in BOOLEAN
  /\ acknowledged \subseteq [source : Item, content : Reading]
  /\ worker \in [Worker -> WorkerState]

-----------------------------------------------------------------------------
(* The inductive invariants.                                                 *)

Distinct(q) == \A i, j \in DOMAIN q : q[i] = q[j] => i = j
Among(s, q) == \E i \in DOMAIN q : q[i] = s
Ended(s, h) ==
  \E i \in DOMAIN h.receipts :
    h.receipts[i].kind = "event_terminal" /\ h.receipts[i].source = s

(* The transfer that holds a request's content. *)
Held(m, h) == \E t \in h.transfers : t.source = m.source /\ t.content = m.content

(* A batch names its items once, in source order; dead letters go one by one. *)
WellFormed(ms) ==
  /\ \A i, j \in DOMAIN ms : ms[i].source = ms[j].source => i = j
  /\ Len(ms) = 1 \/ Ingest(ms)

(* The transfers: one for a source item, made in the order of the owners, and *)
(* a binding for each acceptance receipt.                                    *)
TransferBooks(h) ==
  /\ \A t, u \in h.transfers : t.source = u.source => t = u
  /\ \A t \in h.transfers : t.rev <= h.rev /\ t.epoch <= epoch
  /\ \A t, u \in h.transfers : t.rev < u.rev => t.epoch <= u.epoch
  /\ \A t \in h.transfers : t.kind = "binding" =>
       /\ t.receipt \in DOMAIN h.receipts
       /\ h.receipts[t.receipt].kind = "acceptance"
       /\ h.receipts[t.receipt].source = t.source
  /\ \A i \in DOMAIN h.receipts : h.receipts[i].kind = "acceptance" =>
       \E t \in h.transfers :
         t.kind = "binding" /\ t.receipt = i /\ t.source = h.receipts[i].source

(* The mailbox: an accepted item is ready, deferred or terminal, once.       *)
MailboxBooks(h) ==
  /\ Distinct(h.ready) /\ Distinct(h.deferred)
  /\ \A i, j \in DOMAIN h.receipts :
       /\ h.receipts[i].kind = "event_terminal" /\ h.receipts[j].kind = "event_terminal"
       /\ h.receipts[i].source = h.receipts[j].source
       => i = j
  /\ \A s \in Item :
       /\ ~(Among(s, h.ready) /\ Among(s, h.deferred))
       /\ ~(Among(s, h.ready) /\ Ended(s, h))
       /\ ~(Among(s, h.deferred) /\ Ended(s, h))
       /\ Among(s, h.ready) \/ Among(s, h.deferred) \/ Ended(s, h) =>
            \E t \in h.transfers : t.source = s
  /\ \A i \in DOMAIN h.receipts : h.receipts[i].kind = "acceptance" =>
       \/ Among(h.receipts[i].source, h.ready)
       \/ Among(h.receipts[i].source, h.deferred)
       \/ Ended(h.receipts[i].source, h)

OrderBooks ==
  ordered => \A i, j \in DOMAIN Items :
    i < j /\ Items[j] \in Transferred => Items[i] \in Transferred

(* What a worker still has to do agrees with the document, as no commit of    *)
(* another worker came between.                                              *)
Agrees(d) ==
  /\ d.kind = "fetched" =>
       WellFormed(d.members) /\ Fresh(d.members) /\ d.epoch <= epoch
  /\ d.kind = "delivered" => d.effect \in DOMAIN host.outbox /\ Pending(d.effect)
  /\ d.kind = "transferred" => \A m \in d.owed : Held(m, host)

WorkerBooks == \A w \in Worker : Agrees(worker[w])

AcknowledgedBooks == \A a \in acknowledged : Held(a, host)

OwnershipBooks ==
  /\ OwnershipTypeOK
  /\ TransferBooks(host)
  /\ MailboxBooks(host)
  /\ OrderBooks
  /\ WorkerBooks
  /\ AcknowledgedBooks
  /\ DecidedOnce

-----------------------------------------------------------------------------
(* Sequences whose members are distinct.                                     *)

(* Without its head, such a sequence has the other members.                  *)
LEMMA TailMembers ==
  ASSUME NEW S, NEW q \in Seq(S), q # <<>>, Distinct(q)
  PROVE  /\ Head(q) \in S /\ Tail(q) \in Seq(S) /\ Distinct(Tail(q))
         /\ Among(Head(q), q)
         /\ \A x : Among(x, Tail(q)) <=> Among(x, q) /\ x # Head(q)
<1>1. /\ Head(q) \in S /\ Tail(q) \in Seq(S) /\ Head(q) = q[1]
      /\ Len(q) \in Nat /\ Len(q) # 0 /\ Len(Tail(q)) = Len(q) - 1
      /\ DOMAIN q = 1..Len(q) /\ DOMAIN Tail(q) = 1..Len(Tail(q))
      /\ \A i \in 1..Len(Tail(q)) : Tail(q)[i] = q[i + 1]
  OBVIOUS
<1>2. Distinct(Tail(q))
  BY <1>1 DEF Distinct
<1>3. 1 \in DOMAIN q
  BY <1>1
<1>4. ASSUME NEW x, Among(x, Tail(q))
      PROVE  Among(x, q) /\ x # Head(q)
  <2>1. PICK i \in 1..Len(Tail(q)) : Tail(q)[i] = x
    BY <1>1, <1>4 DEF Among
  <2>2. i + 1 \in DOMAIN q /\ i + 1 # 1 /\ q[i + 1] = x
    BY <1>1, <2>1
  <2> QED
    BY <1>1, <1>3, <2>2 DEF Among, Distinct
<1>5. ASSUME NEW x, Among(x, q), x # Head(q)
      PROVE  Among(x, Tail(q))
  <2>1. PICK i \in DOMAIN q : q[i] = x
    BY <1>5 DEF Among
  <2>2. i \in 1..Len(q) /\ i # 1
    BY <1>1, <1>5, <2>1
  <2>3. i - 1 \in 1..Len(Tail(q)) /\ Tail(q)[i - 1] = q[(i - 1) + 1] /\ (i - 1) + 1 = i
    BY <1>1, <2>2
  <2>4. i - 1 \in DOMAIN Tail(q) /\ Tail(q)[i - 1] = x
    BY <1>1, <2>1, <2>3
  <2> QED
    BY <2>4 DEF Among
<1> QED
  BY <1>1, <1>2, <1>3, <1>4, <1>5 DEF Among

(* Two such sequences that share no member, one after the other.             *)
LEMMA JoinedMembers ==
  ASSUME NEW S, NEW p \in Seq(S), NEW q \in Seq(S), Distinct(p), Distinct(q),
         \A x \in S : ~(Among(x, p) /\ Among(x, q))
  PROVE  /\ p \o q \in Seq(S) /\ Distinct(p \o q)
         /\ \A x : Among(x, p \o q) <=> Among(x, p) \/ Among(x, q)
<1> DEFINE r == p \o q
<1>1. /\ r \in Seq(S) /\ Len(p) \in Nat /\ Len(q) \in Nat /\ Len(r) = Len(p) + Len(q)
      /\ DOMAIN p = 1..Len(p) /\ DOMAIN q = 1..Len(q) /\ DOMAIN r = 1..Len(r)
      /\ \A i \in 1..Len(p) : p[i] \in S
  OBVIOUS
<1>2. \A i \in 1..Len(r) : r[i] = IF i <= Len(p) THEN p[i] ELSE q[i - Len(p)]
  OBVIOUS
<1> HIDE DEF r
<1>3. ASSUME NEW i \in 1..Len(r)
      PROVE  \/ i \in DOMAIN p /\ r[i] = p[i] /\ i <= Len(p)
             \/ i - Len(p) \in DOMAIN q /\ r[i] = q[i - Len(p)] /\ ~(i <= Len(p))
  BY <1>1, <1>2
<1>4. ASSUME NEW i \in DOMAIN p, NEW j \in DOMAIN q
      PROVE  p[i] # q[j]
  BY <1>1 DEF Among
<1>5. ASSUME NEW i \in DOMAIN r, NEW j \in DOMAIN r, r[i] = r[j]
      PROVE  i = j
  <2>1. i \in 1..Len(r) /\ j \in 1..Len(r)
    BY <1>1
  <2>2. CASE i <= Len(p) /\ j <= Len(p)
    BY <1>3, <1>5, <2>1, <2>2 DEF Distinct
  <2>3. CASE ~(i <= Len(p)) /\ ~(j <= Len(p))
    <3>1. i - Len(p) = j - Len(p)
      BY <1>3, <1>5, <2>1, <2>3 DEF Distinct
    <3> QED
      BY <1>1, <2>1, <3>1
  <2>4. CASE ~(i <= Len(p)) /\ j <= Len(p)
    BY <1>3, <1>4, <1>5, <2>1, <2>4
  <2>5. CASE i <= Len(p) /\ ~(j <= Len(p))
    BY <1>3, <1>4, <1>5, <2>1, <2>5
  <2> QED
    BY <2>2, <2>3, <2>4, <2>5
<1>6. ASSUME NEW x, Among(x, r)
      PROVE  Among(x, p) \/ Among(x, q)
  BY <1>1, <1>3, <1>6 DEF Among
<1>7. ASSUME NEW x, Among(x, p)
      PROVE  Among(x, r)
  <2>1. PICK i \in DOMAIN p : p[i] = x
    BY <1>7 DEF Among
  <2>2. i \in 1..Len(r) /\ i <= Len(p)
    BY <1>1
  <2>3. i \in DOMAIN r /\ r[i] = x
    BY <1>1, <1>2, <2>1, <2>2
  <2> QED
    BY <2>3 DEF Among
<1>8. ASSUME NEW x, Among(x, q)
      PROVE  Among(x, r)
  <2>1. PICK i \in DOMAIN q : q[i] = x
    BY <1>8 DEF Among
  <2>2. i + Len(p) \in 1..Len(r) /\ ~(i + Len(p) <= Len(p)) /\ (i + Len(p)) - Len(p) = i
    BY <1>1
  <2>3. i + Len(p) \in DOMAIN r /\ r[i + Len(p)] = x
    BY <1>1, <1>2, <2>1, <2>2
  <2> QED
    BY <2>3 DEF Among
<1>9. Distinct(r) /\ \A x : Among(x, r) <=> Among(x, p) \/ Among(x, q)
  BY <1>5, <1>6, <1>7, <1>8 DEF Distinct
<1> QED
  BY <1>1, <1>9 DEF r

(* Another member at the end of such a sequence.                             *)
LEMMA AppendedMembers ==
  ASSUME NEW S, NEW q \in Seq(S), NEW s \in S, Distinct(q), ~Among(s, q)
  PROVE  /\ Append(q, s) \in Seq(S) /\ Distinct(Append(q, s))
         /\ \A x : Among(x, Append(q, s)) <=> Among(x, q) \/ x = s
<1>1. <<s>> \in Seq(S) /\ DOMAIN <<s>> = {1} /\ <<s>>[1] = s
  OBVIOUS
<1>2. Distinct(<<s>>) /\ \A x : Among(x, <<s>>) <=> x = s
  BY <1>1 DEF Distinct, Among
<1>3. Append(q, s) = q \o <<s>>
  OBVIOUS
<1> QED
  BY <1>1, <1>2, <1>3, JoinedMembers

-----------------------------------------------------------------------------
(* The documents and the batches.                                            *)

LEMMA HostFields ==
  ASSUME NEW h \in HostDocument
  PROVE  /\ h.rev \in Nat /\ h.machine \in Live \cup {Removed}
         /\ h.ready \in Seq(Item) /\ h.deferred \in Seq(Item)
         /\ h.receipts \in Seq(AcceptanceReceipt \cup TerminalReceipt)
         /\ h.transfers \subseteq TransferRow /\ h.destination \subseteq DestinationRow
         /\ h.outbox \in [{} -> OutboxState] \cup [Effect -> OutboxState]
BY DEF HostDocument

(* A document has these parts; what a commit replaces leaves it one, if each  *)
(* part is of its kind.                                                      *)
Whole(h) ==
  h = [rev |-> h.rev, machine |-> h.machine, ready |-> h.ready, deferred |-> h.deferred,
       receipts |-> h.receipts, transfers |-> h.transfers,
       destination |-> h.destination, outbox |-> h.outbox]

LEMMA DocumentMade ==
  ASSUME NEW h
  PROVE  h \in HostDocument <=>
           /\ Whole(h)
           /\ h.rev \in Nat /\ h.machine \in Live \cup {Removed}
           /\ h.ready \in Seq(Item) /\ h.deferred \in Seq(Item)
           /\ h.receipts \in Seq(AcceptanceReceipt \cup TerminalReceipt)
           /\ h.transfers \subseteq TransferRow /\ h.destination \subseteq DestinationRow
           /\ h.outbox \in [{} -> OutboxState] \cup [Effect -> OutboxState]
<1>1. ASSUME h \in HostDocument
      PROVE  Whole(h)
  BY <1>1 DEF HostDocument, Whole
<1>2. ASSUME Whole(h), h.rev \in Nat, h.machine \in Live \cup {Removed},
             h.ready \in Seq(Item), h.deferred \in Seq(Item),
             h.receipts \in Seq(AcceptanceReceipt \cup TerminalReceipt),
             h.transfers \subseteq TransferRow, h.destination \subseteq DestinationRow,
             h.outbox \in [{} -> OutboxState] \cup [Effect -> OutboxState]
      PROVE  h \in HostDocument
  <2> DEFINE g == [rev |-> h.rev, machine |-> h.machine, ready |-> h.ready,
                   deferred |-> h.deferred, receipts |-> h.receipts,
                   transfers |-> h.transfers, destination |-> h.destination,
                   outbox |-> h.outbox]
  <2>1. g \in HostDocument
    BY <1>2 DEF HostDocument
  <2> QED
    BY <1>2, <2>1 DEF Whole
<1> QED
  BY <1>1, <1>2, HostFields

(* An item has one place in the source's order.                              *)
LEMMA PlaceOf ==
  ASSUME NEW s \in Item
  PROVE  Place(s) \in DOMAIN Items /\ Items[Place(s)] = s
<1>1. \E i \in DOMAIN Items : Items[i] = s
  BY DEF Item, Range
<1> QED
  BY <1>1 DEF Place

LEMMA PlaceUnique ==
  ASSUME NEW i \in DOMAIN Items
  PROVE  Items[i] \in Item /\ Place(Items[i]) = i
<1>1. Items[i] \in Item
  BY DEF Item, Range
<1> QED
  BY <1>1, PlaceOf, ItemAssumption DEF IsInjective

(* Every operation is a batch of well-formed requests.                       *)
LEMMA BatchForm ==
  ASSUME NEW ms \in Operations
  PROVE  ms \in Batch /\ WellFormed(ms)
<1>1. ASSUME NEW m \in Requests
      PROVE  m \in Request
  <2>1. PICK s \in Item : m \in [source : {s}, content : Content[s] \cup {NotCanonical},
                                 envelope : {"declared", "undeclared", "none"}]
    BY DEF Requests
  <2>2. Content[s] \cup {NotCanonical} \subseteq Reading
    BY DEF Reading
  <2> QED
    BY <2>1, <2>2 DEF Request
<1>2. CASE ms \in {<<m>> : m \in Requests}
  <2>1. PICK m \in Requests : ms = <<m>>
    BY <1>2
  <2>2. m \in Request
    BY <1>1
  <2>3. ms \in Seq(Request) /\ Len(ms) = 1 /\ DOMAIN ms = {1}
    BY <2>1, <2>2
  <2> QED
    BY <2>3 DEF Batch, WellFormed
<1>3. CASE ms \in Requests \X Requests /\ Place(ms[1].source) < Place(ms[2].source) /\ Ingest(ms)
  <2>1. PICK m \in Requests, n \in Requests : ms = <<m, n>>
    BY <1>3
  <2>2. m \in Request /\ n \in Request
    BY <1>1
  <2>3. ms \in Seq(Request) /\ Len(ms) = 2 /\ DOMAIN ms = {1, 2} /\ ms[1] = m /\ ms[2] = n
    BY <2>1, <2>2
  <2>4. m.source \in Item /\ n.source \in Item
    BY <2>2 DEF Request
  <2>5. Place(m.source) \in Nat /\ Place(n.source) \in Nat /\ Place(m.source) < Place(n.source)
    BY <1>3, <2>3, <2>4, PlaceOf, ItemAssumption
  <2>6. m.source # n.source
    BY <2>5
  <2> QED
    BY <1>3, <2>3, <2>6 DEF Batch, WellFormed
<1> QED
  BY <1>2, <1>3 DEF Operations

LEMMA BatchMembers ==
  ASSUME NEW ms \in Batch
  PROVE  /\ DOMAIN ms = 1..Len(ms) /\ Len(ms) \in {1, 2} /\ 1 \in DOMAIN ms
         /\ \A i \in DOMAIN ms :
              /\ i \in Nat \ {0} /\ ms[i] \in Request /\ ms[i].source \in Item
              /\ ms[i].content \in Reading /\ ms[i].envelope \in {"declared", "undeclared", "none"}
<1>1. ms \in Seq(Request) /\ DOMAIN ms = 1..Len(ms) /\ Len(ms) \in {1, 2}
  BY DEF Batch
<1>2. ASSUME NEW i \in DOMAIN ms
      PROVE  i \in Nat \ {0} /\ ms[i] \in Request
  BY <1>1
<1>3. 1 \in DOMAIN ms
  BY <1>1
<1> QED
  BY <1>1, <1>2, <1>3 DEF Request

-----------------------------------------------------------------------------
(* Steps that leave the host document alone.                                 *)

(* A step of the workers alone, or a successor of the owner.                 *)
LEMMA DocumentKept ==
  ASSUME OwnershipBooks, UNCHANGED <<host, ordered>>, epoch' \in Nat, epoch <= epoch',
         acknowledged' \subseteq [source : Item, content : Reading],
         \A a \in acknowledged' : Held(a, host),
         worker' = [w \in Worker |-> worker'[w]],
         \A w \in Worker : worker'[w] \in WorkerState /\ Agrees(worker'[w])
  PROVE  OwnershipBooks'
<1> USE DEF OwnershipBooks
<1>1. OwnershipTypeOK'
  <2>1. host' \in HostDocument /\ ordered' \in BOOLEAN
    BY DEF OwnershipTypeOK
  <2>2. worker' \in [Worker -> WorkerState]
    OBVIOUS
  <2> QED
    BY <2>1, <2>2 DEF OwnershipTypeOK
<1>2. TransferBooks(host)'
  <2>1. \A t \in host.transfers : t.epoch \in Nat /\ t.epoch <= epoch
    BY HostFields DEF OwnershipTypeOK, TransferRow, TransferBooks
  <2>2. \A t \in host.transfers : t.epoch <= epoch'
    BY <2>1 DEF OwnershipTypeOK
  <2> QED
    BY <2>2 DEF TransferBooks
<1>3. MailboxBooks(host)' /\ OrderBooks' /\ DecidedOnce'
  BY DEF MailboxBooks, OrderBooks, Transferred, DecidedOnce, Pending, Ended, Among, Distinct
<1>4. ASSUME NEW w \in Worker
      PROVE  Agrees(worker[w])'
  <2> DEFINE d == worker'[w]
  <2>1. d \in WorkerState /\ Agrees(d)
    OBVIOUS
  <2>2. d.kind = "fetched" => d.epoch \in Nat
    BY <2>1 DEF WorkerState, Idle
  <2>3. d.kind = "fetched" => d.epoch <= epoch'
    BY <2>1, <2>2 DEF Agrees, OwnershipTypeOK
  <2>4. d.kind = "fetched" => WellFormed(d.members) /\ Fresh(worker[w].members)'
    BY <2>1 DEF Agrees, Fresh, Transferred, Waits
  <2>5. d.kind = "delivered" => d.effect \in DOMAIN host'.outbox /\ Pending(worker[w].effect)'
    BY <2>1 DEF Agrees, Pending
  <2>6. d.kind = "transferred" => \A m \in d.owed : Held(m, host')
    BY <2>1 DEF Agrees
  <2> QED
    BY <2>3, <2>4, <2>5, <2>6 DEF Agrees
<1>5. WorkerBooks' /\ AcknowledgedBooks'
  BY <1>4 DEF WorkerBooks, AcknowledgedBooks
<1> QED
  BY <1>1, <1>2, <1>3, <1>5

(* A worker's own step.                                                      *)
LEMMA WorkerStep ==
  ASSUME OwnershipBooks, UNCHANGED <<host, epoch, ordered>>,
         acknowledged' \subseteq [source : Item, content : Reading],
         \A a \in acknowledged' : Held(a, host),
         NEW w \in Worker, NEW d \in WorkerState, Agrees(d),
         worker' = [worker EXCEPT ![w] = d]
  PROVE  OwnershipBooks'
<1>1. worker \in [Worker -> WorkerState] /\ epoch \in Nat
  BY DEF OwnershipBooks, OwnershipTypeOK
<1>2. \A v \in Worker : worker'[v] = IF v = w THEN d ELSE worker[v]
  BY <1>1
<1>3. \A v \in Worker : worker'[v] \in WorkerState /\ Agrees(worker'[v])
  BY <1>1, <1>2 DEF OwnershipBooks, WorkerBooks
<1>4. worker' = [v \in Worker |-> worker'[v]]
  BY <1>1
<1>5. epoch' \in Nat /\ epoch <= epoch'
  BY <1>1
<1> QED
  BY <1>3, <1>4, <1>5, DocumentKept

LEMMA FetchKept ==
  ASSUME OwnershipBooks, NEW w \in Worker, NEW ms \in Operations, NEW claimed \in 1..epoch,
         Fetch(w, ms, claimed)
  PROVE  OwnershipBooks'
<1>1. ms \in Batch /\ WellFormed(ms)
  BY BatchForm
<1>2. acknowledged \subseteq [source : Item, content : Reading] /\ \A a \in acknowledged : Held(a, host)
  BY DEF OwnershipBooks, OwnershipTypeOK, AcknowledgedBooks
<1>3. UNCHANGED <<host, epoch, ordered>> /\ acknowledged' = acknowledged
  BY DEF Fetch
<1>4. CASE Redelivered(ms) /\ worker' = [worker EXCEPT ![w] =
             [kind |-> "transferred", owed |-> Owed(ms)]]
  <2> DEFINE d == [kind |-> "transferred", owed |-> Owed(ms)]
  <2>1. \A m \in Owed(ms) : m \in Request /\ Held(m, host)
    BY <1>1, <1>4, BatchMembers DEF Owed, Range, Redelivered, Matches, Held
  <2>2. d \in WorkerState
    BY <2>1 DEF WorkerState
  <2>3. Agrees(d)
    BY <2>1 DEF Agrees
  <2> QED
    BY <1>2, <1>3, <1>4, <2>2, <2>3, WorkerStep
<1>5. CASE Fresh(ms) /\ worker' = [worker EXCEPT ![w] =
             [kind |-> "fetched", members |-> ms, epoch |-> claimed]]
  <2> DEFINE d == [kind |-> "fetched", members |-> ms, epoch |-> claimed]
  <2>1. claimed \in Nat /\ claimed <= epoch
    BY DEF OwnershipBooks, OwnershipTypeOK
  <2>2. d \in WorkerState
    BY <1>1, <2>1 DEF WorkerState
  <2>3. Agrees(d)
    BY <1>1, <1>5, <2>1 DEF Agrees
  <2> QED
    BY <1>2, <1>3, <1>5, <2>2, <2>3, WorkerStep
<1> QED
  BY <1>4, <1>5 DEF Fetch

LEMMA AcknowledgeKept ==
  ASSUME OwnershipBooks, NEW w \in Worker, Acknowledge(w)
  PROVE  OwnershipBooks'
<1>1. PICK m \in worker[w].owed :
        /\ acknowledged' = IF m \in Owed(<<m>>)
                           THEN acknowledged \cup {[source |-> m.source, content |-> m.content]}
                           ELSE acknowledged
        /\ worker' = [worker EXCEPT ![w] =
             IF @.owed = {m} THEN Idle ELSE [kind |-> "transferred", owed |-> @.owed \ {m}]]
  BY DEF Acknowledge
<1>2. worker[w] \in WorkerState /\ worker[w].kind = "transferred"
      /\ worker \in [Worker -> WorkerState]
  BY DEF Acknowledge, OwnershipBooks, OwnershipTypeOK
<1>3. worker[w] \in [kind : {"transferred"}, owed : SUBSET Request]
  BY <1>2 DEF WorkerState, Idle
<1>4. \A n \in worker[w].owed : n \in Request /\ Held(n, host)
  BY <1>2, <1>3 DEF OwnershipBooks, WorkerBooks, Agrees
<1>5. acknowledged' \subseteq [source : Item, content : Reading]
  BY <1>1, <1>4 DEF OwnershipBooks, OwnershipTypeOK, Request
<1>6. \A a \in acknowledged' : Held(a, host)
  BY <1>1, <1>4 DEF OwnershipBooks, AcknowledgedBooks, Held
<1> DEFINE d == IF worker[w].owed = {m} THEN Idle
                ELSE [kind |-> "transferred", owed |-> worker[w].owed \ {m}]
<1>7. worker' = [worker EXCEPT ![w] = d]
  BY <1>1, <1>2
<1>8. d = Idle \/ d = [kind |-> "transferred", owed |-> worker[w].owed \ {m}]
  BY <1>3
<1>9. d \in WorkerState /\ Agrees(d)
  BY <1>3, <1>4, <1>8 DEF WorkerState, Agrees, Idle
<1>10. UNCHANGED <<host, epoch, ordered>>
  BY DEF Acknowledge
<1> HIDE DEF d
<1> QED
  BY <1>5, <1>6, <1>7, <1>9, <1>10, WorkerStep

LEMMA DeliverKept ==
  ASSUME OwnershipBooks, NEW w \in Worker, NEW e \in DOMAIN host.outbox, NEW o \in Outcomes,
         Deliver(w, e, o)
  PROVE  OwnershipBooks'
<1> DEFINE d == [kind |-> "delivered", effect |-> e, outcome |-> o]
<1>1. e \in Effect
  BY HostFields DEF OwnershipBooks, OwnershipTypeOK
<1>2. d \in WorkerState
  BY <1>1 DEF WorkerState
<1>3. Agrees(d)
  BY DEF Agrees, Deliver
<1>4. /\ acknowledged' \subseteq [source : Item, content : Reading]
      /\ \A a \in acknowledged' : Held(a, host)
  BY DEF Deliver, OwnershipBooks, OwnershipTypeOK, AcknowledgedBooks
<1>5. UNCHANGED <<host, epoch, ordered>> /\ worker' = [worker EXCEPT ![w] = d]
  BY DEF Deliver
<1> HIDE DEF d
<1> QED
  BY <1>2, <1>3, <1>4, <1>5, WorkerStep

LEMMA AbandonKept ==
  ASSUME OwnershipBooks, NEW w \in Worker, Abandon(w)
  PROVE  OwnershipBooks'
<1>1. Idle \in WorkerState /\ Agrees(Idle)
  BY DEF WorkerState, Idle, Agrees
<1>2. /\ acknowledged' \subseteq [source : Item, content : Reading]
      /\ \A a \in acknowledged' : Held(a, host)
  BY DEF Abandon, OwnershipBooks, OwnershipTypeOK, AcknowledgedBooks
<1>3. UNCHANGED <<host, epoch, ordered>> /\ worker' = [worker EXCEPT ![w] = Idle]
  BY DEF Abandon
<1> QED
  BY <1>1, <1>2, <1>3, WorkerStep

LEMMA TakeOverKept ==
  ASSUME OwnershipBooks, TakeOver \/ UNCHANGED vars
  PROVE  OwnershipBooks'
<1>1. epoch \in Nat /\ worker \in [Worker -> WorkerState]
  BY DEF OwnershipBooks, OwnershipTypeOK
<1>2. epoch' \in Nat /\ epoch <= epoch' /\ UNCHANGED <<host, acknowledged, ordered, worker>>
  BY <1>1 DEF TakeOver, vars
<1>3. /\ acknowledged' \subseteq [source : Item, content : Reading]
      /\ \A a \in acknowledged' : Held(a, host)
  BY <1>2 DEF OwnershipBooks, OwnershipTypeOK, AcknowledgedBooks
<1>4. \A w \in Worker : worker'[w] \in WorkerState /\ Agrees(worker'[w])
  BY <1>1, <1>2 DEF OwnershipBooks, WorkerBooks
<1>5. worker' = [w \in Worker |-> worker'[w]]
  BY <1>1, <1>2
<1> QED
  BY <1>2, <1>3, <1>4, <1>5, DocumentKept

-----------------------------------------------------------------------------
(* Native transactions.  One that a worker commits overtakes all the others,  *)
(* and what was transferred before it stays.                                 *)

LEMMA DocumentReplaced ==
  ASSUME OwnershipBooks, UNCHANGED <<acknowledged, epoch, ordered>>,
         host' \in HostDocument, host.transfers \subseteq host'.transfers,
         TransferBooks(host)', MailboxBooks(host)', OrderBooks', DecidedOnce',
         NEW d \in WorkerState, d.kind \in {"idle", "transferred"},
         d.kind = "transferred" => \A m \in d.owed : Held(m, host'),
         worker' = [v \in Worker |-> worker'[v]],
         \A v \in Worker : worker'[v] = d \/ worker'[v] = Overtaken(v)
  PROVE  OwnershipBooks'
<1>1. \A m : Held(m, host) => Held(m, host')
  BY DEF Held
<1>2. ASSUME NEW v \in Worker
      PROVE  /\ worker'[v] \in WorkerState /\ worker'[v].kind \in {"idle", "transferred"}
             /\ worker'[v].kind = "transferred" => \A m \in worker'[v].owed : Held(m, host')
  <2>1. worker[v] \in WorkerState /\ Agrees(worker[v])
    BY DEF OwnershipBooks, OwnershipTypeOK, WorkerBooks
  <2>2. worker[v].kind \in {"idle", "fetched", "transferred", "delivered"} /\ Idle.kind = "idle"
    BY <2>1 DEF WorkerState, Idle
  <2>3. Overtaken(v) \in WorkerState /\ Overtaken(v).kind \in {"idle", "transferred"}
    BY <2>1, <2>2 DEF Overtaken, WorkerState
  <2>4. Overtaken(v).kind = "transferred" => Overtaken(v) = worker[v]
    BY <2>2 DEF Overtaken
  <2>5. Overtaken(v).kind = "transferred" => \A m \in Overtaken(v).owed : Held(m, host')
    BY <1>1, <2>1, <2>4 DEF Agrees
  <2>6. CASE worker'[v] = d
    BY <2>6
  <2>7. CASE worker'[v] = Overtaken(v)
    BY <2>3, <2>5, <2>7
  <2> QED
    BY <2>6, <2>7
<1>3. OwnershipTypeOK'
  BY <1>2 DEF OwnershipBooks, OwnershipTypeOK
<1>4. WorkerBooks'
  BY <1>2 DEF WorkerBooks, Agrees
<1>5. AcknowledgedBooks'
  BY <1>1 DEF OwnershipBooks, AcknowledgedBooks
<1> QED
  BY <1>3, <1>4, <1>5 DEF OwnershipBooks

(* The parts of the invariant that a commit without a transfer leaves alone.  *)
LEMMA TransfersKept ==
  ASSUME OwnershipBooks, UNCHANGED <<epoch, ordered>>, host' \in HostDocument,
         host'.transfers = host.transfers, host'.rev = host.rev + 1
  PROVE  /\ OrderBooks'
         /\ \A t, u \in host'.transfers : t.source = u.source => t = u
         /\ \A t \in host'.transfers : t.rev <= host'.rev /\ t.epoch <= epoch'
         /\ \A t, u \in host'.transfers : t.rev < u.rev => t.epoch <= u.epoch
<1>1. OrderBooks'
  BY DEF OwnershipBooks, OrderBooks, Transferred
<1>2. host.rev \in Nat /\ \A t \in host.transfers : t.rev \in Nat
  BY HostFields DEF OwnershipBooks, OwnershipTypeOK, TransferRow
<1>3. \A t \in host.transfers : t.rev <= host.rev /\ t.epoch <= epoch
  BY DEF OwnershipBooks, TransferBooks
<1>4. \A t \in host'.transfers : t.rev <= host'.rev /\ t.epoch <= epoch'
  BY <1>2, <1>3
<1> QED
  BY <1>1, <1>4 DEF OwnershipBooks, TransferBooks

(* Receipts are kept: the same acceptances, and maybe one more terminal.     *)
LEMMA ReceiptsKept ==
  ASSUME NEW h \in HostDocument, NEW g \in HostDocument, NEW s \in Item,
         NEW d \in {"handled", "unhandled"},
         g.receipts = Append(h.receipts, Terminal(s, d))
  PROVE  /\ \A i \in DOMAIN h.receipts : i \in DOMAIN g.receipts /\ g.receipts[i] = h.receipts[i]
         /\ \A i \in DOMAIN g.receipts : g.receipts[i].kind = "acceptance" =>
              i \in DOMAIN h.receipts /\ g.receipts[i] = h.receipts[i]
         /\ \A i \in DOMAIN g.receipts :
              \/ i \in DOMAIN h.receipts /\ g.receipts[i] = h.receipts[i]
              \/ /\ i = Len(h.receipts) + 1
                 /\ g.receipts[i].kind = "event_terminal" /\ g.receipts[i].source = s
         /\ \A x : Ended(x, g) <=> Ended(x, h) \/ x = s
<1> DEFINE n == Len(h.receipts)
           new == Terminal(s, d)
<1>1. new.kind = "event_terminal" /\ new.source = s
  BY DEF Terminal
<1>2. h.receipts \in Seq(AcceptanceReceipt \cup TerminalReceipt)
  BY HostFields
<1>3. new \in AcceptanceReceipt \cup TerminalReceipt
  BY DEF Terminal, TerminalReceipt
<1> HIDE DEF new
<1>4. g.receipts = Append(h.receipts, new)
  BY DEF new
<1>5. /\ n \in Nat /\ DOMAIN h.receipts = 1..n /\ DOMAIN g.receipts = 1..(n + 1)
      /\ \A i \in 1..n : g.receipts[i] = h.receipts[i]
      /\ g.receipts[n + 1] = new
  BY <1>2, <1>3, <1>4
<1>6. \A i \in DOMAIN g.receipts : i \in DOMAIN h.receipts \/ i = n + 1
  BY <1>5
<1>7. n + 1 \in DOMAIN g.receipts
  BY <1>5
<1>8. \A x : Ended(x, g) <=> Ended(x, h) \/ x = s
  BY <1>1, <1>5, <1>6, <1>7 DEF Ended
<1> QED
  BY <1>1, <1>5, <1>6, <1>8

(* The oldest ready item became terminal, and what is deferred is deferred    *)
(* or ready again.                                                           *)
LEMMA MailboxEnded ==
  ASSUME NEW h \in HostDocument, NEW g \in HostDocument, MailboxBooks(h),
         NEW s \in Item, Among(s, h.ready), NEW d \in {"handled", "unhandled"},
         g.receipts = Append(h.receipts, Terminal(s, d)), g.transfers = h.transfers,
         Distinct(g.ready), Distinct(g.deferred),
         \A x \in Item : ~(Among(x, g.ready) /\ Among(x, g.deferred)),
         \A x \in Item : (Among(x, g.ready) \/ Among(x, g.deferred)) <=>
           ((Among(x, h.ready) \/ Among(x, h.deferred)) /\ x # s)
  PROVE  MailboxBooks(g)
<1>1. ~Ended(s, h)
  BY DEF MailboxBooks
<1>2. \A i, j \in DOMAIN g.receipts :
       g.receipts[i].kind = "event_terminal" /\ g.receipts[j].kind = "event_terminal"
         /\ g.receipts[i].source = g.receipts[j].source => i = j
  <2> SUFFICES ASSUME NEW i \in DOMAIN g.receipts, NEW j \in DOMAIN g.receipts,
                      g.receipts[i].kind = "event_terminal",
                      g.receipts[j].kind = "event_terminal",
                      g.receipts[i].source = g.receipts[j].source
               PROVE  i = j
    OBVIOUS
  <2>1. \A k \in DOMAIN g.receipts : g.receipts[k].kind = "event_terminal" =>
          \/ k \in DOMAIN h.receipts /\ g.receipts[k] = h.receipts[k] /\ g.receipts[k].source # s
          \/ k = Len(h.receipts) + 1 /\ g.receipts[k].source = s
    BY <1>1, ReceiptsKept DEF Ended
  <2>2. CASE g.receipts[i].source = s
    BY <2>1, <2>2
  <2>3. CASE g.receipts[i].source # s
    BY <2>1, <2>3 DEF MailboxBooks
  <2> QED
    BY <2>2, <2>3
<1>3. \A x : Ended(x, g) <=> Ended(x, h) \/ x = s
  BY ReceiptsKept
<1>4. ASSUME NEW x \in Item
      PROVE  /\ ~(Among(x, g.ready) /\ Ended(x, g))
             /\ ~(Among(x, g.deferred) /\ Ended(x, g))
             /\ Among(x, g.ready) \/ Among(x, g.deferred) \/ Ended(x, g) =>
                  \E t \in g.transfers : t.source = x
  BY <1>3 DEF MailboxBooks
<1>5. ASSUME NEW i \in DOMAIN g.receipts, g.receipts[i].kind = "acceptance"
      PROVE  \/ Among(g.receipts[i].source, g.ready)
             \/ Among(g.receipts[i].source, g.deferred)
             \/ Ended(g.receipts[i].source, g)
  <2>1. i \in DOMAIN h.receipts /\ g.receipts[i] = h.receipts[i]
    BY <1>5, ReceiptsKept
  <2>2. g.receipts[i].source \in Item
    BY <2>1, HostFields, SMTT(30) DEF AcceptanceReceipt, TerminalReceipt
  <2>3. \/ Among(g.receipts[i].source, h.ready)
        \/ Among(g.receipts[i].source, h.deferred)
        \/ Ended(g.receipts[i].source, h)
    BY <1>5, <2>1 DEF MailboxBooks
  <2> QED
    BY <1>3, <2>2, <2>3
<1> QED
  BY <1>2, <1>4, <1>5 DEF MailboxBooks

(* A commit of the machine or of the host itself, which keeps the acceptances. *)
LEMMA ProcessedDocument ==
  ASSUME OwnershipBooks, UNCHANGED <<acknowledged, epoch, ordered>>,
         host' \in HostDocument, host'.rev = host.rev + 1,
         host'.transfers = host.transfers, MailboxBooks(host'),
         \A i \in DOMAIN host.receipts :
           i \in DOMAIN host'.receipts /\ host'.receipts[i] = host.receipts[i],
         \A i \in DOMAIN host'.receipts : host'.receipts[i].kind = "acceptance" =>
           i \in DOMAIN host.receipts /\ host'.receipts[i] = host.receipts[i],
         host'.destination = host.destination, host'.outbox = host.outbox,
         worker' = [v \in Worker |-> Overtaken(v)]
  PROVE  OwnershipBooks'
<1>1. TransferBooks(host)'
  <2>1. \A t \in host'.transfers : t.kind = "binding" =>
          /\ t.receipt \in DOMAIN host'.receipts
          /\ host'.receipts[t.receipt].kind = "acceptance"
          /\ host'.receipts[t.receipt].source = t.source
    BY DEF OwnershipBooks, TransferBooks
  <2>2. \A i \in DOMAIN host'.receipts : host'.receipts[i].kind = "acceptance" =>
          \E t \in host'.transfers :
            t.kind = "binding" /\ t.receipt = i /\ t.source = host'.receipts[i].source
    BY DEF OwnershipBooks, TransferBooks
  <2> QED
    BY <2>1, <2>2, TransfersKept DEF TransferBooks
<1>2. OrderBooks' /\ DecidedOnce'
  BY TransfersKept DEF OwnershipBooks, DecidedOnce, Pending
<1>3. MailboxBooks(host)'
  OBVIOUS
<1>4. Idle \in WorkerState /\ Idle.kind = "idle"
  BY DEF WorkerState, Idle
<1>5. worker' = [v \in Worker |-> worker'[v]] /\ \A v \in Worker : worker'[v] = Overtaken(v)
  OBVIOUS
<1> QED
  BY <1>1, <1>2, <1>3, <1>4, <1>5, DocumentReplaced

-----------------------------------------------------------------------------
(* The machine's step: handled, unhandled, or deferred.                      *)

LEMMA ProcessKept ==
  ASSUME OwnershipBooks, Process
  PROVE  OwnershipBooks'
<1> DEFINE s == Head(host.ready)
           reaction == Reaction[host.machine][Event[s]]
<1>1. /\ host \in HostDocument /\ MailboxBooks(host)
      /\ host.ready # <<>> /\ host.machine \in Live
      /\ host' = Stepped(s, reaction)
      /\ worker' = [v \in Worker |-> Overtaken(v)]
      /\ UNCHANGED <<sources, acknowledged, epoch, ordered>>
  BY HostFields DEF Process, OwnershipBooks, OwnershipTypeOK, Live, Removed
<1>2. /\ s \in Item /\ Among(s, host.ready) /\ Tail(host.ready) \in Seq(Item)
      /\ Distinct(Tail(host.ready))
      /\ \A x : Among(x, Tail(host.ready)) <=> Among(x, host.ready) /\ x # s
  BY <1>1, HostFields, TailMembers DEF MailboxBooks
<1>3. reaction \in {"deferred", "unhandled"} \cup Live
  <2>1. Event[s] \in {"new_request", "received"}
    BY <1>2, ItemAssumption DEF Item
  <2> QED
    BY <1>1, <2>1 DEF Reaction, Live
<1> HIDE DEF s, reaction
<1>4. /\ host.rev \in Nat /\ host.ready \in Seq(Item) /\ host.deferred \in Seq(Item)
      /\ host.receipts \in Seq(AcceptanceReceipt \cup TerminalReceipt)
  BY <1>1, HostFields
<1>5. /\ Distinct(host.ready) /\ Distinct(host.deferred)
      /\ \A x \in Item : ~(Among(x, host.ready) /\ Among(x, host.deferred))
  BY <1>1 DEF MailboxBooks
<1>6. \A d \in {"handled", "unhandled"} :
        Append(host.receipts, Terminal(s, d)) \in Seq(AcceptanceReceipt \cup TerminalReceipt)
  BY <1>2, <1>4 DEF Terminal, TerminalReceipt
<1>7. Whole(host)
  BY <1>1, DocumentMade
<1>8. CASE reaction = "deferred"
  <2>1. host' = [host EXCEPT !.rev = host.rev + 1, !.ready = Tail(host.ready),
                             !.deferred = Append(host.deferred, s)]
    BY <1>1, <1>8 DEF Stepped
  <2>2. /\ Append(host.deferred, s) \in Seq(Item) /\ Distinct(Append(host.deferred, s))
        /\ \A x : Among(x, Append(host.deferred, s)) <=> Among(x, host.deferred) \/ x = s
    BY <1>2, <1>4, <1>5, AppendedMembers
  <2>3. /\ host' \in HostDocument /\ host'.rev = host.rev + 1
        /\ host'.ready = Tail(host.ready) /\ host'.deferred = Append(host.deferred, s)
        /\ host'.receipts = host.receipts /\ host'.transfers = host.transfers
        /\ host'.destination = host.destination /\ host'.outbox = host.outbox
    <3>1. /\ Whole(host') /\ host'.rev = host.rev + 1 /\ host'.machine = host.machine
          /\ host'.ready = Tail(host.ready) /\ host'.deferred = Append(host.deferred, s)
          /\ host'.receipts = host.receipts /\ host'.transfers = host.transfers
          /\ host'.destination = host.destination /\ host'.outbox = host.outbox
      BY <1>7, <2>1 DEF Whole
    <3>2. host.rev + 1 \in Nat
      BY <1>4
    <3>3. host' \in HostDocument
      BY <1>1, <1>2, <2>2, <3>1, <3>2, HostFields, DocumentMade
    <3> QED
      BY <3>1, <3>3
  <2>4. MailboxBooks(host')
    <3>1. \A x : Ended(x, host') <=> Ended(x, host)
      BY <2>3 DEF Ended
    <3>2. ASSUME NEW x \in Item
          PROVE  /\ ~(Among(x, host'.ready) /\ Among(x, host'.deferred))
                 /\ ~(Among(x, host'.ready) /\ Ended(x, host'))
                 /\ ~(Among(x, host'.deferred) /\ Ended(x, host'))
                 /\ Among(x, host'.ready) \/ Among(x, host'.deferred) \/ Ended(x, host') =>
                      \E t \in host'.transfers : t.source = x
      BY <1>1, <1>2, <2>2, <2>3, <3>1 DEF MailboxBooks
    <3>3. \A x : Among(x, host'.ready) \/ Among(x, host'.deferred)
                   <=> Among(x, host.ready) \/ Among(x, host.deferred)
      BY <1>2, <2>2, <2>3
    <3>4. \A i \in DOMAIN host'.receipts : host'.receipts[i].kind = "acceptance" =>
             \/ Among(host'.receipts[i].source, host'.ready)
             \/ Among(host'.receipts[i].source, host'.deferred)
             \/ Ended(host'.receipts[i].source, host')
      BY <1>1, <2>3, <3>1, <3>3 DEF MailboxBooks
    <3> QED
      BY <1>1, <1>2, <2>2, <2>3, <3>2, <3>4 DEF MailboxBooks
  <2>5. \A i \in DOMAIN host.receipts : i \in DOMAIN host'.receipts /\ host'.receipts[i] = host.receipts[i]
    BY <2>3
  <2>6. \A i \in DOMAIN host'.receipts : i \in DOMAIN host.receipts /\ host'.receipts[i] = host.receipts[i]
    BY <2>3
  <2> QED
    BY <1>1, <2>3, <2>4, <2>5, <2>6, ProcessedDocument
<1>9. CASE reaction # "deferred"
  <2> DEFINE d == IF reaction = "unhandled" THEN "unhandled" ELSE "handled"
             recalled == ~(reaction = "unhandled" \/ reaction = host.machine)
             ready == IF recalled THEN Tail(host.ready) \o host.deferred ELSE Tail(host.ready)
             deferred == IF recalled THEN <<>> ELSE host.deferred
  <2>1. \/ host' = [host EXCEPT !.rev = host.rev + 1, !.ready = Tail(host.ready),
                                !.receipts = Append(host.receipts, Terminal(s, "unhandled"))]
             /\ reaction = "unhandled"
        \/ host' = [host EXCEPT !.rev = host.rev + 1, !.machine = reaction,
              !.ready = Tail(host.ready)
                          \o (IF reaction = host.machine THEN <<>> ELSE host.deferred),
              !.deferred = IF reaction = host.machine THEN host.deferred ELSE <<>>,
              !.receipts = Append(host.receipts, Terminal(s, "handled"))]
             /\ reaction # "unhandled" /\ reaction \in Live
    BY <1>1, <1>3, <1>9 DEF Stepped
  <2>2. \A x \in Item : ~(Among(x, Tail(host.ready)) /\ Among(x, host.deferred))
    BY <1>2, <1>5
  <2>3. /\ ready \in Seq(Item) /\ Distinct(ready)
        /\ deferred \in Seq(Item) /\ Distinct(deferred)
        /\ \A x \in Item : ~(Among(x, ready) /\ Among(x, deferred))
        /\ \A x \in Item : Among(x, ready) \/ Among(x, deferred) <=>
             (Among(x, Tail(host.ready)) \/ Among(x, host.deferred))
    <3>1. CASE recalled
      <4>1. <<>> \in Seq(Item) /\ Distinct(<<>>) /\ \A x : ~Among(x, <<>>)
        BY DEF Distinct, Among
      <4> QED
        BY <1>2, <1>4, <1>5, <2>2, <3>1, <4>1, JoinedMembers
    <3>2. CASE ~recalled
      BY <1>2, <1>4, <1>5, <2>2, <3>2
    <3> QED
      BY <3>1, <3>2
  <2>4. Tail(host.ready) \o <<>> = Tail(host.ready)
    BY <1>2
  <2>5. d \in {"handled", "unhandled"}
    OBVIOUS
  <2>6. /\ host'.ready = ready /\ host'.deferred = deferred
        /\ host'.receipts = Append(host.receipts, Terminal(s, d))
        /\ host'.rev = host.rev + 1 /\ host'.transfers = host.transfers
        /\ host'.destination = host.destination /\ host'.outbox = host.outbox
        /\ host'.machine \in Live
        /\ Whole(host')
    BY <1>1, <1>7, <2>1, <2>4 DEF Whole
  <2> HIDE DEF d, recalled, ready, deferred
  <2>7. host' \in HostDocument
    <3>1. host'.receipts \in Seq(AcceptanceReceipt \cup TerminalReceipt)
      BY <1>6, <2>5, <2>6
    <3>2. /\ host'.rev \in Nat /\ host'.machine \in Live \cup {Removed}
          /\ host'.ready \in Seq(Item) /\ host'.deferred \in Seq(Item)
      BY <1>4, <2>3, <2>6
    <3> QED
      BY <1>1, <2>6, <3>1, <3>2, HostFields, DocumentMade
  <2>8. \A x \in Item : Among(x, host'.ready) \/ Among(x, host'.deferred) <=>
          ((Among(x, host.ready) \/ Among(x, host.deferred)) /\ x # s)
    BY <1>2, <1>5, <2>3, <2>6
  <2>9. MailboxBooks(host')
    BY <1>1, <1>2, <2>3, <2>5, <2>6, <2>7, <2>8, MailboxEnded, SMTT(30)
  <2>10. /\ \A i \in DOMAIN host.receipts :
              i \in DOMAIN host'.receipts /\ host'.receipts[i] = host.receipts[i]
         /\ \A i \in DOMAIN host'.receipts : host'.receipts[i].kind = "acceptance" =>
              i \in DOMAIN host.receipts /\ host'.receipts[i] = host.receipts[i]
    BY <1>1, <1>2, <2>5, <2>6, <2>7, ReceiptsKept
  <2> QED
    BY <1>1, <2>6, <2>7, <2>9, <2>10, ProcessedDocument
<1> QED
  BY <1>8, <1>9

-----------------------------------------------------------------------------
(* The root that is removed.                                                 *)

LEMMA RemoveTargetKept ==
  ASSUME OwnershipBooks, RemoveTarget
  PROVE  OwnershipBooks'
<1>1. /\ host \in HostDocument /\ Whole(host) /\ MailboxBooks(host)
      /\ host' = [host EXCEPT !.machine = Removed, !.rev = host.rev + 1]
      /\ worker' = [v \in Worker |-> Overtaken(v)]
      /\ UNCHANGED <<acknowledged, epoch, ordered>>
  BY DocumentMade DEF RemoveTarget, OwnershipBooks, OwnershipTypeOK
<1>2. /\ Whole(host') /\ host'.rev = host.rev + 1 /\ host'.machine = Removed
      /\ host'.ready = host.ready /\ host'.deferred = host.deferred
      /\ host'.receipts = host.receipts /\ host'.transfers = host.transfers
      /\ host'.destination = host.destination /\ host'.outbox = host.outbox
  BY <1>1 DEF Whole
<1>3. host.rev + 1 \in Nat
  BY <1>1, HostFields
<1>4. host' \in HostDocument
  BY <1>1, <1>2, <1>3, HostFields, DocumentMade
<1>5. MailboxBooks(host')
  BY <1>1, <1>2 DEF MailboxBooks, Ended
<1> QED
  BY <1>1, <1>2, <1>4, <1>5, ProcessedDocument

(* The outcome of a delivery, which is recorded for an effect still pending. *)
LEMMA RecordOutcomeKept ==
  ASSUME OwnershipBooks, NEW w \in Worker, RecordOutcome(w)
  PROVE  OwnershipBooks'
<1> DEFINE e == worker[w].effect
           o == worker[w].outcome
<1>1. /\ host \in HostDocument /\ Whole(host) /\ MailboxBooks(host) /\ host.rev \in Nat
      /\ worker[w] \in WorkerState /\ worker[w].kind = "delivered" /\ Agrees(worker[w])
      /\ host' = Recorded(e, o) /\ Replace(w, Idle)
      /\ UNCHANGED <<acknowledged, epoch, ordered>>
  BY DocumentMade DEF RecordOutcome, OwnershipBooks, OwnershipTypeOK, WorkerBooks
<1>2. e \in DOMAIN host.outbox /\ Pending(e) /\ e \in Effect /\ o \in Outcomes
  BY <1>1 DEF Agrees, WorkerState, Idle
<1> HIDE DEF e, o
<1>3. /\ Whole(host') /\ host'.rev = host.rev + 1 /\ host'.machine = host.machine
      /\ host'.ready = host.ready /\ host'.deferred = host.deferred
      /\ host'.receipts = host.receipts /\ host'.transfers = host.transfers
      /\ host'.destination = host.destination \cup Decided(e, o)
      /\ host'.outbox = [host.outbox EXCEPT ![e] = o]
  BY <1>1 DEF Recorded, Whole
<1>4. host.rev + 1 \in Nat
  BY <1>1
<1>5. Decided(e, o) \subseteq DestinationRow
  BY <1>2, <1>4 DEF Decided, DestinationReceipt, DestinationRow, Outcomes
<1>6. host'.outbox \in [{} -> OutboxState] \cup [Effect -> OutboxState]
  BY <1>1, <1>2, <1>3, HostFields DEF OutboxState, Outcomes
<1>7. host' \in HostDocument
  BY <1>1, <1>3, <1>4, <1>5, <1>6, HostFields, DocumentMade
<1>8. MailboxBooks(host)'
  BY <1>1, <1>3 DEF MailboxBooks, Ended
<1>9. TransferBooks(host)' /\ OrderBooks'
  BY <1>1, <1>3, <1>7, TransfersKept DEF OwnershipBooks, TransferBooks
<1>10. DecidedOnce'
  <2>1. /\ DOMAIN host'.outbox = DOMAIN host.outbox /\ host'.outbox[e] = o
        /\ \A f \in DOMAIN host.outbox : f # e => host'.outbox[f] = host.outbox[f]
    BY <1>1, <1>2, <1>3, HostFields
  <2>2. DecidedOnce
    BY DEF OwnershipBooks
  <2>3. \A d \in Decided(e, o) : d.effect = e /\ d.outcome = o
    BY DEF Decided, DestinationReceipt
  <2>4. {d \in host.destination : d.effect = e} = {}
    BY <1>2, <2>2 DEF DecidedOnce
  <2>5. {d \in host'.destination : d.effect = e} = Decided(e, o)
    BY <1>3, <2>3, <2>4
  <2>6. ASSUME NEW f \in DOMAIN host'.outbox
        PROVE  LET decisions == {d \in host'.destination : d.effect = f}
               IN /\ host'.outbox[f] \in {"pending", "ambiguous"} <=> decisions = {}
                  /\ \A d \in decisions : decisions = {d} /\ host'.outbox[f] = d.outcome
    <3>1. CASE f = e
      <4>1. o = "ambiguous" <=> Decided(e, o) = {}
        BY DEF Decided
      <4>2. \A d \in Decided(e, o) : Decided(e, o) = {d}
        BY DEF Decided
      <4> QED
        BY <1>2, <2>1, <2>3, <2>5, <3>1, <4>1, <4>2 DEF Outcomes
    <3>2. CASE f # e
      <4>1. {d \in host'.destination : d.effect = f} = {d \in host.destination : d.effect = f}
        BY <1>3, <2>3, <3>2
      <4> QED
        BY <2>1, <2>2, <3>2, <4>1 DEF DecidedOnce, Pending
    <3> QED
      BY <3>1, <3>2
  <2> QED
    BY <2>6 DEF DecidedOnce, Pending
<1>11. Idle \in WorkerState /\ Idle.kind = "idle"
  BY DEF WorkerState, Idle
<1>12. /\ worker' = [v \in Worker |-> worker'[v]]
       /\ \A v \in Worker : worker'[v] = Idle \/ worker'[v] = Overtaken(v)
  BY <1>1 DEF Replace
<1> QED
  BY <1>1, <1>3, <1>7, <1>8, <1>9, <1>10, <1>11, <1>12, DocumentReplaced

-----------------------------------------------------------------------------
(* The transfers of a commit.                                                *)

(* Nothing of a fresh batch was transferred, ended or in the mailbox; and     *)
(* with what is in order before it, what comes after it is.                  *)
LEMMA FreshOrder ==
  ASSUME OwnershipBooks, NEW ms \in Batch, WellFormed(ms), Fresh(ms), ordered' = ordered,
         Transferred' = Transferred \cup {ms[i].source : i \in DOMAIN ms}
  PROVE  OrderBooks'
<1> SUFFICES ASSUME ordered, NEW i \in DOMAIN Items, NEW j \in DOMAIN Items, i < j,
                    Items[j] \in Transferred'
             PROVE  Items[i] \in Transferred'
  BY DEF OrderBooks
<1>1. ~Waits(ms) /\ OrderBooks
  BY DEF Fresh, OwnershipBooks
<1>2. CASE Items[j] \in Transferred
  BY <1>1, <1>2 DEF OrderBooks
<1>3. CASE \E k \in DOMAIN ms : Items[j] = ms[k].source
  <2>1. PICK k \in DOMAIN ms : Items[j] = ms[k].source
    BY <1>3
  <2>2. Place(ms[k].source) = j
    BY <2>1, PlaceUnique
  <2>3. i \in Nat /\ j \in Nat /\ i >= 1
    BY ItemAssumption
  <2>4. i \in 1 .. Place(ms[k].source) - 1
    BY <2>2, <2>3
  <2> QED
    BY <1>1, <2>4 DEF Waits
<1> QED
  BY <1>2, <1>3

(* The owner that commits is the present one, and no transfer was later.     *)
LEMMA TransfersAdded ==
  ASSUME OwnershipBooks, NEW new \in SUBSET TransferRow, epoch' = epoch, epoch \in Nat,
         host' \in HostDocument, host'.rev = host.rev + 1,
         host'.transfers = host.transfers \cup new,
         \A t \in new : t.rev = host.rev + 1 /\ t.epoch = epoch,
         \A t \in new : t.source \notin Transferred,
         \A t, u \in new : t.source = u.source => t = u
  PROVE  /\ \A t, u \in host'.transfers : t.source = u.source => t = u
         /\ \A t \in host'.transfers : t.rev <= host'.rev /\ t.epoch <= epoch'
         /\ \A t, u \in host'.transfers : t.rev < u.rev => t.epoch <= u.epoch
<1>1. host.rev \in Nat /\ \A t \in host.transfers : t.rev \in Nat /\ t.epoch \in Nat
  BY HostFields DEF OwnershipBooks, OwnershipTypeOK, TransferRow
<1>2. /\ \A t \in host.transfers : t.rev <= host.rev /\ t.epoch <= epoch
      /\ \A t, u \in host.transfers : t.rev < u.rev => t.epoch <= u.epoch
      /\ \A t, u \in host.transfers : t.source = u.source => t = u
  BY DEF OwnershipBooks, TransferBooks
<1>3. \A t \in host.transfers, u \in new : t.source # u.source
  BY DEF Transferred
<1>4. \A t, u \in host'.transfers : t.source = u.source => t = u
  BY <1>2, <1>3
<1>5. \A t \in host'.transfers : t.rev <= host'.rev /\ t.epoch <= epoch'
  BY <1>1, <1>2
<1>6. ASSUME NEW t \in host'.transfers, NEW u \in host'.transfers, t.rev < u.rev
      PROVE  t.epoch <= u.epoch
  <2>1. CASE u \in new
    BY <1>5, <2>1
  <2>2. CASE u \in host.transfers /\ t \in new
    BY <1>1, <1>2, <1>6, <2>2
  <2>3. CASE u \in host.transfers /\ t \in host.transfers
    BY <1>2, <1>6, <2>3
  <2> QED
    BY <2>1, <2>2, <2>3
<1> QED
  BY <1>4, <1>5, <1>6

(* A dead letter: a transfer, and the checkpoint as it was.                  *)
LEMMA DeadLetteredKept ==
  ASSUME OwnershipBooks, NEW ms \in Batch, WellFormed(ms), Fresh(ms), Len(ms) = 1, ~Ingest(ms),
         host' = DeadLettered(ms[1], epoch), UNCHANGED <<epoch, ordered>>
  PROVE  /\ host' \in HostDocument /\ host.transfers \subseteq host'.transfers
         /\ TransferBooks(host)' /\ MailboxBooks(host)' /\ OrderBooks' /\ DecidedOnce'
         /\ \A m \in Range(ms) : Held(m, host')
<1> DEFINE t1 == Transfer(ms[1], 0, epoch)
<1>1. /\ host \in HostDocument /\ Whole(host) /\ MailboxBooks(host)
      /\ TransferBooks(host) /\ DecidedOnce
      /\ host.rev \in Nat /\ epoch \in Nat /\ host.rev + 1 \in Nat
  BY DocumentMade DEF OwnershipBooks, OwnershipTypeOK
<1>2. /\ DOMAIN ms = {1} /\ ms[1].source \in Item /\ ms[1].content \in Reading
      /\ ms[1].envelope = "none" /\ ms[1].source \notin Transferred
  BY BatchMembers DEF Ingest, Fresh
<1>3. /\ t1 \in TransferRow /\ t1.kind = "dead_letter" /\ t1.rev = host.rev + 1
      /\ t1.source = ms[1].source /\ t1.content = ms[1].content /\ t1.epoch = epoch
  BY <1>1, <1>2 DEF Transfer, Kind, TransferRow
<1>4. host' = [host EXCEPT !.rev = host.rev + 1, !.transfers = host.transfers \cup {t1}]
  BY DEF DeadLettered
<1> HIDE DEF t1
<1>5. /\ Whole(host') /\ host'.rev = host.rev + 1 /\ host'.machine = host.machine
      /\ host'.ready = host.ready /\ host'.deferred = host.deferred
      /\ host'.receipts = host.receipts /\ host'.transfers = host.transfers \cup {t1}
      /\ host'.destination = host.destination /\ host'.outbox = host.outbox
  BY <1>1, <1>4 DEF Whole
<1>6. host' \in HostDocument
  BY <1>1, <1>3, <1>5, HostFields, DocumentMade
<1>7. TransferBooks(host)'
  <2>1. /\ \A t, u \in host'.transfers : t.source = u.source => t = u
        /\ \A t \in host'.transfers : t.rev <= host'.rev /\ t.epoch <= epoch'
        /\ \A t, u \in host'.transfers : t.rev < u.rev => t.epoch <= u.epoch
    <3>1. /\ {t1} \in SUBSET TransferRow /\ host'.transfers = host.transfers \cup {t1}
          /\ \A t \in {t1} : t.rev = host.rev + 1 /\ t.epoch = epoch
          /\ \A t \in {t1} : t.source \notin Transferred
          /\ \A t, u \in {t1} : t.source = u.source => t = u
      BY <1>2, <1>3, <1>5
    <3> QED
      BY <1>1, <1>5, <1>6, <3>1, TransfersAdded
  <2>2. \A t \in host'.transfers : t.kind = "binding" => t \in host.transfers
    BY <1>3, <1>5
  <2> QED
    BY <1>1, <1>5, <2>1, <2>2 DEF TransferBooks
<1>8. MailboxBooks(host)'
  BY <1>1, <1>5 DEF MailboxBooks, Ended
<1>9. OrderBooks'
  <2>1. Transferred' = Transferred \cup {ms[i].source : i \in DOMAIN ms}
    BY <1>2, <1>3, <1>5 DEF Transferred
  <2> QED
    BY <2>1, FreshOrder
<1>10. DecidedOnce'
  BY <1>1, <1>5 DEF DecidedOnce, Pending
<1>11. \A m \in Range(ms) : Held(m, host')
  BY <1>2, <1>3, <1>5 DEF Range, Held
<1> QED
  BY <1>5, <1>6, <1>7, <1>8, <1>9, <1>10, <1>11

(* An admission: the events at the end of the mailbox, their receipts and the *)
(* bindings that name these.                                                 *)
LEMMA AdmittedKept ==
  ASSUME OwnershipBooks, NEW ms \in Batch, WellFormed(ms), Fresh(ms), Ingest(ms),
         host' = Admitted(ms, epoch), UNCHANGED <<epoch, ordered>>
  PROVE  /\ host' \in HostDocument /\ host.transfers \subseteq host'.transfers
         /\ TransferBooks(host)' /\ MailboxBooks(host)' /\ OrderBooks' /\ DecidedOnce'
         /\ \A m \in Range(ms) : Held(m, host')
<1> DEFINE n == Len(host.receipts)
           entries == [i \in DOMAIN ms |-> ms[i].source]
           accepted == [i \in DOMAIN ms |-> [kind |-> "acceptance", source |-> ms[i].source]]
           row(i) == Transfer(ms[i], n + i, epoch)
           new == {row(i) : i \in DOMAIN ms}
<1>1. /\ host \in HostDocument /\ Whole(host) /\ MailboxBooks(host)
      /\ TransferBooks(host) /\ DecidedOnce
      /\ host.rev \in Nat /\ epoch \in Nat /\ host.rev + 1 \in Nat
  BY DocumentMade DEF OwnershipBooks, OwnershipTypeOK
<1>2. /\ host.ready \in Seq(Item) /\ n \in Nat /\ DOMAIN host.receipts = 1..n
      /\ host.receipts \in Seq(AcceptanceReceipt \cup TerminalReceipt)
  BY <1>1, HostFields
<1>3. /\ DOMAIN ms = 1..Len(ms) /\ Len(ms) \in Nat
      /\ \A i \in DOMAIN ms : /\ i \in Nat \ {0} /\ ms[i].source \in Item
                              /\ ms[i].content \in Reading
                              /\ ms[i].envelope # "none" /\ ms[i].source \notin Transferred
      /\ \A i, j \in DOMAIN ms : ms[i].source = ms[j].source => i = j
  BY BatchMembers DEF Ingest, Fresh, WellFormed
<1>4. /\ entries \in Seq(Item) /\ Distinct(entries)
      /\ \A x : Among(x, entries) <=> \E i \in DOMAIN ms : ms[i].source = x
  BY <1>3 DEF Distinct, Among
<1>5. /\ accepted \in Seq(AcceptanceReceipt \cup TerminalReceipt) /\ Len(accepted) = Len(ms)
      /\ DOMAIN accepted = DOMAIN ms
      /\ \A i \in DOMAIN ms : accepted[i].kind = "acceptance" /\ accepted[i].source = ms[i].source
  BY <1>3 DEF AcceptanceReceipt
<1>6. ASSUME NEW i \in DOMAIN ms
      PROVE  /\ row(i) \in TransferRow /\ row(i).kind = "binding" /\ row(i).rev = host.rev + 1
             /\ row(i).source = ms[i].source /\ row(i).content = ms[i].content
             /\ row(i).receipt = n + i /\ row(i).epoch = epoch
  BY <1>1, <1>2, <1>3 DEF Transfer, Kind, TransferRow
<1>7. host' = [host EXCEPT !.rev = host.rev + 1, !.ready = host.ready \o entries,
                 !.receipts = host.receipts \o accepted, !.transfers = host.transfers \cup new]
  BY DEF Admitted
<1> HIDE DEF entries, accepted, row
<1>8. /\ Whole(host') /\ host'.rev = host.rev + 1 /\ host'.machine = host.machine
      /\ host'.ready = host.ready \o entries /\ host'.deferred = host.deferred
      /\ host'.receipts = host.receipts \o accepted /\ host'.transfers = host.transfers \cup new
      /\ host'.destination = host.destination /\ host'.outbox = host.outbox
  BY <1>1, <1>7 DEF Whole
<1>9. new \subseteq TransferRow
  BY <1>6
<1>10. /\ \A x \in Item : ~(Among(x, host.ready) /\ Among(x, entries))
       /\ \A x \in Item : Among(x, entries) =>
            ~Among(x, host.ready) /\ ~Among(x, host.deferred) /\ ~Ended(x, host)
  BY <1>1, <1>3, <1>4 DEF MailboxBooks, Transferred
<1>11. /\ host'.ready \in Seq(Item) /\ Distinct(host'.ready)
       /\ \A x : Among(x, host'.ready) <=> Among(x, host.ready) \/ Among(x, entries)
  BY <1>1, <1>2, <1>4, <1>8, <1>10, JoinedMembers DEF MailboxBooks
<1>12. /\ host'.receipts \in Seq(AcceptanceReceipt \cup TerminalReceipt)
       /\ DOMAIN host'.receipts = 1..(n + Len(ms))
       /\ \A i \in 1..n : host'.receipts[i] = host.receipts[i]
       /\ \A i \in DOMAIN ms : host'.receipts[n + i] = accepted[i]
  <2>1. host'.receipts = host.receipts \o accepted
    BY <1>8
  <2>2. \A i \in 1..(n + Len(ms)) :
          host'.receipts[i] = IF i <= n THEN host.receipts[i] ELSE accepted[i - n]
    BY <1>2, <1>3, <1>5, <2>1
  <2>3. ASSUME NEW i \in DOMAIN ms
        PROVE  host'.receipts[n + i] = accepted[i]
    <3>1. n + i \in 1..(n + Len(ms)) /\ ~(n + i <= n) /\ (n + i) - n = i
      BY <1>2, <1>3
    <3> QED
      BY <2>2, <3>1
  <2>4. /\ host'.receipts \in Seq(AcceptanceReceipt \cup TerminalReceipt)
        /\ DOMAIN host'.receipts = 1..(n + Len(ms))
    BY <1>2, <1>3, <1>5, <2>1, SMTT(30)
  <2>5. \A i \in 1..n : i \in 1..(n + Len(ms)) /\ i <= n
    BY <1>2, <1>3
  <2> QED
    BY <2>2, <2>3, <2>4, <2>5
<1>13. \A i \in DOMAIN host'.receipts :
         \/ i \in DOMAIN host.receipts /\ host'.receipts[i] = host.receipts[i]
         \/ \E k \in DOMAIN ms : i = n + k /\ host'.receipts[i] = accepted[k]
  <2> SUFFICES ASSUME NEW i \in DOMAIN host'.receipts, i \notin DOMAIN host.receipts
               PROVE  \E k \in DOMAIN ms : i = n + k /\ host'.receipts[i] = accepted[k]
    BY <1>2, <1>12
  <2>1. i - n \in DOMAIN ms /\ i = n + (i - n)
    BY <1>2, <1>3, <1>12
  <2> QED
    BY <1>12, <2>1
<1>14. \A i \in DOMAIN host.receipts : i \in DOMAIN host'.receipts /\ host'.receipts[i] = host.receipts[i]
  BY <1>2, <1>3, <1>12
<1>15. \A x : Ended(x, host') <=> Ended(x, host)
  BY <1>5, <1>13, <1>14 DEF Ended
<1>16. host' \in HostDocument
  BY <1>1, <1>8, <1>9, <1>11, <1>12, HostFields, DocumentMade
<1>17. TransferBooks(host)'
  <2>1. /\ \A t, u \in host'.transfers : t.source = u.source => t = u
        /\ \A t \in host'.transfers : t.rev <= host'.rev /\ t.epoch <= epoch'
        /\ \A t, u \in host'.transfers : t.rev < u.rev => t.epoch <= u.epoch
    <3>1. /\ \A t \in new : t.rev = host.rev + 1 /\ t.epoch = epoch
          /\ \A t \in new : t.source \notin Transferred
          /\ \A t, u \in new : t.source = u.source => t = u
      BY <1>3, <1>6
    <3> HIDE DEF new
    <3> QED
      BY <1>1, <1>8, <1>9, <1>16, <3>1, TransfersAdded
  <2>2. ASSUME NEW t \in host'.transfers, t.kind = "binding"
        PROVE  /\ t.receipt \in DOMAIN host'.receipts
               /\ host'.receipts[t.receipt].kind = "acceptance"
               /\ host'.receipts[t.receipt].source = t.source
    <3>1. CASE t \in host.transfers
      BY <1>1, <1>14, <2>2, <3>1 DEF TransferBooks
    <3>2. CASE t \in new
      <4>1. PICK i \in DOMAIN ms : t = row(i)
        BY <3>2
      <4>2. n + i \in DOMAIN host'.receipts
        BY <1>2, <1>3, <1>12
      <4> QED
        BY <1>5, <1>6, <1>12, <4>1, <4>2
    <3> QED
      BY <1>8, <3>1, <3>2
  <2>3. ASSUME NEW i \in DOMAIN host'.receipts, host'.receipts[i].kind = "acceptance"
        PROVE  \E t \in host'.transfers :
                 t.kind = "binding" /\ t.receipt = i /\ t.source = host'.receipts[i].source
    <3>1. CASE i \in DOMAIN host.receipts /\ host'.receipts[i] = host.receipts[i]
      <4>1. PICK t \in host.transfers :
              t.kind = "binding" /\ t.receipt = i /\ t.source = host.receipts[i].source
        BY <1>1, <2>3, <3>1 DEF TransferBooks
      <4>2. t \in host'.transfers
        BY <1>8
      <4> QED
        BY <3>1, <4>1, <4>2
    <3>2. CASE \E k \in DOMAIN ms : i = n + k /\ host'.receipts[i] = accepted[k]
      BY <1>5, <1>6, <1>8, <3>2
    <3> QED
      BY <1>13, <3>1, <3>2
  <2> QED
    BY <2>1, <2>2, <2>3 DEF TransferBooks
<1>18. MailboxBooks(host)'
  <2>1. \A i, j \in DOMAIN host'.receipts :
          host'.receipts[i].kind = "event_terminal" /\ host'.receipts[j].kind = "event_terminal"
            /\ host'.receipts[i].source = host'.receipts[j].source => i = j
    BY <1>1, <1>5, <1>13 DEF MailboxBooks
  <2>2. ASSUME NEW x \in Item, Among(x, entries)
        PROVE  \E t \in host'.transfers : t.source = x
    BY <1>4, <1>6, <1>8, <2>2
  <2>3. ASSUME NEW x \in Item
        PROVE  /\ ~(Among(x, host'.ready) /\ Among(x, host'.deferred))
               /\ ~(Among(x, host'.ready) /\ Ended(x, host'))
               /\ ~(Among(x, host'.deferred) /\ Ended(x, host'))
               /\ Among(x, host'.ready) \/ Among(x, host'.deferred) \/ Ended(x, host') =>
                    \E t \in host'.transfers : t.source = x
    BY <1>1, <1>8, <1>10, <1>11, <1>15, <2>2 DEF MailboxBooks
  <2>4. ASSUME NEW i \in DOMAIN host'.receipts, host'.receipts[i].kind = "acceptance"
        PROVE  \/ Among(host'.receipts[i].source, host'.ready)
               \/ Among(host'.receipts[i].source, host'.deferred)
               \/ Ended(host'.receipts[i].source, host')
    <3>1. CASE i \in DOMAIN host.receipts /\ host'.receipts[i] = host.receipts[i]
      BY <1>1, <1>8, <1>11, <1>15, <2>4, <3>1 DEF MailboxBooks
    <3>2. CASE \E k \in DOMAIN ms : i = n + k /\ host'.receipts[i] = accepted[k]
      BY <1>4, <1>5, <1>11, <3>2
    <3> QED
      BY <1>13, <3>1, <3>2
  <2> QED
    BY <1>1, <1>8, <1>11, <2>1, <2>3, <2>4 DEF MailboxBooks
<1>19. OrderBooks'
  <2>1. Transferred' = Transferred \cup {ms[i].source : i \in DOMAIN ms}
    <3>1. {t.source : t \in new} = {ms[i].source : i \in DOMAIN ms}
      BY <1>6
    <3> HIDE DEF new
    <3> QED
      BY <1>8, <3>1 DEF Transferred
  <2> QED
    BY <2>1, FreshOrder
<1>20. DecidedOnce'
  BY <1>1, <1>8 DEF DecidedOnce, Pending
<1>21. \A m \in Range(ms) : Held(m, host')
  BY <1>6, <1>8 DEF Range, Held
<1> QED
  BY <1>8, <1>16, <1>17, <1>18, <1>19, <1>20, <1>21

LEMMA CommitKept ==
  ASSUME OwnershipBooks, NEW w \in Worker, Commit(w)
  PROVE  OwnershipBooks'
<1> DEFINE ms == worker[w].members
           next == [kind |-> "transferred", owed |-> Range(ms)]
<1>1. /\ worker[w] \in WorkerState /\ worker[w].kind = "fetched" /\ Agrees(worker[w])
      /\ worker[w].epoch = epoch
      /\ host' = IF Ingest(ms) THEN Admitted(ms, epoch) ELSE DeadLettered(ms[1], epoch)
      /\ Replace(w, next) /\ UNCHANGED <<sources, acknowledged, epoch, ordered>>
  BY DEF Commit, CurrentOwner, OwnershipBooks, OwnershipTypeOK, WorkerBooks
<1>2. ms \in Batch /\ WellFormed(ms) /\ Fresh(ms)
  BY <1>1 DEF Agrees, WorkerState, Idle
<1>3. Ingest(ms) \/ Len(ms) = 1
  BY <1>2 DEF WellFormed
<1> HIDE DEF ms
<1>4. /\ host' \in HostDocument /\ host.transfers \subseteq host'.transfers
      /\ TransferBooks(host)' /\ MailboxBooks(host)' /\ OrderBooks' /\ DecidedOnce'
      /\ \A m \in Range(ms) : Held(m, host')
  BY <1>1, <1>2, <1>3, AdmittedKept, DeadLetteredKept
<1>5. Range(ms) \subseteq Request
  BY <1>2, BatchMembers DEF Range
<1>6. next \in WorkerState /\ next.kind = "transferred" /\ next.owed = Range(ms)
  BY <1>5 DEF WorkerState
<1>7. /\ worker' = [v \in Worker |-> worker'[v]]
      /\ \A v \in Worker : worker'[v] = next \/ worker'[v] = Overtaken(v)
  BY <1>1 DEF Replace
<1> HIDE DEF next
<1> QED
  BY <1>1, <1>4, <1>6, <1>7, DocumentReplaced

-----------------------------------------------------------------------------
(* The specification.                                                        *)

LEMMA OwnershipInit == Init => OwnershipBooks
<1> SUFFICES ASSUME Init PROVE OwnershipBooks
  OBVIOUS
<1>1. PICK machine \in {"idle", "receiving"}, effects \in {{}, Effect} :
        /\ host = Seed(machine, effects)
        /\ sources = IF effects = {} THEN Item ELSE {}
  BY DEF Init
<1>2. /\ Whole(host) /\ host.rev = 0 /\ host.machine = machine /\ host.ready = <<>>
      /\ host.deferred = <<>> /\ host.receipts = <<>> /\ host.transfers = {}
      /\ host.destination = {} /\ host.outbox = [e \in effects |-> "pending"]
  BY <1>1 DEF Seed, Whole
<1>3. host.outbox \in [{} -> OutboxState] \cup [Effect -> OutboxState]
  BY <1>2 DEF OutboxState
<1>4. host \in HostDocument
  <2>1. /\ host.rev \in Nat /\ host.machine \in Live \cup {Removed}
        /\ host.ready \in Seq(Item) /\ host.deferred \in Seq(Item)
        /\ host.receipts \in Seq(AcceptanceReceipt \cup TerminalReceipt)
    BY <1>1, <1>2 DEF Live
  <2>2. host.transfers \subseteq TransferRow /\ host.destination \subseteq DestinationRow
    BY <1>2
  <2> QED
    BY <1>2, <1>3, <2>1, <2>2, DocumentMade
<1>5. /\ acknowledged = {} /\ epoch = 1 /\ ordered \in BOOLEAN
      /\ worker = [w \in Worker |-> Idle]
  BY DEF Init
<1>6. OwnershipTypeOK
  BY <1>4, <1>5 DEF OwnershipTypeOK, WorkerState
<1>7. TransferBooks(host) /\ OrderBooks
  BY <1>2 DEF TransferBooks, OrderBooks, Transferred
<1>8. MailboxBooks(host)
  BY <1>2 DEF MailboxBooks, Distinct, Among, Ended
<1>9. WorkerBooks /\ AcknowledgedBooks
  BY <1>5 DEF WorkerBooks, AcknowledgedBooks, Agrees, Idle
<1>10. DecidedOnce
  BY <1>2 DEF DecidedOnce, Pending
<1> QED
  BY <1>6, <1>7, <1>8, <1>9, <1>10 DEF OwnershipBooks

LEMMA OwnershipNext == OwnershipBooks /\ [Next]_vars => OwnershipBooks'
<1> SUFFICES ASSUME OwnershipBooks, [Next]_vars PROVE OwnershipBooks'
  OBVIOUS
<1>1. ASSUME NEW w \in Worker, NEW ms \in Operations, NEW claimed \in 1..epoch,
             Fetch(w, ms, claimed)
      PROVE  OwnershipBooks'
  BY <1>1, FetchKept
<1>2. ASSUME NEW w \in Worker, Commit(w) PROVE OwnershipBooks'
  BY <1>2, CommitKept
<1>3. ASSUME NEW w \in Worker, Acknowledge(w) PROVE OwnershipBooks'
  BY <1>3, AcknowledgeKept
<1>4. ASSUME NEW w \in Worker, NEW e \in DOMAIN host.outbox, NEW o \in Outcomes,
             Deliver(w, e, o)
      PROVE  OwnershipBooks'
  BY <1>4, DeliverKept
<1>5. ASSUME NEW w \in Worker, RecordOutcome(w) PROVE OwnershipBooks'
  BY <1>5, RecordOutcomeKept
<1>6. ASSUME NEW w \in Worker, Abandon(w) PROVE OwnershipBooks'
  BY <1>6, AbandonKept
<1>7. CASE Process
  BY <1>7, ProcessKept
<1>8. CASE TakeOver \/ UNCHANGED vars
  BY <1>8, TakeOverKept
<1>9. CASE RemoveTarget
  BY <1>9, RemoveTargetKept
<1> QED
  BY <1>1, <1>2, <1>3, <1>4, <1>5, <1>6, <1>7, <1>8, <1>9 DEF Next

(* The invariant of the host holds in every reachable state.                 *)
THEOREM OwnershipInvariant == Spec => []OwnershipBooks
<1>1. Init => OwnershipBooks
  BY OwnershipInit
<1>2. OwnershipBooks /\ [Next]_vars => OwnershipBooks'
  BY OwnershipNext
<1> QED
  BY <1>1, <1>2, PTL DEF Spec

(* An accepted item is in one place.                                         *)
LEMMA PlacedOnce ==
  ASSUME OwnershipBooks, NEW k \in Accepted
  PROVE  Cardinality(Places(host.receipts[k].source)) = 1
<1> DEFINE s == host.receipts[k].source
           ready == {j \in DOMAIN host.ready : host.ready[j] = s}
           deferred == {j \in DOMAIN host.deferred : host.deferred[j] = s}
           ended == {j \in DOMAIN host.receipts \ Accepted : host.receipts[j].source = s}
<1>1. /\ host.receipts \in Seq(AcceptanceReceipt \cup TerminalReceipt)
      /\ MailboxBooks(host)
  BY HostFields DEF OwnershipBooks, OwnershipTypeOK
<1>2. \A i \in DOMAIN host.receipts :
        i \notin Accepted <=> host.receipts[i].kind = "event_terminal"
  BY <1>1 DEF Accepted, AcceptanceReceipt, TerminalReceipt
<1>3. k \in DOMAIN host.receipts /\ host.receipts[k].kind = "acceptance" /\ s \in Item
  BY <1>1 DEF Accepted, AcceptanceReceipt, TerminalReceipt
<1>4. /\ \A i, j \in ready : i = j
      /\ \A i, j \in deferred : i = j
      /\ \A i, j \in ended : i = j
  BY <1>1, <1>2 DEF MailboxBooks, Distinct
<1>5. /\ ready # {} <=> Among(s, host.ready)
      /\ deferred # {} <=> Among(s, host.deferred)
      /\ ended # {} <=> Ended(s, host)
  BY <1>2 DEF Among, Ended
<1>6. /\ ready # {} \/ deferred # {} \/ ended # {}
      /\ ready = {} \/ deferred = {}
      /\ ready = {} \/ ended = {}
      /\ deferred = {} \/ ended = {}
  BY <1>1, <1>3, <1>5 DEF MailboxBooks
<1>7. Places(s) = {<<"ready", i>> : i \in ready} \cup {<<"deferred", i>> : i \in deferred}
                    \cup {<<"terminal", i>> : i \in ended}
  BY DEF Places
<1> HIDE DEF s, ready, deferred, ended
<1>8. \E x : Places(s) = {x}
  <2>1. CASE ready # {}
    <3>1. PICK i : i \in ready
      BY <2>1
    <3>2. ready = {i} /\ deferred = {} /\ ended = {}
      BY <1>4, <1>6, <3>1
    <3>3. Places(s) = {<<"ready", i>>}
      BY <1>7, <3>2
    <3> QED
      BY <3>3
  <2>2. CASE deferred # {}
    <3>1. PICK i : i \in deferred
      BY <2>2
    <3>2. deferred = {i} /\ ready = {} /\ ended = {}
      BY <1>4, <1>6, <3>1
    <3>3. Places(s) = {<<"deferred", i>>}
      BY <1>7, <3>2
    <3> QED
      BY <3>3
  <2>3. CASE ended # {}
    <3>1. PICK i : i \in ended
      BY <2>3
    <3>2. ended = {i} /\ ready = {} /\ deferred = {}
      BY <1>4, <1>6, <3>1
    <3>3. Places(s) = {<<"terminal", i>>}
      BY <1>7, <3>2
    <3> QED
      BY <3>3
  <2> QED
    BY <1>6, <2>1, <2>2, <2>3
<1> QED
  BY <1>8, FS_Singleton DEF s

(* A source item has one owner: what the source may forget is what the one    *)
(* transfer of the item holds, a binding has the acceptance receipt of its   *)
(* event, and the event has one place in the mailbox or is terminal.         *)
THEOREM OneOwnerOfAnItem == Spec => []OneOwner
<1>1. OwnershipBooks => OneOwner
  <2> SUFFICES ASSUME OwnershipBooks PROVE OneOwner
    OBVIOUS
  <2>1. TransferBooks(host) /\ AcknowledgedBooks
    BY DEF OwnershipBooks
  <2>2. \A a \in acknowledged :
          \E t \in host.transfers : t.source = a.source /\ t.content = a.content
    BY <2>1 DEF AcknowledgedBooks, Held
  <2>3. \A t, u \in host.transfers : t.source = u.source => t = u
    BY <2>1 DEF TransferBooks
  <2>4. {<<t.receipt, t.source>> : t \in {u \in host.transfers : u.kind = "binding"}}
          = {<<i, host.receipts[i].source>> : i \in Accepted}
    <3>1. ASSUME NEW t \in host.transfers, t.kind = "binding"
          PROVE  \E i \in Accepted : <<t.receipt, t.source>> = <<i, host.receipts[i].source>>
      BY <2>1, <3>1 DEF TransferBooks, Accepted
    <3>2. ASSUME NEW i \in Accepted
          PROVE  \E t \in host.transfers : t.kind = "binding"
                   /\ <<t.receipt, t.source>> = <<i, host.receipts[i].source>>
      BY <2>1 DEF TransferBooks, Accepted
    <3> QED
      BY <3>1, <3>2
  <2>5. \A i \in Accepted : Cardinality(Places(host.receipts[i].source)) = 1
    BY PlacedOnce
  <2> QED
    BY <2>2, <2>3, <2>4, <2>5 DEF OneOwner
<1> QED
  BY <1>1, OwnershipInvariant, PTL

(* Owners of a scope commit one after the other, and in a source-ordered     *)
(* scope no item, of a batch neither, overtakes one that is unresolved.       *)
THEOREM FencingIsOrdered == Spec => []FencedInOrder
<1>1. OwnershipBooks => FencedInOrder
  BY DEF OwnershipBooks, TransferBooks, OrderBooks, FencedInOrder
<1> QED
  BY <1>1, OwnershipInvariant, PTL

(* An effect is decided once, and stays as it was decided.                   *)
THEOREM DecisionIsFinal == Spec => []DecidedOnce
<1>1. OwnershipBooks => DecidedOnce
  BY DEF OwnershipBooks
<1> QED
  BY <1>1, OwnershipInvariant, PTL

=============================================================================
