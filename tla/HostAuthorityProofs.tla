------------------------- MODULE HostAuthorityProofs --------------------------
(***************************************************************************)
(* Theorems about HostAuthority, for any sessions, operations, workers,      *)
(* participants and capabilities.                                            *)
(***************************************************************************)
EXTENDS HostAuthority, FiniteSetTheorems, TLAPS

-----------------------------------------------------------------------------
(* Types.                                                                    *)

RequestRow ==
  {r \in [id : DOMAIN Operation, op : {"guarded_commit", "freeze_scope", "fence_worker",
                                       "prove_retirement"},
          epoch : Nat, gen : Nat, worker : Worker, principal : Worker, fence : Nat,
          evidence : Nat] :
     r.op = Operation[r.id]}

ReceiptRow == [request : RequestRow, result : Nat, evidence : Nat]

ClaimRow == [epoch : Nat, fence : Nat, worker : Worker]

Freeze == {NoFreeze} \cup [evidence : Nat, participants : {Participants}]

Members ==
  [kind : {"receipt", "checkpoint", "journal", "participant"},
   identity : DOMAIN Operation \cup Nat \cup {"effect-17"} \cup Participants]

Ledger ==
  [allocated : BOOLEAN, epoch : {Epoch}, gen : Nat,
   state : {"active", "frozen", "retired", "transaction_in_doubt"},
   receipts : Seq(ReceiptRow), mutations : Seq(DOMAIN Operation),
   checkpoints : Seq(DOMAIN Operation), fence : Nat, claims : SUBSET ClaimRow,
   freeze : Freeze, inventory : SUBSET Members,
   grants : SUBSET [freeze : Nat, consumed : BOOLEAN]]

SessionRow ==
  {x \in [phase : {"idle", "ready", "waiting", "guard", "unknown", "resolved"},
          request : {NoRequest} \cup RequestRow,
          told : {None, "committed", "rolled_back"}, open : BOOLEAN] :
     /\ x.phase # "idle" => x.request \in RequestRow
     /\ x.open => x.phase = "unknown"}

AuthorityTypeOK ==
  /\ ledger \in Ledger
  /\ session \in [Session -> SessionRow]
  /\ issued \subseteq ClaimRow
  /\ answers \subseteq [id : DOMAIN Operation, request : RequestRow, gen : Nat]
  /\ calls \in Nat

-----------------------------------------------------------------------------
(* The inductive invariants.                                                 *)

(* The receipts are of distinct operations, and the mutations are those of   *)
(* the commits among them, in their order.                                   *)
RecordsBooks(l) ==
  /\ \A i, j \in DOMAIN l.receipts :
       l.receipts[i].request.id = l.receipts[j].request.id => i = j
  /\ \A k \in DOMAIN l.mutations : \E i \in DOMAIN l.receipts :
       l.receipts[i].request.op = "guarded_commit" /\ l.mutations[k] = l.receipts[i].request.id
  /\ \A i \in DOMAIN l.receipts : l.receipts[i].request.op = "guarded_commit" =>
       \E k \in DOMAIN l.mutations : l.mutations[k] = l.receipts[i].request.id
  /\ \A k, m \in DOMAIN l.mutations, i, j \in DOMAIN l.receipts :
       l.mutations[k] = l.receipts[i].request.id /\ l.mutations[m] = l.receipts[j].request.id
         => (k < m <=> i < j)

(* An inventory lists what the storage holds, and of what is gone since only *)
(* portable checkpoints.                                                     *)
Covered(l) ==
  /\ InventoryOf(l) \subseteq l.inventory
  /\ \A m \in l.inventory \ InventoryOf(l) : m.kind = "checkpoint"

(* A frozen scope's last operation is its freeze, whose evidence is its      *)
(* generation; a grant is for it, and a retirement follows it at once.       *)
FreezeBooks(l) ==
  /\ l.state = "frozen" =>
       /\ Covered(l)
       /\ l.freeze # NoFreeze /\ l.freeze.evidence = l.gen
       /\ l.receipts # <<>> /\ l.receipts[Len(l.receipts)].request.op = "freeze_scope"
  /\ l.state # "retired" => l.grants = {}
  /\ l.state = "retired" => \E g \in l.grants : l.grants = {g}
  /\ \A g \in l.grants :
       /\ g.freeze = l.gen - 1 /\ Len(l.receipts) > 1
       /\ l.receipts[Len(l.receipts) - 1].request.op = "freeze_scope"

(* One session at a time has the guard or a transaction in doubt; an         *)
(* operation in the guard is not on record; a scope is in doubt as long as a *)
(* commit's fate is, and the fate told is the one stored.                    *)
GuardBooks ==
  /\ \A s, t \in Session : Held(s) /\ Held(t) => s = t
  /\ \A s \in Session : session[s].phase = "guard" => ~Recorded(ledger, session[s].request)
  /\ \A s \in Session :
       session[s].phase \in {"unknown", "resolved"} => session[s].request.op = "guarded_commit"
  /\ InDoubt <=> ledger.state = "transaction_in_doubt"
  /\ FateStands

(* Every fence was given out once.                                           *)
ClaimBooks ==
  /\ ledger.claims \subseteq issued
  /\ \A c \in issued : c.fence <= ledger.fence
  /\ \A c, d \in issued : c.epoch = d.epoch /\ c.fence = d.fence => c = d

(* Every answer is what a receipt says, or said before its result expired.   *)
AnswerBooks ==
  /\ \A a \in answers :
       /\ a.id = a.request.id
       /\ \E i \in DOMAIN ledger.receipts :
            /\ ledger.receipts[i].request = a.request
            /\ ledger.receipts[i].result \in {a.gen, 0}
  /\ \A a, b \in answers : a.id = b.id => a = b

AuthorityBooks ==
  /\ AuthorityTypeOK
  /\ RecordsBooks(ledger) /\ FreezeBooks(ledger)
  /\ GuardBooks /\ ClaimBooks /\ AnswerBooks

-----------------------------------------------------------------------------
(* What a request finds, and what it leaves when it is accepted.             *)

(* A request that is not refused finds the scope in the state it needs.      *)
LEMMA Unrefused ==
  ASSUME NEW l, NEW r \in RequestRow, ~Refused(l, r)
  PROVE  /\ r.op # "prove_retirement" => l.state = "active"
         /\ r.op = "prove_retirement" =>
              l.state = "frozen" /\ l.freeze # NoFreeze /\ r.evidence = l.freeze.evidence
<1>1. DOMAIN Refusals(l, r) = 1..7
  BY DEF Refusals
<1>2. ~Refusals(l, r)[4].holds /\ ~Refusals(l, r)[7].holds
  BY <1>1 DEF Refused
<1>3. l.state \in StateFor[r.op]
  BY <1>2 DEF Refusals
<1>4. ~(r.op = "prove_retirement" /\ ~FreezeProved(l, r.evidence))
  BY <1>2 DEF Refusals
<1>5. r.op \in {"guarded_commit", "freeze_scope", "fence_worker", "prove_retirement"}
  BY DEF RequestRow
<1>6. r.op # "prove_retirement" => l.state = "active"
  BY <1>3, <1>5 DEF StateFor
<1>7. r.op = "prove_retirement" => l.state = "frozen"
  BY <1>3 DEF StateFor
<1> QED
  BY <1>4, <1>6, <1>7 DEF FreezeProved

NewReceipt(l, r) == [request |-> r, result |-> l.gen + 1, evidence |-> l.gen + 1]

LEMMA AcceptedLedger ==
  ASSUME NEW l \in Ledger, NEW r \in RequestRow
  PROVE  /\ Accepted(l, r) \in Ledger
         /\ NewReceipt(l, r) \in ReceiptRow
         /\ Accepted(l, r) =
              [l EXCEPT !.gen = l.gen + 1, !.receipts = Append(l.receipts, NewReceipt(l, r))]
<1>1. l.gen + 1 \in Nat
  BY DEF Ledger
<1>2. NewReceipt(l, r) \in ReceiptRow
  BY <1>1 DEF NewReceipt, ReceiptRow
<1>3. Append(l.receipts, NewReceipt(l, r)) \in Seq(ReceiptRow)
  BY <1>2 DEF Ledger
<1>4. Accepted(l, r) =
        [l EXCEPT !.gen = l.gen + 1, !.receipts = Append(l.receipts, NewReceipt(l, r))]
  BY DEF Accepted, NewReceipt, Ledger
<1> QED
  BY <1>1, <1>2, <1>3, <1>4 DEF Ledger

(* The inventory of a storage lists members.                                 *)
LEMMA InventoryMembers ==
  ASSUME NEW l \in Ledger
  PROVE  InventoryOf(l) \in SUBSET Members
<1>1. \A i \in DOMAIN l.receipts : l.receipts[i].request.id \in DOMAIN Operation
  <2>1. \A i \in DOMAIN l.receipts : l.receipts[i] \in ReceiptRow
    BY DEF Ledger
  <2> QED
    BY <2>1 DEF ReceiptRow, RequestRow
<1>2. \A i \in DOMAIN l.checkpoints : i \in Nat
  BY DEF Ledger
<1> QED
  BY <1>1, <1>2 DEF InventoryOf, Member, Members

(* An accepted operation keeps a receipt and changes what is its own.        *)
LEMMA AfterLedger ==
  ASSUME NEW l \in Ledger, NEW r \in RequestRow
  PROVE  /\ After(l, r) \in Ledger
         /\ After(l, r).gen = l.gen + 1
         /\ After(l, r).receipts = Append(l.receipts, NewReceipt(l, r))
         /\ r.op = "guarded_commit" =>
              /\ After(l, r).mutations = Append(l.mutations, r.id)
              /\ After(l, r).state = l.state /\ After(l, r).grants = l.grants
         /\ r.op # "guarded_commit" => After(l, r).mutations = l.mutations
         /\ r.op = "fence_worker" =>
              /\ After(l, r).fence = l.fence + 1 /\ After(l, r).claims = {Claim(l, r)}
              /\ After(l, r).state = l.state /\ After(l, r).grants = l.grants
         /\ r.op # "fence_worker" =>
              After(l, r).fence = l.fence /\ After(l, r).claims = l.claims
         /\ r.op = "freeze_scope" =>
              /\ After(l, r).state = "frozen" /\ After(l, r).grants = l.grants
              /\ After(l, r).freeze = [evidence |-> l.gen + 1, participants |-> Participants]
              /\ After(l, r).inventory = InventoryOf(After(l, r))
         /\ r.op = "prove_retirement" =>
              /\ After(l, r).state = "retired"
              /\ After(l, r).grants = l.grants \cup {[freeze |-> r.evidence, consumed |-> FALSE]}
<1> DEFINE b == Accepted(l, r)
<1>1. /\ b \in Ledger /\ b.gen = l.gen + 1
      /\ b.receipts = Append(l.receipts, NewReceipt(l, r))
      /\ b.mutations = l.mutations /\ b.checkpoints = l.checkpoints /\ b.fence = l.fence
      /\ b.claims = l.claims /\ b.state = l.state /\ b.grants = l.grants
  <2>1. /\ b \in Ledger
        /\ b = [l EXCEPT !.gen = l.gen + 1,
                         !.receipts = Append(l.receipts, NewReceipt(l, r))]
    BY AcceptedLedger
  <2> HIDE DEF b
  <2> QED
    BY <2>1 DEF Ledger
<1>2. /\ r.id \in DOMAIN Operation /\ r.worker \in Worker /\ r.evidence \in Nat
      /\ r.op \in {"guarded_commit", "freeze_scope", "fence_worker", "prove_retirement"}
  BY DEF RequestRow
<1> HIDE DEF b
<1>3. CASE r.op = "guarded_commit"
  <2>1. After(l, r) = [b EXCEPT !.mutations = Append(b.mutations, r.id),
                                !.checkpoints = Append(b.checkpoints, r.id)]
    BY <1>1, <1>3 DEF After, Committed, b, Ledger
  <2>2. /\ Append(b.mutations, r.id) \in Seq(DOMAIN Operation)
        /\ Append(b.checkpoints, r.id) \in Seq(DOMAIN Operation)
    BY <1>1, <1>2 DEF Ledger
  <2> QED
    BY <1>1, <1>3, <2>1, <2>2, ZenonT(60) DEF Ledger
<1>4. CASE r.op = "fence_worker"
  <2>1. After(l, r) = [b EXCEPT !.fence = l.fence + 1, !.claims = {Claim(l, r)}]
    BY <1>4 DEF After, Fenced, b
  <2>2. l.fence + 1 \in Nat /\ Claim(l, r) \in ClaimRow
    BY <1>2 DEF Claim, ClaimRow, Ledger, Epoch
  <2> QED
    <3>1. {Claim(l, r)} \in SUBSET ClaimRow
      BY <2>2
    <3> QED
      BY <1>1, <1>4, <2>1, <2>2, <3>1 DEF Ledger
<1>5. CASE r.op = "freeze_scope"
  <2> DEFINE a == [b EXCEPT !.state = "frozen"]
  <2>1. /\ a \in Ledger /\ a.gen = b.gen /\ a.receipts = b.receipts
        /\ a.checkpoints = b.checkpoints /\ a.mutations = b.mutations /\ a.grants = b.grants
        /\ a.state = "frozen" /\ a.fence = b.fence /\ a.claims = b.claims
    BY <1>1 DEF Ledger
  <2>2. After(l, r) = [a EXCEPT !.inventory = InventoryOf(a),
                         !.freeze = [evidence |-> a.gen, participants |-> Participants]]
    BY <1>5 DEF After, Frozen, b
  <2> HIDE DEF a
  <2>3. InventoryOf(a) \in SUBSET Members
    BY <2>1, InventoryMembers
  <2>4. [evidence |-> a.gen, participants |-> Participants] \in Freeze
    BY <2>1 DEF Freeze, Ledger
  <2>5. /\ After(l, r) \in Ledger /\ After(l, r).receipts = a.receipts
        /\ After(l, r).checkpoints = a.checkpoints /\ After(l, r).mutations = a.mutations
        /\ After(l, r).gen = a.gen /\ After(l, r).grants = a.grants
        /\ After(l, r).state = a.state /\ After(l, r).inventory = InventoryOf(a)
        /\ After(l, r).freeze = [evidence |-> a.gen, participants |-> Participants]
        /\ After(l, r).fence = a.fence /\ After(l, r).claims = a.claims
    BY <2>1, <2>2, <2>3, <2>4 DEF Ledger
  <2>6. InventoryOf(After(l, r)) = InventoryOf(a)
    BY <2>5 DEF InventoryOf
  <2> QED
    BY <1>1, <1>5, <2>1, <2>5, <2>6
<1>6. CASE r.op = "prove_retirement"
  <2> DEFINE grant == [freeze |-> r.evidence, consumed |-> FALSE]
  <2>1. After(l, r) = [b EXCEPT !.state = "retired", !.grants = b.grants \cup {grant}]
    BY <1>1, <1>6 DEF After, Retired, b, Ledger
  <2>2. grant \in [freeze : Nat, consumed : BOOLEAN]
    BY <1>2
  <2> HIDE DEF grant
  <2>3. b.grants \cup {grant} \in SUBSET [freeze : Nat, consumed : BOOLEAN]
    BY <1>1, <2>2 DEF Ledger
  <2> QED
    BY <1>1, <1>6, <2>1, <2>3 DEF Ledger, grant
<1> QED
  BY <1>2, <1>3, <1>4, <1>5, <1>6

(* The receipts of the ledger after an operation: its own is the last.       *)
LEMMA AppendedReceipt ==
  ASSUME NEW l \in Ledger, NEW r \in RequestRow,
         NEW q, q = Append(l.receipts, NewReceipt(l, r))
  PROVE  /\ \A i \in DOMAIN l.receipts : i \in DOMAIN q /\ q[i] = l.receipts[i]
                                        /\ i < Len(q) /\ i \in Nat
         /\ \A i \in DOMAIN q : i \in DOMAIN l.receipts \/ i = Len(q)
         /\ Len(q) \in DOMAIN q /\ q[Len(q)].request = r /\ q[Len(q)].result = l.gen + 1
         /\ Len(q) \in Nat /\ Len(q) = Len(l.receipts) + 1
<1>1. l.receipts \in Seq(ReceiptRow) /\ NewReceipt(l, r) \in ReceiptRow
  BY AcceptedLedger DEF Ledger
<1>2. NewReceipt(l, r).request = r /\ NewReceipt(l, r).result = l.gen + 1
  BY DEF NewReceipt
<1> QED
  BY <1>1, <1>2

LEMMA AfterRecords ==
  ASSUME NEW l \in Ledger, NEW r \in RequestRow, ~Recorded(l, r), RecordsBooks(l)
  PROVE  RecordsBooks(After(l, r))
<1> DEFINE old == l.receipts
           q == After(l, r).receipts
           m == l.mutations
           n == After(l, r).mutations
           Id(i) == old[i].request.id
<1>1. q = Append(old, NewReceipt(l, r))
  BY AfterLedger
<1>2. /\ \A i \in DOMAIN old : i \in DOMAIN q /\ q[i] = old[i] /\ i < Len(q) /\ i \in Nat
      /\ \A i \in DOMAIN q : i \in DOMAIN old \/ i = Len(q)
      /\ Len(q) \in DOMAIN q /\ q[Len(q)].request = r /\ Len(q) \in Nat
  BY <1>1, AppendedReceipt
<1>3. \A i \in DOMAIN old : old[i].request.id # r.id
  BY DEF Recorded, Receipts
<1>4. /\ \A i, j \in DOMAIN old : old[i].request.id = old[j].request.id => i = j
      /\ \A k \in DOMAIN m : \E i \in DOMAIN old :
           old[i].request.op = "guarded_commit" /\ m[k] = old[i].request.id
      /\ \A i \in DOMAIN old : old[i].request.op = "guarded_commit" =>
           \E k \in DOMAIN m : m[k] = old[i].request.id
      /\ \A k, h \in DOMAIN m, i, j \in DOMAIN old :
           m[k] = old[i].request.id /\ m[h] = old[j].request.id => (k < h <=> i < j)
  BY DEF RecordsBooks
<1>5. \A k \in DOMAIN m : m[k] # r.id
  BY <1>3, <1>4
<1>6. \A i, j \in DOMAIN q : q[i].request.id = q[j].request.id => i = j
  <2> HIDE DEF old, q
  <2> QED
    BY <1>2, <1>3, <1>4
<1>7. CASE r.op # "guarded_commit"
  <2>1. n = m
    BY <1>7, AfterLedger
  <2> HIDE DEF old, q, m, n
  <2>2. \A k \in DOMAIN n : \E i \in DOMAIN q :
          q[i].request.op = "guarded_commit" /\ n[k] = q[i].request.id
    BY <1>2, <1>4, <2>1
  <2>3. \A i \in DOMAIN q : q[i].request.op = "guarded_commit" =>
          \E k \in DOMAIN n : n[k] = q[i].request.id
    BY <1>2, <1>4, <1>7, <2>1
  <2>4. \A k, h \in DOMAIN n, i, j \in DOMAIN q :
          n[k] = q[i].request.id /\ n[h] = q[j].request.id => (k < h <=> i < j)
    <3>1. \A k \in DOMAIN n, i \in DOMAIN q : n[k] = q[i].request.id => i \in DOMAIN old
      BY <1>2, <1>5, <2>1
    <3> QED
      BY <1>2, <1>4, <2>1, <3>1
  <2> QED
    BY <1>6, <2>2, <2>3, <2>4 DEF RecordsBooks, q, n
<1>8. CASE r.op = "guarded_commit"
  <2>1. n = Append(m, r.id) /\ m \in Seq(DOMAIN Operation) /\ r.id \in DOMAIN Operation
    BY <1>8, AfterLedger DEF Ledger, RequestRow
  <2>2. /\ \A k \in DOMAIN m : k \in DOMAIN n /\ n[k] = m[k] /\ k < Len(n) /\ k \in Nat
        /\ \A k \in DOMAIN n : k \in DOMAIN m \/ k = Len(n)
        /\ Len(n) \in DOMAIN n /\ n[Len(n)] = r.id /\ Len(n) \in Nat
    <3> HIDE DEF m, n
    <3> QED
      BY <2>1
  <2> HIDE DEF old, q, m, n
  <2>3. \A k \in DOMAIN n : \E i \in DOMAIN q :
          q[i].request.op = "guarded_commit" /\ n[k] = q[i].request.id
    <3> TAKE k \in DOMAIN n
    <3>1. CASE k \in DOMAIN m
      BY <1>2, <1>4, <2>2, <3>1
    <3>2. CASE k = Len(n)
      BY <1>2, <1>8, <2>2, <3>2
    <3> QED
      BY <2>2, <3>1, <3>2
  <2>4. \A i \in DOMAIN q : q[i].request.op = "guarded_commit" =>
          \E k \in DOMAIN n : n[k] = q[i].request.id
    BY <1>2, <1>4, <2>2
  <2>5. \A k, h \in DOMAIN n, i, j \in DOMAIN q :
          n[k] = q[i].request.id /\ n[h] = q[j].request.id => (k < h <=> i < j)
    <3>1. \A k \in DOMAIN n, i \in DOMAIN q : n[k] = q[i].request.id =>
            \/ k \in DOMAIN m /\ i \in DOMAIN old /\ m[k] = old[i].request.id
            \/ k = Len(n) /\ i = Len(q)
      BY <1>2, <1>3, <1>5, <2>2
    <3> QED
      BY <1>2, <1>4, <2>2, <3>1
  <2> QED
    BY <1>6, <2>3, <2>4, <2>5 DEF RecordsBooks, q, n
<1> QED
  BY <1>7, <1>8

LEMMA AfterFreeze ==
  ASSUME NEW l \in Ledger, NEW r \in RequestRow, ~Refused(l, r), FreezeBooks(l)
  PROVE  FreezeBooks(After(l, r))
<1> DEFINE a == After(l, r)
<1>1. /\ a \in Ledger /\ a.gen = l.gen + 1
      /\ a.receipts = Append(l.receipts, NewReceipt(l, r))
  BY AfterLedger
<1>2. /\ Len(a.receipts) \in DOMAIN a.receipts /\ a.receipts[Len(a.receipts)].request = r
      /\ Len(a.receipts) = Len(l.receipts) + 1 /\ a.receipts # <<>>
      /\ \A i \in DOMAIN l.receipts : a.receipts[i] = l.receipts[i]
  <2>1. l.receipts \in Seq(ReceiptRow) /\ NewReceipt(l, r) \in ReceiptRow
    BY AcceptedLedger DEF Ledger
  <2> QED
    BY <1>1, <2>1, AppendedReceipt
<1>3. r.op \in {"guarded_commit", "freeze_scope", "fence_worker", "prove_retirement"}
  BY DEF RequestRow
<1>4. CASE r.op \in {"guarded_commit", "fence_worker"}
  <2>1. a.state = "active" /\ a.grants = l.grants /\ l.grants = {}
    <3>1. l.state = "active" /\ l.grants = {}
      BY <1>4, Unrefused DEF FreezeBooks
    <3>2. a.state = l.state /\ a.grants = l.grants
      BY <1>4, AfterLedger
    <3> QED
      BY <3>1, <3>2
  <2> QED
    BY <2>1 DEF FreezeBooks
<1>5. CASE r.op = "freeze_scope"
  <2>1. /\ a.state = "frozen" /\ a.grants = {}
        /\ a.freeze = [evidence |-> l.gen + 1, participants |-> Participants]
        /\ a.inventory = InventoryOf(a)
    BY <1>5, AfterLedger, Unrefused DEF FreezeBooks
  <2>2. a.freeze # NoFreeze /\ a.freeze.evidence = a.gen
    <3>1. l.gen + 1 \in Nat /\ l.gen + 1 # 0
      BY DEF Ledger
    <3> QED
      BY <1>1, <2>1, <3>1 DEF NoFreeze
  <2> HIDE DEF a
  <2>3. FreezeBooks(a)
    BY <1>2, <1>5, <2>1, <2>2 DEF FreezeBooks, Covered
  <2> QED
    BY <2>3 DEF a
<1>6. CASE r.op = "prove_retirement"
  <2> DEFINE grant == [freeze |-> r.evidence, consumed |-> FALSE]
  <2>1. l.state = "frozen" /\ r.evidence = l.freeze.evidence
    BY <1>6, Unrefused
  <2>2. a.state = "retired" /\ a.grants = l.grants \cup {grant}
    BY <1>6, AfterLedger
  <2>3. /\ l.grants = {} /\ r.evidence = l.gen /\ l.gen \in Nat
        /\ l.receipts # <<>> /\ l.receipts[Len(l.receipts)].request.op = "freeze_scope"
    BY <2>1 DEF FreezeBooks, Ledger
  <2>4. a.grants = {grant} /\ grant.freeze = a.gen - 1
    BY <1>1, <2>2, <2>3
  <2>5. l.receipts \in Seq(ReceiptRow)
    BY DEF Ledger
  <2>6. Len(l.receipts) \in DOMAIN l.receipts /\ Len(l.receipts) \in Nat /\ Len(l.receipts) > 0
    BY <2>3, <2>5
  <2> HIDE DEF a, grant
  <2>7. /\ Len(a.receipts) > 1 /\ Len(a.receipts) - 1 = Len(l.receipts)
        /\ a.receipts[Len(a.receipts) - 1].request.op = "freeze_scope"
    BY <1>2, <2>3, <2>6
  <2>8. FreezeBooks(a)
    BY <2>2, <2>4, <2>7 DEF FreezeBooks
  <2> QED
    BY <2>8 DEF a
<1> QED
  BY <1>3, <1>4, <1>5, <1>6

-----------------------------------------------------------------------------
(* What the steps keep, part by part.                                        *)

LEMMA SessionFields ==
  ASSUME AuthorityTypeOK, NEW s \in Session
  PROVE  /\ session[s] \in SessionRow
         /\ session[s].phase # "idle" => session[s].request \in RequestRow
         /\ session[s].phase \in {"idle", "ready", "waiting", "guard", "unknown", "resolved"}
         /\ session[s].request \in {NoRequest} \cup RequestRow
  BY DEF AuthorityTypeOK, SessionRow

(* Changing fields of one session gives a session.                           *)
LEMMA SessionStep ==
  ASSUME AuthorityTypeOK, NEW s \in Session, NEW x \in SessionRow,
         session' = [session EXCEPT ![s] = x]
  PROVE  /\ session' \in [Session -> SessionRow]
         /\ \A t \in Session : session'[t] = IF t = s THEN x ELSE session[t]
  BY DEF AuthorityTypeOK

InDoubtPhases == {"unknown", "resolved"}

(* The guard's books when one session moves on.                              *)
LEMMA GuardMove ==
  ASSUME AuthorityTypeOK, GuardBooks, NEW s \in Session, NEW x \in SessionRow,
         session' = [session EXCEPT ![s] = x],
         x.phase \in {"guard", "unknown", "resolved"} => Held(s) \/ GuardFree,
         ~Held(s) => \A q : Recorded(ledger', q) <=> Recorded(ledger, q),
         x.phase = "guard" => ~Recorded(ledger', x.request),
         x.phase \in InDoubtPhases => x.request.op = "guarded_commit",
         x.phase = "resolved" =>
           x.told = IF Recorded(ledger', x.request) THEN "committed" ELSE "rolled_back",
         ledger'.state = "transaction_in_doubt" <=>
           \/ x.phase \in InDoubtPhases
           \/ \E t \in Session \ {s} : session[t].phase \in InDoubtPhases
  PROVE  GuardBooks'
<1>1. \A t \in Session : session'[t] = IF t = s THEN x ELSE session[t]
  BY SessionStep
<1>2. \A t, u \in Session : Held(t) /\ Held(u) => t = u
  BY DEF GuardBooks
<1>3. \A t \in Session \ {s} :
        session[t].phase \in {"guard", "unknown", "resolved"} =>
          /\ ~Held(s) /\ x.phase \notin {"guard", "unknown", "resolved"}
          /\ \A q : Recorded(ledger', q) <=> Recorded(ledger, q)
  BY <1>2 DEF Held, GuardFree
<1>4. \A t, u \in Session : Held(t)' /\ Held(u)' => t = u
  BY <1>1, <1>2, <1>3 DEF Held
<1>5. \A t \in Session : session'[t].phase = "guard" => ~Recorded(ledger', session'[t].request)
  BY <1>1, <1>3 DEF GuardBooks
<1>6. \A t \in Session :
        session'[t].phase \in {"unknown", "resolved"} => session'[t].request.op = "guarded_commit"
  BY <1>1 DEF GuardBooks, InDoubtPhases
<1>7. InDoubt' <=> ledger'.state = "transaction_in_doubt"
  BY <1>1 DEF InDoubt, InDoubtPhases
<1>8. FateStands'
  <2> SUFFICES ASSUME NEW t \in Session, session'[t].phase = "resolved"
               PROVE  session'[t].told = StoredFate(session[t].request)'
    BY DEF FateStands
  <2>1. CASE t = s
    BY <1>1, <2>1 DEF StoredFate
  <2>2. CASE t # s
    <3>1. session'[t] = session[t] /\ session[t].phase = "resolved"
      BY <1>1, <2>2
    <3>2. session[t].told = StoredFate(session[t].request)
      BY <3>1 DEF GuardBooks, FateStands
    <3> QED
      BY <1>3, <2>2, <3>1, <3>2 DEF StoredFate
  <2> QED
    BY <2>1, <2>2
<1> QED
  BY <1>4, <1>5, <1>6, <1>7, <1>8 DEF GuardBooks

(* Answers stay true as long as receipts do, or expire.                      *)
LEMMA AnswersKept ==
  ASSUME AnswerBooks, answers' = answers,
         \A i \in DOMAIN ledger.receipts :
           /\ i \in DOMAIN ledger'.receipts
           /\ ledger'.receipts[i].request = ledger.receipts[i].request
           /\ ledger'.receipts[i].result \in {ledger.receipts[i].result, 0}
  PROVE  AnswerBooks'
<1>1. ASSUME NEW a \in answers
      PROVE  \E i \in DOMAIN ledger'.receipts :
               /\ ledger'.receipts[i].request = a.request
               /\ ledger'.receipts[i].result \in {a.gen, 0}
  <2>1. PICK i \in DOMAIN ledger.receipts :
          /\ ledger.receipts[i].request = a.request
          /\ ledger.receipts[i].result \in {a.gen, 0}
    BY DEF AnswerBooks
  <2> QED
    BY <2>1
<1> QED
  BY <1>1 DEF AnswerBooks

(* Answers, claims and records where the ledger stays as it is.              *)
LEMMA LedgerIdle ==
  ASSUME AuthorityBooks, UNCHANGED <<ledger, issued, answers>>
  PROVE  RecordsBooks(ledger') /\ FreezeBooks(ledger') /\ ClaimBooks' /\ AnswerBooks'
  BY DEF AuthorityBooks, ClaimBooks, AnswerBooks

(* The state alone changes: into doubt, or out of it.                        *)
LEMMA StateChange ==
  ASSUME AuthorityBooks, NEW x \in {"active", "transaction_in_doubt"},
         ledger.state # "retired", ledger' = [ledger EXCEPT !.state = x],
         UNCHANGED <<issued, answers>>
  PROVE  /\ ledger' \in Ledger /\ ledger'.state = x
         /\ \A q : Recorded(ledger', q) <=> Recorded(ledger, q)
         /\ RecordsBooks(ledger') /\ FreezeBooks(ledger') /\ ClaimBooks' /\ AnswerBooks'
<1>1. /\ ledger' \in Ledger /\ ledger'.state = x /\ ledger'.receipts = ledger.receipts
      /\ ledger'.mutations = ledger.mutations /\ ledger'.grants = ledger.grants
      /\ ledger'.fence = ledger.fence /\ ledger'.claims = ledger.claims
  BY DEF AuthorityBooks, AuthorityTypeOK, Ledger
<1>2. \A q : Recorded(ledger', q) <=> Recorded(ledger, q)
  BY <1>1 DEF Recorded, Receipts
<1>3. RecordsBooks(ledger')
  BY <1>1 DEF AuthorityBooks, RecordsBooks
<1>4. FreezeBooks(ledger')
  BY <1>1 DEF AuthorityBooks, FreezeBooks
<1>5. ClaimBooks' /\ AnswerBooks'
  BY <1>1 DEF AuthorityBooks, ClaimBooks, AnswerBooks
<1> QED
  BY <1>1, <1>2, <1>3, <1>4, <1>5

-----------------------------------------------------------------------------
(* The steps.                                                                *)

LEMMA AuthorityInit == Init => AuthorityBooks
<1> SUFFICES ASSUME Init PROVE AuthorityBooks
  OBVIOUS
<1>1. (CHOOSE w \in Worker : TRUE) \in Worker
  BY WorkerAssumption
<1>2. FirstLedger \in Ledger
  <2>1. NoFreeze \in Freeze
    BY DEF Freeze
  <2>2. <<>> \in Seq(ReceiptRow) /\ <<>> \in Seq(DOMAIN Operation)
    OBVIOUS
  <2> QED
    BY <2>1, <2>2 DEF FirstLedger, Ledger, Epoch, Generation0, Fence0
<1>3. Idle \in SessionRow
  BY DEF Idle, SessionRow
<1>4. AuthorityTypeOK
  <2>1. issued \subseteq ClaimRow
    BY <1>1 DEF Init, ClaimRow, Epoch, OldEpoch, Fence0
  <2> QED
    BY <1>2, <1>3, <2>1 DEF Init, AuthorityTypeOK
<1>5. RecordsBooks(ledger) /\ FreezeBooks(ledger)
  BY DEF Init, FirstLedger, RecordsBooks, FreezeBooks
<1>6. GuardBooks
  BY DEF Init, GuardBooks, Held, InDoubt, FateStands, Idle, FirstLedger
<1>7. ClaimBooks /\ AnswerBooks
  <2>1. \A c \in issued : \E e \in {Epoch, OldEpoch} :
          c = [epoch |-> e, fence |-> Fence0, worker |-> CHOOSE w \in Worker : TRUE]
    BY DEF Init
  <2>2. /\ \A c \in issued : c.fence <= Fence0
        /\ \A c, d \in issued : c.epoch = d.epoch => c = d
    <3>1. \A c \in issued : /\ c.fence = Fence0
                            /\ c = [epoch |-> c.epoch, fence |-> Fence0,
                                    worker |-> CHOOSE w \in Worker : TRUE]
      BY <2>1
    <3>2. \A c, d \in issued : c.epoch = d.epoch => c = d
      BY <3>1
    <3> QED
      BY <3>1, <3>2 DEF Fence0
  <2>3. ledger.fence = Fence0 /\ ledger.claims = {} /\ answers = {}
    BY DEF Init, FirstLedger
  <2> QED
    BY <2>2, <2>3 DEF ClaimBooks, AnswerBooks
<1> QED
  BY <1>4, <1>5, <1>6, <1>7 DEF AuthorityBooks

(* Scope in doubt: which sessions.                                           *)
LEMMA DoubtOf ==
  ASSUME GuardBooks, NEW s \in Session
  PROVE  ledger.state = "transaction_in_doubt" <=>
           \/ session[s].phase \in InDoubtPhases
           \/ \E t \in Session \ {s} : session[t].phase \in InDoubtPhases
  BY DEF GuardBooks, InDoubt, InDoubtPhases

(* A session moves on, nothing is written and nothing answered.              *)
LEMMA QuietMove ==
  ASSUME AuthorityBooks, NEW s \in Session, NEW x \in SessionRow,
         session' = [session EXCEPT ![s] = x], UNCHANGED <<ledger, issued, answers>>,
         calls' \in Nat,
         session[s].phase \notin InDoubtPhases, x.phase \notin InDoubtPhases,
         x.phase = "guard" => GuardFree /\ ~Recorded(ledger, x.request)
  PROVE  AuthorityBooks'
<1>1. AuthorityTypeOK'
  BY SessionStep DEF AuthorityBooks, AuthorityTypeOK
<1>2. GuardBooks'
  BY DoubtOf, GuardMove DEF AuthorityBooks, InDoubtPhases
<1> QED
  BY <1>1, <1>2, LedgerIdle DEF AuthorityBooks

LEMMA PrepareKeepsBooks ==
  ASSUME AuthorityBooks, NEW s \in Session, Prepare(s) \/ Resend(s)
  PROVE  AuthorityBooks'
<1>1. /\ session[s].phase = "idle" /\ calls' \in Nat /\ UNCHANGED <<ledger, issued, answers>>
  BY DEF Prepare, Resend, AuthorityBooks, AuthorityTypeOK
<1>2. session \in [Session -> SessionRow] /\ session[s] \in SessionRow
  BY DEF AuthorityBooks, AuthorityTypeOK
<1>3. PICK x \in SessionRow : session' = [session EXCEPT ![s] = x] /\ x.phase = "ready"
  <2>1. CASE Prepare(s)
    <3>1. PICK r \in Requests :
            session' = [session EXCEPT ![s].phase = "ready", ![s].request = r]
      BY <2>1 DEF Prepare
    <3>2. r \in RequestRow
      <4>1. ledger.gen \in Nat /\ ledger.fence \in Nat /\ ledger.freeze.evidence \in Nat
        BY DEF AuthorityBooks, AuthorityTypeOK, Ledger, Freeze, NoFreeze
      <4>2. PICK id \in DOMAIN Operation, epoch \in {Epoch, OldEpoch}, w \in Worker,
                 p \in Worker, e \in {0, ledger.freeze.evidence} :
              r = [id |-> id, op |-> Operation[id], epoch |-> epoch, gen |-> ledger.gen,
                   worker |-> w, principal |-> p, fence |-> ledger.fence, evidence |-> e]
        BY DEF Requests
      <4>3. epoch \in Nat /\ e \in Nat
        BY <4>1 DEF Epoch, OldEpoch
      <4> QED
        BY <4>1, <4>2, <4>3, OperationAssumption DEF RequestRow
    <3>3. [session[s] EXCEPT !.phase = "ready", !.request = r] \in SessionRow
      BY <1>1, <1>2, <3>2 DEF SessionRow
    <3>4. session' = [session EXCEPT ![s] = [session[s] EXCEPT !.phase = "ready",
                                                              !.request = r]]
      BY <1>2, <3>1
    <3>5. [session[s] EXCEPT !.phase = "ready", !.request = r].phase = "ready"
      BY <1>2 DEF SessionRow
    <3> QED
      BY <3>3, <3>4, <3>5
  <2>2. CASE Resend(s)
    <3>1. session[s].request \in RequestRow
      BY <1>2, <2>2 DEF Resend, SessionRow
    <3>2. session' = [session EXCEPT ![s] = [session[s] EXCEPT !.phase = "ready"]]
      BY <1>2, <2>2 DEF Resend
    <3>3. /\ [session[s] EXCEPT !.phase = "ready"] \in SessionRow
          /\ [session[s] EXCEPT !.phase = "ready"].phase = "ready"
      BY <1>1, <1>2, <3>1 DEF SessionRow
    <3> QED
      BY <3>2, <3>3
  <2> QED
    BY <2>1, <2>2
<1> QED
  BY <1>1, <1>3, QuietMove DEF InDoubtPhases

(* The session after its phase alone changed.                                *)
LEMMA PhaseStep ==
  ASSUME AuthorityTypeOK, NEW s \in Session,
         NEW ph \in {"idle", "ready", "waiting", "guard", "unknown", "resolved"},
         session[s].phase \in {"ready", "waiting", "guard"},
         session' = [session EXCEPT ![s].phase = ph]
  PROVE  \E x \in SessionRow :
           /\ session' = [session EXCEPT ![s] = x]
           /\ x.phase = ph /\ x.request = session[s].request
<1>1. session \in [Session -> SessionRow] /\ session[s] \in SessionRow
  BY DEF AuthorityTypeOK
<1>2. session' = [session EXCEPT ![s] = [session[s] EXCEPT !.phase = ph]]
  BY <1>1
<1>3. /\ [session[s] EXCEPT !.phase = ph] \in SessionRow
      /\ [session[s] EXCEPT !.phase = ph].phase = ph
      /\ [session[s] EXCEPT !.phase = ph].request = session[s].request
  BY <1>1 DEF SessionRow
<1> QED
  BY <1>2, <1>3

LEMMA AbortKeepsBooks ==
  ASSUME AuthorityBooks, NEW s \in Session, AbortBeforeCommit(s)
  PROVE  AuthorityBooks'
<1>1. /\ session[s].phase = "guard" /\ session' = [session EXCEPT ![s].phase = "idle"]
      /\ UNCHANGED <<ledger, issued, answers, calls>>
  BY DEF AbortBeforeCommit, End
<1>2. PICK x \in SessionRow : session' = [session EXCEPT ![s] = x] /\ x.phase = "idle"
  BY <1>1, PhaseStep DEF AuthorityBooks
<1> QED
  BY <1>1, <1>2, QuietMove DEF InDoubtPhases, AuthorityBooks, AuthorityTypeOK

(* An answer from a receipt is the one already given.                        *)
LEMMA AnswerKeepsBooks ==
  ASSUME AuthorityBooks, NEW s \in Session, session[s].phase \in {"ready", "waiting"},
         AnswerFromReceipt(s), UNCHANGED <<issued, calls>>
  PROVE  AuthorityBooks'
<1> DEFINE r == session[s].request
           kept == Receipt(ledger, r)
<1>1. /\ Recorded(ledger, r) /\ ledger' = ledger
      /\ session' = [session EXCEPT ![s].phase = "idle"]
  BY DEF AnswerFromReceipt, End
<1>2. PICK x \in SessionRow : session' = [session EXCEPT ![s] = x] /\ x.phase = "idle"
  BY <1>1, PhaseStep DEF AuthorityBooks
<1>3. GuardBooks'
  BY <1>1, <1>2, DoubtOf, GuardMove DEF AuthorityBooks, InDoubtPhases
<1>4. r \in RequestRow
  BY SessionFields DEF AuthorityBooks
<1>5. PICK i \in DOMAIN ledger.receipts : kept = ledger.receipts[i]
  <2>1. Receipts(ledger, r.id) # {}
    BY <1>1 DEF Recorded
  <2>2. (CHOOSE i \in Receipts(ledger, r.id) : TRUE) \in Receipts(ledger, r.id)
    BY <2>1
  <2> QED
    BY <2>2 DEF Receipt, Receipts
<1>6. kept.result \in Nat
  <2>1. kept \in ReceiptRow
    BY <1>5 DEF AuthorityBooks, AuthorityTypeOK, Ledger
  <2> QED
    BY <2>1 DEF ReceiptRow
<1>7. CASE kept.request = r /\ kept.result # 0 /\ Answer(r, kept.result)
  <2> DEFINE a == [id |-> r.id, request |-> r, gen |-> kept.result]
  <2>1. answers' = answers \cup {a}
    BY <1>7 DEF Answer
  <2>2. a \in [id : DOMAIN Operation, request : RequestRow, gen : Nat]
    BY <1>4, <1>6 DEF RequestRow
  <2>3. AuthorityTypeOK'
    BY <1>1, <1>2, <2>1, <2>2, SessionStep DEF AuthorityBooks, AuthorityTypeOK
  <2>4. \A b \in answers : b.id = r.id => b = a
    <3> SUFFICES ASSUME NEW b \in answers, b.id = r.id PROVE b = a
      OBVIOUS
    <3>1. PICK j \in DOMAIN ledger.receipts :
            ledger.receipts[j].request = b.request /\ ledger.receipts[j].result \in {b.gen, 0}
      BY DEF AuthorityBooks, AnswerBooks
    <3>2. b.request.id = r.id
      BY DEF AuthorityBooks, AnswerBooks
    <3>3. j = i
      BY <1>5, <1>7, <3>1, <3>2 DEF AuthorityBooks, RecordsBooks
    <3>4. b.request = r /\ b.gen = kept.result
      BY <1>5, <1>7, <3>1, <3>3
    <3>5. b \in [id : DOMAIN Operation, request : RequestRow, gen : Nat]
      BY DEF AuthorityBooks, AuthorityTypeOK
    <3> HIDE DEF r, kept
    <3> QED
      BY <3>4, <3>5
  <2>5. AnswerBooks'
    <3>1. \E j \in DOMAIN ledger.receipts :
            ledger.receipts[j].request = a.request /\ ledger.receipts[j].result \in {a.gen, 0}
      BY <1>5, <1>7
    <3>2. a.id = a.request.id
      OBVIOUS
    <3>3. \A b \in answers : b.id = a.id => b = a
      BY <2>4
    <3> HIDE DEF a
    <3> QED
      BY <1>1, <2>1, <3>1, <3>2, <3>3 DEF AuthorityBooks, AnswerBooks
  <2> QED
    BY <1>1, <1>3, <2>3, <2>5 DEF AuthorityBooks, ClaimBooks
<1>8. CASE UNCHANGED answers
  <2>1. AuthorityTypeOK'
    BY <1>1, <1>2, <1>8, SessionStep DEF AuthorityBooks, AuthorityTypeOK
  <2> QED
    BY <1>1, <1>3, <1>8, <2>1, LedgerIdle DEF AuthorityBooks
<1> QED
  BY <1>7, <1>8 DEF AnswerFromReceipt, SameBytes

LEMMA EnterGuardKeepsBooks ==
  ASSUME AuthorityBooks, NEW s \in Session, session[s].phase \in {"ready", "waiting"},
         EnterGuard(s), UNCHANGED <<issued, calls>>
  PROVE  AuthorityBooks'
<1>1. session[s].phase # "idle" /\ calls' \in Nat /\ answers' = answers
  BY DEF AuthorityBooks, AuthorityTypeOK, EnterGuard, RefuseInDoubt
<1>2. ~Recorded(ledger, session[s].request)
  BY DEF EnterGuard
<1>3. ledger' = ledger
  <2>1. CASE RefuseInDoubt(s)
    <3>1. ledger.state = "transaction_in_doubt" /\ ledger \in Ledger
      BY <2>1 DEF RefuseInDoubt, AuthorityBooks, GuardBooks, AuthorityTypeOK
    <3> QED
      BY <2>1, <3>1 DEF RefuseInDoubt, Ledger
  <2>2. CASE ~RefuseInDoubt(s)
    BY <2>2 DEF EnterGuard
  <2> QED
    BY <2>1, <2>2
<1>4. \E ph \in {"idle", "waiting", "guard"} :
        session' = [session EXCEPT ![s].phase = ph] /\ (ph = "guard" => GuardFree)
  BY DEF EnterGuard, RefuseInDoubt, End
<1>5. PICK ph \in {"idle", "waiting", "guard"} :
        session' = [session EXCEPT ![s].phase = ph] /\ (ph = "guard" => GuardFree)
  BY <1>4
<1>6. PICK x \in SessionRow :
        /\ session' = [session EXCEPT ![s] = x]
        /\ x.phase = ph /\ x.request = session[s].request
  <2>1. ph \in {"idle", "ready", "waiting", "guard", "unknown", "resolved"}
    OBVIOUS
  <2> QED
    BY <1>1, <1>5, <2>1, PhaseStep DEF AuthorityBooks
<1> QED
  BY <1>1, <1>2, <1>3, <1>5, <1>6, QuietMove DEF InDoubtPhases

(* The claims after an operation: the fence it gave out is new.              *)
LEMMA AfterClaims ==
  ASSUME NEW l \in Ledger, NEW r \in RequestRow, NEW given \in SUBSET ClaimRow,
         l.claims \subseteq given, \A c \in given : c.fence <= l.fence,
         \A c, d \in given : c.epoch = d.epoch /\ c.fence = d.fence => c = d
  PROVE  /\ given \cup After(l, r).claims \subseteq ClaimRow
         /\ \A c \in given \cup After(l, r).claims : c.fence <= After(l, r).fence
         /\ \A c, d \in given \cup After(l, r).claims :
              c.epoch = d.epoch /\ c.fence = d.fence => c = d
<1>1. l.fence \in Nat /\ \A c \in given : c.fence \in Nat
  BY DEF Ledger, ClaimRow
<1>2. CASE r.op # "fence_worker"
  <2>1. After(l, r).claims = l.claims /\ After(l, r).fence = l.fence
    BY <1>2, AfterLedger
  <2>2. given \cup After(l, r).claims = given
    BY <2>1
  <2> QED
    BY <2>1, <2>2
<1>3. CASE r.op = "fence_worker"
  <2>1. After(l, r).claims = {Claim(l, r)} /\ After(l, r).fence = l.fence + 1
    BY <1>3, AfterLedger
  <2>2. Claim(l, r) \in ClaimRow /\ Claim(l, r).fence = l.fence + 1
    BY <1>1 DEF Claim, ClaimRow, RequestRow, Ledger, Epoch
  <2>3. \A c \in given : c.fence < l.fence + 1
    BY <1>1
  <2> DEFINE n == Claim(l, r)
             a == After(l, r)
  <2> HIDE DEF n, a
  <2>4. /\ a.claims = {n} /\ a.fence = l.fence + 1 /\ n \in ClaimRow /\ n.fence = l.fence + 1
    BY <2>1, <2>2 DEF n, a
  <2>5. /\ given \cup a.claims \subseteq ClaimRow
        /\ \A c \in given \cup a.claims : c.fence <= a.fence
        /\ \A c, d \in given \cup a.claims : c.epoch = d.epoch /\ c.fence = d.fence => c = d
    BY <1>1, <2>3, <2>4
  <2> QED
    BY <2>5 DEF a
<1> QED
  BY <1>2, <1>3

LEMMA RunKeepsBooks ==
  ASSUME AuthorityBooks, NEW s \in Session, RunGuarded(s)
  PROVE  AuthorityBooks'
<1> DEFINE r == session[s].request
           after == After(ledger, r)
<1>1. /\ session[s].phase = "guard" /\ session' = [session EXCEPT ![s].phase = "idle"]
      /\ calls' = calls
  BY DEF RunGuarded, End
<1>2. PICK x \in SessionRow : session' = [session EXCEPT ![s] = x] /\ x.phase = "idle"
  BY <1>1, PhaseStep DEF AuthorityBooks
<1>3. /\ ledger \in Ledger /\ r \in RequestRow /\ calls' \in Nat
      /\ issued \in SUBSET ClaimRow
      /\ answers \subseteq [id : DOMAIN Operation, request : RequestRow, gen : Nat]
  BY <1>1, SessionFields DEF AuthorityBooks, AuthorityTypeOK
<1>4. CASE UNCHANGED <<ledger, issued, answers>>
  BY <1>1, <1>2, <1>3, <1>4, QuietMove DEF InDoubtPhases
<1>5. CASE /\ ~Refused(ledger, r) /\ ledger' = after /\ issued' = issued \cup after.claims
           /\ Answer(r, after.gen) \/ UNCHANGED answers
  <2> DEFINE a == [id |-> r.id, request |-> r, gen |-> after.gen]
  <2>1. ~Recorded(ledger, r)
    BY <1>1 DEF AuthorityBooks, GuardBooks
  <2>2. ledger' \in Ledger /\ RecordsBooks(ledger') /\ FreezeBooks(ledger')
    BY <1>3, <1>5, <2>1, AfterLedger, AfterRecords, AfterFreeze DEF AuthorityBooks
  <2>3. issued' \subseteq ClaimRow /\ ClaimBooks'
    <3>1. /\ ledger.claims \subseteq issued
          /\ \A c \in issued : c.fence <= ledger.fence
          /\ \A c, d \in issued : c.epoch = d.epoch /\ c.fence = d.fence => c = d
      BY DEF AuthorityBooks, ClaimBooks
    <3> HIDE DEF r
    <3>2. /\ issued' \subseteq ClaimRow
          /\ \A c \in issued' : c.fence <= after.fence
          /\ \A c, d \in issued' : c.epoch = d.epoch /\ c.fence = d.fence => c = d
      <4>1. /\ issued \cup after.claims \subseteq ClaimRow
            /\ \A c \in issued \cup after.claims : c.fence <= after.fence
            /\ \A c, d \in issued \cup after.claims :
                 c.epoch = d.epoch /\ c.fence = d.fence => c = d
        BY <1>3, <3>1, AfterClaims
      <4>2. issued' = issued \cup after.claims
        BY <1>5
      <4> HIDE DEF after
      <4> QED
        BY <4>1, <4>2
    <3> QED
      BY <1>5, <3>2 DEF ClaimBooks
  <2>4. GuardBooks'
    <3>1. Held(s) /\ \A t \in Session \ {s} : session[t].phase \notin InDoubtPhases
      BY <1>1 DEF AuthorityBooks, GuardBooks, Held, InDoubtPhases
    <3>2. ledger'.state # "transaction_in_doubt"
      <4>1. ledger.state # "transaction_in_doubt"
        BY <1>1, <3>1, DoubtOf DEF AuthorityBooks, InDoubtPhases
      <4>2. r.op \in {"guarded_commit", "freeze_scope", "fence_worker", "prove_retirement"}
        BY <1>3 DEF RequestRow
      <4> QED
        BY <1>3, <1>5, <4>1, <4>2, AfterLedger
    <3> QED
      BY <1>2, <3>1, <3>2, GuardMove DEF AuthorityBooks, InDoubtPhases
  <2>5. /\ \A i \in DOMAIN ledger.receipts : i \in DOMAIN ledger'.receipts
                                         /\ ledger'.receipts[i] = ledger.receipts[i]
        /\ Len(ledger'.receipts) \in DOMAIN ledger'.receipts
        /\ ledger'.receipts[Len(ledger'.receipts)].request = r
        /\ ledger'.receipts[Len(ledger'.receipts)].result = after.gen
        /\ after.gen \in Nat
    <3>1. /\ ledger'.receipts = Append(ledger.receipts, NewReceipt(ledger, r))
          /\ after.gen = ledger.gen + 1 /\ ledger.gen \in Nat
      BY <1>3, <1>5, AfterLedger DEF Ledger
    <3> HIDE DEF r, after
    <3> QED
      BY <1>3, <3>1, AppendedReceipt, SMTT(30)
  <2>6. answers' = answers \/ answers' = answers \cup {a}
    BY <1>5 DEF Answer
  <2>7. a \in [id : DOMAIN Operation, request : RequestRow, gen : Nat]
    BY <1>3, <2>5 DEF RequestRow
  <2>8. AuthorityTypeOK'
    BY <1>2, <1>3, <2>2, <2>3, <2>6, <2>7, SessionStep DEF AuthorityBooks, AuthorityTypeOK
  <2>9. \A b \in answers : b.id # r.id
    BY <2>1 DEF AuthorityBooks, AnswerBooks, Recorded, Receipts
  <2>10. AnswerBooks'
    <3>1. \A b \in answers :
            /\ b.id = b.request.id
            /\ \E i \in DOMAIN ledger'.receipts :
                 /\ ledger'.receipts[i].request = b.request
                 /\ ledger'.receipts[i].result \in {b.gen, 0}
      BY <2>5 DEF AuthorityBooks, AnswerBooks
    <3>2. /\ a.id = a.request.id /\ a.id = r.id
          /\ \E i \in DOMAIN ledger'.receipts :
               /\ ledger'.receipts[i].request = a.request
               /\ ledger'.receipts[i].result \in {a.gen, 0}
      BY <2>5
    <3>3. \A b, d \in answers : b.id = d.id => b = d
      BY DEF AuthorityBooks, AnswerBooks
    <3> HIDE DEF a, r, after
    <3>4. \A b \in answers' : b \in answers \/ b = a
      BY <2>6
    <3>5. \A b, d \in answers' : b.id = d.id => b = d
      BY <2>9, <3>2, <3>3, <3>4
    <3> QED
      BY <3>1, <3>2, <3>4, <3>5 DEF AnswerBooks
  <2> QED
    BY <2>2, <2>3, <2>4, <2>8, <2>10 DEF AuthorityBooks
<1> QED
  BY <1>4, <1>5 DEF RunGuarded

LEMMA DisconnectKeepsBooks ==
  ASSUME AuthorityBooks, NEW s \in Session, Disconnect(s)
  PROVE  AuthorityBooks'
<1> DEFINE r == session[s].request
<1>1. /\ session[s].phase = "guard" /\ r.op = "guarded_commit" /\ ~Refused(ledger, r)
      /\ session' = [session EXCEPT ![s].phase = "unknown", ![s].open = TRUE]
      /\ ledger' = [ledger EXCEPT !.state = "transaction_in_doubt"]
      /\ UNCHANGED <<issued, answers, calls>>
  BY DEF Disconnect
<1>2. r \in RequestRow
  BY <1>1, SessionFields DEF AuthorityBooks
<1>3. ledger.state = "active"
  BY <1>1, <1>2, Unrefused
<1>4. /\ ledger' \in Ledger /\ ledger'.state = "transaction_in_doubt"
      /\ \A q : Recorded(ledger', q) <=> Recorded(ledger, q)
      /\ RecordsBooks(ledger') /\ FreezeBooks(ledger') /\ ClaimBooks' /\ AnswerBooks'
  BY <1>1, <1>3, StateChange
<1>5. PICK x \in SessionRow :
        session' = [session EXCEPT ![s] = x] /\ x.phase = "unknown" /\ x.request = r
  <2> DEFINE x == [session[s] EXCEPT !.phase = "unknown", !.open = TRUE]
  <2>1. session \in [Session -> SessionRow] /\ session[s] \in SessionRow
    BY DEF AuthorityBooks, AuthorityTypeOK
  <2>2. session' = [session EXCEPT ![s] = x]
    BY <1>1, <2>1
  <2>3. x \in SessionRow /\ x.phase = "unknown" /\ x.request = r
    BY <1>2, <2>1 DEF SessionRow
  <2> QED
    BY <2>2, <2>3
<1>6. GuardBooks'
  BY <1>1, <1>4, <1>5, GuardMove DEF AuthorityBooks, InDoubtPhases, Held
<1>7. AuthorityTypeOK'
  BY <1>1, <1>4, <1>5, SessionStep DEF AuthorityBooks, AuthorityTypeOK
<1> QED
  BY <1>4, <1>6, <1>7 DEF AuthorityBooks

(* The storage has ended the transaction of a session in doubt.              *)
LEMMA ClosedSession ==
  ASSUME AuthorityTypeOK, NEW s \in Session, session[s].open,
         session' = [session EXCEPT ![s].open = FALSE]
  PROVE  \E x \in SessionRow :
           /\ session' = [session EXCEPT ![s] = x]
           /\ x.phase = "unknown" /\ x.request = session[s].request
<1>1. /\ session \in [Session -> SessionRow] /\ session[s] \in SessionRow
      /\ session[s].phase = "unknown"
  BY DEF AuthorityTypeOK, SessionRow
<1>2. session' = [session EXCEPT ![s] = [session[s] EXCEPT !.open = FALSE]]
  BY <1>1
<1>3. /\ [session[s] EXCEPT !.open = FALSE] \in SessionRow
      /\ [session[s] EXCEPT !.open = FALSE].phase = "unknown"
      /\ [session[s] EXCEPT !.open = FALSE].request = session[s].request
  BY <1>1 DEF SessionRow
<1> QED
  BY <1>2, <1>3

LEMMA RollBackLateKeepsBooks ==
  ASSUME AuthorityBooks, NEW s \in Session, RollBackLate(s)
  PROVE  AuthorityBooks'
<1>1. /\ session[s].open /\ session' = [session EXCEPT ![s].open = FALSE]
      /\ UNCHANGED <<ledger, issued, answers, calls>>
  BY DEF RollBackLate
<1>2. PICK x \in SessionRow :
        /\ session' = [session EXCEPT ![s] = x]
        /\ x.phase = "unknown" /\ x.request = session[s].request
  BY <1>1, ClosedSession DEF AuthorityBooks
<1>3. session[s].phase = "unknown" /\ session[s].request.op = "guarded_commit"
  BY <1>1 DEF AuthorityBooks, AuthorityTypeOK, SessionRow, GuardBooks
<1>4. Held(s) /\ ledger.state = "transaction_in_doubt"
  BY <1>3 DEF AuthorityBooks, GuardBooks, InDoubt, Held
<1>5. /\ \A q : Recorded(ledger', q) <=> Recorded(ledger, q)
      /\ ledger'.state = "transaction_in_doubt"
      /\ x.phase = "unknown" /\ x.request.op = "guarded_commit"
  BY <1>1, <1>2, <1>3, <1>4
<1>6. GuardBooks'
  BY <1>2, <1>4, <1>5, GuardMove DEF AuthorityBooks, InDoubtPhases
<1>7. AuthorityTypeOK'
  BY <1>1, <1>2, SessionStep DEF AuthorityBooks, AuthorityTypeOK
<1> QED
  BY <1>1, <1>6, <1>7, LedgerIdle DEF AuthorityBooks

(* The transaction in doubt commits in the storage; the scope stays in doubt.*)
LEMMA CommitLateKeepsBooks ==
  ASSUME AuthorityBooks, NEW s \in Session, CommitLate(s)
  PROVE  AuthorityBooks'
<1> DEFINE r == session[s].request
           before == [ledger EXCEPT !.state = "active"]
           after == After(before, r)
<1>1. /\ session[s].phase = "unknown" /\ ~Recorded(ledger, r) /\ ~Refused(before, r)
      /\ ledger' = [after EXCEPT !.state = "transaction_in_doubt"]
      /\ UNCHANGED <<issued, answers, calls>>
  BY DEF CommitLate, AuthorityBooks, AuthorityTypeOK, SessionRow
<1>2. /\ r \in RequestRow /\ r.op = "guarded_commit"
      /\ ledger.state = "transaction_in_doubt" /\ ledger \in Ledger
      /\ session[s] \in SessionRow
  BY <1>1, SessionFields DEF AuthorityBooks, GuardBooks, InDoubt, AuthorityTypeOK
<1>3. /\ before \in Ledger /\ before.receipts = ledger.receipts /\ before.gen = ledger.gen
      /\ before.mutations = ledger.mutations /\ before.grants = ledger.grants
      /\ before.fence = ledger.fence /\ before.claims = ledger.claims
      /\ before.state = "active"
  BY <1>2 DEF Ledger
<1> HIDE DEF before, r
<1>4. /\ after \in Ledger /\ after.receipts = Append(ledger.receipts, NewReceipt(before, r))
      /\ after.fence = ledger.fence /\ after.claims = ledger.claims
      /\ after.grants = ledger.grants
  BY <1>2, <1>3, AfterLedger
<1>5. RecordsBooks(after)
  <2>1. RecordsBooks(before)
    BY <1>3 DEF AuthorityBooks, RecordsBooks
  <2>2. ~Recorded(before, r)
    BY <1>1, <1>3 DEF Recorded, Receipts
  <2> QED
    BY <1>2, <1>3, <2>1, <2>2, AfterRecords
<1> HIDE DEF after
<1>6. /\ ledger' \in Ledger /\ ledger'.state = "transaction_in_doubt"
      /\ ledger'.receipts = after.receipts /\ ledger'.mutations = after.mutations
      /\ ledger'.fence = ledger.fence /\ ledger'.claims = ledger.claims
      /\ ledger'.grants = ledger.grants
  BY <1>1, <1>4 DEF Ledger
<1>7. RecordsBooks(ledger')
  BY <1>5, <1>6 DEF RecordsBooks
<1>8. FreezeBooks(ledger')
  BY <1>2, <1>6 DEF AuthorityBooks, FreezeBooks
<1>9. ClaimBooks'
  BY <1>1, <1>6 DEF AuthorityBooks, ClaimBooks
<1>10. AnswerBooks'
  <2>1. \A i \in DOMAIN ledger.receipts :
          i \in DOMAIN ledger'.receipts /\ ledger'.receipts[i] = ledger.receipts[i]
    <3>1. \A i \in DOMAIN before.receipts :
            i \in DOMAIN after.receipts /\ after.receipts[i] = before.receipts[i]
      BY <1>2, <1>3, <1>4, AppendedReceipt
    <3> QED
      BY <1>3, <1>6, <3>1
  <2> QED
    BY <1>1, <2>1, AnswersKept DEF AuthorityBooks
<1>11. PICK x \in SessionRow :
         /\ session' = [session EXCEPT ![s] = x]
         /\ x.phase = "unknown" /\ x.request = session[s].request
  BY ClosedSession DEF CommitLate, AuthorityBooks
<1>12. GuardBooks'
  <2>1. Held(s) /\ session[s].request.op = "guarded_commit"
    BY <1>1, <1>2 DEF Held, r
  <2> QED
    BY <1>2, <1>6, <1>11, <2>1, GuardMove DEF AuthorityBooks, InDoubtPhases
<1>13. AuthorityTypeOK'
  BY <1>1, <1>6, <1>11, SessionStep DEF AuthorityBooks, AuthorityTypeOK
<1> QED
  BY <1>7, <1>8, <1>9, <1>10, <1>12, <1>13 DEF AuthorityBooks

LEMMA ResolveKeepsBooks ==
  ASSUME AuthorityBooks, NEW s \in Session, ResolveFate(s)
  PROVE  AuthorityBooks'
<1> DEFINE r == session[s].request
           x == [session[s] EXCEPT !.phase = "resolved", !.told = StoredFate(r)]
<1>1. /\ session[s].phase = "unknown" /\ UNCHANGED <<ledger, issued, answers, calls>>
      /\ session' = [session EXCEPT ![s].phase = "resolved", ![s].told = StoredFate(r)]
      /\ ~session[s].open
  BY DEF ResolveFate, StorageDecided
<1>2. /\ session \in [Session -> SessionRow] /\ session[s] \in SessionRow
      /\ r \in RequestRow /\ r.op = "guarded_commit"
  BY <1>1, SessionFields DEF AuthorityBooks, AuthorityTypeOK, GuardBooks
<1>3. session' = [session EXCEPT ![s] = x]
  BY <1>1, <1>2
<1>4. /\ x \in SessionRow /\ x.phase = "resolved" /\ x.request = r
      /\ x.told = StoredFate(r)
  <2>1. StoredFate(r) \in {None, "committed", "rolled_back"}
    BY DEF StoredFate
  <2> QED
    BY <1>1, <1>2, <2>1 DEF SessionRow
<1> HIDE DEF x
<1>5. ledger.state = "transaction_in_doubt" /\ Held(s)
  BY <1>1 DEF AuthorityBooks, GuardBooks, InDoubt, Held
<1>6. x.told = IF Recorded(ledger, x.request) THEN "committed" ELSE "rolled_back"
  BY <1>4 DEF StoredFate
<1> HIDE DEF r
<1>7. GuardBooks'
  BY <1>1, <1>2, <1>3, <1>4, <1>5, <1>6, GuardMove DEF AuthorityBooks, InDoubtPhases
<1>8. AuthorityTypeOK'
  BY <1>1, <1>3, <1>4, SessionStep DEF AuthorityBooks, AuthorityTypeOK
<1> QED
  BY <1>1, <1>7, <1>8, LedgerIdle DEF AuthorityBooks

LEMMA FenceOldKeepsBooks ==
  ASSUME AuthorityBooks, NEW s \in Session, FenceOldSession(s)
  PROVE  AuthorityBooks'
<1>1. /\ session[s].phase = "resolved" /\ session' = [session EXCEPT ![s] = Idle]
      /\ ledger' = [ledger EXCEPT !.state = "active"] /\ UNCHANGED <<issued, answers, calls>>
  BY DEF FenceOldSession
<1>2. ledger.state = "transaction_in_doubt" /\ Held(s)
  BY <1>1 DEF AuthorityBooks, GuardBooks, InDoubt, Held
<1>3. \A t \in Session \ {s} : session[t].phase \notin InDoubtPhases
  BY <1>2 DEF AuthorityBooks, GuardBooks, Held, InDoubtPhases
<1>4. /\ ledger' \in Ledger /\ ledger'.state = "active"
      /\ RecordsBooks(ledger') /\ FreezeBooks(ledger') /\ ClaimBooks' /\ AnswerBooks'
  BY <1>1, <1>2, StateChange
<1>5. Idle \in SessionRow /\ Idle.phase = "idle"
  BY DEF Idle, SessionRow
<1>6. GuardBooks'
  BY <1>1, <1>2, <1>3, <1>4, <1>5, GuardMove DEF AuthorityBooks, InDoubtPhases
<1>7. AuthorityTypeOK'
  BY <1>1, <1>4, <1>5, SessionStep DEF AuthorityBooks, AuthorityTypeOK
<1> QED
  BY <1>4, <1>6, <1>7 DEF AuthorityBooks

(* A restart ends calls and open guards; what is in doubt has ended before.  *)
LEMMA RestartKeepsBooks ==
  ASSUME AuthorityBooks, RestartAuthority
  PROVE  AuthorityBooks'
<1>1. /\ ~InDoubt /\ UNCHANGED <<ledger, issued, answers, calls>>
      /\ session' = [s \in Session |->
                       IF session[s].phase \in {"guard", "waiting"}
                       THEN [session[s] EXCEPT !.phase = "idle"]
                       ELSE session[s]]
  BY DEF RestartAuthority
<1>2. session \in [Session -> SessionRow]
  BY DEF AuthorityBooks, AuthorityTypeOK
<1>3. \A s \in Session : session[s].phase \in {"guard", "waiting"} =>
        /\ [session[s] EXCEPT !.phase = "idle"] \in SessionRow
        /\ [session[s] EXCEPT !.phase = "idle"].phase = "idle"
  BY <1>2 DEF SessionRow
<1>4. \A s \in Session :
        /\ session'[s] \in SessionRow
        /\ session'[s].phase \notin {"guard", "unknown", "resolved"}
  BY <1>1, <1>2, <1>3 DEF InDoubt
<1>5. AuthorityTypeOK'
  BY <1>1, <1>4 DEF AuthorityBooks, AuthorityTypeOK
<1>6. GuardBooks'
  BY <1>1, <1>4 DEF AuthorityBooks, GuardBooks, Held, InDoubt, FateStands
<1> QED
  BY <1>1, <1>5, <1>6, LedgerIdle DEF AuthorityBooks

(* Replay evidence and checkpoints go, the receipts stay.                    *)
LEMMA ExpiryKeepsBooks ==
  ASSUME AuthorityBooks, ExpireReplayEvidence \/ DeletePortableCheckpoint
  PROVE  AuthorityBooks'
<1>1. UNCHANGED <<session, issued, answers, calls>> /\ ledger \in Ledger
  BY DEF ExpireReplayEvidence, DeletePortableCheckpoint, AuthorityBooks, AuthorityTypeOK
<1>2. /\ ledger' \in Ledger /\ DOMAIN ledger'.receipts = DOMAIN ledger.receipts
      /\ Len(ledger'.receipts) = Len(ledger.receipts)
      /\ \A i \in DOMAIN ledger.receipts :
           /\ ledger'.receipts[i].request = ledger.receipts[i].request
           /\ ledger'.receipts[i].result \in {ledger.receipts[i].result, 0}
      /\ ledger'.mutations = ledger.mutations /\ ledger'.state = ledger.state
      /\ ledger'.gen = ledger.gen /\ ledger'.grants = ledger.grants
      /\ ledger'.fence = ledger.fence /\ ledger'.claims = ledger.claims
      /\ ledger'.freeze = ledger.freeze /\ ledger'.inventory = ledger.inventory
      /\ ledger'.checkpoints \in {ledger.checkpoints, <<>>}
  <2>1. CASE ExpireReplayEvidence
    <3>1. PICK i \in DOMAIN ledger.receipts :
            ledger' = [ledger EXCEPT !.receipts[i].result = 0, !.receipts[i].evidence = 0]
      BY <2>1 DEF ExpireReplayEvidence
    <3>2. ledger.receipts \in Seq(ReceiptRow) /\ ledger.receipts[i] \in ReceiptRow
      BY <1>1 DEF Ledger
    <3> DEFINE row == [ledger.receipts[i] EXCEPT !.result = 0, !.evidence = 0]
               rows == [ledger.receipts EXCEPT ![i] = row]
    <3>3. ledger' = [ledger EXCEPT !.receipts = rows]
      BY <1>1, <3>1, <3>2 DEF Ledger
    <3>4. /\ row \in ReceiptRow /\ row.request = ledger.receipts[i].request /\ row.result = 0
      BY <3>2 DEF ReceiptRow
    <3> HIDE DEF row
    <3>5. /\ rows \in Seq(ReceiptRow) /\ DOMAIN rows = DOMAIN ledger.receipts
          /\ Len(rows) = Len(ledger.receipts)
          /\ \A j \in DOMAIN ledger.receipts :
               /\ rows[j].request = ledger.receipts[j].request
               /\ rows[j].result \in {ledger.receipts[j].result, 0}
      BY <3>2, <3>4
    <3> HIDE DEF rows
    <3> QED
      BY <1>1, <3>3, <3>5 DEF Ledger
  <2>2. CASE DeletePortableCheckpoint
    <3>1. ledger' = [ledger EXCEPT !.checkpoints = <<>>]
      BY <2>2 DEF DeletePortableCheckpoint
    <3>2. <<>> \in Seq(DOMAIN Operation)
      OBVIOUS
    <3>3. /\ ledger' \in Ledger /\ ledger'.receipts = ledger.receipts
          /\ ledger'.mutations = ledger.mutations /\ ledger'.state = ledger.state
          /\ ledger'.gen = ledger.gen /\ ledger'.grants = ledger.grants
          /\ ledger'.fence = ledger.fence /\ ledger'.claims = ledger.claims
          /\ ledger'.freeze = ledger.freeze /\ ledger'.inventory = ledger.inventory
          /\ ledger'.checkpoints = <<>>
      BY <1>1, <3>1, <3>2 DEF Ledger
    <3> QED
      BY <3>1, <3>3
  <2> QED
    BY <2>1, <2>2
<1>3. \A q : Recorded(ledger', q) <=> Recorded(ledger, q)
  BY <1>2 DEF Recorded, Receipts
<1>4. AuthorityTypeOK'
  BY <1>1, <1>2 DEF AuthorityBooks, AuthorityTypeOK
<1>5. RecordsBooks(ledger')
  BY <1>2, SMTT(30) DEF AuthorityBooks, RecordsBooks
<1>6. FreezeBooks(ledger')
  <2>1. Covered(ledger) => Covered(ledger')
    <3>1. {Member("receipt", ledger'.receipts[i].request.id) : i \in DOMAIN ledger'.receipts}
            = {Member("receipt", ledger.receipts[i].request.id) : i \in DOMAIN ledger.receipts}
      BY <1>2
    <3>2. /\ {Member("checkpoint", i) : i \in DOMAIN ledger'.checkpoints}
               \subseteq {Member("checkpoint", i) : i \in DOMAIN ledger.checkpoints}
          /\ \A m \in {Member("checkpoint", i) : i \in DOMAIN ledger.checkpoints} :
               m.kind = "checkpoint"
      BY <1>2 DEF Member
    <3>3. /\ InventoryOf(ledger') \subseteq InventoryOf(ledger)
          /\ \A m \in InventoryOf(ledger) \ InventoryOf(ledger') : m.kind = "checkpoint"
      BY <3>1, <3>2 DEF InventoryOf
    <3> QED
      BY <1>2, <3>3 DEF Covered
  <2>2. /\ ledger.receipts \in Seq(ReceiptRow) /\ ledger'.receipts \in Seq(ReceiptRow)
    BY <1>1, <1>2 DEF Ledger
  <2>3. /\ ledger.receipts # <<>> =>
             /\ ledger'.receipts # <<>>
             /\ Len(ledger.receipts) \in DOMAIN ledger.receipts
        /\ Len(ledger.receipts) > 1 => Len(ledger.receipts) - 1 \in DOMAIN ledger.receipts
    BY <1>2, <2>2
  <2> QED
    BY <1>2, <2>1, <2>3 DEF AuthorityBooks, FreezeBooks
<1>7. ClaimBooks'
  BY <1>1, <1>2 DEF AuthorityBooks, ClaimBooks
<1>8. AnswerBooks'
  BY <1>1, <1>2, AnswersKept DEF AuthorityBooks
<1>9. GuardBooks'
  BY <1>1, <1>2, <1>3
  DEF AuthorityBooks, GuardBooks, Held, InDoubt, FateStands, StoredFate
<1> QED
  BY <1>4, <1>5, <1>6, <1>7, <1>8, <1>9 DEF AuthorityBooks

LEMMA AuthorityStep == AuthorityBooks /\ [Next]_vars => AuthorityBooks'
<1> SUFFICES ASSUME AuthorityBooks, [Next]_vars PROVE AuthorityBooks'
  OBVIOUS
<1>1. ASSUME NEW s \in Session, Prepare(s) \/ Resend(s) PROVE AuthorityBooks'
  BY <1>1, PrepareKeepsBooks
<1>2. ASSUME NEW s \in Session, Call(s) PROVE AuthorityBooks'
  BY <1>2, AnswerKeepsBooks, EnterGuardKeepsBooks DEF Call
<1>3. ASSUME NEW s \in Session, RunGuarded(s) \/ AbortBeforeCommit(s) \/ Disconnect(s)
      PROVE  AuthorityBooks'
  BY <1>3, RunKeepsBooks, AbortKeepsBooks, DisconnectKeepsBooks
<1>4. ASSUME NEW s \in Session, CommitLate(s) \/ RollBackLate(s) \/ ResolveFate(s)
               \/ FenceOldSession(s)
      PROVE  AuthorityBooks'
  BY <1>4, CommitLateKeepsBooks, RollBackLateKeepsBooks, ResolveKeepsBooks, FenceOldKeepsBooks
<1>5. CASE RestartAuthority \/ ExpireReplayEvidence \/ DeletePortableCheckpoint
  BY <1>5, RestartKeepsBooks, ExpiryKeepsBooks
<1>6. CASE UNCHANGED vars
  <2>1. UNCHANGED <<ledger, session, issued, answers, calls>>
    BY <1>6 DEF vars
  <2>2. AuthorityTypeOK' /\ GuardBooks'
    BY <2>1 DEF AuthorityBooks, AuthorityTypeOK, GuardBooks, Held, InDoubt, FateStands, StoredFate
  <2> QED
    BY <2>1, <2>2, LedgerIdle DEF AuthorityBooks
<1> QED
  BY <1>1, <1>2, <1>3, <1>4, <1>5, <1>6 DEF Next

LEMMA AuthorityCorrect == Spec => []AuthorityBooks
  BY AuthorityInit, AuthorityStep, PTL DEF Spec

-----------------------------------------------------------------------------
(* The properties.                                                           *)

(* However often an operation is sent, by whom and after what failures, it   *)
(* is recorded and applied once, and all who are answered are told the same. *)
THEOREM OneApplication == Spec => []AppliedOnce
<1>1. AuthorityBooks => AppliedOnce
  <2> SUFFICES ASSUME AuthorityBooks PROVE AppliedOnce
    OBVIOUS
  <2>1. RecordsBooks(ledger)
    BY DEF AuthorityBooks
  <2>2. {ledger.mutations[k] : k \in DOMAIN ledger.mutations}
          = {ledger.receipts[i].request.id :
               i \in {j \in DOMAIN ledger.receipts :
                        ledger.receipts[j].request.op = "guarded_commit"}}
    BY <2>1 DEF RecordsBooks
  <2>3. \A a, b \in answers : a.id = b.id => a = b
    BY DEF AuthorityBooks, AnswerBooks
  <2> QED
    BY <2>1, <2>2, <2>3 DEF RecordsBooks, AppliedOnce
<1> QED
  BY <1>1, AuthorityCorrect, PTL

(* A scope freezes with no transaction in doubt and with all of its storage, *)
(* and what retires is what was frozen.                                      *)
THEOREM FreezeIsComplete == Spec => []FreezeCoversStorage
<1>1. AuthorityBooks => FreezeCoversStorage
  <2> SUFFICES ASSUME AuthorityBooks PROVE FreezeCoversStorage
    OBVIOUS
  <2>1. FreezeBooks(ledger)
    BY DEF AuthorityBooks
  <2>2. ledger.state = "frozen" => ~InDoubt /\ Covered(ledger)
    BY <2>1 DEF FreezeBooks, AuthorityBooks, GuardBooks
  <2>3. ledger.grants = {} \/ \E g \in ledger.grants : ledger.grants = {g}
    BY <2>1 DEF FreezeBooks
  <2>4. Cardinality(ledger.grants) <= 1
    <3>1. CASE ledger.grants = {}
      <4>1. Cardinality({}) = 0
        BY FS_EmptySet
      <4> QED
        BY <3>1, <4>1
    <3>2. CASE \E g \in ledger.grants : ledger.grants = {g}
      <4>1. PICK g \in ledger.grants : ledger.grants = {g}
        BY <3>2
      <4>2. Cardinality({g}) = 1
        BY FS_Singleton
      <4> QED
        BY <4>1, <4>2
    <3> QED
      BY <2>3, <3>1, <3>2
  <2>5. \A g \in ledger.grants : ledger.state = "retired"
    BY <2>1 DEF FreezeBooks
  <2> QED
    BY <2>1, <2>2, <2>4, <2>5 DEF FreezeBooks, Covered, FreezeCoversStorage
<1> QED
  BY <1>1, AuthorityCorrect, PTL

(* The fate a session was told is the one the storage holds until the        *)
(* session is fenced: no late commit reaches the storage after it.           *)
THEOREM FateIsFinal == Spec => []FateStands
<1>1. AuthorityBooks => FateStands
  BY DEF AuthorityBooks, GuardBooks
<1> QED
  BY <1>1, AuthorityCorrect, PTL

(* Of all claims ever given to workers at most one lets a worker act.        *)
THEOREM LiveClaimUnique == Spec => []OneLiveClaim
<1>1. AuthorityBooks => OneLiveClaim
  BY DEF AuthorityBooks, ClaimBooks, OneLiveClaim, ClaimValid
<1> QED
  BY <1>1, AuthorityCorrect, PTL
=============================================================================
