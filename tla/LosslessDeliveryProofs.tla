----------------------- MODULE LosslessDeliveryProofs ------------------------
(***************************************************************************)
(* Theorems about HostStore and LosslessDelivery, for any number of          *)
(* acknowledgement and store processes, source items, operations and timer   *)
(* invocations.  The first part is about the store alone.                    *)
(***************************************************************************)
EXTENDS LosslessDelivery, FiniteSetTheorems, TLAPS

-----------------------------------------------------------------------------
(* Types.                                                                    *)

Document == [held : SUBSET Source, step : Nat]

CommitRequests ==
  {q \in [kind : {"commit"}, op : Op, expected : Document, after : Document,
          receipt : Invocation \cup {NoInvocation}, crash : BOOLEAN] :
     q.after \in Successors(q.expected)}

Request ==
  CommitRequests
    \cup [kind : {"crash_before_commit"}, op : Op]
    \cup [kind : {"timer_invocation_start", "timer_invocation_return"}, inv : Invocation]

JournalRow == [op : Op, before : Document, after : Document]

Call == [kind : {"idle"}] \cup [kind : {"busy"}, request : Request, seen : Document]

StoreTypeOK ==
  /\ seed \in Document /\ state \in Document
  /\ journal \in Seq(JournalRow)
  /\ cuts \subseteq [op : Op, phase : {"before_commit", "after_commit"}]
  /\ started \subseteq [inv : Invocation, start : Document]
  /\ returned \subseteq [inv : Invocation, state : Document, op : Op \cup {NoOp}]
  /\ call \in [Process -> Call]

(* A request of a kind has the fields of that kind.                          *)
LEMMA RequestFields ==
  ASSUME NEW q \in Request
  PROVE  /\ q.kind = "commit" =>
              /\ q.op \in Op /\ q.expected \in Document /\ q.after \in Document
              /\ q.after \in Successors(q.expected)
              /\ q.receipt \in Invocation \cup {NoInvocation} /\ q.crash \in BOOLEAN
         /\ q.kind = "crash_before_commit" => q.op \in Op
         /\ q.kind \in {"timer_invocation_start", "timer_invocation_return"}
              => q.inv \in Invocation
  BY DEF Request, CommitRequests

(* A busy process has a request and the document it read.                    *)
LEMMA BusyCall ==
  ASSUME StoreTypeOK, NEW p \in Process, call[p].kind = "busy"
  PROVE  call[p].request \in Request /\ call[p].seen \in Document
<1>1. call[p] \in Call
  BY DEF StoreTypeOK
<1> QED
  BY <1>1 DEF Call

(* The documents the journal and the seed name are documents.                *)
LEMMA KnownDocuments ==
  ASSUME StoreTypeOK
  PROVE  Known \subseteq Document
<1>1. \A i \in DOMAIN journal : journal[i] \in JournalRow
  BY DEF StoreTypeOK
<1>2. \A i \in DOMAIN journal : journal[i].after \in Document
  BY <1>1 DEF JournalRow
<1> QED
  BY <1>2 DEF Known, StoreTypeOK

(* An appended row is the last one; the others keep their place.             *)
LEMMA AppendedRow ==
  ASSUME StoreTypeOK, NEW row \in JournalRow, journal' = Append(journal, row)
  PROVE  /\ \A i \in DOMAIN journal : i \in DOMAIN journal' /\ journal'[i] = journal[i]
         /\ \A i \in DOMAIN journal' :
              \/ i \in DOMAIN journal /\ journal'[i] = journal[i]
              \/ i = Len(journal') /\ journal'[i] = row
         /\ Len(journal') = Len(journal) + 1
         /\ Len(journal') \in DOMAIN journal' /\ journal'[Len(journal')] = row
         /\ journal' # <<>>
<1>1. journal \in Seq(JournalRow)
  BY DEF StoreTypeOK
<1> QED
  BY <1>1

-----------------------------------------------------------------------------
(* What one step of the store can be.                                        *)

(* The transaction of a busy process.                                        *)
Transaction(p, q, seen) ==
  /\ call[p].kind = "busy" /\ q = call[p].request /\ seen = call[p].seen
  /\ call' = [call EXCEPT ![p] = Idle]
  /\ Commit(p, q, seen) \/ CutBefore(p, q) \/ StartTimer(p, q, seen)
       \/ ReturnTimer(p, q, seen)

(* A process reads the document, or drops its request.                       *)
ReadsOrDrops(p) ==
  /\ UNCHANGED <<seed, state, journal, cuts, started, returned>>
  /\ \/ \E q \in Request :
          call' = [call EXCEPT ![p] = [kind |-> "busy", request |-> q, seen |-> state]]
     \/ call' = [call EXCEPT ![p] = Idle]

(* Requests name known documents and their successors.                       *)
LEMMA SuccessorDocument ==
  ASSUME NEW d \in Document, NEW e \in Successors(d)
  PROVE  e \in Document /\ d.held \subseteq e.held
<1>1. PICK h \in {d.held} \cup {d.held \cup {s} : s \in Source} :
        e = [held |-> h, step |-> d.step + 1]
  BY DEF Successors
<1>2. h \in SUBSET Source /\ d.held \subseteq h /\ d.step + 1 \in Nat
  BY <1>1 DEF Document
<1> QED
  BY <1>1, <1>2 DEF Document

LEMMA StoreStepCases ==
  ASSUME StoreTypeOK, NEW ops \in SUBSET Op, StoreStep(ops)
  PROVE  \E p \in Process :
           \/ ReadsOrDrops(p)
           \/ Transaction(p, call[p].request, call[p].seen)
<1>1. PICK p \in Process :
        CommitRequest(p, ops) \/ OtherRequest(p, ops) \/ Write(p) \/ Refuse(p)
  BY DEF StoreStep
<1>2. ASSUME NEW q \in Request, Read(p, q) PROVE ReadsOrDrops(p)
  BY <1>2 DEF Read, ReadsOrDrops
<1>3. CASE CommitRequest(p, ops)
  <2>1. PICK op \in ops, d \in Known, inv \in Invocation \cup {NoInvocation},
             crash \in BOOLEAN :
          \E e \in Successors(d) :
            Read(p, [kind |-> "commit", op |-> op, expected |-> d, after |-> e,
                     receipt |-> inv, crash |-> crash])
    BY <1>3 DEF CommitRequest
  <2>2. PICK e \in Successors(d) :
        Read(p, [kind |-> "commit", op |-> op, expected |-> d, after |-> e,
                 receipt |-> inv, crash |-> crash])
    BY <2>1
  <2>3. d \in Document /\ e \in Document
    BY KnownDocuments, SuccessorDocument
  <2>4. [kind |-> "commit", op |-> op, expected |-> d, after |-> e,
         receipt |-> inv, crash |-> crash] \in Request
    BY <2>3 DEF Request, CommitRequests
  <2> QED
    BY <1>2, <2>2, <2>4
<1>4. CASE OtherRequest(p, ops)
  <2>1. \/ \E op \in ops : Read(p, [kind |-> "crash_before_commit", op |-> op])
        \/ \E inv \in Invocation,
              kind \in {"timer_invocation_start", "timer_invocation_return"} :
             Read(p, [kind |-> kind, inv |-> inv])
    BY <1>4 DEF OtherRequest
  <2>2. \A op \in ops : [kind |-> "crash_before_commit", op |-> op] \in Request
    BY DEF Request
  <2>3. \A inv \in Invocation,
           kind \in {"timer_invocation_start", "timer_invocation_return"} :
          [kind |-> kind, inv |-> inv] \in Request
    BY DEF Request
  <2> QED
    BY <1>2, <2>1, <2>2, <2>3
<1>5. CASE Write(p)
  BY <1>5 DEF Write, Transaction
<1>6. CASE Refuse(p)
  BY <1>6 DEF Refuse, ReadsOrDrops
<1> QED
  BY <1>1, <1>3, <1>4, <1>5, <1>6

-----------------------------------------------------------------------------
(* Type correctness.                                                         *)

LEMMA StoreTypeInit == StoreInit => StoreTypeOK
  BY DEF StoreInit, StoreTypeOK, Document, Call, Idle

LEMMA StoreTypeTransaction ==
  ASSUME StoreTypeOK, NEW p \in Process, NEW q, NEW seen, Transaction(p, q, seen)
  PROVE  StoreTypeOK'
<1>1. q \in Request /\ seen \in Document
  BY BusyCall DEF Transaction
<1>2. call' \in [Process -> Call]
  BY DEF Transaction, StoreTypeOK, Call, Idle
<1>3. CASE Commit(p, q, seen)
  <2>1. /\ q.op \in Op /\ q.after \in Document
        /\ q.receipt \in Invocation \cup {NoInvocation}
    BY <1>1, <1>3, RequestFields DEF Commit
  <2>2. JoinedReturn(q) \subseteq [inv : Invocation, state : Document, op : Op \cup {NoOp}]
    BY <2>1 DEF JoinedReturn
  <2>3. journal' \in Seq(JournalRow)
    <3>1. [op |-> q.op, before |-> seen, after |-> q.after] \in JournalRow
      BY <1>1, <2>1 DEF JournalRow
    <3> QED
      BY <1>3, <3>1 DEF Commit, StoreTypeOK
  <2>4. cuts' \subseteq [op : Op, phase : {"before_commit", "after_commit"}]
    BY <1>3, <2>1 DEF Commit, StoreTypeOK
  <2> QED
    BY <1>2, <1>3, <2>1, <2>2, <2>3, <2>4 DEF Commit, StoreTypeOK
<1>4. CASE CutBefore(p, q)
  <2>1. EarlyCut(q.op) \in [op : Op, phase : {"before_commit", "after_commit"}]
    BY <1>1, <1>4, RequestFields DEF CutBefore, EarlyCut
  <2> QED
    BY <1>2, <1>4, <2>1 DEF CutBefore, StoreTypeOK
<1>5. CASE StartTimer(p, q, seen)
  <2>1. q.inv \in Invocation
    BY <1>1, <1>5, RequestFields DEF StartTimer
  <2> QED
    BY <1>1, <1>2, <1>5, <2>1 DEF StartTimer, StoreTypeOK
<1>6. CASE ReturnTimer(p, q, seen)
  <2>1. q.inv \in Invocation
    BY <1>1, <1>6, RequestFields DEF ReturnTimer
  <2> QED
    BY <1>1, <1>2, <1>6, <2>1 DEF ReturnTimer, StoreTypeOK
<1> QED
  BY <1>3, <1>4, <1>5, <1>6 DEF Transaction

LEMMA StoreTypeReads ==
  ASSUME StoreTypeOK, NEW p \in Process, ReadsOrDrops(p)
  PROVE  StoreTypeOK'
<1>1. call' \in [Process -> Call]
  BY DEF ReadsOrDrops, StoreTypeOK, Call, Idle
<1> QED
  BY <1>1 DEF ReadsOrDrops, StoreTypeOK

LEMMA StoreTypeStep ==
  ASSUME StoreTypeOK, NEW ops \in SUBSET Op, StoreStep(ops)
  PROVE  StoreTypeOK'
  BY StoreStepCases, StoreTypeReads, StoreTypeTransaction

-----------------------------------------------------------------------------
(* The safety properties.                                                    *)

(* A timer's return belongs to the transaction it was joined to, and a cut   *)
(* after a commit and the document to the journal.                           *)
StoreBooks == StoreTypeOK /\ TimerJoined /\ CutsTellFate

LEMMA StoreBooksInit == StoreInit => StoreBooks
  BY StoreTypeInit DEF StoreInit, StoreBooks, TimerJoined, CutsTellFate

(* A request that writes no journal row leaves what the rows account for.    *)
LEMMA BooksWithoutCommit ==
  ASSUME StoreBooks, StoreTypeOK', UNCHANGED <<seed, state, journal>>,
         started \subseteq started',
         \A r \in returned' : r \in returned \/ r.op = NoOp,
         \A c \in cuts' : c \in cuts \/ c.phase = "before_commit"
  PROVE  StoreBooks'
<1>1. TimerJoined'
  <2>1. \A r \in returned' : r.op # NoOp =>
          /\ r \in returned
          /\ \E i \in DOMAIN journal, s \in started :
               /\ s.inv = r.inv
               /\ journal[i] = [op |-> r.op, before |-> s.start, after |-> r.state]
    BY DEF StoreBooks, TimerJoined
  <2>2. \A r, q \in returned' : r.op # NoOp /\ q.op = r.op => q = r
    BY DEF StoreBooks, TimerJoined
  <2> QED
    BY <2>1, <2>2 DEF TimerJoined
<1>2. CutsTellFate'
  BY DEF StoreBooks, CutsTellFate, Committed
<1> QED
  BY <1>1, <1>2 DEF StoreBooks

(* A commit writes the row, the return and the cut together.                 *)
LEMMA BooksCommit ==
  ASSUME StoreBooks, StoreTypeOK', NEW p \in Process, NEW q \in Request,
         NEW seen \in Document, Commit(p, q, seen)
  PROVE  StoreBooks'
<1> DEFINE row == [op |-> q.op, before |-> seen, after |-> q.after]
<1>1. StoreTypeOK /\ TimerJoined /\ CutsTellFate
  BY DEF StoreBooks
<1>2. /\ state' = q.after /\ journal' = Append(journal, row)
      /\ returned' = returned \cup JoinedReturn(q)
      /\ ~Committed(q.op) /\ UNCHANGED <<seed, started>>
      /\ \A c \in cuts' : c \in cuts \/ c.op = q.op
      /\ q.receipt # NoInvocation => \E s \in started : s.inv = q.receipt /\ s.start = seen
  BY DEF Commit, CommitAllowed, Joins
<1>3. q.op \in Op /\ q.after \in Document
  BY RequestFields DEF Commit
<1>4. row \in JournalRow /\ row.op = q.op /\ row.after = q.after
  BY <1>3 DEF JournalRow
<1>5. /\ \A i \in DOMAIN journal : i \in DOMAIN journal' /\ journal'[i] = journal[i]
      /\ Len(journal') \in DOMAIN journal' /\ journal'[Len(journal')] = row
      /\ journal' # <<>>
  BY <1>1, <1>2, <1>4, AppendedRow
<1>6. \A r \in JoinedReturn(q) :
        /\ q.receipt # NoInvocation
        /\ r = [inv |-> q.receipt, state |-> q.after, op |-> q.op]
  BY DEF JoinedReturn
<1>7. \A r \in returned : r.op # NoOp => r.op # q.op
  <2> SUFFICES ASSUME NEW r \in returned, r.op # NoOp, r.op = q.op PROVE FALSE
    OBVIOUS
  <2>1. PICK i \in DOMAIN journal, s \in started :
          journal[i] = [op |-> r.op, before |-> s.start, after |-> r.state]
    BY <1>1 DEF TimerJoined
  <2>2. journal[i].op = q.op
    BY <2>1
  <2> QED
    BY <1>2, <2>2 DEF Committed
<1>8. TimerJoined'
  <2>1. ASSUME NEW r \in returned', r.op # NoOp
        PROVE  \E i \in DOMAIN journal', s \in started' :
                 /\ s.inv = r.inv
                 /\ journal'[i] = [op |-> r.op, before |-> s.start, after |-> r.state]
    <3>1. CASE r \in returned
      <4>1. PICK i \in DOMAIN journal, s \in started :
              /\ s.inv = r.inv
              /\ journal[i] = [op |-> r.op, before |-> s.start, after |-> r.state]
        BY <1>1, <2>1, <3>1 DEF TimerJoined
      <4>2. i \in DOMAIN journal' /\ journal'[i] = journal[i] /\ s \in started'
        BY <1>2, <1>5
      <4> QED
        BY <4>1, <4>2
    <3>2. CASE r \in JoinedReturn(q)
      <4>1. PICK s \in started : s.inv = q.receipt /\ s.start = seen
        BY <1>2, <1>6, <3>2
      <4>2. /\ s.inv = r.inv
            /\ row = [op |-> r.op, before |-> s.start, after |-> r.state]
        BY <1>6, <3>2, <4>1
      <4> QED
        BY <1>2, <1>5, <4>1, <4>2, ZenonT(60)
    <3> QED
      BY <1>2, <3>1, <3>2
  <2>2. ASSUME NEW r \in returned', NEW t \in returned', r.op # NoOp, t.op = r.op
        PROVE  t = r
    <3>1. CASE r \in returned /\ t \in returned
      BY <1>1, <2>2, <3>1 DEF TimerJoined
    <3>2. CASE r \in JoinedReturn(q) /\ t \in JoinedReturn(q)
      BY <1>6, <3>2
    <3>3. \A x \in JoinedReturn(q) : x.op = q.op
      BY <1>6
    <3> QED
      BY <1>2, <1>7, <2>2, <3>1, <3>2, <3>3
  <2> QED
    BY <2>1, <2>2 DEF TimerJoined
<1>9. CutsTellFate'
  <2>1. \A op : Committed(op) => Committed(op)'
    BY <1>5 DEF Committed
  <2>2. Committed(q.op)'
    BY <1>4, <1>5 DEF Committed
  <2>3. \A c \in cuts' : c.phase = "after_commit" => Committed(c.op)'
    BY <1>1, <1>2, <2>1, <2>2 DEF CutsTellFate
  <2>4. state' = journal'[Len(journal')].after
    BY <1>2, <1>4, <1>5
  <2> QED
    BY <1>5, <2>3, <2>4 DEF CutsTellFate
<1> QED
  BY <1>8, <1>9 DEF StoreBooks

LEMMA StoreBooksStep ==
  ASSUME StoreBooks, NEW ops \in SUBSET Op, StoreStep(ops)
  PROVE  StoreBooks'
<1>1. StoreTypeOK
  BY DEF StoreBooks
<1>2. StoreTypeOK'
  BY <1>1, StoreTypeStep
<1>3. PICK p \in Process :
        ReadsOrDrops(p) \/ Transaction(p, call[p].request, call[p].seen)
  BY <1>1, StoreStepCases
<1>4. CASE ReadsOrDrops(p)
  BY <1>2, <1>4, BooksWithoutCommit DEF ReadsOrDrops
<1>5. CASE Transaction(p, call[p].request, call[p].seen)
  <2> DEFINE q == call[p].request
             seen == call[p].seen
  <2>1. q \in Request /\ seen \in Document
    BY <1>1, <1>5, BusyCall DEF Transaction
  <2> HIDE DEF q, seen
  <2>2. CASE Commit(p, q, seen)
    BY <1>2, <2>1, <2>2, BooksCommit
  <2>3. CASE CutBefore(p, q)
    BY <1>2, <2>3, BooksWithoutCommit DEF CutBefore, EarlyCut
  <2>4. CASE StartTimer(p, q, seen)
    BY <1>2, <2>4, BooksWithoutCommit DEF StartTimer
  <2>5. CASE ReturnTimer(p, q, seen)
    BY <1>2, <2>5, BooksWithoutCommit DEF ReturnTimer
  <2> QED
    BY <1>5, <2>2, <2>3, <2>4, <2>5 DEF Transaction, q, seen
<1> QED
  BY <1>3, <1>4, <1>5

(* A stuttering step keeps the books.                                        *)
LEMMA StoreBooksStutter == StoreBooks /\ UNCHANGED storeVars => StoreBooks'
  BY DEF StoreBooks, StoreTypeOK, TimerJoined, CutsTellFate, Committed, storeVars

LEMMA StoreBooksCorrect == StoreSpec => []StoreBooks
<1>1. StoreBooks /\ [StoreNext]_storeVars => StoreBooks'
  BY StoreBooksStep, StoreBooksStutter DEF StoreNext
<1> QED
  BY <1>1, StoreBooksInit, PTL DEF StoreSpec

(* With one store process at a time, what it read is still the document when *)
(* it writes.                                                                *)
SeenCurrent == \A p \in Process : call[p].kind = "busy" => call[p].seen = state

(* The document that the i-th transaction overwrote.                         *)
Replaced(i) == IF i = 1 THEN seed ELSE journal[i - 1].after

(* "host store compare-and-swap": the document a commit compared, and names  *)
(* in its proof, is the one it overwrote.                                    *)
SwapReplacesCompared == \A i \in DOMAIN journal : journal[i].before = Replaced(i)

(* A joined timer began from the document that its transaction overwrote.    *)
JoinedReplacesStart ==
  \A r \in returned : r.op # NoOp =>
    \E i \in DOMAIN journal, s \in started :
      s.inv = r.inv /\ journal[i].op = r.op /\ s.start = Replaced(i)

SerialBooks == StoreBooks /\ SeenCurrent /\ SwapReplacesCompared

LEMMA SeenCurrentStep ==
  ASSUME \A p, q \in Process : p = q, StoreBooks, SeenCurrent,
         NEW ops \in SUBSET Op, StoreStep(ops)
  PROVE  SeenCurrent'
<1>1. StoreTypeOK /\ call \in [Process -> Call]
  BY DEF StoreBooks, StoreTypeOK
<1>2. PICK p \in Process :
        ReadsOrDrops(p) \/ Transaction(p, call[p].request, call[p].seen)
  BY <1>1, StoreStepCases
<1>3. CASE ReadsOrDrops(p)
  BY <1>1, <1>3 DEF ReadsOrDrops, SeenCurrent, Idle
<1>4. CASE Transaction(p, call[p].request, call[p].seen)
  BY <1>1, <1>4 DEF Transaction, SeenCurrent, Idle
<1> QED
  BY <1>2, <1>3, <1>4

(* A row appended by a process that read the present document names the      *)
(* document of the row before it, or the seed.                               *)
LEMMA SwapStep ==
  ASSUME StoreBooks, SeenCurrent, SwapReplacesCompared,
         NEW ops \in SUBSET Op, StoreStep(ops)
  PROVE  SwapReplacesCompared'
<1>1. StoreTypeOK
  BY DEF StoreBooks
<1>2. PICK p \in Process :
        ReadsOrDrops(p) \/ Transaction(p, call[p].request, call[p].seen)
  BY <1>1, StoreStepCases
<1>3. CASE UNCHANGED <<seed, journal>>
  BY <1>3 DEF SwapReplacesCompared, Replaced
<1>4. CASE Transaction(p, call[p].request, call[p].seen)
           /\ Commit(p, call[p].request, call[p].seen)
  <2> DEFINE q == call[p].request
             seen == call[p].seen
             row == [op |-> q.op, before |-> seen, after |-> q.after]
  <2>1. q \in Request /\ seen \in Document /\ seen = state
    BY <1>1, <1>4, BusyCall DEF Transaction, SeenCurrent
  <2>2. row \in JournalRow
    BY <1>4, <2>1, RequestFields DEF Commit, JournalRow
  <2>3. journal' = Append(journal, row) /\ seed' = seed
    BY <1>4 DEF Commit
  <2>4. journal \in Seq(JournalRow) /\ DOMAIN journal = 1..Len(journal) /\ Len(journal) \in Nat
    BY <1>1 DEF StoreTypeOK
  <2>5. row.before = state
    BY <2>1
  <2> HIDE DEF row, q, seen
  <2>6. ASSUME NEW i \in DOMAIN journal' PROVE journal'[i].before = Replaced(i)'
    <3>1. CASE i \in DOMAIN journal
      <4>1. journal'[i] = journal[i] /\ (i # 1 => journal'[i - 1] = journal[i - 1])
        BY <2>2, <2>3, <2>4, <3>1
      <4> QED
        BY <2>3, <3>1, <4>1 DEF SwapReplacesCompared, Replaced
    <3>2. CASE i = Len(journal) + 1
      <4>1. journal'[i] = row
        BY <2>2, <2>3, <2>4, <3>2
      <4>2. CASE journal = <<>>
        <5>1. i = 1 /\ state = seed
          BY <2>4, <3>2, <4>2 DEF StoreBooks, CutsTellFate
        <5> QED
          BY <2>3, <2>5, <4>1, <5>1 DEF Replaced
      <4>3. CASE journal # <<>>
        <5>1. i # 1 /\ i - 1 = Len(journal) /\ Len(journal) \in DOMAIN journal
          BY <2>4, <3>2, <4>3
        <5>2. journal'[i - 1] = journal[Len(journal)]
          BY <2>2, <2>3, <2>4, <5>1
        <5>3. state = journal[Len(journal)].after
          BY <4>3 DEF StoreBooks, CutsTellFate
        <5> QED
          BY <2>5, <4>1, <5>1, <5>2, <5>3 DEF Replaced
      <4> QED
        BY <4>2, <4>3
    <3> QED
      BY <2>2, <2>3, <2>4, <3>1, <3>2
  <2> QED
    BY <2>6 DEF SwapReplacesCompared
<1> QED
  BY <1>2, <1>3, <1>4
  DEF ReadsOrDrops, Transaction, CutBefore, StartTimer, ReturnTimer

LEMMA SerialBooksCorrect ==
  ASSUME \A p, q \in Process : p = q
  PROVE  StoreSpec => []SerialBooks
<1>1. StoreInit => SerialBooks
  BY StoreBooksInit DEF SerialBooks, StoreInit, SeenCurrent, SwapReplacesCompared, Idle
<1>2. SerialBooks /\ StoreNext => SerialBooks'
  BY StoreBooksStep, SeenCurrentStep, SwapStep DEF SerialBooks, StoreNext
<1>3. SerialBooks /\ UNCHANGED storeVars => SerialBooks'
  BY StoreBooksStutter
  DEF SerialBooks, SeenCurrent, SwapReplacesCompared, Replaced, storeVars
<1> QED
  BY <1>1, <1>2, <1>3, PTL DEF StoreSpec

(* Where the driver runs one store process at a time, every commit replaces  *)
(* the document it compared, and a timer's return joined to it began from    *)
(* that document.  The row is read before the transaction begins, so that a  *)
(* race breaks both.                                                         *)
THEOREM SwapsAreSwaps ==
  ASSUME \A p, q \in Process : p = q
  PROVE  StoreSpec => [](SwapReplacesCompared /\ JoinedReplacesStart)
<1>1. SerialBooks => JoinedReplacesStart
  <2> SUFFICES ASSUME SerialBooks, NEW r \in returned, r.op # NoOp
               PROVE  \E i \in DOMAIN journal, s \in started :
                        s.inv = r.inv /\ journal[i].op = r.op /\ s.start = Replaced(i)
    BY DEF JoinedReplacesStart
  <2>1. PICK i \in DOMAIN journal, s \in started :
          /\ s.inv = r.inv
          /\ journal[i] = [op |-> r.op, before |-> s.start, after |-> r.state]
    BY DEF SerialBooks, StoreBooks, TimerJoined
  <2>2. journal[i].op = r.op /\ journal[i].before = s.start
    BY <2>1
  <2>3. s.start = Replaced(i)
    BY <2>2 DEF SerialBooks, SwapReplacesCompared
  <2> QED
    BY <2>1, <2>2, <2>3
<1>2. SerialBooks => SwapReplacesCompared
  BY DEF SerialBooks
<1> QED
  BY <1>1, <1>2, SerialBooksCorrect, PTL

(* Under any interleaving of store processes, a timer's return joined to a   *)
(* transaction began from the document that the transaction compared and     *)
(* names in its proof, and is no other timer's.                              *)
THEOREM TimersJoined == StoreSpec => []TimerJoined
<1>1. StoreBooks => TimerJoined
  BY DEF StoreBooks
<1> QED
  BY <1>1, StoreBooksCorrect, PTL

(* Under any interleaving of store processes and crashes, cuts and journal   *)
(* tell the fate of every operation, and the document is the last commit's.  *)
THEOREM FateTold == StoreSpec => []CutsTellFate
<1>1. StoreBooks => CutsTellFate
  BY DEF StoreBooks
<1> QED
  BY <1>1, StoreBooksCorrect, PTL


-----------------------------------------------------------------------------
(* The inductive invariants.                                                 *)

Binding == [op : Op, document : Document, source : Source]

AttemptRow == [source : Source, status : {"rejected", "accepted"}]

AckRow == [source : Source, barrier : Binding]

(* The progress of an acknowledgement.                                       *)
Progress ==
  [kind : {"idle"}]
    \cup [kind : {"attempted"}, row : Nat, source : Source, document : Document]
    \cup [kind : {"bound", "cleared"}, row : Nat, source : Source, barrier : Binding]
    \cup [kind : {"read"}, row : Nat, source : Source, barrier : Binding,
          document : Document]

TransportTypeOK ==
  /\ fetched \subseteq Source /\ acknowledged \subseteq Source
  /\ seededAcks \subseteq Source
  /\ barrier \subseteq Binding
  /\ issued \subseteq Op
  /\ attempts \in Seq(AttemptRow)
  /\ ackCalls \in Seq(AckRow)
  /\ ack \in [AckProcess -> Progress]

(* What each step of an acknowledgement has established, and what no other   *)
(* process can take back.                                                    *)
Earned(r) ==
  /\ r.kind \in {"bound", "read", "cleared"} => r.source \in fetched
  /\ r.kind = "read" => r.document \in Known
  /\ r.kind = "cleared" =>
       /\ Committed(r.barrier.op)
       /\ r.barrier.document \in Known
       /\ r.source \in r.barrier.document.held

ProgressEarned == \A a \in AckProcess : Earned(ack[a])

(* A process at work has an attempt of its own on record, still rejected.    *)
Recorded(r) ==
  r.kind # "idle" =>
    /\ r.row \in DOMAIN attempts
    /\ attempts[r.row] = [source |-> r.source, status |-> "rejected"]

AttemptsOwned ==
  /\ \A a \in AckProcess : Recorded(ack[a])
  /\ \A a, b \in AckProcess :
       ack[a].kind # "idle" /\ ack[b].kind # "idle" /\ ack[a].row = ack[b].row => a = b

(* The accepted attempts are those of the journal, one for each item.        *)
Accepted(i) == attempts[i].status = "accepted"

AttemptsMatchJournal ==
  /\ \A i \in DOMAIN attempts : Accepted(i) =>
       \E j \in DOMAIN ackCalls : ackCalls[j].source = attempts[i].source
  /\ \A j \in DOMAIN ackCalls :
       \E i \in DOMAIN attempts : Accepted(i) /\ attempts[i].source = ackCalls[j].source
  /\ \A i, k \in DOMAIN attempts :
       Accepted(i) /\ Accepted(k) /\ attempts[i].source = attempts[k].source => i = k

(* The flag is set for the seeded items and for those in the journal, once.  *)
FlagsMatchJournal ==
  /\ acknowledged = seededAcks \cup {ackCalls[i].source : i \in DOMAIN ackCalls}
  /\ \A i, j \in DOMAIN ackCalls : ackCalls[i].source = ackCalls[j].source => i = j
  /\ \A i \in DOMAIN ackCalls : ackCalls[i].source \notin seededAcks

DeliveryBooks ==
  /\ StoreBooks
  /\ TransportTypeOK
  /\ ProgressEarned
  /\ AckedAfterTransfer
  /\ AttemptsOwned
  /\ AttemptsMatchJournal
  /\ FlagsMatchJournal

(* With one store process at a time no document has forgotten an item.       *)
HeldGrows ==
  /\ SeenCurrent
  /\ \A d \in Known : d.held \subseteq state.held
-----------------------------------------------------------------------------
(* What the proofs need of the store and of an acknowledgement's record.     *)

(* A record of progress has the fields of its kind.                          *)
LEMMA ProgressFields ==
  ASSUME NEW r \in Progress
  PROVE  /\ r.kind \in {"idle", "attempted", "bound", "read", "cleared"}
         /\ r.kind # "idle" => r.row \in Nat /\ r.source \in Source
         /\ r.kind \in {"bound", "read", "cleared"} => r.barrier \in Binding
         /\ r.kind \in {"attempted", "read"} => r.document \in Document
  BY DEF Progress

(* The document of the store is one the journal or the seed names.           *)
LEMMA StateKnown ==
  ASSUME StoreBooks
  PROVE  state \in Known
<1>1. CASE journal = <<>>
  BY <1>1 DEF StoreBooks, CutsTellFate, Known
<1>2. CASE journal # <<>>
  <2>1. journal \in Seq(JournalRow) /\ state = journal[Len(journal)].after
    BY <1>2 DEF StoreBooks, StoreTypeOK, CutsTellFate
  <2>2. Len(journal) \in DOMAIN journal
    BY <1>2, <2>1
  <2> QED
    BY <2>1, <2>2 DEF Known
<1> QED
  BY <1>1, <1>2

(* What the store has known and committed it does not take back.             *)
StoreGrows ==
  /\ Known \subseteq Known'
  /\ \A op : Committed(op) => Committed(op)'

LEMMA StoreOnlyGrows ==
  ASSUME StoreTypeOK, NEW ops \in SUBSET Op, StoreStep(ops)
  PROVE  StoreGrows
<1>1. CASE seed' = seed /\ journal' = journal
  BY <1>1 DEF StoreGrows, Known, Committed
<1>2. ASSUME NEW p \in Process, NEW q, NEW seen, Transaction(p, q, seen),
             Commit(p, q, seen)
      PROVE  StoreGrows
  <2>1. q \in Request /\ seen \in Document
    BY <1>2, BusyCall DEF Transaction
  <2>2. [op |-> q.op, before |-> seen, after |-> q.after] \in JournalRow
    BY <1>2, <2>1, RequestFields DEF Commit, JournalRow
  <2>3. /\ \A i \in DOMAIN journal : i \in DOMAIN journal' /\ journal'[i] = journal[i]
        /\ seed' = seed
    BY <1>2, <2>2, AppendedRow DEF Commit
  <2> QED
    BY <2>3 DEF StoreGrows, Known, Committed
<1>3. PICK p \in Process :
        ReadsOrDrops(p) \/ Transaction(p, call[p].request, call[p].seen)
  BY StoreStepCases
<1> QED
  BY <1>1, <1>2, <1>3 DEF ReadsOrDrops, Transaction, CutBefore, StartTimer, ReturnTimer

LEMMA StoreIdle == UNCHANGED storeVars => StoreGrows
  BY DEF storeVars, StoreGrows, Known, Committed

(* What was established of an acknowledgement stays so.                      *)
LEMMA EarnedKept ==
  ASSUME StoreGrows, fetched \subseteq fetched', NEW r, Earned(r)
  PROVE  Earned(r)'
  BY DEF StoreGrows, Earned

LEMMA TransferKept ==
  ASSUME AckedAfterTransfer, StoreGrows, fetched \subseteq fetched', ackCalls' = ackCalls
  PROVE  AckedAfterTransfer'
  BY DEF AckedAfterTransfer, StoreGrows

-----------------------------------------------------------------------------
(* The steps.                                                                *)

(* An acknowledgement's record becomes r; the flags, the attempts and the    *)
(* journal stay as they are.                                                 *)
Moves(a, r) ==
  /\ ack' = [ack EXCEPT ![a] = r]
  /\ UNCHANGED <<storeVars, fetched, barrier, issued, acknowledged, seededAcks,
                 attempts, ackCalls>>

(* A process that goes on keeps its attempt and its item.                    *)
LEMMA MoveKeepsBooks ==
  ASSUME DeliveryBooks, NEW a \in AckProcess, NEW r \in Progress, Moves(a, r),
         Earned(r), ack[a].kind # "idle",
         r.kind = "idle" \/ (r.row = ack[a].row /\ r.source = ack[a].source)
  PROVE  DeliveryBooks'
<1>1. StoreBooks'
  BY StoreBooksStutter DEF DeliveryBooks, Moves
<1>2. TransportTypeOK'
  BY DEF DeliveryBooks, TransportTypeOK, Moves
<1>3. StoreGrows
  BY StoreIdle DEF Moves
<1>4. ack \in [AckProcess -> Progress] /\ ack' = [ack EXCEPT ![a] = r]
  BY DEF DeliveryBooks, TransportTypeOK, Moves
<1>5. \A b \in AckProcess : ack'[b] = IF b = a THEN r ELSE ack[b]
  BY <1>4
<1>6. ProgressEarned'
  <2>1. \A b \in AckProcess : Earned(IF b = a THEN r ELSE ack[b])
    BY DEF DeliveryBooks, ProgressEarned
  <2>2. Known' = Known /\ (\A op : Committed(op)' <=> Committed(op)) /\ fetched' = fetched
    BY DEF Moves, storeVars, Known, Committed
  <2> QED
    BY <1>5, <2>1, <2>2 DEF ProgressEarned, Earned
<1>7. AckedAfterTransfer'
  BY <1>3, TransferKept DEF DeliveryBooks, Moves
<1>8. AttemptsOwned'
  BY <1>5 DEF DeliveryBooks, AttemptsOwned, Recorded, Moves
<1>9. AttemptsMatchJournal' /\ FlagsMatchJournal'
  BY DEF DeliveryBooks, AttemptsMatchJournal, FlagsMatchJournal, Accepted, Moves
<1> QED
  BY <1>1, <1>2, <1>6, <1>7, <1>8, <1>9 DEF DeliveryBooks

(* Steps that leave the acknowledgements and their records alone.            *)
LEMMA GrowthKeepsBooks ==
  ASSUME DeliveryBooks, StoreBooks', TransportTypeOK', StoreGrows,
         fetched \subseteq fetched',
         UNCHANGED <<acknowledged, seededAcks, attempts, ackCalls, ack>>
  PROVE  DeliveryBooks'
<1>1. ProgressEarned'
  BY EarnedKept DEF DeliveryBooks, ProgressEarned, Earned
<1>2. AckedAfterTransfer'
  BY TransferKept DEF DeliveryBooks
<1>3. AttemptsOwned'
  BY DEF DeliveryBooks, AttemptsOwned, Recorded
<1>4. AttemptsMatchJournal' /\ FlagsMatchJournal'
  BY DEF DeliveryBooks, AttemptsMatchJournal, FlagsMatchJournal, Accepted
<1> QED
  BY <1>1, <1>2, <1>3, <1>4 DEF DeliveryBooks

LEMMA InitDeliveryBooks == Init => DeliveryBooks
<1> SUFFICES ASSUME Init PROVE DeliveryBooks
  OBVIOUS
<1>1. StoreBooks
  BY StoreBooksInit DEF Init
<1>2. TransportTypeOK
  <2>1. seed \in Document
    BY <1>1 DEF StoreBooks, StoreTypeOK
  <2> QED
    BY <2>1 DEF Init, TransportTypeOK, Document, NoBarrier, Idle, Progress
<1>3. ProgressEarned /\ AttemptsOwned
  BY DEF Init, ProgressEarned, Earned, AttemptsOwned, Recorded, Idle
<1>4. AckedAfterTransfer /\ AttemptsMatchJournal /\ FlagsMatchJournal
  BY DEF Init, AckedAfterTransfer, AttemptsMatchJournal, FlagsMatchJournal
<1> QED
  BY <1>1, <1>2, <1>3, <1>4 DEF DeliveryBooks

LEMMA StoreKeepsBooks ==
  ASSUME DeliveryBooks, StoreStep(issued), UNCHANGED transportVars
  PROVE  DeliveryBooks'
<1>1. issued \in SUBSET Op /\ StoreBooks /\ StoreTypeOK
  BY DEF DeliveryBooks, TransportTypeOK, StoreBooks
<1>2. StoreBooks' /\ StoreGrows
  BY <1>1, StoreBooksStep, StoreOnlyGrows
<1>3. TransportTypeOK'
  BY DEF DeliveryBooks, TransportTypeOK, transportVars
<1> QED
  BY <1>2, <1>3, GrowthKeepsBooks DEF transportVars

LEMMA ConfigureKeepsBooks ==
  ASSUME DeliveryBooks, NEW op \in Op, NEW s \in Source,
         NEW d \in {state} \cup Successors(state), Configure(op, d, s)
  PROVE  DeliveryBooks'
<1>1. d \in Document
  BY SuccessorDocument DEF DeliveryBooks, StoreBooks, StoreTypeOK
<1>2. TransportTypeOK'
  BY <1>1 DEF DeliveryBooks, TransportTypeOK, Configure, Binding
<1> QED
  BY <1>2, StoreBooksStutter, StoreIdle, GrowthKeepsBooks DEF Configure, DeliveryBooks

LEMMA FetchKeepsBooks ==
  ASSUME DeliveryBooks, NEW s \in Source, Fetch(s)
  PROVE  DeliveryBooks'
<1>1. TransportTypeOK'
  BY DEF DeliveryBooks, TransportTypeOK, Fetch
<1> QED
  BY <1>1, StoreBooksStutter, StoreIdle, GrowthKeepsBooks DEF Fetch, DeliveryBooks

LEMMA CompareKeepsBooks ==
  ASSUME DeliveryBooks, NEW a \in AckProcess, Compare(a)
  PROVE  DeliveryBooks'
<1> DEFINE t == ack[a]
           r == IF Bound(t)
                THEN [kind |-> "bound", row |-> t.row, source |-> t.source,
                      barrier |-> CHOOSE b \in barrier : TRUE]
                ELSE Idle
<1>1. Moves(a, r) /\ t.kind = "attempted"
  BY DEF Compare, Moves
<1>2. t \in Progress /\ barrier \subseteq Binding
  BY DEF DeliveryBooks, TransportTypeOK
<1>3. Bound(t) => t.source \in fetched /\ (CHOOSE b \in barrier : TRUE) \in Binding
  BY <1>2 DEF Bound
<1>4. r \in Progress
  BY <1>1, <1>2, <1>3, ProgressFields DEF Progress, Idle
<1>5. Earned(r) /\ (r.kind = "idle" \/ (r.row = t.row /\ r.source = t.source))
  BY <1>3 DEF Earned, Idle
<1> QED
  BY <1>1, <1>4, <1>5, MoveKeepsBooks

LEMMA ReadDocumentKeepsBooks ==
  ASSUME DeliveryBooks, NEW a \in AckProcess, ReadDocument(a)
  PROVE  DeliveryBooks'
<1> DEFINE t == ack[a]
           r == [kind |-> "read", row |-> t.row, source |-> t.source,
                 barrier |-> t.barrier, document |-> state]
<1>1. t \in Progress /\ state \in Document /\ state \in Known
  BY StateKnown DEF DeliveryBooks, TransportTypeOK, StoreBooks, StoreTypeOK
<1>2. Moves(a, r) /\ t.kind = "bound"
  BY DEF ReadDocument, Moves, DeliveryBooks, TransportTypeOK
<1>3. r \in Progress
  BY <1>1, <1>2, ProgressFields DEF Progress
<1>4. Earned(t)
  BY DEF DeliveryBooks, ProgressEarned
<1>5. Earned(r)
  BY <1>1, <1>2, <1>4 DEF Earned
<1> QED
  BY <1>2, <1>3, <1>5, MoveKeepsBooks

LEMMA JudgeKeepsBooks ==
  ASSUME DeliveryBooks, NEW a \in AckProcess, Judge(a)
  PROVE  DeliveryBooks'
<1> DEFINE t == ack[a]
           r == IF Transferred(t)
                THEN [kind |-> "cleared", row |-> t.row, source |-> t.source,
                      barrier |-> t.barrier]
                ELSE Idle
<1>1. Moves(a, r) /\ t.kind = "read"
  BY DEF Judge, Moves, DeliveryBooks, TransportTypeOK
<1>2. t \in Progress
  BY DEF DeliveryBooks, TransportTypeOK
<1>3. r \in Progress
  BY <1>1, <1>2, ProgressFields DEF Progress, Idle
<1>4. Earned(t)
  BY DEF DeliveryBooks, ProgressEarned
<1>5. Earned(r) /\ (r.kind = "idle" \/ (r.row = t.row /\ r.source = t.source))
  BY <1>1, <1>4 DEF Earned, Transferred, Idle
<1> QED
  BY <1>1, <1>3, <1>5, MoveKeepsBooks

LEMMA RefuseSecondKeepsBooks ==
  ASSUME DeliveryBooks, NEW a \in AckProcess, RefuseSecond(a)
  PROVE  DeliveryBooks'
<1>1. Moves(a, Idle) /\ ack[a].kind # "idle"
  BY DEF RefuseSecond, Moves
<1>2. Idle \in Progress /\ Earned(Idle) /\ Idle.kind = "idle"
  BY DEF Progress, Earned, Idle
<1> QED
  BY <1>1, <1>2, MoveKeepsBooks

(* The new attempt's row is the journal's next, and rejected.                *)
LEMMA AttemptKeepsBooks ==
  ASSUME DeliveryBooks, NEW a \in AckProcess, NEW s \in Source, NEW d \in Document,
         Attempt(a, s, d)
  PROVE  DeliveryBooks'
<1> DEFINE row == [source |-> s, status |-> "rejected"]
           n == Len(attempts) + 1
           r == [kind |-> "attempted", row |-> n, source |-> s, document |-> d]
<1>1. /\ attempts \in Seq(AttemptRow) /\ row \in AttemptRow
      /\ ack \in [AckProcess -> Progress]
  BY DEF DeliveryBooks, TransportTypeOK, AttemptRow
<1>2. /\ attempts' = Append(attempts, row) /\ ack' = [ack EXCEPT ![a] = r]
      /\ ack[a].kind = "idle"
      /\ UNCHANGED <<storeVars, fetched, barrier, issued, acknowledged, seededAcks,
                     ackCalls>>
  BY DEF Attempt, FirstStatus
<1>3. /\ n \in Nat /\ n \in DOMAIN attempts' /\ attempts'[n] = row
      /\ \A i \in DOMAIN attempts : i # n /\ i \in DOMAIN attempts'
                                    /\ attempts'[i] = attempts[i]
      /\ \A i \in DOMAIN attempts' : i = n \/ i \in DOMAIN attempts
      /\ attempts' \in Seq(AttemptRow)
  BY <1>1, <1>2
<1>4. \A b \in AckProcess : ack'[b] = IF b = a THEN r ELSE ack[b]
  BY <1>1, <1>2
<1>5. r \in Progress /\ r.kind = "attempted" /\ r.row = n /\ r.source = s
  BY <1>3 DEF Progress
<1> HIDE DEF r, n, row
<1>6. StoreBooks'
  BY <1>2, StoreBooksStutter DEF DeliveryBooks
<1>7. TransportTypeOK'
  BY <1>1, <1>2, <1>3, <1>5 DEF DeliveryBooks, TransportTypeOK
<1>8. ProgressEarned'
  <2>1. \A b \in AckProcess : Earned(ack[b]) /\ Earned(r)
    BY <1>5 DEF DeliveryBooks, ProgressEarned, Earned
  <2>2. Known' = Known /\ (\A op : Committed(op)' <=> Committed(op)) /\ fetched' = fetched
    BY <1>2 DEF storeVars, Known, Committed
  <2> QED
    BY <1>4, <2>1, <2>2 DEF ProgressEarned, Earned
<1>9. AckedAfterTransfer'
  BY <1>2, StoreIdle, TransferKept DEF DeliveryBooks
<1>10. AttemptsOwned'
  <2>1. \A b \in AckProcess : Recorded(ack[b])
    BY DEF DeliveryBooks, AttemptsOwned
  <2>2. \A b \in AckProcess \ {a} : ack[b].kind # "idle" => ack[b].row # n
    BY <1>3, <2>1 DEF Recorded
  <2>3. \A b \in AckProcess : Recorded(ack[b])'
    <3> TAKE b \in AckProcess
    <3>1. CASE b = a
      <4>1. n \in DOMAIN attempts' /\ ack'[a] = r
        BY <1>3, <1>4
      <4>2. attempts'[n] = [source |-> r.source, status |-> "rejected"]
        BY <1>3, <1>5 DEF row
      <4> QED
        BY <1>5, <3>1, <4>1, <4>2 DEF Recorded
    <3>2. CASE b # a
      BY <1>3, <1>4, <2>1, <3>2 DEF Recorded
    <3> QED
      BY <3>1, <3>2
  <2> QED
    BY <1>4, <1>5, <2>2, <2>3 DEF DeliveryBooks, AttemptsOwned
<1>11. AttemptsMatchJournal'
  <2>1. row.status = "rejected"
    BY DEF row
  <2> QED
    BY <1>2, <1>3, <2>1 DEF DeliveryBooks, AttemptsMatchJournal, Accepted
<1>12. FlagsMatchJournal'
  BY <1>2 DEF DeliveryBooks, FlagsMatchJournal
<1> QED
  BY <1>6, <1>7, <1>8, <1>9, <1>10, <1>11, <1>12 DEF DeliveryBooks

(* The flag, the journal's row and the attempt's status change together.     *)
LEMMA AcknowledgeKeepsBooks ==
  ASSUME DeliveryBooks, NEW a \in AckProcess, Acknowledge(a)
  PROVE  DeliveryBooks'
<1>1. /\ attempts \in Seq(AttemptRow) /\ ackCalls \in Seq(AckRow)
      /\ ack \in [AckProcess -> Progress] /\ ack[a] \in Progress
      /\ acknowledged \subseteq Source /\ ack[a].kind = "cleared"
  BY DEF DeliveryBooks, TransportTypeOK, Acknowledge
<1>2. Recorded(ack[a])
  BY DEF DeliveryBooks, AttemptsOwned
<1>3. PICK n \in DOMAIN attempts, s \in Source, c \in AckRow :
        /\ n = ack[a].row /\ s = ack[a].source
        /\ c = [source |-> s, barrier |-> ack[a].barrier]
  BY <1>1, <1>2, ProgressFields DEF AckRow, Recorded
<1>4. /\ s \notin acknowledged
      /\ acknowledged' = acknowledged \cup {s}
      /\ ackCalls' = Append(ackCalls, c)
      /\ attempts' = [attempts EXCEPT ![n].status = "accepted"]
      /\ ack' = [ack EXCEPT ![a] = Idle]
      /\ UNCHANGED <<storeVars, fetched, barrier, issued, seededAcks>>
  BY <1>3 DEF Acknowledge, FlagClear
<1>5. c.source = s /\ attempts[n] = [source |-> s, status |-> "rejected"]
  BY <1>1, <1>2, <1>3 DEF Recorded
<1>6. /\ s \in fetched /\ Committed(c.barrier.op) /\ c.barrier.document \in Known
      /\ s \in c.barrier.document.held
  BY <1>1, <1>3 DEF DeliveryBooks, ProgressEarned, Earned
<1>7. \A b \in AckProcess : ack'[b] = IF b = a THEN Idle ELSE ack[b]
  BY <1>1, <1>4
<1>8. /\ DOMAIN attempts' = DOMAIN attempts
      /\ attempts'[n] = [source |-> s, status |-> "accepted"]
      /\ \A i \in DOMAIN attempts : i # n => attempts'[i] = attempts[i]
      /\ attempts' \in Seq(AttemptRow)
  <2>1. attempts' = [attempts EXCEPT ![n] = [attempts[n] EXCEPT !.status = "accepted"]]
    BY <1>4
  <2>2. [attempts[n] EXCEPT !.status = "accepted"] = [source |-> s, status |-> "accepted"]
    BY <1>5
  <2>3. [source |-> s, status |-> "accepted"] \in AttemptRow
    BY DEF AttemptRow
  <2> QED
    BY <1>1, <2>1, <2>2, <2>3
<1>9. /\ Len(ackCalls') \in DOMAIN ackCalls' /\ ackCalls'[Len(ackCalls')] = c
      /\ \A j \in DOMAIN ackCalls : j \in DOMAIN ackCalls' /\ ackCalls'[j] = ackCalls[j]
                                    /\ j # Len(ackCalls')
      /\ \A j \in DOMAIN ackCalls' : j = Len(ackCalls') \/ j \in DOMAIN ackCalls
      /\ ackCalls' \in Seq(AckRow)
  BY <1>1, <1>4
<1>10. \A j \in DOMAIN ackCalls : ackCalls[j].source # s
  BY <1>4 DEF DeliveryBooks, FlagsMatchJournal
<1>11. \A i \in DOMAIN attempts : Accepted(i) => attempts[i].source # s
  BY <1>10 DEF DeliveryBooks, AttemptsMatchJournal
<1>12. StoreBooks'
  BY <1>4, StoreBooksStutter DEF DeliveryBooks
<1>13. TransportTypeOK'
  <2>1. Idle \in Progress
    BY DEF Idle, Progress
  <2> QED
    BY <1>1, <1>4, <1>8, <1>9, <2>1 DEF DeliveryBooks, TransportTypeOK
<1>14. Known' = Known /\ (\A op : Committed(op)' <=> Committed(op)) /\ fetched' = fetched
  BY <1>4 DEF storeVars, Known, Committed
<1>15. ProgressEarned'
  <2>1. \A b \in AckProcess : Earned(ack[b]) /\ Earned(Idle)
    BY DEF DeliveryBooks, ProgressEarned, Earned, Idle
  <2> QED
    BY <1>7, <1>14, <2>1 DEF ProgressEarned, Earned
<1>16. AckedAfterTransfer'
  <2>1. \A j \in DOMAIN ackCalls' : j \in DOMAIN ackCalls \/ ackCalls'[j] = c
    BY <1>9
  <2> QED
    BY <1>5, <1>6, <1>9, <1>14, <2>1 DEF DeliveryBooks, AckedAfterTransfer
<1>17. AttemptsOwned'
  <2>1. \A b \in AckProcess \ {a} : ack[b].kind # "idle" => ack[b].row # n
    BY <1>1, <1>3 DEF DeliveryBooks, AttemptsOwned
  <2>2. \A b \in AckProcess : Recorded(ack[b])'
    <3> TAKE b \in AckProcess
    <3>1. CASE b = a
      BY <1>7, <3>1 DEF Recorded, Idle
    <3>2. CASE b # a
      BY <1>7, <1>8, <2>1, <3>2 DEF DeliveryBooks, AttemptsOwned, Recorded
    <3> QED
      BY <3>1, <3>2
  <2> QED
    BY <1>7, <2>2 DEF DeliveryBooks, AttemptsOwned, Idle
<1>18. AttemptsMatchJournal'
  <2>1. attempts'[n].source = s /\ Accepted(n)' /\ ~Accepted(n)
    BY <1>5, <1>8 DEF Accepted
  <2>2. \A i \in DOMAIN attempts : i # n =>
          (Accepted(i)' <=> Accepted(i)) /\ attempts'[i].source = attempts[i].source
    BY <1>8 DEF Accepted
  <2>3. \A i \in DOMAIN attempts' : Accepted(i)' =>
          \E j \in DOMAIN ackCalls' : ackCalls'[j].source = attempts'[i].source
    <3> SUFFICES ASSUME NEW i \in DOMAIN attempts', Accepted(i)'
                 PROVE  \E j \in DOMAIN ackCalls' : ackCalls'[j].source = attempts'[i].source
      OBVIOUS
    <3>1. CASE i = n
      BY <1>5, <1>9, <2>1, <3>1
    <3>2. CASE i # n
      <4>1. i \in DOMAIN attempts /\ Accepted(i) /\ attempts'[i].source = attempts[i].source
        BY <1>8, <2>2, <3>2
      <4>2. PICK j \in DOMAIN ackCalls : ackCalls[j].source = attempts[i].source
        BY <4>1 DEF DeliveryBooks, AttemptsMatchJournal
      <4> QED
        BY <1>9, <4>1, <4>2
    <3> QED
      BY <3>1, <3>2
  <2>4. \A j \in DOMAIN ackCalls' :
          \E i \in DOMAIN attempts' : Accepted(i)' /\ attempts'[i].source = ackCalls'[j].source
    <3> TAKE j \in DOMAIN ackCalls'
    <3>1. CASE j \in DOMAIN ackCalls
      <4>1. PICK i \in DOMAIN attempts : Accepted(i) /\ attempts[i].source = ackCalls[j].source
        BY <3>1 DEF DeliveryBooks, AttemptsMatchJournal
      <4>2. i # n
        BY <2>1, <4>1
      <4> QED
        BY <1>8, <1>9, <2>2, <3>1, <4>1, <4>2
    <3>2. CASE j = Len(ackCalls')
      <4>1. ackCalls'[j].source = s /\ n \in DOMAIN attempts'
        BY <1>5, <1>8, <1>9, <3>2
      <4> QED
        BY <2>1, <4>1
    <3> QED
      BY <1>9, <3>1, <3>2
  <2>5. \A i, k \in DOMAIN attempts' :
          Accepted(i)' /\ Accepted(k)' /\ attempts'[i].source = attempts'[k].source => i = k
    BY <1>8, <1>11, <2>1, <2>2 DEF DeliveryBooks, AttemptsMatchJournal
  <2> QED
    BY <2>3, <2>4, <2>5 DEF AttemptsMatchJournal
<1>19. FlagsMatchJournal'
  <2>1. {ackCalls'[j].source : j \in DOMAIN ackCalls'}
          = {ackCalls[j].source : j \in DOMAIN ackCalls} \cup {s}
    BY <1>5, <1>9
  <2>2. \A i, j \in DOMAIN ackCalls' : ackCalls'[i].source = ackCalls'[j].source => i = j
    BY <1>5, <1>9, <1>10 DEF DeliveryBooks, FlagsMatchJournal
  <2>3. s \notin seededAcks
    BY <1>4 DEF DeliveryBooks, FlagsMatchJournal
  <2> QED
    BY <1>4, <1>5, <1>9, <2>1, <2>2, <2>3 DEF DeliveryBooks, FlagsMatchJournal
<1> QED
  BY <1>12, <1>13, <1>15, <1>16, <1>17, <1>18, <1>19 DEF DeliveryBooks

LEMMA NextKeepsBooks == DeliveryBooks /\ [Next]_vars => DeliveryBooks'
<1> SUFFICES ASSUME DeliveryBooks, [Next]_vars PROVE DeliveryBooks'
  OBVIOUS
<1>1. CASE StoreStep(issued) /\ UNCHANGED transportVars
  BY <1>1, StoreKeepsBooks
<1>2. CASE \E op \in Op, s \in Source, d \in {state} \cup Successors(state) :
             Configure(op, d, s)
  BY <1>2, ConfigureKeepsBooks
<1>3. CASE \E s \in Source : Fetch(s)
  BY <1>3, FetchKeepsBooks
<1>4. ASSUME NEW a \in AckProcess, NEW s \in Source, NEW b \in barrier,
             Attempt(a, s, b.document)
      PROVE  DeliveryBooks'
  <2>1. b \in Binding
    BY DEF DeliveryBooks, TransportTypeOK
  <2>2. b.document \in Document
    BY <2>1 DEF Binding
  <2> QED
    BY <1>4, <2>2, AttemptKeepsBooks
<1>5. ASSUME NEW a \in AckProcess,
             \/ Compare(a) \/ ReadDocument(a) \/ Judge(a)
             \/ Acknowledge(a) \/ RefuseSecond(a)
      PROVE  DeliveryBooks'
  BY <1>5, CompareKeepsBooks, ReadDocumentKeepsBooks, JudgeKeepsBooks,
     AcknowledgeKeepsBooks, RefuseSecondKeepsBooks
<1>6. CASE UNCHANGED vars
  <2>1. UNCHANGED storeVars /\ UNCHANGED transportVars
    BY <1>6 DEF vars
  <2>2. TransportTypeOK'
    BY <2>1 DEF DeliveryBooks, TransportTypeOK, transportVars
  <2> QED
    BY <2>1, <2>2, StoreBooksStutter, StoreIdle, GrowthKeepsBooks
    DEF DeliveryBooks, transportVars
<1> QED
  BY <1>1, <1>2, <1>3, <1>4, <1>5, <1>6 DEF Next

LEMMA BooksCorrect == Spec => []DeliveryBooks
  BY InitDeliveryBooks, NextKeepsBooks, PTL DEF Spec

-----------------------------------------------------------------------------
(* The properties.                                                           *)

(* Sets of at most one place each, empty together, have one cardinality.     *)
LEMMA SameCount ==
  ASSUME NEW S, NEW T, \A x, y \in S : x = y, \A x, y \in T : x = y, S = {} <=> T = {}
  PROVE  Cardinality(S) = Cardinality(T)
<1>1. CASE S = {}
  BY <1>1
<1>2. CASE S # {}
  <2>1. PICK x \in S, y \in T : TRUE
    BY <1>2
  <2>2. S = {x} /\ T = {y}
    BY <2>1
  <2> QED
    BY <2>2, FS_Singleton
<1> QED
  BY <1>1, <1>2

(* Whatever the store does between the steps of an acknowledgement, behind   *)
(* every one is a fetch, a committed operation of the driver, and a document *)
(* of the store that held the item.                                          *)
THEOREM TransferBeforeAck == Spec => []AckedAfterTransfer
<1>1. DeliveryBooks => AckedAfterTransfer
  BY DEF DeliveryBooks
<1> QED
  BY <1>1, BooksCorrect, PTL

(* However many acknowledgements of an item run at once, one is accepted:    *)
(* flag, journal and attempts agree.                                         *)
THEOREM OneAckAccepted == Spec => []AckedOnce
<1>1. DeliveryBooks => AckedOnce
  <2> SUFFICES ASSUME DeliveryBooks PROVE AckedOnce
    OBVIOUS
  <2>1. ASSUME NEW s \in Source
        PROVE  Quantify(DOMAIN attempts,
                 LAMBDA i : attempts[i].source = s /\ attempts[i].status = "accepted")
                 = Quantify(DOMAIN ackCalls, LAMBDA i : ackCalls[i].source = s)
    <3> DEFINE S == {i \in DOMAIN attempts :
                       attempts[i].source = s /\ attempts[i].status = "accepted"}
               T == {i \in DOMAIN ackCalls : ackCalls[i].source = s}
    <3>1. (\A x, y \in S : x = y) /\ (\A x, y \in T : x = y)
      BY DEF DeliveryBooks, AttemptsMatchJournal, FlagsMatchJournal, Accepted
    <3>2. S = {} <=> T = {}
      BY DEF DeliveryBooks, AttemptsMatchJournal, Accepted
    <3>3. Cardinality(S) = Cardinality(T)
      <4> HIDE DEF S, T
      <4> QED
        BY <3>1, <3>2, SameCount
    <3> QED
      BY <3>3 DEF Quantify
  <2> QED
    BY <2>1 DEF DeliveryBooks, FlagsMatchJournal, AckedOnce
<1> QED
  BY <1>1, BooksCorrect, PTL

(* A store process commits over the document it read.                        *)
LEMMA HeldGrowsStore ==
  ASSUME \A p, q \in Process : p = q, StoreBooks, HeldGrows,
         NEW ops \in SUBSET Op, StoreStep(ops)
  PROVE  HeldGrows'
<1>1. StoreTypeOK /\ call \in [Process -> Call]
  BY DEF StoreBooks, StoreTypeOK
<1>2. PICK p \in Process :
        ReadsOrDrops(p) \/ Transaction(p, call[p].request, call[p].seen)
  BY <1>1, StoreStepCases
<1>3. SeenCurrent'
  BY SeenCurrentStep DEF HeldGrows
<1>4. CASE ReadsOrDrops(p)
  BY <1>3, <1>4 DEF ReadsOrDrops, HeldGrows, Known
<1>5. CASE Transaction(p, call[p].request, call[p].seen)
  <2> DEFINE q == call[p].request
             seen == call[p].seen
  <2>1. q \in Request /\ seen = state /\ state \in Document
    BY <1>1, <1>5, BusyCall DEF Transaction, HeldGrows, SeenCurrent, StoreTypeOK
  <2>2. CASE Commit(p, q, seen)
    <3>1. /\ q.after \in Successors(state) /\ state' = q.after
          /\ q.op \in Op /\ q.after \in Document
      BY <2>1, <2>2, RequestFields DEF Commit, CommitAllowed, ExpectationMet
    <3>2. state.held \subseteq state'.held
      BY <2>1, <3>1, SuccessorDocument
    <3>3. [op |-> q.op, before |-> seen, after |-> q.after] \in JournalRow
      BY <2>1, <3>1 DEF JournalRow
    <3>4. Known' \subseteq Known \cup {state'}
      <4>1. \A i \in DOMAIN journal' :
              \/ i \in DOMAIN journal /\ journal'[i] = journal[i]
              \/ journal'[i].after = q.after
        BY <1>1, <2>2, <3>3, AppendedRow DEF Commit
      <4> QED
        BY <2>2, <3>1, <4>1 DEF Known, Commit
    <3> QED
      BY <1>3, <3>2, <3>4 DEF HeldGrows
  <2>3. CASE ~Commit(p, q, seen)
    <3>1. UNCHANGED <<seed, state, journal>>
      BY <1>5, <2>3 DEF Transaction, CutBefore, StartTimer, ReturnTimer
    <3> QED
      BY <1>3, <3>1 DEF HeldGrows, Known
  <2> QED
    BY <2>2, <2>3
<1> QED
  BY <1>2, <1>4, <1>5

(* Where the driver runs one store process at a time, no later document      *)
(* forgets an acknowledged item: the source may.                             *)
THEOREM AckedItemsStayHeld ==
  ASSUME \A p, q \in Process : p = q
  PROVE  Spec => []AckedStaysHeld
<1>1. Init => HeldGrows
  BY DEF Init, StoreInit, HeldGrows, SeenCurrent, Known, Idle
<1>2. DeliveryBooks /\ HeldGrows /\ [Next]_vars => HeldGrows'
  <2> SUFFICES ASSUME DeliveryBooks, HeldGrows, [Next]_vars PROVE HeldGrows'
    OBVIOUS
  <2>1. CASE StoreStep(issued)
    BY <2>1, HeldGrowsStore DEF DeliveryBooks, TransportTypeOK
  <2>2. CASE UNCHANGED storeVars
    BY <2>2 DEF storeVars, HeldGrows, SeenCurrent, Known
  <2>3. StoreStep(issued) \/ UNCHANGED storeVars
    <3>1. \A a : ( \/ Compare(a) \/ ReadDocument(a) \/ Judge(a)
                   \/ Acknowledge(a) \/ RefuseSecond(a) ) => UNCHANGED storeVars
      BY DEF Compare, ReadDocument, Judge, Acknowledge, RefuseSecond
    <3>2. \A a, s, d : Attempt(a, s, d) \/ Fetch(s) => UNCHANGED storeVars
      BY DEF Attempt, Fetch
    <3>3. \A op, s, d : Configure(op, d, s) => UNCHANGED storeVars
      BY DEF Configure
    <3> QED
      BY <3>1, <3>2, <3>3 DEF Next, vars
  <2> QED
    BY <2>1, <2>2, <2>3
<1>3. DeliveryBooks /\ HeldGrows => AckedStaysHeld
  BY DEF DeliveryBooks, AckedAfterTransfer, HeldGrows, AckedStaysHeld
<1> QED
  BY <1>1, <1>2, <1>3, BooksCorrect, PTL DEF Spec
=============================================================================
