--------------------------- MODULE TransferProofs ----------------------------
(***************************************************************************)
(* Theorems about the two ways an aggregate leaves the place it is in.       *)
(* First Recovery, which hands it to another host, for any table of cases,   *)
(* any plan of the source and any number of wrong commits, retries and       *)
(* upgrades of the bridge; then Aggregate and AggregateMigration, which give  *)
(* it another definition while it goes on, for any definitions of the charts, *)
(* capacities, requests, routes and maintenance operations.                  *)
(***************************************************************************)
EXTENDS Recovery, AggregateMigration, SequenceTheorems, FiniteSetTheorems,
        WellFoundedInduction, TLAPS

-----------------------------------------------------------------------------
(* The shapes of what the store and the driver keep.                         *)

SourceLog == Seq({"freeze", "commit"})

Document(s) == "slog" \in DOMAIN s /\ s.slog \in SourceLog

IsSequence(s) == \E S : s \in Seq(S)

CallForm ==
  call # NoCall =>
    /\ "before" \in DOMAIN call /\ Document(call.before.state)
    /\ verdict = "running" /\ todo # <<>>

(* A reference is what was frozen, or that same source once it was retired.  *)
FrozenScope == [st |-> "frozen", auth |-> 0, home |-> TRUE, fenced |-> FALSE]
RetiredScope == [st |-> "retired", auth |-> 1, home |-> TRUE, fenced |-> TRUE]

RetiredOnce(r) ==
  /\ r.scope = RetiredScope
  /\ \E k \in DOMAIN r.slog : {i \in DOMAIN r.slog : r.slog[i] = "commit"} = {k}

Reference(r) ==
  /\ {"scope", "inv", "built", "slog"} \subseteq DOMAIN r
  /\ r.inv = "archive" /\ r.built = SourceOperations /\ r.slog \in SourceLog
  /\ r.scope = FrozenScope \/ RetiredOnce(r)

-----------------------------------------------------------------------------
(* The calls that are still to be made.                                      *)

Early == {"source_operation", "source_freeze"}
OfSource == Early \cup {"archive_export", "source_fault_cut"}
Phases == OfSource \cup {"archive_stage", "scope_terminate", "recovery"}
Name == STRING \cup {"standalone_takeover", None}
CallRecord == [phase : Phases, name : Name]

(* The source's life comes first and is left out of a case without one.      *)
Agenda(s, l) ==
  /\ s \in Seq(CallRecord)
  /\ \A i, j \in DOMAIN s : s[i] = s[j] => i = j
  /\ s # <<>> => s[Len(s)] = [phase |-> "recovery", name |-> l]
  /\ \A i \in DOMAIN s :
       IF Case[l].local THEN s[i].phase # "scope_terminate" ELSE s[i].phase \notin OfSource
  /\ \A i \in DOMAIN s :
       s[i] = [phase |-> "recovery", name |-> "local_activate"] =>
         Case[l].local /\ Case["local_activate"].op = "activate_import"

Freezes(s) ==
  \E i \in DOMAIN s :
    /\ s[i].phase = "source_freeze"
    /\ \A j \in DOMAIN s : /\ j < i => s[j].phase = "source_operation"
                           /\ i < j => s[j].phase \notin Early

PlanBooks ==
  /\ label \in DOMAIN Case
  /\ Agenda(todo, label)
  /\ ref # NoRef => Case[label].local /\ \A i \in DOMAIN todo : todo[i].phase \notin Early
  /\ Case[label].local /\ ref = NoRef => Freezes(todo)
  /\ verdict = "passed" => todo = <<>>

-----------------------------------------------------------------------------
(* The source is as the reference says, where the driver looked last.        *)
Sourced(s) ==
  /\ s.scope = ref.scope /\ s.slog = ref.slog
  /\ s.inv = ref.inv /\ s.built = ref.built /\ ~s.claims

SourceBooks ==
  /\ ref # NoRef => Reference(ref)
  /\ AcceptedCase("local_activate") => ref # NoRef /\ RetiredOnce(ref)
  /\ ref # NoRef /\ verdict # "failed" =>
       /\ call = NoCall => Sourced(native)
       /\ call # NoCall => Sourced(call.before.state)
  /\ call # NoCall /\ Head(todo).phase = "source_freeze" =>
       LiveInventory(call.before.state)

(* What is on the journal was asked for by a call that is over, or by the    *)
(* one under way, which has changed the document exactly then.               *)
Over(n) ==
  \A i \in 1 .. n : \A j \in DOMAIN todo : transactions[i].request # todo[j]

JournalBooks ==
  /\ IsSequence(transactions)
  /\ \A i, j \in DOMAIN transactions :
       transactions[i].request = transactions[j].request => i = j
  /\ call # NoCall =>
       LET n == Len(call.before.transactions)
       IN  /\ n \in Nat /\ Over(n)
           /\ \/ Len(transactions) = n /\ native = call.before.state
              \/ /\ Len(transactions) = n + 1 /\ native # call.before.state
                 /\ transactions[n + 1].request = Head(todo)
  /\ call = NoCall /\ verdict # "failed" => Over(Len(transactions))
  /\ verdict # "failed" /\ todo = <<>> /\ (~Case[label].succeeds \/ Case[label].reads) =>
       \A i \in DOMAIN transactions :
         transactions[i].request # [phase |-> "recovery", name |-> label]

RecoveryBooks ==
  /\ Document(native) /\ CallForm /\ PlanBooks /\ SourceBooks /\ JournalBooks

-----------------------------------------------------------------------------
(* Sequences.                                                                *)

LEMMA Lengths ==
  ASSUME NEW S, NEW s \in Seq(S)
  PROVE  /\ Len(s) \in Nat /\ DOMAIN s = 1 .. Len(s)
         /\ \A i \in DOMAIN s : s[i] \in S
         /\ s = <<>> <=> Len(s) = 0
  BY LenProperties, ElementOfSeq, EmptySeq

LEMMA Joined ==
  ASSUME NEW S, NEW s \in Seq(S), NEW t \in Seq(S)
  PROVE  /\ s \o t \in Seq(S) /\ Len(s \o t) = Len(s) + Len(t)
         /\ \A i \in DOMAIN s : i \in DOMAIN (s \o t) /\ (s \o t)[i] = s[i]
         /\ \A j \in DOMAIN t : /\ Len(s) + j \in DOMAIN (s \o t)
                                /\ (s \o t)[Len(s) + j] = t[j]
         /\ \A i \in DOMAIN (s \o t) :
              i \in DOMAIN s \/ \E j \in DOMAIN t : i = Len(s) + j
<1> DEFINE u == s \o t
<1>1. /\ u \in Seq(S) /\ Len(u) = Len(s) + Len(t)
      /\ \A i \in 1 .. Len(s) + Len(t) : u[i] = IF i <= Len(s) THEN s[i] ELSE t[i - Len(s)]
  BY ConcatProperties
<1>2. /\ Len(s) \in Nat /\ Len(t) \in Nat /\ DOMAIN s = 1 .. Len(s) /\ DOMAIN t = 1 .. Len(t)
      /\ DOMAIN u = 1 .. Len(s) + Len(t)
  BY <1>1, Lengths
<1> HIDE DEF u
<1>3. \A i \in DOMAIN s : i \in DOMAIN u /\ u[i] = s[i]
  BY <1>1, <1>2
<1>4. \A j \in DOMAIN t : Len(s) + j \in DOMAIN u /\ u[Len(s) + j] = t[j]
  BY <1>1, <1>2
<1>5. \A i \in DOMAIN u : i \in DOMAIN s \/ \E j \in DOMAIN t : i = Len(s) + j
  <2>1. SUFFICES ASSUME NEW i \in DOMAIN u, i \notin DOMAIN s
                 PROVE  \E j \in DOMAIN t : i = Len(s) + j
    OBVIOUS
  <2>2. i - Len(s) \in DOMAIN t /\ i = Len(s) + (i - Len(s))
    BY <2>1, <1>2
  <2> QED
    BY <2>2
<1> QED
  BY <1>1, <1>3, <1>4, <1>5 DEF u

Distinct(s) == \A i, j \in DOMAIN s : s[i] = s[j] => i = j

LEMMA JoinedDistinct ==
  ASSUME NEW S, NEW T, NEW s \in Seq(S), NEW t \in Seq(T), Distinct(s), Distinct(t),
         S \cap T = {}
  PROVE  Distinct(s \o t)
<1>1. s \in Seq(S \cup T) /\ t \in Seq(S \cup T)
  BY SeqMonotonic
<1>2. \A i \in DOMAIN s, j \in DOMAIN t : s[i] # t[j]
  BY Lengths
<1> SUFFICES ASSUME NEW i \in DOMAIN (s \o t), NEW j \in DOMAIN (s \o t),
                    (s \o t)[i] = (s \o t)[j]
             PROVE  i = j
  BY DEF Distinct
<1>3. CASE i \in DOMAIN s /\ j \in DOMAIN s
  BY <1>1, <1>3, Joined DEF Distinct
<1>4. ASSUME i \in DOMAIN s, NEW l \in DOMAIN t, j = Len(s) + l PROVE FALSE
  BY <1>1, <1>2, <1>4, Joined
<1>5. ASSUME j \in DOMAIN s, NEW k \in DOMAIN t, i = Len(s) + k PROVE FALSE
  BY <1>1, <1>2, <1>5, Joined
<1>6. ASSUME NEW k \in DOMAIN t, NEW l \in DOMAIN t, i = Len(s) + k, j = Len(s) + l
      PROVE  i = j
  <2>1. t[k] = t[l]
    BY <1>1, <1>6, Joined
  <2> QED
    BY <1>6, <2>1 DEF Distinct
<1> QED
  BY <1>1, <1>3, <1>4, <1>5, <1>6, Joined

(* Sequences of one and of two.                                              *)
LEMMA Single ==
  ASSUME NEW S, NEW e \in S
  PROVE  <<e>> \in Seq(S) /\ Len(<<e>>) = 1 /\ <<e>>[1] = e /\ Distinct(<<e>>)
  BY DEF Distinct

LEMMA Pair ==
  ASSUME NEW S, NEW e \in S, NEW f \in S, e # f
  PROVE  /\ <<e, f>> \in Seq(S) /\ Len(<<e, f>>) = 2 /\ DOMAIN <<e, f>> = {1, 2}
         /\ <<e, f>>[1] = e /\ <<e, f>>[2] = f /\ Distinct(<<e, f>>)
  BY DEF Distinct

LEMMA Within ==
  ASSUME NEW S, NEW s \in Seq(S), NEW T, \A i \in DOMAIN s : s[i] \in T
  PROVE  s \in Seq(T)
<1>1. Len(s) \in Nat /\ DOMAIN s = 1 .. Len(s) /\ s \in [1 .. Len(s) -> S]
  BY LenProperties
<1>2. s \in [1 .. Len(s) -> T]
  BY <1>1
<1>3. [1 .. Len(s) -> T] \in {[1 .. n -> T] : n \in Nat}
  BY <1>1
<1>4. s \in UNION {[1 .. n -> T] : n \in Nat}
  BY <1>2, <1>3
<1> QED
  BY <1>4, SeqDef

LEMMA Behind ==
  ASSUME NEW S, NEW s \in Seq(S), s # <<>>
  PROVE  /\ Head(s) = s[1] /\ 1 \in DOMAIN s /\ Tail(s) \in Seq(S)
         /\ \A i \in DOMAIN Tail(s) : i + 1 \in DOMAIN s /\ Tail(s)[i] = s[i + 1]
         /\ \A i \in DOMAIN s : i # 1 => i - 1 \in DOMAIN Tail(s) /\ Tail(s)[i - 1] = s[i]
         /\ Len(Tail(s)) = Len(s) - 1
<1>1. /\ Tail(s) \in Seq(S) /\ Len(Tail(s)) = Len(s) - 1
      /\ \A i \in 1 .. Len(Tail(s)) : Tail(s)[i] = s[i + 1]
  BY HeadTailProperties
<1>2. /\ Len(s) \in Nat \ {0} /\ DOMAIN s = 1 .. Len(s)
      /\ DOMAIN Tail(s) = 1 .. Len(s) - 1
  BY <1>1, Lengths
<1>3. Head(s) = s[1]
  OBVIOUS
<1>4. \A i \in DOMAIN s : i # 1 => i - 1 \in DOMAIN Tail(s) /\ Tail(s)[i - 1] = s[i]
  <2>1. SUFFICES ASSUME NEW i \in DOMAIN s, i # 1
                 PROVE  i - 1 \in DOMAIN Tail(s) /\ Tail(s)[i - 1] = s[i]
    OBVIOUS
  <2>2. i - 1 \in 1 .. Len(s) - 1 /\ (i - 1) + 1 = i
    BY <2>1, <1>2
  <2> QED
    BY <2>2, <1>1, <1>2
<1> QED
  BY <1>1, <1>2, <1>3, <1>4

-----------------------------------------------------------------------------
(* The agenda of a case, as its driver starts.                               *)

Named(phases, names) == [phase : phases, name : names]

LEMMA CallsMade ==
  ASSUME NEW p, NEW N, NEW names \in Seq(N), Distinct(names)
  PROVE  /\ Calls(p, names) \in Seq(Named({p}, N)) /\ Len(Calls(p, names)) = Len(names)
         /\ \A i \in DOMAIN names : Calls(p, names)[i] = [phase |-> p, name |-> names[i]]
         /\ Distinct(Calls(p, names))
<1> DEFINE s == [i \in 1 .. Len(names) |-> [phase |-> p, name |-> names[i]]]
<1>1. Len(names) \in Nat /\ DOMAIN names = 1 .. Len(names) /\ \A i \in DOMAIN names : names[i] \in N
  BY Lengths
<1>2. s = Calls(p, names)
  BY <1>1 DEF Calls
<1>3. \A i \in 1 .. Len(names) : [phase |-> p, name |-> names[i]] \in Named({p}, N)
  BY <1>1 DEF Named
<1>4. s \in [1 .. Len(names) -> Named({p}, N)]
  BY <1>3
<1>5. s \in Seq(Named({p}, N)) /\ Len(s) = Len(names)
  <2>1. s \in Seq(Named({p}, N)) /\ DOMAIN s = 1 .. Len(names)
    <3> DEFINE T == Named({p}, N)
    <3>1. s \in [1 .. Len(names) -> T] /\ Len(names) \in Nat
      BY <1>1, <1>4
    <3>2. DOMAIN s = 1 .. Len(names)
      OBVIOUS
    <3> HIDE DEF s, T
    <3>3. [1 .. Len(names) -> T] \in {[1 .. n -> T] : n \in Nat}
      BY <3>1
    <3>4. s \in UNION {[1 .. n -> T] : n \in Nat}
      BY <3>1, <3>3
    <3>5. s \in Seq(T)
      BY <3>4, SeqDef
    <3> QED
      BY <3>2, <3>5 DEF T
  <2> HIDE DEF s
  <2> QED
    BY <2>1, <1>1, LenProperties
<1>6. Distinct(s)
  BY <1>1 DEF Distinct
<1> QED
  BY <1>1, <1>2, <1>5, <1>6

LEMMA SetupNames ==
  ASSUME NEW l \in DOMAIN Case
  PROVE  /\ l \in Name
         /\ Setup(l) \in Seq(Name \ {l}) /\ Distinct(Setup(l))
         /\ (\E i \in DOMAIN Setup(l) : Setup(l)[i] = "local_activate") \/ l = "local_activate" =>
              Case[l].local /\ Case["local_activate"].op = "activate_import"
<1> DEFINE run == Lineage[l]
           last == Len(run)
           s == SubSeq(run, 1, last - 1)
<1>1. /\ run \in Seq(STRING) /\ run # <<>> /\ run[last] = l
      /\ \A i, j \in DOMAIN run : run[i] = run[j] => i = j
      /\ (\E i \in DOMAIN run : run[i] = "local_activate") =>
           Case[l].local /\ Case["local_activate"].op = "activate_import"
  BY LineageAssumption
<1> HIDE DEF run
<1>2. last \in Nat \ {0} /\ DOMAIN run = 1 .. last /\ \A i \in DOMAIN run : run[i] \in STRING
  BY <1>1, Lengths
<1>3. l \in Name /\ last \in DOMAIN run
  BY <1>1, <1>2 DEF Name
<1>4. l = "local_activate" => Case[l].local /\ Case["local_activate"].op = "activate_import"
  BY <1>1, <1>3
<1>5. CASE l = "standalone_equal_replay"
  <2>1. Setup(l) = <<"standalone_takeover">>
    BY <1>5 DEF Setup
  <2>2. "standalone_takeover" \in Name \ {l}
    <3>1. "standalone_takeover" \in Name
      BY DEF Name
    <3>2. "standalone_takeover" # "standalone_equal_replay"
      OBVIOUS
    <3> QED
      BY <1>5, <3>1, <3>2
  <2>3. /\ Setup(l) \in Seq(Name \ {l}) /\ Distinct(Setup(l)) /\ Len(Setup(l)) = 1
        /\ Setup(l)[1] = "standalone_takeover"
    BY <2>1, <2>2, Single
  <2>4. \A i \in DOMAIN Setup(l) : Setup(l)[i] # "local_activate"
    BY <2>3, Lengths
  <2> QED
    BY <1>3, <1>4, <2>3, <2>4
<1>6. CASE l # "standalone_equal_replay"
  <2>1. Setup(l) = s
    BY <1>6 DEF Setup, run
  <2>2. \A i \in 1 .. last - 1 : /\ i \in DOMAIN run /\ run[i] \in Name \ {l}
    BY <1>1, <1>2, <1>3 DEF Name
  <2>3. /\ s \in Seq(Name \ {l}) /\ Len(s) = last - 1
        /\ \A i \in 1 .. last - 1 : s[i] = run[i]
    <3>1. 1 \in Int /\ last - 1 \in Int
      BY <1>2
    <3>2. /\ s \in Seq(Name \ {l})
          /\ Len(s) = IF 1 <= last - 1 THEN (last - 1) - 1 + 1 ELSE 0
          /\ \A i \in 1 .. (last - 1) - 1 + 1 : s[i] = run[1 + i - 1]
      BY <2>2, <3>1, SubSeqProperties
    <3>3. /\ (last - 1) - 1 + 1 = last - 1 /\ (~(1 <= last - 1) => last - 1 = 0)
          /\ \A i \in 1 .. last - 1 : 1 + i - 1 = i
      BY <1>2
    <3> HIDE DEF s, last
    <3> QED
      BY <3>2, <3>3
  <2> HIDE DEF s
  <2>4. DOMAIN s = 1 .. last - 1
    BY <2>3, Lengths
  <2>5. Distinct(s)
    BY <1>1, <2>2, <2>3, <2>4 DEF Distinct
  <2>6. (\E i \in DOMAIN s : s[i] = "local_activate") =>
          \E i \in DOMAIN run : run[i] = "local_activate"
    BY <2>2, <2>3, <2>4
  <2> HIDE DEF last
  <2> QED
    BY <1>1, <1>3, <1>4, <2>1, <2>3, <2>5, <2>6
<1> QED
  BY <1>5, <1>6

LEMMA FreezesJoined ==
  ASSUME NEW S, NEW s \in Seq(S), NEW t \in Seq(S), Freezes(s),
         \A j \in DOMAIN t : t[j].phase \notin Early
  PROVE  Freezes(s \o t)
<1> DEFINE u == s \o t
<1>1. PICK i \in DOMAIN s :
        /\ s[i].phase = "source_freeze"
        /\ \A j \in DOMAIN s : /\ j < i => s[j].phase = "source_operation"
                               /\ i < j => s[j].phase \notin Early
  BY DEF Freezes
<1>2. i \in DOMAIN u /\ u[i].phase = "source_freeze"
  BY <1>1, Joined
<1>3. \A j \in DOMAIN u : j \in DOMAIN s \/ u[j].phase \notin Early
  BY Joined
<1>4. \A j \in DOMAIN u \ DOMAIN s : i < j
  BY Lengths, Joined
<1>5. \A j \in DOMAIN s : u[j] = s[j]
  BY Joined
<1> HIDE DEF u
<1>6. \A j \in DOMAIN u : /\ j < i => u[j].phase = "source_operation"
                          /\ i < j => u[j].phase \notin Early
  <2>1. \A j \in DOMAIN u \ DOMAIN s : ~(j < i)
    BY <1>4, <1>1, Lengths, Joined DEF u
  <2> QED
    BY <2>1, <1>1, <1>3, <1>5
<1>7. Freezes(u)
  BY <1>2, <1>6 DEF Freezes
<1> QED
  BY <1>7 DEF u

LEMMA LifeCalls ==
  ASSUME NEW l \in DOMAIN Case
  PROVE  /\ SourceCalls(l) \in Seq(Named(OfSource, Name)) /\ Distinct(SourceCalls(l))
         /\ Freezes(SourceCalls(l))
<1> DEFINE ops == Calls("source_operation", Plan)
           f == [phase |-> "source_freeze", name |-> None]
           x == [phase |-> "archive_export", name |-> None]
           k == [phase |-> "source_fault_cut", name |-> None]
           cut == IF l = "local_in_doubt_source" THEN <<k>> ELSE <<>>
           frozen == ops \o <<f, x>>
           S == Named(OfSource, Name)
<1>1. None \in Name
  BY DEF Name
<1>2. /\ ops \in Seq(Named({"source_operation"}, Name)) /\ Distinct(ops)
      /\ \A i \in DOMAIN ops : ops[i].phase = "source_operation"
  <2>1. Plan \in Seq(Name) /\ Distinct(Plan)
    BY PlanAssumption, SeqMonotonic DEF Name, Distinct
  <2>2. ops \in Seq(Named({"source_operation"}, Name)) /\ Distinct(ops)
    BY <2>1, CallsMade
  <2> HIDE DEF ops
  <2>3. \A i \in DOMAIN ops : ops[i] \in Named({"source_operation"}, Name)
    BY <2>2, Lengths
  <2>4. \A y \in Named({"source_operation"}, Name) : y.phase = "source_operation"
    BY DEF Named
  <2> QED
    BY <2>2, <2>3, <2>4
<1>3. /\ f \in Named({"source_freeze", "archive_export"}, Name) /\ f.phase = "source_freeze"
      /\ x \in Named({"source_freeze", "archive_export"}, Name) /\ x.phase = "archive_export"
      /\ k \in Named({"source_fault_cut"}, Name) /\ k.phase = "source_fault_cut"
      /\ f # x
  BY <1>1 DEF Named
<1> HIDE DEF ops, f, x, k
<1>4. /\ <<f, x>> \in Seq(Named({"source_freeze", "archive_export"}, Name))
      /\ Len(<<f, x>>) = 2 /\ DOMAIN <<f, x>> = {1, 2}
      /\ <<f, x>>[1] = f /\ <<f, x>>[2] = x /\ Distinct(<<f, x>>)
  BY <1>3, Pair
<1>5. /\ cut \in Seq(Named({"source_fault_cut"}, Name)) /\ Distinct(cut)
      /\ \A i \in DOMAIN cut : cut[i].phase \notin Early
  <2>1. CASE l = "local_in_doubt_source"
    <3>1. <<k>> \in Seq(Named({"source_fault_cut"}, Name)) /\ Distinct(<<k>>)
          /\ Len(<<k>>) = 1 /\ <<k>>[1] = k
      BY <1>3, Single
    <3>2. \A i \in DOMAIN <<k>> : <<k>>[i].phase \notin Early
      BY <3>1, <1>3, Lengths DEF Early
    <3> QED
      BY <2>1, <3>1, <3>2
  <2>2. CASE l # "local_in_doubt_source"
    <3>1. <<>> \in Seq(Named({"source_fault_cut"}, Name)) /\ DOMAIN <<>> = {}
      BY EmptySeq
    <3> QED
      BY <2>2, <3>1 DEF Distinct
  <2> QED
    BY <2>1, <2>2
<1> HIDE DEF cut
<1>6. ops \in Seq(S) /\ <<f, x>> \in Seq(S) /\ cut \in Seq(S)
  <2>1. /\ Named({"source_operation"}, Name) \subseteq S
        /\ Named({"source_freeze", "archive_export"}, Name) \subseteq S
        /\ Named({"source_fault_cut"}, Name) \subseteq S
    BY DEF Named, OfSource, Early
  <2> HIDE DEF S
  <2> QED
    BY <2>1, <1>2, <1>4, <1>5, SeqMonotonic
<1>7. /\ frozen \in Seq(Named(Early \cup {"archive_export"}, Name)) /\ Distinct(frozen)
  <2> DEFINE T == Named(Early \cup {"archive_export"}, Name)
  <2>1. /\ Named({"source_operation"}, Name) \subseteq T
        /\ Named({"source_freeze", "archive_export"}, Name) \subseteq T
        /\ Named({"source_operation"}, Name)
             \cap Named({"source_freeze", "archive_export"}, Name) = {}
    BY DEF Named, Early
  <2> HIDE DEF T
  <2>2. ops \in Seq(T) /\ <<f, x>> \in Seq(T)
    BY <2>1, <1>2, <1>4, SeqMonotonic
  <2>3. ops \o <<f, x>> \in Seq(T)
    BY <2>2, Joined
  <2>4. Distinct(ops \o <<f, x>>)
    BY <2>1, <1>2, <1>4, JoinedDistinct
  <2> QED
    BY <2>3, <2>4 DEF T
<1>8. Freezes(frozen)
  <2> DEFINE n == Len(ops) + 1
  <2>1. n \in DOMAIN frozen /\ frozen[n] = f
    BY <1>4, <1>6, Joined
  <2>2. ASSUME NEW j \in DOMAIN frozen
        PROVE  /\ j < n => frozen[j].phase = "source_operation"
               /\ n < j => frozen[j].phase \notin Early
    <3>1. CASE j \in DOMAIN ops
      <4>1. frozen[j].phase = "source_operation" /\ j <= Len(ops) /\ Len(ops) \in Nat /\ j \in Nat
        BY <3>1, <1>2, <1>6, Joined, Lengths
      <4> QED
        BY <4>1
    <3>2. CASE j = Len(ops) + 1
      BY <3>2, <1>6, Lengths
    <3>3. CASE j = Len(ops) + 2
      <4>1. frozen[j].phase = "archive_export"
        BY <3>3, <1>3, <1>4, <1>6, Joined
      <4>2. ~(j < n)
        BY <3>3, <1>6, Lengths
      <4> QED
        BY <4>1, <4>2 DEF Early
    <3> QED
      BY <3>1, <3>2, <3>3, <1>4, <1>6, Joined
  <2> HIDE DEF n, frozen
  <2> QED
    BY <2>1, <2>2, <1>3 DEF Freezes
<1>9. frozen \o cut \in Seq(S) /\ Freezes(frozen \o cut)
  <2>1. frozen \in Seq(S)
    BY <1>6, Joined
  <2> HIDE DEF frozen
  <2> QED
    BY <2>1, <1>5, <1>6, <1>8, Joined, FreezesJoined
<1>10. Distinct(frozen \o cut)
  <2>1. Named(Early \cup {"archive_export"}, Name) \cap Named({"source_fault_cut"}, Name) = {}
    BY DEF Named, Early
  <2> HIDE DEF frozen
  <2> QED
    BY <2>1, <1>5, <1>7, JoinedDistinct
<1>11. SourceCalls(l) = frozen \o cut
  BY DEF SourceCalls, ops, f, x, k, cut
<1> HIDE DEF frozen
<1> QED
  BY <1>9, <1>10, <1>11

Good(l) ==
  {k \in CallRecord :
     /\ IF Case[l].local THEN k.phase # "scope_terminate" ELSE k.phase \notin OfSource
     /\ k = [phase |-> "recovery", name |-> "local_activate"] =>
          Case[l].local /\ Case["local_activate"].op = "activate_import"}

LEMMA FirstAgenda ==
  ASSUME NEW l \in DOMAIN Case
  PROVE  Agenda(CaseCalls(l), l) /\ (Case[l].local => Freezes(CaseCalls(l)))
<1> DEFINE life == IF Case[l].local THEN SourceCalls(l) ELSE <<>>
           staged == [phase |-> "archive_stage", name |-> None]
           setup == Calls("recovery", Setup(l))
           end == [phase |-> "scope_terminate", name |-> None]
           ended == IF Case[l].ended THEN <<end>> ELSE <<>>
           goal == [phase |-> "recovery", name |-> l]
           A == Named(OfSource, Name)
           B == Named({"archive_stage"}, Name)
           C == Named({"recovery"}, Name \ {l})
           D == Named({"scope_terminate"}, Name)
           E == Named({"recovery"}, {l})
           Late == Named(Phases \ Early, Name)
           G == Good(l)
<1>1. None \in Name /\ l \in Name
  BY SetupNames DEF Name
<1>2. /\ staged \in B /\ end \in D /\ goal \in E
  BY <1>1 DEF Named
<1>3. /\ B \subseteq Late /\ C \subseteq Late /\ D \subseteq Late /\ E \subseteq Late
  BY <1>1 DEF Named, Phases, Early
<1>4. /\ A \cap B = {} /\ (A \cup B) \cap C = {} /\ (A \cup B \cup C) \cap D = {}
      /\ (A \cup B \cup C \cup D) \cap E = {}
  BY DEF Named, OfSource, Early
<1>5. Late \subseteq CallRecord /\ A \subseteq CallRecord
  BY DEF Named, CallRecord, Phases, OfSource, Early
<1>6. /\ Case[l].local => A \subseteq G
      /\ ~Case[l].local => D \subseteq G
      /\ B \subseteq G /\ E \subseteq G
  <2>1. Case[l].local => A \subseteq G
    BY <1>5 DEF Named, OfSource, Early, Good
  <2>2. ~Case[l].local => D \subseteq G
    BY <1>3, <1>5 DEF Named, OfSource, Early, Good
  <2>3. B \subseteq G
    BY <1>3, <1>5 DEF Named, OfSource, Early, Good
  <2>4. E \subseteq G
    <3>1. E \subseteq CallRecord
      BY <1>3, <1>5
    <3>2. \A k \in E : k = goal
      BY DEF Named
    <3>3. l = "local_activate" => Case[l].local /\ Case["local_activate"].op = "activate_import"
      BY SetupNames
    <3>4. goal = [phase |-> "recovery", name |-> "local_activate"] => l = "local_activate"
      OBVIOUS
    <3>5. goal.phase = "recovery" /\ "recovery" \notin OfSource
      BY DEF OfSource, Early
    <3> HIDE DEF goal, E
    <3> QED
      BY <3>1, <3>2, <3>3, <3>4, <3>5 DEF Good
  <2> QED
    BY <2>1, <2>2, <2>3, <2>4
<1>7. /\ setup \in Seq(C) /\ Distinct(setup)
      /\ \A i \in DOMAIN setup : setup[i] \in G
  <2>1. Setup(l) \in Seq(Name \ {l}) /\ Distinct(Setup(l))
    BY SetupNames
  <2>2. /\ setup \in Seq(C) /\ Distinct(setup) /\ Len(setup) = Len(Setup(l))
        /\ \A i \in DOMAIN Setup(l) : setup[i] = [phase |-> "recovery", name |-> Setup(l)[i]]
    <3> DEFINE p == "recovery"
               N == Name \ {l}
               names == Setup(l)
    <3>1. names \in Seq(N) /\ Distinct(names)
      BY <2>1
    <3> HIDE DEF p, N, names
    <3>2. /\ Calls(p, names) \in Seq(Named({p}, N)) /\ Len(Calls(p, names)) = Len(names)
          /\ \A i \in DOMAIN names : Calls(p, names)[i] = [phase |-> p, name |-> names[i]]
          /\ Distinct(Calls(p, names))
      BY <3>1, CallsMade
    <3> QED
      BY <3>2 DEF p, N, names
  <2> HIDE DEF C, setup
  <2>3. DOMAIN setup = DOMAIN Setup(l)
    BY <2>1, <2>2, Lengths
  <2>4. \A i \in DOMAIN setup : setup[i] \in CallRecord /\ setup[i].phase = "recovery"
    <3>1. \A i \in DOMAIN setup : setup[i] \in C
      BY <2>2, Lengths
    <3>2. \A k \in C : k.phase = "recovery"
      BY DEF C, Named
    <3> QED
      BY <3>1, <3>2, <1>3, <1>5
  <2>5. \A i \in DOMAIN setup :
          setup[i] = [phase |-> "recovery", name |-> "local_activate"] =>
            Setup(l)[i] = "local_activate"
    BY <2>2, <2>3
  <2>6. "recovery" \notin OfSource
    BY DEF OfSource, Early
  <2> QED
    BY <2>2, <2>3, <2>4, <2>5, <2>6, SetupNames DEF Good
<1>8. /\ life \in Seq(A) /\ Distinct(life) /\ (Case[l].local => Freezes(life))
      /\ \A i \in DOMAIN life : life[i] \in G
  <2>1. CASE Case[l].local
    <3>1. life \in Seq(A) /\ Distinct(life) /\ Freezes(life)
      BY <2>1, LifeCalls
    <3> HIDE DEF life, A, G
    <3> QED
      BY <2>1, <3>1, <1>6, Lengths
  <2>2. CASE ~Case[l].local
    <3>1. <<>> \in Seq(A) /\ DOMAIN <<>> = {}
      BY EmptySeq
    <3> QED
      BY <2>2, <3>1 DEF Distinct
  <2> QED
    BY <2>1, <2>2
<1>9. /\ ended \in Seq(D) /\ Distinct(ended)
      /\ \A i \in DOMAIN ended : ended[i] \in G
  <2>1. CASE Case[l].ended
    <3>1. ~Case[l].local
      BY <2>1, CaseAssumption DEF NamespaceCaseValid
    <3>2. <<end>> \in Seq(D) /\ Distinct(<<end>>)
      BY <1>2, Single
    <3> HIDE DEF end, D, G
    <3> QED
      BY <2>1, <3>1, <3>2, <1>6, Lengths
  <2>2. CASE ~Case[l].ended
    <3>1. <<>> \in Seq(D) /\ DOMAIN <<>> = {}
      BY EmptySeq
    <3> QED
      BY <2>2, <3>1 DEF Distinct
  <2> QED
    BY <2>1, <2>2
<1>10. /\ <<staged>> \in Seq(B) /\ Distinct(<<staged>>)
       /\ <<goal>> \in Seq(E) /\ Distinct(<<goal>>)
       /\ Len(<<goal>>) = 1 /\ <<goal>>[1] = goal
  BY <1>2, Single
<1>11. CaseCalls(l) = (((life \o <<staged>>) \o setup) \o ended) \o <<goal>>
  BY DEF CaseCalls
<1> HIDE DEF life, staged, setup, end, ended, goal, A, B, C, D, E, Late, G
<1>12. Distinct(CaseCalls(l))
  <2>1. A \subseteq A \cup B /\ B \subseteq A \cup B
    OBVIOUS
  <2>2. life \o <<staged>> \in Seq(A \cup B) /\ Distinct(life \o <<staged>>)
    <3>1. life \in Seq(A \cup B) /\ <<staged>> \in Seq(A \cup B)
      BY <1>8, <1>10, SeqMonotonic
    <3> QED
      BY <3>1, <1>4, <1>8, <1>10, Joined, JoinedDistinct
  <2> DEFINE one == life \o <<staged>>
             two == one \o setup
             three == two \o ended
  <2>3. one \in Seq(A \cup B) /\ Distinct(one)
    BY <2>2
  <2> HIDE DEF one
  <2>4. two \in Seq(A \cup B \cup C) /\ Distinct(two)
    <3>1. one \in Seq(A \cup B \cup C) /\ setup \in Seq(A \cup B \cup C)
      BY <2>3, <1>7, SeqMonotonic
    <3> QED
      BY <2>3, <3>1, <1>4, <1>7, Joined, JoinedDistinct
  <2> HIDE DEF two
  <2>5. three \in Seq(A \cup B \cup C \cup D) /\ Distinct(three)
    <3>1. two \in Seq(A \cup B \cup C \cup D) /\ ended \in Seq(A \cup B \cup C \cup D)
      BY <2>4, <1>9, SeqMonotonic
    <3> QED
      BY <2>4, <3>1, <1>4, <1>9, Joined, JoinedDistinct
  <2> HIDE DEF three
  <2>6. Distinct(three \o <<goal>>)
    BY <2>5, <1>4, <1>10, JoinedDistinct
  <2> QED
    BY <2>6, <1>11 DEF one, two, three
<1>13. G \subseteq CallRecord
  BY DEF Good, G
<1>14. /\ life \in Seq(G) /\ <<staged>> \in Seq(G) /\ setup \in Seq(G)
       /\ ended \in Seq(G) /\ <<goal>> \in Seq(G)
  BY <1>6, <1>7, <1>8, <1>9, <1>10, Within, SeqMonotonic
<1> DEFINE front == ((life \o <<staged>>) \o setup) \o ended
<1>15. front \in Seq(G)
  <2>1. life \o <<staged>> \in Seq(G)
    BY <1>14, Joined
  <2>2. (life \o <<staged>>) \o setup \in Seq(G)
    BY <2>1, <1>14, Joined
  <2> QED
    BY <2>2, <1>14, Joined
<1>16. /\ CaseCalls(l) \in Seq(G) /\ Len(CaseCalls(l)) = Len(front) + 1
       /\ CaseCalls(l)[Len(front) + 1] = goal
  <2>1. CaseCalls(l) = front \o <<goal>>
    BY <1>11
  <2> HIDE DEF front
  <2>2. 1 \in DOMAIN <<goal>>
    BY <1>10, Lengths
  <2> QED
    BY <2>1, <2>2, <1>10, <1>14, <1>15, Joined
<1>17. \A i \in DOMAIN CaseCalls(l) : CaseCalls(l)[i] \in G
  BY <1>16, Lengths
<1>18. Agenda(CaseCalls(l), l)
  <2>1. CaseCalls(l) \in Seq(CallRecord)
    BY <1>13, <1>16, SeqMonotonic
  <2>2. CaseCalls(l)[Len(CaseCalls(l))] = [phase |-> "recovery", name |-> l]
    BY <1>16 DEF goal
  <2>3. \A k \in G :
          /\ IF Case[l].local THEN k.phase # "scope_terminate" ELSE k.phase \notin OfSource
          /\ k = [phase |-> "recovery", name |-> "local_activate"] =>
               Case[l].local /\ Case["local_activate"].op = "activate_import"
    BY DEF G, Good
  <2> QED
    BY <2>1, <2>2, <2>3, <1>12, <1>17 DEF Agenda, Distinct
<1>19. ASSUME Case[l].local PROVE Freezes(CaseCalls(l))
  <2> DEFINE R == CallRecord
             one == life \o <<staged>>
             two == one \o setup
             three == two \o ended
  <2>1. /\ life \in Seq(R) /\ <<staged>> \in Seq(R) /\ setup \in Seq(R)
        /\ ended \in Seq(R) /\ <<goal>> \in Seq(R)
    BY <1>13, <1>14, SeqMonotonic
  <2>2. \A k \in Late : k.phase \notin Early
    BY DEF Late, Named
  <2>3. /\ \A i \in DOMAIN <<staged>> : <<staged>>[i].phase \notin Early
        /\ \A i \in DOMAIN <<goal>> : <<goal>>[i].phase \notin Early
        /\ \A i \in DOMAIN setup : setup[i].phase \notin Early
        /\ \A i \in DOMAIN ended : ended[i].phase \notin Early
    <3>1. /\ <<staged>> \in Seq(Late) /\ setup \in Seq(Late)
          /\ ended \in Seq(Late) /\ <<goal>> \in Seq(Late)
      BY <1>3, <1>7, <1>9, <1>10, SeqMonotonic
    <3> QED
      BY <2>2, <3>1, Lengths
  <2> HIDE DEF R
  <2>4. one \in Seq(R) /\ Freezes(one)
    BY <1>19, <1>8, <2>1, <2>3, Joined, FreezesJoined
  <2> HIDE DEF one
  <2>5. two \in Seq(R) /\ Freezes(two)
    BY <2>1, <2>3, <2>4, Joined, FreezesJoined
  <2> HIDE DEF two
  <2>6. three \in Seq(R) /\ Freezes(three)
    BY <2>1, <2>3, <2>5, Joined, FreezesJoined
  <2> HIDE DEF three
  <2>7. Freezes(three \o <<goal>>)
    BY <2>1, <2>3, <2>6, FreezesJoined
  <2> QED
    BY <2>7, <1>11 DEF one, two, three
<1> QED
  BY <1>18, <1>19

(* A scope with another state, and one that is also under another authority. *)
LEMMA ScopeMoved ==
  ASSUME NEW st, NEW auth, NEW home, NEW fenced, NEW x
  PROVE  [[st |-> st, auth |-> auth, home |-> home, fenced |-> fenced] EXCEPT !.st = x]
           = [st |-> x, auth |-> auth, home |-> home, fenced |-> fenced]
  OBVIOUS

LEMMA ScopeRetired ==
  [FrozenScope EXCEPT !.st = "retired", !.auth = 1, !.fenced = TRUE] = RetiredScope
<1> DEFINE s == FrozenScope
           t == [s EXCEPT !.st = "retired", !.auth = 1, !.fenced = TRUE]
           u == RetiredScope
<1>1. DOMAIN s = {"st", "auth", "home", "fenced"} /\ s.home
  BY DEF FrozenScope
<1>2. /\ DOMAIN u = {"st", "auth", "home", "fenced"} /\ u = [f \in DOMAIN u |-> u[f]]
      /\ u.st = "retired" /\ u.auth = 1 /\ u.home /\ u.fenced
  BY DEF RetiredScope
<1>3. s.home = TRUE /\ u.home = TRUE /\ u.fenced = TRUE
  BY DEF FrozenScope, RetiredScope
<1> HIDE DEF s, u
<1>4. DOMAIN t = DOMAIN s /\ t = [f \in DOMAIN t |-> t[f]]
  OBVIOUS
<1>5. t.st = "retired"
  BY <1>1
<1>6. t.auth = 1
  BY <1>1
<1>7. t.home = TRUE
  BY <1>1, <1>3
<1>8. t.fenced = TRUE
  BY <1>1
<1> HIDE DEF t
<1>9. \A f \in DOMAIN u : t[f] = u[f]
  BY <1>2, <1>3, <1>5, <1>6, <1>7, <1>8
<1>10. t = u
  BY <1>1, <1>2, <1>4, <1>9
<1> QED
  BY <1>10 DEF s, t, u

(* A case goes on with the calls after the first.                            *)
LEMMA AgendaOnward ==
  ASSUME NEW l, NEW s, Agenda(s, l), s # <<>>
  PROVE  /\ Agenda(Tail(s), l)
         /\ Head(s) \in CallRecord /\ Head(s) = s[1] /\ 1 \in DOMAIN s
         /\ \A i \in DOMAIN Tail(s) : Tail(s)[i] # Head(s) /\ \E j \in DOMAIN s : Tail(s)[i] = s[j]
         /\ Tail(s) = <<>> => Head(s) = [phase |-> "recovery", name |-> l]
         /\ Len(s) = 1 <=> Tail(s) = <<>>
<1>1. s \in Seq(CallRecord)
  BY DEF Agenda
<1>2. /\ Head(s) = s[1] /\ 1 \in DOMAIN s /\ Tail(s) \in Seq(CallRecord)
      /\ \A i \in DOMAIN Tail(s) : i + 1 \in DOMAIN s /\ Tail(s)[i] = s[i + 1]
      /\ Len(Tail(s)) = Len(s) - 1
  BY <1>1, Behind
<1>3. /\ Len(s) \in Nat /\ DOMAIN s = 1 .. Len(s) /\ DOMAIN Tail(s) = 1 .. Len(s) - 1
      /\ (Tail(s) = <<>> <=> Len(s) - 1 = 0)
      /\ \A i \in DOMAIN s : s[i] \in CallRecord
  BY <1>1, <1>2, Lengths
<1> DEFINE t == Tail(s)
<1> HIDE DEF t
<1>4. \A i, j \in DOMAIN t : t[i] = t[j] => i = j
  <2>1. SUFFICES ASSUME NEW i \in DOMAIN t, NEW j \in DOMAIN t, t[i] = t[j] PROVE i = j
    OBVIOUS
  <2>2. i + 1 = j + 1
    BY <2>1, <1>2 DEF t, Agenda
  <2> QED
    BY <2>1, <2>2, <1>3 DEF t
<1>5. \A i \in DOMAIN t : t[i] # s[1] /\ \E j \in DOMAIN s : t[i] = s[j]
  <2>1. SUFFICES ASSUME NEW i \in DOMAIN t
                 PROVE  t[i] # s[1] /\ \E j \in DOMAIN s : t[i] = s[j]
    OBVIOUS
  <2>2. i + 1 # 1 /\ i + 1 \in DOMAIN s /\ t[i] = s[i + 1]
    BY <2>1, <1>2, <1>3 DEF t
  <2> QED
    BY <2>2, <1>2 DEF Agenda
<1>6. t # <<>> => t[Len(t)] = [phase |-> "recovery", name |-> l]
  <2>1. SUFFICES ASSUME t # <<>> PROVE t[Len(t)] = s[Len(s)]
    BY DEF Agenda
  <2>2. Len(s) - 1 \in DOMAIN t /\ (Len(s) - 1) + 1 = Len(s) /\ Len(t) = Len(s) - 1
    BY <2>1, <1>2, <1>3 DEF t
  <2> QED
    BY <2>2, <1>2 DEF t
<1>7. Agenda(t, l)
  BY <1>2, <1>4, <1>5, <1>6 DEF Agenda, t
<1>8. t = <<>> => Len(s) = 1
  BY <1>3 DEF t
<1>9. t = <<>> => Head(s) = [phase |-> "recovery", name |-> l]
  BY <1>2, <1>8 DEF Agenda
<1> QED
  BY <1>2, <1>3, <1>5, <1>7, <1>9 DEF t

LEMMA FreezesOnward ==
  ASSUME NEW s, s \in Seq(CallRecord), Freezes(s), s # <<>>
  PROVE  \/ Head(s).phase = "source_freeze" /\ \A i \in DOMAIN Tail(s) : Tail(s)[i].phase \notin Early
         \/ Head(s).phase = "source_operation" /\ Freezes(Tail(s))
<1>1. PICK i \in DOMAIN s :
        /\ s[i].phase = "source_freeze"
        /\ \A j \in DOMAIN s : /\ j < i => s[j].phase = "source_operation"
                               /\ i < j => s[j].phase \notin Early
  BY DEF Freezes
<1>2. /\ Head(s) = s[1] /\ 1 \in DOMAIN s
      /\ \A j \in DOMAIN Tail(s) : j + 1 \in DOMAIN s /\ Tail(s)[j] = s[j + 1]
      /\ \A j \in DOMAIN s : j # 1 => j - 1 \in DOMAIN Tail(s) /\ Tail(s)[j - 1] = s[j]
      /\ Tail(s) \in Seq(CallRecord)
  BY Behind
<1>3. \A j \in DOMAIN s : j \in Nat \ {0}
  BY Lengths
<1>4. \A j \in DOMAIN Tail(s) : j \in Nat \ {0}
  BY <1>2, Lengths
<1> DEFINE t == Tail(s)
<1> HIDE DEF t
<1>5. CASE i = 1
  <2>1. ASSUME NEW j \in DOMAIN t PROVE t[j].phase \notin Early
    <3>1. 1 < j + 1 /\ j + 1 \in DOMAIN s /\ t[j] = s[j + 1]
      BY <2>1, <1>2, <1>4 DEF t
    <3> QED
      BY <3>1, <1>1, <1>5
  <2> QED
    BY <2>1, <1>1, <1>2, <1>5 DEF t
<1>6. CASE i # 1
  <2>1. 1 < i
    BY <1>3, <1>6
  <2>2. i - 1 \in DOMAIN t /\ t[i - 1].phase = "source_freeze"
    BY <1>1, <1>2, <1>6 DEF t
  <2>3. ASSUME NEW j \in DOMAIN t
        PROVE  /\ j < i - 1 => t[j].phase = "source_operation"
               /\ i - 1 < j => t[j].phase \notin Early
    <3>1. j + 1 \in DOMAIN s /\ t[j] = s[j + 1]
      BY <1>2 DEF t
    <3>2. (j < i - 1 => j + 1 < i) /\ (i - 1 < j => i < j + 1)
      BY <1>3, <1>4 DEF t
    <3> QED
      BY <3>1, <3>2, <1>1
  <2>4. Freezes(t)
    BY <2>2, <2>3 DEF Freezes
  <2> QED
    BY <2>1, <2>4, <1>1, <1>2 DEF t
<1> QED
  BY <1>5, <1>6

-----------------------------------------------------------------------------
(* What a bridge may commit is a document.                                   *)

LEMMA DueDocument ==
  ASSUME NEW k, NEW s, Document(s)
  PROVE  Document(Due(k, s))
<1>1. s.slog \in SourceLog
  BY DEF Document
<1>2. Append(s.slog, "freeze") \in SourceLog /\ Append(s.slog, "commit") \in SourceLog
  BY <1>1, AppendProperties DEF SourceLog
<1>3. Document(Built(s, k.name))
  BY <1>1 DEF Document, Built
<1>4. Document(Frozen(s))
  BY <1>2 DEF Document, Frozen
<1>5. Document([s EXCEPT !.staged = TRUE]) /\ Document([s EXCEPT !.ended = {"d1"}])
  BY <1>1 DEF Document
<1>6. Document(Recovered(Case[k.name], s))
  BY <1>1, <1>2 DEF Document, Recovered
<1> QED
  BY <1>3, <1>4, <1>5, <1>6 DEF Due

LEMMA WrongDocument ==
  ASSUME NEW k, NEW s, Document(s)
  PROVE  \A d \in Wrong(k, s) : Document(d)
<1>1. s.slog \in SourceLog
  BY DEF Document
<1>2. <<>> \in SourceLog /\ Append(s.slog, "commit") \in SourceLog
  BY <1>1, AppendProperties, EmptySeq DEF SourceLog
<1>3. \A d \in SourceDefects(s) : Document(d)
  BY <1>1, <1>2 DEF Document, SourceDefects
<1>4. \A d \in DestinationDefects(s) : Document(d)
  BY <1>1 DEF Document, DestinationDefects
<1> QED
  BY <1>3, <1>4 DEF Wrong

-----------------------------------------------------------------------------
(* The books are true at the start and every step keeps them.                *)

LEMMA InitBooks ==
  ASSUME Init
  PROVE  RecoveryBooks
<1>1. label \in DOMAIN Case /\ todo = CaseCalls(label) /\ call = NoCall /\ ref = NoRef
      /\ accepted = {} /\ verdict \in {"failed", "running"}
  BY TestedAssumption DEF Init
<1>2. native = Initial /\ transactions = <<>>
  BY DEF Init, StoreInit
<1>3. Document(native)
  BY <1>2, EmptySeq DEF Initial, Document, SourceLog
<1>4. PlanBooks
  BY <1>1, FirstAgenda DEF PlanBooks
<1>5. SourceBooks
  BY <1>1 DEF SourceBooks, AcceptedCase
<1>6. JournalBooks
  <2>1. transactions \in Seq({}) /\ Len(transactions) = 0 /\ DOMAIN transactions = {}
        /\ 1 .. 0 = {}
    BY <1>2, EmptySeq
  <2> QED
    BY <1>1, <2>1 DEF JournalBooks, IsSequence, Over
<1> QED
  BY <1>1, <1>3, <1>4, <1>5, <1>6 DEF RecoveryBooks, CallForm

(* A step of the bridge that leaves the document and the journal alone.      *)
LEMMA BooksLeftAlone ==
  ASSUME RecoveryBooks,
         UNCHANGED <<native, transactions, label, todo, ref, accepted, verdict>>,
         call' = NoCall <=> call = NoCall, call'.before = call.before,
         call # NoCall => "before" \in DOMAIN call'
  PROVE  RecoveryBooks'
<1>1. Document(native)' /\ CallForm'
  BY DEF RecoveryBooks, CallForm, Document
<1>2. PlanBooks'
  BY DEF RecoveryBooks, PlanBooks, Agenda, Freezes
<1>3. SourceBooks'
  BY DEF RecoveryBooks, SourceBooks, AcceptedCase, Sourced
<1>4. JournalBooks'
  BY DEF RecoveryBooks, JournalBooks, Over
<1> QED
  BY <1>1, <1>2, <1>3, <1>4 DEF RecoveryBooks

LEMMA CallBridgeKeepsBooks ==
  ASSUME RecoveryBooks, CallBridge
  PROVE  RecoveryBooks'
<1>1. /\ UNCHANGED <<native, transactions, label, todo, ref, accepted, verdict>>
      /\ call = NoCall /\ verdict = "running" /\ todo # <<>>
      /\ Head(todo).phase = "source_freeze" => LiveInventory(native)
  BY DEF CallBridge, SourceReady, recoveryStoreVars
<1>2. /\ "before" \in DOMAIN call' /\ call'.before = Snapshot
      /\ Snapshot.state = native /\ Snapshot.transactions = transactions
  BY DEF CallBridge, Snapshot
<1>3. call' # NoCall
  BY <1>2 DEF NoCall
<1>4. Document(native)' /\ CallForm'
  BY <1>1, <1>2 DEF RecoveryBooks, CallForm
<1>5. PlanBooks'
  BY <1>1 DEF RecoveryBooks, PlanBooks
<1>6. SourceBooks'
  BY <1>1, <1>2, <1>3 DEF RecoveryBooks, SourceBooks, AcceptedCase, Sourced
<1>7. JournalBooks'
  <2>1. Len(transactions) \in Nat /\ Over(Len(transactions))
    BY <1>1, Lengths DEF RecoveryBooks, JournalBooks, IsSequence
  <2> QED
    BY <1>1, <1>2, <1>3, <2>1 DEF RecoveryBooks, JournalBooks, Over
<1> QED
  BY <1>4, <1>5, <1>6, <1>7 DEF RecoveryBooks

LEMMA BridgeCommitsKeepsBooks ==
  ASSUME RecoveryBooks, BridgeCommits
  PROVE  RecoveryBooks'
<1> DEFINE k == Head(todo)
           n == Len(call.before.transactions)
<1>1. PICK op \in Attempts, after \in {Due(k, native)} \cup Wrong(k, Due(k, native)) :
        Commit(op, k.phase, k, call.before.state, after, "expected")
  BY DEF BridgeCommits
<1>2. /\ UNCHANGED <<label, todo, call, ref, accepted, verdict>> /\ call # NoCall
  BY DEF BridgeCommits, Bridged
<1>3. PICK t : transactions' = Append(transactions, t) /\ t.request = k
  BY <1>1 DEF Commit
<1>4. native' = after /\ after # native /\ native = call.before.state
  BY <1>1 DEF Commit, SwapAllowed
<1>5. Document(native)'
  <2>1. Document(after)
    BY <1>1, DueDocument, WrongDocument DEF RecoveryBooks
  <2> QED
    BY <2>1, <1>4 DEF Document
<1>6. CallForm' /\ todo # <<>> /\ verdict = "running"
  BY <1>2 DEF RecoveryBooks, CallForm
<1>7. PlanBooks'
  BY <1>2 DEF RecoveryBooks, PlanBooks
<1>8. SourceBooks'
  BY <1>2 DEF RecoveryBooks, SourceBooks, AcceptedCase, Sourced
<1>9. JournalBooks'
  <2>1. PICK S : transactions \in Seq(S)
    BY DEF RecoveryBooks, JournalBooks, IsSequence
  <2>2. n \in Nat /\ Over(n) /\ Len(transactions) = n
    BY <1>2, <1>4 DEF RecoveryBooks, JournalBooks
  <2>3. /\ transactions' \in Seq(S \cup {t}) /\ Len(transactions') = n + 1
        /\ \A i \in 1 .. n : transactions'[i] = transactions[i]
        /\ transactions'[n + 1] = t
    <3>1. transactions \in Seq(S \cup {t}) /\ t \in S \cup {t}
      BY <2>1, SeqMonotonic
    <3> QED
      BY <1>3, <2>2, <3>1, AppendProperties
  <2>4. DOMAIN transactions' = 1 .. n + 1 /\ DOMAIN transactions = 1 .. n
    BY <2>1, <2>2, <2>3, Lengths
  <2>5. \A i \in 1 .. n : transactions'[i].request # k
    <3>1. k = todo[1] /\ 1 \in DOMAIN todo
      BY <1>6, AgendaOnward DEF RecoveryBooks, PlanBooks
    <3> QED
      BY <3>1, <2>2, <2>3 DEF Over
  <2> HIDE DEF n, k
  <2>6. 1 .. n + 1 = 1 .. n \cup {n + 1}
    BY <2>2
  <2>7. \A i, j \in DOMAIN transactions' :
          transactions'[i].request = transactions'[j].request => i = j
    <3>1. \A i, j \in 1 .. n : transactions'[i].request = transactions'[j].request => i = j
      BY <2>3, <2>4 DEF RecoveryBooks, JournalBooks
    <3>2. transactions'[n + 1].request = k
      BY <1>3, <2>3
    <3> QED
      BY <3>1, <3>2, <2>4, <2>5, <2>6
  <2>8. Over(n)'
    BY <1>2, <2>2, <2>3 DEF Over, n
  <2>9. transactions'[n + 1].request = Head(todo') /\ native' # call'.before.state
    BY <1>2, <1>3, <1>4, <2>3 DEF k
  <2>10. IsSequence(transactions)'
    BY <2>3 DEF IsSequence
  <2>11. n' = n
    BY <1>2 DEF n
  <2> QED
    BY <1>2, <1>6, <2>2, <2>3, <2>7, <2>8, <2>9, <2>10, <2>11 DEF JournalBooks, n
<1> QED
  BY <1>5, <1>6, <1>7, <1>8, <1>9 DEF RecoveryBooks

LEMMA FinishKeepsBooks ==
  ASSUME RecoveryBooks, Finish
  PROVE  RecoveryBooks'
<1>1. /\ UNCHANGED <<native, transactions, label, todo, call, ref, accepted>>
      /\ call = NoCall /\ verdict = "running"
  BY DEF Finish, recoveryStoreVars
<1>2. Document(native)' /\ CallForm'
  BY <1>1 DEF RecoveryBooks, CallForm
<1>3. todo' = <<>>
  BY DEF Finish
<1>4. PlanBooks'
  BY <1>1, <1>3 DEF RecoveryBooks, PlanBooks
<1>5. SourceBooks'
  BY <1>1 DEF RecoveryBooks, SourceBooks, AcceptedCase, Sourced
<1>6. JournalBooks'
  BY <1>1 DEF RecoveryBooks, JournalBooks, Over
<1> QED
  BY <1>2, <1>4, <1>5, <1>6 DEF RecoveryBooks

LEMMA OtherStepsKeepBooks ==
  ASSUME RecoveryBooks,
         \/ BridgeStarts \/ BridgeExports \/ BridgeIsCut \/ BridgeReturns
         \/ Finish \/ Upgrade \/ UNCHANGED vars
  PROVE  RecoveryBooks'
<1>1. CASE BridgeStarts
  <2>1. UNCHANGED <<native, transactions, label, todo, ref, accepted, verdict, call>>
    BY <1>1 DEF BridgeStarts, InvocationStart, driverVars
  <2> QED
    BY <2>1, BooksLeftAlone DEF RecoveryBooks, CallForm
<1>2. CASE BridgeExports
  <2>1. UNCHANGED <<native, transactions, label, todo, ref, accepted, verdict, call>>
    BY <1>2 DEF BridgeExports, ExportObservation, driverVars
  <2> QED
    BY <2>1, BooksLeftAlone DEF RecoveryBooks, CallForm
<1>3. CASE BridgeIsCut
  <2>1. UNCHANGED <<native, transactions, label, todo, ref, accepted, verdict>>
    BY <1>3 DEF BridgeIsCut, SourceProcessCut
  <2>2. call # NoCall /\ call' = [call EXCEPT !.child = "killed"] /\ "before" \in DOMAIN call
    BY <1>3 DEF BridgeIsCut, Bridged, RecoveryBooks, CallForm
  <2>3. "before" \in DOMAIN call' /\ call'.before = call.before
    BY <2>2
  <2>4. call' # NoCall
    BY <2>3 DEF NoCall
  <2> QED
    BY <2>1, <2>2, <2>3, <2>4, BooksLeftAlone
<1>4. CASE BridgeReturns
  <2>1. UNCHANGED <<native, transactions, label, todo, ref, accepted, verdict>>
    BY <1>4 DEF BridgeReturns, InvocationReturn
  <2>2. PICK claims : call' = [call EXCEPT !.child = "returned", !.claims = claims]
    BY <1>4 DEF BridgeReturns
  <2>3. call # NoCall /\ "before" \in DOMAIN call
    BY <1>4 DEF BridgeReturns, Bridged, RecoveryBooks, CallForm
  <2>4. "before" \in DOMAIN call' /\ call'.before = call.before
    BY <2>2, <2>3
  <2>5. call' # NoCall
    BY <2>4 DEF NoCall
  <2> QED
    BY <2>1, <2>3, <2>4, <2>5, BooksLeftAlone
<1>5. CASE Finish
  BY <1>5, FinishKeepsBooks
<1>6. CASE Upgrade
  <2>1. UNCHANGED <<native, transactions, label, todo, ref, accepted, verdict, call>>
    BY <1>6 DEF Upgrade, recoveryStoreVars
  <2> QED
    BY <2>1, BooksLeftAlone DEF RecoveryBooks, CallForm
<1>7. CASE UNCHANGED vars
  <2>1. UNCHANGED <<native, transactions, label, todo, ref, accepted, verdict, call>>
    BY <1>7 DEF vars, recoveryStoreVars, driverVars
  <2> QED
    BY <2>1, BooksLeftAlone DEF RecoveryBooks, CallForm
<1> QED
  BY <1>1, <1>2, <1>3, <1>4, <1>5, <1>6, <1>7

(* A call that is refused, or a freeze that is not asked for, ends the case:  *)
(* nothing is claimed from then on.                                          *)
LEMMA RefusalKeepsBooks ==
  ASSUME RecoveryBooks, (Judge /\ ~CallAccepted(Head(todo))) \/ GiveUpFreeze
  PROVE  RecoveryBooks'
<1>1. /\ UNCHANGED <<native, transactions, label, todo, ref, accepted>>
      /\ call' = NoCall /\ verdict' = "failed"
  BY DEF Judge, GiveUpFreeze, recoveryStoreVars
<1>2. Document(native)' /\ CallForm'
  BY <1>1 DEF RecoveryBooks, CallForm
<1>3. PlanBooks'
  BY <1>1 DEF RecoveryBooks, PlanBooks
<1>4. SourceBooks'
  BY <1>1 DEF RecoveryBooks, SourceBooks, AcceptedCase, Sourced
<1>5. JournalBooks'
  BY <1>1 DEF RecoveryBooks, JournalBooks, Over
<1> QED
  BY <1>2, <1>3, <1>4, <1>5 DEF RecoveryBooks

(* Where a source is compared, a case is of local transfer, and its calls    *)
(* after the freeze are neither of the plan nor a termination.               *)
LEMMA PhaseOfCall ==
  ASSUME RecoveryBooks, call # NoCall
  PROVE  LET k == Head(todo) IN
         /\ k \in CallRecord /\ todo # <<>>
         /\ ref # NoRef => /\ Case[label].local /\ k.phase \notin Early
                           /\ k.phase # "scope_terminate"
         /\ ref = NoRef => /\ k.phase # "source_fault_cut"
                           /\ Case[label].local => k.phase \in Early
         /\ k.phase \in OfSource => Case[label].local
         /\ k = [phase |-> "recovery", name |-> "local_activate"] =>
              Case[label].local /\ Case["local_activate"].op = "activate_import"
<1> DEFINE k == Head(todo)
<1>1. Agenda(todo, label) /\ todo # <<>> /\ todo \in Seq(CallRecord)
  BY DEF RecoveryBooks, PlanBooks, CallForm, Agenda
<1>2. k \in CallRecord /\ k = todo[1] /\ 1 \in DOMAIN todo
  BY <1>1, AgendaOnward
<1> HIDE DEF k
<1>3. /\ IF Case[label].local THEN k.phase # "scope_terminate" ELSE k.phase \notin OfSource
      /\ k = [phase |-> "recovery", name |-> "local_activate"] =>
           Case[label].local /\ Case["local_activate"].op = "activate_import"
  BY <1>1, <1>2 DEF Agenda
<1>4. ref # NoRef => Case[label].local /\ k.phase \notin Early
  BY <1>2 DEF RecoveryBooks, PlanBooks
<1>5. ref = NoRef /\ Case[label].local => k.phase \in Early
  <2>1. Freezes(todo) => Head(todo).phase \in {"source_freeze", "source_operation"}
    <3> DEFINE s == todo
    <3>1. s \in Seq(CallRecord) /\ s # <<>>
      BY <1>1
    <3> HIDE DEF s
    <3>2. Freezes(s) => Head(s).phase \in {"source_freeze", "source_operation"}
      BY <3>1, FreezesOnward
    <3> QED
      BY <3>2 DEF s
  <2>2. ref = NoRef /\ Case[label].local => Freezes(todo)
    BY DEF RecoveryBooks, PlanBooks
  <2> QED
    BY <2>1, <2>2 DEF k, Early
<1>6. ref = NoRef => k.phase # "source_fault_cut"
  BY <1>3, <1>5 DEF OfSource, Early
<1> QED
  BY <1>1, <1>2, <1>3, <1>4, <1>5, <1>6 DEF k

(* What the driver goes on to compare with was seen in the call it accepted. *)
LEMMA NextReference ==
  ASSUME RecoveryBooks, call # NoCall, verdict # "failed", CallAccepted(Head(todo))
  PROVE  LET k == Head(todo)
             r == NextRef(k)
         IN  /\ k.phase = "source_freeze" \/ ref # NoRef => r # NoRef
             /\ k.phase # "source_freeze" /\ ref = NoRef => r = NoRef
             /\ r # NoRef =>
                  /\ Reference(r)
                  /\ native.scope = r.scope /\ native.slog = r.slog
                  /\ native.inv = r.inv /\ native.built = r.built /\ ~native.claims
             /\ ref # NoRef /\ RetiredOnce(ref) => RetiredOnce(r)
             /\ k = [phase |-> "recovery", name |-> "local_activate"] =>
                  ref # NoRef /\ RetiredOnce(ref)
<1> DEFINE k == Head(todo)
           b == call.before.state
           c == Case[k.name]
           r == NextRef(k)
           Seen == /\ native.scope = r.scope /\ native.slog = r.slog
                   /\ native.inv = r.inv /\ native.built = r.built /\ ~native.claims
<1>1. /\ k \in CallRecord /\ todo # <<>>
      /\ ref # NoRef => /\ Case[label].local /\ k.phase \notin Early
                        /\ k.phase # "scope_terminate"
      /\ ref = NoRef => /\ k.phase # "source_fault_cut"
                        /\ Case[label].local => k.phase \in Early
      /\ k.phase \in OfSource => Case[label].local
      /\ k = [phase |-> "recovery", name |-> "local_activate"] =>
           Case[label].local /\ Case["local_activate"].op = "activate_import"
  BY PhaseOfCall
<1>2. Document(native) /\ native.slog \in SourceLog
  BY DEF RecoveryBooks, Document
<1>3. ref # NoRef => Reference(ref) /\ Sourced(b)
  BY DEF RecoveryBooks, SourceBooks
<1>4. k.phase \in Phases
  BY <1>1 DEF CallRecord
<1>5. CallAccepted(k)
  OBVIOUS
<1> HIDE DEF k, r, c
<1>6. CASE k.phase = "source_freeze"
  <2>1. FreezeAccepted(b, native)
    BY <1>5, <1>6 DEF CallAccepted
  <2>0. LiveInventory(b)
    BY <1>6 DEF k, RecoveryBooks, SourceBooks
  <2>2. native.scope = [b.scope EXCEPT !.st = "frozen"]
        /\ native.inv = b.inv /\ native.built = b.built /\ ~native.claims
    BY <2>1 DEF FreezeAccepted, FreezeKeepsClaims
  <2>3. native.scope = FrozenScope /\ native.inv = "archive" /\ native.built = SourceOperations
    <3>1. b.scope = [st |-> "active", auth |-> 0, home |-> TRUE, fenced |-> FALSE]
          /\ b.inv = "archive" /\ b.built = SourceOperations
      BY <2>0 DEF LiveInventory
    <3>2. [[st |-> "active", auth |-> 0, home |-> TRUE, fenced |-> FALSE]
             EXCEPT !.st = "frozen"] = FrozenScope
      <4> DEFINE y == TRUE
                 n == FALSE
      <4> HIDE DEF y, n
      <4>1. [[st |-> "active", auth |-> 0, home |-> y, fenced |-> n] EXCEPT !.st = "frozen"]
              = [st |-> "frozen", auth |-> 0, home |-> y, fenced |-> n]
        BY ScopeMoved
      <4> QED
        BY <4>1 DEF y, n, FrozenScope
    <3> QED
      BY <2>2, <3>1, <3>2
  <2>4. r = [scope |-> native.scope, inv |-> native.inv, built |-> native.built,
             slog |-> native.slog, freeze |-> Len(transactions), cut |-> FALSE,
             prepared |-> FALSE]
    BY <1>6 DEF r, NextRef
  <2>5. Reference(r) /\ Seen
    BY <2>2, <2>3, <2>4, <1>2 DEF Reference
  <2>6. r # NoRef
    BY <2>4 DEF NoRef
  <2>7. ref = NoRef /\ k.phase # "recovery"
    BY <1>1, <1>6 DEF Early
  <2> QED
    BY <1>6, <2>5, <2>6, <2>7 DEF k, r
<1>7. CASE ref = NoRef /\ k.phase # "source_freeze"
  <2>1. r = NoRef
    BY <1>1, <1>7 DEF r, NextRef
  <2>2. k # [phase |-> "recovery", name |-> "local_activate"]
    <3>1. ASSUME k = [phase |-> "recovery", name |-> "local_activate"] PROVE FALSE
      BY <1>1, <1>7, <3>1 DEF Early
    <3> QED
      BY <3>1
  <2> QED
    BY <1>7, <2>1, <2>2 DEF k, r
<1>8. CASE ref # NoRef
  <2>1. k.phase \in {"archive_export", "source_fault_cut", "archive_stage", "recovery"}
    BY <1>1, <1>4, <1>8 DEF Phases, OfSource, Early
  <2>2. Reference(ref) /\ Sourced(b) /\ Case[label].local
    BY <1>1, <1>3, <1>8
  <2>3. CASE k.phase \in {"archive_export", "source_fault_cut"}
    <3>1. native = b
      BY <1>5, <2>3 DEF CallAccepted, CutAccepted, ExportAccepted
    <3>2. r = ref \/ r = [ref EXCEPT !.cut = TRUE]
      BY <2>3 DEF r, NextRef
    <3>3. r.scope = ref.scope /\ r.slog = ref.slog /\ r.inv = ref.inv /\ r.built = ref.built
          /\ {"scope", "inv", "built", "slog"} \subseteq DOMAIN r
      BY <2>2, <3>2 DEF Reference
    <3>4. Reference(r) /\ Seen /\ (RetiredOnce(ref) => RetiredOnce(r))
      BY <2>2, <3>1, <3>3 DEF Reference, RetiredOnce, Sourced
    <3>5. r # NoRef
      BY <3>3 DEF NoRef
    <3>6. k # [phase |-> "recovery", name |-> "local_activate"]
      BY <2>3
    <3> QED
      BY <1>8, <2>3, <3>4, <3>5, <3>6 DEF k, r
  <2>4. CASE k.phase = "archive_stage"
    <3>1. SourceUntouched(b, native)
      BY <1>5, <1>8, <2>4 DEF CallAccepted, StageAccepted
    <3>2. r = ref
      BY <2>4 DEF r, NextRef
    <3>3. Seen
      BY <3>1, <3>2 DEF SourceUntouched, SourceKept
    <3>4. k # [phase |-> "recovery", name |-> "local_activate"]
      BY <2>4
    <3> QED
      BY <1>8, <2>2, <2>4, <3>2, <3>3, <3>4 DEF k, r
  <2>5. CASE k.phase = "recovery" /\ Retiring(c)
    <3>1. LocalStepAccepted(c, b, native)
      BY <1>5, <2>2, <2>5 DEF CallAccepted, RecoveryAccepted, c
    <3>2. SourceRetired(b, native) /\ CommitProved(b, native)
      BY <2>5, <3>1 DEF LocalStepAccepted, Retiring, InDoubtRefused
    <3>3. r = [ref EXCEPT !.scope = native.scope, !.slog = native.slog]
      <4>1. k.phase = "recovery" /\ Retiring(Case[k.name])
        BY <2>5 DEF c
      <4>2. Case[k.name].op # "prepare_transfer"
        BY <4>1 DEF Retiring
      <4> QED
        BY <1>8, <4>1, <4>2 DEF r, NextRef
    <3>4. /\ r.scope = native.scope /\ r.slog = native.slog /\ r.inv = ref.inv
          /\ r.built = ref.built /\ {"scope", "inv", "built", "slog"} \subseteq DOMAIN r
      BY <2>2, <3>3 DEF Reference
    <3>5. b.scope = ref.scope /\ b.slog = ref.slog /\ b.scope.st = "frozen"
          /\ \A i \in DOMAIN b.slog : b.slog[i] # "commit"
      BY <3>2 DEF SourceRetired, SourceKept, CommitProved
    <3>6. ref.scope = FrozenScope
      BY <2>2, <3>5 DEF Reference, RetiredOnce, RetiredScope
    <3>7. r.scope = RetiredScope
      <4>1. native.scope = [ref.scope EXCEPT !.st = "retired", !.auth = 1, !.fenced = TRUE]
        BY <3>2 DEF SourceRetired
      <4>2. [FrozenScope EXCEPT !.st = "retired", !.auth = 1, !.fenced = TRUE] = RetiredScope
        BY ScopeRetired
      <4> QED
        BY <3>4, <3>6, <4>1, <4>2
    <3>8. \E m \in DOMAIN r.slog : {i \in DOMAIN r.slog : r.slog[i] = "commit"} = {m}
      <4> DEFINE q == ref.slog
                 w == r.slog
                 m == Len(q) + 1
      <4>1. q \in SourceLog /\ w = Append(q, "commit") /\ \A i \in DOMAIN q : q[i] # "commit"
        BY <2>2, <3>2, <3>4, <3>5 DEF Reference, SourceRetired
      <4> HIDE DEF q, w
      <4>2. /\ Len(q) \in Nat /\ DOMAIN q = 1 .. Len(q) /\ DOMAIN w = 1 .. Len(q) + 1
            /\ \A i \in 1 .. Len(q) : w[i] = q[i]
            /\ w[Len(q) + 1] = "commit"
        BY <4>1, AppendProperties, Lengths DEF SourceLog
      <4>3. m \in DOMAIN w /\ \A i \in DOMAIN w : w[i] = "commit" <=> i = m
        BY <4>1, <4>2
      <4> HIDE DEF m
      <4> QED
        BY <4>3 DEF w
    <3>9. RetiredOnce(r)
      BY <3>7, <3>8 DEF RetiredOnce
    <3>10. Reference(r) /\ Seen
      BY <1>2, <2>2, <3>2, <3>4, <3>9 DEF Reference, SourceRetired, SourceKept
    <3>11. r # NoRef
      BY <3>4 DEF NoRef
    <3>12. k # [phase |-> "recovery", name |-> "local_activate"]
      <4>1. ASSUME k = [phase |-> "recovery", name |-> "local_activate"] PROVE FALSE
        <5>1. c.op = "activate_import"
          BY <1>1, <4>1 DEF c
        <5> QED
          BY <2>5, <5>1 DEF Retiring
      <4> QED
        BY <4>1
    <3> QED
      BY <1>8, <2>5, <3>9, <3>10, <3>11, <3>12 DEF k, r
  <2>6. CASE k.phase = "recovery" /\ ~Retiring(c)
    <3>1. LocalStepAccepted(c, b, native)
      BY <1>5, <2>2, <2>6 DEF CallAccepted, RecoveryAccepted, c
    <3>2. SourceUntouched(b, native)
      BY <2>6, <3>1 DEF LocalStepAccepted
    <3>3. r = ref \/ r = [ref EXCEPT !.prepared = TRUE]
      BY <1>8, <2>6 DEF r, NextRef, c
    <3>4. r.scope = ref.scope /\ r.slog = ref.slog /\ r.inv = ref.inv /\ r.built = ref.built
          /\ {"scope", "inv", "built", "slog"} \subseteq DOMAIN r
      BY <2>2, <3>3 DEF Reference
    <3>5. Reference(r) /\ Seen /\ (RetiredOnce(ref) => RetiredOnce(r))
      BY <2>2, <3>2, <3>4 DEF Reference, RetiredOnce, SourceUntouched, SourceKept
    <3>6. r # NoRef
      BY <3>4 DEF NoRef
    <3>7. ASSUME k = [phase |-> "recovery", name |-> "local_activate"]
          PROVE  RetiredOnce(ref)
      <4>1. c.op = "activate_import"
        BY <1>1, <3>7 DEF c
      <4>2. ActsAfterRetirement(b, native)
        BY <3>1, <4>1 DEF LocalStepAccepted, InDoubtRefused
      <4>3. ref.scope.st = "retired"
        BY <2>2, <4>2 DEF ActsAfterRetirement, Sourced
      <4> QED
        BY <2>2, <4>3 DEF Reference, FrozenScope
    <3> QED
      BY <1>8, <2>6, <3>5, <3>6, <3>7 DEF k, r
  <2> QED
    BY <2>1, <2>3, <2>4, <2>5, <2>6
<1> QED
  BY <1>6, <1>7, <1>8

(* A call that is accepted is behind the case for good.                      *)
LEMMA AcceptanceKeepsBooks ==
  ASSUME RecoveryBooks, Judge, CallAccepted(Head(todo))
  PROVE  RecoveryBooks'
<1> DEFINE k == Head(todo)
           b == call.before.state
           n == Len(call.before.transactions)
           r == NextRef(k)
<1>1. /\ UNCHANGED <<native, transactions, label, verdict>> /\ call' = NoCall
      /\ todo' = Tail(todo) /\ ref' = r /\ accepted' = accepted \cup {k}
      /\ call # NoCall /\ verdict = "running"
  BY DEF Judge, recoveryStoreVars
<1>2. /\ k \in CallRecord /\ todo # <<>>
      /\ ref # NoRef => Case[label].local
      /\ ref = NoRef /\ Case[label].local => k.phase \in Early
      /\ k.phase \in OfSource => Case[label].local
  BY <1>1, PhaseOfCall
<1>3. /\ k.phase = "source_freeze" \/ ref # NoRef => r # NoRef
      /\ k.phase # "source_freeze" /\ ref = NoRef => r = NoRef
      /\ r # NoRef =>
           /\ Reference(r)
           /\ native.scope = r.scope /\ native.slog = r.slog
           /\ native.inv = r.inv /\ native.built = r.built /\ ~native.claims
      /\ ref # NoRef /\ RetiredOnce(ref) => RetiredOnce(r)
      /\ k = [phase |-> "recovery", name |-> "local_activate"] =>
           ref # NoRef /\ RetiredOnce(ref)
  BY <1>1, NextReference
<1>4. Agenda(todo, label) /\ todo \in Seq(CallRecord)
  BY DEF RecoveryBooks, PlanBooks, Agenda
<1>5. /\ Agenda(Tail(todo), label)
      /\ k = todo[1] /\ 1 \in DOMAIN todo
      /\ \A i \in DOMAIN Tail(todo) : Tail(todo)[i] # k /\ \E j \in DOMAIN todo : Tail(todo)[i] = todo[j]
      /\ Tail(todo) = <<>> => k = [phase |-> "recovery", name |-> label]
      /\ Len(todo) = 1 <=> Tail(todo) = <<>>
  <2> DEFINE s == todo
  <2>1. Agenda(s, label) /\ s # <<>> /\ k = Head(s)
    BY <1>2, <1>4
  <2> HIDE DEF s, k
  <2>2. Agenda(Tail(s), label) /\ Head(s) = s[1] /\ 1 \in DOMAIN s
    BY <2>1, AgendaOnward
  <2>3. \A i \in DOMAIN Tail(s) : Tail(s)[i] # Head(s) /\ \E j \in DOMAIN s : Tail(s)[i] = s[j]
    <3>1. SUFFICES ASSUME NEW i \in DOMAIN Tail(s)
                   PROVE  Tail(s)[i] # Head(s) /\ \E j \in DOMAIN s : Tail(s)[i] = s[j]
      OBVIOUS
    <3>2. Tail(s)[i] # Head(s)
      BY <2>1, AgendaOnward
    <3>3. \E j \in DOMAIN s : Tail(s)[i] = s[j]
      BY <2>1, AgendaOnward
    <3> QED
      BY <3>2, <3>3
  <2>4. Tail(s) = <<>> => Head(s) = [phase |-> "recovery", name |-> label]
    BY <2>1, AgendaOnward
  <2>5. Len(s) = 1 <=> Tail(s) = <<>>
    BY <2>1, AgendaOnward
  <2> QED
    BY <2>1, <2>2, <2>3, <2>4, <2>5 DEF s
<1>6. CallAccepted(k)
  OBVIOUS
<1> HIDE DEF k, r
<1>7. Document(native)' /\ CallForm'
  BY <1>1 DEF RecoveryBooks, CallForm
<1>8. PlanBooks'
  <2>1. Agenda(todo', label')
    BY <1>1, <1>5
  <2>2. label' \in DOMAIN Case
    BY <1>1 DEF RecoveryBooks, PlanBooks
  <2>3. Freezes(todo) =>
          \/ k.phase = "source_freeze" /\ \A i \in DOMAIN Tail(todo) : Tail(todo)[i].phase \notin Early
          \/ k.phase = "source_operation" /\ Freezes(Tail(todo))
    <3> DEFINE s == todo
    <3>1. s \in Seq(CallRecord) /\ s # <<>> /\ k = Head(s)
      BY <1>2, <1>4 DEF k
    <3> HIDE DEF s
    <3>2. Freezes(s) =>
            \/ k.phase = "source_freeze" /\ \A i \in DOMAIN Tail(s) : Tail(s)[i].phase \notin Early
            \/ k.phase = "source_operation" /\ Freezes(Tail(s))
      BY <3>1, FreezesOnward
    <3> QED
      BY <3>2 DEF s
  <2>4. ref = NoRef /\ Case[label].local => Freezes(todo)
    BY DEF RecoveryBooks, PlanBooks
  <2>5. ref # NoRef => \A i \in DOMAIN todo : todo[i].phase \notin Early
    BY DEF RecoveryBooks, PlanBooks
  <2>6. r # NoRef => Case[label].local
    <3>1. k.phase = "source_freeze" => Case[label].local
      BY <1>2 DEF OfSource, Early
    <3> QED
      BY <3>1, <1>2, <1>3
  <2>7. r # NoRef => \A i \in DOMAIN Tail(todo) : Tail(todo)[i].phase \notin Early
    <3>1. CASE ref # NoRef
      BY <3>1, <2>5, <1>5
    <3>2. CASE ref = NoRef
      BY <3>2, <1>3, <2>3, <2>4, <2>6
    <3> QED
      BY <3>1, <3>2
  <2>8. r = NoRef /\ Case[label].local => Freezes(Tail(todo))
    BY <1>3, <2>3, <2>4
  <2>9. verdict' # "passed"
    BY <1>1
  <2> QED
    BY <1>1, <2>1, <2>2, <2>6, <2>7, <2>8, <2>9 DEF PlanBooks
<1>9. SourceBooks'
  <2>1. ref' # NoRef => Reference(ref')
    BY <1>1, <1>3
  <2>2. AcceptedCase("local_activate")' => ref' # NoRef /\ RetiredOnce(ref')
    <3>1. ASSUME AcceptedCase("local_activate")' PROVE ref # NoRef /\ RetiredOnce(ref)
      <4>1. PICK x \in accepted \cup {k} : x.phase = "recovery" /\ x.name = "local_activate"
        BY <3>1, <1>1 DEF AcceptedCase
      <4>2. CASE x \in accepted
        BY <4>1, <4>2 DEF AcceptedCase, RecoveryBooks, SourceBooks
      <4>3. CASE x = k
        <5>1. k = [phase |-> "recovery", name |-> "local_activate"]
          BY <4>1, <4>3, <1>2 DEF CallRecord
        <5> QED
          BY <5>1, <1>3
      <4> QED
        BY <4>1, <4>2, <4>3
    <3> QED
      BY <3>1, <1>1, <1>3
  <2>3. ref' # NoRef => Sourced(native)'
    BY <1>1, <1>3 DEF Sourced
  <2> QED
    BY <1>1, <2>1, <2>2, <2>3 DEF SourceBooks
<1>10. JournalBooks'
  <2>1. IsSequence(transactions) /\ n \in Nat /\ Over(n)
        /\ \/ Len(transactions) = n /\ native = b
           \/ Len(transactions) = n + 1 /\ native # b /\ transactions[n + 1].request = k
    BY <1>1 DEF RecoveryBooks, JournalBooks, k
  <2>2. \A i \in 1 .. n : \A j \in DOMAIN Tail(todo) : transactions[i].request # Tail(todo)[j]
    BY <2>1, <1>5 DEF Over
  <2>3. \A i \in 1 .. Len(transactions) : i \in 1 .. n \/ (i = n + 1 /\ transactions[i].request = k)
    <3> HIDE DEF n, b
    <3>1. Len(transactions) \in {n, n + 1} /\ n \in Nat
      BY <2>1
    <3>2. CASE Len(transactions) = n
      BY <3>2
    <3>3. CASE Len(transactions) = n + 1 /\ transactions[n + 1].request = k
      BY <3>1, <3>3
    <3> QED
      BY <2>1, <3>2, <3>3
  <2>4. Over(Len(transactions))'
    BY <1>1, <1>5, <2>2, <2>3 DEF Over
  <2>5. ASSUME todo' = <<>>, ~Case[label].succeeds \/ Case[label].reads
        PROVE  \A i \in DOMAIN transactions :
                 transactions[i].request # [phase |-> "recovery", name |-> label]
    <3>1. k = [phase |-> "recovery", name |-> label] /\ Len(todo) = 1
      BY <2>5, <1>1, <1>5
    <3>2. k.phase = "recovery" /\ k.name = label
      BY <3>1
    <3>3. RecoveryAccepted(k, b, native)
      BY <1>6, <3>2 DEF CallAccepted
    <3>4. native = b
      BY <2>5, <3>1, <3>2, <3>3 DEF RecoveryAccepted, VerdictPassed, ReadsAndRefusalsWriteNothing
    <3>5. Len(transactions) = n
      BY <2>1, <3>4
    <3>6. DOMAIN transactions = 1 .. n
      BY <2>1, <3>5, Lengths DEF IsSequence
    <3> QED
      BY <2>1, <3>1, <3>6, <1>5 DEF Over
  <2>6. \A i, j \in DOMAIN transactions :
          transactions[i].request = transactions[j].request => i = j
    BY DEF RecoveryBooks, JournalBooks
  <2> HIDE DEF n, b
  <2> QED
    BY <1>1, <2>1, <2>4, <2>5, <2>6 DEF JournalBooks
<1> QED
  BY <1>7, <1>8, <1>9, <1>10 DEF RecoveryBooks

LEMMA StepKeepsBooks ==
  ASSUME RecoveryBooks, [Next]_vars
  PROVE  RecoveryBooks'
<1>1. CASE Judge
  BY <1>1, RefusalKeepsBooks, AcceptanceKeepsBooks
<1>2. CASE GiveUpFreeze
  BY <1>2, RefusalKeepsBooks
<1> QED
  BY <1>1, <1>2, CallBridgeKeepsBooks, BridgeCommitsKeepsBooks, OtherStepsKeepBooks DEF Next

-----------------------------------------------------------------------------
(* The driver's books are right at every moment: the calls it has still to   *)
(* make are a rest of its plan, the source it compares with is the one that  *)
(* was frozen or that same source once retired and is what the store shows   *)
(* as long as nothing was refused, and every commit on the journal was asked *)
(* for by a call that is over or by the one under way.                       *)
THEOREM RecoveryBooksKept == Spec => []RecoveryBooks
<1>1. Init => RecoveryBooks
  BY InitBooks
<1>2. RecoveryBooks /\ [Next]_vars => RecoveryBooks'
  BY StepKeepsBooks
<1> QED
  BY <1>1, <1>2, PTL DEF Spec

(* After the activation of an import was accepted the source of the transfer *)
(* is retired under the new authority, fenced, without a claim, and was      *)
(* retired once, whatever the bridge tried on the way.                       *)
THEOREM ActivationAfterRetirementKept == Spec => []ActivationAfterRetirement
<1>1. RecoveryBooks => ActivationAfterRetirement
  <2>1. SUFFICES ASSUME RecoveryBooks, AcceptedCase("local_activate"), call = NoCall,
                        verdict # "failed"
                 PROVE  /\ native.scope = RetiredScope /\ ~native.claims
                        /\ Cardinality({i \in DOMAIN native.slog : native.slog[i] = "commit"}) = 1
    BY DEF ActivationAfterRetirement, RetiredScope
  <2>2. RetiredOnce(ref) /\ Sourced(native)
    BY <2>1 DEF RecoveryBooks, SourceBooks
  <2>3. PICK k : {i \in DOMAIN native.slog : native.slog[i] = "commit"} = {k}
    BY <2>2 DEF RetiredOnce, Sourced
  <2> QED
    BY <2>2, <2>3, FS_Singleton DEF RetiredOnce, Sourced
<1> QED
  BY <1>1, RecoveryBooksKept, PTL

(* Wherever the driver stands after the freeze without having refused a call, *)
(* the source's inventory is the one exported and no writer works on it.     *)
THEOREM FrozenSourceKeptAlways == Spec => []FrozenSourceKept
<1>1. RecoveryBooks => FrozenSourceKept
  BY DEF RecoveryBooks, SourceBooks, Reference, Sourced, FrozenSourceKept, FrozenHere
<1> QED
  BY <1>1, RecoveryBooksKept, PTL

(* No request is committed twice, also under further operation identities,   *)
(* and a case that passed and only reads or is refused committed nothing.    *)
THEOREM AppliedOnceKept == Spec => []AppliedOnce
<1>1. RecoveryBooks => AppliedOnce
  BY DEF RecoveryBooks, JournalBooks, PlanBooks, AppliedOnce
<1> QED
  BY <1>1, RecoveryBooksKept, PTL

-----------------------------------------------------------------------------
(* From here on: Aggregate and AggregateMigration.                            *)

(* The elements of a sequence that are in a set.                             *)

(* A set of numbers has a least one.                                         *)
LEMMA LeastOf ==
  ASSUME NEW T, T \subseteq Nat, T # {}
  PROVE  \E n \in T : \A m \in T : n <= m
<1> DEFINE R == OpToRel(<, Nat)
<1>1. IsWellFoundedOn(R, Nat)
  BY NatLessThanWellFounded
<1> HIDE DEF R
<1>2. PICK n \in T : \A m \in T : ~ (<<m, n>> \in R)
  BY <1>1, WFMin
<1>3. \A m \in T : m < n => <<m, n>> \in R
  BY DEF R, OpToRel
<1>4. \A m \in T : ~(m < n)
  BY <1>2, <1>3
<1>5. \A m \in T : m \in Nat /\ n \in Nat
  OBVIOUS
<1>6. \A m \in T : n <= m
  BY <1>4, <1>5
<1> QED
  BY <1>6

(* The numbers of a set of positions, one after the other.                   *)
Counts(f, I) ==
  /\ f \in [1..Cardinality(I) -> I]
  /\ \A j, k \in 1..Cardinality(I) : j < k => f[j] < f[k]

LEMMA CountMore ==
  ASSUME NEW m \in Nat, NEW I \in SUBSET (1..(m + 1)), m + 1 \in I,
         NEW g, Counts(g, I \ {m + 1})
  PROVE  \E f : Counts(f, I)
<1> DEFINE J == I \ {m + 1}
           c == Cardinality(J)
           f == [k \in 1..(c + 1) |-> IF k <= c THEN g[k] ELSE m + 1]
<1>1. IsFiniteSet(I)
  <2>1. IsFiniteSet(1..(m + 1))
    BY FS_Interval
  <2> QED
    BY <2>1, FS_Subset
<1>2. IsFiniteSet(J) /\ Cardinality(J) = Cardinality(I) - 1
  BY <1>1, FS_RemoveElement
<1>3. Cardinality(I) \in Nat /\ c \in Nat /\ Cardinality(I) = c + 1
  BY <1>1, <1>2, FS_CardinalityType
<1>4. g \in [1..c -> J] /\ \A j, k \in 1..c : j < k => g[j] < g[k]
  BY DEF Counts
<1> HIDE DEF c
<1>5. \A k \in 1..c : f[k] = g[k] /\ g[k] \in I /\ g[k] \in 1..m
  <2> SUFFICES ASSUME NEW k \in 1..c
               PROVE  f[k] = g[k] /\ g[k] \in I /\ g[k] \in 1..m
    OBVIOUS
  <2>1. k \in 1..(c + 1) /\ k <= c
    BY <1>3
  <2>2. g[k] \in J
    BY <1>4
  <2>3. g[k] \in I /\ g[k] \in 1..(m + 1) /\ g[k] # m + 1
    BY <2>2
  <2> QED
    BY <2>1, <2>3
<1>6. f[c + 1] = m + 1
  <2>1. c + 1 \in 1..(c + 1) /\ ~(c + 1 <= c)
    BY <1>3
  <2> QED
    BY <2>1
<1>7. f \in [1..(c + 1) -> I]
  <2>1. \A k \in 1..(c + 1) : k \in 1..c \/ k = c + 1
    BY <1>3
  <2>2. \A k \in 1..(c + 1) : f[k] \in I
    BY <1>5, <1>6, <2>1
  <2> QED
    BY <2>2
<1>9. \A k \in 1..c : f[k] \in 1..m /\ f[k] = g[k]
  BY <1>5
<1> HIDE DEF f
<1>8. ASSUME NEW j \in 1..(c + 1), NEW k \in 1..(c + 1), j < k
      PROVE  f[j] < f[k]
  <2>1. j \in 1..c
    BY <1>3, <1>8
  <2>2. CASE k \in 1..c
    BY <2>1, <2>2, <1>4, <1>8, <1>9
  <2>3. CASE k = c + 1
    <3>1. f[j] \in 1..m /\ f[k] = m + 1
      BY <2>1, <2>3, <1>9, <1>6
    <3> QED
      BY <3>1
  <2> QED
    BY <1>3, <2>2, <2>3
<1> QED
  BY <1>3, <1>7, <1>8 DEF Counts

LEMMA SomeCount ==
  ASSUME NEW n \in Nat, NEW I \in SUBSET (1..n)
  PROVE  \E f : Counts(f, I)
<1> DEFINE Countable(m) == \A J \in SUBSET (1..m) : \E f : Counts(f, J)
           T == {m \in Nat : ~Countable(m)}
<1>1. Countable(0)
  <2>1. \A J \in SUBSET (1..0) : J = {}
    OBVIOUS
  <2>2. Cardinality({}) = 0
    BY FS_EmptySet
  <2>3. Counts(<<>>, {})
    BY <2>2 DEF Counts
  <2> QED
    BY <2>1, <2>3
<1>2. ASSUME NEW m \in Nat, Countable(m)
      PROVE  Countable(m + 1)
  <2> SUFFICES ASSUME NEW J \in SUBSET (1..(m + 1))
               PROVE  \E f : Counts(f, J)
    OBVIOUS
  <2>1. CASE m + 1 \notin J
    <3>1. J \in SUBSET (1..m)
      BY <2>1
    <3> QED
      BY <3>1, <1>2
  <2>2. CASE m + 1 \in J
    <3>1. J \ {m + 1} \in SUBSET (1..m)
      OBVIOUS
    <3>2. PICK g : Counts(g, J \ {m + 1})
      BY <3>1, <1>2
    <3> QED
      BY <2>2, <3>2, CountMore
  <2> QED
    BY <2>1, <2>2
<1> HIDE DEF Countable
<1>3. T = {}
  <2> SUFFICES ASSUME T # {} PROVE FALSE
    OBVIOUS
  <2>1. PICK m \in T : \A k \in T : m <= k
    BY LeastOf
  <2>2. m # 0 /\ m \in Nat
    BY <1>1
  <2>3. m - 1 \in Nat /\ m - 1 \notin T
    BY <2>1, <2>2
  <2>4. Countable(m - 1)
    BY <2>3
  <2>5. Countable((m - 1) + 1)
    BY <2>3, <2>4, <1>2
  <2>6. (m - 1) + 1 = m
    BY <2>2
  <2> QED
    BY <2>5, <2>6
<1>4. Countable(n)
  BY <1>3
<1> QED
  BY <1>4 DEF Countable

(* A count reaches every position.                                           *)
LEMMA CountsAll ==
  ASSUME NEW n \in Nat, NEW I \in SUBSET (1..n), NEW f, Counts(f, I)
  PROVE  \A i \in I : \E k \in 1..Cardinality(I) : f[k] = i
<1>1. IsFiniteSet(I) /\ Cardinality(I) \in Nat /\ Cardinality(I) <= n
  <2>1. IsFiniteSet(1..n) /\ Cardinality(1..n) = n
    BY FS_Interval
  <2> QED
    BY <2>1, FS_Subset, FS_CardinalityType
<1>2. IsFiniteSet(1..Cardinality(I)) /\ Cardinality(1..Cardinality(I)) = Cardinality(I)
  BY <1>1, FS_Interval
<1>3. \A j, k \in 1..Cardinality(I) : f[j] = f[k] => j = k
  <2> SUFFICES ASSUME NEW j \in 1..Cardinality(I), NEW k \in 1..Cardinality(I),
                      f[j] = f[k], j # k
               PROVE  FALSE
    OBVIOUS
  <2>1. f[j] \in 1..n /\ f[k] \in 1..n
    BY DEF Counts
  <2>2. j < k \/ k < j
    BY <1>1
  <2> QED
    BY <2>1, <2>2 DEF Counts
<1>4. f \in Injection(1..Cardinality(I), I)
  BY <1>3 DEF Counts, Injection, IsInjective
<1>5. f \in Surjection(1..Cardinality(I), I)
  BY <1>1, <1>2, <1>4, FS_Injection
<1> QED
  BY <1>5 DEF Surjection

(* What is kept of a sequence is there in the order it had.                  *)
Selects(s, T, o) ==
  \E f \in [1..Len(o) -> 1..Len(s)] :
    /\ Len(o) \in 0..Len(s)
    /\ o = [k \in 1..Len(o) |-> s[f[k]]]
    /\ \A j, k \in 1..Len(o) : j < k => f[j] < f[k]
    /\ \A k \in 1..Len(o) : s[f[k]] \in T
    /\ \A i \in 1..Len(s) : s[i] \in T => \E k \in 1..Len(o) : f[k] = i

LEMMA OnlyPlaces ==
  ASSUME NEW S, NEW s \in Seq(S), NEW T
  PROVE  Selects(s, T, Only(s, T))
<1> DEFINE I == {i \in 1..Len(s) : s[i] \in T}
           c == Cardinality(I)
           g == CHOOSE f \in [1..c -> I] : \A j, k \in 1..c : j < k => f[j] < f[k]
<1>1. Len(s) \in Nat
  OBVIOUS
<1>2. I \in SUBSET (1..Len(s))
  OBVIOUS
<1>3. IsFiniteSet(I) /\ c \in Nat /\ c <= Len(s)
  <2>1. IsFiniteSet(1..Len(s)) /\ Cardinality(1..Len(s)) = Len(s)
    BY <1>1, FS_Interval
  <2> QED
    BY <1>2, <2>1, FS_Subset, FS_CardinalityType
<1>4. \E f \in [1..c -> I] : \A j, k \in 1..c : j < k => f[j] < f[k]
  <2>1. \E f : Counts(f, I)
    BY <1>1, <1>2, SomeCount
  <2> QED
    BY <2>1 DEF Counts
<1>5. g \in [1..c -> I] /\ \A j, k \in 1..c : j < k => g[j] < g[k]
  BY <1>4
<1>6. Only(s, T) = [k \in 1..c |-> s[g[k]]]
  BY DEF Only
<1>7. Counts(g, I)
  BY <1>5 DEF Counts
<1>16. \A i \in 1..Len(s) : s[i] \in T => i \in I
  OBVIOUS
<1>17. \A i \in I : i \in 1..Len(s) /\ s[i] \in T
  OBVIOUS
<1> HIDE DEF g, I
<1>8. \A i \in I : \E k \in 1..c : g[k] = i
  <2>1. \A J \in SUBSET (1..Len(s)) : \A f : Counts(f, J) =>
          \A i \in J : \E k \in 1..Cardinality(J) : f[k] = i
    BY <1>1, CountsAll
  <2>2. \A i \in I : \E k \in 1..Cardinality(I) : g[k] = i
    BY <1>2, <1>7, <2>1
  <2> QED
    BY <2>2
<1> HIDE DEF c
<1>9. \A k \in 1..c : g[k] \in I /\ s[g[k]] \in S
  BY <1>5, <1>17
<1>10. Only(s, T) \in [1..c -> S]
  BY <1>6, <1>9
<1>11. Len(Only(s, T)) = c
  BY <1>3, <1>10, LenProperties, IsASeq
<1>12. g \in [1..c -> 1..Len(s)]
  BY <1>5, <1>17
<1>13. \A k \in 1..c : s[g[k]] \in T
  BY <1>9, <1>17
<1>14. \A i \in 1..Len(s) : s[i] \in T => \E k \in 1..c : g[k] = i
  BY <1>8, <1>16
<1>15. c \in 0..Len(s)
  BY <1>1, <1>3
<1> QED
  BY <1>5, <1>6, <1>11, <1>12, <1>13, <1>14, <1>15 DEF Selects

(* Its elements are those of the set.                                        *)
LEMMA OnlyElements ==
  ASSUME NEW S, NEW s \in Seq(S), NEW T
  PROVE  /\ Only(s, T) \in Seq(S)
         /\ Len(Only(s, T)) <= Len(s)
         /\ Elements(Only(s, T)) = Elements(s) \cap T
<1> DEFINE o == Only(s, T)
<1>1. PICK f \in [1..Len(o) -> 1..Len(s)] :
        /\ Len(o) \in 0..Len(s)
        /\ o = [k \in 1..Len(o) |-> s[f[k]]]
        /\ \A k \in 1..Len(o) : s[f[k]] \in T
        /\ \A i \in 1..Len(s) : s[i] \in T => \E k \in 1..Len(o) : f[k] = i
  <2>1. Selects(s, T, o)
    BY OnlyPlaces
  <2> QED
    BY <2>1 DEF Selects
<1> HIDE DEF o
<1>2. \A k \in 1..Len(o) : o[k] = s[f[k]] /\ f[k] \in 1..Len(s) /\ s[f[k]] \in S
  BY <1>1
<1>3. o \in Seq(S)
  <2>1. Len(o) \in Nat /\ o \in [1..Len(o) -> S]
    BY <1>1, <1>2
  <2> QED
    BY <2>1, IsASeq
<1>4. Elements(o) \subseteq Elements(s) \cap T
  BY <1>1, <1>2 DEF Elements
<1>5. Elements(s) \cap T \subseteq Elements(o)
  <2> SUFFICES ASSUME NEW i \in 1..Len(s), s[i] \in T
               PROVE  s[i] \in Elements(o)
    BY DEF Elements
  <2>1. PICK k \in 1..Len(o) : f[k] = i
    BY <1>1
  <2>2. o[k] = s[i]
    BY <1>2, <2>1
  <2> QED
    BY <2>2 DEF Elements
<1>6. Len(o) <= Len(s)
  BY <1>1
<1> QED
  BY <1>3, <1>4, <1>5, <1>6 DEF o

-----------------------------------------------------------------------------
(* Mailboxes are sequences of entries in the order of their queue numbers.   *)

Ascending(s) == \A i, j \in 1..Len(s) : i < j => s[i].queue < s[j].queue

LEMMA OnlyAscending ==
  ASSUME NEW s, IsSequence(s), NEW T
  PROVE  /\ IsSequence(Only(s, T))
         /\ Len(Only(s, T)) <= Len(s)
         /\ Elements(Only(s, T)) = Elements(s) \cap T
         /\ Ascending(s) => Ascending(Only(s, T))
<1>1. PICK S : s \in Seq(S)
  BY DEF IsSequence
<1> DEFINE o == Only(s, T)
<1>2. PICK f \in [1..Len(o) -> 1..Len(s)] :
        /\ o = [k \in 1..Len(o) |-> s[f[k]]]
        /\ \A j, k \in 1..Len(o) : j < k => f[j] < f[k]
  <2>1. Selects(s, T, o)
    BY <1>1, OnlyPlaces
  <2> QED
    BY <2>1 DEF Selects
<1>3. o \in Seq(S) /\ Len(o) <= Len(s) /\ Elements(o) = Elements(s) \cap T
  BY <1>1, OnlyElements
<1> HIDE DEF o
<1>4. \A k \in 1..Len(o) : o[k] = s[f[k]] /\ f[k] \in 1..Len(s)
  BY <1>2
<1>5. ASSUME Ascending(s) PROVE Ascending(o)
  BY <1>2, <1>4, <1>5 DEF Ascending
<1>6. IsSequence(o)
  BY <1>3 DEF IsSequence
<1> QED
  BY <1>3, <1>5, <1>6 DEF o

(* Sequences one after the other.                                           *)
Joins(s, t, j) ==
  /\ IsSequence(j) /\ Len(s) \in Nat /\ Len(t) \in Nat
  /\ Len(j) = Len(s) + Len(t)
  /\ \A i \in 1..Len(s) : j[i] = s[i]
  /\ \A i \in 1..Len(t) : j[Len(s) + i] = t[i]

LEMMA JoinPlaces ==
  ASSUME NEW s, IsSequence(s), NEW t, IsSequence(t)
  PROVE  Joins(s, t, s \o t)
<1>1. PICK S : s \in Seq(S)
  BY DEF IsSequence
<1>2. PICK U : t \in Seq(U)
  BY DEF IsSequence
<1>3. s \in Seq(S \cup U) /\ t \in Seq(S \cup U)
  BY <1>1, <1>2, SeqMonotonic
<1>4. /\ s \o t \in Seq(S \cup U)
      /\ Len(s \o t) = Len(s) + Len(t)
      /\ \A i \in 1 .. Len(s) + Len(t) : (s \o t)[i] = IF i <= Len(s) THEN s[i] ELSE t[i - Len(s)]
  BY <1>3, ConcatProperties
<1>5. Len(s) \in Nat /\ Len(t) \in Nat
  BY <1>1, <1>2
<1> DEFINE j == s \o t
<1> HIDE DEF j
<1>6. \A i \in 1..Len(s) : j[i] = s[i]
  BY <1>4, <1>5 DEF j
<1>7. \A i \in 1..Len(t) : j[Len(s) + i] = t[i]
  <2> SUFFICES ASSUME NEW i \in 1..Len(t) PROVE j[Len(s) + i] = t[i]
    OBVIOUS
  <2>1. Len(s) + i \in 1 .. Len(s) + Len(t) /\ ~(Len(s) + i <= Len(s)) /\ (Len(s) + i) - Len(s) = i
    BY <1>5
  <2> QED
    BY <1>4, <2>1 DEF j
<1>8. IsSequence(j) /\ Len(j) = Len(s) + Len(t)
  BY <1>4 DEF j, IsSequence
<1> QED
  BY <1>5, <1>6, <1>7, <1>8 DEF j, Joins

LEMMA EmptyBox ==
  /\ IsSequence(<<>>) /\ Elements(<<>>) = {} /\ Ascending(<<>>) /\ Len(<<>>) = 0
  /\ \A s : IsSequence(s) /\ Elements(s) = {} => s = <<>>
<1>1. <<>> \in Seq({})
  OBVIOUS
<1>2. IsSequence(<<>>)
  BY <1>1 DEF IsSequence
<1>3. Elements(<<>>) = {} /\ Ascending(<<>>) /\ Len(<<>>) = 0
  BY DEF Elements, Ascending
<1>4. ASSUME NEW s, IsSequence(s), Elements(s) = {}
      PROVE  s = <<>>
  <2>1. PICK S : s \in Seq(S)
    BY <1>4 DEF IsSequence
  <2>2. Len(s) \in Nat /\ ~(1 \in 1..Len(s))
    BY <1>4, <2>1 DEF Elements
  <2>3. Len(s) = 0
    BY <2>2
  <2> QED
    BY <2>1, <2>3, EmptySeq
<1> QED
  BY <1>2, <1>3, <1>4

LEMMA JoinBoxes ==
  ASSUME NEW s, IsSequence(s), NEW t, IsSequence(t)
  PROVE  /\ IsSequence(s \o t)
         /\ Elements(s \o t) = Elements(s) \cup Elements(t)
         /\ Ascending(s) /\ Ascending(t)
              /\ (\A e \in Elements(s), f \in Elements(t) : e.queue < f.queue)
            => Ascending(s \o t)
<1>1. PICK S : s \in Seq(S)
  BY DEF IsSequence
<1>2. PICK U : t \in Seq(U)
  BY DEF IsSequence
<1>3. s \in Seq(S \cup U) /\ t \in Seq(S \cup U)
  BY <1>1, <1>2, SeqMonotonic
<1>4. /\ s \o t \in Seq(S \cup U)
      /\ Len(s \o t) = Len(s) + Len(t)
      /\ \A i \in 1 .. Len(s) + Len(t) : (s \o t)[i] = IF i <= Len(s) THEN s[i] ELSE t[i - Len(s)]
  BY <1>3, ConcatProperties
<1>5. Len(s) \in Nat /\ Len(t) \in Nat
  BY <1>1, <1>2
<1> DEFINE j == s \o t
<1> HIDE DEF j
<1>6. \A i \in 1..Len(s) : i \in 1..Len(j) /\ j[i] = s[i]
  BY <1>4, <1>5 DEF j
<1>7. \A i \in 1..Len(t) : i + Len(s) \in 1..Len(j) /\ j[i + Len(s)] = t[i]
  BY <1>4, <1>5 DEF j
<1>8. \A i \in 1..Len(j) : \/ i \in 1..Len(s) /\ j[i] = s[i]
                           \/ i > Len(s) /\ i - Len(s) \in 1..Len(t) /\ j[i] = t[i - Len(s)]
  BY <1>4, <1>5 DEF j
<1>9. IsSequence(j)
  BY <1>4 DEF IsSequence, j
<1>10. Elements(j) = Elements(s) \cup Elements(t)
  BY <1>6, <1>7, <1>8 DEF Elements
<1>11. ASSUME Ascending(s), Ascending(t), \A e \in Elements(s), f \in Elements(t) : e.queue < f.queue
       PROVE  Ascending(j)
  <2> SUFFICES ASSUME NEW i \in 1..Len(j), NEW k \in 1..Len(j), i < k
               PROVE  j[i].queue < j[k].queue
    BY DEF Ascending
  <2>1. CASE k \in 1..Len(s) /\ j[k] = s[k]
    <3>1. i \in 1..Len(s) /\ j[i] = s[i]
      BY <1>6, <1>8, <2>1, <1>5
    <3> QED
      BY <1>11, <2>1, <3>1 DEF Ascending
  <2>2. CASE k > Len(s) /\ k - Len(s) \in 1..Len(t) /\ j[k] = t[k - Len(s)]
    <3>1. CASE i \in 1..Len(s) /\ j[i] = s[i]
      <4>1. s[i] \in Elements(s) /\ t[k - Len(s)] \in Elements(t)
        BY <2>2, <3>1 DEF Elements
      <4> QED
        BY <1>11, <2>2, <3>1, <4>1
    <3>2. CASE i > Len(s) /\ i - Len(s) \in 1..Len(t) /\ j[i] = t[i - Len(s)]
      <4>1. i - Len(s) < k - Len(s)
        BY <1>5, <3>2, <2>2
      <4> QED
        BY <1>11, <2>2, <3>2, <4>1 DEF Ascending
    <3> QED
      BY <1>8, <3>1, <3>2
  <2> QED
    BY <1>8, <2>1, <2>2
<1> QED
  BY <1>9, <1>10, <1>11 DEF j

LEMMA TakeHead ==
  ASSUME NEW s, IsSequence(s), s # <<>>, Ascending(s), \A e \in Elements(s) : e.queue \in Nat
  PROVE  /\ Head(s) \in Elements(s)
         /\ IsSequence(Tail(s)) /\ Ascending(Tail(s))
         /\ Elements(Tail(s)) = Elements(s) \ {Head(s)}
<1>1. PICK S : s \in Seq(S)
  BY DEF IsSequence
<1>2. Len(s) \in Nat /\ Len(s) >= 1 /\ 1 \in 1..Len(s)
  <2>1. Len(s) \in Nat /\ Len(s) # 0
    BY <1>1, EmptySeq
  <2> QED
    BY <2>1
<1> DEFINE t == Tail(s)
<1>3. /\ Head(s) = s[1]
      /\ t \in Seq(S) /\ Len(t) = Len(s) - 1
      /\ \A i \in 1..Len(t) : t[i] = s[i + 1]
  BY <1>1, HeadTailProperties
<1> HIDE DEF t
<1>4. Head(s) \in Elements(s)
  BY <1>2, <1>3 DEF Elements
<1>5. \A i \in 1..Len(t) : i + 1 \in 1..Len(s) /\ 1 < i + 1
  BY <1>2, <1>3
<1>6. Ascending(t)
  <2> SUFFICES ASSUME NEW i \in 1..Len(t), NEW j \in 1..Len(t), i < j
               PROVE  t[i].queue < t[j].queue
    BY DEF Ascending
  <2>1. i + 1 \in 1..Len(s) /\ j + 1 \in 1..Len(s) /\ i + 1 < j + 1
    BY <1>5
  <2> QED
    BY <1>3, <2>1 DEF Ascending
<1>7. IsSequence(t)
  BY <1>3 DEF IsSequence
<1>8. \A i \in 1..Len(t) : t[i] \in Elements(s) /\ t[i] # Head(s)
  <2> SUFFICES ASSUME NEW i \in 1..Len(t)
               PROVE  t[i] \in Elements(s) /\ t[i] # Head(s)
    OBVIOUS
  <2>1. s[1].queue < s[i + 1].queue
    BY <1>2, <1>5 DEF Ascending
  <2>2. t[i] = s[i + 1] /\ s[i + 1] \in Elements(s)
    BY <1>3, <1>5 DEF Elements
  <2>3. s[1].queue \in Nat
    BY <1>3, <1>4
  <2>4. ~(s[1].queue < s[1].queue)
    BY <2>3
  <2> QED
    BY <1>3, <2>1, <2>2, <2>4
<1>9. \A i \in 1..Len(s) : i = 1 \/ (i - 1 \in 1..Len(t) /\ s[i] = t[i - 1])
  <2> SUFFICES ASSUME NEW i \in 1..Len(s), i # 1
               PROVE  i - 1 \in 1..Len(t) /\ s[i] = t[i - 1]
    OBVIOUS
  <2>1. i - 1 \in 1..Len(t) /\ (i - 1) + 1 = i
    BY <1>2, <1>3
  <2> QED
    BY <1>3, <2>1
<1>10. Elements(t) = Elements(s) \ {Head(s)}
  <2>1. Elements(t) \subseteq Elements(s) \ {Head(s)}
    BY <1>8 DEF Elements
  <2>2. ASSUME NEW i \in 1..Len(s), s[i] # Head(s)
        PROVE  s[i] \in Elements(t)
    <3>1. i - 1 \in 1..Len(t) /\ s[i] = t[i - 1]
      BY <1>3, <1>9, <2>2
    <3> QED
      BY <3>1 DEF Elements
  <2>3. Elements(s) \ {Head(s)} \subseteq Elements(t)
    BY <2>2 DEF Elements
  <2> QED
    BY <2>1, <2>3
<1> QED
  BY <1>4, <1>6, <1>7, <1>10 DEF t

-----------------------------------------------------------------------------
(* What is true of the mailboxes of an aggregate between the operations that *)
(* make up a step.                                                           *)

Kinds == {"ready", "deferred"}
EntryFields == {"id", "event", "mode", "accepted", "queue"}
Statuses == {"running", "absent", "completed", "faulted"}
Leaves == [transaction_server |-> {"idle", "receiving", "authorizing"},
           parallel_components |-> {"processing", "faulty_processing", "cleanup_failed"}]

Shape(a) ==
  /\ DOMAIN a = {"definition", "status", "leaf", "ready", "deferred", "nextStep",
                 "nextAcceptance", "nextQueue", "migrations"}
  /\ DOMAIN a.status = Runtimes /\ DOMAIN a.ready = Runtimes /\ DOMAIN a.deferred = Runtimes
  /\ \A r \in Runtimes : a.status[r] \in Statuses
  /\ a.definition \in Definitions /\ a.leaf \in Leaves[Chart[a.definition]]
  /\ a.nextStep \in Nat /\ a.nextAcceptance \in Nat /\ a.nextQueue \in Nat /\ a.migrations \in Nat

(* An identity is a host's, or that of a step before n.                      *)
Known(i, n) == Len(i) = 1 \/ (Len(i) = 5 /\ i[2] \in 0..(n - 1))

EntrySound(a, e, n) ==
  /\ DOMAIN e = EntryFields
  /\ e.accepted \in 0..(a.nextAcceptance - 1)
  /\ e.queue \in 0..(a.nextQueue - 1)
  /\ Known(e.id, n)

BoxesSound(a, n) ==
  \A k \in Kinds, r \in Runtimes :
    /\ IsSequence(a[k][r]) /\ Ascending(a[k][r])
    /\ \A e \in Elements(a[k][r]) : EntrySound(a, e, n)

(* Two entries that share a number or an identity are one entry in one place. *)
Apart(a) ==
  \A k, l \in Kinds : \A r, q \in Runtimes :
    \A e \in Elements(a[k][r]), f \in Elements(a[l][q]) :
      e.accepted = f.accepted \/ e.queue = f.queue \/ e.id = f.id
        => k = l /\ r = q /\ e = f

Sound(a, n) == Shape(a) /\ BoxesSound(a, n) /\ Apart(a)

(* Removing entries.                                                         *)
Thins(a, b) ==
  /\ Shape(b)
  /\ b.nextAcceptance = a.nextAcceptance /\ b.nextQueue = a.nextQueue
  /\ \A k \in Kinds, r \in Runtimes :
       /\ IsSequence(b[k][r]) /\ Ascending(b[k][r])
       /\ Elements(b[k][r]) \subseteq Elements(a[k][r])

LEMMA ThinSound ==
  ASSUME NEW a, NEW n, Sound(a, n), NEW b, Thins(a, b)
  PROVE  Sound(b, n)
<1>1. BoxesSound(b, n)
  BY DEF Sound, BoxesSound, EntrySound, Thins
<1>2. Apart(b)
  BY DEF Sound, Apart, Thins
<1> QED
  BY <1>1, <1>2 DEF Sound, Thins

(* An identity that is known stays known.                                    *)
LEMMA KnownLonger ==
  ASSUME NEW a, NEW n \in Nat, Sound(a, n)
  PROVE  Sound(a, n + 1)
<1>1. \A i : Known(i, n) => Known(i, n + 1)
  BY DEF Known
<1>2. BoxesSound(a, n + 1)
  BY <1>1 DEF Sound, BoxesSound, EntrySound
<1> QED
  BY <1>2 DEF Sound

LEMMA RetainedIn ==
  ASSUME NEW a, NEW e
  PROVE  e \in Retained(a) <=> \E k \in Kinds, r \in Runtimes : e \in Elements(a[k][r])
  BY DEF Retained, Kinds

(* Moving entries to the tail of the other mailbox of a runtime, in order and *)
(* with new queue numbers.                                                   *)
Renumbered(back, q) == [i \in 1..Len(back) |-> [back[i] EXCEPT !.queue = q + i - 1]]

LEMMA RenumberedEntries ==
  ASSUME NEW back, IsSequence(back), NEW q \in Nat,
         \A e \in Elements(back) : DOMAIN e = EntryFields
  PROVE  /\ IsSequence(Renumbered(back, q)) /\ Ascending(Renumbered(back, q))
         /\ Len(Renumbered(back, q)) = Len(back) /\ Len(back) \in Nat
         /\ \A i \in 1..Len(back) :
              /\ DOMAIN Renumbered(back, q)[i] = EntryFields
              /\ Renumbered(back, q)[i].queue = q + i - 1
              /\ Renumbered(back, q)[i].id = back[i].id
              /\ Renumbered(back, q)[i].event = back[i].event
              /\ Renumbered(back, q)[i].mode = back[i].mode
              /\ Renumbered(back, q)[i].accepted = back[i].accepted
<1>1. Len(back) \in Nat
  BY DEF IsSequence
<1> DEFINE m == Renumbered(back, q)
<1>2. \A i \in 1..Len(back) : m[i] = [back[i] EXCEPT !.queue = q + i - 1]
  BY DEF Renumbered
<1>3. \A i \in 1..Len(back) : DOMAIN back[i] = EntryFields
  BY DEF Elements
<1>4. ASSUME NEW i \in 1..Len(back)
      PROVE  /\ DOMAIN m[i] = EntryFields /\ m[i].queue = q + i - 1
             /\ m[i].id = back[i].id /\ m[i].event = back[i].event
             /\ m[i].mode = back[i].mode /\ m[i].accepted = back[i].accepted
  BY <1>2, <1>3 DEF EntryFields
<1>5. m \in Seq({m[i] : i \in 1..Len(back)})
  <2>1. m \in [1..Len(back) -> {m[i] : i \in 1..Len(back)}]
    BY DEF Renumbered
  <2> QED
    BY <1>1, <2>1, IsASeq
<1>6. Len(m) = Len(back)
  BY <1>1, <1>5, LenProperties DEF Renumbered
<1> HIDE DEF m
<1>7. IsSequence(m)
  BY <1>5 DEF IsSequence
<1>8. Ascending(m)
  BY <1>1, <1>4, <1>6 DEF Ascending
<1> QED
  BY <1>1, <1>4, <1>6, <1>7, <1>8 DEF m

MovedOver(a, b, k, l, r, back) ==
  /\ k \in Kinds /\ l \in Kinds /\ k # l /\ r \in Runtimes
  /\ IsSequence(back) /\ Ascending(back) /\ Elements(back) \subseteq Elements(a[k][r])
  /\ b.nextAcceptance = a.nextAcceptance /\ b.nextQueue = a.nextQueue + Len(back)
  /\ IsSequence(b[k][r]) /\ Ascending(b[k][r])
  /\ Elements(b[k][r]) = Elements(a[k][r]) \ Elements(back)
  /\ b[l][r] = a[l][r] \o Renumbered(back, a.nextQueue)
  /\ \A m \in Kinds, q \in Runtimes : q # r => b[m][q] = a[m][q]

LEMMA MoveSound ==
  ASSUME NEW a, NEW n, Sound(a, n), NEW b, Shape(b),
         NEW k, NEW l, NEW r, NEW back, MovedOver(a, b, k, l, r, back)
  PROVE  /\ Sound(b, n)
         /\ Numbers(Retained(b)) = Numbers(Retained(a))
<1> SUFFICES ASSUME k \in Kinds, l \in Kinds, k # l, r \in Runtimes,
                    IsSequence(back), Ascending(back), Elements(back) \subseteq Elements(a[k][r]),
                    b.nextAcceptance = a.nextAcceptance, b.nextQueue = a.nextQueue + Len(back),
                    IsSequence(b[k][r]), Ascending(b[k][r]),
                    Elements(b[k][r]) = Elements(a[k][r]) \ Elements(back),
                    b[l][r] = a[l][r] \o Renumbered(back, a.nextQueue),
                    \A m \in Kinds, q \in Runtimes : q # r => b[m][q] = a[m][q]
             PROVE  Sound(b, n) /\ Numbers(Retained(b)) = Numbers(Retained(a))
  BY DEF MovedOver
<1> DEFINE moved == Renumbered(back, a.nextQueue)
<1>1. a.nextQueue \in Nat /\ a.nextAcceptance \in Nat
  BY DEF Sound, Shape
<1>2. \A e \in Elements(back) : EntrySound(a, e, n)
  BY DEF Sound, BoxesSound
<1>3. /\ IsSequence(moved) /\ Ascending(moved) /\ Len(moved) = Len(back) /\ Len(back) \in Nat
      /\ \A i \in 1..Len(back) :
           /\ DOMAIN moved[i] = EntryFields /\ moved[i].queue = a.nextQueue + i - 1
           /\ moved[i].id = back[i].id /\ moved[i].accepted = back[i].accepted
  BY <1>1, <1>2, RenumberedEntries DEF EntrySound
<1>4. \A i \in 1..Len(back) : back[i] \in Elements(back) /\ moved[i] \in Elements(moved)
  BY <1>3 DEF Elements
<1>5. \A e \in Elements(moved) : \E i \in 1..Len(back) : e = moved[i]
  BY <1>3 DEF Elements
<1>18. \A e \in Elements(back) : \E i \in 1..Len(back) : e = back[i]
  BY DEF Elements
<1> HIDE DEF moved
<1>6. \A e \in Elements(moved) : EntrySound(b, e, n) /\ e.queue >= a.nextQueue
  <2> SUFFICES ASSUME NEW i \in 1..Len(back)
               PROVE  EntrySound(b, moved[i], n) /\ moved[i].queue >= a.nextQueue
    BY <1>5
  <2>1. EntrySound(a, back[i], n)
    BY <1>2, <1>4
  <2>2. moved[i].queue \in 0..(b.nextQueue - 1) /\ moved[i].queue >= a.nextQueue
    BY <1>1, <1>3
  <2> QED
    BY <1>3, <2>1, <2>2 DEF EntrySound
<1>7. /\ IsSequence(a[l][r]) /\ Ascending(a[l][r])
      /\ \A e \in Elements(a[l][r]) : e.queue \in 0..(a.nextQueue - 1)
  BY DEF Sound, BoxesSound, EntrySound
<1>8. \A e \in Elements(a[l][r]), f \in Elements(moved) : e.queue < f.queue
  <2>1. \A f \in Elements(moved) : f.queue \in Int
    BY <1>6 DEF EntrySound
  <2> QED
    BY <1>1, <1>6, <1>7, <2>1
<1>9. /\ IsSequence(b[l][r]) /\ Ascending(b[l][r])
      /\ Elements(b[l][r]) = Elements(a[l][r]) \cup Elements(moved)
  BY <1>3, <1>7, <1>8, JoinBoxes DEF moved
<1>10. \A e : \A m \in Kinds, q \in Runtimes : e \in Elements(a[m][q]) => EntrySound(b, e, n)
  BY <1>1, <1>3 DEF Sound, BoxesSound, EntrySound
<1>11. Kinds = {k, l}
  BY DEF Kinds
<1>12. BoxesSound(b, n)
  <2> SUFFICES ASSUME NEW m \in Kinds, NEW q \in Runtimes
               PROVE  /\ IsSequence(b[m][q]) /\ Ascending(b[m][q])
                      /\ \A e \in Elements(b[m][q]) : EntrySound(b, e, n)
    BY DEF BoxesSound
  <2>1. CASE q # r
    BY <2>1, <1>10 DEF Sound, BoxesSound
  <2>2. CASE q = r /\ m = k
    BY <2>2, <1>10
  <2>3. CASE q = r /\ m = l
    BY <2>3, <1>6, <1>9, <1>10
  <2> QED
    BY <1>11, <2>1, <2>2, <2>3
<1> DEFINE Stays(e, m, q) == /\ e \in Elements(a[m][q])
                             /\ m = k /\ q = r => e \notin Elements(back)
           Moves(e, m, q) == m = l /\ q = r /\ e \in Elements(moved)
<1>13. \A m \in Kinds, q \in Runtimes : \A e \in Elements(b[m][q]) : Stays(e, m, q) \/ Moves(e, m, q)
  <2> SUFFICES ASSUME NEW m \in Kinds, NEW q \in Runtimes, NEW e \in Elements(b[m][q])
               PROVE  Stays(e, m, q) \/ Moves(e, m, q)
    OBVIOUS
  <2>1. CASE q # r
    BY <2>1
  <2>2. CASE q = r /\ m = k
    BY <2>2
  <2>3. CASE q = r /\ m = l
    BY <2>3, <1>9
  <2> QED
    BY <1>11, <2>1, <2>2, <2>3
<1>14. ASSUME NEW e, NEW m \in Kinds, NEW q \in Runtimes, Stays(e, m, q),
              NEW f, NEW o \in Kinds, NEW p \in Runtimes, Moves(f, o, p)
       PROVE  e.accepted # f.accepted /\ e.queue # f.queue /\ e.id # f.id
  <2>1. PICK i \in 1..Len(back) : f = moved[i]
    BY <1>5, <1>14
  <2>2. back[i] \in Elements(back) /\ back[i] \in Elements(a[k][r])
    BY <1>4
  <2>3. ~(m = k /\ q = r /\ e = back[i])
    BY <1>14, <2>2
  <2>4. e.accepted # back[i].accepted /\ e.id # back[i].id
    BY <1>14, <2>2, <2>3 DEF Sound, Apart
  <2>5. e.queue \in 0..(a.nextQueue - 1)
    BY <1>14 DEF Sound, BoxesSound, EntrySound
  <2>6. f.queue = a.nextQueue + i - 1
    BY <1>3, <2>1
  <2> QED
    BY <1>1, <1>3, <2>1, <2>4, <2>5, <2>6
<1>15. ASSUME NEW i \in 1..Len(back), NEW j \in 1..Len(back),
              \/ moved[i].accepted = moved[j].accepted
              \/ moved[i].queue = moved[j].queue
              \/ moved[i].id = moved[j].id
       PROVE  moved[i] = moved[j]
  <2>1. CASE moved[i].queue = moved[j].queue
    <3>1. i = j
      BY <1>1, <1>3, <2>1
    <3> QED
      BY <3>1
  <2>2. CASE moved[i].accepted = moved[j].accepted \/ moved[i].id = moved[j].id
    <3> DEFINE e == back[i]
               f == back[j]
    <3>5. e \in Elements(a[k][r]) /\ f \in Elements(a[k][r])
      BY <1>4
    <3>6. e.accepted = f.accepted \/ e.id = f.id
      BY <1>3, <2>2
    <3>1. back[i] = back[j]
      <4> HIDE DEF e, f
      <4>1. e = f
        BY <3>5, <3>6 DEF Sound, Apart
      <4> QED
        BY <4>1 DEF e, f
    <3>2. back[i].queue \in Nat
      BY <1>2, <1>4 DEF EntrySound
    <3>3. ~(i < j) /\ ~(j < i)
      BY <3>1, <3>2 DEF Ascending
    <3>4. i = j
      BY <1>3, <3>3
    <3> QED
      BY <3>4
  <2> QED
    BY <1>15, <2>1, <2>2
<1>16. Apart(b)
  <2> SUFFICES ASSUME NEW m \in Kinds, NEW o \in Kinds, NEW q \in Runtimes, NEW p \in Runtimes,
                      NEW e \in Elements(b[m][q]), NEW f \in Elements(b[o][p]),
                      e.accepted = f.accepted \/ e.queue = f.queue \/ e.id = f.id
               PROVE  m = o /\ q = p /\ e = f
    BY DEF Apart
  <2>1. CASE Stays(e, m, q) /\ Stays(f, o, p)
    BY <2>1 DEF Sound, Apart
  <2>2. CASE Moves(e, m, q) /\ Moves(f, o, p)
    <3>1. PICK i \in 1..Len(back) : e = moved[i]
      BY <1>5, <2>2
    <3>2. PICK j \in 1..Len(back) : f = moved[j]
      BY <1>5, <2>2
    <3>3. e = f
      BY <1>15, <3>1, <3>2
    <3> QED
      BY <2>2, <3>3
  <2>3. CASE Stays(e, m, q) /\ Moves(f, o, p)
    BY <1>14, <2>3
  <2>4. CASE Moves(e, m, q) /\ Stays(f, o, p)
    BY <1>14, <2>4
  <2> HIDE DEF Stays, Moves
  <2> QED
    BY <1>13, <2>1, <2>2, <2>3, <2>4
<1>17. Numbers(Retained(b)) = Numbers(Retained(a))
  <2>1. ASSUME NEW e \in Retained(b) PROVE e.accepted \in Numbers(Retained(a))
    <3>1. PICK m \in Kinds, q \in Runtimes : e \in Elements(b[m][q])
      BY RetainedIn
    <3>2. CASE Stays(e, m, q)
      <4>1. e \in Retained(a)
        BY <3>2, RetainedIn
      <4> QED
        BY <4>1 DEF Numbers
    <3>3. CASE Moves(e, m, q)
      <4>1. PICK i \in 1..Len(back) : e = moved[i]
        BY <1>5, <3>3
      <4>2. e.accepted = back[i].accepted /\ back[i] \in Elements(a[k][r])
        BY <1>3, <1>4, <4>1
      <4>3. back[i] \in Retained(a)
        BY <4>2, RetainedIn
      <4> QED
        BY <4>2, <4>3 DEF Numbers
    <3> QED
      BY <1>13, <3>1, <3>2, <3>3
  <2>2. ASSUME NEW e \in Retained(a) PROVE e.accepted \in Numbers(Retained(b))
    <3>1. PICK m \in Kinds, q \in Runtimes : e \in Elements(a[m][q])
      BY RetainedIn
    <3>2. CASE e \in Elements(back)
      <4>1. PICK i \in 1..Len(back) : e = back[i]
        BY <1>18, <3>2
      <4>2. moved[i].accepted = e.accepted /\ moved[i] \in Elements(b[l][r])
        BY <1>3, <1>4, <1>9, <4>1
      <4>3. moved[i] \in Retained(b)
        BY <4>2, RetainedIn
      <4> QED
        BY <4>2, <4>3 DEF Numbers
    <3>3. CASE e \notin Elements(back)
      <4>1. e \in Elements(b[m][q])
        BY <1>9, <1>11, <3>1, <3>3
      <4>2. e \in Retained(b)
        BY <4>1, RetainedIn
      <4> QED
        BY <4>2 DEF Numbers
    <3> QED
      BY <3>2, <3>3
  <2> QED
    BY <2>1, <2>2 DEF Numbers
<1> QED
  BY <1>12, <1>16, <1>17 DEF Sound

(* Events joining the tails of ready mailboxes.                              *)
Arrivals(a, xs) ==
  [i \in 1..Len(xs) |->
     [id |-> xs[i].id, event |-> xs[i].event, mode |-> xs[i].mode,
      accepted |-> a.nextAcceptance + i - 1, queue |-> a.nextQueue + i - 1]]
Arrived(a, xs) == {Arrivals(a, xs)[i] : i \in 1..Len(xs)}
ArrivedAt(a, xs, r) == {Arrivals(a, xs)[i] : i \in {j \in 1..Len(xs) : xs[j].to = r}}

LEMMA ArrivalEntries ==
  ASSUME NEW a, a.nextAcceptance \in Nat, a.nextQueue \in Nat, NEW xs, Len(xs) \in Nat
  PROVE  /\ IsSequence(Arrivals(a, xs)) /\ Ascending(Arrivals(a, xs))
         /\ Elements(Arrivals(a, xs)) = Arrived(a, xs)
         /\ \A i \in 1..Len(xs) :
              /\ DOMAIN Arrivals(a, xs)[i] = EntryFields
              /\ Arrivals(a, xs)[i].id = xs[i].id
              /\ Arrivals(a, xs)[i].event = xs[i].event
              /\ Arrivals(a, xs)[i].mode = xs[i].mode
              /\ Arrivals(a, xs)[i].accepted = a.nextAcceptance + i - 1
              /\ Arrivals(a, xs)[i].queue = a.nextQueue + i - 1
<1> DEFINE m == Arrivals(a, xs)
<1>1. \A i \in 1..Len(xs) :
        m[i] = [id |-> xs[i].id, event |-> xs[i].event, mode |-> xs[i].mode,
                accepted |-> a.nextAcceptance + i - 1, queue |-> a.nextQueue + i - 1]
  BY DEF Arrivals
<1>2. m \in [1..Len(xs) -> Arrived(a, xs)]
  BY DEF Arrivals, Arrived
<1> HIDE DEF m
<1>3. m \in Seq(Arrived(a, xs))
  BY <1>2, IsASeq
<1>4. Len(m) = Len(xs)
  BY <1>2, <1>3, LenProperties
<1>5. \A i \in 1..Len(xs) :
        /\ DOMAIN m[i] = EntryFields /\ m[i].id = xs[i].id /\ m[i].event = xs[i].event
        /\ m[i].mode = xs[i].mode /\ m[i].accepted = a.nextAcceptance + i - 1
        /\ m[i].queue = a.nextQueue + i - 1
  <2> SUFFICES ASSUME NEW i \in 1..Len(xs)
               PROVE  /\ DOMAIN m[i] = EntryFields /\ m[i].id = xs[i].id
                      /\ m[i].event = xs[i].event /\ m[i].mode = xs[i].mode
                      /\ m[i].accepted = a.nextAcceptance + i - 1
                      /\ m[i].queue = a.nextQueue + i - 1
    OBVIOUS
  <2>1. m[i] = [id |-> xs[i].id, event |-> xs[i].event, mode |-> xs[i].mode,
                accepted |-> a.nextAcceptance + i - 1, queue |-> a.nextQueue + i - 1]
    BY <1>1
  <2>2. DOMAIN m[i] = EntryFields
    BY <2>1 DEF EntryFields
  <2> QED
    BY <2>1, <2>2
<1>6. Ascending(m)
  BY <1>4, <1>5 DEF Ascending
<1>7. Elements(m) = Arrived(a, xs)
  BY <1>4 DEF Elements, Arrived, m
<1>8. IsSequence(m)
  BY <1>3 DEF IsSequence
<1> QED
  BY <1>5, <1>6, <1>7, <1>8 DEF m

Newcomers(a, xs, n) ==
  /\ Len(xs) \in Nat
  /\ \A i \in 1..Len(xs) : xs[i].to \in Runtimes /\ Known(xs[i].id, n)
  /\ \A i \in 1..Len(xs) : \A e \in Retained(a) : e.id # xs[i].id
  /\ \A i, j \in 1..Len(xs) : i # j => xs[i].id # xs[j].id

LEMMA JoinFields ==
  ASSUME NEW a, NEW n, Sound(a, n), NEW xs, Newcomers(a, xs, n), NEW b, b = Enqueued(a, xs)
  PROVE  /\ Shape(b)
         /\ b.definition = a.definition /\ b.status = a.status /\ b.leaf = a.leaf
         /\ b.deferred = a.deferred /\ b.nextStep = a.nextStep /\ b.migrations = a.migrations
         /\ b.nextAcceptance = a.nextAcceptance + Len(xs)
         /\ b.nextQueue = a.nextQueue + Len(xs)
         /\ \A r \in Runtimes :
              b.ready[r] = a.ready[r] \o Only(Arrivals(a, xs), ArrivedAt(a, xs, r))
<1>1. b = [a EXCEPT !.ready = [r \in Runtimes |->
                                 @[r] \o Only(Arrivals(a, xs), ArrivedAt(a, xs, r))],
                    !.nextAcceptance = @ + Len(xs), !.nextQueue = @ + Len(xs)]
  BY DEF Enqueued, Arrivals, ArrivedAt
<1>2. Shape(a) /\ Len(xs) \in Nat
  BY DEF Sound, Newcomers
<1>3. /\ DOMAIN b = DOMAIN a
      /\ b.definition = a.definition /\ b.status = a.status /\ b.leaf = a.leaf
      /\ b.deferred = a.deferred /\ b.nextStep = a.nextStep /\ b.migrations = a.migrations
      /\ b.nextAcceptance = a.nextAcceptance + Len(xs)
      /\ b.nextQueue = a.nextQueue + Len(xs)
      /\ b.ready = [r \in Runtimes |->
                      a.ready[r] \o Only(Arrivals(a, xs), ArrivedAt(a, xs, r))]
  BY <1>1, <1>2 DEF Shape
<1> HIDE DEF Enqueued
<1>4. Shape(b)
  BY <1>2, <1>3 DEF Shape
<1> QED
  BY <1>3, <1>4

Gains(a, xs, n, b) ==
  /\ Sound(b, n)
  /\ \A r \in Runtimes : Elements(b.ready[r]) = Elements(a.ready[r]) \cup ArrivedAt(a, xs, r)
  /\ Retained(b) = Retained(a) \cup Arrived(a, xs)
  /\ Arrived(a, xs) \cap Retained(a) = {}
  /\ Numbers(Arrived(a, xs)) = a.nextAcceptance .. (a.nextAcceptance + Len(xs) - 1)

LEMMA JoinSound ==
  ASSUME NEW a, NEW n, Sound(a, n), NEW xs, Newcomers(a, xs, n), NEW b, b = Enqueued(a, xs)
  PROVE  Gains(a, xs, n, b)
<1> DEFINE s == Arrivals(a, xs)
           At(r) == ArrivedAt(a, xs, r)
<1>1. Shape(a) /\ a.nextAcceptance \in Nat /\ a.nextQueue \in Nat /\ Len(xs) \in Nat
  BY DEF Sound, Shape, Newcomers
<1>2. /\ IsSequence(s) /\ Ascending(s) /\ Elements(s) = Arrived(a, xs)
      /\ \A i \in 1..Len(xs) :
           /\ DOMAIN s[i] = EntryFields /\ s[i].id = xs[i].id
           /\ s[i].accepted = a.nextAcceptance + i - 1
           /\ s[i].queue = a.nextQueue + i - 1
  BY <1>1, ArrivalEntries
<1>3. /\ Shape(b) /\ b.deferred = a.deferred
      /\ b.nextAcceptance = a.nextAcceptance + Len(xs)
      /\ b.nextQueue = a.nextQueue + Len(xs)
      /\ \A r \in Runtimes : b.ready[r] = a.ready[r] \o Only(s, At(r))
  BY JoinFields
<1>4. \A r \in Runtimes : At(r) \subseteq Arrived(a, xs)
  BY DEF ArrivedAt, Arrived
<1>5. \A r \in Runtimes : \A e \in At(r) : \E i \in 1..Len(xs) : e = s[i] /\ xs[i].to = r
  BY DEF ArrivedAt
<1>6. \A i \in 1..Len(xs) : s[i] \in At(xs[i].to) /\ xs[i].to \in Runtimes
  BY DEF ArrivedAt, Newcomers
<1>7. \A e \in Arrived(a, xs) : \E i \in 1..Len(xs) : e = s[i]
  BY DEF Arrived
<1>8. \A i \in 1..Len(xs) : s[i] \in Arrived(a, xs)
  BY DEF Arrived
<1>9. Numbers(Arrived(a, xs)) = a.nextAcceptance .. (a.nextAcceptance + Len(xs) - 1)
  <2>1. \A i \in 1..Len(xs) : s[i].accepted \in a.nextAcceptance .. (a.nextAcceptance + Len(xs) - 1)
    BY <1>1, <1>2
  <2>2. ASSUME NEW c \in a.nextAcceptance .. (a.nextAcceptance + Len(xs) - 1)
        PROVE  \E e \in Arrived(a, xs) : e.accepted = c
    <3> DEFINE i == c - a.nextAcceptance + 1
    <3>1. i \in 1..Len(xs) /\ a.nextAcceptance + i - 1 = c
      BY <1>1
    <3> HIDE DEF i
    <3> QED
      BY <1>2, <1>8, <3>1
  <2> QED
    BY <1>7, <2>1, <2>2 DEF Numbers
<1> HIDE DEF s, At
<1>10. \A r \in Runtimes : /\ IsSequence(Only(s, At(r))) /\ Ascending(Only(s, At(r)))
                           /\ Elements(Only(s, At(r))) = At(r)
  <2> SUFFICES ASSUME NEW r \in Runtimes
               PROVE  /\ IsSequence(Only(s, At(r))) /\ Ascending(Only(s, At(r)))
                      /\ Elements(Only(s, At(r))) = At(r)
    OBVIOUS
  <2>1. IsSequence(s) /\ Ascending(s) /\ Elements(s) = Arrived(a, xs)
    BY <1>2
  <2>2. /\ IsSequence(Only(s, At(r))) /\ Ascending(Only(s, At(r)))
        /\ Elements(Only(s, At(r))) = Elements(s) \cap At(r)
    BY <2>1, OnlyAscending
  <2> QED
    BY <1>4, <2>1, <2>2
<1>11. \A i \in 1..Len(xs) : EntrySound(b, s[i], n) /\ s[i].queue >= a.nextQueue
                             /\ s[i].accepted >= a.nextAcceptance
  <2> SUFFICES ASSUME NEW i \in 1..Len(xs)
               PROVE  /\ EntrySound(b, s[i], n) /\ s[i].queue >= a.nextQueue
                      /\ s[i].accepted >= a.nextAcceptance
    OBVIOUS
  <2>1. \A m \in Nat : m + i - 1 \in 0..(m + Len(xs) - 1) /\ m + i - 1 >= m
    BY <1>1
  <2>2. s[i].accepted \in 0..(b.nextAcceptance - 1) /\ s[i].accepted >= a.nextAcceptance
    BY <1>1, <1>2, <1>3, <2>1
  <2>3. s[i].queue \in 0..(b.nextQueue - 1) /\ s[i].queue >= a.nextQueue
    BY <1>1, <1>2, <1>3, <2>1
  <2> QED
    BY <1>2, <2>2, <2>3 DEF EntrySound, Newcomers
<1>12. \A k \in Kinds, r \in Runtimes :
         /\ IsSequence(a[k][r]) /\ Ascending(a[k][r])
         /\ \A e \in Elements(a[k][r]) : EntrySound(a, e, n)
  BY DEF Sound, BoxesSound
<1>13. ASSUME NEW r \in Runtimes
       PROVE  /\ IsSequence(b.ready[r]) /\ Ascending(b.ready[r])
              /\ Elements(b.ready[r]) = Elements(a.ready[r]) \cup At(r)
  <2>1. IsSequence(a.ready[r]) /\ Ascending(a.ready[r])
        /\ \A e \in Elements(a.ready[r]) : EntrySound(a, e, n)
    BY <1>12 DEF Kinds
  <2>2. \A e \in Elements(a.ready[r]), f \in At(r) : e.queue < f.queue
    <3> SUFFICES ASSUME NEW e \in Elements(a.ready[r]), NEW i \in 1..Len(xs)
                 PROVE  e.queue < s[i].queue
      BY <1>5
    <3>1. e.queue \in 0..(a.nextQueue - 1)
      BY <2>1 DEF EntrySound
    <3> QED
      BY <1>1, <1>2, <3>1
  <2> QED
    BY <1>3, <1>10, <2>1, <2>2, JoinBoxes
<1>14. \A e : EntrySound(a, e, n) => EntrySound(b, e, n)
  <2>1. \A m \in Nat : 0..(m - 1) \subseteq 0..(m + Len(xs) - 1)
    BY <1>1
  <2>2. /\ 0..(a.nextAcceptance - 1) \subseteq 0..(b.nextAcceptance - 1)
        /\ 0..(a.nextQueue - 1) \subseteq 0..(b.nextQueue - 1)
    BY <1>1, <1>3, <2>1
  <2> QED
    BY <2>2 DEF EntrySound
<1>15. BoxesSound(b, n)
  <2> SUFFICES ASSUME NEW k \in Kinds, NEW r \in Runtimes
               PROVE  /\ IsSequence(b[k][r]) /\ Ascending(b[k][r])
                      /\ \A e \in Elements(b[k][r]) : EntrySound(b, e, n)
    BY DEF BoxesSound
  <2>1. CASE k = "deferred"
    BY <1>3, <1>12, <1>14, <2>1
  <2>2. CASE k = "ready"
    <3>1. \A e \in At(r) : EntrySound(b, e, n)
      BY <1>5, <1>11
    <3>2. \A e \in Elements(a.ready[r]) : EntrySound(b, e, n)
      BY <1>12, <1>14 DEF Kinds
    <3> QED
      BY <1>13, <2>2, <3>1, <3>2
  <2> QED
    BY <2>1, <2>2 DEF Kinds
<1> DEFINE Comes(e, k, r) == k = "ready" /\ e \in At(r)
<1>16. \A k \in Kinds, r \in Runtimes : \A e \in Elements(b[k][r]) :
         e \in Elements(a[k][r]) \/ Comes(e, k, r)
  BY <1>3, <1>13 DEF Kinds
<1>17. ASSUME NEW k \in Kinds, NEW r \in Runtimes, NEW e \in Elements(a[k][r]),
              NEW i \in 1..Len(xs)
       PROVE  e.accepted # s[i].accepted /\ e.queue # s[i].queue /\ e.id # s[i].id
  <2>1. e.accepted \in 0..(a.nextAcceptance - 1) /\ e.queue \in 0..(a.nextQueue - 1)
    BY <1>12 DEF EntrySound
  <2>2. e.id # xs[i].id
    BY RetainedIn DEF Newcomers
  <2> QED
    BY <1>1, <1>2, <2>1, <2>2
<1>18. ASSUME NEW i \in 1..Len(xs), NEW j \in 1..Len(xs),
              s[i].accepted = s[j].accepted \/ s[i].queue = s[j].queue \/ s[i].id = s[j].id
       PROVE  i = j
  BY <1>1, <1>2, <1>18 DEF Newcomers
<1>19. ASSUME NEW r \in Runtimes, NEW q \in Runtimes, NEW e \in At(r), NEW f \in At(q),
              e.accepted = f.accepted \/ e.queue = f.queue \/ e.id = f.id
       PROVE  r = q /\ e = f
  <2>1. PICK i \in 1..Len(xs) : e = s[i] /\ xs[i].to = r
    BY <1>5
  <2>2. PICK j \in 1..Len(xs) : f = s[j] /\ xs[j].to = q
    BY <1>5
  <2>3. i = j
    BY <1>18, <1>19, <2>1, <2>2
  <2> QED
    BY <2>1, <2>2, <2>3
<1>20. Apart(b)
  <2> SUFFICES ASSUME NEW k \in Kinds, NEW l \in Kinds, NEW r \in Runtimes, NEW q \in Runtimes,
                      NEW e \in Elements(b[k][r]), NEW f \in Elements(b[l][q]),
                      e.accepted = f.accepted \/ e.queue = f.queue \/ e.id = f.id
               PROVE  k = l /\ r = q /\ e = f
    BY DEF Apart
  <2>1. CASE e \in Elements(a[k][r]) /\ f \in Elements(a[l][q])
    BY <2>1 DEF Sound, Apart
  <2>2. CASE Comes(e, k, r) /\ Comes(f, l, q)
    BY <1>19, <2>2
  <2>3. CASE e \in Elements(a[k][r]) /\ Comes(f, l, q)
    <3>1. PICK i \in 1..Len(xs) : f = s[i]
      BY <1>5, <2>3
    <3> QED
      BY <1>17, <2>3, <3>1
  <2>4. CASE Comes(e, k, r) /\ f \in Elements(a[l][q])
    <3>1. PICK i \in 1..Len(xs) : e = s[i]
      BY <1>5, <2>4
    <3> QED
      BY <1>17, <2>4, <3>1
  <2> HIDE DEF Comes
  <2> QED
    BY <1>16, <2>1, <2>2, <2>3, <2>4
<1>21. Retained(b) = Retained(a) \cup Arrived(a, xs)
  <2>1. ASSUME NEW e \in Retained(b) PROVE e \in Retained(a) \cup Arrived(a, xs)
    <3>1. PICK k \in Kinds, r \in Runtimes : e \in Elements(b[k][r])
      BY RetainedIn
    <3> QED
      BY <1>4, <1>16, <3>1, RetainedIn
  <2>2. ASSUME NEW e \in Retained(a) PROVE e \in Retained(b)
    <3>1. PICK k \in Kinds, r \in Runtimes : e \in Elements(a[k][r])
      BY RetainedIn
    <3>2. e \in Elements(b[k][r])
      BY <1>3, <1>13, <3>1 DEF Kinds
    <3> QED
      BY <3>2, RetainedIn
  <2>3. ASSUME NEW e \in Arrived(a, xs) PROVE e \in Retained(b)
    <3>1. PICK i \in 1..Len(xs) : e = s[i]
      BY <1>7
    <3>2. e \in Elements(b.ready[xs[i].to]) /\ xs[i].to \in Runtimes
      BY <1>6, <1>13, <3>1
    <3>3. "ready" \in Kinds
      BY DEF Kinds
    <3> QED
      BY <3>2, <3>3, RetainedIn
  <2> QED
    BY <2>1, <2>2, <2>3
<1>22. Arrived(a, xs) \cap Retained(a) = {}
  <2> SUFFICES ASSUME NEW i \in 1..Len(xs), s[i] \in Retained(a) PROVE FALSE
    BY <1>7
  <2>1. PICK k \in Kinds, r \in Runtimes : s[i] \in Elements(a[k][r])
    BY RetainedIn
  <2> QED
    BY <1>17, <2>1
<1> QED
  BY <1>9, <1>13, <1>3, <1>15, <1>20, <1>21, <1>22 DEF Sound, At, Gains

-----------------------------------------------------------------------------
(* What the charts of the vectors have in common.                            *)

LeafNames == Leaves.transaction_server \cup Leaves.parallel_components
Sent == {"component_work", "component_finish"}

ReactionSound(leaf, x) ==
  /\ x.kind \in {"stay", "move", "final", "stop"}
  /\ Len(x.sends) \in Nat /\ DOMAIN x.sends = 1..Len(x.sends)
  /\ \A i \in 1..Len(x.sends) : x.sends[i].to \in Runtimes /\ x.sends[i].event \in Sent
  /\ \A i, j \in 1..Len(x.sends) : i # j => x.sends[i].to # x.sends[j].to
  /\ x.kind = "move" =>
       /\ Len(x.sends) = 0
       /\ \E m \in Machines : leaf \in Leaves[m] /\ x.goto \in Leaves[m]
  /\ Len(x.sends) # 0 => leaf \notin Leaves.transaction_server
  /\ leaf \in Runtimes => x.kind \in {"stay", "final"}

LEMMA HandlersSound ==
  \A h \in Handlers : ReactionSound(h[1], h[3])
<1> DEFINE Parallel == {"processing", "faulty_processing", "cleanup_failed"}
<1>1. /\ \A g \in {"idle", "receiving", "authorizing"} : \A leaf \in {"idle", "receiving", "authorizing"} :
           ReactionSound(leaf, Move(g))
      /\ \A g \in Parallel : \A leaf \in Parallel : ReactionSound(leaf, Move(g))
  BY DEF ReactionSound, Move, Does, Leaves, Machines, Runtimes
<1>2. /\ ReactionSound("authorizing", Stay(<<>>)) /\ ReactionSound("processing", Stay(<<>>))
      /\ ReactionSound("left", Stay(<<>>)) /\ ReactionSound("right", Stay(<<>>))
      /\ ReactionSound("processing", Final(<<>>))
  BY DEF ReactionSound, Stay, Final, Does, Leaves, Machines, Runtimes
<1>3. ASSUME NEW leaf, NEW e \in Sent, NEW to \in Runtimes, NEW kind \in {"stay", "final", "stop"},
             leaf \notin Leaves.transaction_server, leaf \in Runtimes => kind # "stop"
      PROVE  ReactionSound(leaf, Does(<<Send(e, to)>>, kind, ""))
  <2> DEFINE x == Does(<<Send(e, to)>>, kind, "")
  <2>1. x.kind = kind /\ x.sends = <<[event |-> e, to |-> to]>>
    BY DEF Does, Send
  <2> HIDE DEF x
  <2>2. Len(x.sends) = 1 /\ x.sends[1] = [event |-> e, to |-> to]
    BY <2>1
  <2>3. x.sends[1].to = to /\ x.sends[1].event = e
    BY <2>2
  <2>4. \A i \in 1..Len(x.sends) : i = 1
    BY <2>2
  <2>5. ReactionSound(leaf, x)
    BY <1>3, <2>1, <2>2, <2>3, <2>4 DEF ReactionSound
  <2> QED
    BY <2>5 DEF x
<1>4. ReactionSound("processing",
        Stay(<<Send("component_work", "left"), Send("component_work", "right")>>))
  <2> DEFINE x == Stay(<<Send("component_work", "left"), Send("component_work", "right")>>)
  <2>1. x.kind = "stay"
        /\ x.sends = <<[event |-> "component_work", to |-> "left"],
                       [event |-> "component_work", to |-> "right"]>>
    BY DEF Stay, Does, Send
  <2> HIDE DEF x
  <2>2. /\ Len(x.sends) = 2
        /\ x.sends[1] = [event |-> "component_work", to |-> "left"]
        /\ x.sends[2] = [event |-> "component_work", to |-> "right"]
    BY <2>1
  <2>3. /\ x.sends[1].to = "left" /\ x.sends[1].event = "component_work"
        /\ x.sends[2].to = "right" /\ x.sends[2].event = "component_work"
    BY <2>2
  <2>4. \A i \in 1..Len(x.sends) : i = 1 \/ i = 2
    BY <2>2
  <2>5. \A i \in 1..Len(x.sends) : x.sends[i].to \in Runtimes /\ x.sends[i].event \in Sent
    BY <2>3, <2>4 DEF Runtimes, Sent
  <2>6. \A i, j \in 1..Len(x.sends) : i # j => x.sends[i].to # x.sends[j].to
    BY <2>3, <2>4
  <2>7. "processing" \notin Leaves.transaction_server /\ "processing" \notin Runtimes
    BY DEF Leaves, Runtimes
  <2>8. ReactionSound("processing", x)
    BY <2>1, <2>2, <2>5, <2>6, <2>7 DEF ReactionSound
  <2> QED
    BY <2>8 DEF x
<1> SUFFICES ASSUME NEW h \in Handlers PROVE ReactionSound(h[1], h[3])
  OBVIOUS
<1>5. /\ \A to \in {"left", "right"} :
           /\ ReactionSound("processing", Stay(<<Send("component_finish", to)>>))
           /\ ReactionSound(to, Final(<<Send("component_work", to)>>))
      /\ ReactionSound("processing", Final(<<Send("component_work", "left")>>))
      /\ ReactionSound("cleanup_failed", Final(<<Send("component_work", "retained")>>))
      /\ \A leaf \in Parallel :
           ReactionSound(leaf, Does(<<Send("component_work", "root")>>, "stop", ""))
  BY <1>3 DEF Stay, Final, Sent, Runtimes, Leaves
<1>6. CASE h \in {<<leaf, "enter_faulty", Move("faulty_processing")>> : leaf \in Parallel}
  <2>1. PICK leaf \in Parallel : h = <<leaf, "enter_faulty", Move("faulty_processing")>>
    BY <1>6
  <2> QED
    BY <1>1, <2>1
<1>7. CASE h \in {<<leaf, "enter_cleanup", Move("cleanup_failed")>> : leaf \in Parallel}
  <2>1. PICK leaf \in Parallel : h = <<leaf, "enter_cleanup", Move("cleanup_failed")>>
    BY <1>7
  <2> QED
    BY <1>1, <2>1
<1>8. CASE h \in {<<leaf, "aggregate_finish",
                     Does(<<Send("component_work", "root")>>, "stop", "")>> : leaf \in Parallel}
  <2>1. PICK leaf \in Parallel :
          h = <<leaf, "aggregate_finish", Does(<<Send("component_work", "root")>>, "stop", "")>>
    BY <1>8
  <2> QED
    BY <1>5, <2>1
<1>9. CASE \/ h = <<"idle", "new_request", Move("receiving")>>
           \/ h = <<"receiving", "received", Move("authorizing")>>
           \/ h = <<"receiving", "priority_request", Move("idle")>>
           \/ h = <<"authorizing", "authorized", Move("idle")>>
  <2>1. h[1] \in {"idle", "receiving", "authorizing"}
        /\ \E g \in {"idle", "receiving", "authorizing"} : h[3] = Move(g)
    BY <1>9
  <2> QED
    BY <1>1, <2>1
<1>10. CASE \/ h = <<"authorizing", "new_request", Stay(<<>>)>>
            \/ h = <<"processing", "component_completed", Stay(<<>>)>>
            \/ h = <<"processing", "done", Final(<<>>)>>
            \/ h = <<"left", "component_work", Stay(<<>>)>>
            \/ h = <<"right", "component_work", Stay(<<>>)>>
  BY <1>2, <1>10
<1>11. CASE h = <<"processing", "fanout",
                  Stay(<<Send("component_work", "left"), Send("component_work", "right")>>)>>
  BY <1>4, <1>11
<1>12. CASE \/ h = <<"processing", "finish_left", Stay(<<Send("component_finish", "left")>>)>>
            \/ h = <<"processing", "finish_right", Stay(<<Send("component_finish", "right")>>)>>
  <2>1. PICK to \in {"left", "right"} :
          h[1] = "processing" /\ h[3] = Stay(<<Send("component_finish", to)>>)
    BY <1>12
  <2> QED
    BY <1>5, <2>1
<1>13. CASE \/ h = <<"left", "component_finish", Final(<<Send("component_work", "left")>>)>>
            \/ h = <<"right", "component_finish", Final(<<Send("component_work", "right")>>)>>
  <2>1. PICK to \in {"left", "right"} :
          h[1] = to /\ h[3] = Final(<<Send("component_work", to)>>)
    BY <1>13
  <2> QED
    BY <1>5, <2>1
<1>14. CASE h = <<"processing", "cancel_after_send", Final(<<Send("component_work", "left")>>)>>
  BY <1>5, <1>14
<1>15. CASE h = <<"cleanup_failed", "cleanup_rollback", Final(<<Send("component_work", "retained")>>)>>
  BY <1>5, <1>15
<1> QED
  BY <1>6, <1>7, <1>8, <1>9, <1>10, <1>11, <1>12, <1>13, <1>14, <1>15 DEF Handlers

LEMMA ReactionsSound ==
  ASSUME NEW leaf, NEW event, NEW x \in Reactions(leaf, event)
  PROVE  ReactionSound(leaf, x)
<1>1. PICK h \in Handlers : h[1] = leaf /\ h[3] = x
  BY DEF Reactions
<1> QED
  BY <1>1, HandlersSound

(* What the core adds to a reaction.                                         *)
FollowUpEvents == {"component_work", "component_failed", "component_completed", "done"}

LEMMA OneThing ==
  ASSUME NEW s, NEW y, s = [i \in 1..1 |-> y]
  PROVE  s = <<y>> /\ Len(s) = 1 /\ s[1] = y
<1>1. s = <<y>>
  OBVIOUS
<1> QED
  BY <1>1

LEMMA TwoThings ==
  ASSUME NEW y, NEW z
  PROVE  /\ Len(<<y>> \o <<z>>) = 2
         /\ (<<y>> \o <<z>>)[1] = y /\ (<<y>> \o <<z>>)[2] = z
<1>1. <<y>> \in Seq({y, z}) /\ <<z>> \in Seq({y, z}) /\ Len(<<y>>) = 1 /\ Len(<<z>>) = 1
      /\ <<y>>[1] = y /\ <<z>>[1] = z
  OBVIOUS
<1> DEFINE s == <<y>>
           t == <<z>>
<1>2. s \in Seq({y, z}) /\ t \in Seq({y, z}) /\ Len(s) = 1 /\ Len(t) = 1 /\ s[1] = y /\ t[1] = z
  BY <1>1
<1> HIDE DEF s, t
<1>3. Len(s \o t) = 2 /\ (s \o t)[1] = s[1] /\ (s \o t)[2] = t[1]
  <2>1. IsSequence(s) /\ IsSequence(t)
    BY <1>2 DEF IsSequence
  <2>2. Joins(s, t, s \o t)
    BY <2>1, JoinPlaces
  <2> DEFINE j == s \o t
  <2> HIDE DEF j
  <2>3. Len(j) = 2 /\ (\A i \in 1..1 : j[i] = s[i]) /\ (\A i \in 1..1 : j[1 + i] = t[i])
    BY <1>2, <2>2 DEF Joins, j
  <2>4. j[1] = s[1] /\ j[1 + 1] = t[1]
    BY <2>3
  <2> QED
    BY <2>3, <2>4 DEF j
<1> QED
  BY <1>2, <1>3 DEF s, t

(* What the core adds is told apart by its target or its event.               *)
FollowsUp(ys, r, x) ==
  /\ Len(ys) \in Nat
  /\ \A i \in 1..Len(ys) : ys[i].to \in Runtimes /\ ys[i].event \in FollowUpEvents
  /\ \A i, j \in 1..Len(ys) :
       i # j => ys[i].to # ys[j].to \/ ys[i].event # ys[j].event
  /\ \A i \in 1..Len(ys) :
       \/ /\ x.kind = "move" /\ x.goto = "faulty_processing"
          /\ ys[i].to \in {"root", "faulty"}
          /\ ys[i].event \in {"component_work", "component_failed"}
       \/ /\ x.kind = "final" /\ r # "root" /\ ys[i].to = "root"
          /\ ys[i].event \in {"component_completed", "done"}

LEMMA FollowUpSound ==
  ASSUME NEW b, NEW r \in Runtimes, NEW x, x.kind \in {"stay", "move", "final", "stop"},
         NEW ys, ys = FollowUp(b, r, x)
  PROVE  FollowsUp(ys, r, x)
<1> USE DEF FollowsUp
<1> DEFINE Item(f, t, e) == [from |-> f, to |-> t, event |-> e]
<1>1. \A f, t, e : From(f, <<Send(e, t)>>) = <<Item(f, t, e)>>
  <2> SUFFICES ASSUME NEW f, NEW t, NEW e PROVE From(f, <<Send(e, t)>>) = <<Item(f, t, e)>>
    OBVIOUS
  <2> DEFINE s == <<Send(e, t)>>
  <2>1. Len(s) = 1 /\ s[1] = [event |-> e, to |-> t]
    BY DEF Send
  <2> HIDE DEF s
  <2>2. From(f, s) = [i \in 1..1 |-> Item(f, t, e)]
    BY <2>1 DEF From
  <2>3. From(f, s) = <<Item(f, t, e)>>
    BY <2>2, OneThing
  <2> QED
    BY <2>3 DEF s
<1>2. \A f : From(f, <<>>) = <<>>
  BY DEF From
<1>3. CASE x.kind = "move" /\ x.goto = "faulty_processing"
  <2> DEFINE u == Item(r, "faulty", "component_work")
             v == Item("faulty", "root", "component_failed")
  <2>1. From(r, EntrySends(x.goto)) = <<u>>
    BY <1>1, <1>3 DEF EntrySends
  <2>2. FaultAtStart(x.goto) = <<"faulty">>
    BY <1>3 DEF FaultAtStart
  <2>3. [i \in 1..Len(FaultAtStart(x.goto)) |->
           [from |-> FaultAtStart(x.goto)[i], to |-> "root", event |-> "component_failed"]]
         = [i \in 1..1 |-> v]
    <3> DEFINE s == FaultAtStart(x.goto)
    <3>1. Len(s) = 1 /\ s[1] = "faulty"
      BY <2>2
    <3> HIDE DEF s
    <3>2. [i \in 1..Len(s) |-> [from |-> s[i], to |-> "root", event |-> "component_failed"]]
          = [i \in 1..1 |-> v]
      BY <3>1
    <3> QED
      BY <3>2 DEF s
  <2>4. [i \in 1..1 |-> v] = <<v>>
    BY OneThing
  <2> HIDE DEF u, v
  <2>5. ys = <<u>> \o <<v>>
    BY <1>3, <2>1, <2>3, <2>4 DEF FollowUp
  <2>6. Len(ys) = 2 /\ ys[1] = u /\ ys[2] = v
    BY <2>5, TwoThings
  <2>7. /\ ys[1].to = "faulty" /\ ys[1].event = "component_work"
        /\ ys[2].to = "root" /\ ys[2].event = "component_failed"
    BY <2>6 DEF u, v
  <2>8. \A i \in 1..Len(ys) : i = 1 \/ i = 2
    BY <2>6
  <2> QED
    BY <1>3, <2>6, <2>7, <2>8 DEF FollowUpEvents, Runtimes
<1>4. CASE x.kind = "move" /\ x.goto # "faulty_processing"
  <2>1. From(r, EntrySends(x.goto)) = <<>>
    BY <1>2, <1>4 DEF EntrySends
  <2>2. [i \in 1..Len(FaultAtStart(x.goto)) |->
           [from |-> FaultAtStart(x.goto)[i], to |-> "root", event |-> "component_failed"]] = <<>>
    BY <1>4 DEF FaultAtStart
  <2>3. ys = <<>> \o <<>>
    BY <1>4, <2>1, <2>2 DEF FollowUp
  <2>4. Len(ys) = 0
    BY <2>3
  <2> QED
    BY <2>4
<1>5. CASE r # "root" /\ x.kind = "final"
  <2> DEFINE u == Item(r, "root", "component_completed")
             v == Item("root", "root", "done")
  <2>1. ys = <<u>> \o (IF \A c \in ComponentsOf(b.leaf) : b.status[c] = "completed"
                       THEN <<v>> ELSE <<>>)
    BY <1>1, <1>5 DEF FollowUp
  <2>2. u.to = "root" /\ u.event = "component_completed" /\ v.to = "root" /\ v.event = "done"
    OBVIOUS
  <2> HIDE DEF u, v
  <2>3. CASE ys = <<u>> \o <<v>>
    <3>1. Len(ys) = 2 /\ ys[1] = u /\ ys[2] = v
      BY <2>3, TwoThings
    <3>2. \A i \in 1..Len(ys) : i = 1 \/ i = 2
      BY <3>1
    <3> QED
      BY <1>5, <2>2, <3>1, <3>2 DEF FollowUpEvents, Runtimes
  <2>4. CASE ys = <<u>> \o <<>>
    <3>1. Len(ys) = 1 /\ ys[1] = u
      BY <2>4
    <3>2. \A i \in 1..Len(ys) : i = 1
      BY <3>1
    <3> QED
      BY <1>5, <2>2, <3>1, <3>2 DEF FollowUpEvents, Runtimes
  <2> QED
    BY <2>1, <2>3, <2>4
<1>6. CASE x.kind # "move" /\ ~(r # "root" /\ x.kind = "final")
  <2>1. ys = <<>>
    BY <1>6 DEF FollowUp
  <2> QED
    BY <2>1
<1> QED
  BY <1>3, <1>4, <1>5, <1>6 DEF FollowsUp

-----------------------------------------------------------------------------
(* What is true of an aggregate between steps.                               *)

Gone == {"completed", "absent"}
Quiet(a) == \A r \in Runtimes : a.status[r] \in Gone =>
              Elements(a.ready[r]) = {} /\ Elements(a.deferred[r]) = {}
DeferralSound(a) ==
  \A r \in Runtimes :
    /\ \A e \in Elements(a.deferred[r]) : Defers(Leaf(a, r), e.event)
    /\ Len(a.deferred[r]) <= Capacity[a.definition]
AllDeclared(a) == \A e \in Retained(a) : e.event \in Declared(a.definition, e.mode)
SingleRuntime(a) == Chart[a.definition] = "transaction_server" =>
                      \A c \in Runtimes \ {"root"} : a.status[c] = "absent"

Wellformed(a) == /\ Sound(a, a.nextStep) /\ Quiet(a) /\ DeferralSound(a) /\ AllDeclared(a)
           /\ SingleRuntime(a)

(* What an operation that goes from a to b does with the numbers of entries. *)
Conserves(a, b, taken, gone) ==
  /\ b.nextAcceptance \in Nat /\ b.nextAcceptance >= a.nextAcceptance
  /\ Numbers(Retained(b)) \cup taken \cup gone
       = Numbers(Retained(a)) \cup (a.nextAcceptance .. (b.nextAcceptance - 1))
  /\ taken \cap gone = {}
  /\ taken \cap Numbers(Retained(b)) = {}
  /\ gone \cap Numbers(Retained(b)) = {}

(* What it says it sent.                                                     *)
Produces(a, b, emitted) ==
  /\ b.nextStep \in Nat /\ b.nextStep >= a.nextStep
  /\ emitted # {} => b.nextStep > a.nextStep
  /\ \A p \in emitted : /\ p.accepted \in a.nextAcceptance .. (b.nextAcceptance - 1)
                        /\ Len(p.id) = 5 /\ p.id[2] = a.nextStep
  /\ \A p, q \in emitted : p # q => p.id # q.id /\ p.accepted # q.accepted

(* A step takes the event at the head of a ready mailbox.                    *)
LEMMA PopSound ==
  ASSUME NEW a, Wellformed(a), NEW r \in Runtimes, a.ready[r] # <<>>, NEW b, b = Popped(a, r)
  PROVE  /\ Sound(b, a.nextStep) /\ Quiet(b) /\ DeferralSound(b) /\ AllDeclared(b)
         /\ SingleRuntime(b)
         /\ Head(a.ready[r]) \in Elements(a.ready[r]) /\ Head(a.ready[r]) \in Retained(a)
         /\ b.deferred = a.deferred
         /\ b.status = a.status /\ b.leaf = a.leaf /\ b.definition = a.definition
         /\ b.nextStep = a.nextStep /\ b.migrations = a.migrations
         /\ b.nextAcceptance = a.nextAcceptance /\ b.nextQueue = a.nextQueue
         /\ Numbers(Retained(b)) = Numbers(Retained(a)) \ {Head(a.ready[r]).accepted}
<1> DEFINE n == a.nextStep
           h == Head(a.ready[r])
<1>1. Sound(a, n) /\ Shape(a)
  BY DEF Wellformed, Sound
<1>2. b = [a EXCEPT !.ready[r] = Tail(@)]
  BY DEF Popped
<1>3. /\ DOMAIN b = DOMAIN a
      /\ b.ready = [a.ready EXCEPT ![r] = Tail(@)] /\ b.deferred = a.deferred
      /\ b.status = a.status /\ b.leaf = a.leaf /\ b.definition = a.definition
      /\ b.nextStep = a.nextStep /\ b.migrations = a.migrations
      /\ b.nextAcceptance = a.nextAcceptance /\ b.nextQueue = a.nextQueue
  BY <1>1, <1>2 DEF Shape
<1>4. Shape(b) /\ b.ready[r] = Tail(a.ready[r])
      /\ \A q \in Runtimes : q # r => b.ready[q] = a.ready[q]
  BY <1>1, <1>3 DEF Shape
<1>5. \A k \in Kinds, q \in Runtimes :
        /\ IsSequence(a[k][q]) /\ Ascending(a[k][q])
        /\ \A e \in Elements(a[k][q]) : EntrySound(a, e, n)
  BY <1>1 DEF Sound, BoxesSound
<1>6. /\ IsSequence(a.ready[r]) /\ Ascending(a.ready[r])
      /\ \A e \in Elements(a.ready[r]) : e.queue \in Nat
  BY <1>1, <1>5 DEF Kinds, EntrySound, Shape
<1>7. /\ h \in Elements(a.ready[r])
      /\ IsSequence(b.ready[r]) /\ Ascending(b.ready[r])
      /\ Elements(b.ready[r]) = Elements(a.ready[r]) \ {h}
  BY <1>4, <1>6, TakeHead
<1>8. \A k \in Kinds, q \in Runtimes :
        /\ IsSequence(b[k][q]) /\ Ascending(b[k][q])
        /\ Elements(b[k][q]) \subseteq Elements(a[k][q])
        /\ k # "ready" \/ q # r => b[k][q] = a[k][q]
  BY <1>3, <1>4, <1>5, <1>7 DEF Kinds
<1>9. Sound(b, n)
  <2>1. Thins(a, b)
    BY <1>3, <1>4, <1>8 DEF Thins
  <2> QED
    BY <1>1, <2>1, ThinSound
<1>10. Quiet(b)
  <2>1. \A q \in Runtimes : /\ Elements(b.ready[q]) \subseteq Elements(a.ready[q])
                            /\ Elements(b.deferred[q]) \subseteq Elements(a.deferred[q])
    BY <1>8 DEF Kinds
  <2>2. Quiet(a)
    BY DEF Wellformed
  <2> QED
    BY <1>3, <2>1, <2>2 DEF Quiet
<1>11. DeferralSound(b)
  BY <1>3 DEF DeferralSound, Wellformed, Leaf
<1>12. h \in Retained(a)
  BY <1>7, RetainedIn DEF Kinds
<1>13. \A e \in Retained(b) : e \in Retained(a)
  BY <1>8, RetainedIn
<1>14. AllDeclared(b) /\ SingleRuntime(b)
  BY <1>3, <1>13 DEF Wellformed, AllDeclared, SingleRuntime
<1>15. Numbers(Retained(b)) = Numbers(Retained(a)) \ {h.accepted}
  <2>1. ASSUME NEW e \in Retained(b) PROVE e.accepted # h.accepted
    <3>1. PICK k \in Kinds, q \in Runtimes : e \in Elements(b[k][q])
      BY RetainedIn
    <3>2. e \in Elements(a[k][q]) /\ ~(k = "ready" /\ q = r /\ e = h)
      BY <1>7, <1>8, <3>1
    <3> QED
      BY <1>1, <1>7, <3>2 DEF Sound, Apart, Kinds
  <2>2. ASSUME NEW e \in Retained(a), e.accepted # h.accepted PROVE e \in Retained(b)
    <3>1. PICK k \in Kinds, q \in Runtimes : e \in Elements(a[k][q])
      BY RetainedIn
    <3>2. e \in Elements(b[k][q])
      BY <1>7, <1>8, <2>2, <3>1
    <3> QED
      BY <3>2, RetainedIn
  <2> QED
    BY <1>13, <2>1, <2>2 DEF Numbers
<1> QED
  BY <1>3, <1>7, <1>9, <1>10, <1>11, <1>12, <1>14, <1>15

LEMMA ComponentsAreRuntimes ==
  ASSUME NEW leaf
  PROVE  ComponentsOf(leaf) \subseteq Runtimes \ {"root"}
BY DEF ComponentsOf, Runtimes

(* Runtimes that end leave nothing in their mailboxes.                       *)
LEMMA EndSound ==
  ASSUME NEW a, NEW n, Sound(a, n), Quiet(a), NEW X, NEW Y, NEW b, b = Ended(a, X, Y)
  PROVE  /\ Sound(b, n) /\ Quiet(b)
         /\ b.leaf = a.leaf /\ b.definition = a.definition /\ b.nextStep = a.nextStep
         /\ b.migrations = a.migrations /\ b.nextAcceptance = a.nextAcceptance
         /\ b.nextQueue = a.nextQueue
         /\ \A r \in Runtimes :
              /\ b.status[r] = (IF r \in X THEN "absent"
                                ELSE IF r \in Y THEN "completed" ELSE a.status[r])
              /\ Elements(b.ready[r]) = IF r \in X \cup Y THEN {} ELSE Elements(a.ready[r])
              /\ Elements(b.deferred[r]) = IF r \in X \cup Y THEN {} ELSE Elements(a.deferred[r])
              /\ r \notin X \cup Y => b.deferred[r] = a.deferred[r]
              /\ r \in X \cup Y => Len(b.deferred[r]) = 0
<1>1. Shape(a)
  BY DEF Sound
<1>2. b = [a EXCEPT !.status = [r \in Runtimes |-> IF r \in X THEN "absent"
                                                ELSE IF r \in Y THEN "completed" ELSE @[r]],
                    !.ready = [r \in Runtimes |-> IF r \in X \cup Y THEN <<>> ELSE @[r]],
                    !.deferred = [r \in Runtimes |-> IF r \in X \cup Y THEN <<>> ELSE @[r]]]
  BY DEF Ended
<1>3. /\ DOMAIN b = DOMAIN a
      /\ b.leaf = a.leaf /\ b.definition = a.definition /\ b.nextStep = a.nextStep
      /\ b.migrations = a.migrations /\ b.nextAcceptance = a.nextAcceptance
      /\ b.nextQueue = a.nextQueue
      /\ b.status = [r \in Runtimes |-> IF r \in X THEN "absent"
                                        ELSE IF r \in Y THEN "completed" ELSE a.status[r]]
      /\ b.ready = [r \in Runtimes |-> IF r \in X \cup Y THEN <<>> ELSE a.ready[r]]
      /\ b.deferred = [r \in Runtimes |-> IF r \in X \cup Y THEN <<>> ELSE a.deferred[r]]
  BY <1>1, <1>2 DEF Shape
<1>4. Shape(b)
  BY <1>1, <1>3 DEF Shape, Statuses
<1>5. \A r \in Runtimes :
        /\ b.ready[r] = IF r \in X \cup Y THEN <<>> ELSE a.ready[r]
        /\ b.deferred[r] = IF r \in X \cup Y THEN <<>> ELSE a.deferred[r]
  BY <1>3
<1>6. \A k \in Kinds, r \in Runtimes : b[k][r] = IF r \in X \cup Y THEN <<>> ELSE a[k][r]
  BY <1>5 DEF Kinds
<1>7. \A k \in Kinds, r \in Runtimes : IsSequence(a[k][r]) /\ Ascending(a[k][r])
  BY DEF Sound, BoxesSound
<1>8. \A k \in Kinds, r \in Runtimes :
        /\ IsSequence(b[k][r]) /\ Ascending(b[k][r])
        /\ Elements(b[k][r]) \subseteq Elements(a[k][r])
  BY <1>6, <1>7, EmptyBox
<1>9. Sound(b, n)
  <2>1. Thins(a, b)
    BY <1>3, <1>4, <1>8 DEF Thins
  <2> QED
    BY <2>1, ThinSound
<1>10. \A r \in Runtimes :
         /\ b.status[r] = (IF r \in X THEN "absent"
                           ELSE IF r \in Y THEN "completed" ELSE a.status[r])
         /\ Elements(b.ready[r]) = IF r \in X \cup Y THEN {} ELSE Elements(a.ready[r])
         /\ Elements(b.deferred[r]) = IF r \in X \cup Y THEN {} ELSE Elements(a.deferred[r])
         /\ r \notin X \cup Y => b.deferred[r] = a.deferred[r]
         /\ r \in X \cup Y => Len(b.deferred[r]) = 0
  BY <1>3, <1>5, EmptyBox
<1>11. Quiet(b)
  BY <1>10 DEF Quiet, Gone
<1> QED
  BY <1>3, <1>9, <1>10, <1>11

(* Entering a state activates its components.                                *)
LEMMA EnterSound ==
  ASSUME NEW a, NEW n, Sound(a, n), Quiet(a), NEW x,
         x.kind = "move" => x.goto \in Leaves[Chart[a.definition]],
         NEW b, b = Entered(a, x)
  PROVE  /\ Sound(b, n) /\ Quiet(b)
         /\ b.ready = a.ready /\ b.deferred = a.deferred
         /\ b.definition = a.definition /\ b.nextStep = a.nextStep
         /\ b.migrations = a.migrations /\ b.nextAcceptance = a.nextAcceptance
         /\ b.nextQueue = a.nextQueue
         /\ b.leaf = IF x.kind = "move" THEN x.goto ELSE a.leaf
         /\ \A r \in Runtimes :
              \/ b.status[r] = a.status[r]
              \/ /\ x.kind = "move" /\ r \in ComponentsOf(x.goto)
                 /\ b.status[r] \in {"running", "faulted"}
         /\ x.kind = "move" /\ x.goto = "faulty_processing" => b.status["faulty"] = "faulted"
<1>1. Shape(a)
  BY DEF Sound
<1>2. CASE x.kind # "move"
  <2>1. b = a
    BY <1>2 DEF Entered
  <2> QED
    BY <1>2, <2>1
<1>3. CASE x.kind = "move"
  <2>1. b = [a EXCEPT !.leaf = x.goto,
                      !.status = [r \in Runtimes |->
                                    IF r \notin ComponentsOf(x.goto) THEN @[r]
                                    ELSE IF r \in Elements(FaultAtStart(x.goto)) THEN "faulted"
                                    ELSE "running"]]
    BY <1>3 DEF Entered
  <2>2. /\ DOMAIN b = DOMAIN a
        /\ b.ready = a.ready /\ b.deferred = a.deferred
        /\ b.definition = a.definition /\ b.nextStep = a.nextStep
        /\ b.migrations = a.migrations /\ b.nextAcceptance = a.nextAcceptance
        /\ b.nextQueue = a.nextQueue /\ b.leaf = x.goto
        /\ b.status = [r \in Runtimes |->
                         IF r \notin ComponentsOf(x.goto) THEN a.status[r]
                         ELSE IF r \in Elements(FaultAtStart(x.goto)) THEN "faulted"
                         ELSE "running"]
    BY <1>1, <2>1 DEF Shape
  <2>3. \A r \in Runtimes :
          \/ b.status[r] = a.status[r]
          \/ r \in ComponentsOf(x.goto) /\ b.status[r] \in {"running", "faulted"}
    BY <2>2
  <2>4. Shape(b)
    BY <1>1, <1>3, <2>2, <2>3 DEF Shape, Statuses
  <2>5. \A k \in Kinds, r \in Runtimes : b[k][r] = a[k][r]
    BY <2>2 DEF Kinds
  <2>6. Sound(b, n)
    <3>1. \A k \in Kinds, r \in Runtimes :
            /\ IsSequence(b[k][r]) /\ Ascending(b[k][r])
            /\ Elements(b[k][r]) \subseteq Elements(a[k][r])
      BY <2>5 DEF Sound, BoxesSound
    <3>2. Thins(a, b)
      BY <2>2, <2>4, <3>1 DEF Thins
    <3> QED
      BY <3>2, ThinSound
  <2>7. Quiet(b)
    BY <2>2, <2>3 DEF Quiet, Gone
  <2>8. ASSUME x.goto = "faulty_processing" PROVE b.status["faulty"] = "faulted"
    <3>1. "faulty" \in ComponentsOf(x.goto) /\ "faulty" \in Runtimes
      BY <2>8 DEF ComponentsOf, Runtimes
    <3>2. FaultAtStart(x.goto) = <<"faulty">>
      BY <2>8 DEF FaultAtStart
    <3>3. "faulty" \in Elements(<<"faulty">>)
      BY DEF Elements
    <3> QED
      BY <2>2, <3>1, <3>2, <3>3
  <2> QED
    BY <1>3, <2>2, <2>3, <2>6, <2>7, <2>8
<1> QED
  BY <1>2, <1>3

(* What a recall does.                                                       *)
Recalls(a, n, r, b) ==
  /\ Sound(b, n) /\ Quiet(b)
  /\ b.status = a.status /\ b.leaf = a.leaf /\ b.definition = a.definition
  /\ b.nextStep = a.nextStep /\ b.migrations = a.migrations
  /\ b.nextAcceptance = a.nextAcceptance
  /\ Numbers(Retained(b)) = Numbers(Retained(a))
  /\ Elements(b.deferred[r]) = StillDeferred(a, r)
  /\ Len(b.deferred[r]) <= Len(a.deferred[r])
  /\ \A q \in Runtimes : q # r => b.deferred[q] = a.deferred[q]
  /\ \A e \in Retained(b) : \E f \in Retained(a) : e.event = f.event /\ e.mode = f.mode

(* Recall moves what is no longer deferred to the ready mailbox.             *)
LEMMA RecallSound ==
  ASSUME NEW a, NEW n, Sound(a, n), Quiet(a), NEW r \in Runtimes, NEW b, b = Recalled(a, r)
  PROVE  Recalls(a, n, r, b)
<1> DEFINE d == a.deferred[r]
           still == StillDeferred(a, r)
           back == Only(d, Elements(d) \ still)
           moved == Renumbered(back, a.nextQueue)
<1>1. Shape(a) /\ a.nextQueue \in Nat
  BY DEF Sound, Shape
<1>2. b = [a EXCEPT !.deferred[r] = Only(d, still), !.ready[r] = a.ready[r] \o moved,
                    !.nextQueue = a.nextQueue + Len(back)]
  BY <1>1 DEF Recalled, Renumbered, Shape
<1>3. IsSequence(d) /\ Ascending(d) /\ (\A e \in Elements(d) : EntrySound(a, e, n))
  BY DEF Sound, BoxesSound, Kinds
<1>4. still \subseteq Elements(d)
  BY DEF StillDeferred
<1>5. /\ IsSequence(back) /\ Ascending(back) /\ Elements(back) = Elements(d) \ still
      /\ IsSequence(Only(d, still)) /\ Ascending(Only(d, still))
      /\ Elements(Only(d, still)) = still /\ Len(Only(d, still)) <= Len(d)
  <2> HIDE DEF d, still
  <2>1. /\ Elements(d) \cap (Elements(d) \ still) = Elements(d) \ still
        /\ Elements(d) \cap still = still
    BY <1>4
  <2> QED
    BY <1>3, <2>1, OnlyAscending
<1> HIDE DEF back, still, moved
<1>6. Len(back) \in Nat
  BY <1>5 DEF IsSequence
<1>7. /\ DOMAIN b = DOMAIN a
      /\ b.deferred = [a.deferred EXCEPT ![r] = Only(d, still)]
      /\ b.ready = [a.ready EXCEPT ![r] = a.ready[r] \o moved]
      /\ b.nextQueue = a.nextQueue + Len(back)
      /\ b.status = a.status /\ b.leaf = a.leaf /\ b.definition = a.definition
      /\ b.nextStep = a.nextStep /\ b.migrations = a.migrations
      /\ b.nextAcceptance = a.nextAcceptance
  BY <1>1, <1>2 DEF Shape
<1>8. /\ Shape(b) /\ b.deferred[r] = Only(d, still) /\ b.ready[r] = a.ready[r] \o moved
      /\ \A q \in Runtimes : q # r => b.deferred[q] = a.deferred[q] /\ b.ready[q] = a.ready[q]
  BY <1>1, <1>6, <1>7 DEF Shape
<1>9. \A k \in Kinds, q \in Runtimes : q # r => b[k][q] = a[k][q]
  BY <1>8 DEF Kinds
<1>10. Elements(b.deferred[r]) = Elements(d) \ Elements(back)
  BY <1>4, <1>5, <1>8
<1>11. Sound(b, n) /\ Numbers(Retained(b)) = Numbers(Retained(a))
  <2>1. b.ready[r] = a.ready[r] \o Renumbered(back, a.nextQueue)
    BY <1>8 DEF moved
  <2>2. MovedOver(a, b, "deferred", "ready", r, back)
    BY <1>5, <1>7, <1>8, <1>9, <1>10, <2>1 DEF MovedOver, Kinds
  <2> QED
    BY <1>8, <2>2, MoveSound
<1>12. /\ IsSequence(moved) /\ Len(moved) = Len(back)
       /\ \A i \in 1..Len(back) : moved[i].event = back[i].event /\ moved[i].mode = back[i].mode
  BY <1>1, <1>3, <1>5, <1>6, RenumberedEntries DEF moved, EntrySound
<1>13. \A e \in Elements(moved) : \E f \in Elements(d) : e.event = f.event /\ e.mode = f.mode
  <2>1. \A i \in 1..Len(back) : back[i] \in Elements(d)
    BY <1>5 DEF Elements
  <2> QED
    BY <1>12, <2>1 DEF Elements
<1>14. Elements(b.ready[r]) = Elements(a.ready[r]) \cup Elements(moved)
  <2>1. IsSequence(a.ready[r])
    BY DEF Sound, BoxesSound, Kinds
  <2> QED
    BY <1>8, <1>12, <2>1, JoinBoxes
<1>15. Quiet(b)
  <2> SUFFICES ASSUME NEW q \in Runtimes, b.status[q] \in Gone
               PROVE  Elements(b.ready[q]) = {} /\ Elements(b.deferred[q]) = {}
    BY DEF Quiet
  <2>1. Elements(a.ready[q]) = {} /\ Elements(a.deferred[q]) = {}
    BY <1>7 DEF Quiet
  <2>2. CASE q = r
    <3>1. Elements(d) = {} /\ Elements(moved) = {}
      BY <1>13, <2>1, <2>2
    <3> QED
      BY <1>10, <1>14, <2>1, <2>2, <3>1
  <2> QED
    BY <1>8, <2>1, <2>2
<1>16. ASSUME NEW e \in Retained(b)
       PROVE  \E f \in Retained(a) : e.event = f.event /\ e.mode = f.mode
  <2>1. PICK k \in Kinds, q \in Runtimes : e \in Elements(b[k][q])
    BY RetainedIn
  <2>2. CASE e \in Elements(a[k][q])
    BY <2>2, RetainedIn
  <2>3. CASE e \in Elements(moved)
    <3>1. PICK f \in Elements(d) : e.event = f.event /\ e.mode = f.mode
      BY <1>13, <2>3
    <3>2. f \in Retained(a)
      BY RetainedIn DEF Kinds
    <3> QED
      BY <3>1, <3>2
  <2>4. e \in Elements(a[k][q]) \/ e \in Elements(moved)
    <3>1. CASE q # r
      BY <1>9, <2>1, <3>1
    <3>2. CASE q = r /\ k = "ready"
      BY <1>14, <2>1, <3>2
    <3>3. CASE q = r /\ k = "deferred"
      BY <1>10, <2>1, <3>3
    <3> QED
      BY <3>1, <3>2, <3>3 DEF Kinds
  <2> QED
    BY <2>2, <2>3, <2>4
<1> QED
  BY <1>5, <1>7, <1>8, <1>11, <1>15, <1>16 DEF still, Recalls

(* Deferring moves the head of the ready mailbox to the deferred mailbox.    *)
LEMMA PostponeSound ==
  ASSUME NEW a, Wellformed(a), NEW r \in Runtimes, a.ready[r] # <<>>, a.status[r] = "running",
         Defers(Leaf(a, r), Head(a.ready[r]).event),
         Len(a.deferred[r]) < Capacity[a.definition],
         NEW b, b = Postponed(a, r)
  PROVE  /\ Wellformed(b)
         /\ b.status = a.status /\ b.definition = a.definition
         /\ b.nextStep = a.nextStep /\ b.migrations = a.migrations
         /\ b.nextAcceptance = a.nextAcceptance
         /\ Numbers(Retained(b)) = Numbers(Retained(a))
<1> DEFINE h == Head(a.ready[r])
           back == <<h>>
           n == a.nextStep
           moved == [h EXCEPT !.queue = a.nextQueue]
<1>1. /\ Sound(a, n) /\ Shape(a) /\ a.nextQueue \in Nat /\ Quiet(a) /\ DeferralSound(a)
      /\ AllDeclared(a) /\ SingleRuntime(a)
  BY DEF Wellformed, Sound, Shape
<1>2. b = [[a EXCEPT !.ready[r] = Tail(@)]
             EXCEPT !.deferred[r] = Append(@, moved), !.nextQueue = @ + 1]
  BY <1>1 DEF Postponed, Popped, Shape
<1>3. \A k \in Kinds, q \in Runtimes :
        /\ IsSequence(a[k][q]) /\ Ascending(a[k][q])
        /\ \A e \in Elements(a[k][q]) : EntrySound(a, e, n)
  BY <1>1 DEF Sound, BoxesSound
<1>4. /\ IsSequence(a.ready[r]) /\ Ascending(a.ready[r])
      /\ \A e \in Elements(a.ready[r]) : e.queue \in Nat
      /\ IsSequence(a.deferred[r])
  BY <1>1, <1>3 DEF Kinds, EntrySound, Shape
<1>5. /\ h \in Elements(a.ready[r]) /\ h \in Retained(a) /\ EntrySound(a, h, n)
      /\ IsSequence(Tail(a.ready[r])) /\ Ascending(Tail(a.ready[r]))
      /\ Elements(Tail(a.ready[r])) = Elements(a.ready[r]) \ {h}
  <2>1. /\ h \in Elements(a.ready[r])
        /\ IsSequence(Tail(a.ready[r])) /\ Ascending(Tail(a.ready[r]))
        /\ Elements(Tail(a.ready[r])) = Elements(a.ready[r]) \ {h}
    BY <1>4, TakeHead
  <2>2. EntrySound(a, h, n)
    BY <1>3, <2>1 DEF Kinds
  <2>3. h \in Retained(a)
    BY <2>1, RetainedIn DEF Kinds
  <2> QED
    BY <2>1, <2>2, <2>3
<1>6. /\ moved.event = h.event /\ moved.mode = h.mode
      /\ IsSequence(back) /\ Ascending(back) /\ Elements(back) = {h} /\ Len(back) = 1
      /\ Renumbered(back, a.nextQueue) = <<moved>>
  <2> HIDE DEF h
  <2>1. moved.event = h.event /\ moved.mode = h.mode
    BY <1>5 DEF EntrySound, EntryFields
  <2>2. back \in Seq({h}) /\ Len(back) = 1 /\ back[1] = h
    OBVIOUS
  <2> HIDE DEF back
  <2>3. \A i \in 1..Len(back) : i = 1
    BY <2>2
  <2>4. IsSequence(back) /\ Ascending(back)
    BY <2>2, <2>3 DEF IsSequence, Ascending
  <2>5. Elements(back) = {h}
    BY <2>2 DEF Elements
  <2>6. Renumbered(back, a.nextQueue) = [i \in 1..1 |-> moved]
    <3>1. \A i \in 1..1 : [back[i] EXCEPT !.queue = a.nextQueue + i - 1] = moved
      BY <1>1, <2>2
    <3> QED
      BY <2>2, <3>1 DEF Renumbered
  <2>7. [i \in 1..1 |-> moved] = <<moved>>
    BY OneThing
  <2> QED
    BY <2>1, <2>2, <2>4, <2>5, <2>6, <2>7
<1> HIDE DEF moved
<1>7. /\ DOMAIN b = DOMAIN a
      /\ b.ready = [a.ready EXCEPT ![r] = Tail(a.ready[r])]
      /\ b.deferred = [a.deferred EXCEPT ![r] = Append(a.deferred[r], moved)]
      /\ b.nextQueue = a.nextQueue + 1
      /\ b.status = a.status /\ b.leaf = a.leaf /\ b.definition = a.definition
      /\ b.nextStep = a.nextStep /\ b.migrations = a.migrations
      /\ b.nextAcceptance = a.nextAcceptance
  BY <1>1, <1>2 DEF Shape
<1>8. /\ Shape(b) /\ b.ready[r] = Tail(a.ready[r])
      /\ b.deferred[r] = Append(a.deferred[r], moved)
      /\ \A q \in Runtimes : q # r => b.deferred[q] = a.deferred[q] /\ b.ready[q] = a.ready[q]
  BY <1>1, <1>7 DEF Shape
<1>9. /\ b.deferred[r] = a.deferred[r] \o <<moved>>
      /\ Len(b.deferred[r]) = Len(a.deferred[r]) + 1 /\ Len(a.deferred[r]) \in Nat
      /\ Elements(b.deferred[r]) = Elements(a.deferred[r]) \cup {moved}
  <2> DEFINE s == a.deferred[r]
  <2>1. PICK S : s \in Seq(S)
    BY <1>4 DEF IsSequence
  <2> HIDE DEF s
  <2>2. s \in Seq(S \cup {moved}) /\ moved \in S \cup {moved}
    BY <2>1, SeqMonotonic
  <2>3. Append(s, moved) = s \o <<moved>> /\ Len(Append(s, moved)) = Len(s) + 1 /\ Len(s) \in Nat
    BY <2>2
  <2>4. IsSequence(<<moved>>) /\ Elements(<<moved>>) = {moved}
    <3> DEFINE u == <<moved>>
    <3>1. u \in Seq({moved}) /\ Len(u) = 1 /\ u[1] = moved
      OBVIOUS
    <3> HIDE DEF u
    <3>2. IsSequence(u) /\ Elements(u) = {moved}
      BY <3>1 DEF IsSequence, Elements
    <3> QED
      BY <3>2 DEF u
  <2>5. IsSequence(s)
    BY <2>1 DEF IsSequence
  <2>6. Elements(s \o <<moved>>) = Elements(s) \cup Elements(<<moved>>)
    BY <2>4, <2>5, JoinBoxes
  <2>7. /\ Append(s, moved) = s \o <<moved>> /\ Len(Append(s, moved)) = Len(s) + 1
        /\ Len(s) \in Nat
        /\ Elements(Append(s, moved)) = Elements(s) \cup {moved}
    BY <2>3, <2>4, <2>6
  <2> QED
    BY <1>8, <2>7 DEF s
<1>10. \A k \in Kinds, q \in Runtimes : q # r => b[k][q] = a[k][q]
  BY <1>8 DEF Kinds
<1> HIDE DEF h, back, n
<1>11. Sound(b, n) /\ Numbers(Retained(b)) = Numbers(Retained(a))
  <2>1. MovedOver(a, b, "ready", "deferred", r, back)
    BY <1>5, <1>6, <1>7, <1>8, <1>9, <1>10 DEF MovedOver, Kinds
  <2> QED
    BY <1>1, <1>8, <2>1, MoveSound
<1>12. \A e \in Retained(b) : e \in Retained(a) \/ e = moved
  <2> SUFFICES ASSUME NEW k \in Kinds, NEW q \in Runtimes, NEW e \in Elements(b[k][q])
               PROVE  e \in Retained(a) \/ e = moved
    BY RetainedIn
  <2>1. e \in Elements(a[k][q]) \/ e = moved
    <3>1. CASE q # r
      BY <1>10, <3>1
    <3>2. CASE q = r /\ k = "ready"
      BY <1>5, <1>8, <3>2
    <3>3. CASE q = r /\ k = "deferred"
      BY <1>9, <3>3
    <3> QED
      BY <3>1, <3>2, <3>3 DEF Kinds
  <2> QED
    BY <2>1, RetainedIn
<1>13. AllDeclared(b)
  BY <1>1, <1>5, <1>6, <1>7, <1>12 DEF AllDeclared
<1>14. DeferralSound(b)
  <2> SUFFICES ASSUME NEW q \in Runtimes
               PROVE  /\ \A e \in Elements(b.deferred[q]) : Defers(Leaf(b, q), e.event)
                      /\ Len(b.deferred[q]) <= Capacity[b.definition]
    BY DEF DeferralSound
  <2>1. Leaf(b, q) = Leaf(a, q)
    BY <1>7 DEF Leaf
  <2>2. CASE q # r
    BY <1>1, <1>7, <1>8, <2>1, <2>2 DEF DeferralSound
  <2>3. CASE q = r
    <3>1. \A e \in Elements(b.deferred[q]) : Defers(Leaf(b, q), e.event)
      BY <1>1, <1>6, <1>9, <2>1, <2>3 DEF DeferralSound, h
    <3>2. Capacity[a.definition] \in Nat
      BY <1>1, CapacityAssumption DEF Shape
    <3> QED
      BY <1>7, <1>9, <2>3, <3>1, <3>2
  <2> QED
    BY <2>2, <2>3
<1>15. Quiet(b)
  <2> SUFFICES ASSUME NEW q \in Runtimes, b.status[q] \in Gone
               PROVE  Elements(b.ready[q]) = {} /\ Elements(b.deferred[q]) = {}
    BY DEF Quiet
  <2>1. q # r
    BY <1>7 DEF Gone
  <2> QED
    BY <1>1, <1>7, <1>8, <2>1 DEF Quiet
<1>16. SingleRuntime(b)
  BY <1>1, <1>7 DEF SingleRuntime
<1> QED
  BY <1>7, <1>11, <1>13, <1>14, <1>15, <1>16 DEF Wellformed, n

-----------------------------------------------------------------------------
(* What a handled event sends.                                               *)

LEMMA IdentityParts ==
  ASSUME NEW c, NEW n, NEW s
  PROVE  /\ Len(EventIdentity(c, n, s)) = 5 /\ EventIdentity(c, n, s)[2] = n
         /\ EventIdentity(c, n, s)[4] = s.to /\ EventIdentity(c, n, s)[5] = s.event
BY DEF EventIdentity

Emission(a, ss, cause) ==
  [i \in 1..Len(ss) |->
     [to |-> ss[i].to, event |-> ss[i].event, mode |-> "internal",
      id |-> EventIdentity(cause, a.nextStep, ss[i])]]

(* Sends to live runtimes, told apart by their target or their event.         *)
Sendable(a, ss) ==
  /\ Len(ss) \in Nat
  /\ \A i \in 1..Len(ss) : /\ ss[i].to \in Runtimes /\ a.status[ss[i].to] \notin Gone
                           /\ ss[i].event \in Declared(a.definition, "internal")
  /\ \A i, j \in 1..Len(ss) : i # j => ss[i].to # ss[j].to \/ ss[i].event # ss[j].event
  /\ \A e \in Retained(a) : \/ Known(e.id, a.nextStep)
                            \/ \A i \in 1..Len(ss) : e.id[5] # ss[i].event

LEMMA EmissionNew ==
  ASSUME NEW a, Sound(a, a.nextStep + 1), NEW ss, Sendable(a, ss), NEW cause,
         NEW xs, xs = Emission(a, ss, cause)
  PROVE  /\ Newcomers(a, xs, a.nextStep + 1) /\ Len(xs) = Len(ss)
         /\ \A i \in 1..Len(ss) : /\ xs[i].to = ss[i].to /\ xs[i].event = ss[i].event
                                  /\ xs[i].mode = "internal"
                                  /\ Len(xs[i].id) = 5 /\ xs[i].id[2] = a.nextStep
                                  /\ xs[i].id[5] = ss[i].event
<1> DEFINE n == a.nextStep
<1>1. n \in Nat /\ Len(ss) \in Nat
  BY DEF Sound, Shape, Sendable
<1>2. Len(xs) = Len(ss)
  <2>1. xs \in [1..Len(ss) -> {xs[i] : i \in 1..Len(ss)}]
    BY DEF Emission
  <2>2. xs \in Seq({xs[i] : i \in 1..Len(ss)})
    BY <1>1, <2>1, IsASeq
  <2> QED
    BY <1>1, <2>1, <2>2, LenProperties
<1>3. \A i \in 1..Len(ss) : /\ xs[i].to = ss[i].to /\ xs[i].event = ss[i].event
                            /\ xs[i].mode = "internal"
                            /\ xs[i].id = EventIdentity(cause, n, ss[i])
  BY DEF Emission
<1>4. \A i \in 1..Len(ss) : /\ Len(xs[i].id) = 5 /\ xs[i].id[2] = n
                            /\ xs[i].id[4] = ss[i].to /\ xs[i].id[5] = ss[i].event
  <2> SUFFICES ASSUME NEW i \in 1..Len(ss)
               PROVE  /\ Len(xs[i].id) = 5 /\ xs[i].id[2] = n
                      /\ xs[i].id[4] = ss[i].to /\ xs[i].id[5] = ss[i].event
    OBVIOUS
  <2>1. xs[i].id = EventIdentity(cause, n, ss[i])
    BY <1>3
  <2> QED
    BY <2>1, IdentityParts
<1> HIDE DEF Emission
<1>5. \A i \in 1..Len(xs) : xs[i].to \in Runtimes /\ Known(xs[i].id, n + 1)
  <2> SUFFICES ASSUME NEW i \in 1..Len(xs)
               PROVE  xs[i].to \in Runtimes /\ Known(xs[i].id, n + 1)
    OBVIOUS
  <2>1. xs[i].id[2] \in 0..((n + 1) - 1)
    BY <1>1, <1>2, <1>4
  <2> QED
    BY <1>2, <1>3, <1>4, <2>1 DEF Known, Sendable
<1>6. ASSUME NEW i \in 1..Len(xs), NEW e \in Retained(a)
      PROVE  e.id # xs[i].id
  <2>1. CASE Known(e.id, n)
    <3>1. Len(e.id) = 1 \/ e.id[2] # n
      BY <1>1, <2>1 DEF Known
    <3>2. Len(xs[i].id) = 5 /\ xs[i].id[2] = n
      BY <1>2, <1>4
    <3> QED
      BY <3>1, <3>2
  <2>2. CASE \A j \in 1..Len(ss) : e.id[5] # ss[j].event
    BY <1>2, <1>4, <2>2
  <2> QED
    BY <2>1, <2>2 DEF Sendable
<1>7. ASSUME NEW i \in 1..Len(xs), NEW j \in 1..Len(xs), i # j
      PROVE  xs[i].id # xs[j].id
  <2>1. ss[i].to # ss[j].to \/ ss[i].event # ss[j].event
    BY <1>2, <1>7 DEF Sendable
  <2> QED
    BY <1>2, <1>4, <2>1
<1>8. Newcomers(a, xs, n + 1)
  BY <1>1, <1>2, <1>5, <1>6, <1>7 DEF Newcomers
<1> QED
  BY <1>2, <1>3, <1>4, <1>8

(* What an emission from a to b of the entries E does.                      *)
Emits(a, ss, b, E) ==
  /\ Sound(b, a.nextStep + 1) /\ Quiet(b) /\ AllDeclared(b)
  /\ b.status = a.status /\ b.leaf = a.leaf /\ b.definition = a.definition
  /\ b.deferred = a.deferred /\ b.nextStep = a.nextStep /\ b.migrations = a.migrations
  /\ b.nextAcceptance = a.nextAcceptance + Len(ss) /\ Len(ss) \in Nat
  /\ Retained(b) = Retained(a) \cup E
  /\ Numbers(E) = a.nextAcceptance .. (a.nextAcceptance + Len(ss) - 1)
  /\ \A e \in E : /\ Len(e.id) = 5 /\ e.id[2] = a.nextStep
                  /\ \E i \in 1..Len(ss) : e.id[5] = ss[i].event
  /\ \A e, f \in E : e # f => e.id # f.id /\ e.accepted # f.accepted

LEMMA EmitSound ==
  ASSUME NEW a, Sound(a, a.nextStep + 1), Quiet(a), AllDeclared(a),
         NEW ss, Sendable(a, ss), NEW cause, NEW b, b = Emitted(a, ss, cause),
         NEW E, E = Retained(b) \ Retained(a)
  PROVE  Emits(a, ss, b, E)
<1> DEFINE n == a.nextStep
           xs == Emission(a, ss, cause)
<1>1. /\ Newcomers(a, xs, n + 1) /\ Len(xs) = Len(ss)
      /\ \A i \in 1..Len(ss) : /\ xs[i].to = ss[i].to /\ xs[i].event = ss[i].event
                               /\ xs[i].mode = "internal"
                               /\ Len(xs[i].id) = 5 /\ xs[i].id[2] = n
                               /\ xs[i].id[5] = ss[i].event
  BY EmissionNew
<1>2. b = Enqueued(a, xs)
  BY DEF Emitted, Emission
<1> HIDE DEF xs
<1>3. /\ b.status = a.status /\ b.leaf = a.leaf /\ b.definition = a.definition
      /\ b.deferred = a.deferred /\ b.nextStep = a.nextStep /\ b.migrations = a.migrations
      /\ b.nextAcceptance = a.nextAcceptance + Len(xs)
  BY <1>1, <1>2, JoinFields
<1>4. /\ Sound(b, n + 1)
      /\ \A r \in Runtimes : Elements(b.ready[r]) = Elements(a.ready[r]) \cup ArrivedAt(a, xs, r)
      /\ Retained(b) = Retained(a) \cup Arrived(a, xs)
      /\ Arrived(a, xs) \cap Retained(a) = {}
      /\ Numbers(Arrived(a, xs)) = a.nextAcceptance .. (a.nextAcceptance + Len(xs) - 1)
  <2>1. Gains(a, xs, n + 1, b)
    BY <1>1, <1>2, JoinSound
  <2> QED
    BY <2>1 DEF Gains
<1>5. E = Arrived(a, xs)
  BY <1>4
<1>6. a.nextAcceptance \in Nat /\ a.nextQueue \in Nat /\ Len(xs) \in Nat
  BY <1>1 DEF Sound, Shape, Newcomers
<1>7. \A i \in 1..Len(xs) :
        /\ Arrivals(a, xs)[i].id = xs[i].id /\ Arrivals(a, xs)[i].event = xs[i].event
        /\ Arrivals(a, xs)[i].mode = xs[i].mode
        /\ Arrivals(a, xs)[i].accepted = a.nextAcceptance + i - 1
  BY <1>6, ArrivalEntries
<1>8. \A e \in E : \E i \in 1..Len(xs) : e = Arrivals(a, xs)[i]
  BY <1>5 DEF Arrived
<1>9. \A e \in E : \E i \in 1..Len(ss) :
        /\ e.id = xs[i].id /\ e.event = ss[i].event /\ e.mode = "internal"
        /\ Len(e.id) = 5 /\ e.id[2] = n /\ e.id[5] = ss[i].event
  <2> SUFFICES ASSUME NEW e \in E, NEW i \in 1..Len(xs), e = Arrivals(a, xs)[i]
               PROVE  /\ i \in 1..Len(ss)
                      /\ e.id = xs[i].id /\ e.event = ss[i].event /\ e.mode = "internal"
                      /\ Len(e.id) = 5 /\ e.id[2] = n /\ e.id[5] = ss[i].event
    BY <1>8
  <2>1. i \in 1..Len(ss) /\ e.id = xs[i].id /\ e.event = xs[i].event /\ e.mode = xs[i].mode
    BY <1>1, <1>7
  <2> QED
    BY <1>1, <2>1
<1>10. ASSUME NEW e \in E, NEW f \in E, e # f
       PROVE  e.id # f.id /\ e.accepted # f.accepted
  <2>1. PICK i \in 1..Len(xs) : e = Arrivals(a, xs)[i]
    BY <1>8
  <2>2. PICK j \in 1..Len(xs) : f = Arrivals(a, xs)[j]
    BY <1>8
  <2>3. i # j
    BY <1>10, <2>1, <2>2
  <2>4. xs[i].id # xs[j].id
    BY <1>1, <2>3 DEF Newcomers
  <2>5. e.id = xs[i].id /\ f.id = xs[j].id
        /\ e.accepted = a.nextAcceptance + i - 1 /\ f.accepted = a.nextAcceptance + j - 1
    BY <1>7, <2>1, <2>2
  <2> QED
    BY <1>6, <2>3, <2>4, <2>5
<1>11. AllDeclared(b)
  <2> SUFFICES ASSUME NEW e \in Retained(b) PROVE e.event \in Declared(b.definition, e.mode)
    BY DEF AllDeclared
  <2>1. CASE e \in Retained(a)
    BY <1>3, <2>1 DEF AllDeclared
  <2>2. CASE e \in E
    BY <1>3, <1>9, <2>2 DEF Sendable
  <2> QED
    BY <1>4, <1>5, <2>1, <2>2
<1>12. Quiet(b)
  <2> SUFFICES ASSUME NEW r \in Runtimes, b.status[r] \in Gone
               PROVE  Elements(b.ready[r]) = {} /\ Elements(b.deferred[r]) = {}
    BY DEF Quiet
  <2>1. Elements(a.ready[r]) = {} /\ Elements(a.deferred[r]) = {}
    BY <1>3 DEF Quiet
  <2>2. \A i \in 1..Len(xs) : xs[i].to # r
    BY <1>1, <1>3 DEF Sendable
  <2>3. ArrivedAt(a, xs, r) = {}
    BY <2>2 DEF ArrivedAt
  <2> QED
    BY <1>3, <1>4, <2>1, <2>3
<1> QED
  BY <1>1, <1>3, <1>4, <1>5, <1>6, <1>9, <1>10, <1>11, <1>12 DEF Emits

LEMMA SentDeclared ==
  ASSUME NEW d \in Definitions
  PROVE  /\ Chart[d] = "parallel_components" => Sent \subseteq Declared(d, "internal")
         /\ Reserved \subseteq Declared(d, "internal")
         /\ Chart[d] \in Machines
<1>1. Removed[d] \cap (InternalEvents[Chart[d]] \cup Reserved) = {}
  BY RemovedAssumption
<1>2. Declared(d, "internal") = (InternalEvents[Chart[d]] \cup Reserved) \ Removed[d]
  BY DEF Declared
<1>3. InternalEvents["parallel_components"] = Sent
  BY DEF InternalEvents, Sent
<1> QED
  BY <1>1, <1>2, <1>3, ChartAssumption

LEMMA ReactionFits ==
  ASSUME NEW a, Shape(a), SingleRuntime(a), NEW r \in Runtimes, a.status[r] = "running",
         NEW x, ReactionSound(Leaf(a, r), x)
  PROVE  /\ Len(x.sends) # 0 => Chart[a.definition] = "parallel_components"
         /\ x.kind = "move" => r = "root" /\ x.goto \in Leaves[Chart[a.definition]]
         /\ r # "root" => x.kind \in {"stay", "final"}
<1> DEFINE m == Chart[a.definition]
<1>1. a.definition \in Definitions /\ a.leaf \in Leaves[m] /\ m \in Machines
  BY ChartAssumption DEF Shape
<1>2. Leaves = [transaction_server |-> Leaves.transaction_server,
                parallel_components |-> Leaves.parallel_components]
      /\ Leaves.transaction_server \cap Leaves.parallel_components = {}
  BY DEF Leaves
<1>3. Machines = {"transaction_server", "parallel_components"}
  BY DEF Machines
<1>4. CASE r = "root"
  <2>1. Leaf(a, r) = a.leaf
    BY <1>4 DEF Leaf
  <2>2. ASSUME Len(x.sends) # 0 PROVE m = "parallel_components"
    BY <1>1, <1>2, <1>3, <2>1, <2>2 DEF ReactionSound
  <2>3. ASSUME x.kind = "move" PROVE x.goto \in Leaves[m]
    <3>1. PICK k \in Machines : a.leaf \in Leaves[k] /\ x.goto \in Leaves[k]
      BY <2>1, <2>3 DEF ReactionSound
    <3>2. k = m
      <4>1. k = "transaction_server" \/ k = "parallel_components"
        BY <1>3
      <4>2. m = "transaction_server" \/ m = "parallel_components"
        BY <1>1, <1>3
      <4> QED
        BY <1>1, <1>2, <3>1, <4>1, <4>2
    <3> QED
      BY <3>1, <3>2
  <2> QED
    BY <1>4, <2>2, <2>3
<1>5. CASE r # "root"
  <2>1. x.kind \in {"stay", "final"}
    BY <1>5 DEF Leaf, ReactionSound
  <2>2. m # "transaction_server"
    BY <1>5 DEF SingleRuntime
  <2> QED
    BY <1>1, <1>3, <1>5, <2>1, <2>2
<1> QED
  BY <1>4, <1>5

LEMMA FromFields ==
  ASSUME NEW r, NEW ss, Len(ss) \in Nat
  PROVE  /\ Len(From(r, ss)) = Len(ss)
         /\ \A i \in 1..Len(ss) : /\ From(r, ss)[i].to = ss[i].to
                                  /\ From(r, ss)[i].event = ss[i].event
<1> DEFINE t == From(r, ss)
<1>1. t \in [1..Len(ss) -> {t[i] : i \in 1..Len(ss)}]
  BY DEF From
<1>2. t \in Seq({t[i] : i \in 1..Len(ss)})
  BY <1>1, IsASeq
<1>3. Len(t) = Len(ss)
  BY <1>1, <1>2, LenProperties
<1>4. \A i \in 1..Len(ss) : t[i].to = ss[i].to /\ t[i].event = ss[i].event
  BY DEF From
<1> QED
  BY <1>3, <1>4

(* The stages of a handled event: it is popped, its sends are emitted, runtimes *)
(* end, a state is entered.                                                  *)
Reacts(a, r, x) ==
  /\ Wellformed(a) /\ r \in Runtimes /\ Runnable(a, r)
  /\ x \in Reactions(Leaf(a, r), Head(a.ready[r]).event)
  /\ Completes(a, r, x)

LEMMA SendsSound ==
  ASSUME NEW a, NEW r, NEW x, Reacts(a, r, x), NEW p, p = Popped(a, r)
  PROVE  /\ Sendable(p, From(r, x.sends))
         /\ Sound(p, a.nextStep) /\ Sound(p, a.nextStep + 1) /\ Quiet(p) /\ AllDeclared(p)
         /\ DeferralSound(p) /\ SingleRuntime(p)
         /\ p.nextStep = a.nextStep /\ p.status = a.status /\ p.leaf = a.leaf
         /\ p.definition = a.definition /\ p.nextAcceptance = a.nextAcceptance
         /\ p.migrations = a.migrations
         /\ Numbers(Retained(p)) = Numbers(Retained(a)) \ {Head(a.ready[r]).accepted}
         /\ Head(a.ready[r]) \in Retained(a)
         /\ ReactionSound(Leaf(p, r), x)
         /\ \A i \in 1..Len(From(r, x.sends)) : From(r, x.sends)[i].event \in Sent
         /\ x.kind = "move" => Len(From(r, x.sends)) = 0
<1> DEFINE n == a.nextStep
           ss == From(r, x.sends)
           h == Head(a.ready[r])
<1>1. Wellformed(a) /\ r \in Runtimes /\ a.ready[r] # <<>> /\ a.status[r] = "running"
  BY DEF Reacts, Runnable, Running
<1>2. /\ Sound(p, n) /\ Quiet(p) /\ AllDeclared(p) /\ DeferralSound(p) /\ SingleRuntime(p)
      /\ p.nextStep = n /\ p.status = a.status /\ p.leaf = a.leaf
      /\ p.definition = a.definition /\ p.nextAcceptance = a.nextAcceptance
      /\ p.migrations = a.migrations
      /\ Numbers(Retained(p)) = Numbers(Retained(a)) \ {h.accepted} /\ h \in Retained(a)
  <2>1. Sound(p, a.nextStep)
    BY <1>1, PopSound
  <2>2. Quiet(p) /\ AllDeclared(p) /\ DeferralSound(p) /\ SingleRuntime(p)
    BY <1>1, PopSound
  <2>3. /\ p.nextStep = n /\ p.status = a.status /\ p.leaf = a.leaf
        /\ p.definition = a.definition /\ p.nextAcceptance = a.nextAcceptance
        /\ p.migrations = a.migrations
    BY <1>1, PopSound
  <2>4. Numbers(Retained(p)) = Numbers(Retained(a)) \ {h.accepted} /\ h \in Retained(a)
    BY <1>1, PopSound
  <2> QED
    BY <2>1, <2>2, <2>3, <2>4
<1>3. Shape(p) /\ n \in Nat
  BY <1>2 DEF Sound, Shape
<1>4. Sound(p, n + 1)
  BY <1>2, <1>3, KnownLonger
<1>5. ReactionSound(Leaf(a, r), x)
  BY ReactionsSound DEF Reacts
<1>6. Leaf(p, r) = Leaf(a, r)
  BY <1>2 DEF Leaf
<1>7. Len(x.sends) \in Nat
  BY <1>5 DEF ReactionSound
<1>8. /\ Len(ss) = Len(x.sends)
      /\ \A i \in 1..Len(ss) : ss[i].to = x.sends[i].to /\ ss[i].event = x.sends[i].event
  BY <1>7, FromFields
<1> HIDE DEF ss
<1>9. \A i \in 1..Len(ss) : ss[i].to \in Runtimes /\ ss[i].event \in Sent
  BY <1>5, <1>8 DEF ReactionSound
<1>10. \A i \in 1..Len(ss) : p.status[ss[i].to] \notin Gone
  <2>1. \A i \in DOMAIN x.sends : a.status[x.sends[i].to] = "running"
    BY DEF Reacts, Completes, Running
  <2>2. \A i \in 1..Len(x.sends) : i \in DOMAIN x.sends
    BY <1>5 DEF ReactionSound
  <2> QED
    BY <1>2, <1>8, <2>1, <2>2 DEF Gone
<1>11. \A i \in 1..Len(ss) : ss[i].event \in Declared(p.definition, "internal")
  <2> SUFFICES ASSUME NEW i \in 1..Len(ss) PROVE ss[i].event \in Declared(p.definition, "internal")
    OBVIOUS
  <2>1. Len(x.sends) # 0
    BY <1>7, <1>8
  <2>2. Chart[p.definition] = "parallel_components"
    BY <1>1, <1>2, <1>3, <1>5, <1>6, <2>1, ReactionFits
  <2>3. p.definition \in Definitions
    BY <1>3 DEF Shape
  <2> QED
    BY <1>9, <2>2, <2>3, SentDeclared
<1>12. \A e \in Retained(p) : Known(e.id, p.nextStep)
  BY <1>2, RetainedIn DEF Sound, BoxesSound, EntrySound
<1>13. \A i, j \in 1..Len(ss) : i # j => ss[i].to # ss[j].to
  BY <1>5, <1>8 DEF ReactionSound
<1>14. Sendable(p, ss)
  BY <1>7, <1>8, <1>9, <1>10, <1>11, <1>12, <1>13 DEF Sendable
<1>15. x.kind = "move" => Len(ss) = 0
  BY <1>5, <1>8 DEF ReactionSound
<1> QED
  BY <1>2, <1>4, <1>5, <1>6, <1>9, <1>14, <1>15 DEF ss

(* What ending runtimes and entering a state does.                           *)
Enters(s, n, r, x, d) ==
  /\ Sound(d, n) /\ Quiet(d) /\ AllDeclared(d) /\ SingleRuntime(d)
  /\ d.definition = s.definition /\ d.nextStep = s.nextStep
  /\ d.migrations = s.migrations /\ d.nextAcceptance = s.nextAcceptance
  /\ Retained(d) \subseteq Retained(s)
  /\ \A q \in Runtimes :
       /\ q # r => \A e \in Elements(d.deferred[q]) : Defers(Leaf(d, q), e.event)
       /\ Len(d.deferred[q]) <= Capacity[d.definition]
  /\ x.kind = "move" \/ r # "root" => d.status["root"] \notin Gone
  /\ x.kind = "move" => r = "root"
  /\ x.kind = "move" /\ x.goto = "faulty_processing" =>
       d.status["faulty"] \notin Gone /\ Chart[d.definition] = "parallel_components"

LEMMA EndEnterSound ==
  ASSUME NEW a, NEW r, NEW x, Reacts(a, r, x), ReactionSound(Leaf(a, r), x),
         NEW s, NEW n, Sound(s, n), Quiet(s), AllDeclared(s), DeferralSound(s),
         SingleRuntime(s), s.status = a.status, s.leaf = a.leaf, s.definition = a.definition,
         NEW d, d = Entered(Ended(s, Cancelled(a, r, x), Completed(r, x)), x)
  PROVE  Enters(s, n, r, x, d)
<1> DEFINE X == Cancelled(a, r, x)
           Y == Completed(r, x)
           t == Ended(s, X, Y)
<1>1. Wellformed(a) /\ r \in Runtimes /\ a.status[r] = "running" /\ a.status["root"] = "running"
  BY DEF Reacts, Runnable, Running
<1>2. Shape(a) /\ Shape(s) /\ SingleRuntime(a)
  BY <1>1 DEF Wellformed, Sound
<1>3. /\ x.kind = "move" => r = "root" /\ x.goto \in Leaves[Chart[s.definition]]
      /\ r # "root" => x.kind \in {"stay", "final"}
  BY <1>1, <1>2, ReactionFits
<1>4. /\ X \subseteq Runtimes \ {"root"} /\ \A q \in X : a.status[q] # "absent"
      /\ r # "root" => X = {}
  BY ComponentsAreRuntimes DEF Cancelled
<1>5. Y \subseteq {r} /\ (x.kind = "move" => Y = {})
  BY DEF Completed
<1> HIDE DEF X, Y
<1>6. /\ Sound(t, n) /\ Quiet(t)
      /\ t.leaf = s.leaf /\ t.definition = s.definition /\ t.nextStep = s.nextStep
      /\ t.migrations = s.migrations /\ t.nextAcceptance = s.nextAcceptance
      /\ \A q \in Runtimes :
           /\ t.status[q] = (IF q \in X THEN "absent"
                             ELSE IF q \in Y THEN "completed" ELSE s.status[q])
           /\ Elements(t.ready[q]) = IF q \in X \cup Y THEN {} ELSE Elements(s.ready[q])
           /\ Elements(t.deferred[q]) = IF q \in X \cup Y THEN {} ELSE Elements(s.deferred[q])
           /\ q \notin X \cup Y => t.deferred[q] = s.deferred[q]
           /\ q \in X \cup Y => Len(t.deferred[q]) = 0
  BY EndSound
<1>7. d = Entered(t, x)
  BY DEF X, Y
<1> HIDE DEF t
<1>8. /\ Sound(d, n) /\ Quiet(d)
      /\ d.ready = t.ready /\ d.deferred = t.deferred
      /\ d.definition = t.definition /\ d.nextStep = t.nextStep
      /\ d.migrations = t.migrations /\ d.nextAcceptance = t.nextAcceptance
      /\ d.leaf = IF x.kind = "move" THEN x.goto ELSE t.leaf
      /\ \A q \in Runtimes :
           \/ d.status[q] = t.status[q]
           \/ /\ x.kind = "move" /\ q \in ComponentsOf(x.goto)
              /\ d.status[q] \in {"running", "faulted"}
      /\ x.kind = "move" /\ x.goto = "faulty_processing" => d.status["faulty"] = "faulted"
  <2>1. x.kind = "move" => x.goto \in Leaves[Chart[t.definition]]
    BY <1>3, <1>6
  <2> QED
    BY <1>6, <1>7, <2>1, EnterSound
<1>9. Retained(d) \subseteq Retained(s)
  <2> SUFFICES ASSUME NEW k \in Kinds, NEW q \in Runtimes, NEW e \in Elements(d[k][q])
               PROVE  e \in Elements(s[k][q])
    BY RetainedIn
  <2> QED
    BY <1>6, <1>8 DEF Kinds
<1>10. AllDeclared(d)
  BY <1>6, <1>8, <1>9 DEF AllDeclared
<1>11. SingleRuntime(d)
  <2> SUFFICES ASSUME Chart[d.definition] = "transaction_server", NEW c \in Runtimes \ {"root"}
               PROVE  d.status[c] = "absent"
    BY DEF SingleRuntime
  <2>1. s.status[c] = "absent"
    BY <1>6, <1>8 DEF SingleRuntime
  <2>2. r = "root"
    BY <1>1, <1>6, <1>8, <1>2 DEF SingleRuntime
  <2>3. t.status[c] = "absent"
    BY <1>5, <1>6, <2>1, <2>2
  <2>4. x.kind = "move" => ComponentsOf(x.goto) = {}
    <3>1. x.kind = "move" => x.goto \in {"idle", "receiving", "authorizing"}
      BY <1>3, <1>6, <1>8 DEF Leaves
    <3> QED
      BY <3>1 DEF ComponentsOf
  <2> QED
    BY <1>8, <2>3, <2>4
<1>12. ASSUME NEW q \in Runtimes
       PROVE  /\ q # r => \A e \in Elements(d.deferred[q]) : Defers(Leaf(d, q), e.event)
              /\ Len(d.deferred[q]) <= Capacity[d.definition]
  <2>1. ASSUME q # r PROVE Leaf(d, q) = Leaf(s, q)
    <3>1. q = "root" => d.leaf = s.leaf
      BY <1>3, <1>6, <1>8, <2>1
    <3> QED
      BY <3>1 DEF Leaf
  <2>2. CASE q \notin X \cup Y
    BY <1>6, <1>8, <2>1, <2>2 DEF DeferralSound
  <2>3. CASE q \in X \cup Y
    <3>1. Capacity[d.definition] \in Nat
      BY <1>2, <1>6, <1>8, CapacityAssumption DEF Shape
    <3> QED
      BY <1>6, <1>8, <2>3, <3>1
  <2> QED
    BY <2>2, <2>3
<1>13. ASSUME x.kind = "move" \/ r # "root" PROVE d.status["root"] \notin Gone
  <2>1. "root" \in Runtimes
    BY DEF Runtimes
  <2>2. "root" \notin X /\ "root" \notin Y
    BY <1>4, <1>5, <1>13
  <2>3. t.status["root"] = "running"
    BY <1>1, <1>6, <2>1, <2>2
  <2> QED
    BY <1>8, <2>1, <2>3 DEF Gone
<1>14. ASSUME x.kind = "move", x.goto = "faulty_processing"
       PROVE  d.status["faulty"] \notin Gone /\ Chart[d.definition] = "parallel_components"
  <2>1. d.status["faulty"] \notin Gone
    BY <1>8, <1>14 DEF Gone
  <2>2. s.definition \in Definitions /\ d.definition = s.definition
    BY <1>2, <1>6, <1>8 DEF Shape
  <2>3. Chart[s.definition] \in Machines /\ x.goto \in Leaves[Chart[s.definition]]
    BY <1>3, <1>14, <2>2, SentDeclared
  <2>4. "faulty_processing" \notin Leaves["transaction_server"]
    BY DEF Leaves
  <2> QED
    BY <1>14, <2>1, <2>2, <2>3, <2>4 DEF Machines
<1> QED
  BY <1>3, <1>6, <1>8, <1>9, <1>10, <1>11, <1>12, <1>13, <1>14 DEF Enters

LEMMA FollowSendable ==
  ASSUME NEW d, Shape(d), NEW r \in Runtimes, NEW x, x.kind \in {"stay", "move", "final", "stop"},
         x.kind = "move" \/ r # "root" => d.status["root"] \notin Gone,
         x.kind = "move" => r = "root",
         x.kind = "move" /\ x.goto = "faulty_processing" =>
           d.status["faulty"] \notin Gone /\ Chart[d.definition] = "parallel_components",
         \A e \in Retained(d) : Known(e.id, d.nextStep) \/ (x.kind # "move" /\ e.id[5] \in Sent)
  PROVE  Sendable(d, FollowUp(d, r, x))
<1> DEFINE ys == FollowUp(d, r, x)
<1>0. FollowsUp(ys, r, x)
  BY FollowUpSound
<1> HIDE DEF ys
<1>1. /\ Len(ys) \in Nat
      /\ \A i \in 1..Len(ys) : ys[i].to \in Runtimes /\ ys[i].event \in FollowUpEvents
      /\ \A i, j \in 1..Len(ys) :
           i # j => ys[i].to # ys[j].to \/ ys[i].event # ys[j].event
      /\ \A i \in 1..Len(ys) :
           \/ /\ x.kind = "move" /\ x.goto = "faulty_processing"
              /\ ys[i].to \in {"root", "faulty"}
              /\ ys[i].event \in {"component_work", "component_failed"}
           \/ /\ x.kind = "final" /\ r # "root" /\ ys[i].to = "root"
              /\ ys[i].event \in {"component_completed", "done"}
  BY <1>0 DEF FollowsUp
<1>2. d.definition \in Definitions
  BY DEF Shape
<1>3. \A i \in 1..Len(ys) : d.status[ys[i].to] \notin Gone
  BY <1>1
<1>4. \A i \in 1..Len(ys) : ys[i].event \in Declared(d.definition, "internal")
  <2> SUFFICES ASSUME NEW i \in 1..Len(ys) PROVE ys[i].event \in Declared(d.definition, "internal")
    OBVIOUS
  <2>1. /\ Chart[d.definition] = "parallel_components" => Sent \subseteq Declared(d.definition, "internal")
        /\ Reserved \subseteq Declared(d.definition, "internal")
    BY <1>2, SentDeclared
  <2>2. ys[i].event \in Reserved
        \/ (ys[i].event \in Sent /\ Chart[d.definition] = "parallel_components")
    BY <1>1 DEF Reserved, Sent
  <2> QED
    BY <2>1, <2>2
<1>5. ASSUME NEW e \in Retained(d)
      PROVE  Known(e.id, d.nextStep) \/ \A i \in 1..Len(ys) : e.id[5] # ys[i].event
  <2>1. CASE x.kind # "move" /\ e.id[5] \in Sent
    <3>1. \A i \in 1..Len(ys) : ys[i].event \notin Sent
      BY <1>1, <2>1 DEF Sent
    <3> QED
      BY <2>1, <3>1
  <2> QED
    BY <2>1
<1>6. Sendable(d, ys)
  BY <1>1, <1>3, <1>4, <1>5 DEF Sendable
<1> QED
  BY <1>6 DEF ys

(* A handled event.                                                          *)
LEMMA HandledSound ==
  ASSUME NEW a, NEW r, NEW x, Reacts(a, r, x), NEW o, o = Handled(a, r, x)
  PROVE  /\ Wellformed(o.state) /\ Conserves(a, o.state, o.taken, o.gone)
         /\ Produces(a, o.state, o.emitted)
         /\ o.state.definition = a.definition /\ o.state.migrations = a.migrations
         /\ StepResultValid(o) /\ o.taken = {Head(a.ready[r]).accepted}
<1> DEFINE n == a.nextStep
           h == Head(a.ready[r])
           p == Popped(a, r)
           ss == From(r, x.sends)
           s == Emitted(p, ss, h.id)
           d == Entered(Ended(s, Cancelled(a, r, x), Completed(r, x)), x)
           ys == FollowUp(d, r, x)
           f == Emitted(d, ys, h.id)
           g == Recalled(f, r)
           next == [g EXCEPT !.nextStep = @ + 1]
           E == Retained(s) \ Retained(p)
           F == Retained(f) \ Retained(d)
<1>1. /\ o.state = next /\ o.disposition = "handled" /\ o.taken = {h.accepted}
      /\ o.gone = Numbers(Retained(p) \cup (E \cup F)) \ Numbers(Retained(next))
      /\ o.emitted = Identities(E \cup F)
  BY DEF Handled, Outcome
<1>2. /\ Wellformed(a) /\ r \in Runtimes /\ n \in Nat /\ a.nextAcceptance \in Nat
      /\ ReactionSound(Leaf(a, r), x) /\ x.kind \in {"stay", "move", "final", "stop"}
  <2>1. Wellformed(a) /\ r \in Runtimes /\ ReactionSound(Leaf(a, r), x)
    BY ReactionsSound DEF Reacts
  <2> QED
    BY <2>1 DEF Wellformed, Sound, Shape, ReactionSound
<1>3. /\ Sendable(p, ss)
      /\ Sound(p, n) /\ Sound(p, n + 1) /\ Quiet(p) /\ AllDeclared(p)
      /\ DeferralSound(p) /\ SingleRuntime(p)
      /\ p.nextStep = n /\ p.status = a.status /\ p.leaf = a.leaf
      /\ p.definition = a.definition /\ p.nextAcceptance = a.nextAcceptance
      /\ p.migrations = a.migrations
      /\ Numbers(Retained(p)) = Numbers(Retained(a)) \ {h.accepted}
      /\ h \in Retained(a)
      /\ \A i \in 1..Len(ss) : ss[i].event \in Sent
      /\ x.kind = "move" => Len(ss) = 0
  BY SendsSound
<1> HIDE DEF n, h, p, ss
<1>4. /\ Sound(s, n + 1) /\ Quiet(s) /\ AllDeclared(s)
      /\ s.status = p.status /\ s.leaf = p.leaf /\ s.definition = p.definition
      /\ s.deferred = p.deferred /\ s.nextStep = p.nextStep /\ s.migrations = p.migrations
      /\ s.nextAcceptance = p.nextAcceptance + Len(ss) /\ Len(ss) \in Nat
      /\ Retained(s) = Retained(p) \cup E
      /\ Numbers(E) = p.nextAcceptance .. (p.nextAcceptance + Len(ss) - 1)
      /\ \A e \in E : /\ Len(e.id) = 5 /\ e.id[2] = p.nextStep
                      /\ \E i \in 1..Len(ss) : e.id[5] = ss[i].event
      /\ \A e, k \in E : e # k => e.id # k.id /\ e.accepted # k.accepted
  <2>1. Sound(p, p.nextStep + 1)
    BY <1>3
  <2>2. Emits(p, ss, s, E)
    BY <1>3, <2>1, EmitSound
  <2> HIDE DEF s, E
  <2> QED
    BY <1>3, <2>2 DEF Emits
<1>5. DeferralSound(s) /\ SingleRuntime(s)
  BY <1>3, <1>4 DEF DeferralSound, SingleRuntime, Leaf
<1> HIDE DEF s, E
<1>6. /\ Sound(d, n + 1) /\ Quiet(d) /\ AllDeclared(d) /\ SingleRuntime(d)
      /\ d.definition = s.definition /\ d.nextStep = s.nextStep
      /\ d.migrations = s.migrations /\ d.nextAcceptance = s.nextAcceptance
      /\ Retained(d) \subseteq Retained(s)
      /\ \A q \in Runtimes :
           /\ q # r => \A e \in Elements(d.deferred[q]) : Defers(Leaf(d, q), e.event)
           /\ Len(d.deferred[q]) <= Capacity[d.definition]
      /\ x.kind = "move" \/ r # "root" => d.status["root"] \notin Gone
      /\ x.kind = "move" => r = "root"
      /\ x.kind = "move" /\ x.goto = "faulty_processing" =>
           d.status["faulty"] \notin Gone /\ Chart[d.definition] = "parallel_components"
  <2>1. s.status = a.status /\ s.leaf = a.leaf /\ s.definition = a.definition
    BY <1>3, <1>4
  <2>2. Enters(s, n + 1, r, x, d)
    BY <1>2, <1>4, <1>5, <2>1, EndEnterSound
  <2> HIDE DEF d
  <2> QED
    BY <2>2 DEF Enters
<1> HIDE DEF d
<1>7. \A e \in Retained(d) : Known(e.id, n) \/ (x.kind # "move" /\ e.id[5] \in Sent)
  <2> SUFFICES ASSUME NEW e \in Retained(s)
               PROVE  Known(e.id, n) \/ (x.kind # "move" /\ e.id[5] \in Sent)
    BY <1>6
  <2>1. CASE e \in Retained(p)
    BY <1>3, <2>1, RetainedIn DEF Sound, BoxesSound, EntrySound
  <2>2. CASE e \in E
    <3>1. PICK i \in 1..Len(ss) : e.id[5] = ss[i].event
      BY <1>4, <2>2
    <3> QED
      BY <1>3, <1>4, <3>1
  <2> QED
    BY <1>4, <2>1, <2>2
<1>8. Sendable(d, ys)
  <2>1. Shape(d) /\ d.nextStep = n
    BY <1>3, <1>4, <1>6 DEF Sound
  <2> QED
    BY <1>2, <1>6, <1>7, <2>1, FollowSendable
<1> HIDE DEF ys
<1>9. /\ Sound(f, n + 1) /\ Quiet(f) /\ AllDeclared(f)
      /\ f.status = d.status /\ f.leaf = d.leaf /\ f.definition = d.definition
      /\ f.deferred = d.deferred /\ f.nextStep = d.nextStep /\ f.migrations = d.migrations
      /\ f.nextAcceptance = d.nextAcceptance + Len(ys) /\ Len(ys) \in Nat
      /\ Retained(f) = Retained(d) \cup F
      /\ Numbers(F) = d.nextAcceptance .. (d.nextAcceptance + Len(ys) - 1)
      /\ \A e \in F : /\ Len(e.id) = 5 /\ e.id[2] = d.nextStep
                      /\ \E i \in 1..Len(ys) : e.id[5] = ys[i].event
      /\ \A e, k \in F : e # k => e.id # k.id /\ e.accepted # k.accepted
  <2>1. Sound(d, d.nextStep + 1)
    BY <1>3, <1>4, <1>6
  <2>2. Emits(d, ys, f, F)
    BY <1>6, <1>8, <2>1, EmitSound
  <2> HIDE DEF f, F
  <2> QED
    BY <1>3, <1>4, <1>6, <2>2 DEF Emits
<1> HIDE DEF f, F
<1>10. /\ Sound(g, n + 1) /\ Quiet(g)
       /\ g.status = f.status /\ g.leaf = f.leaf /\ g.definition = f.definition
       /\ g.nextStep = f.nextStep /\ g.migrations = f.migrations
       /\ g.nextAcceptance = f.nextAcceptance
       /\ Numbers(Retained(g)) = Numbers(Retained(f))
       /\ Elements(g.deferred[r]) = StillDeferred(f, r)
       /\ Len(g.deferred[r]) <= Len(f.deferred[r])
       /\ \A q \in Runtimes : q # r => g.deferred[q] = f.deferred[q]
       /\ \A e \in Retained(g) : \E k \in Retained(f) : e.event = k.event /\ e.mode = k.mode
  <2>1. Recalls(f, n + 1, r, g)
    BY <1>2, <1>9, RecallSound
  <2> HIDE DEF g
  <2> QED
    BY <2>1 DEF Recalls
<1> HIDE DEF g
<1>11. /\ DOMAIN next = DOMAIN g
       /\ next.status = g.status /\ next.leaf = g.leaf /\ next.definition = g.definition
       /\ next.nextStep = n + 1 /\ next.migrations = g.migrations
       /\ next.nextAcceptance = g.nextAcceptance /\ next.nextQueue = g.nextQueue
       /\ next.ready = g.ready /\ next.deferred = g.deferred
  <2>1. g.nextStep = n
    BY <1>3, <1>4, <1>6, <1>9, <1>10
  <2> QED
    BY <1>10, <2>1 DEF Sound, Shape
<1> HIDE DEF next
<1>12. Retained(next) = Retained(g)
  BY <1>11 DEF Retained
<1>13. Wellformed(next)
  <2>1. Shape(next)
    BY <1>2, <1>10, <1>11 DEF Sound, Shape
  <2>2. \A k \in Kinds, q \in Runtimes : next[k][q] = g[k][q]
    BY <1>11 DEF Kinds
  <2>3. Sound(next, n + 1)
    <3>1. \A k \in Kinds, q \in Runtimes : IsSequence(g[k][q]) /\ Ascending(g[k][q])
      BY <1>10 DEF Sound, BoxesSound
    <3>2. Thins(g, next)
      BY <1>11, <2>1, <2>2, <3>1 DEF Thins
    <3> QED
      BY <1>10, <3>2, ThinSound
  <2>4. Quiet(next)
    BY <1>10, <1>11 DEF Quiet
  <2>5. AllDeclared(next)
    BY <1>9, <1>10, <1>11, <1>12 DEF AllDeclared
  <2>6. SingleRuntime(next)
    <3>1. next.definition = d.definition /\ next.status = d.status
      BY <1>9, <1>10, <1>11
    <3> QED
      BY <1>6, <3>1 DEF SingleRuntime
  <2>7. DeferralSound(next)
    <3> SUFFICES ASSUME NEW q \in Runtimes
                 PROVE  /\ \A e \in Elements(next.deferred[q]) : Defers(Leaf(next, q), e.event)
                        /\ Len(next.deferred[q]) <= Capacity[next.definition]
      BY DEF DeferralSound
    <3>1. Leaf(next, q) = Leaf(f, q) /\ Leaf(next, q) = Leaf(d, q)
      BY <1>9, <1>10, <1>11 DEF Leaf
    <3>2. CASE q # r
      BY <1>6, <1>9, <1>10, <1>11, <3>1, <3>2
    <3>3. CASE q = r
      <4>1. \A e \in Elements(next.deferred[q]) : Defers(Leaf(next, q), e.event)
        BY <1>10, <1>11, <3>1, <3>3 DEF StillDeferred
      <4>2. Len(f.deferred[r]) <= Capacity[d.definition] /\ Len(g.deferred[r]) <= Len(f.deferred[r])
        BY <1>2, <1>6, <1>9, <1>10
      <4>3. Capacity[d.definition] \in Nat
        BY <1>6, CapacityAssumption DEF Sound, Shape
      <4>4. Len(f.deferred[r]) \in Nat /\ Len(g.deferred[r]) \in Nat
        BY <1>2, <1>9, <1>10 DEF Sound, BoxesSound, IsSequence, Kinds
      <4> QED
        BY <1>9, <1>10, <1>11, <3>3, <4>1, <4>2, <4>3, <4>4
    <3> QED
      BY <3>2, <3>3
  <2> QED
    BY <1>11, <2>3, <2>4, <2>5, <2>6, <2>7 DEF Wellformed
<1> DEFINE A == a.nextAcceptance
           N(T) == Numbers(T)
           gone == N(Retained(p) \cup (E \cup F)) \ N(Retained(next))
<1>14. /\ N(E) = A .. (A + Len(ss) - 1)
       /\ N(F) = (A + Len(ss)) .. (A + Len(ss) + Len(ys) - 1)
       /\ next.nextAcceptance = A + Len(ss) + Len(ys)
  BY <1>3, <1>4, <1>6, <1>9, <1>10, <1>11
<1>15. h.accepted \in 0..(A - 1)
  BY <1>2, <1>3, RetainedIn DEF Wellformed, Sound, BoxesSound, EntrySound
<1>16. /\ N(E) \cup N(F) = A .. (next.nextAcceptance - 1)
       /\ N(E) \cap N(F) = {}
       /\ h.accepted \notin N(E) \cup N(F)
       /\ next.nextAcceptance \in Nat /\ next.nextAcceptance >= A
  <2> DEFINE i == Len(ss)
             j == Len(ys)
  <2>1. i \in Nat /\ j \in Nat /\ A \in Nat
    BY <1>2, <1>4, <1>9
  <2>2. /\ N(E) = A .. (A + i - 1) /\ N(F) = (A + i) .. (A + i + j - 1)
        /\ next.nextAcceptance = A + i + j
    BY <1>14
  <2> HIDE DEF i, j, A, N
  <2>3. (A .. (A + i - 1)) \cup ((A + i) .. (A + i + j - 1)) = A .. (A + i + j - 1)
    BY <2>1
  <2>4. (A .. (A + i - 1)) \cap ((A + i) .. (A + i + j - 1)) = {}
    BY <2>1
  <2>5. h.accepted \in 0..(A - 1)
    BY <1>15
  <2>6. h.accepted \notin A .. (A + i + j - 1)
    BY <2>1, <2>5
  <2> QED
    BY <2>1, <2>2, <2>3, <2>4, <2>6
<1>17. /\ \A T, U : N(T \cup U) = N(T) \cup N(U)
       /\ \A T, U : T \subseteq U => N(T) \subseteq N(U)
  BY DEF Numbers
<1>25. /\ N(Retained(p)) = N(Retained(a)) \ {h.accepted}
       /\ N(Retained(g)) = N(Retained(f))
  BY <1>3, <1>10
<1> HIDE DEF N
<1>18. N(Retained(p) \cup (E \cup F)) = (N(Retained(a)) \ {h.accepted}) \cup (N(E) \cup N(F))
  <2>1. N(E \cup F) = N(E) \cup N(F)
    BY <1>17
  <2>2. N(Retained(p) \cup (E \cup F)) = N(Retained(p)) \cup N(E \cup F)
    BY <1>17
  <2> QED
    BY <1>25, <2>1, <2>2
<1>19. N(Retained(next)) \subseteq N(Retained(p) \cup (E \cup F))
  <2>1. Retained(f) \subseteq Retained(p) \cup (E \cup F)
    BY <1>4, <1>6, <1>9
  <2> QED
    BY <1>12, <1>17, <1>25, <2>1
<1>20. h.accepted \in N(Retained(a))
  BY <1>3 DEF Numbers, N
<1>21. Conserves(a, next, {h.accepted}, gone)
  <2>1. N(Retained(next)) \cup {h.accepted} \cup gone
          = N(Retained(a)) \cup (A .. (next.nextAcceptance - 1))
    BY <1>16, <1>18, <1>19, <1>20
  <2>2. /\ {h.accepted} \cap gone = {} /\ {h.accepted} \cap N(Retained(next)) = {}
        /\ gone \cap N(Retained(next)) = {}
    BY <1>16, <1>18, <1>19
  <2> QED
    BY <1>16, <2>1, <2>2 DEF Conserves, N
<1>22. Produces(a, next, Identities(E \cup F))
  <2>1. \A e \in E \cup F : Len(e.id) = 5 /\ e.id[2] = n
    BY <1>3, <1>4, <1>6, <1>9
  <2>2. \A e \in E \cup F : e.accepted \in A .. (next.nextAcceptance - 1)
    BY <1>16 DEF Numbers, N
  <2>3. ASSUME NEW e \in E, NEW k \in F
        PROVE  e.id # k.id /\ e.accepted # k.accepted
    <3>1. e.accepted # k.accepted
      BY <1>16 DEF Numbers, N
    <3>2. PICK i \in 1..Len(ss) : e.id[5] = ss[i].event
      BY <1>4
    <3>3. PICK j \in 1..Len(ys) : k.id[5] = ys[j].event
      BY <1>9
    <3>4. x.kind # "move" /\ e.id[5] \in Sent
      BY <1>3, <1>4, <3>2
    <3>5. ys[j].event \notin Sent
      <4>1. \/ x.kind = "move"
            \/ ys[j].event \in {"component_completed", "done"}
        <5>1. FollowsUp(ys, r, x)
          BY <1>2, FollowUpSound DEF ys
        <5> QED
          BY <5>1 DEF FollowsUp
      <4> QED
        BY <3>4, <4>1 DEF Sent
    <3> QED
      BY <3>1, <3>3, <3>4, <3>5
  <2>4. \A e, k \in E \cup F : e # k => e.id # k.id /\ e.accepted # k.accepted
    BY <1>4, <1>9, <2>3
  <2>5. \A q \in Identities(E \cup F) : \E e \in E \cup F : q = [id |-> e.id, accepted |-> e.accepted]
    BY DEF Identities
  <2>6. ASSUME NEW q \in Identities(E \cup F)
        PROVE  /\ q.accepted \in A .. (next.nextAcceptance - 1)
               /\ Len(q.id) = 5 /\ q.id[2] = n
    <3>1. PICK e \in E \cup F : q = [id |-> e.id, accepted |-> e.accepted]
      BY <2>5
    <3>2. q.id = e.id /\ q.accepted = e.accepted
      BY <3>1
    <3> QED
      BY <2>1, <2>2, <3>2
  <2>7. ASSUME NEW q \in Identities(E \cup F), NEW u \in Identities(E \cup F), q # u
        PROVE  q.id # u.id /\ q.accepted # u.accepted
    <3>1. PICK e \in E \cup F : q = [id |-> e.id, accepted |-> e.accepted]
      BY <2>5
    <3>2. PICK k \in E \cup F : u = [id |-> k.id, accepted |-> k.accepted]
      BY <2>5
    <3>3. e # k
      BY <2>7, <3>1, <3>2
    <3> QED
      BY <2>4, <3>1, <3>2, <3>3
  <2> QED
    <3>1. next.nextStep \in Nat /\ next.nextStep >= n /\ next.nextStep > n
      BY <1>2, <1>11
    <3> DEFINE sent == Identities(E \cup F)
    <3>2. \A q \in sent : q.accepted \in A .. (next.nextAcceptance - 1) /\ Len(q.id) = 5 /\ q.id[2] = n
      BY <2>6
    <3>3. \A q, u \in sent : q # u => q.id # u.id /\ q.accepted # u.accepted
      BY <2>7
    <3> HIDE DEF sent
    <3>4. Produces(a, next, sent)
      BY <3>1, <3>2, <3>3 DEF Produces, n
    <3> QED
      BY <3>4 DEF sent
<1>23. StepResultValid(o)
  <2>1. \A q \in o.emitted : q.accepted \in N(Retained(p) \cup (E \cup F))
    BY <1>1 DEF Identities, Numbers, N
  <2>2. o.gone = N(Retained(p) \cup (E \cup F)) \ N(Retained(o.state))
    BY <1>1 DEF N
  <2>3. \A q \in o.emitted : (q.accepted \in N(Retained(o.state))) # (q.accepted \in o.gone)
    BY <2>1, <2>2
  <2>4. o.gone \cap N(Retained(o.state)) = {}
    BY <2>2
  <2> QED
    BY <1>1, <2>3, <2>4 DEF StepResultValid, N
<1>24. o.state.definition = a.definition /\ o.state.migrations = a.migrations
  BY <1>1, <1>3, <1>4, <1>6, <1>9, <1>10, <1>11
<1> QED
  <2>1. o.gone = gone
    BY <1>1 DEF N
  <2> HIDE DEF gone
  <2>2. Conserves(a, o.state, o.taken, o.gone)
    BY <1>1, <1>21, <2>1
  <2>3. Wellformed(o.state) /\ Produces(a, o.state, o.emitted) /\ o.taken = {Head(a.ready[r]).accepted}
    BY <1>1, <1>13, <1>22 DEF h
  <2> QED
    BY <1>23, <1>24, <2>2, <2>3

-----------------------------------------------------------------------------
(* Every outcome of a step.                                                  *)
OutcomeSound(a, o) ==
  /\ Wellformed(o.state) /\ Conserves(a, o.state, o.taken, o.gone)
  /\ Produces(a, o.state, o.emitted) /\ StepResultValid(o)
  /\ o.state.definition = a.definition /\ o.state.migrations = a.migrations

(* An outcome that keeps all but perhaps the event taken.                    *)
LEMMA PlainOutcome ==
  ASSUME NEW a, Wellformed(a), NEW taken, NEW b, Wellformed(b),
         NEW o, NEW disposition, o = Outcome(b, disposition, taken, {}, {}),
         taken \subseteq Numbers(Retained(a)),
         Numbers(Retained(b)) = Numbers(Retained(a)) \ taken,
         b.nextAcceptance = a.nextAcceptance, b.nextStep >= a.nextStep,
         b.definition = a.definition, b.migrations = a.migrations
  PROVE  OutcomeSound(a, o)
<1>1. /\ o.state = b /\ o.taken = taken /\ o.gone = {} /\ o.emitted = {}
  BY DEF Outcome
<1>2. a.nextAcceptance \in Nat /\ b.nextStep \in Nat
  BY DEF Wellformed, Sound, Shape
<1>3. Conserves(a, b, taken, {})
  <2>1. a.nextAcceptance .. (b.nextAcceptance - 1) = {}
    BY <1>2
  <2> DEFINE M == Numbers(Retained(a))
             N == Numbers(Retained(b))
  <2>2. N = M \ taken /\ taken \subseteq M
    OBVIOUS
  <2> HIDE DEF M, N
  <2>3. N \cup taken \cup {} = M \cup (a.nextAcceptance .. (b.nextAcceptance - 1))
        /\ taken \cap N = {}
    BY <2>1, <2>2
  <2> QED
    BY <1>2, <2>3 DEF Conserves, M, N
<1>4. Produces(a, b, {})
  BY <1>2 DEF Produces
<1>5. StepResultValid(o)
  BY <1>1 DEF StepResultValid
<1> QED
  BY <1>1, <1>3, <1>4, <1>5 DEF OutcomeSound

LEMMA FaultSound ==
  ASSUME NEW a, Wellformed(a), NEW r \in Runtimes, Runnable(a, r)
  PROVE  OutcomeSound(a, FaultOutcome(a, r))
<1> DEFINE p == Popped(a, r)
           b == Faulted(a, r)
           taken == {Head(a.ready[r]).accepted}
<1>1. a.ready[r] # <<>>
  BY DEF Runnable
<1>2. /\ Sound(p, a.nextStep) /\ Quiet(p) /\ AllDeclared(p)
      /\ DeferralSound(p) /\ SingleRuntime(p)
      /\ p.nextStep = a.nextStep /\ p.definition = a.definition
      /\ p.nextAcceptance = a.nextAcceptance /\ p.migrations = a.migrations
  BY <1>1, PopSound
<1>3. /\ Numbers(Retained(p)) = Numbers(Retained(a)) \ taken
      /\ Head(a.ready[r]) \in Retained(a)
  BY <1>1, PopSound
<1>4. b = [p EXCEPT !.status["root"] = "faulted", !.nextStep = @ + 1]
  BY DEF Faulted
<1>5. FaultOutcome(a, r) = Outcome(b, "faulted", taken, {}, {})
  BY DEF FaultOutcome
<1>6. taken \subseteq Numbers(Retained(a))
  BY <1>3 DEF Numbers
<1> HIDE DEF p, b, taken
<1>7. Shape(p) /\ p.nextStep \in Nat
  BY <1>2 DEF Sound, Shape
<1>8. /\ DOMAIN b = DOMAIN p
      /\ b.status = [p.status EXCEPT !["root"] = "faulted"]
      /\ b.nextStep = p.nextStep + 1 /\ b.leaf = p.leaf
      /\ b.ready = p.ready /\ b.deferred = p.deferred /\ b.definition = p.definition
      /\ b.nextAcceptance = p.nextAcceptance /\ b.nextQueue = p.nextQueue
      /\ b.migrations = p.migrations
  BY <1>4, <1>7 DEF Shape
<1>9. /\ "root" \in Runtimes /\ b.status["root"] = "faulted"
      /\ \A q \in Runtimes : q # "root" => b.status[q] = p.status[q]
  BY <1>7, <1>8 DEF Shape, Runtimes
<1>10. Shape(b)
  <2>1. \A q \in Runtimes : b.status[q] \in Statuses
    BY <1>7, <1>9 DEF Shape, Statuses
  <2> QED
    BY <1>7, <1>8, <2>1 DEF Shape
<1>11. Retained(b) = Retained(p) /\ \A k \in Kinds, q \in Runtimes : b[k][q] = p[k][q]
  BY <1>8 DEF Retained, Kinds
<1>12. Sound(b, b.nextStep)
  <2>1. Sound(p, b.nextStep)
    BY <1>2, <1>7, <1>8, KnownLonger
  <2>2. \A k \in Kinds, q \in Runtimes : IsSequence(p[k][q]) /\ Ascending(p[k][q])
    BY <1>2 DEF Sound, BoxesSound
  <2>3. Thins(p, b)
    BY <1>8, <1>10, <1>11, <2>2 DEF Thins
  <2> QED
    BY <2>1, <2>3, ThinSound
<1>13. Quiet(b)
  BY <1>2, <1>8, <1>9 DEF Quiet, Gone
<1>14. DeferralSound(b) /\ AllDeclared(b)
  BY <1>2, <1>8, <1>11 DEF DeferralSound, AllDeclared, Leaf
<1>15. SingleRuntime(b)
  BY <1>2, <1>8, <1>9 DEF SingleRuntime
<1>16. Wellformed(b)
  BY <1>12, <1>13, <1>14, <1>15 DEF Wellformed
<1>17. b.nextStep >= a.nextStep /\ Numbers(Retained(b)) = Numbers(Retained(a)) \ taken
  BY <1>2, <1>3, <1>7, <1>8, <1>11
<1> QED
  BY <1>2, <1>5, <1>6, <1>8, <1>16, <1>17, PlainOutcome

LEMMA StepSound ==
  ASSUME NEW a, Wellformed(a), NEW r \in Runtimes, Runnable(a, r), NEW o \in Outcomes(a, r)
  PROVE  OutcomeSound(a, o)
<1> DEFINE h == Head(a.ready[r])
           reactions == Reactions(Leaf(a, r), h.event)
<1>1. /\ a.ready[r] # <<>> /\ a.status[r] = "running"
      /\ a.nextStep \in Nat
  BY DEF Runnable, Running, Wellformed, Sound, Shape
<1>2. CASE o = FaultOutcome(a, r)
  BY <1>2, FaultSound
<1>3. CASE /\ Defers(Leaf(a, r), h.event) /\ ~(Len(a.deferred[r]) >= Capacity[a.definition])
           /\ o = Outcome(Postponed(a, r), "deferred", {}, {}, {})
  <2> DEFINE b == Postponed(a, r)
  <2>1. Len(a.deferred[r]) < Capacity[a.definition]
    <3>1. Len(a.deferred[r]) \in Nat /\ Capacity[a.definition] \in Nat
      BY CapacityAssumption DEF Wellformed, Sound, Shape, BoxesSound, IsSequence, Kinds
    <3> QED
      BY <1>3, <3>1
  <2>2. /\ Wellformed(b)
        /\ b.definition = a.definition
        /\ b.nextStep = a.nextStep /\ b.migrations = a.migrations
        /\ b.nextAcceptance = a.nextAcceptance
        /\ Numbers(Retained(b)) = Numbers(Retained(a))
    BY <1>1, <1>3, <2>1, PostponeSound
  <2>3. o = Outcome(b, "deferred", {}, {}, {})
    BY <1>3
  <2> HIDE DEF b
  <2>4. b.nextStep >= a.nextStep /\ Numbers(Retained(b)) = Numbers(Retained(a)) \ {}
        /\ {} \subseteq Numbers(Retained(a))
    BY <1>1, <2>2
  <2> QED
    BY <2>2, <2>3, <2>4, PlainOutcome
<1>4. CASE \E x \in reactions : Completes(a, r, x) /\ o = Handled(a, r, x)
  <2>1. PICK x \in reactions : Completes(a, r, x) /\ o = Handled(a, r, x)
    BY <1>4
  <2>2. Reacts(a, r, x)
    BY <2>1 DEF Reacts
  <2> QED
    BY <2>1, <2>2, HandledSound DEF OutcomeSound
<1>5. CASE o = Outcome(Popped(a, r), "unhandled", {h.accepted}, {}, {})
  <2> DEFINE b == Popped(a, r)
             taken == {h.accepted}
  <2>1. /\ Sound(b, a.nextStep) /\ Quiet(b) /\ AllDeclared(b)
        /\ DeferralSound(b) /\ SingleRuntime(b)
        /\ b.nextStep = a.nextStep /\ b.definition = a.definition
        /\ b.nextAcceptance = a.nextAcceptance /\ b.migrations = a.migrations
    BY <1>1, PopSound
  <2>2. /\ Numbers(Retained(b)) = Numbers(Retained(a)) \ taken
        /\ h \in Retained(a)
    BY <1>1, PopSound
  <2>3. taken \subseteq Numbers(Retained(a))
    BY <2>2 DEF Numbers
  <2>4. o = Outcome(b, "unhandled", taken, {}, {})
    BY <1>5
  <2> HIDE DEF b, taken
  <2>5. Wellformed(b) /\ b.nextStep >= a.nextStep
    BY <1>1, <2>1 DEF Wellformed
  <2> QED
    BY <2>1, <2>2, <2>3, <2>4, <2>5, PlainOutcome
<1> QED
  BY <1>2, <1>3, <1>4, <1>5 DEF Outcomes

-----------------------------------------------------------------------------
(* Admission.                                                                *)
AdmissionOf(batch) ==
  [i \in 1..Len(batch) |->
     [to |-> batch[i].target, id |-> batch[i].id, event |-> batch[i].event,
      mode |-> batch[i].mode]]

LEMMA AdmissionNew ==
  ASSUME NEW a, NEW batch \in Batches, Admissible(a, batch), NEW n,
         NEW xs, xs = AdmissionOf(batch)
  PROVE  /\ Newcomers(a, xs, n)
         /\ \A i \in 1..Len(xs) : /\ a.status[xs[i].to] = "running"
                                  /\ xs[i].event \in Declared(a.definition, xs[i].mode)
<1>1. PICK c \in 1..MaxBatch : batch \in [1..c -> Requests]
  BY DEF Batches
<1>2. batch \in Seq(Requests) /\ Len(batch) \in Nat
  BY <1>1, BatchAssumption, IsASeq
<1>3. \A i \in 1..Len(batch) : /\ batch[i] \in Requests /\ batch[i].target \in Runtimes
                               /\ Len(batch[i].id) = 1
  BY <1>2, RequestsAssumption
<1>4. Len(xs) = Len(batch)
  <2>1. xs \in [1..Len(batch) -> {xs[i] : i \in 1..Len(batch)}]
    BY DEF AdmissionOf
  <2>2. xs \in Seq({xs[i] : i \in 1..Len(batch)})
    BY <1>2, <2>1, IsASeq
  <2> QED
    BY <1>2, <2>1, <2>2, LenProperties
<1>5. \A i \in 1..Len(batch) :
        /\ xs[i].to = batch[i].target /\ xs[i].id = batch[i].id
        /\ xs[i].event = batch[i].event /\ xs[i].mode = batch[i].mode
  BY DEF AdmissionOf
<1> HIDE DEF AdmissionOf
<1>6. \A i, j \in 1..Len(batch) : i # j => batch[i].id # batch[j].id
  BY DEF Admissible
<1>7. \A i \in 1..Len(batch) : \A e \in Retained(a) : e.id # batch[i].id
  BY DEF Admissible, ConflictingIdentity, Replayed
<1>8. \A i \in 1..Len(batch) : /\ a.status[batch[i].target] = "running"
                               /\ batch[i].event \in Declared(a.definition, batch[i].mode)
  BY DEF Admissible, ContractHolds, TargetAccepts, EventAccepted
<1>9. \A i \in 1..Len(xs) : xs[i].to \in Runtimes /\ Known(xs[i].id, n)
  BY <1>3, <1>4, <1>5 DEF Known
<1>10. Newcomers(a, xs, n)
  BY <1>2, <1>4, <1>5, <1>6, <1>7, <1>9 DEF Newcomers
<1> QED
  BY <1>4, <1>5, <1>8, <1>10

LEMMA AdmitSound ==
  ASSUME NEW a, Wellformed(a), NEW batch \in Batches, Admissible(a, batch),
         NEW b, b = Admitted(a, batch)
  PROVE  /\ Wellformed(b) /\ Conserves(a, b, {}, {})
         /\ b.definition = a.definition /\ b.migrations = a.migrations
         /\ b.nextStep = a.nextStep
<1> DEFINE n == a.nextStep
           xs == AdmissionOf(batch)
<1>1. /\ Newcomers(a, xs, n)
      /\ \A i \in 1..Len(xs) : /\ a.status[xs[i].to] = "running"
                               /\ xs[i].event \in Declared(a.definition, xs[i].mode)
  BY AdmissionNew
<1>2. b = Enqueued(a, xs)
  BY DEF Admitted, AdmissionOf
<1> HIDE DEF xs
<1>3. Sound(a, n) /\ Shape(a) /\ a.nextAcceptance \in Nat /\ a.nextQueue \in Nat /\ Len(xs) \in Nat
  BY <1>1 DEF Wellformed, Sound, Shape, Newcomers
<1>4. /\ b.status = a.status /\ b.leaf = a.leaf /\ b.definition = a.definition
      /\ b.deferred = a.deferred /\ b.nextStep = a.nextStep /\ b.migrations = a.migrations
      /\ b.nextAcceptance = a.nextAcceptance + Len(xs)
  BY <1>1, <1>2, <1>3, JoinFields
<1>5. /\ Sound(b, n)
      /\ \A r \in Runtimes : Elements(b.ready[r]) = Elements(a.ready[r]) \cup ArrivedAt(a, xs, r)
      /\ Retained(b) = Retained(a) \cup Arrived(a, xs)
      /\ Numbers(Arrived(a, xs)) = a.nextAcceptance .. (a.nextAcceptance + Len(xs) - 1)
  <2>1. Gains(a, xs, n, b)
    BY <1>1, <1>2, <1>3, JoinSound
  <2> QED
    BY <2>1 DEF Gains
<1>6. \A i \in 1..Len(xs) :
        /\ Arrivals(a, xs)[i].event = xs[i].event /\ Arrivals(a, xs)[i].mode = xs[i].mode
  BY <1>3, ArrivalEntries
<1>7. AllDeclared(b)
  <2> SUFFICES ASSUME NEW e \in Retained(b) PROVE e.event \in Declared(b.definition, e.mode)
    BY DEF AllDeclared
  <2>1. CASE e \in Retained(a)
    BY <1>4, <2>1 DEF Wellformed, AllDeclared
  <2>2. CASE e \in Arrived(a, xs)
    <3>1. PICK i \in 1..Len(xs) : e = Arrivals(a, xs)[i]
      BY <2>2 DEF Arrived
    <3> QED
      BY <1>1, <1>4, <1>6, <3>1
  <2> QED
    BY <1>5, <2>1, <2>2
<1>8. Quiet(b)
  <2> SUFFICES ASSUME NEW r \in Runtimes, b.status[r] \in Gone
               PROVE  Elements(b.ready[r]) = {} /\ Elements(b.deferred[r]) = {}
    BY DEF Quiet
  <2>1. Elements(a.ready[r]) = {} /\ Elements(a.deferred[r]) = {}
    BY <1>4 DEF Wellformed, Quiet
  <2>2. \A i \in 1..Len(xs) : xs[i].to # r
    BY <1>1, <1>4 DEF Gone
  <2>3. ArrivedAt(a, xs, r) = {}
    BY <2>2 DEF ArrivedAt
  <2> QED
    BY <1>4, <1>5, <2>1, <2>3
<1>9. DeferralSound(b) /\ SingleRuntime(b)
  BY <1>4 DEF Wellformed, DeferralSound, SingleRuntime, Leaf
<1>10. Wellformed(b)
  BY <1>4, <1>5, <1>7, <1>8, <1>9 DEF Wellformed
<1>11. Numbers(Retained(b)) = Numbers(Retained(a)) \cup (a.nextAcceptance .. (b.nextAcceptance - 1))
  <2>1. Numbers(Retained(b)) = Numbers(Retained(a)) \cup Numbers(Arrived(a, xs))
    BY <1>5 DEF Numbers
  <2>2. b.nextAcceptance - 1 = a.nextAcceptance + Len(xs) - 1
    BY <1>3, <1>4
  <2> QED
    BY <1>5, <2>1, <2>2
<1>12. b.nextAcceptance \in Nat /\ b.nextAcceptance >= a.nextAcceptance
  BY <1>3, <1>4
<1>13. Conserves(a, b, {}, {})
  BY <1>11, <1>12 DEF Conserves
<1> QED
  BY <1>4, <1>10, <1>13

-----------------------------------------------------------------------------
(* Migration.  A route leads from definition to definition of one chart.     *)
LEMMA RouteChain ==
  ASSUME NEW R, NEW route \in Seq(R), NEW from, NEW target, RouteExact(from, route, target)
  PROVE  /\ Len(route) = 0 => target = from
         /\ Len(route) # 0 => target = route[Len(route)].to
         /\ \A i \in 1..Len(route) : route[i].from = IF i = 1 THEN from ELSE route[i - 1].to
<1> DEFINE s == <<from>>
           t == [i \in DOMAIN route |-> route[i].to]
           S == {from} \cup {route[i].to : i \in 1..Len(route)}
<1>1. Len(route) \in Nat /\ DOMAIN route = 1..Len(route)
  OBVIOUS
<1>2. s \in Seq(S) /\ Len(s) = 1 /\ s[1] = from
  OBVIOUS
<1>3. t \in Seq(S) /\ Len(t) = Len(route)
  <2>1. t \in [1..Len(route) -> S]
    BY <1>1
  <2> HIDE DEF t, S
  <2>2. t \in Seq(S)
    BY <1>1, <2>1, IsASeq
  <2> QED
    BY <1>1, <2>1, <2>2, LenProperties
<1>4. \A i \in 1..Len(route) : t[i] = route[i].to
  BY <1>1
<1>5. /\ \A i \in DOMAIN route : route[i].from = (s \o t)[i]
      /\ Last(s \o t) = target
  BY DEF RouteExact
<1> HIDE DEF s, t, S
<1> DEFINE stops == s \o t
<1>6. Joins(s, t, stops)
  <2>1. IsSequence(s) /\ IsSequence(t)
    BY <1>2, <1>3 DEF IsSequence
  <2> QED
    BY <2>1, JoinPlaces
<1>13. (\A i \in DOMAIN route : route[i].from = stops[i]) /\ Last(stops) = target
  BY <1>5
<1> HIDE DEF stops
<1>12. /\ Len(stops) = 1 + Len(route)
       /\ \A i \in 1 .. (1 + Len(route)) : stops[i] = IF i <= 1 THEN s[i] ELSE t[i - 1]
  <2>1. /\ Len(stops) = 1 + Len(route)
        /\ \A i \in 1..1 : stops[i] = s[i]
        /\ \A i \in 1..Len(route) : stops[1 + i] = t[i]
    BY <1>2, <1>3, <1>6 DEF Joins
  <2>2. ASSUME NEW i \in 1 .. (1 + Len(route)), ~(i <= 1)
        PROVE  i - 1 \in 1..Len(route) /\ 1 + (i - 1) = i
    BY <1>1, <2>2
  <2>3. \A i \in 1 .. (1 + Len(route)) : i <= 1 => i \in 1..1
    BY <1>1
  <2> QED
    BY <2>1, <2>2, <2>3
<1>7. \A i \in 1 .. (1 + Len(route)) : stops[i] = IF i <= 1 THEN s[i] ELSE t[i - 1]
  BY <1>12
<1>8. target = stops[1 + Len(route)]
  BY <1>12, <1>13 DEF Last
<1>9. ASSUME NEW i \in 1..Len(route)
      PROVE  route[i].from = IF i = 1 THEN from ELSE route[i - 1].to
  <2>1. i \in 1 .. (1 + Len(route)) /\ route[i].from = stops[i]
    BY <1>1, <1>13
  <2>2. CASE i = 1
    BY <1>1, <1>2, <1>7, <2>1, <2>2
  <2>3. CASE i # 1
    <3>1. i - 1 \in 1..Len(route) /\ ~(i <= 1)
      BY <1>1, <2>3
    <3> QED
      BY <1>4, <1>7, <2>1, <2>3, <3>1
  <2> QED
    BY <2>2, <2>3
<1>10. ASSUME Len(route) = 0 PROVE target = from
  BY <1>2, <1>7, <1>8, <1>10
<1>11. ASSUME Len(route) # 0 PROVE target = route[Len(route)].to
  <2>1. 1 + Len(route) \in 1 .. (1 + Len(route)) /\ ~(1 + Len(route) <= 1)
        /\ (1 + Len(route)) - 1 = Len(route) /\ Len(route) \in 1..Len(route)
    BY <1>1, <1>11
  <2> QED
    BY <1>4, <1>7, <1>8, <2>1
<1> QED
  BY <1>9, <1>10, <1>11

LEMMA RouteChart ==
  ASSUME NEW p \in Plans, NEW d, RouteExact(d, p.route, p.target)
  PROVE  /\ Chart[p.target] = Chart[d]
         /\ p.route \in Seq(Descriptors) /\ p.target \in Definitions
         /\ Len(p.route) \in Nat /\ DOMAIN p.route = 1..Len(p.route)
         /\ Len(p.route) = 0 => p.target = d
         /\ Len(p.route) # 0 => p.target = p.route[Len(p.route)].to
         /\ \A i \in 1..Len(p.route) :
              p.route[i].from = IF i = 1 THEN d ELSE p.route[i - 1].to
<1> DEFINE route == p.route
           T == {i \in 1..Len(route) : Chart[route[i].to] # Chart[d]}
<1>1. /\ route \in Seq(Descriptors) /\ p.target \in Definitions
      /\ \A i \in DOMAIN route : Chart[route[i].from] = Chart[route[i].to]
  BY PlansAssumption
<1>2. Len(route) \in Nat /\ DOMAIN route = 1..Len(route)
  BY <1>1
<1> HIDE DEF route
<1>3. /\ Len(route) = 0 => p.target = d
      /\ Len(route) # 0 => p.target = route[Len(route)].to
      /\ \A i \in 1..Len(route) : route[i].from = IF i = 1 THEN d ELSE route[i - 1].to
  <2>1. RouteExact(d, route, p.target)
    BY DEF route
  <2> QED
    BY <1>1, <2>1, RouteChain
<1>4. T = {}
  <2> SUFFICES ASSUME T # {} PROVE FALSE
    OBVIOUS
  <2>1. T \subseteq Nat
    BY <1>2
  <2>2. PICK i \in T : \A j \in T : i <= j
    BY <2>1, LeastOf
  <2>3. i \in 1..Len(route) /\ Chart[route[i].to] # Chart[d]
    BY <2>2
  <2>4. Chart[route[i].from] = Chart[route[i].to]
    BY <1>1, <1>2, <2>3
  <2>5. CASE i = 1
    BY <1>3, <2>3, <2>4, <2>5
  <2>6. CASE i # 1
    <3>1. i - 1 \in 1..Len(route) /\ ~(i <= i - 1)
      BY <1>2, <2>3, <2>6
    <3>2. i - 1 \notin T
      BY <2>2, <3>1
    <3>3. Chart[route[i - 1].to] = Chart[d]
      BY <3>1, <3>2
    <3> QED
      BY <1>3, <2>3, <2>4, <2>6, <3>3
  <2> QED
    BY <2>5, <2>6
<1>5. Len(route) # 0 => Len(route) \in 1..Len(route)
  BY <1>2
<1>6. Chart[p.target] = Chart[d]
  BY <1>3, <1>4, <1>5
<1> QED
  BY <1>1, <1>2, <1>3, <1>6 DEF route

LEMMA MigrateSound ==
  ASSUME NEW a, Wellformed(a), NEW p \in Plans, Migratable(a, p), NEW b, b = Migrated(a, p),
         NEW gone, gone = Numbers(Retained(a) \ Retained(b))
  PROVE  /\ Wellformed(b) /\ Conserves(a, b, {}, gone)
         /\ b.definition = p.target /\ b.migrations = a.migrations + Len(p.route)
         /\ b.nextStep = a.nextStep /\ b.nextAcceptance = a.nextAcceptance
         /\ b.status = a.status
<1> DEFINE n == a.nextStep
           kept == {e \in Retained(a) : e.event \notin DisposedEvents(p)}
<1>1. /\ Sound(a, n) /\ Shape(a) /\ Quiet(a) /\ DeferralSound(a) /\ AllDeclared(a)
      /\ SingleRuntime(a)
  BY DEF Wellformed, Sound
<1>2. RouteExact(a.definition, p.route, p.target)
      /\ (p.route # <<>> => Total(b, p.target))
  BY DEF Migratable
<1>3. /\ Chart[p.target] = Chart[a.definition] /\ p.target \in Definitions
      /\ p.route \in Seq(Descriptors) /\ Len(p.route) \in Nat
  BY <1>2, RouteChart
<1>4. b = [a EXCEPT !.definition = p.target, !.migrations = @ + Len(p.route),
                    !.ready = [r \in Runtimes |-> Only(@[r], kept)],
                    !.deferred = [r \in Runtimes |-> Only(@[r], kept)]]
  BY DEF Migrated
<1> HIDE DEF kept
<1>5. /\ DOMAIN b = DOMAIN a
      /\ b.definition = p.target /\ b.migrations = a.migrations + Len(p.route)
      /\ b.nextStep = n /\ b.nextAcceptance = a.nextAcceptance /\ b.nextQueue = a.nextQueue
      /\ b.status = a.status /\ b.leaf = a.leaf
      /\ b.ready = [r \in Runtimes |-> Only(a.ready[r], kept)]
      /\ b.deferred = [r \in Runtimes |-> Only(a.deferred[r], kept)]
  BY <1>1, <1>4 DEF Shape
<1>6. Shape(b)
  <2>1. b.migrations \in Nat
    BY <1>1, <1>3, <1>5 DEF Shape
  <2>2. b.leaf \in Leaves[Chart[b.definition]]
    BY <1>1, <1>3, <1>5 DEF Shape
  <2> QED
    BY <1>1, <1>3, <1>5, <2>1, <2>2 DEF Shape
<1>7. \A k \in Kinds, r \in Runtimes : b[k][r] = Only(a[k][r], kept)
  <2> SUFFICES ASSUME NEW k \in Kinds, NEW r \in Runtimes
               PROVE  b[k][r] = Only(a[k][r], kept)
    OBVIOUS
  <2>1. b.ready[r] = Only(a.ready[r], kept)
    BY <1>5
  <2>2. b.deferred[r] = Only(a.deferred[r], kept)
    BY <1>5
  <2> QED
    BY <2>1, <2>2 DEF Kinds
<1>8. \A k \in Kinds, r \in Runtimes :
        /\ IsSequence(b[k][r]) /\ Ascending(b[k][r]) /\ Len(b[k][r]) <= Len(a[k][r])
        /\ Elements(b[k][r]) = Elements(a[k][r]) \cap kept
  <2> SUFFICES ASSUME NEW k \in Kinds, NEW r \in Runtimes
               PROVE  /\ IsSequence(b[k][r]) /\ Ascending(b[k][r]) /\ Len(b[k][r]) <= Len(a[k][r])
                      /\ Elements(b[k][r]) = Elements(a[k][r]) \cap kept
    OBVIOUS
  <2>1. IsSequence(a[k][r]) /\ Ascending(a[k][r])
    BY <1>1 DEF Sound, BoxesSound
  <2> QED
    BY <1>7, <2>1, OnlyAscending
<1>9. Sound(b, n)
  <2>1. Thins(a, b)
    BY <1>5, <1>6, <1>8 DEF Thins
  <2> QED
    BY <1>1, <2>1, ThinSound
<1>10. Retained(b) \subseteq Retained(a)
  <2> SUFFICES ASSUME NEW k \in Kinds, NEW r \in Runtimes, NEW e \in Elements(b[k][r])
               PROVE  e \in Elements(a[k][r])
    BY RetainedIn
  <2> QED
    BY <1>8
<1>11. Quiet(b)
  <2>1. "ready" \in Kinds /\ "deferred" \in Kinds
    BY DEF Kinds
  <2>2. \A r \in Runtimes : /\ Elements(b.ready[r]) \subseteq Elements(a.ready[r])
                           /\ Elements(b.deferred[r]) \subseteq Elements(a.deferred[r])
    BY <1>8, <2>1
  <2>3. b.status = a.status
    BY <1>5
  <2> QED
    BY <1>1, <2>2, <2>3 DEF Quiet
<1>12. p.route = <<>> => p.target = a.definition
  <2>1. p.route = <<>> => Len(p.route) = 0
    OBVIOUS
  <2> QED
    BY <1>2, <2>1, RouteChart
<1>13. AllDeclared(b)
  <2>1. CASE p.route # <<>>
    BY <1>2, <1>5, <2>1 DEF Total, AllDeclared
  <2>2. CASE p.route = <<>>
    BY <1>1, <1>5, <1>10, <1>12, <2>2 DEF AllDeclared
  <2> QED
    BY <2>1, <2>2
<1>14. DeferralSound(b)
  <2> SUFFICES ASSUME NEW r \in Runtimes
               PROVE  /\ \A e \in Elements(b.deferred[r]) : Defers(Leaf(b, r), e.event)
                      /\ Len(b.deferred[r]) <= Capacity[b.definition]
    BY DEF DeferralSound
  <2>1. Leaf(b, r) = Leaf(a, r)
    BY <1>5 DEF Leaf
  <2>2. "deferred" \in Kinds
    BY DEF Kinds
  <2>3. Elements(b.deferred[r]) \subseteq Elements(a.deferred[r])
        /\ Len(b.deferred[r]) <= Len(a.deferred[r])
    BY <1>8, <2>2
  <2>4. CASE p.route # <<>>
    BY <1>1, <1>2, <1>5, <2>1, <2>3, <2>4 DEF Total, DeferralSound
  <2>5. CASE p.route = <<>>
    <3>1. Len(a.deferred[r]) <= Capacity[b.definition]
      BY <1>1, <1>5, <1>12, <2>5 DEF DeferralSound
    <3>2. Len(a.deferred[r]) \in Nat /\ Len(b.deferred[r]) \in Nat
      BY <1>1, <1>8, <2>2 DEF Sound, BoxesSound, IsSequence
    <3>3. Capacity[b.definition] \in Nat
      BY <1>3, <1>5, CapacityAssumption
    <3> QED
      BY <1>1, <2>1, <2>3, <3>1, <3>2, <3>3 DEF DeferralSound
  <2> QED
    BY <2>4, <2>5
<1>15. SingleRuntime(b)
  BY <1>1, <1>3, <1>5 DEF SingleRuntime
<1>16. Wellformed(b)
  BY <1>5, <1>9, <1>11, <1>13, <1>14, <1>15 DEF Wellformed
<1>17. gone \cap Numbers(Retained(b)) = {}
  <2> SUFFICES ASSUME NEW e \in Retained(a) \ Retained(b), NEW f \in Retained(b),
                      e.accepted = f.accepted
               PROVE  FALSE
    BY DEF Numbers
  <2>1. PICK k \in Kinds, r \in Runtimes : e \in Elements(a[k][r])
    BY RetainedIn
  <2>2. PICK l \in Kinds, q \in Runtimes : f \in Elements(a[l][q])
    BY <1>10, RetainedIn
  <2>3. e = f
    BY <1>1, <2>1, <2>2 DEF Sound, Apart
  <2> QED
    BY <2>3
<1>18. Numbers(Retained(b)) \cup gone = Numbers(Retained(a))
  BY <1>10 DEF Numbers
<1>19. Conserves(a, b, {}, gone)
  <2>1. a.nextAcceptance \in Nat
    BY <1>1 DEF Shape
  <2>2. a.nextAcceptance .. (b.nextAcceptance - 1) = {}
    BY <1>5, <2>1
  <2> QED
    <3> DEFINE M == Numbers(Retained(a))
               N == Numbers(Retained(b))
    <3>1. N \cup gone = M /\ gone \cap N = {} /\ b.nextAcceptance = a.nextAcceptance
      BY <1>5, <1>17, <1>18
    <3> HIDE DEF M, N
    <3>2. N \cup {} \cup gone = M \cup (a.nextAcceptance .. (b.nextAcceptance - 1))
      BY <2>2, <3>1
    <3> QED
      <4>1. b.nextAcceptance \in Nat /\ b.nextAcceptance >= a.nextAcceptance
        BY <2>1, <3>1
      <4>2. Numbers(Retained(b)) \cup {} \cup gone
              = Numbers(Retained(a)) \cup (a.nextAcceptance .. (b.nextAcceptance - 1))
        BY <3>2 DEF M, N
      <4>3. gone \cap Numbers(Retained(b)) = {}
        BY <1>17
      <4> QED
        BY <4>1, <4>2, <4>3 DEF Conserves
<1> QED
  BY <1>5, <1>16, <1>19

-----------------------------------------------------------------------------
(* The books: what became of every number, what was sent.                    *)
Accounted(a, c, d) ==
  /\ Numbers(Retained(a)) \cup c \cup d = 0 .. (a.nextAcceptance - 1)
  /\ Numbers(Retained(a)) \cap c = {} /\ Numbers(Retained(a)) \cap d = {} /\ c \cap d = {}

LEMMA AccountedNext ==
  ASSUME NEW a, a.nextAcceptance \in Nat, NEW c, NEW d, Accounted(a, c, d),
         NEW b, NEW taken, NEW gone, Conserves(a, b, taken, gone)
  PROVE  Accounted(b, c \cup taken, d \cup gone)
<1> DEFINE M == Numbers(Retained(a))
           N == Numbers(Retained(b))
           new == a.nextAcceptance .. (b.nextAcceptance - 1)
           old == 0 .. (a.nextAcceptance - 1)
<1>1. M \cup c \cup d = old /\ M \cap c = {} /\ M \cap d = {} /\ c \cap d = {}
  BY DEF Accounted
<1>2. N \cup taken \cup gone = M \cup new /\ taken \cap gone = {} /\ taken \cap N = {} /\ gone \cap N = {}
  BY DEF Conserves
<1>3. old \cup new = 0 .. (b.nextAcceptance - 1) /\ old \cap new = {}
  BY DEF Conserves
<1> HIDE DEF M, N, new, old
<1>4. c \cap new = {} /\ d \cap new = {}
  BY <1>1, <1>3
<1>5. N \cup (c \cup taken) \cup (d \cup gone) = old \cup new
  BY <1>1, <1>2
<1>6. N \cap (c \cup taken) = {}
  BY <1>1, <1>2, <1>4
<1>7. N \cap (d \cup gone) = {}
  BY <1>1, <1>2, <1>4
<1>8. (c \cup taken) \cap (d \cup gone) = {}
  BY <1>1, <1>2, <1>4
<1> QED
  BY <1>3, <1>5, <1>6, <1>7, <1>8 DEF Accounted, N

Recorded(a, P) ==
  /\ \A p \in P : /\ p.accepted \in 0 .. (a.nextAcceptance - 1)
                  /\ Len(p.id) = 5 /\ p.id[2] \in 0 .. (a.nextStep - 1)
  /\ \A p, q \in P : p # q => p.id # q.id /\ p.accepted # q.accepted

LEMMA RecordedNext ==
  ASSUME NEW a, a.nextAcceptance \in Nat, a.nextStep \in Nat, NEW P, Recorded(a, P),
         NEW b, b.nextAcceptance \in Nat, b.nextAcceptance >= a.nextAcceptance,
         NEW E, Produces(a, b, E)
  PROVE  Recorded(b, P \cup E)
<1>1. \A p \in P : /\ p.accepted \in 0 .. (a.nextAcceptance - 1)
                   /\ Len(p.id) = 5 /\ p.id[2] \in 0 .. (a.nextStep - 1)
  BY DEF Recorded
<1>2. \A p \in E : /\ p.accepted \in a.nextAcceptance .. (b.nextAcceptance - 1)
                   /\ Len(p.id) = 5 /\ p.id[2] = a.nextStep
                   /\ b.nextStep > a.nextStep
  BY DEF Produces
<1>3. b.nextStep \in Nat /\ b.nextStep >= a.nextStep
  BY DEF Produces
<1>4. \A p \in P \cup E : /\ p.accepted \in 0 .. (b.nextAcceptance - 1)
                          /\ Len(p.id) = 5 /\ p.id[2] \in 0 .. (b.nextStep - 1)
  <2>1. ASSUME NEW p \in P
        PROVE  p.accepted \in 0 .. (b.nextAcceptance - 1) /\ p.id[2] \in 0 .. (b.nextStep - 1)
    BY <1>1, <1>3
  <2>2. ASSUME NEW p \in E
        PROVE  p.accepted \in 0 .. (b.nextAcceptance - 1) /\ p.id[2] \in 0 .. (b.nextStep - 1)
    BY <1>2, <1>3
  <2> QED
    BY <1>1, <1>2, <2>1, <2>2
<1>5. \A p \in P, q \in E : p.id # q.id /\ p.accepted # q.accepted
  <2> SUFFICES ASSUME NEW p \in P, NEW q \in E PROVE p.id # q.id /\ p.accepted # q.accepted
    OBVIOUS
  <2>1. p.id[2] # q.id[2]
    BY <1>1, <1>2
  <2>2. p.accepted # q.accepted
    BY <1>1, <1>2
  <2> QED
    BY <2>1, <2>2
<1>6. \A p, q \in P \cup E : p # q => p.id # q.id /\ p.accepted # q.accepted
  BY <1>5 DEF Recorded, Produces
<1> QED
  BY <1>4, <1>6 DEF Recorded

(* The audit records and the receipts that name them.                        *)
Audited(a, u) ==
  /\ IsSequence(u) /\ Len(u) = a.migrations
  /\ \A i \in 1..Len(u) : u[i].sequence = i
  /\ \A i \in 1 .. (Len(u) - 1) : u[i].to = u[i + 1].from
  /\ Len(u) # 0 => u[Len(u)].to = a.definition

LEMMA RecordsOf ==
  ASSUME NEW a, NEW p \in Plans, NEW x, x = AuditRecords(a, p)
  PROVE  /\ IsSequence(x) /\ Len(x) = Len(p.route) /\ Len(x) \in Nat
         /\ \A i \in 1..Len(x) : /\ x[i].sequence = a.migrations + i
                                 /\ x[i].from = p.route[i].from /\ x[i].to = p.route[i].to
<1> DEFINE route == p.route
<1>1. route \in Seq(Descriptors)
  BY PlansAssumption
<1>2. Len(route) \in Nat /\ DOMAIN route = 1..Len(route)
  BY <1>1
<1>3. x = [i \in DOMAIN route |-> AuditRecord(a.migrations + i, route[i])]
  BY DEF AuditRecords
<1> HIDE DEF route
<1>4. x \in [1..Len(route) -> {x[i] : i \in 1..Len(route)}]
  BY <1>2, <1>3
<1>5. x \in Seq({x[i] : i \in 1..Len(route)})
  BY <1>2, <1>4, IsASeq
<1>6. Len(x) = Len(route)
  BY <1>2, <1>4, <1>5, LenProperties
<1>7. \A i \in 1..Len(x) : /\ x[i].sequence = a.migrations + i
                           /\ x[i].from = route[i].from /\ x[i].to = route[i].to
  BY <1>2, <1>3, <1>6 DEF AuditRecord
<1>8. IsSequence(x)
  BY <1>5 DEF IsSequence
<1> QED
  BY <1>2, <1>6, <1>7, <1>8 DEF route

LEMMA AuditedNext ==
  ASSUME NEW a, NEW p \in Plans, RouteExact(a.definition, p.route, p.target),
         NEW u, Audited(a, u), NEW x, x = AuditRecords(a, p),
         NEW b, b.definition = p.target, b.migrations = a.migrations + Len(p.route)
  PROVE  Audited(b, u \o x)
<1> DEFINE v == u \o x
           L == Len(u)
           K == Len(x)
<1>1. /\ IsSequence(x) /\ K = Len(p.route)
      /\ \A i \in 1..K : /\ x[i].sequence = a.migrations + i
                         /\ x[i].from = p.route[i].from /\ x[i].to = p.route[i].to
  BY RecordsOf
<1>2. /\ Len(p.route) = 0 => p.target = a.definition
      /\ Len(p.route) # 0 => p.target = p.route[Len(p.route)].to
      /\ \A i \in 1..Len(p.route) :
           p.route[i].from = IF i = 1 THEN a.definition ELSE p.route[i - 1].to
  BY RouteChart
<1>3. /\ IsSequence(v) /\ L \in Nat /\ K \in Nat /\ Len(v) = L + K
      /\ \A i \in 1..L : v[i] = u[i]
      /\ \A i \in 1..K : v[L + i] = x[i]
  <2>1. IsSequence(u)
    BY DEF Audited
  <2>2. Joins(u, x, v)
    BY <1>1, <2>1, JoinPlaces
  <2> QED
    BY <2>2 DEF Joins
<1>4. /\ L = a.migrations /\ \A i \in 1..L : u[i].sequence = i
      /\ \A i \in 1 .. (L - 1) : u[i].to = u[i + 1].from
      /\ L # 0 => u[L].to = a.definition
  BY DEF Audited
<1> HIDE DEF v, L, K
<1>5. \A i \in 1..(L + K) : i \in 1..L \/ (i - L \in 1..K /\ L + (i - L) = i)
  BY <1>3
<1>6. ASSUME NEW i \in 1..Len(v) PROVE v[i].sequence = i
  <2>1. CASE i \in 1..L
    BY <1>3, <1>4, <2>1
  <2>2. CASE i - L \in 1..K /\ L + (i - L) = i
    <3>1. v[i] = x[i - L]
      BY <1>3, <2>2
    <3> QED
      BY <1>1, <1>4, <2>2, <3>1
  <2> QED
    BY <1>3, <1>5, <2>1, <2>2
<1>7. ASSUME NEW i \in 1 .. (Len(v) - 1) PROVE v[i].to = v[i + 1].from
  <2>1. CASE i + 1 \in 1..L
    <3>1. i \in 1..L /\ i \in 1 .. (L - 1)
      BY <1>3, <2>1
    <3> QED
      BY <1>3, <1>4, <2>1, <3>1
  <2>2. CASE i = L
    <3>1. 1 \in 1..K /\ L \in 1..L /\ L + 1 = i + 1
      BY <1>3, <2>2
    <3>2. v[i + 1] = x[1] /\ v[i] = u[L]
      BY <1>3, <2>2, <3>1
    <3>3. x[1].from = a.definition
      BY <1>1, <1>2, <3>1
    <3> QED
      BY <1>3, <1>4, <3>1, <3>2, <3>3
  <2>3. CASE i > L
    <3> DEFINE j == i - L
    <3>1. j \in 1..K /\ j + 1 \in 1..K /\ L + j = i /\ L + (j + 1) = i + 1
          /\ (j + 1) - 1 = j /\ j + 1 # 1
      BY <1>3, <2>3
    <3> HIDE DEF j
    <3>2. v[i] = x[j] /\ v[i + 1] = x[j + 1]
      BY <1>3, <3>1
    <3>3. x[j + 1].from = p.route[j].to
      BY <1>1, <1>2, <3>1
    <3> QED
      BY <1>1, <3>1, <3>2, <3>3
  <2>4. i + 1 \in 1..L \/ i = L \/ i > L
    BY <1>3
  <2> QED
    BY <2>1, <2>2, <2>3, <2>4
<1>8. ASSUME Len(v) # 0 PROVE v[Len(v)].to = b.definition
  <2>1. CASE K = 0
    <3>1. Len(v) = L /\ L \in 1..L /\ L # 0
      BY <1>3, <1>8, <2>1
    <3> QED
      BY <1>1, <1>2, <1>3, <1>4, <2>1, <3>1
  <2>2. CASE K # 0
    <3>1. K \in 1..K
      BY <1>3, <2>2
    <3>2. v[Len(v)] = x[K]
      BY <1>3, <3>1
    <3>3. x[K].to = p.route[K].to
      BY <1>1, <3>1
    <3> QED
      BY <1>1, <1>2, <2>2, <3>2, <3>3
  <2> QED
    BY <2>1, <2>2
<1>9. Len(v) = b.migrations
  BY <1>1, <1>3, <1>4
<1> QED
  BY <1>3, <1>6, <1>7, <1>8, <1>9 DEF Audited, v


(* A receipt names audit records that lead from its source to its target.    *)
ReceiptSound(c, u) ==
  \/ c.sequences = {} /\ c.content.plan.target = c.content.source.definition
  \/ \E lo, hi \in 1..Len(u) :
       /\ lo <= hi /\ c.sequences = lo..hi
       /\ u[lo].from = c.content.source.definition
       /\ u[hi].to = c.content.plan.target

Receipted(R, u) ==
  /\ IsSequence(R)
  /\ \A i, j \in 1..Len(R) :
       i # j => R[i].op # R[j].op /\ R[i].sequences \cap R[j].sequences = {}
  /\ \A i \in 1..Len(R) : ReceiptSound(R[i], u)

LEMMA ReceiptLonger ==
  ASSUME NEW c, NEW u, NEW x, NEW v, Joins(u, x, v), ReceiptSound(c, u)
  PROVE  ReceiptSound(c, v) /\ c.sequences \subseteq 1..Len(u)
<1>1. /\ Len(u) \in Nat /\ Len(x) \in Nat /\ Len(v) = Len(u) + Len(x)
      /\ \A i \in 1..Len(u) : v[i] = u[i]
  BY DEF Joins
<1>2. CASE c.sequences = {} /\ c.content.plan.target = c.content.source.definition
  BY <1>2 DEF ReceiptSound
<1>3. ASSUME NEW lo \in 1..Len(u), NEW hi \in 1..Len(u), lo <= hi, c.sequences = lo..hi,
             u[lo].from = c.content.source.definition, u[hi].to = c.content.plan.target
      PROVE  ReceiptSound(c, v) /\ c.sequences \subseteq 1..Len(u)
  <2>1. lo \in 1..Len(v) /\ hi \in 1..Len(v)
    BY <1>1
  <2>2. v[lo] = u[lo] /\ v[hi] = u[hi]
    BY <1>1
  <2>3. ReceiptSound(c, v)
    BY <1>3, <2>1, <2>2 DEF ReceiptSound
  <2>4. c.sequences \subseteq 1..Len(u)
    BY <1>1, <1>3
  <2> QED
    BY <2>3, <2>4
<1> QED
  BY <1>2, <1>3 DEF ReceiptSound

LEMMA ReceiptedLonger ==
  ASSUME NEW R, NEW u, NEW x, NEW v, Joins(u, x, v), Receipted(R, u)
  PROVE  /\ Receipted(R, v)
         /\ \A i \in 1..Len(R) : R[i].sequences \subseteq 1..Len(u)
<1>1. ASSUME NEW i \in 1..Len(R)
      PROVE  ReceiptSound(R[i], v) /\ R[i].sequences \subseteq 1..Len(u)
  BY ReceiptLonger DEF Receipted
<1> QED
  BY <1>1 DEF Receipted

(* A new receipt names the records that were added.                          *)
LEMMA NewReceiptSound ==
  ASSUME NEW a, NEW q, q.plan \in Plans, RouteExact(a.definition, q.plan.route, q.plan.target),
         q.source = a, NEW u, Audited(a, u), a.migrations \in Nat,
         NEW x, x = AuditRecords(a, q.plan), NEW v, Joins(u, x, v),
         NEW c, c.content = Content(q), c.sequences = {e.sequence : e \in Elements(x)}
  PROVE  ReceiptSound(c, v) /\ c.sequences \cap (1..Len(u)) = {}
<1> DEFINE route == q.plan.route
           L == Len(u)
           K == Len(route)
<1>1. /\ K \in Nat
      /\ K = 0 => q.plan.target = a.definition
      /\ K # 0 => q.plan.target = route[K].to
      /\ \A i \in 1..K : route[i].from = IF i = 1 THEN a.definition ELSE route[i - 1].to
  BY RouteChart
<1>2. /\ Len(x) = K
      /\ \A i \in 1..K : /\ x[i].sequence = a.migrations + i
                         /\ x[i].from = route[i].from /\ x[i].to = route[i].to
  BY RecordsOf
<1>3. /\ L = a.migrations /\ L \in Nat /\ Len(v) = L + K
      /\ \A i \in 1..K : v[L + i] = x[i]
  BY <1>2 DEF Audited, Joins
<1>4. c.content.plan.target = q.plan.target /\ c.content.source.definition = a.definition
  BY DEF Content
<1> HIDE DEF route, L, K
<1>5. c.sequences = {x[i].sequence : i \in 1..K}
  BY <1>2 DEF Elements
<1>6. c.sequences = {L + i : i \in 1..K}
  <2>1. \A i \in 1..K : x[i].sequence = L + i
    BY <1>2, <1>3
  <2> QED
    BY <1>5, <2>1
<1>7. c.sequences = (L + 1)..(L + K)
  <2>1. \A n \in (L + 1)..(L + K) : n - L \in 1..K /\ L + (n - L) = n
    BY <1>1, <1>3
  <2>2. \A i \in 1..K : L + i \in (L + 1)..(L + K)
    BY <1>1, <1>3
  <2> QED
    BY <1>6, <2>1, <2>2
<1>8. c.sequences \cap (1..L) = {}
  <2>1. \A n \in (L + 1)..(L + K) : n \notin 1..L
    BY <1>1, <1>3
  <2> QED
    BY <1>7, <2>1
<1>9. CASE K = 0
  <2>1. (L + 1)..(L + K) = {}
    BY <1>3, <1>9
  <2>2. c.sequences = {}
    BY <1>7, <2>1
  <2> QED
    BY <1>1, <1>4, <1>8, <1>9, <2>2 DEF ReceiptSound, L
<1>10. CASE K # 0
  <2> DEFINE lo == L + 1
             hi == L + K
  <2>1. lo \in 1..Len(v) /\ hi \in 1..Len(v) /\ lo <= hi /\ 1 \in 1..K /\ K \in 1..K
    BY <1>1, <1>3, <1>10
  <2>2. v[lo] = x[1] /\ v[hi] = x[K]
    BY <1>3, <2>1
  <2>3. v[lo].from = a.definition /\ v[hi].to = q.plan.target
    BY <1>1, <1>2, <1>10, <2>1, <2>2
  <2>4. c.sequences = lo..hi
    BY <1>7
  <2> HIDE DEF lo, hi
  <2>5. ReceiptSound(c, v)
    BY <1>4, <2>1, <2>3, <2>4 DEF ReceiptSound
  <2> QED
    BY <1>8, <2>5 DEF L
<1> QED
  BY <1>9, <1>10

LEMMA ReceiptedMore ==
  ASSUME NEW R, NEW u, NEW x, NEW v, Joins(u, x, v), Receipted(R, u),
         NEW c, ReceiptSound(c, v), c.sequences \cap (1..Len(u)) = {},
         \A i \in 1..Len(R) : R[i].op # c.op
  PROVE  Receipted(Append(R, c), v) /\ Len(Append(R, c)) = Len(R) + 1 /\ Len(R) \in Nat
<1> DEFINE T == Append(R, c)
<1>1. PICK S : R \in Seq(S)
  BY DEF Receipted, IsSequence
<1>2. R \in Seq(S \cup {c}) /\ c \in S \cup {c}
  BY <1>1, SeqMonotonic
<1>3. /\ T \in Seq(S \cup {c}) /\ Len(T) = Len(R) + 1
      /\ \A i \in 1..Len(R) : T[i] = R[i]
      /\ T[Len(R) + 1] = c
  BY <1>2, AppendProperties
<1>4. Len(R) \in Nat
  BY <1>1
<1> HIDE DEF T
<1>5. \A i \in 1..Len(T) : i \in 1..Len(R) \/ (i = Len(R) + 1 /\ T[i] = c)
  BY <1>3, <1>4
<1>6. \A i \in 1..Len(R) : ReceiptSound(T[i], v) /\ T[i].op # c.op
                           /\ T[i].sequences \cap c.sequences = {}
  <2>1. /\ Receipted(R, v)
        /\ \A i \in 1..Len(R) : R[i].sequences \subseteq 1..Len(u)
    BY ReceiptedLonger
  <2>2. \A i \in 1..Len(R) : ReceiptSound(R[i], v)
    BY <2>1 DEF Receipted
  <2>3. \A i \in 1..Len(R) : R[i].sequences \cap c.sequences = {}
    BY <2>1
  <2> QED
    BY <1>3, <2>2, <2>3
<1>7. ASSUME NEW i \in 1..Len(T), NEW j \in 1..Len(T), i # j
      PROVE  T[i].op # T[j].op /\ T[i].sequences \cap T[j].sequences = {}
  <2>1. CASE i \in 1..Len(R) /\ j \in 1..Len(R)
    BY <1>3, <1>7, <2>1 DEF Receipted
  <2>2. CASE i \in 1..Len(R) /\ T[j] = c
    BY <1>6, <2>2
  <2>3. CASE T[i] = c /\ j \in 1..Len(R)
    BY <1>6, <2>3
  <2> QED
    BY <1>5, <1>7, <2>1, <2>2, <2>3
<1>8. \A i \in 1..Len(T) : ReceiptSound(T[i], v)
  BY <1>5, <1>6
<1>9. IsSequence(T)
  BY <1>3 DEF IsSequence
<1> QED
  BY <1>3, <1>4, <1>7, <1>8, <1>9 DEF Receipted, T

(* Then the receipts pass the validator.                                     *)
LEMMA ReceiptsPass ==
  ASSUME NEW a, Audited(a, audits), Receipted(receipts, audits)
  PROVE  ReceiptsValid
<1> DEFINE mine(i) == {u \in Elements(audits) : u.sequence \in receipts[i].sequences}
<1>1. DOMAIN receipts = 1..Len(receipts)
  BY DEF Receipted, IsSequence
<1>2. /\ Len(audits) \in Nat
      /\ \A n \in 1..Len(audits) : audits[n].sequence = n /\ audits[n] \in Elements(audits)
      /\ \A e \in Elements(audits) : \E n \in 1..Len(audits) : e = audits[n]
  BY DEF Audited, IsSequence, Elements
<1>3. ASSUME NEW i \in 1..Len(receipts)
      PROVE  /\ receipts[i].sequences \subseteq {u.sequence : u \in mine(i)}
             /\ IF mine(i) = {}
                THEN receipts[i].content.plan.target = receipts[i].content.source.definition
                ELSE \E first, last \in mine(i) :
                       /\ receipts[i].sequences = first.sequence .. last.sequence
                       /\ first.from = receipts[i].content.source.definition
                       /\ last.to = receipts[i].content.plan.target
  <2> DEFINE c == receipts[i]
             M == mine(i)
  <2>1. ReceiptSound(c, audits)
    BY DEF Receipted
  <2>2. CASE c.sequences = {} /\ c.content.plan.target = c.content.source.definition
    BY <2>2
  <2>3. ASSUME NEW lo \in 1..Len(audits), NEW hi \in 1..Len(audits), lo <= hi,
               c.sequences = lo..hi,
               audits[lo].from = c.content.source.definition,
               audits[hi].to = c.content.plan.target
        PROVE  /\ c.sequences \subseteq {u.sequence : u \in M}
               /\ M # {}
               /\ \E first, last \in M :
                    /\ c.sequences = first.sequence .. last.sequence
                    /\ first.from = c.content.source.definition
                    /\ last.to = c.content.plan.target
    <3>1. \A n \in lo..hi : n \in 1..Len(audits)
      BY <1>2
    <3>2. \A n \in lo..hi : audits[n] \in M /\ audits[n].sequence = n
      BY <1>2, <2>3, <3>1
    <3>3. lo \in lo..hi /\ hi \in lo..hi
      BY <2>3
    <3>4. audits[lo] \in M /\ audits[hi] \in M
          /\ audits[lo].sequence = lo /\ audits[hi].sequence = hi
      BY <3>2, <3>3
    <3>5. c.sequences \subseteq {u.sequence : u \in M}
      BY <2>3, <3>2
    <3> HIDE DEF c, M
    <3> QED
      BY <2>3, <3>4, <3>5
  <2> QED
    BY <2>1, <2>2, <2>3 DEF ReceiptSound
<1>4. \A i, j \in 1..Len(receipts) :
        i # j => /\ receipts[i].op # receipts[j].op
                 /\ receipts[i].sequences \cap receipts[j].sequences = {}
  BY DEF Receipted
<1> QED
  BY <1>1, <1>3, <1>4 DEF ReceiptsValid

-----------------------------------------------------------------------------
(* The inductive invariant.  The invariants that the runs check speak of the  *)
(* entries of the mailboxes; what keeps them so is that queue numbers ascend in *)
(* every mailbox, that no two entries share a number or an identity, and that  *)
(* every identity the core gave belongs to a logical step that is over.        *)
PreparedSound ==
  /\ DOMAIN prepared = Operations
  /\ \A o \in Operations : prepared[o] = NotPrepared \/ prepared[o].plan \in Plans

MigrationInv ==
  /\ Wellformed(agg)
  /\ Accounted(agg, consumed, disposed)
  /\ Recorded(agg, produced)
  /\ Audited(agg, audits)
  /\ Receipted(receipts, audits)
  /\ PreparedSound

LEMMA CreatedSound ==
  ASSUME NEW d \in Definitions, NEW a, a = Created(d)
  PROVE  /\ Wellformed(a) /\ Retained(a) = {} /\ a.nextAcceptance = 0
         /\ a.migrations = 0 /\ a.definition = d
<1> DEFINE leaf == InitialLeaf[Chart[d]]
           live == {"root"} \cup ComponentsOf(leaf)
<1>1. /\ a.definition = d /\ a.leaf = leaf /\ a.nextStep = 1 /\ a.nextAcceptance = 0
      /\ a.nextQueue = 0 /\ a.migrations = 0
      /\ a.status = [r \in Runtimes |-> IF r \in live THEN "running" ELSE "absent"]
      /\ a.ready = [r \in Runtimes |-> <<>>] /\ a.deferred = [r \in Runtimes |-> <<>>]
      /\ DOMAIN a = {"definition", "status", "leaf", "ready", "deferred", "nextStep",
                     "nextAcceptance", "nextQueue", "migrations"}
  BY DEF Created
<1>2. Chart[d] \in Machines
  BY SentDeclared
<1>3. leaf \in Leaves[Chart[d]]
  BY <1>2 DEF Machines, InitialLeaf, Leaves
<1>4. Chart[d] = "transaction_server" => ComponentsOf(leaf) = {}
  BY DEF InitialLeaf, ComponentsOf
<1> HIDE DEF leaf, live
<1>5. ASSUME NEW k \in Kinds, NEW r \in Runtimes PROVE a[k][r] = <<>>
  <2>1. CASE k = "ready"
    BY <1>1, <2>1
  <2>2. CASE k = "deferred"
    BY <1>1, <2>2
  <2> QED
    BY <2>1, <2>2 DEF Kinds
<1>6. \A k \in Kinds, r \in Runtimes :
        IsSequence(a[k][r]) /\ Ascending(a[k][r]) /\ Elements(a[k][r]) = {} /\ Len(a[k][r]) = 0
  BY <1>5, EmptyBox
<1>7. Shape(a)
  <2>1. \A r \in Runtimes : a.status[r] \in Statuses
    BY <1>1 DEF Statuses
  <2> QED
    BY <1>1, <1>3, <2>1 DEF Shape
<1>8. Sound(a, a.nextStep)
  BY <1>6, <1>7 DEF Sound, BoxesSound, Apart
<1>9. Retained(a) = {}
  BY <1>6, RetainedIn
<1>10. Quiet(a)
  BY <1>6 DEF Quiet, Kinds
<1>11. Capacity[a.definition] \in Nat
  BY <1>1, CapacityAssumption
<1>12. DeferralSound(a)
  <2>1. \A r \in Runtimes : Elements(a.deferred[r]) = {} /\ Len(a.deferred[r]) = 0
    BY <1>6 DEF Kinds
  <2>2. \A r \in Runtimes : Len(a.deferred[r]) <= Capacity[a.definition]
    <3>1. 0 <= Capacity[a.definition]
      BY ONLY <1>11
    <3> QED
      BY <2>1, <3>1
  <2> QED
    BY <2>1, <2>2 DEF DeferralSound
<1>13. AllDeclared(a)
  BY <1>9 DEF AllDeclared
<1>14. SingleRuntime(a)
  BY <1>1, <1>4 DEF SingleRuntime, live
<1> QED
  BY <1>1, <1>8, <1>9, <1>10, <1>12, <1>13, <1>14 DEF Wellformed

LEMMA WellformedParts ==
  ASSUME NEW a, Wellformed(a)
  PROVE  /\ Shape(a) /\ a.nextAcceptance \in Nat /\ a.nextStep \in Nat /\ a.migrations \in Nat
         /\ a.definition \in Definitions
BY DEF Wellformed, Sound, Shape

LEMMA MigrationInitial ==
  MigrationInit => MigrationInv
<1> SUFFICES ASSUME MigrationInit PROVE MigrationInv
  OBVIOUS
<1>1. PICK d \in Definitions : agg = Created(d)
  BY DEF MigrationInit, AggregateInit
<1>2. /\ Wellformed(agg) /\ Retained(agg) = {} /\ agg.nextAcceptance = 0 /\ agg.migrations = 0
  BY <1>1, CreatedSound
<1>3. /\ consumed = {} /\ disposed = {} /\ produced = {}
      /\ receipts = <<>> /\ audits = <<>> /\ prepared = [o \in Operations |-> NotPrepared]
  BY DEF MigrationInit, AggregateInit
<1>4. Accounted(agg, consumed, disposed)
  BY <1>2, <1>3 DEF Accounted, Numbers
<1>5. Recorded(agg, produced)
  BY <1>3 DEF Recorded
<1>6. IsSequence(<<>>) /\ Len(<<>>) = 0
  BY EmptyBox
<1>7. Audited(agg, audits)
  BY <1>2, <1>3, <1>6 DEF Audited
<1>8. Receipted(receipts, audits)
  BY <1>3, <1>6 DEF Receipted
<1>9. PreparedSound
  BY <1>3 DEF PreparedSound
<1> QED
  BY <1>2, <1>4, <1>5, <1>7, <1>8, <1>9 DEF MigrationInv

(* A step or an admission.                                                   *)
LEMMA WorkInvariant ==
  ASSUME MigrationInv, UNCHANGED checkpointVars, Wellformed(agg'),
         NEW taken, NEW gone, NEW emitted,
         Conserves(agg, agg', taken, gone), Produces(agg, agg', emitted),
         agg'.definition = agg.definition, agg'.migrations = agg.migrations,
         consumed' = consumed \cup taken, disposed' = disposed \cup gone,
         produced' = produced \cup emitted
  PROVE  MigrationInv'
<1>1. agg.nextAcceptance \in Nat /\ agg.nextStep \in Nat
  BY WellformedParts DEF MigrationInv
<1>2. agg'.nextAcceptance \in Nat /\ agg'.nextAcceptance >= agg.nextAcceptance
  BY DEF Conserves
<1>3. Accounted(agg', consumed', disposed')
  BY <1>1, AccountedNext DEF MigrationInv
<1>4. Recorded(agg', produced')
  BY <1>1, <1>2, RecordedNext DEF MigrationInv
<1>5. Audited(agg', audits')
  BY DEF MigrationInv, Audited, checkpointVars
<1>6. Receipted(receipts', audits')
  BY DEF MigrationInv, checkpointVars
<1>7. PreparedSound'
  BY DEF MigrationInv, PreparedSound, checkpointVars
<1> QED
  BY <1>3, <1>4, <1>5, <1>6, <1>7 DEF MigrationInv

LEMMA AcceptInvariant ==
  ASSUME MigrationInv, NEW batch \in Batches, Accept(batch)
  PROVE  MigrationInv'
<1>1. Wellformed(agg) /\ Admissible(agg, batch) /\ agg' = Admitted(agg, batch)
  BY DEF MigrationInv, Accept, Admit
<1>2. /\ Wellformed(agg') /\ Conserves(agg, agg', {}, {})
      /\ agg'.definition = agg.definition /\ agg'.migrations = agg.migrations
      /\ agg'.nextStep = agg.nextStep
  BY <1>1, AdmitSound
<1>3. agg.nextStep \in Nat
  BY <1>1, WellformedParts
<1>4. Produces(agg, agg', {})
  BY <1>2, <1>3 DEF Produces
<1>5. /\ consumed' = consumed \cup {} /\ disposed' = disposed \cup {} /\ produced' = produced \cup {}
      /\ UNCHANGED checkpointVars
  BY DEF Accept, Admit
<1> QED
  BY <1>2, <1>4, <1>5, WorkInvariant

LEMMA StepInvariant ==
  ASSUME MigrationInv, NEW r \in Runtimes, Work(r)
  PROVE  MigrationInv'
<1>1. PICK o \in Outcomes(agg, r) : Happens(o)
  BY DEF Work, Step
<1>2. Wellformed(agg) /\ Runnable(agg, r)
  BY DEF MigrationInv, Work, Step
<1>3. OutcomeSound(agg, o)
  BY <1>2, StepSound
<1>4. /\ agg' = o.state /\ consumed' = consumed \cup o.taken
      /\ disposed' = disposed \cup o.gone /\ produced' = produced \cup o.emitted
      /\ UNCHANGED checkpointVars
  BY <1>1 DEF Happens, Work
<1>5. /\ Wellformed(agg') /\ Conserves(agg, agg', o.taken, o.gone)
      /\ Produces(agg, agg', o.emitted)
      /\ agg'.definition = agg.definition /\ agg'.migrations = agg.migrations
  BY <1>3, <1>4 DEF OutcomeSound
<1> QED
  BY <1>4, <1>5, WorkInvariant

(* A migration, of the worker or of the operator.                            *)
LEMMA HappensInvariant ==
  ASSUME MigrationInv, NEW p \in Plans, Migratable(agg, p), MigrationHappens(p)
  PROVE  /\ Wellformed(agg') /\ Accounted(agg', consumed', disposed')
         /\ Recorded(agg', produced') /\ Audited(agg', audits')
         /\ Joins(audits, AuditRecords(agg, p), audits')
<1> DEFINE gone == Numbers(Retained(agg) \ Retained(agg'))
           x == AuditRecords(agg, p)
<1>1. /\ agg' = Migrated(agg, p) /\ disposed' = disposed \cup gone
      /\ audits' = audits \o x /\ consumed' = consumed \cup {} /\ produced' = produced \cup {}
  BY DEF MigrationHappens
<1>2. Wellformed(agg)
  BY DEF MigrationInv
<1>3. /\ Wellformed(agg') /\ Conserves(agg, agg', {}, gone)
      /\ agg'.definition = p.target /\ agg'.migrations = agg.migrations + Len(p.route)
      /\ agg'.nextStep = agg.nextStep /\ agg'.nextAcceptance = agg.nextAcceptance
  BY <1>1, <1>2, MigrateSound
<1>4. agg.nextAcceptance \in Nat /\ agg.nextStep \in Nat
  BY <1>2, WellformedParts
<1> HIDE DEF gone
<1>5. Accounted(agg', consumed', disposed')
  BY <1>1, <1>3, <1>4, AccountedNext DEF MigrationInv
<1>6. Recorded(agg', produced')
  BY <1>1, <1>3 DEF Recorded, MigrationInv
<1>7. RouteExact(agg.definition, p.route, p.target)
  BY DEF Migratable
<1>8. IsSequence(x)
  BY RecordsOf
<1>9. IsSequence(audits)
  BY DEF MigrationInv, Audited
<1>10. Joins(audits, x, audits')
  BY <1>1, <1>8, <1>9, JoinPlaces
<1>11. Audited(agg', audits')
  BY <1>1, <1>3, <1>7, AuditedNext DEF MigrationInv
<1> QED
  BY <1>3, <1>5, <1>6, <1>10, <1>11

LEMMA MigrateInvariant ==
  ASSUME MigrationInv, NEW p \in Plans, Migrate(p)
  PROVE  MigrationInv'
<1>1. /\ Migratable(agg, p) /\ MigrationHappens(p)
      /\ receipts' = receipts /\ prepared' = prepared
  BY DEF Migrate
<1>2. /\ Wellformed(agg') /\ Accounted(agg', consumed', disposed')
      /\ Recorded(agg', produced') /\ Audited(agg', audits')
      /\ Joins(audits, AuditRecords(agg, p), audits')
  BY <1>1, HappensInvariant
<1>3. Receipted(receipts', audits')
  BY <1>1, <1>2, ReceiptedLonger DEF MigrationInv
<1>4. PreparedSound'
  BY <1>1 DEF MigrationInv, PreparedSound
<1> QED
  BY <1>2, <1>3, <1>4 DEF MigrationInv

LEMMA CommitsOnlyNew ==
  ASSUME NEW q, Answer(q) = "committed"
  PROVE  q.source = agg /\ ReceiptOf(q) = {} /\ Migratable(agg, q.plan)
BY DEF Answer, Canonical

LEMMA MaintainInvariant ==
  ASSUME MigrationInv, NEW o \in Operations, Maintain(o)
  PROVE  MigrationInv' /\ Len(receipts') > Len(receipts)
<1> DEFINE q == prepared[o]
           p == q.plan
           x == AuditRecords(agg, p)
           c == NewReceipt(q)
<1>1. /\ q # NotPrepared /\ Answer(q) = "committed" /\ MigrationHappens(p)
      /\ receipts' = Append(receipts, c) /\ prepared' = prepared
  BY DEF Maintain
<1>2. p \in Plans
  BY <1>1 DEF MigrationInv, PreparedSound
<1>3. q.source = agg /\ ReceiptOf(q) = {} /\ Migratable(agg, p)
  BY <1>1, CommitsOnlyNew
<1>4. /\ Wellformed(agg') /\ Accounted(agg', consumed', disposed')
      /\ Recorded(agg', produced') /\ Audited(agg', audits')
      /\ Joins(audits, x, audits')
  BY <1>1, <1>2, <1>3, HappensInvariant
<1>5. /\ c.op = q.op /\ c.content = Content(q)
      /\ c.sequences = {e.sequence : e \in Elements(x)}
  BY DEF NewReceipt
<1>6. DOMAIN receipts = 1..Len(receipts)
  BY DEF MigrationInv, Receipted, IsSequence
<1>7. \A i \in 1..Len(receipts) : receipts[i].op # c.op
  BY <1>3, <1>5, <1>6 DEF ReceiptOf
<1>8. agg.migrations \in Nat /\ Audited(agg, audits) /\ Receipted(receipts, audits)
  BY WellformedParts DEF MigrationInv
<1>9. RouteExact(agg.definition, p.route, p.target)
  BY <1>3 DEF Migratable
<1>10. ReceiptSound(c, audits') /\ c.sequences \cap (1..Len(audits)) = {}
  BY <1>2, <1>3, <1>4, <1>5, <1>8, <1>9, NewReceiptSound
<1> HIDE DEF c
<1>11. /\ Receipted(Append(receipts, c), audits')
       /\ Len(Append(receipts, c)) = Len(receipts) + 1 /\ Len(receipts) \in Nat
  BY <1>4, <1>7, <1>8, <1>10, ReceiptedMore
<1>12. PreparedSound'
  BY <1>1 DEF MigrationInv, PreparedSound
<1> QED
  BY <1>1, <1>4, <1>11, <1>12 DEF MigrationInv

LEMMA PrepareInvariant ==
  ASSUME MigrationInv, NEW o \in Operations, NEW p \in Plans, Prepare(o, p)
  PROVE  MigrationInv'
<1>1. /\ UNCHANGED <<agg, consumed, disposed, produced, receipts, audits>>
      /\ prepared' = [prepared EXCEPT ![o] =
                        [op |-> o, plan |-> p, source |-> agg, held |-> Len(receipts)]]
  BY DEF Prepare, aggregateVars
<1>2. PreparedSound'
  <2>1. DOMAIN prepared' = Operations
    BY <1>1 DEF MigrationInv, PreparedSound
  <2>2. \A q \in Operations : prepared'[q] = prepared[q] \/ prepared'[q].plan = p
    BY <1>1 DEF MigrationInv, PreparedSound
  <2> QED
    BY <2>1, <2>2 DEF MigrationInv, PreparedSound
<1> QED
  BY <1>1, <1>2 DEF MigrationInv

LEMMA MigrationStep ==
  ASSUME MigrationInv, [MigrationNext]_migrationVars
  PROVE  MigrationInv'
<1>1. CASE UNCHANGED migrationVars
  <2>1. UNCHANGED <<agg, consumed, disposed, produced, receipts, audits, prepared>>
    BY <1>1 DEF migrationVars, aggregateVars, checkpointVars
  <2> QED
    BY <2>1 DEF MigrationInv, PreparedSound
<1>2. ASSUME NEW batch \in Batches, Accept(batch) PROVE MigrationInv'
  BY <1>2, AcceptInvariant
<1>3. ASSUME NEW r \in Runtimes, Work(r) PROVE MigrationInv'
  BY <1>3, StepInvariant
<1>4. ASSUME NEW p \in Plans, Migrate(p) PROVE MigrationInv'
  BY <1>4, MigrateInvariant
<1>5. ASSUME NEW o \in Operations, NEW p \in Plans, Prepare(o, p) PROVE MigrationInv'
  BY <1>5, PrepareInvariant
<1>6. ASSUME NEW o \in Operations, Maintain(o) PROVE MigrationInv'
  BY <1>6, MaintainInvariant
<1> QED
  BY <1>1, <1>2, <1>3, <1>4, <1>5, <1>6 DEF MigrationNext

(* The inductive invariant holds in every state.                             *)
THEOREM MigrationInvariant == MigrationSpec => []MigrationInv
<1>1. MigrationInit => MigrationInv
  BY MigrationInitial
<1>2. MigrationInv /\ [MigrationNext]_migrationVars => MigrationInv'
  BY MigrationStep
<1> QED
  BY <1>1, <1>2, PTL DEF MigrationSpec

-----------------------------------------------------------------------------
(* What the invariant says.                                                  *)
LEMMA BoxesAre ==
  Boxes = Kinds \X Runtimes
BY DEF Boxes, Kinds

(* An entry is in one place of one mailbox.                                  *)
LEMMA OneSpot ==
  ASSUME NEW a, NEW n, Sound(a, n), NEW k \in Kinds, NEW l \in Kinds,
         NEW r \in Runtimes, NEW q \in Runtimes,
         NEW i \in 1..Len(a[k][r]), NEW j \in 1..Len(a[l][q]),
         a[k][r][i].accepted = a[l][q][j].accepted
  PROVE  k = l /\ r = q /\ i = j
<1>1. a[k][r][i] \in Elements(a[k][r]) /\ a[l][q][j] \in Elements(a[l][q])
  BY DEF Elements
<1>2. k = l /\ r = q /\ a[k][r][i] = a[l][q][j]
  BY <1>1 DEF Sound, Apart
<1>3. Ascending(a[k][r]) /\ IsSequence(a[k][r]) /\ EntrySound(a, a[k][r][i], n)
  BY <1>1 DEF Sound, BoxesSound
<1>4. a[k][r][i].queue \in Int
  BY <1>3 DEF EntrySound
<1> DEFINE s == a[k][r]
<1>5. i \in 1..Len(s) /\ j \in 1..Len(s) /\ s[i] = s[j] /\ s[i].queue \in Int
  BY <1>2, <1>4
<1>6. i < j => s[i].queue < s[j].queue
  BY <1>3, <1>5 DEF Ascending
<1>7. j < i => s[j].queue < s[i].queue
  BY <1>3, <1>5 DEF Ascending
<1> HIDE DEF s
<1>8. i = j
  BY <1>5, <1>6, <1>7
<1> QED
  BY <1>2, <1>8

LEMMA AccountedHolds ==
  MigrationInv => EveryEventAccounted
<1> SUFFICES ASSUME MigrationInv PROVE EveryEventAccounted
  OBVIOUS
<1>1. Accounted(agg, consumed, disposed) /\ Sound(agg, agg.nextStep)
  BY DEF MigrationInv, Wellformed
<1>2. ASSUME NEW s \in Spots
      PROVE  \E k \in Kinds, r \in Runtimes : \E i \in 1..Len(agg[k][r]) : s = <<k, r, i>>
  BY BoxesAre DEF Spots
<1>3. ASSUME NEW s \in Spots, NEW t \in Spots, NumberAt(s) = NumberAt(t)
      PROVE  s = t
  <2>1. PICK k \in Kinds, r \in Runtimes : \E i \in 1..Len(agg[k][r]) : s = <<k, r, i>>
    BY <1>2
  <2>2. PICK i \in 1..Len(agg[k][r]) : s = <<k, r, i>>
    BY <2>1
  <2>3. PICK l \in Kinds, q \in Runtimes : \E j \in 1..Len(agg[l][q]) : t = <<l, q, j>>
    BY <1>2
  <2>4. PICK j \in 1..Len(agg[l][q]) : t = <<l, q, j>>
    BY <2>3
  <2>5. NumberAt(s) = agg[k][r][i].accepted /\ NumberAt(t) = agg[l][q][j].accepted
    BY <2>2, <2>4 DEF NumberAt
  <2>6. agg[k][r][i].accepted = agg[l][q][j].accepted
    BY <1>3, <2>5
  <2>7. k = l /\ r = q /\ i = j
    BY ONLY <1>1, <2>6, OneSpot
  <2> QED
    BY <2>2, <2>4, <2>7
<1> QED
  BY <1>1, <1>3 DEF Accounted, EveryEventAccounted

LEMMA ValidHolds ==
  MigrationInv => EveryResultValid
<1> SUFFICES ASSUME MigrationInv PROVE EveryResultValid
  OBVIOUS
<1>1. /\ Wellformed(agg) /\ Shape(agg) /\ BoxesSound(agg, agg.nextStep) /\ Apart(agg) /\ Quiet(agg)
      /\ DeferralSound(agg) /\ AllDeclared(agg)
  BY DEF MigrationInv, Wellformed, Sound
<1>2. \A r \in Runtimes : agg.ready[r] = agg["ready"][r] /\ agg.deferred[r] = agg["deferred"][r]
  OBVIOUS
<1>3. ASSUME NEW r \in Runtimes, agg.status[r] \in Gone
      PROVE  agg.ready[r] = <<>> /\ agg.deferred[r] = <<>>
  <2>1. Elements(agg.ready[r]) = {} /\ Elements(agg.deferred[r]) = {}
    BY <1>1, <1>3 DEF Quiet
  <2>2. IsSequence(agg.ready[r]) /\ IsSequence(agg.deferred[r])
    BY <1>1 DEF BoxesSound, Kinds
  <2> QED
    BY <2>1, <2>2, EmptyBox
<1>4. HeldForAReason
  <2>1. \A r \in Runtimes :
          /\ \A e \in Elements(agg.deferred[r]) : Defers(Leaf(agg, r), e.event)
          /\ Len(agg.deferred[r]) <= Capacity[agg.definition]
    BY <1>1 DEF DeferralSound
  <2>2. \A r \in Runtimes :
          agg.status[r] \in {"completed", "absent"} => agg.ready[r] = <<>> /\ agg.deferred[r] = <<>>
    BY <1>3 DEF Gone
  <2>3. \A e \in Retained(agg) : e.event \in Declared(agg.definition, e.mode)
    BY <1>1 DEF AllDeclared
  <2> QED
    BY <2>1, <2>2, <2>3 DEF HeldForAReason
<1>5. AggregateValid(agg)
  <2>1. ASSUME NEW e \in Retained(agg), NEW f \in Retained(agg), e # f
        PROVE  e.queue # f.queue /\ e.id # f.id /\ e.accepted # f.accepted
    <3>1. PICK k \in Kinds, r \in Runtimes : e \in Elements(agg[k][r])
      BY RetainedIn
    <3>2. PICK l \in Kinds, q \in Runtimes : f \in Elements(agg[l][q])
      BY RetainedIn
    <3> QED
      BY <1>1, <2>1, <3>1, <3>2 DEF Apart
  <2>2. ASSUME NEW e \in Retained(agg)
        PROVE  e.queue < agg.nextQueue /\ e.accepted < agg.nextAcceptance
    <3>1. PICK k \in Kinds, r \in Runtimes : e \in Elements(agg[k][r])
      BY RetainedIn
    <3>2. EntrySound(agg, e, agg.nextStep)
      BY <1>1, <3>1 DEF BoxesSound
    <3> QED
      BY <1>1, <3>2 DEF EntrySound, Shape
  <2>3. ASSUME NEW m \in Mailboxes(agg), NEW i \in DOMAIN m, NEW j \in DOMAIN m, i < j
        PROVE  m[i].queue < m[j].queue
    <3>1. PICK k \in Kinds, r \in Runtimes : m = agg[k][r]
      BY <1>2 DEF Mailboxes, Kinds
    <3>2. IsSequence(m) /\ Ascending(m)
      BY <1>1, <3>1 DEF BoxesSound
    <3>3. DOMAIN m = 1..Len(m)
      BY <3>2 DEF IsSequence
    <3> QED
      BY <2>3, <3>2, <3>3 DEF Ascending
  <2>4. \A r \in Runtimes :
          agg.status[r] = "completed" => agg.ready[r] = <<>> /\ agg.deferred[r] = <<>>
    BY <1>3 DEF Gone
  <2> QED
    BY <2>1, <2>2, <2>3, <2>4 DEF AggregateValid
<1>6. ASSUME NEW r \in Runtimes, Runnable(agg, r), NEW o \in Outcomes(agg, r)
      PROVE  StepResultValid(o)
  BY <1>1, <1>6, StepSound DEF OutcomeSound
<1> QED
  BY <1>4, <1>5, <1>6 DEF EveryResultValid

LEMMA IdentitiesHold ==
  MigrationInv => IdentitiesNeverReused
BY DEF MigrationInv, Recorded, IdentitiesNeverReused

LEMMA TrailHolds ==
  MigrationInv => AuditTrail
<1> SUFFICES ASSUME MigrationInv PROVE AuditTrail
  OBVIOUS
<1>1. Audited(agg, audits) /\ Receipted(receipts, audits)
  BY DEF MigrationInv
<1>2. ReceiptsValid
  BY <1>1, ReceiptsPass
<1>3. DOMAIN audits = 1..Len(audits) /\ Len(audits) \in Nat
  BY <1>1 DEF Audited, IsSequence
<1>4. audits # <<>> => Len(audits) # 0
  <2>1. Len(audits) = 0 => Elements(audits) = {}
    BY DEF Elements
  <2> QED
    BY <1>1, <2>1, EmptyBox DEF Audited
<1>5. audits # <<>> => Last(audits).to = agg.definition
  BY <1>1, <1>4 DEF Audited, Last
<1> QED
  BY <1>1, <1>2, <1>3, <1>5 DEF Audited, AuditTrail

(* Every event that a host or a machine got accepted is in exactly one place:  *)
(* in one place of one mailbox, taken by one step, or disposed of with the     *)
(* runtime or the definition that had a use for it; whatever the definitions,  *)
(* their capacities, the requests and the routes of the migrations are.        *)
THEOREM EventsAccounted == MigrationSpec => []EveryEventAccounted
BY MigrationInvariant, AccountedHolds, PTL

(* Every aggregate that is stored and every result of a step passes the       *)
(* validator, and what is held back is held back by the active state, within  *)
(* capacity, and declared by the current definition.                         *)
THEOREM ResultsValid == MigrationSpec => []EveryResultValid
BY MigrationInvariant, ValidHolds, PTL

(* No two events that a machine sends get the same identity or number, also    *)
(* when a step that faulted took back what it sent.                          *)
THEOREM IdentitiesFresh == MigrationSpec => []IdentitiesNeverReused
BY MigrationInvariant, IdentitiesHold, PTL

(* The audit records are a gapless chain of definitions up to the current one, *)
(* and every maintenance receipt names records of its own that lead from its   *)
(* source to its target.                                                     *)
THEOREM TrailComplete == MigrationSpec => []AuditTrail
BY MigrationInvariant, TrailHolds, PTL

LEMMA BatchNotEmpty ==
  ASSUME NEW a, NEW batch \in Batches, Admissible(a, batch)
  PROVE  Running(a, "root")
<1>1. PICK n \in 1..MaxBatch : batch \in [1..n -> Requests]
  BY DEF Batches
<1>2. n \in Nat /\ n >= 1
  BY BatchAssumption
<1>3. batch \in Seq(Requests)
  BY <1>1, <1>2, IsASeq
<1>4. Len(batch) = n
  BY <1>1, <1>2, <1>3, LenProperties
<1>5. 1 \in 1..Len(batch)
  BY <1>2, <1>4
<1>6. ContractHolds(a, batch[1])
  BY <1>5 DEF Admissible
<1> QED
  BY <1>6 DEF ContractHolds, TargetAccepts

FrozenStep ==
  ~Running(agg, "root") =>
    /\ UNCHANGED <<consumed, produced>>
    /\ agg'.status = agg.status /\ agg'.nextAcceptance = agg.nextAcceptance
    /\ agg' # agg => Len(receipts') > Len(receipts)

LEMMA FrozenNext ==
  ASSUME MigrationInv, MigrationNext
  PROVE  FrozenStep
<1> SUFFICES ASSUME ~Running(agg, "root")
             PROVE  /\ UNCHANGED <<consumed, produced>>
                    /\ agg'.status = agg.status /\ agg'.nextAcceptance = agg.nextAcceptance
                    /\ agg' # agg => Len(receipts') > Len(receipts)
  BY DEF FrozenStep
<1>1. \A batch \in Batches : ~Accept(batch)
  BY BatchNotEmpty DEF Accept, Admit
<1>2. \A r \in Runtimes : ~Work(r)
  BY DEF Work, Step, Runnable
<1>3. \A p \in Plans : ~Migrate(p)
  BY DEF Migrate, Migratable, TerminalAllowed
<1>4. ASSUME NEW o \in Operations, NEW p \in Plans, Prepare(o, p)
      PROVE  agg' = agg /\ UNCHANGED <<consumed, produced>>
  BY <1>4 DEF Prepare, aggregateVars
<1>5. ASSUME NEW o \in Operations, Maintain(o)
      PROVE  /\ UNCHANGED <<consumed, produced>>
             /\ agg'.status = agg.status /\ agg'.nextAcceptance = agg.nextAcceptance
             /\ Len(receipts') > Len(receipts)
  <2> DEFINE q == prepared[o]
             p == q.plan
  <2>1. q # NotPrepared /\ Answer(q) = "committed" /\ MigrationHappens(p)
    BY <1>5 DEF Maintain
  <2>2. p \in Plans
    BY <2>1 DEF MigrationInv, PreparedSound
  <2>3. Migratable(agg, p)
    BY <2>1, CommitsOnlyNew
  <2>4. agg' = Migrated(agg, p) /\ UNCHANGED <<consumed, produced>>
    BY <2>1 DEF MigrationHappens
  <2>5. Wellformed(agg)
    BY DEF MigrationInv
  <2> HIDE DEF p
  <2>6. agg'.status = agg.status /\ agg'.nextAcceptance = agg.nextAcceptance
    BY <2>2, <2>3, <2>4, <2>5, MigrateSound
  <2>7. Len(receipts') > Len(receipts)
    BY <1>5, MaintainInvariant
  <2> QED
    BY <2>4, <2>6, <2>7
<1> QED
  BY <1>1, <1>2, <1>3, <1>4, <1>5 DEF MigrationNext

(* Once the root completed or faulted nothing is accepted, taken or sent and no *)
(* runtime changes; only a maintenance migration changes the aggregate, and it *)
(* leaves a receipt.                                                         *)
THEOREM RootEndsForGood == MigrationSpec => TerminalFrozen
<1>1. MigrationInv /\ [MigrationNext]_migrationVars => [FrozenStep]_migrationVars
  BY FrozenNext
<1>2. MigrationSpec => [][FrozenStep]_migrationVars
  BY <1>1, MigrationInvariant, PTL DEF MigrationSpec
<1> QED
  BY <1>2 DEF TerminalFrozen, FrozenStep

=============================================================================
