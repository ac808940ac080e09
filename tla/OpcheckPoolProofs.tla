-------------------------- MODULE OpcheckPoolProofs --------------------------
(***************************************************************************)
(* Theorems on the operator check, for every set of cases and every number *)
(* of processes, and of those that die.                                    *)
(***************************************************************************)
EXTENDS OpcheckPool, SequenceTheorems, FiniteSetTheorems, TLAPS

Pooled == main \in {"spawn", "join", "collect"}

HeldCases == {c \in added : \E w \in Workers : held[w] = c}

(* The parts of EachCaseOnce, with the three sequences apart.              *)
Apart ==
    /\ IsInjective(caseQueue) /\ IsInjective(resultQueue) /\ IsInjective(results)
    /\ Range(caseQueue) \cap Range(resultQueue) = {}
    /\ Range(caseQueue) \cap Range(results) = {}
    /\ Range(resultQueue) \cap Range(results) = {}

Places == Range(caseQueue) \cup Range(resultQueue) \cup Range(results)

Placed ==
    /\ Apart
    /\ Places \cap raised = {}
    /\ \A w \in Workers : held[w] # NoCase =>
         /\ held[w] \notin Places \cup raised
         /\ \A v \in Workers : held[v] = held[w] => v = w
    /\ added = Places \cup raised \cup HeldCases

(* Before the queue is filled nothing has a case.                          *)
Fresh ==
    main = "start" =>
        /\ \A w \in Workers : pc[w] = "new" /\ held[w] = NoCase
        /\ caseQueue = << >> /\ resultQueue = << >> /\ results = << >>
        /\ raised = {}

(* A process has a case when it runs one or has died running one.          *)
HeldWhenRun == \A w \in Workers : pc[w] \notin {"run", "dead"} => held[w] = NoCase

RunsOne == \A w \in Workers : pc[w] = "run" => held[w] # NoCase

(* A process that ends has seen the queue empty, and nothing fills it.     *)
EndedOnEmpty == \A w \in Workers : pc[w] = "ended" => caseQueue = << >>

(* Main has not started the processes from next on; then it has waited for *)
(* those before next, and for all when it collects.                        *)
JoinedBefore ==
    /\ main = "spawn" => \A w \in next..jobs : pc[w] = "new"
    /\ main = "join" => \A w \in 1..next - 1 : pc[w] \in {"ended", "dead"}
    /\ main = "collect" => \A w \in Workers : pc[w] \in {"ended", "dead"}

(* What report lacks when it is written.                                   *)
Lost(c) ==
    \/ c \in raised
    \/ \E w \in Workers : pc[w] = "dead" /\ held[w] = c
    \/ c \in Range(caseQueue) /\ \A w \in Workers : pc[w] = "dead"

Quiet == \A w \in Workers : pc[w] \in {"new", "ended", "dead"}

Written ==
    /\ main \in {"append", "done", "failed"} => Quiet
    /\ main \in {"append", "done"} => IsInjective(report)
    /\ main = "append" =>
         /\ report \in Seq(added)
         /\ \A c \in added \ Range(report) : Lost(c)
    /\ main = "done" => \A c \in Cases \ Range(report) : Lost(c)

IInv ==
    /\ TypeOK
    /\ Pooled => Placed
    /\ Fresh /\ HeldWhenRun /\ RunsOne /\ EndedOnEmpty /\ JoinedBefore /\ Written

-------------------------------------------------------------------------------
(* Sequences without duplicates                                            *)

LEMMA SeqFacts ==
  ASSUME NEW S, NEW s \in Seq(S)
  PROVE  /\ DOMAIN s = 1..Len(s) /\ Len(s) \in Nat
         /\ \A i \in DOMAIN s : s[i] \in S /\ s[i] \in Range(s)
         /\ \A e \in Range(s) : \E i \in DOMAIN s : s[i] = e
         /\ Range(s) \subseteq S
  BY LenProperties, RangeOfSeq DEF Range

LEMMA ConcatInjective ==
  ASSUME NEW S, NEW s \in Seq(S), NEW t \in Seq(S)
  PROVE  IsInjective(s \o t) <=>
           IsInjective(s) /\ IsInjective(t) /\ Range(s) \cap Range(t) = {}
<1> DEFINE u == s \o t
           m == Len(s)
           n == Len(t)
<1>1. m \in Nat /\ n \in Nat /\ DOMAIN s = 1..m /\ DOMAIN t = 1..n
  BY SeqFacts
<1>2. /\ u \in Seq(S) /\ Len(u) = m + n
      /\ \A i \in 1..m + n : u[i] = IF i <= m THEN s[i] ELSE t[i - m]
  BY ConcatProperties
<1>3. DOMAIN u = 1..m + n
  BY <1>2, SeqFacts
<1>4. /\ \A i \in 1..m : i \in DOMAIN u /\ u[i] = s[i]
      /\ \A i \in 1..n : i + m \in DOMAIN u /\ u[i + m] = t[i]
  BY <1>1, <1>2, <1>3
<1> HIDE DEF u
<1>5. ASSUME IsInjective(u)
      PROVE  IsInjective(s) /\ IsInjective(t) /\ Range(s) \cap Range(t) = {}
  <2>1. IsInjective(s)
    BY <1>1, <1>4, <1>5 DEF IsInjective
  <2>2. IsInjective(t)
    <3> SUFFICES ASSUME NEW i \in 1..n, NEW j \in 1..n, t[i] = t[j] PROVE i = j
      BY <1>1 DEF IsInjective
    <3>1. i + m = j + m
      BY <1>4, <1>5 DEF IsInjective
    <3> QED
      BY <1>1, <3>1
  <2>3. ASSUME NEW e \in Range(s) \cap Range(t) PROVE FALSE
    <3>1. PICK i \in 1..m : s[i] = e
      BY <1>1, SeqFacts
    <3>2. PICK j \in 1..n : t[j] = e
      BY <1>1, SeqFacts
    <3>3. i = j + m
      BY <1>4, <1>5, <3>1, <3>2 DEF IsInjective
    <3> QED
      BY <1>1, <3>3
  <2> QED
    BY <2>1, <2>2, <2>3
<1>6. ASSUME IsInjective(s), IsInjective(t), Range(s) \cap Range(t) = {}
      PROVE  IsInjective(u)
  <2> SUFFICES ASSUME NEW i \in 1..m + n, NEW j \in 1..m + n, u[i] = u[j], i <= j PROVE i = j
    BY <1>1, <1>3 DEF IsInjective
  <2>1. CASE j <= m
    <3>1. i \in 1..m /\ j \in 1..m
      BY <1>1, <2>1
    <3> QED
      BY <1>1, <1>4, <1>6, <3>1 DEF IsInjective
  <2>2. CASE i > m
    <3>1. i - m \in 1..n /\ j - m \in 1..n /\ u[i] = t[i - m] /\ u[j] = t[j - m]
      BY <1>1, <1>2, <2>2 DEF u
    <3>2. i - m = j - m
      BY <1>1, <1>6, <3>1 DEF IsInjective
    <3> QED
      BY <1>1, <3>2
  <2>3. CASE i <= m /\ j > m
    <3>1. i \in 1..m /\ u[i] = s[i]
      BY <1>1, <1>4, <2>3
    <3>2. j - m \in 1..n /\ u[j] = t[j - m]
      BY <1>1, <1>2, <2>3 DEF u
    <3>3. s[i] \in Range(s) /\ t[j - m] \in Range(t)
      BY <1>1, <3>1, <3>2, SeqFacts
    <3> QED
      BY <1>6, <3>1, <3>2, <3>3
  <2> QED
    BY <1>1, <2>1, <2>2, <2>3
<1> QED
  BY <1>5, <1>6 DEF u

LEMMA SingleInjective ==
  ASSUME NEW S, NEW e \in S
  PROVE  <<e>> \in Seq(S) /\ Len(<<e>>) = 1 /\ Range(<<e>>) = {e} /\ IsInjective(<<e>>)
<1>1. <<e>> \in Seq(S) /\ Len(<<e>>) = 1
  OBVIOUS
<1>2. DOMAIN <<e>> = {1} /\ <<e>>[1] = e
  OBVIOUS
<1>3. Range(<<e>>) = {e}
  BY <1>2 DEF Range
<1>4. IsInjective(<<e>>)
  BY <1>2, Zenon DEF IsInjective
<1> QED
  BY <1>1, <1>3, <1>4

LEMMA HeadThenTail ==
  ASSUME NEW S, NEW s \in Seq(S), s # << >>
  PROVE  s = <<Head(s)>> \o Tail(s)
<1>1. /\ Head(s) \in S /\ Tail(s) \in Seq(S) /\ Len(Tail(s)) = Len(s) - 1
      /\ \A i \in 1..Len(Tail(s)) : Tail(s)[i] = s[i + 1]
      /\ Head(s) = s[1] /\ Len(s) \in Nat
  BY HeadTailProperties, LenProperties
<1>2. <<Head(s)>> \in Seq(S) /\ Len(<<Head(s)>>) = 1 /\ <<Head(s)>>[1] = s[1]
  BY <1>1
<1> DEFINE h == <<Head(s)>>
           u == h \o Tail(s)
<1>3. /\ u \in Seq(S) /\ Len(u) = 1 + Len(Tail(s))
      /\ \A i \in 1..1 + Len(Tail(s)) : u[i] = IF i <= 1 THEN h[i] ELSE Tail(s)[i - 1]
  BY <1>1, <1>2, ConcatProperties
<1> HIDE DEF h, u
<1>4. ASSUME NEW i \in 1..Len(u) PROVE u[i] = s[i]
  <2>1. CASE i = 1
    BY <1>1, <1>2, <1>3, <2>1 DEF h
  <2>2. CASE i > 1
    <3>1. i - 1 \in 1..Len(Tail(s)) /\ i - 1 + 1 = i
      BY <1>1, <1>3, <2>2
    <3>2. u[i] = Tail(s)[i - 1]
      BY <1>1, <1>3, <2>2
    <3> QED
      BY <1>1, <3>1, <3>2
  <2> QED
    BY <1>1, <1>3, <2>1, <2>2
<1>5. Len(u) = Len(s)
  BY <1>1, <1>3
<1>6. u = s
  BY <1>3, <1>4, <1>5, SeqEqual
<1> QED
  BY <1>6 DEF u, h

LEMMA TailInjective ==
  ASSUME NEW S, NEW s \in Seq(S), s # << >>
  PROVE  /\ Head(s) \in S /\ Tail(s) \in Seq(S)
         /\ Range(s) = {Head(s)} \cup Range(Tail(s))
         /\ IsInjective(s) => IsInjective(Tail(s)) /\ Head(s) \notin Range(Tail(s))
<1>1. Head(s) \in S /\ Tail(s) \in Seq(S)
  BY HeadTailProperties
<1> DEFINE h == <<Head(s)>>
           t == Tail(s)
<1>2. h \in Seq(S) /\ t \in Seq(S) /\ Range(h) = {Head(s)}
  BY <1>1, SingleInjective
<1>3. s = h \o t
  BY HeadThenTail
<1> HIDE DEF h, t
<1>4. Range(h \o t) = Range(h) \cup Range(t)
  BY <1>1, <1>2, RangeConcatenation
<1>5. IsInjective(h \o t) => IsInjective(t) /\ Range(h) \cap Range(t) = {}
  BY <1>2, ConcatInjective
<1>6. Range(s) = {Head(s)} \cup Range(t)
  BY <1>2, <1>3, <1>4
<1>7. IsInjective(s) => IsInjective(t) /\ Head(s) \notin Range(t)
  BY <1>2, <1>3, <1>5
<1> QED
  BY <1>1, <1>6, <1>7 DEF t

LEMMA AppendIsInjective ==
  ASSUME NEW S, NEW s \in Seq(S), NEW e \in S
  PROVE  /\ Append(s, e) \in Seq(S)
         /\ Range(Append(s, e)) = Range(s) \cup {e}
         /\ IsInjective(s) /\ e \notin Range(s) => IsInjective(Append(s, e))
<1>1. Append(s, e) = s \o <<e>>
  BY AppendIsConcat
<1>2. Append(s, e) \in Seq(S)
  BY AppendProperties
<1> DEFINE t == <<e>>
           a == Append(s, e)
<1>3. t \in Seq(S) /\ Range(t) = {e} /\ IsInjective(t)
  BY SingleInjective
<1>4. a = s \o t
  BY <1>1
<1> HIDE DEF t, a
<1>5. Range(s \o t) = Range(s) \cup Range(t)
  BY <1>3, RangeConcatenation
<1>6. IsInjective(s) /\ Range(s) \cap Range(t) = {} => IsInjective(s \o t)
  BY <1>3, ConcatInjective
<1>7. Range(a) = Range(s) \cup {e}
  BY <1>3, <1>4, <1>5
<1>8. IsInjective(s) /\ e \notin Range(s) => IsInjective(a)
  BY <1>3, <1>4, <1>6
<1> QED
  BY <1>2, <1>7, <1>8 DEF a

LEMMA EmptyInjective == Range(<< >>) = {} /\ IsInjective(<< >>)
  BY DEF Range, IsInjective

LEMMA OrdersAreComplete ==
  ASSUME NEW S, IsFiniteSet(S), NEW s \in Orders(S)
  PROVE  s \in Seq(S) /\ IsInjective(s) /\ Range(s) = S
<1>1. Cardinality(S) \in Nat
  BY FS_CardinalityType
<1>2. /\ s \in [1..Cardinality(S) -> S] /\ IsInjective(s)
      /\ \A c \in S : \E i \in 1..Cardinality(S) : s[i] = c
  BY DEF Orders, Bijection, Injection, Surjection
<1>3. s \in Seq(S)
  BY <1>1, <1>2
<1>4. Range(s) = S
  BY <1>2 DEF Range
<1> QED
  BY <1>2, <1>3, <1>4

LEMMA AddedFinite == ASSUME TypeOK PROVE IsFiniteSet(added) /\ IsFiniteSet(Cases \ added)
  BY ConstantsAssumption, FS_Subset DEF TypeOK

LEMMA JobsType == ASSUME TypeOK PROVE jobs \in Nat \ {0} /\ 1 \in Workers
  BY ConstantsAssumption DEF TypeOK, Workers

-------------------------------------------------------------------------------
(* The sequences together are without duplicates when they are apart.      *)
LEMMA MovingParts ==
  ASSUME TypeOK
  PROVE  /\ IsInjective(Moving) <=> Apart
         /\ Range(Moving) = Places
<1>1. caseQueue \in Seq(added) /\ resultQueue \in Seq(added) /\ results \in Seq(added)
  BY DEF TypeOK
<1> DEFINE qs == caseQueue \o resultQueue
<1>2. qs \in Seq(added) /\ Range(qs) = Range(caseQueue) \cup Range(resultQueue)
  BY <1>1, ConcatProperties, RangeConcatenation
<1>3. IsInjective(qs) <=> /\ IsInjective(caseQueue) /\ IsInjective(resultQueue)
                          /\ Range(caseQueue) \cap Range(resultQueue) = {}
  BY <1>1, ConcatInjective
<1> HIDE DEF qs
<1>4. /\ IsInjective(qs \o results) <=> /\ IsInjective(qs) /\ IsInjective(results)
                                        /\ Range(qs) \cap Range(results) = {}
  BY <1>1, <1>2, ConcatInjective
<1>5. Range(qs \o results) = Range(qs) \cup Range(results)
  BY <1>1, <1>2, RangeConcatenation
<1>6. Moving = qs \o results
  BY DEF Moving, qs
<1>7. IsInjective(Moving) <=> Apart
  BY <1>2, <1>3, <1>4, <1>6 DEF Apart
<1>8. Range(Moving) = Places
  BY <1>2, <1>5, <1>6 DEF Places
<1> QED
  BY <1>7, <1>8

LEMMA NextType ==
  ASSUME TypeOK
  PROVE  jobs \in Nat \ {0} /\ next \in 1..jobs /\ \A w \in next..jobs : w \in Workers
  BY JobsType DEF TypeOK, Workers

LEMMA InitIInv == Init => IInv
<1> SUFFICES ASSUME Init PROVE IInv
  OBVIOUS
<1>1. /\ jobs \in Nat \ {0} /\ jobs \in Jobs /\ added \subseteq Cases
      /\ main = "start" /\ next = 1 /\ raised = {}
      /\ pc = [w \in Workers |-> "new"] /\ held = [w \in Workers |-> NoCase]
      /\ caseQueue = << >> /\ resultQueue = << >> /\ results = << >> /\ report = << >>
  BY ConstantsAssumption DEF Init
<1>2. TypeOK
  <2>1. rerun \in BOOLEAN
    BY DEF Init
  <2>2. next \in Workers
    BY <1>1 DEF Workers
  <2>3. /\ caseQueue \in Seq(added) /\ resultQueue \in Seq(added)
        /\ results \in Seq(added) /\ report \in Seq(Cases)
    BY <1>1, EmptySeq
  <2>4. /\ pc \in [Workers -> {"new", "empty", "get", "run", "ended", "dead"}]
        /\ held \in [Workers -> added \cup {NoCase}]
    BY <1>1
  <2> QED
    BY <1>1, <2>1, <2>2, <2>3, <2>4 DEF TypeOK
<1>3. Fresh
  BY <1>1 DEF Fresh
<1>4. HeldWhenRun /\ RunsOne /\ EndedOnEmpty
  BY <1>1 DEF HeldWhenRun, RunsOne, EndedOnEmpty
<1>5. JoinedBefore /\ Written /\ ~Pooled
  BY <1>1 DEF JoinedBefore, Written, Pooled
<1> QED
  BY <1>2, <1>3, <1>4, <1>5 DEF IInv

LEMMA SingleProcessIInv == ASSUME IInv, SingleProcess PROVE IInv'
<1>1. PICK order \in Orders(added) : report' = order
  BY DEF SingleProcess
<1>2. /\ main = "start" /\ main' = "append"
      /\ UNCHANGED <<jobs, rerun, added, next, pc, held, caseQueue, resultQueue, results, raised>>
  BY DEF SingleProcess, config, queues
<1>3. report' \in Seq(added) /\ IsInjective(report') /\ Range(report') = added
  BY <1>1, AddedFinite, OrdersAreComplete DEF IInv
<1>4. added \subseteq Cases
  BY DEF IInv, TypeOK
<1>5. report' \in Seq(Cases)
  BY <1>3, <1>4, SeqMonotonic
<1>6. TypeOK'
  BY <1>2, <1>5 DEF IInv, TypeOK, Workers
<1>7. ~Pooled' /\ Fresh' /\ HeldWhenRun' /\ RunsOne' /\ EndedOnEmpty' /\ JoinedBefore'
  BY <1>2 DEF IInv, Pooled, Fresh, HeldWhenRun, RunsOne, EndedOnEmpty, JoinedBefore, Workers
<1>8. Written'
  <2>1. Quiet'
    BY <1>2 DEF IInv, Fresh, Quiet, Workers
  <2> QED
    BY <1>2, <1>3, <2>1 DEF Written
<1> QED
  BY <1>6, <1>7, <1>8 DEF IInv

(* The queue takes every case that was added.                              *)
LEMMA FillQueueIInv == ASSUME IInv, FillQueue PROVE IInv'
<1>1. /\ main = "start" /\ main' = "spawn" /\ caseQueue' \in Orders(added)
      /\ UNCHANGED <<jobs, rerun, added, next, pc, held, resultQueue, results, report, raised>>
  BY DEF FillQueue, config
<1>2. caseQueue' \in Seq(added) /\ IsInjective(caseQueue') /\ Range(caseQueue') = added
  BY <1>1, AddedFinite, OrdersAreComplete DEF IInv
<1>3. /\ \A w \in Workers : pc[w] = "new" /\ held[w] = NoCase
      /\ resultQueue = << >> /\ results = << >> /\ raised = {}
  BY <1>1 DEF IInv, Fresh
<1>4. TypeOK'
  BY <1>1, <1>2 DEF IInv, TypeOK, Workers
<1>5. Places' = added /\ Range(resultQueue') = {} /\ Range(results') = {}
  BY <1>1, <1>2, <1>3, EmptyInjective DEF Places
<1>6. Placed'
  <2>1. Apart'
    BY <1>1, <1>2, <1>3, <1>5, EmptyInjective DEF Apart
  <2>2. \A w \in Workers' : held'[w] = NoCase
    BY <1>1, <1>3 DEF Workers
  <2>3. HeldCases' \subseteq added'
    BY DEF HeldCases
  <2> QED
    BY <1>1, <1>3, <1>5, <2>1, <2>2, <2>3 DEF Placed
<1>7. Fresh' /\ HeldWhenRun' /\ RunsOne' /\ EndedOnEmpty' /\ Written'
  BY <1>1, <1>3 DEF Fresh, HeldWhenRun, RunsOne, EndedOnEmpty, Written, Workers
<1>8. JoinedBefore'
  BY <1>1, <1>3, NextType DEF IInv, JoinedBefore
<1> QED
  BY <1>4, <1>6, <1>7, <1>8 DEF IInv

LEMMA StartProcessIInv == ASSUME IInv, StartProcess PROVE IInv'
<1>1. /\ main = "spawn"
      /\ pc' = [pc EXCEPT ![next] = "empty"]
      /\ next' = IF next = jobs THEN 1 ELSE next + 1
      /\ main' = IF next = jobs THEN "join" ELSE "spawn"
      /\ UNCHANGED <<jobs, rerun, added, held, caseQueue, resultQueue, results, report, raised>>
  BY DEF StartProcess, config, queues
<1>2. jobs \in Nat \ {0} /\ next \in 1..jobs /\ next \in Workers /\ Workers' = Workers
  BY <1>1, NextType DEF IInv, TypeOK, Workers
<1>3. pc \in [Workers -> {"new", "empty", "get", "run", "ended", "dead"}]
  BY DEF IInv, TypeOK
<1>4. TypeOK'
  <2>1. next' \in Workers /\ main' \in {"spawn", "join"}
    BY <1>1, <1>2 DEF Workers
  <2>2. pc' \in [Workers -> {"new", "empty", "get", "run", "ended", "dead"}]
    BY <1>1, <1>3
  <2> QED
    BY <1>1, <1>2, <2>1, <2>2 DEF IInv, TypeOK
<1>5. Pooled /\ Placed'
  BY <1>1, <1>2 DEF IInv, Pooled, Placed, Apart, Places, HeldCases
<1>6. pc[next] = "new"
  BY <1>1, <1>2 DEF IInv, JoinedBefore
<1>7. HeldWhenRun' /\ RunsOne' /\ EndedOnEmpty'
  BY <1>1, <1>2, <1>3, <1>6 DEF IInv, HeldWhenRun, RunsOne, EndedOnEmpty
<1>8. Fresh' /\ Written'
  BY <1>1 DEF Fresh, Written
<1>9. JoinedBefore'
  <2>1. CASE next = jobs
    BY <1>1, <2>1 DEF JoinedBefore
  <2>2. CASE next # jobs
    <3>1. \A w \in next + 1 .. jobs : w \in next..jobs /\ w # next /\ w \in Workers
      BY <1>2 DEF Workers
    <3> QED
      BY <1>1, <1>3, <2>2, <3>1 DEF IInv, JoinedBefore
  <2> QED
    BY <2>1, <2>2
<1> QED
  BY <1>4, <1>5, <1>7, <1>8, <1>9 DEF IInv

-------------------------------------------------------------------------------
(* A process works while main starts or joins processes, and main has not  *)
(* yet waited for it.                                                      *)
LEMMA WorkerStep ==
  ASSUME IInv, NEW w \in Workers, Alive(w),
         UNCHANGED <<jobs, rerun, added, main, next, report>>,
         \A v \in Workers \ {w} : pc'[v] = pc[v]
  PROVE  Pooled /\ Workers' = Workers /\ Fresh' /\ JoinedBefore' /\ Written'
<1>1. main \in {"spawn", "join"}
  BY DEF IInv, TypeOK, Alive, Fresh, JoinedBefore, Written, Quiet
<1>2. Workers' = Workers
  BY DEF Workers
<1>3. Fresh' /\ Written'
  BY <1>1 DEF Fresh, Written
<1>4. JoinedBefore'
  <2>1. \A v \in next..jobs : v \in Workers
    BY NextType DEF IInv
  <2>2. \A v \in 1..next - 1 : v \in Workers
    BY NextType DEF IInv, Workers
  <2> QED
    BY <1>1, <2>1, <2>2 DEF IInv, JoinedBefore, Alive
<1> QED
  BY <1>1, <1>2, <1>3, <1>4 DEF Pooled

(* Steps that only change where a process is.                              *)
LEMMA PcStep ==
  ASSUME IInv, NEW w \in Workers, Alive(w), NEW x \in {"empty", "get", "ended", "dead"},
         pc' = [pc EXCEPT ![w] = x],
         pc[w] = "run" => x = "dead",
         x = "ended" => caseQueue = << >>,
         UNCHANGED <<config, main, next, held, queues, results, report, raised>>
  PROVE  IInv'
<1>1. UNCHANGED <<jobs, rerun, added, main, next, held, caseQueue, resultQueue, results,
                  report, raised>>
  BY DEF config, queues
<1>2. pc \in [Workers -> {"new", "empty", "get", "run", "ended", "dead"}]
  BY DEF IInv, TypeOK
<1>3. Pooled /\ Workers' = Workers /\ Fresh' /\ JoinedBefore' /\ Written'
  BY <1>1, <1>2, WorkerStep
<1>4. TypeOK'
  BY <1>1, <1>2, <1>3 DEF IInv, TypeOK
<1>5. Placed'
  BY <1>1, <1>3 DEF IInv, Placed, Apart, Places, HeldCases
<1>6. HeldWhenRun' /\ RunsOne' /\ EndedOnEmpty'
  BY <1>1, <1>2, <1>3 DEF IInv, HeldWhenRun, RunsOne, EndedOnEmpty, Alive
<1> QED
  BY <1>3, <1>4, <1>5, <1>6 DEF IInv

LEMMA LookForCaseIInv == ASSUME IInv, NEW w \in Workers, LookForCase(w) PROVE IInv'
<1>1. Alive(w) /\ pc[w] = "empty"
  BY DEF LookForCase, Alive
<1>2. CASE caseQueue = << >>
  BY <1>1, <1>2, PcStep DEF LookForCase
<1>3. CASE caseQueue # << >>
  BY <1>1, <1>3, PcStep DEF LookForCase
<1> QED
  BY <1>2, <1>3

LEMMA NothingLeftIInv == ASSUME IInv, NEW w \in Workers, NothingLeft(w) PROVE IInv'
  BY PcStep DEF NothingLeft, Alive

LEMMA DieIInv == ASSUME IInv, NEW w \in Workers, Die(w) PROVE IInv'
  BY PcStep DEF Die

(* The case goes from the queue to the process.                            *)
LEMMA TakeCaseIInv == ASSUME IInv, NEW w \in Workers, TakeCase(w) PROVE IInv'
<1> DEFINE c == Head(caseQueue)
<1>1. /\ pc[w] = "get" /\ caseQueue # << >>
      /\ held' = [held EXCEPT ![w] = c]
      /\ caseQueue' = Tail(caseQueue)
      /\ pc' = [pc EXCEPT ![w] = "run"]
      /\ UNCHANGED <<jobs, rerun, added, main, next, resultQueue, results, report, raised>>
  BY DEF TakeCase, Taken, config
<1>2. /\ pc \in [Workers -> {"new", "empty", "get", "run", "ended", "dead"}]
      /\ held \in [Workers -> added \cup {NoCase}]
      /\ caseQueue \in Seq(added)
  BY DEF IInv, TypeOK
<1>3. Pooled /\ Workers' = Workers /\ Fresh' /\ JoinedBefore' /\ Written'
  BY <1>1, <1>2, WorkerStep DEF Alive
<1>4. Placed
  BY <1>3 DEF IInv
<1>5. /\ c \in added /\ caseQueue' \in Seq(added) /\ IsInjective(caseQueue')
      /\ Range(caseQueue) = {c} \cup Range(caseQueue') /\ c \notin Range(caseQueue')
  BY <1>1, <1>2, <1>4, TailInjective DEF Placed, Apart
<1>6. c # NoCase
  BY <1>5, ConstantsAssumption DEF IInv, TypeOK
<1> HIDE DEF c
<1>7. held[w] = NoCase
  BY <1>1 DEF IInv, HeldWhenRun
<1>8. held'[w] = c /\ \A v \in Workers \ {w} : held'[v] = held[v]
  BY <1>1, <1>2
<1>9. TypeOK'
  BY <1>1, <1>2, <1>3, <1>5 DEF IInv, TypeOK
<1>10. Places = Places' \cup {c} /\ c \notin Places' /\ c \notin raised
  BY <1>1, <1>4, <1>5 DEF Placed, Apart, Places
<1>11. Placed'
  <2>1. Apart'
    BY <1>1, <1>4, <1>5 DEF Placed, Apart
  <2>2. Places' \cap raised' = {}
    BY <1>1, <1>4, <1>10 DEF Placed
  <2>3. \A v \in Workers : held[v] # c
    BY <1>4, <1>6, <1>10 DEF Placed
  <2>4. \A v \in Workers' : held'[v] # NoCase =>
          /\ held'[v] \notin Places' \cup raised'
          /\ \A u \in Workers' : held'[u] = held'[v] => u = v
    BY <1>1, <1>3, <1>4, <1>8, <1>10, <2>3 DEF Placed
  <2>5. HeldCases' = HeldCases \cup {c}
    BY <1>1, <1>3, <1>5, <1>7, <1>8, ConstantsAssumption DEF HeldCases, IInv, TypeOK
  <2> QED
    BY <1>1, <1>4, <1>10, <2>1, <2>2, <2>4, <2>5 DEF Placed
<1>12. HeldWhenRun' /\ RunsOne'
  BY <1>1, <1>2, <1>3, <1>6, <1>8 DEF IInv, HeldWhenRun, RunsOne
<1>13. EndedOnEmpty'
  BY <1>1, <1>2, <1>3 DEF IInv, EndedOnEmpty
<1> QED
  BY <1>3, <1>9, <1>11, <1>12, <1>13 DEF IInv

(* A process lets go of its case: into the queue of results, or lost.      *)
LEMMA ReleaseStep ==
  ASSUME IInv, NEW w \in Workers, pc[w] = "run",
         held' = [held EXCEPT ![w] = NoCase],
         pc' = [pc EXCEPT ![w] = "empty"],
         UNCHANGED <<jobs, rerun, added, main, next, caseQueue, results, report>>,
         \/ /\ resultQueue' = Append(resultQueue, held[w])
            /\ raised' = raised
         \/ /\ raised' = raised \cup {held[w]}
            /\ resultQueue' = resultQueue
  PROVE  IInv'
<1> DEFINE c == held[w]
<1>1. /\ pc \in [Workers -> {"new", "empty", "get", "run", "ended", "dead"}]
      /\ held \in [Workers -> added \cup {NoCase}]
      /\ resultQueue \in Seq(added) /\ raised \subseteq added
  BY DEF IInv, TypeOK
<1>2. Pooled /\ Workers' = Workers /\ Fresh' /\ JoinedBefore' /\ Written'
  BY <1>1, WorkerStep DEF Alive
<1>3. Placed
  BY <1>2 DEF IInv
<1>4. c # NoCase /\ c \in added
  BY <1>1 DEF IInv, RunsOne
<1>5. c \notin Places /\ c \notin raised /\ \A v \in Workers \ {w} : held[v] # c
  BY <1>3, <1>4 DEF Placed
<1>6. /\ IsInjective(resultQueue') /\ resultQueue' \in Seq(added) /\ raised' \subseteq added
      /\ \/ Range(resultQueue') = Range(resultQueue) \cup {c} /\ raised' = raised
         \/ Range(resultQueue') = Range(resultQueue) /\ raised' = raised \cup {c}
  <2>1. c \notin Range(resultQueue) /\ IsInjective(resultQueue)
    BY <1>3, <1>5 DEF Placed, Apart, Places
  <2>2. /\ Append(resultQueue, c) \in Seq(added) /\ IsInjective(Append(resultQueue, c))
        /\ Range(Append(resultQueue, c)) = Range(resultQueue) \cup {c}
    BY <1>1, <1>4, <2>1, AppendIsInjective
  <2>3. CASE resultQueue' = Append(resultQueue, c) /\ raised' = raised
    BY <1>1, <2>2, <2>3
  <2>4. CASE raised' = raised \cup {c} /\ resultQueue' = resultQueue
    BY <1>1, <1>4, <2>1, <2>4
  <2> QED
    BY <2>3, <2>4
<1>7. held'[w] = NoCase /\ \A v \in Workers \ {w} : held'[v] = held[v]
  BY <1>1
<1> HIDE DEF c
<1>8. TypeOK'
  BY <1>1, <1>2, <1>6 DEF IInv, TypeOK
<1>9. Placed'
  <2>1. Apart'
    BY <1>3, <1>5, <1>6 DEF Placed, Apart, Places
  <2>2. /\ Places' \cup raised' = Places \cup raised \cup {c}
        /\ Places' \cap raised' = {}
    BY <1>3, <1>5, <1>6 DEF Placed, Places
  <2>3. \A v \in Workers' : held'[v] # NoCase =>
          /\ held'[v] \notin Places' \cup raised'
          /\ \A u \in Workers' : held'[u] = held'[v] => u = v
    BY <1>2, <1>3, <1>5, <1>7, <2>2 DEF Placed
  <2>4. HeldCases' \cup {c} = HeldCases
    BY <1>2, <1>4, <1>5, <1>7, ConstantsAssumption DEF HeldCases, IInv, TypeOK, c
  <2> QED
    BY <1>3, <2>1, <2>2, <2>3, <2>4 DEF Placed
<1>10. HeldWhenRun' /\ RunsOne'
  BY <1>1, <1>2, <1>7 DEF IInv, HeldWhenRun, RunsOne
<1>11. EndedOnEmpty'
  BY <1>1, <1>2 DEF IInv, EndedOnEmpty
<1> QED
  BY <1>2, <1>8, <1>9, <1>10, <1>11 DEF IInv

LEMMA PutResultIInv == ASSUME IInv, NEW w \in Workers, PutResult(w) PROVE IInv'
  BY ReleaseStep DEF PutResult, config

LEMMA RaiseIInv == ASSUME IInv, NEW w \in Workers, Raise(w) PROVE IInv'
  BY ReleaseStep DEF Raise, config, queues

-------------------------------------------------------------------------------
(* Main                                                                    *)

LEMMA JoinIInv == ASSUME IInv, Join PROVE IInv'
<1>1. /\ main = "join" /\ pc[next] \in {"ended", "dead"}
      /\ next' = IF next = jobs THEN next ELSE next + 1
      /\ main' = IF next = jobs THEN "collect" ELSE "join"
      /\ UNCHANGED <<jobs, rerun, added, pc, held, caseQueue, resultQueue, results, report,
                     raised>>
  BY DEF Join, Joined, config, queues
<1>2. jobs \in Nat \ {0} /\ next \in 1..jobs /\ Workers' = Workers
  BY <1>1, NextType DEF IInv, Workers
<1>3. TypeOK'
  <2>1. next' \in Workers /\ main' \in {"join", "collect"}
    BY <1>1, <1>2 DEF Workers
  <2> QED
    BY <1>1, <1>2, <2>1 DEF IInv, TypeOK
<1>4. Placed'
  BY <1>1, <1>2 DEF IInv, Pooled, Placed, Apart, Places, HeldCases
<1>5. HeldWhenRun' /\ RunsOne' /\ EndedOnEmpty' /\ Fresh' /\ Written'
  BY <1>1, <1>2 DEF IInv, HeldWhenRun, RunsOne, EndedOnEmpty, Fresh, Written
<1>6. JoinedBefore'
  <2>1. \A w \in 1..next : pc[w] \in {"ended", "dead"}
    BY <1>1, <1>2 DEF IInv, JoinedBefore
  <2>2. CASE next = jobs
    BY <1>1, <1>2, <2>1, <2>2 DEF JoinedBefore, Workers
  <2>3. CASE next # jobs
    BY <1>1, <1>2, <2>1, <2>3 DEF JoinedBefore
  <2> QED
    BY <2>2, <2>3
<1> QED
  BY <1>3, <1>4, <1>5, <1>6 DEF IInv

LEMMA CollectResultIInv == ASSUME IInv, CollectResult PROVE IInv'
<1> DEFINE c == Head(resultQueue)
<1>1. /\ main = "collect" /\ resultQueue # << >>
      /\ results' = Append(results, c)
      /\ resultQueue' = Tail(resultQueue)
      /\ UNCHANGED <<jobs, rerun, added, main, next, pc, held, caseQueue, report, raised>>
  BY DEF CollectResult, config
<1>2. Placed /\ Pooled /\ Workers' = Workers
  BY <1>1 DEF IInv, Pooled, Workers
<1>3. resultQueue \in Seq(added) /\ results \in Seq(added)
  BY DEF IInv, TypeOK
<1>4. /\ c \in added /\ resultQueue' \in Seq(added) /\ IsInjective(resultQueue')
      /\ Range(resultQueue) = {c} \cup Range(resultQueue') /\ c \notin Range(resultQueue')
  BY <1>1, <1>2, <1>3, TailInjective DEF Placed, Apart
<1> HIDE DEF c
<1>5. c \notin Range(results) /\ c \notin Range(caseQueue) /\ IsInjective(results)
  BY <1>2, <1>4 DEF Placed, Apart
<1>6. /\ results' \in Seq(added) /\ IsInjective(results')
      /\ Range(results') = Range(results) \cup {c}
  BY <1>1, <1>3, <1>4, <1>5, AppendIsInjective
<1>7. TypeOK'
  BY <1>1, <1>2, <1>4, <1>6 DEF IInv, TypeOK
<1>8. Placed'
  <2>1. Apart'
    BY <1>1, <1>2, <1>4, <1>5, <1>6 DEF Placed, Apart
  <2>2. Places' = Places
    BY <1>1, <1>4, <1>6 DEF Places
  <2>3. HeldCases' = HeldCases
    BY <1>1, <1>2 DEF HeldCases
  <2> QED
    BY <1>1, <1>2, <2>1, <2>2, <2>3 DEF Placed
<1>9. HeldWhenRun' /\ RunsOne' /\ EndedOnEmpty' /\ Fresh' /\ Written' /\ JoinedBefore'
  BY <1>1, <1>2 DEF IInv, HeldWhenRun, RunsOne, EndedOnEmpty, Fresh, Written, JoinedBefore
<1> QED
  BY <1>7, <1>8, <1>9 DEF IInv

(* What is not in the table when the results are written.                  *)
LEMMA WriteResultsIInv == ASSUME IInv, WriteResults PROVE IInv'
<1>1. /\ main = "collect" /\ resultQueue = << >> /\ main' = "append" /\ report' = results
      /\ UNCHANGED <<jobs, rerun, added, next, pc, held, caseQueue, resultQueue, results,
                     raised>>
  BY DEF WriteResults, Collected, config, queues
<1>2. Placed /\ Workers' = Workers
  BY <1>1 DEF IInv, Pooled, Workers
<1>3. results \in Seq(added) /\ added \subseteq Cases /\ caseQueue \in Seq(added)
  BY DEF IInv, TypeOK
<1>4. results \in Seq(Cases)
  BY <1>3, SeqMonotonic
<1>5. TypeOK'
  BY <1>1, <1>2, <1>4 DEF IInv, TypeOK
<1>6. \A w \in Workers : pc[w] \in {"ended", "dead"}
  BY <1>1 DEF IInv, JoinedBefore
<1>7. \A c \in added \ Range(results) : Lost(c)
  <2> SUFFICES ASSUME NEW c \in added \ Range(results) PROVE Lost(c)
    OBVIOUS
  <2>1. c \in Range(caseQueue) \cup raised \cup HeldCases
    BY <1>1, <1>2, EmptyInjective DEF Placed, Places
  <2>2. CASE c \in raised
    BY <2>2 DEF Lost
  <2>3. CASE c \in Range(caseQueue)
    <3>1. caseQueue # << >>
      BY <2>3, EmptyInjective
    <3>2. \A w \in Workers : pc[w] = "dead"
      BY <1>6, <3>1 DEF IInv, EndedOnEmpty
    <3> QED
      BY <2>3, <3>2 DEF Lost
  <2>4. CASE c \in HeldCases
    <3>1. PICK w \in Workers : held[w] = c
      BY <2>4 DEF HeldCases
    <3>2. c # NoCase
      BY <1>3, ConstantsAssumption
    <3>3. pc[w] = "dead"
      BY <1>6, <3>1, <3>2 DEF IInv, HeldWhenRun
    <3> QED
      BY <3>1, <3>3 DEF Lost
  <2> QED
    BY <2>1, <2>2, <2>3, <2>4
<1>8. Written'
  <2>1. \A c : Lost(c)' <=> Lost(c)
    BY <1>1, <1>2 DEF Lost
  <2>2. Quiet'
    BY <1>1, <1>2, <1>6 DEF Quiet
  <2>3. IsInjective(report')
    BY <1>1, <1>2 DEF Placed, Apart
  <2> QED
    BY <1>1, <1>3, <1>7, <2>1, <2>2, <2>3 DEF Written
<1>9. HeldWhenRun' /\ RunsOne' /\ EndedOnEmpty' /\ Fresh' /\ JoinedBefore' /\ ~Pooled'
  BY <1>1, <1>2 DEF IInv, HeldWhenRun, RunsOne, EndedOnEmpty, Fresh, JoinedBefore, Pooled
<1> QED
  BY <1>5, <1>8, <1>9 DEF IInv

LEMMA AppendFailedIInv == ASSUME IInv, AppendFailed PROVE IInv'
<1>1. PICK order \in Orders(Cases \ added) : report' = report \o order
  BY DEF AppendFailed
<1>2. /\ main = "append" /\ main' = "done"
      /\ UNCHANGED <<jobs, rerun, added, next, pc, held, caseQueue, resultQueue, results,
                     raised>>
  BY DEF AppendFailed, config, queues
<1>3. /\ order \in Seq(Cases \ added) /\ IsInjective(order) /\ Range(order) = Cases \ added
  BY <1>1, AddedFinite, OrdersAreComplete DEF IInv
<1>4. added \subseteq Cases /\ report \in Seq(added) /\ IsInjective(report)
  BY <1>2 DEF IInv, TypeOK, Written
<1>5. order \in Seq(Cases) /\ report \in Seq(Cases)
  BY <1>3, <1>4, SeqMonotonic
<1>6. Range(report) \subseteq added
  BY <1>4, SeqFacts
<1>7. report' \in Seq(Cases) /\ Range(report') = Range(report) \cup Range(order)
  BY <1>1, <1>5, ConcatProperties, RangeConcatenation
<1>8. IsInjective(report')
  <2>1. Range(report) \cap Range(order) = {}
    BY <1>3, <1>6
  <2>2. IsInjective(report \o order)
    BY <1>3, <1>4, <1>5, <2>1, ConcatInjective
  <2> QED
    BY <1>1, <2>2
<1>9. TypeOK'
  BY <1>2, <1>7 DEF IInv, TypeOK, Workers
<1>10. Written'
  <2>1. \A c : Lost(c)' <=> Lost(c)
    BY <1>2 DEF Lost, Workers
  <2>2. Quiet'
    BY <1>2 DEF IInv, Written, Quiet, Workers
  <2>3. \A c \in Cases \ Range(report') : Lost(c)
    BY <1>2, <1>3, <1>7 DEF IInv, Written
  <2> QED
    BY <1>2, <1>8, <2>1, <2>2, <2>3 DEF Written
<1>11. HeldWhenRun' /\ RunsOne' /\ EndedOnEmpty' /\ Fresh' /\ JoinedBefore' /\ ~Pooled'
  BY <1>2 DEF IInv, HeldWhenRun, RunsOne, EndedOnEmpty, Fresh, JoinedBefore, Pooled, Workers
<1> QED
  BY <1>9, <1>10, <1>11 DEF IInv

-------------------------------------------------------------------------------
(* An exception leaves everything as it is.                                *)
LEMMA CheckFailsIInv == ASSUME IInv, CheckFails PROVE IInv'
<1>1. /\ main' = "failed"
      /\ UNCHANGED <<jobs, rerun, added, next, pc, held, caseQueue, resultQueue, results,
                     report, raised>>
  BY DEF CheckFails, config, queues
<1>2. TypeOK'
  BY <1>1 DEF IInv, TypeOK, Workers
<1>3. HeldWhenRun' /\ RunsOne' /\ EndedOnEmpty'
  BY <1>1 DEF IInv, HeldWhenRun, RunsOne, EndedOnEmpty, Workers
<1>4. Quiet'
  <2>1. main \in {"start", "collect", "append"}
    BY DEF CheckFails
  <2>2. Quiet
    BY <2>1 DEF IInv, Fresh, JoinedBefore, Written, Quiet
  <2> QED
    BY <1>1, <2>2 DEF Quiet, Workers
<1>5. Fresh' /\ JoinedBefore' /\ Written' /\ ~Pooled'
  BY <1>1, <1>4 DEF Fresh, JoinedBefore, Written, Pooled
<1> QED
  BY <1>2, <1>3, <1>5 DEF IInv

LEMMA NextIInv == ASSUME IInv, [Next]_vars PROVE IInv'
<1>1. CASE Main
  BY <1>1, SingleProcessIInv, FillQueueIInv, StartProcessIInv, JoinIInv, CollectResultIInv,
     WriteResultsIInv, AppendFailedIInv, CheckFailsIInv DEF Main
<1>2. ASSUME NEW w \in Workers, Work(w) \/ Die(w) PROVE IInv'
  BY <1>2, LookForCaseIInv, NothingLeftIInv, TakeCaseIInv, PutResultIInv, RaiseIInv, DieIInv
  DEF Work
<1>3. CASE UNCHANGED vars
  <2>1. UNCHANGED <<jobs, rerun, added, main, next, pc, held, caseQueue, resultQueue, results,
                    report, raised>>
    BY <1>3 DEF vars, config, queues
  <2>2. Workers' = Workers
    BY <2>1 DEF Workers
  <2>3. TypeOK' /\ (Pooled' => Placed')
    BY <2>1, <2>2 DEF IInv, TypeOK, Pooled, Placed, Apart, Places, HeldCases
  <2>4. Fresh' /\ HeldWhenRun' /\ RunsOne' /\ EndedOnEmpty' /\ JoinedBefore'
    BY <2>1, <2>2 DEF IInv, Fresh, HeldWhenRun, RunsOne, EndedOnEmpty, JoinedBefore
  <2>5. Written'
    BY <2>1, <2>2 DEF IInv, Written, Lost, Quiet
  <2> QED
    BY <2>3, <2>4, <2>5 DEF IInv
<1> QED
  BY <1>1, <1>2, <1>3 DEF Next

(* The inductive invariant holds in every reachable state.                 *)
THEOREM Invariance == Spec => []IInv
  BY InitIInv, NextIInv, PTL DEF Spec

(* Types: main never waits for a process that there is not.                *)
THEOREM TypeCorrect == Spec => []TypeOK
<1>1. IInv => TypeOK
  BY DEF IInv
<1> QED
  BY <1>1, Invariance, PTL

(* However the processes interleave and die, a case is in one place.       *)
THEOREM NoCaseTwice == Spec => []EachCaseOnce
<1>1. IInv => EachCaseOnce
  <2> SUFFICES ASSUME IInv, Pooled
               PROVE  /\ IsInjective(Moving)
                      /\ Range(Moving) \cap raised = {}
                      /\ \A w \in Workers : held[w] # NoCase =>
                           /\ held[w] \notin Range(Moving) \cup raised
                           /\ \A v \in Workers : held[v] = held[w] => v = w
                      /\ added = Range(Moving) \cup raised
                                   \cup {c \in added : \E w \in Workers : held[w] = c}
    BY DEF EachCaseOnce, Pooled
  <2>1. Placed /\ (IsInjective(Moving) <=> Apart) /\ Range(Moving) = Places
    BY MovingParts DEF IInv
  <2> QED
    BY <2>1 DEF Placed, HeldCases
<1> QED
  BY <1>1, Invariance, PTL

(* What the table lacks was lost with an exception or with a process.      *)
THEOREM ReportIsComplete == Spec => []ReportComplete
<1>1. IInv => ReportComplete
  BY DEF IInv, Written, Lost, ReportComplete
<1> QED
  BY <1>1, Invariance, PTL

-------------------------------------------------------------------------------
(* The part of CheckEnds that no fairness is needed for.                   *)

Stages == <<"start", "spawn", "join", "collect", "append", "done", "failed">>

(* What a process comes through.  While there are cases it looks and takes *)
(* one; a process that looked before the last was taken looks again.       *)
Course ==
    IF caseQueue = << >>
    THEN <<"run", "get", "empty", "ended", "dead">>
    ELSE <<"run", "empty", "get", "dead">>

Later(order, a, b) ==
    \E i, j \in DOMAIN order : i < j /\ order[i] = a /\ order[j] = b

Further ==
    \/ Later(Stages, main, main')
    \/ main' = main /\ next < next'
    \/ UNCHANGED <<main, next>> /\ Len(caseQueue') < Len(caseQueue)
    \/ /\ UNCHANGED <<main, next, caseQueue>>
       /\ \E w \in Workers :
            Later(Course, pc[w], pc'[w]) /\ \A v \in Workers \ {w} : pc'[v] = pc[v]
    \/ UNCHANGED <<main, next, caseQueue, pc>> /\ Len(resultQueue') < Len(resultQueue)

GoesForward == [][Further]_vars

(* Main waits for processes that were started only: for one that has ended *)
(* or that can take a step, whatever the queues have.                      *)
WaitsForStarted ==
    /\ main = "start" => next = 1
    /\ main = "spawn" => \A w \in 1..next - 1 : pc[w] # "new"
    /\ main = "join" => \A w \in Workers : pc[w] \in {"ended", "dead"} \/ Alive(w)

LEMMA StagesInOrder ==
  /\ Later(Stages, "start", "spawn") /\ Later(Stages, "start", "append")
  /\ Later(Stages, "spawn", "join") /\ Later(Stages, "join", "collect")
  /\ Later(Stages, "collect", "append") /\ Later(Stages, "append", "done")
  /\ \A a \in {"start", "collect", "append"} : Later(Stages, a, "failed")
<1>1. /\ DOMAIN Stages = 1..7
      /\ Stages[1] = "start" /\ Stages[2] = "spawn" /\ Stages[3] = "join"
      /\ Stages[4] = "collect" /\ Stages[5] = "append" /\ Stages[6] = "done"
      /\ Stages[7] = "failed"
  BY DEF Stages
<1> HIDE DEF Stages
<1>2. 1..7 = {1, 2, 3, 4, 5, 6, 7}
  OBVIOUS
<1> QED
  BY <1>1, <1>2 DEF Later

LEMMA CourseInOrder ==
  /\ Later(Course, "run", "empty")
  /\ caseQueue = << >> => Later(Course, "get", "empty") /\ Later(Course, "empty", "ended")
  /\ caseQueue # << >> => Later(Course, "empty", "get")
  /\ Later(Course, "run", "dead") /\ Later(Course, "empty", "dead") /\ Later(Course, "get", "dead")
<1>1. CASE caseQueue = << >>
  <2> DEFINE order == Course
  <2>1. /\ DOMAIN order = 1..5
        /\ order[1] = "run" /\ order[2] = "get" /\ order[3] = "empty"
        /\ order[4] = "ended" /\ order[5] = "dead"
    BY <1>1 DEF Course
  <2> HIDE DEF order
  <2>2. /\ Later(order, "run", "empty") /\ Later(order, "get", "empty")
        /\ Later(order, "empty", "ended") /\ Later(order, "run", "dead")
        /\ Later(order, "empty", "dead") /\ Later(order, "get", "dead")
    BY <2>1 DEF Later
  <2> QED
    BY <1>1, <2>2 DEF order
<1>2. CASE caseQueue # << >>
  <2> DEFINE order == Course
  <2>1. /\ DOMAIN order = 1..4
        /\ order[1] = "run" /\ order[2] = "empty" /\ order[3] = "get" /\ order[4] = "dead"
    BY <1>2 DEF Course
  <2> HIDE DEF order
  <2>2. /\ Later(order, "run", "empty") /\ Later(order, "empty", "get")
        /\ Later(order, "run", "dead") /\ Later(order, "empty", "dead")
        /\ Later(order, "get", "dead")
    BY <2>1 DEF Later
  <2> QED
    BY <1>2, <2>2 DEF order
<1> QED
  BY <1>1, <1>2

(* A step of one process that leaves the queue of cases as it is.          *)
LEMMA ProcessIsFurther ==
  ASSUME NEW w \in Workers, NEW p, Later(Course, pc[w], p), IInv,
         pc' = [pc EXCEPT ![w] = p], UNCHANGED <<main, next, caseQueue>>
  PROVE  Further
<1>1. pc \in [Workers -> {"new", "empty", "get", "run", "ended", "dead"}]
  BY DEF IInv, TypeOK
<1>2. pc'[w] = p /\ \A v \in Workers \ {w} : pc'[v] = pc[v]
  BY <1>1
<1> QED
  BY <1>2 DEF Further

LEMMA WorkIsFurther == ASSUME IInv, NEW w \in Workers, Work(w) \/ Die(w) PROVE Further
<1>1. caseQueue \in Seq(added)
  BY DEF IInv, TypeOK
<1>2. CASE LookForCase(w)
  <2> DEFINE p == IF caseQueue = << >> THEN "ended" ELSE "get"
  <2>1. pc[w] = "empty" /\ pc' = [pc EXCEPT ![w] = p] /\ UNCHANGED <<main, next, caseQueue>>
    BY <1>2 DEF LookForCase, queues
  <2>2. Later(Course, "empty", p)
    BY CourseInOrder
  <2> HIDE DEF p
  <2> QED
    BY <2>1, <2>2, ProcessIsFurther
<1>3. CASE NothingLeft(w)
  BY <1>3, CourseInOrder, ProcessIsFurther DEF NothingLeft, queues
<1>4. CASE TakeCase(w)
  <2>1. Len(caseQueue') < Len(caseQueue) /\ main' = main /\ next' = next
    BY <1>1, <1>4, HeadTailProperties, LenProperties DEF TakeCase, Taken
  <2> QED
    BY <2>1 DEF Further
<1>5. CASE PutResult(w)
  BY <1>5, CourseInOrder, ProcessIsFurther DEF PutResult
<1>6. CASE Raise(w)
  BY <1>6, CourseInOrder, ProcessIsFurther DEF Raise, queues
<1>7. CASE Die(w)
  BY <1>7, CourseInOrder, ProcessIsFurther DEF Die, Alive, queues
<1> QED
  BY <1>2, <1>3, <1>4, <1>5, <1>6, <1>7 DEF Work

LEMMA MainIsFurther == ASSUME IInv, Main PROVE Further
<1>1. jobs \in Nat \ {0} /\ next \in 1..jobs /\ resultQueue \in Seq(added)
  BY JobsType DEF IInv, TypeOK, Workers
<1>2. CASE SingleProcess
  BY <1>2, StagesInOrder DEF SingleProcess, Further
<1>3. CASE FillQueue
  BY <1>3, StagesInOrder DEF FillQueue, Further
<1>4. CASE StartProcess
  BY <1>1, <1>4, StagesInOrder DEF StartProcess, Further
<1>5. CASE Join
  BY <1>1, <1>5, StagesInOrder DEF Join, Joined, Further
<1>6. CASE CollectResult
  <2>1. Len(resultQueue') < Len(resultQueue) /\ UNCHANGED <<main, next, caseQueue, pc>>
    BY <1>1, <1>6, HeadTailProperties, LenProperties DEF CollectResult
  <2> QED
    BY <2>1 DEF Further
<1>7. CASE WriteResults
  BY <1>7, StagesInOrder DEF WriteResults, Further
<1>8. CASE AppendFailed
  BY <1>8, StagesInOrder DEF AppendFailed, Further
<1>9. CASE CheckFails
  BY <1>9, StagesInOrder DEF CheckFails, Further
<1> QED
  BY <1>2, <1>3, <1>4, <1>5, <1>6, <1>7, <1>8, <1>9 DEF Main

(* Every step takes main further, or a case from the queue, or one process *)
(* on its course and the others not back, or a result that main collects.  *)
(* Each is bounded and none is given back by one that comes after it here, *)
(* so that a check has finitely many steps, in any order of its processes. *)
THEOREM ForwardTheorem == Spec => GoesForward
<1>1. IInv /\ [Next]_vars => [Further]_vars
  BY WorkIsFurther, MainIsFurther DEF Next
<1> QED
  BY <1>1, Invariance, PTL DEF Spec, GoesForward

LEMMA WaitsForStartedKept ==
  ASSUME IInv, WaitsForStarted, [Next]_vars
  PROVE  WaitsForStarted'
<1>1. /\ jobs \in Nat \ {0} /\ next \in 1..jobs /\ Workers = 1..jobs
      /\ pc \in [Workers -> {"new", "empty", "get", "run", "ended", "dead"}]
  BY JobsType DEF IInv, TypeOK, Workers
<1>2. \A w : Alive(w) <=> pc[w] \in {"empty", "get", "run"}
  BY DEF Alive
<1>3. \A w : Alive(w)' <=> pc'[w] \in {"empty", "get", "run"}
  BY DEF Alive
<1>4. CASE main' \notin {"start", "spawn", "join"}
  BY <1>4 DEF WaitsForStarted
<1>5. CASE StartProcess
  <2>1. /\ main = "spawn" /\ pc' = [pc EXCEPT ![next] = "empty"] /\ jobs' = jobs
        /\ next' = IF next = jobs THEN 1 ELSE next + 1
        /\ main' = IF next = jobs THEN "join" ELSE "spawn"
    BY <1>5 DEF StartProcess, config
  <2>2. \A w \in 1..next : pc'[w] # "new"
    <3> SUFFICES ASSUME NEW w \in 1..next PROVE pc'[w] # "new"
      OBVIOUS
    <3>1. CASE w = next
      BY <1>1, <2>1, <3>1
    <3>2. CASE w # next
      <4>1. w \in 1..next - 1 /\ w \in Workers
        BY <1>1, <3>2
      <4> QED
        BY <1>1, <2>1, <3>2, <4>1 DEF WaitsForStarted
    <3> QED
      BY <3>1, <3>2
  <2>3. Workers' = Workers /\ pc' \in [Workers -> {"new", "empty", "get", "run", "ended", "dead"}]
    BY <1>1, <2>1 DEF Workers
  <2>4. CASE next = jobs
    <3>1. \A w \in Workers : pc'[w] \in {"ended", "dead"} \/ Alive(w)'
      BY <1>1, <1>3, <2>2, <2>3, <2>4
    <3> QED
      BY <2>1, <2>3, <2>4, <3>1 DEF WaitsForStarted
  <2>5. CASE next # jobs
    <3>1. 1..next' - 1 = 1..next /\ main' = "spawn"
      BY <1>1, <2>1, <2>5
    <3> QED
      BY <2>2, <3>1 DEF WaitsForStarted
  <2> QED
    BY <2>4, <2>5
<1>6. CASE FillQueue
  <2>1. main' = "spawn" /\ next' = next /\ next = 1
    BY <1>6 DEF FillQueue, WaitsForStarted
  <2>2. 1..next' - 1 = {}
    BY <2>1
  <2> QED
    BY <2>1, <2>2 DEF WaitsForStarted
<1>7. CASE Join \/ CollectResult \/ UNCHANGED vars
  <2>1. pc' = pc /\ Workers' = Workers
        /\ (\/ main' = main /\ next' = next
            \/ main = "join" /\ main' \in {"join", "collect"})
    BY <1>7 DEF Join, CollectResult, vars, config, Workers
  <2> QED
    BY <1>2, <1>3, <2>1 DEF WaitsForStarted
<1>8. ASSUME NEW w \in Workers, Work(w) \/ Die(w) PROVE WaitsForStarted'
  <2>1. UNCHANGED <<main, next, jobs>>
    BY <1>8 DEF Work, Die, LookForCase, NothingLeft, TakeCase, PutResult, Raise, config
  <2>2. PICK p \in {"empty", "get", "run", "ended", "dead"} : pc' = [pc EXCEPT ![w] = p]
    BY <1>8 DEF Work, Die, LookForCase, NothingLeft, TakeCase, PutResult, Raise
  <2>3. Workers' = Workers
    BY <2>1 DEF Workers
  <2>4. \A v \in Workers : pc'[v] = (IF v = w THEN p ELSE pc[v])
    BY <1>1, <2>2
  <2>5. \A v \in 1..next - 1 : v \in Workers
    BY <1>1
  <2> QED
    BY <1>2, <1>3, <2>1, <2>3, <2>4, <2>5 DEF WaitsForStarted
<1>9. CASE SingleProcess \/ WriteResults \/ AppendFailed \/ CheckFails
  BY <1>4, <1>9 DEF SingleProcess, WriteResults, AppendFailed, CheckFails
<1> QED
  BY <1>5, <1>6, <1>7, <1>8, <1>9 DEF Next, Main

(* When main joins a process, that process was started and has ended, has  *)
(* died, or can go on: an empty queue and the death of others block none.  *)
THEOREM JoinsStarted == Spec => []WaitsForStarted
<1>1. Init => WaitsForStarted
  BY DEF Init, WaitsForStarted
<1> QED
  BY <1>1, WaitsForStartedKept, Invariance, PTL DEF Spec
===============================================================================
