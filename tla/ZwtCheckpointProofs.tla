------------------------ MODULE ZwtCheckpointProofs -------------------------
(***************************************************************************)
(* Proof that a zwt checkpoint is one optimiser step's state or none, for  *)
(* every set of models, number of steps, save interval, accumulation,      *)
(* warm-up and number of launches, with crashes and power losses anywhere. *)
(*                                                                         *)
(* A save copies tensors through two pinned buffers while older steps may  *)
(* still be queued on the stream.  So the invariant speaks of Lesson, what *)
(* the tensors will have learned once the stream has run: all tensors have *)
(* the same one, every record written so far holds it, and the buffer that *)
(* is written next holds it unless the copy that brings it is still under  *)
(* way behind all steps (CopiesUnderWay).  While a checkpoint is loaded,   *)
(* every tensor found holds what the records hold, or has its copy queued  *)
(* from a buffer that does (Loading).                                      *)
(***************************************************************************)
EXTENDS ZwtCheckpoint, SequenceTheorems, FiniteSetTheorems, WellFoundedInduction, TLAPS

(* A launch whose model is set up: trained, saved, finished. *)
Running == pc \in {"warm", "train", "save", "final", "done"}

(* What the compute stream holds: steps, and copies of the tensors T. *)
Copies(T) == [op : {"d2h", "h2d"}, tensor : T, slot : 0 .. 1]
StepOps == [op : {"step"}, batches : Seq(Nat)]
Work(T) == StepOps \cup Copies(T)

(* What a tensor will have learned from when the stream has run. *)
Total(t) == mem[t] \o Queued
Lesson == Total(Tensors[1])

(* The last batch, and the one before the k-th. *)
LastOf(v) == IF v = << >> THEN 0 ELSE v[Len(v)]
Previous(v, k) == IF k = 1 THEN 0 ELSE v[k - 1]

(* v is what st optimiser steps have learned from, of cu batches. *)
Learns(v, st, cu) ==
  /\ v \in Seq(Nat) /\ Len(v) = st * GradAccum
  /\ \A k \in DOMAIN v : v[k] <= cu /\ v[k] - Previous(v, k) \in {1, 1 + Warmup}

(* A file, cut short or not: its records are a prefix of some model's, and *)
(* each has learned what the header says.                                  *)
FileSound(f) ==
  /\ f \in Files /\ f.step \in 0 .. MaxSteps
  /\ Len(f.records) <= f.n
  /\ \E m \in Models : /\ f.n = Len(TensorsOf(m))
                       /\ \A k \in DOMAIN f.records : f.records[k].tensor = TensorsOf(m)[k]
  /\ \A k \in DOMAIN f.records :
       LET v == f.records[k].data
       IN  /\ v = f.records[1].data
           /\ Learns(v, f.step, f.cursor)
           /\ f.step < MaxSteps => LastOf(v) = f.cursor

(* Without a power loss the file is whole. *)
DiskSound ==
  /\ path = NoFile \/ FileSound(path)
  /\ safe = NoFile \/ FileSound(safe)
  /\ settled \in BOOLEAN /\ powerLost \in BOOLEAN
  /\ ~settled => path # NoFile
  /\ ~powerLost => path = NoFile \/ Len(path.records) = path.n

Types ==
  /\ model \in Models
  /\ pc \in Ended \cup {"load", "warm", "train", "save", "final", "done"}
  /\ step \in 0 .. MaxSteps /\ cursor \in Nat
  /\ mem \in [Range(Tensors) -> Seq(Nat)]
  /\ buf \in [0 .. 1 -> Seq(Nat)]
  /\ stream \in Seq(Work(Range(Tensors)))
  /\ i \in Nat /\ cudaIdx \in Nat /\ seen \subseteq Range(Tensors)

(* Between launches nothing is left in memory. *)
Off ==
  pc \in Ended \cup {"load"} =>
    /\ step = 0 /\ cursor = 0 /\ out = NoFile
    /\ pc # "load" => i = 0
    /\ i = 0 => stream = << >> /\ seen = {}

(* The records read so far: found, and copied or on their way.             *)
Loading ==
  pc = "load" /\ i # 0 =>
    /\ path # NoFile /\ path.n = Len(Tensors) /\ i - 1 <= Len(path.records)
    /\ \A k \in DOMAIN stream :
         stream[k].op = "h2d" /\ i > 1 /\ buf[stream[k].slot] = path.records[1].data
    /\ \A t \in seen :
         i > 1 /\ (mem[t] = path.records[1].data \/ \E k \in DOMAIN stream : stream[k].tensor = t)
    /\ \A k \in 1 .. i - 1 : path.records[k].tensor \in Range(Tensors) => path.records[k].tensor \in seen

(* The copies of the record in turn and the next: both queued behind the   *)
(* steps, one queued, or none.                                             *)
CopiesUnderWay ==
  \/ \E q \in Seq(StepOps) : stream = (q \o Kick(i)) \o Kick(i + 1)
  \/ stream = Kick(i + 1) /\ (i <= Len(Tensors) => buf[Slot(i)] = Lesson)
  \/ /\ stream = << >>
     /\ i <= Len(Tensors) => buf[Slot(i)] = Lesson
     /\ i + 1 <= Len(Tensors) => buf[Slot(i + 1)] = Lesson

(* The file being written holds the first i - 1 tensors. *)
Writing ==
  /\ i \in 1 .. Len(Tensors) + 1
  /\ out \in Files /\ out.step = step /\ out.cursor = cursor /\ out.n = Len(Tensors)
  /\ Len(out.records) = i - 1
  /\ \A k \in 1 .. i - 1 : out.records[k].tensor = Tensors[k] /\ out.records[k].data = Lesson
  /\ CopiesUnderWay

OnlySteps == \A k \in DOMAIN stream : stream[k].op = "step"

(* Tensors agree on what they will have learned, and it is what step and   *)
(* cursor say; at a save nothing was handed out that was not learned.      *)
RunSound ==
  Running =>
    /\ \A t \in Range(Tensors) : Total(t) = Lesson
    /\ Learns(Lesson, step, cursor)
    /\ pc = "warm" => stream = << >> /\ (step < MaxSteps => LastOf(Lesson) = cursor)
    /\ pc \in {"train", "done"} => OnlySteps
    /\ pc = "train" => (step < MaxSteps => cursor - LastOf(Lesson) \in {0, Warmup})
    /\ pc = "save" => LastOf(Lesson) = cursor
    /\ pc = "final" => step = MaxSteps
    /\ ~Saving => out = NoFile
    /\ Saving => IF out = NoFile THEN OnlySteps ELSE Writing

IInv == DiskSound /\ Types /\ Off /\ Loading /\ RunSound

-----------------------------------------------------------------------------
Before == {p \in Nat \X Nat : p[1] < p[2]}

(* Induction over a set of numbers: it holds every number if it holds 0    *)
(* and the successor of each of its members.                               *)
LEMMA Induction ==
  ASSUME NEW S, 0 \in S, \A n \in Nat : n \in S => n + 1 \in S
  PROVE  Nat \subseteq S
<1> SUFFICES ASSUME Nat \ S # {} PROVE FALSE
  OBVIOUS
<1>1. OpToRel(<, Nat) = Before
  BY DEF OpToRel, Before
<1>2. IsWellFoundedOn(Before, Nat)
  BY <1>1, NatLessThanWellFounded
<1>3. PICK m \in Nat \ S : \A n \in Nat \ S : <<n, m>> \notin Before
  BY <1>2, WFMin
<1>4. m - 1 \in Nat /\ m - 1 \in S
  <2>1. m # 0 /\ m \in Nat
    BY <1>3
  <2>2. m - 1 \in Nat /\ m - 1 < m
    BY <2>1
  <2>3. m - 1 \notin S => <<m - 1, m>> \in Before
    BY <2>1, <2>2 DEF Before
  <2> QED BY <1>3, <2>2, <2>3
<1>5. (m - 1) + 1 = m
  BY <1>3
<1> QED BY <1>3, <1>4, <1>5

-----------------------------------------------------------------------------
(* Taking a sequence apart at either end. *)
LEMMA LastOff ==
  ASSUME NEW T, NEW r \in Seq(T), NEW n \in Nat, Len(r) = n + 1
  PROVE  /\ SubSeq(r, 1, n) \in Seq(T) /\ Len(SubSeq(r, 1, n)) = n /\ r[n + 1] \in T
         /\ r = Append(SubSeq(r, 1, n), r[n + 1])
  OBVIOUS

LEMMA HeadOff ==
  ASSUME NEW T, NEW r \in Seq(T), r # << >>
  PROVE  Head(r) \in T /\ Tail(r) \in Seq(T)
  OBVIOUS

LEMMA AppendOn ==
  ASSUME NEW T, NEW r \in Seq(T), NEW x \in T
  PROVE  /\ Append(r, x) \in Seq(T) /\ Append(r, x) # << >> /\ Len(Append(r, x)) = Len(r) + 1
         /\ r # << >> => Head(Append(r, x)) = Head(r) /\ Tail(Append(r, x)) = Append(Tail(r), x)
         /\ r = << >> => Head(Append(r, x)) = x /\ Tail(Append(r, x)) = << >>
  OBVIOUS

(* FlattenSeq, whose definition is recursive: its partial results.         *)
Partial(s, g) == g = [j \in 1 .. Len(s) |-> IF j = 1 THEN s[j] ELSE g[j - 1] \o s[j]]

(* They continue those of a shorter sequence. *)
LEMMA PartialAppend ==
  ASSUME NEW S, NEW s \in Seq(Seq(S)), NEW x \in Seq(S), NEW g \in [1 .. Len(s) -> Seq(S)], Partial(s, g)
  PROVE  \E h \in [1 .. Len(s) + 1 -> Seq(S)] :
           /\ Partial(Append(s, x), h)
           /\ h[Len(s) + 1] = IF s = << >> THEN x ELSE g[Len(s)] \o x
<1> DEFINE n == Len(s)
           all == IF s = << >> THEN x ELSE g[n] \o x
           h == [j \in 1 .. n + 1 |-> IF j = n + 1 THEN all ELSE g[j]]
           t == Append(s, x)
<1>1. /\ n \in Nat /\ Len(t) = n + 1 /\ t[n + 1] = x /\ \A j \in 1 .. n : t[j] = s[j]
      /\ n = 0 <=> s = << >>
  OBVIOUS
<1>2. \A j \in 1 .. n : g[j] \in Seq(S) /\ g[j] = IF j = 1 THEN s[j] ELSE g[j - 1] \o s[j]
  BY DEF Partial
<1>3. all \in Seq(S)
  <2>1. s # << >> => n \in 1 .. n
    BY <1>1
  <2>2. s # << >> => g[n] \in Seq(S)
    BY <1>2, <2>1
  <2>3. s # << >> => g[n] \o x \in Seq(S)
    <3> HIDE DEF n
    <3> QED BY <2>2, ConcatProperties
  <2> QED BY <2>3
<1> HIDE DEF all, t, n
<1>4. h \in [1 .. n + 1 -> Seq(S)]
  BY <1>1, <1>2, <1>3
<1>5. \A j \in 1 .. n + 1 : h[j] = IF j = 1 THEN t[j] ELSE h[j - 1] \o t[j]
  <2> SUFFICES ASSUME NEW j \in 1 .. n + 1 PROVE h[j] = IF j = 1 THEN t[j] ELSE h[j - 1] \o t[j]
    OBVIOUS
  <2>1. CASE j = n + 1
    <3>1. h[j] = all
      BY <2>1
    <3>2. CASE n = 0
      BY <1>1, <2>1, <3>1, <3>2 DEF all
    <3>3. CASE n # 0
      <4>1. j # 1 /\ j - 1 = n /\ n \in 1 .. n + 1 /\ n # n + 1 /\ s # << >>
        BY <1>1, <2>1, <3>3
      <4>2. h[n] = g[n]
        BY <4>1
      <4> QED BY <1>1, <2>1, <3>1, <4>1, <4>2 DEF all, n
    <3> QED BY <3>2, <3>3
  <2>2. CASE j \in 1 .. n
    <3>1. h[j] = g[j] /\ t[j] = s[j]
      BY <1>1, <2>2
    <3>2. j # 1 => j - 1 \in 1 .. n /\ j - 1 # n + 1 /\ h[j - 1] = g[j - 1]
      BY <1>1, <2>2
    <3> QED BY <1>2, <2>2, <3>1, <3>2
  <2> QED BY <1>1, <2>1, <2>2
<1> DEFINE H == [j \in 1 .. n + 1 |-> IF j = 1 THEN t[j] ELSE h[j - 1] \o t[j]]
<1>6. h = H
  <2> HIDE DEF h
  <2> QED BY <1>4, <1>5
<1>7. Partial(t, h)
  BY <1>1, <1>6 DEF Partial
<1>8. h[n + 1] = all
  BY <1>1
<1> QED BY <1>4, <1>7, <1>8 DEF all, t, n

LEMMA PartialExists ==
  ASSUME NEW S, NEW s \in Seq(Seq(S))
  PROVE  \E g \in [1 .. Len(s) -> Seq(S)] : Partial(s, g)
<1> DEFINE P(n) == \A r \in Seq(Seq(S)) : Len(r) = n => \E g \in [1 .. Len(r) -> Seq(S)] : Partial(r, g)
           N == {n \in Nat : P(n)}
<1>1. P(0)
  <2> SUFFICES ASSUME NEW r \in Seq(Seq(S)), Len(r) = 0 PROVE \E g \in [1 .. Len(r) -> Seq(S)] : Partial(r, g)
    OBVIOUS
  <2> DEFINE g == [j \in 1 .. Len(r) |-> << >>]
  <2>1. 1 .. Len(r) = {}
    OBVIOUS
  <2>2. g \in [1 .. Len(r) -> Seq(S)] /\ Partial(r, g)
    BY <2>1 DEF Partial
  <2> QED BY <2>2
<1>2. ASSUME NEW n \in Nat, P(n) PROVE P(n + 1)
  <2> SUFFICES ASSUME NEW r \in Seq(Seq(S)), Len(r) = n + 1 PROVE \E g \in [1 .. Len(r) -> Seq(S)] : Partial(r, g)
    OBVIOUS
  <2> DEFINE q == SubSeq(r, 1, n)
             x == r[n + 1]
  <2>1. q \in Seq(Seq(S)) /\ Len(q) = n /\ x \in Seq(S) /\ r = Append(q, x)
    BY LastOff
  <2> HIDE DEF q, x
  <2>2. PICK g \in [1 .. Len(q) -> Seq(S)] : Partial(q, g)
    BY <1>2, <2>1
  <2> QED BY <2>1, <2>2, PartialAppend
<1> HIDE DEF P
<1>3. Nat \subseteq N
  <2> HIDE DEF N
  <2>1. 0 \in N /\ \A n \in Nat : n \in N => n + 1 \in N
    BY <1>1, <1>2 DEF N
  <2> QED BY <2>1, Induction
<1>4. P(Len(s))
  BY <1>3
<1> QED BY <1>4 DEF P

LEMMA PartialUnique ==
  ASSUME NEW s, Len(s) \in Nat, NEW g, Partial(s, g), NEW h, Partial(s, h)
  PROVE  g = h
<1> DEFINE N == {n \in Nat : n \in 1 .. Len(s) => g[n] = h[n]}
<1>1. \A n \in 1 .. Len(s) : /\ g[n] = IF n = 1 THEN s[n] ELSE g[n - 1] \o s[n]
                             /\ h[n] = IF n = 1 THEN s[n] ELSE h[n - 1] \o s[n]
  BY DEF Partial
<1>2. 0 \in N
  OBVIOUS
<1>3. ASSUME NEW n \in Nat, n \in N PROVE n + 1 \in N
  <2> SUFFICES ASSUME n + 1 \in 1 .. Len(s) PROVE g[n + 1] = h[n + 1]
    OBVIOUS
  <2>1. CASE n = 0
    BY <1>1, <2>1
  <2>2. CASE n # 0
    <3>1. n \in 1 .. Len(s) /\ n + 1 # 1 /\ (n + 1) - 1 = n
      BY <2>2
    <3> QED BY <1>1, <1>3, <3>1
  <2> QED BY <2>1, <2>2
<1>4. Nat \subseteq N
  <2> HIDE DEF N
  <2> QED BY <1>2, <1>3, Induction
<1>5. \A n \in 1 .. Len(s) : g[n] = h[n]
  BY <1>4
<1>6. g = [n \in 1 .. Len(s) |-> g[n]] /\ h = [n \in 1 .. Len(s) |-> h[n]]
  BY DEF Partial
<1> QED BY <1>5, <1>6

LEMMA FlattenIs ==
  ASSUME NEW S, NEW s \in Seq(Seq(S)), s # << >>, NEW g, Partial(s, g)
  PROVE  FlattenSeq(s) = g[Len(s)]
<1> DEFINE f == CHOOSE f : f = [j \in 1 .. Len(s) |-> IF j = 1 THEN s[j] ELSE f[j - 1] \o s[j]]
<1>1. f = g
  <2>1. Partial(s, f)
    BY DEF Partial
  <2>2. Len(s) \in Nat
    OBVIOUS
  <2> HIDE DEF f
  <2> QED BY <2>1, <2>2, PartialUnique
<1>2. Len(s) # 0
  OBVIOUS
<1>3. FlattenSeq(s) = f[Len(s)]
  BY <1>2 DEF FlattenSeq
<1> QED BY <1>1, <1>3
LEMMA FlattenAppend ==
  ASSUME NEW S, NEW s \in Seq(Seq(S)), NEW x \in Seq(S)
  PROVE  /\ FlattenSeq(Append(s, x)) = FlattenSeq(s) \o x
         /\ FlattenSeq(s) \in Seq(S)
<1> DEFINE n == Len(s)
           t == Append(s, x)
<1>1. PICK g \in [1 .. n -> Seq(S)] : Partial(s, g)
  BY PartialExists
<1>2. PICK h \in [1 .. n + 1 -> Seq(S)] :
        Partial(t, h) /\ h[n + 1] = IF s = << >> THEN x ELSE g[n] \o x
  BY <1>1, PartialAppend
<1>3. t \in Seq(Seq(S)) /\ t # << >> /\ Len(t) = n + 1
  BY AppendOn
<1>10. n \in Nat
  BY LenProperties
<1>4. FlattenSeq(t) = IF s = << >> THEN x ELSE g[n] \o x
  <2> HIDE DEF t
  <2> QED BY <1>2, <1>3, FlattenIs
<1>5. CASE s = << >>
  <2>1. FlattenSeq(s) = << >>
    BY <1>5 DEF FlattenSeq
  <2>2. << >> \o x = x /\ << >> \in Seq(S)
    OBVIOUS
  <2> QED BY <1>4, <1>5, <2>1, <2>2
<1>6. CASE s # << >>
  <2>1. FlattenSeq(s) = g[n] /\ n \in 1 .. n
    BY <1>1, <1>6, <1>10, EmptySeq, FlattenIs
  <2> QED BY <1>1, <1>4, <1>6, <2>1
<1> QED BY <1>5, <1>6

LEMMA FlattenHead ==
  ASSUME NEW S, NEW s \in Seq(Seq(S)), s # << >>
  PROVE  FlattenSeq(s) = Head(s) \o FlattenSeq(Tail(s))
<1> DEFINE P(n) == \A r \in Seq(Seq(S)) :
                     Len(r) = n + 1 => FlattenSeq(r) = Head(r) \o FlattenSeq(Tail(r))
           N == {n \in Nat : P(n)}
<1>1. P(0)
  <2> SUFFICES ASSUME NEW r \in Seq(Seq(S)), Len(r) = 0 + 1
               PROVE  FlattenSeq(r) = Head(r) \o FlattenSeq(Tail(r))
    OBVIOUS
  <2> DEFINE q == SubSeq(r, 1, 0)
             x == r[0 + 1]
  <2>1. q \in Seq(Seq(S)) /\ Len(q) = 0 /\ x \in Seq(S) /\ r = Append(q, x)
    BY LastOff
  <2>2. q = << >>
    OBVIOUS
  <2> HIDE DEF q, x
  <2>3. Head(r) = x /\ Tail(r) = << >>
    BY <2>1, <2>2, AppendOn
  <2>4. FlattenSeq(<< >>) = << >>
    BY DEF FlattenSeq
  <2>5. FlattenSeq(r) = << >> \o x
    BY <2>1, <2>2, <2>4, FlattenAppend
  <2>6. << >> \o x = x /\ x \o << >> = x
    BY <2>1
  <2> QED BY <2>3, <2>4, <2>5, <2>6
<1>2. ASSUME NEW n \in Nat, P(n) PROVE P(n + 1)
  <2> SUFFICES ASSUME NEW r \in Seq(Seq(S)), Len(r) = (n + 1) + 1
               PROVE  FlattenSeq(r) = Head(r) \o FlattenSeq(Tail(r))
    OBVIOUS
  <2> DEFINE q == SubSeq(r, 1, n + 1)
             x == r[(n + 1) + 1]
  <2>0. q \in Seq(Seq(S)) /\ Len(q) = n + 1 /\ x \in Seq(S) /\ r = Append(q, x)
    BY LastOff
  <2> HIDE DEF q, x
  <2>1. q # << >>
    BY <2>0
  <2>2. /\ Head(q) \in Seq(S) /\ Tail(q) \in Seq(Seq(S))
        /\ Head(r) = Head(q) /\ Tail(r) = Append(Tail(q), x)
    BY <2>0, <2>1, HeadOff, AppendOn
  <2>3. FlattenSeq(q) = Head(q) \o FlattenSeq(Tail(q))
    BY <1>2, <2>0
  <2>4. /\ FlattenSeq(r) = FlattenSeq(q) \o x
        /\ FlattenSeq(Tail(r)) = FlattenSeq(Tail(q)) \o x /\ FlattenSeq(Tail(q)) \in Seq(S)
    BY <2>0, <2>2, FlattenAppend
  <2>5. (Head(q) \o FlattenSeq(Tail(q))) \o x = Head(q) \o (FlattenSeq(Tail(q)) \o x)
    <3> DEFINE a == Head(q)
               b == FlattenSeq(Tail(q))
    <3>1. a \in Seq(S) /\ b \in Seq(S) /\ x \in Seq(S)
      BY <2>0, <2>2, <2>4
    <3> HIDE DEF a, b
    <3>2. (a \o b) \o x = a \o (b \o x)
      BY <3>1
    <3> QED BY <3>2 DEF a, b
  <2> QED BY <2>2, <2>3, <2>4, <2>5
<1> HIDE DEF P
<1>3. Nat \subseteq N
  <2> HIDE DEF N
  <2>1. 0 \in N /\ \A n \in Nat : n \in N => n + 1 \in N
    BY <1>1, <1>2 DEF N
  <2> QED BY <2>1, Induction
<1>4. Len(s) - 1 \in Nat /\ (Len(s) - 1) + 1 = Len(s)
  OBVIOUS
<1>5. P(Len(s) - 1)
  BY <1>3, <1>4
<1> QED BY <1>4, <1>5 DEF P

-----------------------------------------------------------------------------
(* The work on the compute stream, and what it will have taught.           *)
BatchesOf(w) == IF w.op = "step" THEN w.batches ELSE << >>

LearntBy(s) == FlattenSeq([k \in DOMAIN s |-> BatchesOf(s[k])])

LEMMA QueuedIs == Queued = LearntBy(stream)
  BY DEF Queued, LearntBy, BatchesOf

LEMMA QueuedIsNext == Queued' = LearntBy(stream')
  BY DEF Queued, LearntBy, BatchesOf

LEMMA BatchesTyped ==
  ASSUME NEW T, NEW w \in Work(T)
  PROVE  BatchesOf(w) \in Seq(Nat) /\ (w.op # "step" => BatchesOf(w) = << >>)
  BY DEF Work, StepOps, Copies, BatchesOf

LEMMA AllBatchesTyped ==
  ASSUME NEW T, NEW s \in Seq(Work(T))
  PROVE  /\ [k \in DOMAIN s |-> BatchesOf(s[k])] \in Seq(Seq(Nat))
         /\ LearntBy(s) \in Seq(Nat)
<1> DEFINE b == [k \in DOMAIN s |-> BatchesOf(s[k])]
<1>1. Len(s) \in Nat /\ DOMAIN s = 1 .. Len(s)
  OBVIOUS
<1>2. \A k \in 1 .. Len(s) : BatchesOf(s[k]) \in Seq(Nat)
  BY BatchesTyped
<1>3. b \in [1 .. Len(s) -> Seq(Nat)]
  BY <1>1, <1>2
<1>4. b \in Seq(Seq(Nat))
  <2> HIDE DEF b
  <2> QED BY <1>1, <1>3, SeqDef
<1>5. LearntBy(s) = FlattenSeq(b)
  BY DEF LearntBy
<1>6. << >> \in Seq(Nat)
  OBVIOUS
<1> HIDE DEF b
<1>7. FlattenSeq(b) \in Seq(Nat)
  BY <1>4, <1>6, FlattenAppend
<1> QED BY <1>4, <1>5, <1>7 DEF b

LEMMA LearntAppend ==
  ASSUME NEW T, NEW s \in Seq(Work(T)), NEW w \in Work(T)
  PROVE  LearntBy(Append(s, w)) = LearntBy(s) \o BatchesOf(w)
<1> DEFINE b == [k \in DOMAIN s |-> BatchesOf(s[k])]
           t == Append(s, w)
           c == [k \in DOMAIN t |-> BatchesOf(t[k])]
           x == BatchesOf(w)
<1>1. b \in Seq(Seq(Nat)) /\ x \in Seq(Nat)
  BY AllBatchesTyped, BatchesTyped
<1>2. t \in Seq(Work(T))
  BY AppendOn
<1>3. c \in Seq(Seq(Nat))
  BY <1>2, AllBatchesTyped
<1>4. /\ Len(s) \in Nat /\ DOMAIN s = 1 .. Len(s) /\ Len(t) = Len(s) + 1 /\ DOMAIN t = 1 .. Len(s) + 1
      /\ t[Len(s) + 1] = w /\ \A k \in 1 .. Len(s) : t[k] = s[k]
  OBVIOUS
<1>5. Len(b) = Len(s) /\ \A k \in 1 .. Len(s) : b[k] = BatchesOf(s[k])
  BY <1>1, <1>4
<1>6. Len(c) = Len(s) + 1 /\ \A k \in 1 .. Len(s) + 1 : c[k] = BatchesOf(t[k])
  BY <1>3, <1>4
<1>7. Append(b, x) = c
  <2> HIDE DEF b, c, x, t
  <2>1. /\ Append(b, x) \in Seq(Seq(Nat)) /\ Len(Append(b, x)) = Len(s) + 1
        /\ Append(b, x)[Len(s) + 1] = x /\ \A k \in 1 .. Len(s) : Append(b, x)[k] = b[k]
    BY <1>1, <1>4, <1>5, AppendProperties
  <2>2. \A k \in 1 .. Len(s) + 1 : Append(b, x)[k] = c[k]
    BY <1>4, <1>5, <1>6, <2>1 DEF x
  <2> QED BY <1>3, <1>6, <2>1, <2>2, SeqEqual
<1>8. LearntBy(t) = FlattenSeq(c) /\ LearntBy(s) = FlattenSeq(b)
  BY DEF LearntBy
<1> HIDE DEF b, c, x, t
<1>9. FlattenSeq(Append(b, x)) = FlattenSeq(b) \o x
  BY <1>1, FlattenAppend
<1> QED BY <1>7, <1>8, <1>9 DEF t, x

LEMMA LearntHead ==
  ASSUME NEW T, NEW s \in Seq(Work(T)), s # << >>
  PROVE  /\ Head(s) \in Work(T) /\ Tail(s) \in Seq(Work(T))
         /\ LearntBy(s) = BatchesOf(Head(s)) \o LearntBy(Tail(s))
<1> DEFINE b == [k \in DOMAIN s |-> BatchesOf(s[k])]
           t == Tail(s)
           c == [k \in DOMAIN t |-> BatchesOf(t[k])]
<1>1. Head(s) \in Work(T) /\ t \in Seq(Work(T))
  BY HeadOff
<1>2. b \in Seq(Seq(Nat)) /\ c \in Seq(Seq(Nat))
  BY <1>1, AllBatchesTyped
<1>3. /\ Len(s) \in Nat \ {0} /\ DOMAIN s = 1 .. Len(s) /\ Len(t) = Len(s) - 1 /\ DOMAIN t = 1 .. Len(s) - 1
      /\ Head(s) = s[1] /\ \A k \in 1 .. Len(s) - 1 : t[k] = s[k + 1]
  OBVIOUS
<1>4. Len(b) = Len(s) /\ \A k \in 1 .. Len(s) : b[k] = BatchesOf(s[k])
  BY <1>2, <1>3
<1>5. Len(c) = Len(s) - 1 /\ \A k \in 1 .. Len(s) - 1 : c[k] = BatchesOf(t[k])
  BY <1>2, <1>3
<1>6. b # << >> /\ Head(b) = BatchesOf(Head(s)) /\ Tail(b) = c
  <2> HIDE DEF b, c, t
  <2>1. b # << >>
    BY <1>2, <1>3, <1>4, EmptySeq
  <2>2. /\ Head(b) = b[1] /\ Tail(b) \in Seq(Seq(Nat)) /\ Len(Tail(b)) = Len(s) - 1
        /\ \A k \in 1 .. Len(s) - 1 : Tail(b)[k] = b[k + 1]
    BY <1>2, <1>4, <2>1, HeadTailProperties
  <2>3. \A k \in 1 .. Len(s) - 1 : Tail(b)[k] = c[k]
    <3> SUFFICES ASSUME NEW k \in 1 .. Len(s) - 1 PROVE Tail(b)[k] = c[k]
      OBVIOUS
    <3>1. k + 1 \in 1 .. Len(s)
      BY <1>3
    <3> QED BY <1>3, <1>4, <1>5, <2>2, <3>1
  <2>4. Tail(b) = c
    BY <1>2, <1>5, <2>2, <2>3, SeqEqual
  <2> QED BY <1>3, <1>4, <2>1, <2>2, <2>4
<1>7. LearntBy(t) = FlattenSeq(c) /\ LearntBy(s) = FlattenSeq(b)
  BY DEF LearntBy
<1> HIDE DEF b, c, t
<1>8. FlattenSeq(b) = Head(b) \o FlattenSeq(Tail(b))
  BY <1>2, <1>6, FlattenHead
<1> QED BY <1>1, <1>6, <1>7, <1>8 DEF t

LEMMA NothingLearnt == LearntBy(<< >>) = << >>
  BY DEF LearntBy, FlattenSeq

(* Copies teach nothing. *)
LEMMA CopiesTeachNothing ==
  ASSUME NEW T, NEW s \in Seq(Work(T)), \A k \in DOMAIN s : s[k].op # "step"
  PROVE  LearntBy(s) = << >>
<1> DEFINE P(n) == \A r \in Seq(Work(T)) :
                     Len(r) = n /\ (\A k \in DOMAIN r : r[k].op # "step") => LearntBy(r) = << >>
           N == {n \in Nat : P(n)}
<1>1. P(0)
  <2> SUFFICES ASSUME NEW r \in Seq(Work(T)), Len(r) = 0 PROVE LearntBy(r) = << >>
    OBVIOUS
  <2>1. DOMAIN r = {}
    OBVIOUS
  <2>2. [k \in DOMAIN r |-> BatchesOf(r[k])] = << >>
    BY <2>1
  <2> QED BY <2>2 DEF LearntBy, FlattenSeq
<1>2. ASSUME NEW n \in Nat, P(n) PROVE P(n + 1)
  <2> SUFFICES ASSUME NEW r \in Seq(Work(T)), Len(r) = n + 1, \A k \in DOMAIN r : r[k].op # "step"
               PROVE  LearntBy(r) = << >>
    OBVIOUS
  <2>1. r # << >> /\ Len(Tail(r)) = n /\ Head(r).op # "step"
    OBVIOUS
  <2>2. \A k \in DOMAIN Tail(r) : Tail(r)[k].op # "step"
    OBVIOUS
  <2>3. /\ Head(r) \in Work(T) /\ Tail(r) \in Seq(Work(T))
        /\ LearntBy(r) = BatchesOf(Head(r)) \o LearntBy(Tail(r))
    BY <2>1, LearntHead
  <2>4. LearntBy(Tail(r)) = << >>
    BY <1>2, <2>1, <2>2, <2>3
  <2>5. BatchesOf(Head(r)) = << >>
    BY <2>1 DEF BatchesOf
  <2> QED BY <2>3, <2>4, <2>5
<1> HIDE DEF P
<1>3. Nat \subseteq N
  <2> HIDE DEF N
  <2>1. 0 \in N /\ \A n \in Nat : n \in N => n + 1 \in N
    BY <1>1, <1>2 DEF N
  <2> QED BY <2>1, Induction
<1>4. P(Len(s))
  BY <1>3
<1> QED BY <1>4 DEF P

-----------------------------------------------------------------------------
(* The tensors of a model, and the turns of the two buffers.               *)
LEMMA TensorFacts ==
  ASSUME NEW m \in Models
  PROVE  LET T == TensorsOf(m)
         IN  /\ T \in Seq(Range(T)) /\ Len(T) \in Nat \ {0} /\ DOMAIN T = 1 .. Len(T)
             /\ \A k \in 1 .. Len(T) : T[k] \in Range(T)
             /\ T[1] \in Range(T)
<1> DEFINE T == TensorsOf(m)
           n == 3 * Len(m)
<1>1. Len(m) \in Nat \ {0}
  BY CheckpointAssumption
<1>2. n \in Nat \ {0}
  BY <1>1
<1>3. DOMAIN T = 1 .. n /\ T = [k \in 1 .. n |-> T[k]]
  BY DEF TensorsOf
<1> HIDE DEF T, n
<1>4. T \in [1 .. n -> Range(T)]
  BY <1>3 DEF Range
<1>5. T \in Seq(Range(T)) /\ Len(T) = n
  BY <1>2, <1>4, SeqDef
<1>6. 1 \in 1 .. n
  BY <1>2
<1> QED BY <1>2, <1>3, <1>4, <1>5, <1>6 DEF T

LEMMA SlotTurns ==
  ASSUME NEW k \in Nat \ {0}
  PROVE  /\ Slot(k) \in 0 .. 1 /\ Slot(k + 1) \in 0 .. 1 /\ Slot(k + 2) \in 0 .. 1
         /\ Slot(k + 1) # Slot(k) /\ Slot(k + 2) = Slot(k)
  BY DEF Slot

LEMMA FreshIs ==
  ASSUME NEW m \in Models
  PROVE  Fresh(m) \in [Range(TensorsOf(m)) -> Seq(Nat)] /\ \A t \in Range(TensorsOf(m)) : Fresh(m)[t] = << >>
<1>1. << >> \in Seq(Nat)
  OBVIOUS
<1> QED BY <1>1 DEF Fresh

LEMMA UnusedTyped == Unused \in [0 .. 1 -> Seq(Nat)]
<1>1. << >> \in Seq(Nat)
  OBVIOUS
<1> QED BY <1>1 DEF Unused

-----------------------------------------------------------------------------
(* The invariant: initially, and by the ways a launch ends and begins.     *)
LEMMA InitInv == Init => IInv
<1> SUFFICES ASSUME Init PROVE IInv
  OBVIOUS
<1>1. model \in Models /\ mem = Fresh(model) /\ stream = << >> /\ pc = "off" /\ out = NoFile
  BY DEF Init
<1>2. mem \in [Range(Tensors) -> Seq(Nat)] /\ buf \in [0 .. 1 -> Seq(Nat)]
  BY <1>1, FreshIs, UnusedTyped DEF Init, Tensors
<1>3. stream \in Seq(Work(Range(Tensors))) /\ MaxSteps \in Nat
  BY <1>1, EmptySeq, CheckpointAssumption
<1>4. Types
  BY <1>1, <1>2, <1>3 DEF Types, Init, Ended
<1>5. DiskSound /\ Off /\ Loading /\ RunSound
  BY <1>1 DEF Init, DiskSound, Off, Loading, RunSound, Running
<1> QED BY <1>4, <1>5 DEF IInv

(* However a launch ends, the disk stays sound and memory is empty.        *)
LEMMA EndsInv ==
  ASSUME Types, NEW how \in Ended, Ends(how), DiskSound'
  PROVE  IInv'
<1>1. /\ pc' = how /\ step' = 0 /\ cursor' = 0 /\ mem' = Fresh(model) /\ stream' = << >>
      /\ buf' = Unused /\ out' = NoFile /\ i' = 0 /\ cudaIdx' = 0 /\ seen' = {} /\ model' = model
  BY DEF Ends, launch
<1>2. mem' \in [Range(Tensors) -> Seq(Nat)] /\ buf' \in [0 .. 1 -> Seq(Nat)] /\ Tensors' = Tensors
  BY <1>1, FreshIs, UnusedTyped DEF Types, Tensors
<1>3. stream' \in Seq(Work(Range(Tensors))) /\ MaxSteps \in Nat
  BY <1>1, EmptySeq, CheckpointAssumption
<1>4. Types'
  BY <1>1, <1>2, <1>3 DEF Types
<1>5. Off'
  BY <1>1 DEF Off
<1>6. Loading' /\ RunSound'
  BY <1>1 DEF Loading, RunSound, Running, Ended
<1> QED BY <1>4, <1>5, <1>6 DEF IInv

LEMMA LaunchInv ==
  ASSUME IInv, NEW m \in Models, NEW g \in BOOLEAN, NEW resume \in BOOLEAN, Launch(m, g, resume)
  PROVE  IInv'
<1>1. /\ pc \in Ended /\ pc' = (IF resume THEN "load" ELSE "warm")
      /\ model' = m /\ mem' = Fresh(m)
      /\ UNCHANGED <<disk, step, cursor, stream, buf, out, i, cudaIdx, seen>>
  BY DEF Launch, position, loop
<1>2. step = 0 /\ cursor = 0 /\ out = NoFile /\ i = 0 /\ stream = << >> /\ seen = {}
  BY <1>1 DEF IInv, Off, Ended
<1>3. Tensors' = TensorsOf(m) /\ mem' \in [Range(TensorsOf(m)) -> Seq(Nat)]
  BY <1>1, FreshIs DEF Tensors
<1>4. stream' \in Seq(Work(Range(TensorsOf(m))))
  BY <1>1, <1>2, EmptySeq
<1>5. Types'
  BY <1>1, <1>2, <1>3, <1>4 DEF IInv, Types
<1>6. DiskSound'
  BY <1>1 DEF IInv, DiskSound, disk
<1>7. Off' /\ Loading'
  BY <1>1, <1>2 DEF Off, Loading, Ended
<1>8. RunSound'
  <2> SUFFICES ASSUME pc' = "warm" PROVE RunSound'
    BY <1>1 DEF RunSound, Running
  <2>1. Queued' = << >>
    BY <1>1, <1>2, QueuedIsNext, NothingLearnt
  <2>2. \A t \in Range(Tensors') : Total(t)' = << >>
    <3>1. \A t \in Range(Tensors') : mem'[t] = << >>
      BY <1>1, <1>3, FreshIs
    <3> QED BY <2>1, <3>1 DEF Total
  <2>3. Lesson' = << >> /\ Tensors'[1] \in Range(Tensors')
    BY <1>3, <2>2, TensorFacts DEF Lesson, Total
  <2>4. Learns(<< >>, 0, 0) /\ LastOf(<< >>) = 0
    BY CheckpointAssumption DEF Learns, LastOf
  <2> QED BY <1>1, <1>2, <2>2, <2>3, <2>4 DEF RunSound, Saving
<1> QED BY <1>5, <1>6, <1>7, <1>8 DEF IInv

(* An action that leaves the memory and the model alone, and whose work    *)
(* teaches nothing, changes no lesson.                                     *)
LEMMA LessonKept ==
  ASSUME mem' = mem, model' = model, LearntBy(stream') = LearntBy(stream)
  PROVE  /\ Queued' = Queued /\ Tensors' = Tensors /\ Lesson' = Lesson
         /\ \A t \in Range(Tensors) : Total(t)' = Total(t)
<1>1. Queued' = Queued
  BY QueuedIs, QueuedIsNext
<1> QED BY <1>1 DEF Total, Lesson, Tensors

LEMMA LessonTyped ==
  ASSUME Types
  PROVE  /\ Queued \in Seq(Nat) /\ Lesson \in Seq(Nat)
         /\ \A t \in Range(Tensors) : mem[t] \in Seq(Nat) /\ Total(t) \in Seq(Nat)
         /\ Tensors \in Seq(Range(Tensors)) /\ Len(Tensors) \in Nat \ {0}
         /\ \A k \in 1 .. Len(Tensors) : Tensors[k] \in Range(Tensors)
<1>1. Queued \in Seq(Nat)
  BY QueuedIs, AllBatchesTyped DEF Types
<1>2. \A t \in Range(Tensors) : mem[t] \in Seq(Nat)
  BY DEF Types
<1>3. \A t \in Range(Tensors) : mem[t] \o Queued \in Seq(Nat)
  BY <1>1, <1>2
<1>4. /\ Tensors \in Seq(Range(Tensors)) /\ Len(Tensors) \in Nat \ {0}
      /\ \A k \in 1 .. Len(Tensors) : Tensors[k] \in Range(Tensors)
  BY TensorFacts DEF Types, Tensors
<1> QED BY <1>1, <1>2, <1>3, <1>4 DEF Total, Lesson

(* The device's next piece of work, and what it leaves to learn.           *)
LEMMA DeviceFacts ==
  ASSUME Types, DeviceRuns
  PROVE  /\ Head(stream) \in Work(Range(Tensors)) /\ stream # << >>
         /\ stream' = Tail(stream) /\ stream' \in Seq(Work(Range(Tensors)))
         /\ Queued = BatchesOf(Head(stream)) \o Queued'
         /\ Queued' \in Seq(Nat) /\ Tensors' = Tensors
         /\ UNCHANGED <<path, safe, settled, powerLost, launches, model, graph, pc, step, cursor,
                        out, i, cudaIdx, seen>>
<1>1. stream # << >> /\ stream' = Tail(stream) /\ stream \in Seq(Work(Range(Tensors)))
  BY DEF DeviceRuns, Types
<1>2. UNCHANGED <<path, safe, settled, powerLost, launches, model, graph, pc, step, cursor, out, i, cudaIdx, seen>>
  BY DEF DeviceRuns, disk, launch, position, loop
<1>3. /\ Head(stream) \in Work(Range(Tensors)) /\ Tail(stream) \in Seq(Work(Range(Tensors)))
      /\ LearntBy(stream) = BatchesOf(Head(stream)) \o LearntBy(Tail(stream))
  BY <1>1, LearntHead
<1>4. LearntBy(Tail(stream)) \in Seq(Nat)
  BY <1>3, AllBatchesTyped
<1> QED BY <1>1, <1>2, <1>3, <1>4, QueuedIs, QueuedIsNext DEF Tensors

(* The device's memory and buffers, by what it runs. *)
LEMMA DeviceMemory ==
  ASSUME Types, DeviceRuns
  PROVE  LET w == Head(stream)
         IN  /\ mem' \in [Range(Tensors) -> Seq(Nat)] /\ buf' \in [0 .. 1 -> Seq(Nat)]
             /\ \A t \in Range(Tensors) :
                  mem'[t] = IF w.op = "step" THEN mem[t] \o w.batches
                            ELSE IF w.op = "h2d" /\ t = w.tensor THEN buf[w.slot] ELSE mem[t]
             /\ \A s \in 0 .. 1 :
                  buf'[s] = IF w.op = "d2h" /\ s = w.slot THEN mem[w.tensor] ELSE buf[s]
             /\ w.op # "step" => w.tensor \in Range(Tensors) /\ w.slot \in 0 .. 1
             /\ w.op \in {"step", "d2h", "h2d"}
<1> DEFINE w == Head(stream)
<1>1. w \in Work(Range(Tensors)) /\ mem \in [Range(Tensors) -> Seq(Nat)] /\ buf \in [0 .. 1 -> Seq(Nat)]
  BY DeviceFacts DEF Types
<1>2. /\ mem' = CASE w.op = "step" -> [t \in DOMAIN mem |-> mem[t] \o w.batches]
                  [] w.op = "h2d"  -> [mem EXCEPT ![w.tensor] = buf[w.slot]]
                  [] OTHER         -> mem
      /\ buf' = IF w.op = "d2h" THEN [buf EXCEPT ![w.slot] = mem[w.tensor]] ELSE buf
  BY DEF DeviceRuns
<1> HIDE DEF w
<1>3. CASE w.op = "step"
  <2>1. w.batches \in Seq(Nat)
    BY <1>1, <1>3 DEF Work, StepOps, Copies
  <2>2. mem' = [t \in Range(Tensors) |-> mem[t] \o w.batches] /\ buf' = buf
    BY <1>1, <1>2, <1>3
  <2>3. \A t \in Range(Tensors) : mem[t] \o w.batches \in Seq(Nat)
    BY <1>1, <2>1
  <2> QED BY <1>1, <1>3, <2>2, <2>3 DEF w
<1>4. CASE w.op # "step"
  <2>1. w.op \in {"d2h", "h2d"} /\ w.tensor \in Range(Tensors) /\ w.slot \in 0 .. 1
    BY <1>1, <1>4 DEF Work, StepOps, Copies
  <2>2. CASE w.op = "d2h"
    BY <1>1, <1>2, <2>1, <2>2 DEF w
  <2>3. CASE w.op = "h2d"
    BY <1>1, <1>2, <2>1, <2>3 DEF w
  <2> QED BY <2>1, <2>2, <2>3
<1> QED BY <1>3, <1>4

LEMMA DeviceKeepsLesson ==
  ASSUME Types, DeviceRuns, Head(stream).op # "h2d"
  PROVE  /\ \A t \in Range(Tensors) : Total(t)' = Total(t)
         /\ Lesson' = Lesson
<1> DEFINE w == Head(stream)
<1>1. \A t \in Range(Tensors) : mem[t] \in Seq(Nat)
  BY LessonTyped
<1>2. \A t \in Range(Tensors) : mem'[t] \o Queued' = mem[t] \o Queued
  <2> SUFFICES ASSUME NEW t \in Range(Tensors) PROVE mem'[t] \o Queued' = mem[t] \o Queued
    OBVIOUS
  <2>1. Queued = BatchesOf(w) \o Queued' /\ Queued' \in Seq(Nat) /\ w \in Work(Range(Tensors))
    BY DeviceFacts
  <2>2. mem'[t] = IF w.op = "step" THEN mem[t] \o w.batches ELSE mem[t]
    BY DeviceMemory
  <2>3. BatchesOf(w) \in Seq(Nat) /\ BatchesOf(w) = IF w.op = "step" THEN w.batches ELSE << >>
    BY <2>1, BatchesTyped DEF BatchesOf
  <2> DEFINE a == mem[t]
             b == BatchesOf(w)
             c == Queued'
  <2>4. a \in Seq(Nat) /\ b \in Seq(Nat) /\ c \in Seq(Nat)
    BY <1>1, <2>1, <2>3
  <2>5. mem'[t] = a \o b
    <3>1. a \o << >> = a
      BY <2>4
    <3> QED BY <2>2, <2>3, <3>1
  <2> HIDE DEF a, b, c, w
  <2>6. (a \o b) \o c = a \o (b \o c)
    BY <2>4
  <2> QED BY <2>1, <2>5, <2>6 DEF a, b, c
<1>3. Tensors' = Tensors /\ Tensors[1] \in Range(Tensors)
  BY DeviceFacts, LessonTyped
<1>4. \A t \in Range(Tensors) : Total(t)' = Total(t)
  BY <1>2 DEF Total
<1> QED BY <1>2, <1>3, <1>4 DEF Lesson, Total

LEMMA DeviceLoads ==
  ASSUME IInv, DeviceRuns, ~Running
  PROVE  IInv'
<1> DEFINE w == Head(stream)
           d == path.records[1].data
<1>1. Types /\ Off /\ Loading
  BY DEF IInv
<1>2. pc = "load" /\ i # 0
  BY <1>1 DEF DeviceRuns, Off, Types, Running
<1>3. /\ \A k \in DOMAIN stream : stream[k].op = "h2d" /\ i > 1 /\ buf[stream[k].slot] = d
      /\ \A t \in seen : i > 1 /\ (mem[t] = d \/ \E k \in DOMAIN stream : stream[k].tensor = t)
  BY <1>1, <1>2 DEF Loading
<1>4. /\ stream \in Seq(Work(Range(Tensors))) /\ stream # << >> /\ stream' = Tail(stream)
      /\ stream' \in Seq(Work(Range(Tensors))) /\ Tensors' = Tensors
      /\ UNCHANGED <<path, safe, settled, powerLost, launches, model, graph, pc, step, cursor,
                     out, i, cudaIdx, seen>>
  BY <1>1, DeviceFacts DEF Types
<1>5. /\ \A k \in DOMAIN stream' : k + 1 \in DOMAIN stream /\ stream'[k] = stream[k + 1]
      /\ \A k \in DOMAIN stream : k # 1 => k - 1 \in DOMAIN stream' /\ stream'[k - 1] = stream[k]
      /\ 1 \in DOMAIN stream /\ w = stream[1]
  BY <1>4
<1>6. w.op = "h2d" /\ buf[w.slot] = d
  BY <1>3, <1>5
<1>7. /\ mem' \in [Range(Tensors) -> Seq(Nat)] /\ buf' \in [0 .. 1 -> Seq(Nat)]
      /\ \A t \in Range(Tensors) : mem'[t] = IF t = w.tensor THEN d ELSE mem[t]
      /\ \A s \in 0 .. 1 : buf'[s] = buf[s]
  BY <1>1, <1>6, DeviceMemory
<1>8. buf' = buf
  BY <1>1, <1>7 DEF Types
<1>9. Types'
  BY <1>1, <1>4, <1>7 DEF Types
<1>10. DiskSound'
  BY <1>4 DEF IInv, DiskSound
<1>11. Off'
  BY <1>1, <1>2, <1>4 DEF Off
<1>12. Loading'
  <2>1. \A k \in DOMAIN stream' : stream'[k].op = "h2d" /\ i > 1 /\ buf[stream'[k].slot] = d
    BY <1>3, <1>5
  <2>2. ASSUME NEW t \in seen PROVE i > 1 /\ (mem'[t] = d \/ \E k \in DOMAIN stream' : stream'[k].tensor = t)
    <3>1. t \in Range(Tensors)
      BY <1>1 DEF Types
    <3>2. mem'[t] = IF t = w.tensor THEN d ELSE mem[t]
      BY <1>7, <3>1
    <3>3. i > 1 /\ (mem[t] = d \/ \E k \in DOMAIN stream : stream[k].tensor = t)
      BY <1>3
    <3>4. CASE t = w.tensor \/ mem[t] = d
      BY <3>2, <3>3, <3>4
    <3>5. CASE t # w.tensor /\ mem[t] # d
      <4>1. PICK k \in DOMAIN stream : stream[k].tensor = t
        BY <3>3, <3>5
      <4>2. k # 1
        BY <1>5, <3>5, <4>1
      <4> QED BY <1>5, <3>3, <4>1, <4>2
    <3> QED BY <3>4, <3>5
  <2>3. /\ path # NoFile /\ path.n = Len(Tensors) /\ i - 1 <= Len(path.records)
        /\ \A k \in 1 .. i - 1 : path.records[k].tensor \in Range(Tensors) => path.records[k].tensor \in seen
    BY <1>1, <1>2 DEF Loading
  <2> HIDE DEF w
  <2>4. path' = path /\ Tensors' = Tensors /\ i' = i /\ seen' = seen
    BY <1>4
  <2> QED BY <1>8, <2>1, <2>2, <2>3, <2>4 DEF Loading
<1>13. RunSound'
  BY <1>4 DEF RunSound, Running
<1> QED BY <1>9, <1>10, <1>11, <1>12, <1>13 DEF IInv

LEMMA KickFacts ==
  ASSUME Types, NEW k \in Nat \ {0}
  PROVE  /\ Kick(k) \in Seq(Work(Range(Tensors)))
         /\ k > Len(Tensors) => Kick(k) = << >>
         /\ k <= Len(Tensors) => /\ Kick(k) # << >> /\ Head(Kick(k)) = ToHost(Tensors[k], Slot(k))
                                 /\ Kick(k) = <<ToHost(Tensors[k], Slot(k))>>
                                 /\ Tail(Kick(k)) = << >> /\ Len(Kick(k)) = 1
         /\ \A j \in DOMAIN Kick(k) : Kick(k)[j].op # "step"
<1>1. CASE k > Len(Tensors)
  BY <1>1, EmptySeq DEF Kick
<1>2. CASE k <= Len(Tensors)
  <2> DEFINE w == ToHost(Tensors[k], Slot(k))
  <2>1. Tensors[k] \in Range(Tensors) /\ Slot(k) \in 0 .. 1 /\ Len(Tensors) \in Nat
    BY <1>2, LessonTyped, SlotTurns
  <2>2. w \in Work(Range(Tensors)) /\ w.op = "d2h"
    BY <2>1 DEF ToHost, Work, Copies
  <2>3. Kick(k) = <<w>>
    BY <1>2, <2>1 DEF Kick
  <2> HIDE DEF w
  <2>4. <<w>> \in Seq(Work(Range(Tensors))) /\ Head(<<w>>) = w /\ Tail(<<w>>) = << >> /\ Len(<<w>>) = 1
    BY <2>2
  <2>5. <<w>> # << >>
    OBVIOUS
  <2>6. \A j \in DOMAIN Kick(k) : Kick(k)[j].op # "step"
    BY <2>2, <2>3
  <2> QED BY <1>2, <2>1, <2>3, <2>4, <2>5, <2>6 DEF w
<1> QED BY <1>1, <1>2, LessonTyped

(* A copy to the host teaches nothing wherever it is enqueued. *)
LEMMA KickTeachesNothing ==
  ASSUME Types, NEW s \in Seq(Work(Range(Tensors))), NEW k \in Nat \ {0}
  PROVE  s \o Kick(k) \in Seq(Work(Range(Tensors))) /\ LearntBy(s \o Kick(k)) = LearntBy(s)
<1>1. CASE k > Len(Tensors)
  <2>1. Kick(k) = << >> /\ s \o << >> = s
    BY <1>1, KickFacts
  <2> QED BY <2>1
<1>2. CASE k <= Len(Tensors)
  <2> DEFINE w == ToHost(Tensors[k], Slot(k))
  <2>1. Kick(k) = <<w>> /\ <<w>> \in Seq(Work(Range(Tensors))) /\ Head(<<w>>) = w /\ <<w>> # << >>
    BY <1>2, KickFacts
  <2>2. w \in Work(Range(Tensors)) /\ w.op # "step"
    <3>1. w \in Work(Range(Tensors))
      <4> HIDE DEF w
      <4> QED BY <2>1, HeadOff
    <3> QED BY <3>1 DEF ToHost
  <2> HIDE DEF w
  <2>3. s \o <<w>> = Append(s, w)
    BY <2>2
  <2>4. LearntBy(Append(s, w)) = LearntBy(s) \o << >> /\ LearntBy(s) \in Seq(Nat)
    <3>1. BatchesOf(w) = << >>
      BY <2>2 DEF BatchesOf
    <3>2. LearntBy(Append(s, w)) = LearntBy(s) \o BatchesOf(w)
      BY <2>2, LearntAppend
    <3> QED BY <3>1, <3>2, AllBatchesTyped
  <2>5. LearntBy(s) \o << >> = LearntBy(s)
    BY <2>4
  <2>6. Append(s, w) \in Seq(Work(Range(Tensors)))
    BY <2>2, AppendOn
  <2> QED BY <2>1, <2>3, <2>4, <2>5, <2>6
<1> QED BY <1>1, <1>2, LessonTyped

(* The device copies the record in turn while a checkpoint is written. *)
LEMMA DeviceCopies ==
  ASSUME Types, DeviceRuns, Writing, \A t \in Range(Tensors) : Total(t) = Lesson
  PROVE  CopiesUnderWay' /\ Head(stream).op # "h2d"
<1> DEFINE w == Head(stream)
           n == Len(Tensors)
<1>1. /\ w \in Work(Range(Tensors)) /\ stream # << >> /\ stream' = Tail(stream)
      /\ Tensors' = Tensors /\ i' = i /\ Queued = BatchesOf(w) \o Queued'
      /\ stream \in Seq(Work(Range(Tensors)))
  BY DeviceFacts DEF Types
<1>2. i \in Nat \ {0} /\ i + 1 \in Nat \ {0} /\ i \in 1 .. n + 1 /\ n \in Nat
  BY LessonTyped DEF Writing
<1>3. \A k \in Nat \ {0} : Kick(k)' = Kick(k)
  BY <1>1 DEF Kick
<1>4. Kick(i)' = Kick(i) /\ Kick(i + 1)' = Kick(i + 1) /\ Kick(i') = Kick(i) /\ Kick(i' + 1) = Kick(i + 1)
  BY <1>1, <1>2, <1>3
<1>5. w.op # "h2d" => Lesson' = Lesson
  BY DeviceKeepsLesson
(* A copy that begins finds all it is to know in its tensor. *)
<1>6. ASSUME NEW k \in 1 .. n, \A j \in DOMAIN stream : stream[j].op # "step", w = ToHost(Tensors[k], Slot(k))
      PROVE  /\ w.op # "h2d" /\ w.op # "step"
             /\ \A s \in 0 .. 1 : buf'[s] = IF s = Slot(k) THEN Lesson ELSE buf[s]
  <2>1. w.op = "d2h" /\ w.slot = Slot(k) /\ w.tensor = Tensors[k] /\ Tensors[k] \in Range(Tensors)
    BY <1>6, LessonTyped DEF ToHost
  <2>2. Queued = << >>
    BY <1>1, <1>6, QueuedIs, CopiesTeachNothing
  <2>3. mem[Tensors[k]] = Lesson
    <3>1. mem[Tensors[k]] \o << >> = mem[Tensors[k]]
      BY <2>1, LessonTyped
    <3> QED BY <2>1, <2>2, <3>1 DEF Total
  <2>4. \A s \in 0 .. 1 : buf'[s] = IF w.op = "d2h" /\ s = w.slot THEN mem[w.tensor] ELSE buf[s]
    BY DeviceMemory
  <2> QED BY <2>1, <2>3, <2>4
<1>7. CASE \E q \in Seq(StepOps) : stream = (q \o Kick(i)) \o Kick(i + 1)
  <2>1. PICK q \in Seq(StepOps) : stream = (q \o Kick(i)) \o Kick(i + 1)
    BY <1>7
  <2>2. Kick(i) \in Seq(Work(Range(Tensors))) /\ Kick(i + 1) \in Seq(Work(Range(Tensors)))
    BY <1>2, KickFacts
  <2>3. CASE q # << >>
    <3>1. q \in Seq(Work(Range(Tensors)))
      BY DEF Work
    <3>2. w = Head(q) /\ stream' = (Tail(q) \o Kick(i)) \o Kick(i + 1)
      <4> DEFINE a == Kick(i)
                 b == Kick(i + 1)
                 W == Work(Range(Tensors))
      <4>1. q \in Seq(W) /\ a \in Seq(W) /\ b \in Seq(W)
        BY <2>2, <3>1
      <4> HIDE DEF a, b, W
      <4>2. Head((q \o a) \o b) = Head(q) /\ Tail((q \o a) \o b) = (Tail(q) \o a) \o b
        <5>1. Head((q \o a) \o b) = Head(q)
          BY <2>3, <4>1
        <5>2. Tail((q \o a) \o b) = (Tail(q) \o a) \o b
          BY <2>3, <4>1
        <5> QED BY <5>1, <5>2
      <4> QED BY <1>1, <2>1, <4>2 DEF a, b
    <3>3. Head(q) \in StepOps /\ Tail(q) \in Seq(StepOps)
      BY <2>3, HeadOff
    <3>4. w.op = "step"
      BY <3>2, <3>3 DEF StepOps
    <3>5. stream' = (Tail(q) \o Kick(i)') \o Kick(i + 1)'
      BY <1>4, <3>2
    <3> HIDE DEF w
    <3>6. \E p \in Seq(StepOps) : stream' = (p \o Kick(i)') \o Kick(i + 1)'
      BY <3>3, <3>5
    <3>7. \E p \in Seq(StepOps) : stream' = (p \o Kick(i')) \o Kick(i' + 1)
      BY <1>4, <3>2, <3>3
    <3>8. \E p \in Seq(StepOps) : (stream = (p \o Kick(i)) \o Kick(i + 1))'
      BY <1>1, <3>6
    <3> QED BY <3>4, <3>8 DEF CopiesUnderWay, w
  <2>4. CASE q = << >>
    <3>1. stream = Kick(i) \o Kick(i + 1)
      <4>1. << >> \o Kick(i) = Kick(i)
        BY <2>2
      <4> QED BY <2>1, <2>4, <4>1
    <3>2. i <= n
      <4> SUFFICES ASSUME i > n PROVE FALSE
        BY <1>2
      <4>1. Kick(i) = << >> /\ Kick(i + 1) = << >>
        BY <1>2, KickFacts
      <4> QED BY <1>1, <3>1, <4>1
    <3>3. Kick(i) = <<ToHost(Tensors[i], Slot(i))>>
      BY <1>2, <3>2, KickFacts
    <3>4. w = ToHost(Tensors[i], Slot(i)) /\ stream' = Kick(i + 1)
      <4> DEFINE x == ToHost(Tensors[i], Slot(i))
                 b == Kick(i + 1)
      <4>1. stream = <<x>> \o b /\ <<x>> \in Seq(Work(Range(Tensors))) /\ b \in Seq(Work(Range(Tensors)))
        BY <2>2, <3>1, <3>3
      <4> HIDE DEF x, b
      <4>2. Head(<<x>> \o b) = x /\ Tail(<<x>> \o b) = b
        BY <4>1
      <4> QED BY <1>1, <4>1, <4>2 DEF x, b
    <3>5. \A j \in DOMAIN stream : stream[j].op # "step"
      <4>1. /\ \A j \in DOMAIN Kick(i) : Kick(i)[j].op # "step"
            /\ \A j \in DOMAIN Kick(i + 1) : Kick(i + 1)[j].op # "step"
        BY <1>2, KickFacts
      <4> DEFINE a == Kick(i)
                 b == Kick(i + 1)
      <4> HIDE DEF a, b
      <4>2. ASSUME NEW j \in DOMAIN (a \o b)
             PROVE  (j \in DOMAIN a /\ (a \o b)[j] = a[j]) \/ \E l \in DOMAIN b : (a \o b)[j] = b[l]
        <5>1. a \in Seq(Work(Range(Tensors))) /\ b \in Seq(Work(Range(Tensors)))
          BY <2>2 DEF a, b
        <5>2. j \in 1 .. Len(a) + Len(b) /\ (a \o b)[j] = IF j <= Len(a) THEN a[j] ELSE b[j - Len(a)]
          BY <5>1
        <5> QED BY <5>1, <5>2
      <4> QED BY <3>1, <4>1, <4>2 DEF a, b
    <3>6. i \in 1 .. n
      BY <1>2, <3>2
    <3>7. w.op # "h2d" /\ w.op # "step" /\ \A s \in 0 .. 1 : buf'[s] = IF s = Slot(i) THEN Lesson ELSE buf[s]
      BY <1>6, <3>4, <3>5, <3>6
    <3>8. buf'[Slot(i)] = Lesson'
      BY <1>2, <1>5, <3>7, SlotTurns
    <3> HIDE DEF w
    <3>9. (stream = Kick(i + 1))' /\ (i <= Len(Tensors) => buf[Slot(i)] = Lesson)'
      BY <1>1, <1>4, <3>4, <3>8
    <3> QED BY <3>7, <3>9 DEF CopiesUnderWay, w
  <2> QED BY <2>3, <2>4
<1>8. CASE stream = Kick(i + 1) /\ (i <= n => buf[Slot(i)] = Lesson)
  <2>1. i + 1 <= n
    <3>1. i + 1 > Len(Tensors) => Kick(i + 1) = << >>
      BY <1>2, KickFacts
    <3> QED BY <1>1, <1>2, <1>8, <3>1
  <2>2. w = ToHost(Tensors[i + 1], Slot(i + 1)) /\ stream' = << >>
    <3>1. Head(Kick(i + 1)) = ToHost(Tensors[i + 1], Slot(i + 1)) /\ Tail(Kick(i + 1)) = << >>
      BY <1>2, <2>1, KickFacts
    <3> QED BY <1>1, <1>8, <3>1
  <2>3. \A j \in DOMAIN stream : stream[j].op # "step"
    BY <1>2, <1>8, KickFacts
  <2>4. i + 1 \in 1 .. n
    BY <1>2, <2>1
  <2>5. /\ w.op # "h2d" /\ w.op # "step"
        /\ \A s \in 0 .. 1 : buf'[s] = IF s = Slot(i + 1) THEN Lesson ELSE buf[s]
    BY <1>6, <2>2, <2>3, <2>4
  <2>6. buf'[Slot(i + 1)] = Lesson' /\ buf'[Slot(i)] = Lesson'
    <3>1. Slot(i) \in 0 .. 1 /\ Slot(i + 1) \in 0 .. 1 /\ Slot(i) # Slot(i + 1) /\ i <= n
      BY <1>2, <2>1, SlotTurns
    <3> QED BY <1>5, <1>8, <2>5, <3>1
  <2> HIDE DEF w
  <2>7. /\ (stream = << >>)' /\ (i <= Len(Tensors) => buf[Slot(i)] = Lesson)'
        /\ (i + 1 <= Len(Tensors) => buf[Slot(i + 1)] = Lesson)'
    BY <1>1, <2>2, <2>6
  <2> QED BY <2>5, <2>7 DEF CopiesUnderWay, w
<1> QED BY <1>1, <1>7, <1>8 DEF Writing, CopiesUnderWay

(* What the device runs during training or a save, it only carries out. *)
LEMMA DeviceTeachesNothing ==
  ASSUME IInv, DeviceRuns, Running
  PROVE  /\ Head(stream).op # "h2d" /\ Lesson' = Lesson
         /\ \A t \in Range(Tensors) : Total(t)' = Total(t)
         /\ OnlySteps => OnlySteps'
<1> DEFINE w == Head(stream)
<1>1. /\ Types /\ stream # << >> /\ stream' = Tail(stream)
      /\ stream \in Seq(Work(Range(Tensors)))
  BY DeviceFacts DEF IInv, Types
<1>2. /\ \A k \in DOMAIN stream' : k + 1 \in DOMAIN stream /\ stream'[k] = stream[k + 1]
      /\ 1 \in DOMAIN stream /\ w = stream[1]
  BY <1>1
<1>3. OnlySteps => OnlySteps' /\ w.op # "h2d"
  BY <1>2 DEF OnlySteps
<1>4. /\ \A t \in Range(Tensors) : Total(t) = Lesson
      /\ pc = "warm" => stream = << >>
      /\ pc \in {"train", "done"} => OnlySteps
      /\ Saving => IF out = NoFile THEN OnlySteps ELSE Writing
  BY DEF IInv, RunSound
<1>5. Writing => w.op # "h2d"
  BY <1>1, <1>4, DeviceCopies
<1> HIDE DEF w
<1>6. w.op # "h2d"
  BY <1>1, <1>3, <1>4, <1>5 DEF Running, Saving
<1> QED BY <1>1, <1>3, <1>6, DeviceKeepsLesson DEF w

LEMMA DeviceInv ==
  ASSUME IInv, DeviceRuns
  PROVE  IInv'
<1> SUFFICES ASSUME Running PROVE IInv'
  BY DeviceLoads
<1>1. Types /\ RunSound /\ DiskSound
  BY DEF IInv
<1>2. /\ stream # << >> /\ stream' = Tail(stream)
      /\ stream' \in Seq(Work(Range(Tensors))) /\ Tensors' = Tensors
      /\ UNCHANGED <<path, safe, settled, powerLost, launches, model, graph, pc, step, cursor,
                     out, i, cudaIdx, seen>>
  BY <1>1, DeviceFacts
<1>3. /\ \A t \in Range(Tensors) : Total(t) = Lesson
      /\ Learns(Lesson, step, cursor)
      /\ pc = "warm" => stream = << >>
      /\ pc \in {"train", "done"} => OnlySteps
      /\ pc = "train" => (step < MaxSteps => cursor - LastOf(Lesson) \in {0, Warmup})
      /\ pc = "save" => LastOf(Lesson) = cursor
      /\ pc = "final" => step = MaxSteps
      /\ ~Saving => out = NoFile
      /\ Saving => IF out = NoFile THEN OnlySteps ELSE Writing
  BY <1>1 DEF RunSound
<1>4. Saving' = Saving
  BY <1>2 DEF Saving
<1>5. /\ (\A t \in Range(Tensors) : Total(t)' = Total(t)) /\ Lesson' = Lesson
      /\ OnlySteps => OnlySteps'
  BY DeviceTeachesNothing
<1>6. Writing => Writing'
  <2> SUFFICES ASSUME Writing PROVE Writing'
    OBVIOUS
  <2>1. CopiesUnderWay'
    BY <1>1, <1>3, DeviceCopies
  <2>2. /\ i \in 1 .. Len(Tensors) + 1
        /\ out \in Files /\ out.step = step /\ out.cursor = cursor /\ out.n = Len(Tensors)
        /\ Len(out.records) = i - 1
        /\ \A k \in 1 .. i - 1 : out.records[k].tensor = Tensors[k] /\ out.records[k].data = Lesson
    BY DEF Writing
  <2>3. Files' = Files
    BY DEF Files
  <2> QED BY <1>2, <1>5, <2>1, <2>2 DEF Writing
<1>7. Types'
  BY <1>1, <1>2, DeviceMemory DEF Types
<1>8. DiskSound'
  BY <1>1, <1>2 DEF DiskSound
<1>9. Off' /\ Loading'
  BY <1>2 DEF Off, Loading, Running, Ended
<1>10. RunSound'
  <2>1. \A t \in Range(Tensors') : Total(t)' = Lesson'
    BY <1>2, <1>3, <1>5
  <2>2. pc' \notin {"warm"}
    BY <1>2, <1>3
  <2> QED BY <1>2, <1>3, <1>4, <1>5, <1>6, <2>1, <2>2 DEF RunSound
<1> QED BY <1>7, <1>8, <1>9, <1>10 DEF IInv

-----------------------------------------------------------------------------
(* Training.                                                               *)
LEMMA LearnsLonger ==
  ASSUME NEW v, NEW st \in Nat, NEW cu \in Nat, NEW n \in Nat, Learns(v, st, cu)
  PROVE  Learns(v, st, cu + n)
<1>1. v \in Seq(Nat) /\ Len(v) = st * GradAccum
      /\ \A k \in DOMAIN v : v[k] <= cu /\ v[k] - Previous(v, k) \in {1, 1 + Warmup}
  BY DEF Learns
<1>2. \A k \in DOMAIN v : v[k] <= cu + n
  <2>1. \A k \in DOMAIN v : v[k] \in Nat
    BY <1>1
  <2> QED BY <1>1, <2>1
<1> QED BY <1>1, <1>2 DEF Learns

(* One optimiser step more, of the next batches. *)
LEMMA LearnsStep ==
  ASSUME NEW v, NEW st \in Nat, NEW cu \in Nat, Learns(v, st, cu), cu - LastOf(v) \in {0, Warmup}
  PROVE  /\ Batches(cu, GradAccum) \in Seq(Nat)
         /\ Learns(v \o Batches(cu, GradAccum), st + 1, cu + GradAccum)
         /\ LastOf(v \o Batches(cu, GradAccum)) = cu + GradAccum
<1> DEFINE g == GradAccum
           b == Batches(cu, g)
           u == v \o b
           n == Len(v)
<1>1. g \in Nat \ {0} /\ Warmup \in Nat
  BY CheckpointAssumption
<1>2. b \in Seq(Nat) /\ Len(b) = g /\ \A k \in 1 .. g : b[k] = cu + k
  <2>1. b = [k \in 1 .. g |-> cu + k]
    BY DEF Batches
  <2>2. b \in [1 .. g -> Nat]
    BY <1>1, <2>1
  <2> QED BY <1>1, <2>1, <2>2, SeqDef
<1>3. v \in Seq(Nat) /\ n = st * g /\ n \in Nat /\ DOMAIN v = 1 .. n
      /\ \A k \in DOMAIN v : v[k] <= cu /\ v[k] - Previous(v, k) \in {1, 1 + Warmup}
  BY DEF Learns
<1> HIDE DEF b, g
<1>4. /\ u \in Seq(Nat) /\ Len(u) = n + g /\ DOMAIN u = 1 .. n + g
      /\ \A k \in 1 .. n : u[k] = v[k]
      /\ \A k \in 1 .. g : u[n + k] = cu + k
  <2>1. v \in Seq(Nat) /\ b \in Seq(Nat) /\ Len(b) = g
    BY <1>2, <1>3
  <2>2. /\ v \o b \in Seq(Nat) /\ Len(v \o b) = Len(v) + Len(b)
        /\ DOMAIN (v \o b) = 1 .. Len(v) + Len(b)
        /\ \A k \in 1 .. Len(v) : (v \o b)[k] = v[k]
    <3>1. v \o b \in Seq(Nat) /\ Len(v \o b) = Len(v) + Len(b)
      BY <2>1
    <3>2. \A k \in 1 .. Len(v) : (v \o b)[k] = v[k]
      BY <2>1, SMTT(30)
    <3> QED BY <3>1, <3>2, LenProperties
  <2>3. \A k \in 1 .. Len(b) : (v \o b)[Len(v) + k] = b[k]
    BY <2>1, SMTT(30)
  <2>4. u = v \o b /\ n = Len(v)
    OBVIOUS
  <2> HIDE DEF u, n
  <2> QED BY <1>2, <2>1, <2>2, <2>3, <2>4
<1> HIDE DEF u, n
<1>5. n + g = (st + 1) * g
  BY <1>1, <1>3
<1>6. ASSUME NEW k \in 1 .. n + g
      PROVE  u[k] <= cu + g /\ u[k] - Previous(u, k) \in {1, 1 + Warmup}
  <2>1. CASE k \in 1 .. n
    <3>1. u[k] = v[k] /\ v[k] \in Nat /\ v[k] <= cu /\ v[k] - Previous(v, k) \in {1, 1 + Warmup}
      BY <1>3, <1>4, <2>1
    <3>2. Previous(u, k) = Previous(v, k)
      BY <1>3, <1>4, <2>1 DEF Previous
    <3> QED BY <1>1, <3>1, <3>2
  <2>2. CASE k = n + 1
    <3>1. u[k] = cu + 1
      BY <1>1, <1>4, <2>2
    <3>2. Previous(u, k) = LastOf(v)
      <4>1. CASE n = 0
        <5>1. v = << >>
          BY <1>3, <4>1, EmptySeq
        <5> QED BY <2>2, <4>1, <5>1 DEF Previous, LastOf
      <4>2. CASE n # 0
        <5>1. v # << >> /\ k # 1 /\ k - 1 = n /\ n \in 1 .. n
          BY <1>3, <2>2, <4>2 DEF n
        <5> QED BY <1>3, <1>4, <5>1 DEF Previous, LastOf, n
      <4> QED BY <4>1, <4>2
    <3>3. LastOf(v) \in Nat
      <4>1. CASE v = << >>
        BY <4>1 DEF LastOf
      <4>2. CASE v # << >>
        BY <1>3, <4>2 DEF LastOf, n
      <4> QED BY <4>1, <4>2
    <3> QED BY <1>1, <3>1, <3>2, <3>3
  <2>3. CASE k \in n + 2 .. n + g
    <3>1. k - n \in 1 .. g /\ (k - n) - 1 \in 1 .. g /\ n + (k - n) = k /\ n + ((k - n) - 1) = k - 1 /\ k # 1
      BY <1>1, <1>3, <2>3
    <3>2. u[k] = cu + (k - n) /\ u[k - 1] = cu + ((k - n) - 1)
      BY <1>4, <3>1
    <3> QED BY <1>1, <1>3, <3>1, <3>2 DEF Previous
  <2> QED BY <1>1, <1>3, <2>1, <2>2, <2>3
<1>7. LastOf(u) = cu + g
  <2>1. u # << >> /\ u[n + g] = cu + g
    BY <1>1, <1>3, <1>4
  <2> QED BY <1>4, <2>1 DEF LastOf
<1> QED BY <1>2, <1>4, <1>5, <1>6, <1>7 DEF Learns, b, u, g

LEMMA WarmUpInv == ASSUME IInv, WarmUp PROVE IInv'
<1>1. /\ pc = "warm" /\ pc' = "train" /\ cursor' = (IF graph THEN cursor + Warmup ELSE cursor)
      /\ UNCHANGED <<path, safe, settled, powerLost, launches, model, graph, step, mem, stream,
                     buf, out, i, cudaIdx, seen>>
  BY DEF WarmUp, disk, launch, loop
<1>2. Types /\ RunSound /\ DiskSound /\ Running
  BY <1>1 DEF IInv, Running
<1>3. /\ \A t \in Range(Tensors) : Total(t) = Lesson
      /\ Learns(Lesson, step, cursor)
      /\ stream = << >> /\ (step < MaxSteps => LastOf(Lesson) = cursor)
      /\ out = NoFile
  BY <1>1, <1>2 DEF RunSound, Saving
<1>4. step \in Nat /\ cursor \in Nat /\ Warmup \in Nat /\ Lesson \in Seq(Nat)
  BY <1>2, CheckpointAssumption, LessonTyped DEF Types
<1>5. Learns(Lesson, step, cursor') /\ cursor' - cursor \in {0, Warmup} /\ cursor' \in Nat
  <2>1. Learns(Lesson, step, cursor + Warmup)
    BY <1>3, <1>4, LearnsLonger
  <2> QED BY <1>1, <1>3, <1>4, <2>1
<1>6. Tensors' = Tensors /\ Lesson' = Lesson /\ \A t \in Range(Tensors) : Total(t)' = Total(t)
  BY <1>1, LessonKept
<1>7. Types'
  BY <1>1, <1>2, <1>5, <1>6 DEF Types
<1>8. DiskSound' /\ Off' /\ Loading'
  BY <1>1, <1>2 DEF DiskSound, Off, Loading, Ended
<1>9. OnlySteps'
  BY <1>1, <1>3 DEF OnlySteps
<1>10. RunSound'
  BY <1>1, <1>3, <1>4, <1>5, <1>6, <1>9 DEF RunSound, Saving
<1> QED BY <1>7, <1>8, <1>10 DEF IInv

(* An optimiser step teaches every tensor the next batches. *)
LEMMA TrainStepTeaches ==
  ASSUME IInv, TrainStep
  PROVE  LET b == Batches(cursor, GradAccum)
         IN  /\ b \in Seq(Nat) /\ Len(b) = GradAccum
             /\ Learns(Lesson \o b, step + 1, cursor + GradAccum)
             /\ LastOf(Lesson \o b) = cursor + GradAccum
             /\ StepOp(b) \in Work(Range(Tensors)) /\ stream' \in Seq(Work(Range(Tensors)))
             /\ Tensors' = Tensors /\ Lesson' = Lesson \o b
             /\ \A t \in Range(Tensors) : Total(t)' = Total(t) \o b
<1> DEFINE b == Batches(cursor, GradAccum)
           w == StepOp(b)
<1>1. /\ pc = "train" /\ step < MaxSteps /\ step' = step + 1 /\ cursor' = cursor + GradAccum
      /\ stream' = Append(stream, w)
      /\ pc' = (IF step' % Interval = 0 THEN "save" ELSE "train")
      /\ UNCHANGED <<path, safe, settled, powerLost, launches, model, graph, mem, buf, out,
                     i, cudaIdx, seen>>
  BY DEF TrainStep, disk, launch, loop
<1>2. Types /\ RunSound /\ DiskSound /\ Running
  BY <1>1 DEF IInv, Running
<1>3. /\ \A t \in Range(Tensors) : Total(t) = Lesson
      /\ Learns(Lesson, step, cursor) /\ cursor - LastOf(Lesson) \in {0, Warmup}
      /\ OnlySteps /\ out = NoFile
  BY <1>1, <1>2 DEF RunSound, Saving
<1>4. step \in Nat /\ cursor \in Nat /\ MaxSteps \in Nat /\ GradAccum \in Nat
      /\ stream \in Seq(Work(Range(Tensors)))
  BY <1>2, CheckpointAssumption DEF Types
<1>5. /\ b \in Seq(Nat) /\ Learns(Lesson \o b, step + 1, cursor + GradAccum)
      /\ LastOf(Lesson \o b) = cursor + GradAccum
  BY <1>3, <1>4, LearnsStep
<1>6. w \in Work(Range(Tensors)) /\ w.op = "step" /\ BatchesOf(w) = b
  BY <1>5 DEF StepOp, Work, StepOps, BatchesOf
<1> HIDE DEF b, w
<1>7. stream' \in Seq(Work(Range(Tensors))) /\ Queued' = Queued \o b
  <2>1. LearntBy(Append(stream, w)) = LearntBy(stream) \o BatchesOf(w)
    BY <1>4, <1>6, LearntAppend
  <2>2. Append(stream, w) \in Seq(Work(Range(Tensors)))
    BY <1>4, <1>6, AppendOn
  <2> QED BY <1>1, <1>6, <2>1, <2>2, QueuedIs, QueuedIsNext
<1>8. Tensors' = Tensors /\ \A t \in Range(Tensors) : Total(t)' = Total(t) \o b
  <2>1. ASSUME NEW t \in Range(Tensors) PROVE mem[t] \o (Queued \o b) = (mem[t] \o Queued) \o b
    <3> DEFINE x == mem[t]
               y == Queued
    <3>1. x \in Seq(Nat) /\ y \in Seq(Nat)
      BY <1>2, LessonTyped
    <3> HIDE DEF x, y
    <3>2. x \o (y \o b) = (x \o y) \o b
      BY <1>5, <3>1
    <3> QED BY <3>2 DEF x, y
  <2> QED BY <1>1, <1>7, <2>1 DEF Total, Tensors
<1>9. Lesson' = Lesson \o b
  <2>1. Tensors[1] \in Range(Tensors) /\ Tensors'[1] = Tensors[1]
    BY <1>2, <1>8, LessonTyped
  <2> QED BY <1>8, <2>1 DEF Lesson, Total
<1>10. Len(b) = GradAccum
  BY <1>4 DEF b, Batches
<1> QED BY <1>5, <1>6, <1>7, <1>8, <1>9, <1>10 DEF b, w

LEMMA TrainStepInv == ASSUME IInv, TrainStep PROVE IInv'
<1> DEFINE b == Batches(cursor, GradAccum)
           w == StepOp(b)
<1>1. /\ pc = "train" /\ step < MaxSteps /\ step' = step + 1 /\ cursor' = cursor + GradAccum
      /\ stream' = Append(stream, w)
      /\ pc' = (IF step' % Interval = 0 THEN "save" ELSE "train")
      /\ UNCHANGED <<path, safe, settled, powerLost, launches, model, graph, mem, buf, out,
                     i, cudaIdx, seen>>
  BY DEF TrainStep, disk, launch, loop
<1>2. Types /\ RunSound /\ DiskSound /\ Running
  BY <1>1 DEF IInv, Running
<1>3. /\ \A t \in Range(Tensors) : Total(t) = Lesson
      /\ Learns(Lesson, step, cursor) /\ cursor - LastOf(Lesson) \in {0, Warmup}
      /\ OnlySteps /\ out = NoFile
  BY <1>1, <1>2 DEF RunSound, Saving
<1>4. step \in Nat /\ cursor \in Nat /\ MaxSteps \in Nat /\ GradAccum \in Nat
      /\ stream \in Seq(Work(Range(Tensors)))
  BY <1>2, CheckpointAssumption DEF Types
<1>5. /\ b \in Seq(Nat) /\ Learns(Lesson \o b, step + 1, cursor + GradAccum)
      /\ LastOf(Lesson \o b) = cursor + GradAccum
      /\ w \in Work(Range(Tensors)) /\ stream' \in Seq(Work(Range(Tensors)))
      /\ Tensors' = Tensors /\ Lesson' = Lesson \o b
      /\ \A t \in Range(Tensors) : Total(t)' = Total(t) \o b
  BY TrainStepTeaches
<1>6. w.op = "step"
  BY DEF StepOp
<1> HIDE DEF b, w
<1>7. Types'
  BY <1>1, <1>2, <1>4, <1>5 DEF Types
<1>8. DiskSound' /\ Off' /\ Loading'
  BY <1>1, <1>2 DEF DiskSound, Off, Loading, Ended
<1>9. OnlySteps'
  <2>1. DOMAIN stream = 1 .. Len(stream) /\ DOMAIN stream' = 1 .. Len(stream) + 1
        /\ Len(stream) \in Nat
        /\ stream'[Len(stream) + 1] = w /\ \A k \in 1 .. Len(stream) : stream'[k] = stream[k]
    BY <1>1, <1>4, <1>5
  <2>2. \A k \in DOMAIN stream' : stream'[k].op = "step"
    BY <1>3, <1>6, <2>1 DEF OnlySteps
  <2> QED BY <2>2 DEF OnlySteps
<1>10. RunSound'
  <2>1. \A t \in Range(Tensors') : Total(t)' = Lesson'
    BY <1>3, <1>5
  <2>2. Learns(Lesson', step', cursor') /\ LastOf(Lesson') = cursor' /\ cursor' - cursor' = 0
    BY <1>1, <1>4, <1>5
  <2> QED BY <1>1, <1>3, <1>9, <2>1, <2>2 DEF RunSound, Saving
<1> QED BY <1>7, <1>8, <1>10 DEF IInv

LEMMA FinishInv == ASSUME IInv, Finish PROVE IInv'
<1>1. /\ pc = "train" /\ step >= MaxSteps /\ stream = << >> /\ pc' = "final"
      /\ UNCHANGED <<path, safe, settled, powerLost, launches, model, graph, step, cursor, mem,
                     stream, buf, out, i, cudaIdx, seen>>
  BY DEF Finish, disk, launch, position, loop
<1>2. Types /\ RunSound /\ DiskSound /\ Running
  BY <1>1 DEF IInv, Running
<1>3. Tensors' = Tensors /\ Lesson' = Lesson /\ \A t \in Range(Tensors) : Total(t)' = Total(t)
  BY <1>1, LessonKept
<1>4. Types'
  BY <1>1, <1>2, <1>3 DEF Types
<1>5. DiskSound' /\ Off' /\ Loading'
  BY <1>1, <1>2 DEF DiskSound, Off, Loading, Ended
<1>6. step = MaxSteps
  BY <1>1, <1>2, CheckpointAssumption DEF Types
<1>7. /\ \A t \in Range(Tensors) : Total(t) = Lesson
      /\ Learns(Lesson, step, cursor) /\ OnlySteps /\ out = NoFile
  BY <1>1, <1>2 DEF RunSound, Saving
<1>8. OnlySteps'
  BY <1>1 DEF OnlySteps
<1>9. RunSound'
  BY <1>1, <1>3, <1>6, <1>7, <1>8 DEF RunSound, Saving
<1> QED BY <1>4, <1>5, <1>9 DEF IInv

(* A launch that ends without touching the disk. *)
LEMMA StopInv ==
  ASSUME IInv, NEW how \in Ended, Ends(how), UNCHANGED disk
  PROVE  IInv'
<1>1. DiskSound'
  BY DEF IInv, DiskSound, disk
<1> QED BY <1>1, EndsInv DEF IInv

-----------------------------------------------------------------------------
(* Saving: the header and the first two copies, a record, the rename.      *)
LEMMA SaveOpenTeachesNothing ==
  ASSUME IInv, SaveOpen
  PROVE  stream' \in Seq(Work(Range(Tensors))) /\ LearntBy(stream') = LearntBy(stream)
<1>1. stream' = stream \o Kick(1) \o Kick(2) /\ Types
  BY DEF SaveOpen, IInv
<1> DEFINE s == stream \o Kick(1)
<1>2. s \in Seq(Work(Range(Tensors))) /\ LearntBy(s) = LearntBy(stream)
  BY <1>1, KickTeachesNothing DEF Types
<1> HIDE DEF s
<1>3. s \o Kick(2) \in Seq(Work(Range(Tensors))) /\ LearntBy(s \o Kick(2)) = LearntBy(s)
  BY <1>1, <1>2, KickTeachesNothing
<1> QED BY <1>1, <1>2, <1>3 DEF s

LEMMA SaveOpenInv == ASSUME IInv, SaveOpen PROVE IInv'
<1>1. /\ Saving /\ out = NoFile
      /\ out' = [step |-> IF pc = "final" THEN MaxSteps ELSE step,
                 cursor |-> cursor, n |-> Len(Tensors), records |-> << >>]
      /\ stream' = stream \o Kick(1) \o Kick(2) /\ i' = 1
      /\ UNCHANGED <<path, safe, settled, powerLost, launches, model, graph, pc, step, cursor,
                     mem, buf, cudaIdx, seen>>
  BY DEF SaveOpen, disk, launch, position
<1>2. Types /\ RunSound /\ DiskSound /\ Running
  BY <1>1 DEF IInv, Running, Saving
<1>3. /\ \A t \in Range(Tensors) : Total(t) = Lesson
      /\ Learns(Lesson, step, cursor) /\ OnlySteps
      /\ pc = "save" => LastOf(Lesson) = cursor
      /\ pc = "final" => step = MaxSteps
  BY <1>1, <1>2 DEF RunSound
<1>4. stream \in Seq(Work(Range(Tensors))) /\ step \in Nat /\ cursor \in Nat
      /\ Len(Tensors) \in Nat \ {0}
  BY <1>2, LessonTyped, CheckpointAssumption DEF Types
<1>5. stream' \in Seq(Work(Range(Tensors))) /\ LearntBy(stream') = LearntBy(stream)
  BY SaveOpenTeachesNothing
<1>6. Tensors' = Tensors /\ Lesson' = Lesson /\ \A t \in Range(Tensors) : Total(t)' = Total(t)
  BY <1>1, <1>5, LessonKept
<1>7. Types'
  BY <1>1, <1>2, <1>5, <1>6 DEF Types
<1>8. DiskSound' /\ Off' /\ Loading'
  BY <1>1, <1>2 DEF DiskSound, Off, Loading, Ended, Saving
<1>9. CopiesUnderWay'
  <2>1. stream \in Seq(StepOps)
    <3>1. \A k \in 1 .. Len(stream) : stream[k] \in StepOps
      BY <1>3, <1>4 DEF OnlySteps, Work, Copies
    <3>2. Len(stream) \in Nat /\ stream = [k \in 1 .. Len(stream) |-> stream[k]]
      BY <1>4
    <3> QED BY <3>1, <3>2, SeqDef
  <2>2. Kick(1)' = Kick(1) /\ Kick(2)' = Kick(2)
    BY <1>6 DEF Kick
  <2>3. (Kick(i) = Kick(1))' /\ (Kick(i + 1) = Kick(2))'
    BY <1>1
  <2>4. \E q \in Seq(StepOps) : (stream = (q \o Kick(i)) \o Kick(i + 1))'
    BY <1>1, <2>1, <2>2, <2>3
  <2> QED BY <2>4 DEF CopiesUnderWay
<1>10. Writing'
  <2> DEFINE R == [tensor : UNION {Range(TensorsOf(m)) : m \in Models}, data : Seq(Nat)]
  <2>1. /\ out'.step = step /\ out'.cursor = cursor /\ out'.n = Len(Tensors) /\ out'.records = << >>
        /\ out' = [step |-> step, cursor |-> cursor, n |-> Len(Tensors), records |-> << >>]
    BY <1>1, <1>3
  <2>2. out' \in Files
    <3>1. << >> \in Seq(R)
      OBVIOUS
    <3> HIDE DEF R
    <3>2. out' \in [step : Nat, cursor : Nat, n : Nat, records : Seq(R)]
      BY <1>4, <2>1, <3>1
    <3> QED BY <3>2 DEF Files, R
  <2>3. Len(out'.records) = 0 /\ i' - 1 = 0 /\ i' \in 1 .. Len(Tensors) + 1
    BY <1>1, <1>4, <2>1
  <2>4. Files' = Files
    BY DEF Files
  <2>5. \A k \in 1 .. i' - 1 : FALSE
    BY <2>3
  <2> QED BY <1>1, <1>6, <1>9, <2>1, <2>2, <2>3, <2>4, <2>5 DEF Writing
<1>11. RunSound'
  <2>1. out' # NoFile
    BY <1>10, NoFileAssumption DEF Writing, Files
  <2> QED BY <1>1, <1>3, <1>6, <1>10, <2>1 DEF RunSound, Saving
<1> QED BY <1>7, <1>8, <1>11 DEF IInv

(* The record in turn goes to the file when its copy has reached the       *)
(* buffer.                                                                 *)
LEMMA SaveWriteCopies ==
  ASSUME Types, SaveWrite, Writing
  PROVE  /\ buf[Slot(i)] = Lesson
         /\ stream' \in Seq(Work(Range(Tensors))) /\ LearntBy(stream') = LearntBy(stream)
         /\ CopiesUnderWay'
<1> DEFINE n == Len(Tensors)
<1>1. /\ i <= n /\ Passed(Slot(i)) /\ stream' = stream \o Kick(i + 2) /\ i' = i + 1
      /\ UNCHANGED <<model, mem, buf>>
  BY DEF SaveWrite, launch
<1>2. i \in Nat \ {0} /\ i + 1 \in Nat \ {0} /\ i + 2 \in Nat \ {0} /\ n \in Nat /\ i + 2 = (i + 1) + 1
  BY LessonTyped DEF Writing
<1>3. stream' \in Seq(Work(Range(Tensors))) /\ LearntBy(stream') = LearntBy(stream)
  BY <1>1, <1>2, KickTeachesNothing DEF Types
<1>4. Tensors' = Tensors /\ Lesson' = Lesson
  BY <1>1, <1>3, LessonKept
<1>5. Kick(i)' = Kick(i + 1) /\ Kick(i + 1)' = Kick(i + 2)
  BY <1>1, <1>2, <1>4 DEF Kick
<1>6. Kick(i) \in Seq(Work(Range(Tensors))) /\ Kick(i + 1) \in Seq(Work(Range(Tensors)))
      /\ Kick(i + 2) \in Seq(Work(Range(Tensors)))
  BY <1>2, KickFacts
<1>7. CASE \E q \in Seq(StepOps) : stream = (q \o Kick(i)) \o Kick(i + 1)
  <2>1. PICK q \in Seq(StepOps) : stream = (q \o Kick(i)) \o Kick(i + 1)
    BY <1>7
  <2> DEFINE w == ToHost(Tensors[i], Slot(i))
             W == Work(Range(Tensors))
             b == Kick(i + 1)
  <2>2. Kick(i) = <<w>>
    BY <1>1, <1>2, KickFacts
  <2>3. w.op = "d2h" /\ w.slot = Slot(i)
    BY DEF ToHost
  <2>4. q \in Seq(W) /\ b \in Seq(W) /\ <<w>> \in Seq(W)
    <3>1. q \in Seq(W)
      BY DEF Work
    <3>2. b \in Seq(W) /\ <<w>> \in Seq(W)
      BY <1>6, <2>2
    <3> QED BY <3>1, <3>2
  <2>5. stream = (q \o <<w>>) \o b
    BY <2>1, <2>2
  <2> HIDE DEF w, W, b
  <2>6. w \in Range(stream)
    <3>1. q \o <<w>> \in Seq(W) /\ Len(q \o <<w>>) = Len(q) + 1 /\ Len(q) \in Nat
          /\ (q \o <<w>>)[Len(q) + 1] = w
      BY <2>4
    <3> DEFINE c == q \o <<w>>
    <3>2. c \in Seq(W) /\ Len(c) = Len(q) + 1 /\ c[Len(q) + 1] = w
      BY <3>1
    <3> HIDE DEF c
    <3>3. Len(q) + 1 \in DOMAIN (c \o b) /\ (c \o b)[Len(q) + 1] = c[Len(q) + 1]
      BY <2>4, <3>1, <3>2
    <3> QED BY <2>5, <3>2, <3>3 DEF c, Range
  <2>7. w.op # "step" => w.slot # Slot(i)
    BY <1>1, <2>6 DEF Passed
  <2> QED BY <2>3, <2>7
<1>8. CASE stream = Kick(i + 1) /\ (i <= n => buf[Slot(i)] = Lesson)
  <2>1. << >> \in Seq(StepOps) /\ << >> \o Kick(i + 1) = Kick(i + 1)
    BY <1>6
  <2>2. stream' = (<< >> \o Kick(i + 1)) \o Kick(i + 2)
    BY <1>1, <1>8, <2>1
  <2>3. (\E q \in Seq(StepOps) : stream = (q \o Kick(i)) \o Kick(i + 1))'
    BY <1>5, <2>1, <2>2
  <2>4. CopiesUnderWay'
    BY <2>3 DEF CopiesUnderWay
  <2> QED BY <1>1, <1>3, <1>8, <2>4
<1>9. CASE /\ stream = << >>
           /\ i <= n => buf[Slot(i)] = Lesson
           /\ i + 1 <= n => buf[Slot(i + 1)] = Lesson
  <2>1. stream' = Kick(i + 2)
    <3>1. << >> \o Kick(i + 2) = Kick(i + 2)
      BY <1>6
    <3> QED BY <1>1, <1>9, <3>1
  <2>2. (stream = Kick(i + 1))' /\ (i <= Len(Tensors) => buf[Slot(i)] = Lesson)'
    BY <1>1, <1>4, <1>5, <1>9, <2>1
  <2>3. CopiesUnderWay'
    BY <2>2 DEF CopiesUnderWay
  <2> QED BY <1>1, <1>3, <1>9, <2>3
<1> QED BY <1>7, <1>8, <1>9 DEF Writing, CopiesUnderWay

LEMMA SaveWriteInv == ASSUME IInv, SaveWrite PROVE IInv'
<1> DEFINE r == [tensor |-> Tensors[i], data |-> buf[Slot(i)]]
           R == [tensor : UNION {Range(TensorsOf(m)) : m \in Models}, data : Seq(Nat)]
           n == Len(Tensors)
<1>1. /\ Saving /\ out # NoFile /\ i <= n
      /\ out' = [out EXCEPT !.records = Append(out.records, r)] /\ i' = i + 1
      /\ UNCHANGED <<path, safe, settled, powerLost, launches, model, graph, pc, step, cursor,
                     mem, buf, cudaIdx, seen>>
  BY DEF SaveWrite, disk, launch, position
<1>2. Types /\ RunSound /\ DiskSound /\ Running
  BY <1>1 DEF IInv, Running, Saving
<1>3. /\ \A t \in Range(Tensors) : Total(t) = Lesson
      /\ Learns(Lesson, step, cursor) /\ Writing
      /\ pc = "save" => LastOf(Lesson) = cursor
      /\ pc = "final" => step = MaxSteps
  BY <1>1, <1>2 DEF RunSound
<1>4. /\ buf[Slot(i)] = Lesson
      /\ stream' \in Seq(Work(Range(Tensors))) /\ LearntBy(stream') = LearntBy(stream)
      /\ CopiesUnderWay'
  BY <1>2, <1>3, SaveWriteCopies
<1>5. Tensors' = Tensors /\ Lesson' = Lesson /\ \A t \in Range(Tensors) : Total(t)' = Total(t)
  BY <1>1, <1>4, LessonKept
<1>6. Types'
  BY <1>1, <1>2, <1>4, <1>5 DEF Types
<1>7. DiskSound' /\ Off' /\ Loading'
  BY <1>1, <1>2 DEF DiskSound, Off, Loading, Ended, Saving
<1>8. /\ i \in 1 .. n + 1 /\ n \in Nat
      /\ out \in Files /\ out.step = step /\ out.cursor = cursor /\ out.n = n
      /\ Len(out.records) = i - 1
      /\ \A k \in 1 .. i - 1 : out.records[k].tensor = Tensors[k] /\ out.records[k].data = Lesson
  BY <1>2, <1>3, LessonTyped DEF Writing
<1>9. i \in 1 .. n /\ i' - 1 = i /\ i' \in 1 .. n + 1
  BY <1>1, <1>8
<1>10. r \in R /\ r.tensor = Tensors[i] /\ r.data = Lesson
  <2>1. Tensors[i] \in Range(Tensors) /\ Lesson \in Seq(Nat)
    BY <1>2, <1>9, LessonTyped
  <2>2. Tensors[i] \in UNION {Range(TensorsOf(m)) : m \in Models}
    BY <1>2, <2>1 DEF Types, Tensors
  <2> QED BY <1>4, <2>1, <2>2
<1> HIDE DEF r, R
<1>11. out.records \in Seq(R)
  BY <1>8 DEF Files, R
<1>12. /\ Append(out.records, r) \in Seq(R) /\ Len(Append(out.records, r)) = i
       /\ Append(out.records, r)[i] = r
       /\ \A k \in 1 .. i - 1 : Append(out.records, r)[k] = out.records[k]
  BY <1>8, <1>9, <1>10, <1>11
<1>13. /\ out' \in Files /\ out'.step = step /\ out'.cursor = cursor /\ out'.n = n
       /\ out'.records = Append(out.records, r)
  <2> DEFINE a == Append(out.records, r)
  <2>1. a \in Seq(R) /\ out' = [out EXCEPT !.records = a]
    BY <1>1, <1>12
  <2> HIDE DEF a
  <2>2. out \in [step : Nat, cursor : Nat, n : Nat, records : Seq(R)]
    BY <1>8 DEF Files, R
  <2>3. /\ out' \in [step : Nat, cursor : Nat, n : Nat, records : Seq(R)]
        /\ out'.step = out.step /\ out'.cursor = out.cursor /\ out'.n = out.n /\ out'.records = a
    BY <2>1, <2>2
  <2> QED BY <1>8, <2>3 DEF Files, R, a
<1>14. Writing'
  <2>1. \A k \in 1 .. i : out'.records[k].tensor = Tensors[k] /\ out'.records[k].data = Lesson
    <3> SUFFICES ASSUME NEW k \in 1 .. i
                 PROVE  out'.records[k].tensor = Tensors[k] /\ out'.records[k].data = Lesson
      OBVIOUS
    <3>1. CASE k = i
      BY <1>10, <1>12, <1>13, <3>1
    <3>2. CASE k \in 1 .. i - 1
      BY <1>8, <1>12, <1>13, <3>2
    <3> QED BY <1>9, <3>1, <3>2
  <2>2. Files' = Files
    BY DEF Files
  <2>3. Len(out'.records) = i
    BY <1>12, <1>13
  <2> QED BY <1>1, <1>4, <1>5, <1>9, <1>13, <2>1, <2>2, <2>3 DEF Writing
<1>15. RunSound'
  <2>1. out' # NoFile
    BY <1>13, NoFileAssumption
  <2> QED BY <1>1, <1>3, <1>5, <1>14, <2>1 DEF RunSound, Saving
<1> QED BY <1>6, <1>7, <1>15 DEF IInv

(* When every record is written, only steps can be left on the stream. *)
LEMMA NothingLeftToCopy ==
  ASSUME Types, Writing, i > Len(Tensors)
  PROVE  OnlySteps
<1>1. i \in Nat \ {0} /\ i + 1 \in Nat \ {0} /\ i + 1 > Len(Tensors)
  BY LessonTyped DEF Writing
<1>2. Kick(i) = << >> /\ Kick(i + 1) = << >>
  BY <1>1, KickFacts
<1>3. CASE \E q \in Seq(StepOps) : stream = (q \o Kick(i)) \o Kick(i + 1)
  <2>1. PICK q \in Seq(StepOps) : stream = (q \o Kick(i)) \o Kick(i + 1)
    BY <1>3
  <2>2. (q \o << >>) \o << >> = q
    OBVIOUS
  <2>3. stream = q
    BY <1>2, <2>1, <2>2
  <2>4. \A k \in DOMAIN q : q[k] \in StepOps
    OBVIOUS
  <2>5. \A k \in DOMAIN q : q[k].op = "step"
    BY <2>4 DEF StepOps
  <2> QED BY <2>3, <2>5 DEF OnlySteps
<1>4. CASE stream = << >>
  BY <1>4 DEF OnlySteps
<1> QED BY <1>2, <1>3, <1>4 DEF Writing, CopiesUnderWay

LEMMA SaveCloseInv == ASSUME IInv, SaveClose PROVE IInv'
<1>1. /\ Saving /\ out # NoFile /\ i > Len(Tensors)
      /\ path' = out /\ out' = NoFile /\ settled' = FALSE
      /\ pc' = (IF pc = "final" THEN "done" ELSE "train")
      /\ i' = 0 /\ buf' = Unused
      /\ UNCHANGED <<safe, powerLost, launches, model, graph, step, cursor, mem, stream, cudaIdx, seen>>
  BY DEF SaveClose, launch, position
<1>2. Types /\ RunSound /\ DiskSound /\ Running
  BY <1>1 DEF IInv, Running, Saving
<1>3. /\ \A t \in Range(Tensors) : Total(t) = Lesson
      /\ Learns(Lesson, step, cursor) /\ Writing
      /\ pc = "save" => LastOf(Lesson) = cursor
      /\ pc = "final" => step = MaxSteps
  BY <1>1, <1>2 DEF RunSound
<1>4. OnlySteps
  BY <1>1, <1>2, <1>3, NothingLeftToCopy
<1>5. Tensors' = Tensors /\ Lesson' = Lesson /\ \A t \in Range(Tensors) : Total(t)' = Total(t)
  BY <1>1, LessonKept
<1>6. Types'
  BY <1>1, <1>2, <1>5, UnusedTyped DEF Types
<1>7. Len(Tensors) \in Nat /\ cursor \in Nat /\ step \in 0 .. MaxSteps /\ MaxSteps \in Nat
  BY <1>2, LessonTyped, CheckpointAssumption DEF Types
<1>8. /\ out \in Files /\ out.step = step /\ out.cursor = cursor /\ out.n = Len(Tensors)
      /\ Len(out.records) = Len(Tensors)
      /\ \A k \in 1 .. Len(Tensors) : out.records[k].tensor = Tensors[k] /\ out.records[k].data = Lesson
  <2>1. i - 1 = Len(Tensors)
    BY <1>1, <1>3, <1>7 DEF Writing
  <2> QED BY <1>3, <2>1 DEF Writing
<1>9. FileSound(out)
  <2>1. DOMAIN out.records = 1 .. Len(Tensors)
    BY <1>8 DEF Files
  <2>2. \A k \in DOMAIN out.records :
          LET v == out.records[k].data
          IN  /\ v = out.records[1].data
              /\ Learns(v, out.step, out.cursor)
              /\ out.step < MaxSteps => LastOf(v) = out.cursor
    <3> SUFFICES ASSUME NEW k \in DOMAIN out.records
                 PROVE  /\ out.records[k].data = out.records[1].data
                        /\ Learns(out.records[k].data, out.step, out.cursor)
                        /\ out.step < MaxSteps => LastOf(out.records[k].data) = out.cursor
      OBVIOUS
    <3>1. out.records[k].data = Lesson /\ out.records[1].data = Lesson
      BY <1>7, <1>8, <2>1
    <3>2. step < MaxSteps => LastOf(Lesson) = cursor
      BY <1>1, <1>3, <1>7 DEF Saving
    <3> QED BY <1>3, <1>8, <3>1, <3>2
  <2>3. \E m \in Models : /\ out.n = Len(TensorsOf(m))
                          /\ \A k \in DOMAIN out.records : out.records[k].tensor = TensorsOf(m)[k]
    BY <1>2, <1>8, <2>1 DEF Types, Tensors
  <2> QED BY <1>7, <1>8, <2>2, <2>3 DEF FileSound
<1>10. DiskSound'
  <2>1. (~powerLost => path = NoFile \/ Len(path.records) = path.n)'
    BY <1>1, <1>8
  <2>2. FileSound(path')
    BY <1>1, <1>9
  <2>3. (path = NoFile \/ FileSound(path))' /\ (safe = NoFile \/ FileSound(safe))'
    BY <1>1, <1>2, <2>2 DEF DiskSound
  <2> QED BY <1>1, <1>2, <2>1, <2>3 DEF DiskSound
<1>11. Off' /\ Loading'
  BY <1>1 DEF Off, Loading, Ended
<1>12. OnlySteps'
  BY <1>1, <1>4 DEF OnlySteps
<1>13. cursor - cursor = 0
  BY <1>7
<1>14. RunSound'
  BY <1>1, <1>3, <1>5, <1>12, <1>13 DEF RunSound, Saving
<1> QED BY <1>6, <1>10, <1>11, <1>14 DEF IInv

-----------------------------------------------------------------------------
(* Loading.                                                                *)
LEMMA LoadOpenInv == ASSUME IInv, LoadOpen PROVE IInv'
<1>1. /\ pc = "load" /\ i = 0 /\ path # NoFile /\ path.n = Len(Tensors) /\ i' = 1
      /\ UNCHANGED <<path, safe, settled, powerLost, launches, model, graph, pc, step, cursor,
                     mem, stream, buf, out, cudaIdx, seen>>
  BY DEF LoadOpen, Readable, disk, launch, position
<1>2. Types /\ DiskSound /\ Off
  BY DEF IInv
<1>3. stream = << >> /\ seen = {}
  BY <1>1, <1>2 DEF Off
<1>4. Tensors' = Tensors
  BY <1>1 DEF Tensors
<1>5. Types' /\ DiskSound' /\ Off'
  BY <1>1, <1>2, <1>4 DEF Types, DiskSound, Off
<1>6. Loading'
  <2>1. FileSound(path)
    BY <1>1, <1>2 DEF DiskSound
  <2>2. Len(path.records) \in Nat
    BY <2>1 DEF FileSound, Files
  <2>3. i' - 1 = 0 /\ DOMAIN stream' = {}
    BY <1>1, <1>3
  <2> QED BY <1>1, <1>3, <1>4, <2>2, <2>3 DEF Loading
<1>7. RunSound'
  BY <1>1 DEF RunSound, Running
<1> QED BY <1>5, <1>6, <1>7 DEF IInv

LEMMA LoadRecordInv == ASSUME IInv, LoadRecord PROVE IInv'
<1> DEFINE r == path.records[i]
           s == cudaIdx % 2
           w == ToDevice(r.tensor, s)
           d == path.records[1].data
<1>1. /\ pc = "load" /\ i # 0 /\ i <= path.n /\ i <= Len(path.records)
      /\ r.tensor \in Targets(r) /\ Passed(s)
      /\ buf' = [buf EXCEPT ![s] = r.data] /\ stream' = Append(stream, w)
      /\ cudaIdx' = cudaIdx + 1 /\ seen' = seen \union {r.tensor} /\ i' = i + 1
      /\ UNCHANGED <<path, safe, settled, powerLost, launches, model, graph, pc, step, cursor,
                     mem, out>>
  BY DEF LoadRecord, Reading, disk, launch, position
<1>2. Types /\ DiskSound /\ Off /\ Loading
  BY DEF IInv
<1>3. /\ path # NoFile /\ path.n = Len(Tensors) /\ i - 1 <= Len(path.records)
      /\ \A k \in DOMAIN stream : stream[k].op = "h2d" /\ i > 1 /\ buf[stream[k].slot] = d
      /\ \A t \in seen : i > 1 /\ (mem[t] = d \/ \E k \in DOMAIN stream : stream[k].tensor = t)
      /\ \A k \in 1 .. i - 1 : path.records[k].tensor \in Range(Tensors) => path.records[k].tensor \in seen
  BY <1>1, <1>2 DEF Loading
<1>4. i \in Nat \ {0} /\ cudaIdx \in Nat /\ s \in 0 .. 1 /\ stream \in Seq(Work(Range(Tensors)))
      /\ buf \in [0 .. 1 -> Seq(Nat)]
  BY <1>1, <1>2 DEF Types
<1>5. r.tensor \in Range(Tensors)
  BY <1>1 DEF Targets
<1>6. r.data = d /\ d \in Seq(Nat)
  <2> DEFINE R == [tensor : UNION {Range(TensorsOf(m)) : m \in Models}, data : Seq(Nat)]
  <2>1. FileSound(path)
    BY <1>2, <1>3 DEF DiskSound
  <2>2. path.records \in Seq(R)
    BY <2>1 DEF FileSound, Files
  <2>3. i \in DOMAIN path.records
    <3> HIDE DEF R
    <3> QED BY <1>1, <1>4, <2>2
  <2>4. r.data = d
    BY <2>1, <2>3 DEF FileSound
  <2>5. r \in R
    <3> HIDE DEF R
    <3> QED BY <2>2, <2>3
  <2> QED BY <2>4, <2>5
<1>7. w \in Work(Range(Tensors)) /\ w.op = "h2d" /\ w.tensor = r.tensor /\ w.slot = s
  BY <1>4, <1>5 DEF ToDevice, Work, Copies
<1> HIDE DEF r, s, w, d
<1>8. /\ stream' \in Seq(Work(Range(Tensors))) /\ Len(stream) \in Nat
      /\ DOMAIN stream = 1 .. Len(stream) /\ DOMAIN stream' = 1 .. Len(stream) + 1
      /\ stream'[Len(stream) + 1] = w /\ \A k \in 1 .. Len(stream) : stream'[k] = stream[k]
  BY <1>1, <1>4, <1>7
<1>9. buf' \in [0 .. 1 -> Seq(Nat)] /\ buf'[s] = d /\ \A x \in 0 .. 1 : x # s => buf'[x] = buf[x]
  BY <1>1, <1>4, <1>6
<1>10. Tensors' = Tensors
  BY <1>1 DEF Tensors
<1>11. Types'
  BY <1>1, <1>2, <1>4, <1>5, <1>8, <1>9, <1>10 DEF Types
<1>12. DiskSound'
  BY <1>1, <1>2 DEF DiskSound
<1>13. Off'
  BY <1>1, <1>2, <1>4 DEF Off
<1>14. i' > 1 /\ i' - 1 = i
  BY <1>1, <1>4
<1>15. ASSUME NEW k \in DOMAIN stream'
       PROVE  stream'[k].op = "h2d" /\ buf'[stream'[k].slot] = d
  <2>1. CASE k = Len(stream) + 1
    BY <1>7, <1>8, <1>9, <2>1
  <2>2. CASE k \in DOMAIN stream
    <3>1. stream'[k] = stream[k] /\ stream[k].op = "h2d" /\ buf[stream[k].slot] = d
      BY <1>3, <1>8, <2>2
    <3>2. stream[k].slot # s
      BY <1>1, <2>2, <3>1 DEF Passed, Range
    <3>3. stream[k] \in Work(Range(Tensors))
      BY <1>4, <2>2
    <3>4. stream[k].slot \in 0 .. 1
      BY <3>1, <3>3 DEF Work, StepOps, Copies
    <3> QED BY <1>9, <3>1, <3>2, <3>4
  <2> QED BY <1>8, <2>1, <2>2
<1>16. ASSUME NEW t \in seen' PROVE mem[t] = d \/ \E k \in DOMAIN stream' : stream'[k].tensor = t
  <2>1. CASE t = r.tensor
    BY <1>7, <1>8, <2>1
  <2>2. CASE t \in seen
    BY <1>3, <1>8, <2>2
  <2> QED BY <1>1, <2>1, <2>2
<1>17. ASSUME NEW k \in 1 .. i, path.records[k].tensor \in Range(Tensors)
       PROVE  path.records[k].tensor \in seen'
  BY <1>1, <1>3, <1>4, <1>17 DEF r
<1>18. Loading'
  BY <1>1, <1>3, <1>10, <1>14, <1>15, <1>16, <1>17 DEF Loading, d
<1>19. RunSound'
  BY <1>1 DEF RunSound, Running
<1> QED BY <1>11, <1>12, <1>13, <1>18, <1>19 DEF IInv

LEMMA LoadSkipsInv == ASSUME IInv, LoadSkips PROVE IInv'
<1>1. /\ pc = "load" /\ i # 0 /\ i <= path.n /\ i <= Len(path.records)
      /\ Targets(path.records[i]) = {} /\ i' = i + 1
      /\ UNCHANGED <<path, safe, settled, powerLost, launches, model, graph, pc, step, cursor,
                     mem, stream, buf, out, cudaIdx, seen>>
  BY DEF LoadSkips, Reading, disk, launch, position
<1>2. Types /\ DiskSound /\ Off /\ Loading
  BY DEF IInv
<1>3. /\ path # NoFile /\ path.n = Len(Tensors)
      /\ \A k \in DOMAIN stream : stream[k].op = "h2d" /\ i > 1 /\ buf[stream[k].slot] = path.records[1].data
      /\ \A t \in seen : i > 1 /\ (mem[t] = path.records[1].data \/ \E k \in DOMAIN stream : stream[k].tensor = t)
      /\ \A k \in 1 .. i - 1 : path.records[k].tensor \in Range(Tensors) => path.records[k].tensor \in seen
  BY <1>1, <1>2 DEF Loading
<1>4. i \in Nat \ {0} /\ i' - 1 = i /\ i' > 1
  BY <1>1, <1>2 DEF Types
<1>5. path.records[i].tensor \notin Range(Tensors)
  BY <1>1 DEF Targets
<1>6. Tensors' = Tensors
  BY <1>1 DEF Tensors
<1>7. Types' /\ DiskSound'
  BY <1>1, <1>2, <1>4, <1>6 DEF Types, DiskSound
<1>8. Off'
  BY <1>1, <1>2, <1>4 DEF Off
<1>9. \A k \in 1 .. i : path.records[k].tensor \in Range(Tensors) => path.records[k].tensor \in seen
  BY <1>3, <1>4, <1>5
<1>10. Loading'
  BY <1>1, <1>3, <1>4, <1>6, <1>9 DEF Loading
<1>11. RunSound'
  BY <1>1 DEF RunSound, Running
<1> QED BY <1>7, <1>8, <1>10, <1>11 DEF IInv

(* When every record has been read and copied, each tensor that was found  *)
(* holds what the file's records hold.                                     *)
LEMMA LoadedFacts ==
  ASSUME IInv, Loaded
  PROVE  /\ stream = << >> /\ FileSound(path) /\ 1 \in DOMAIN path.records
         /\ \A t \in seen : mem[t] = path.records[1].data
<1>1. pc = "load" /\ i # 0 /\ i > path.n /\ Passed(0) /\ Passed(1)
  BY DEF Loaded
<1>2. Types /\ DiskSound /\ Loading
  BY DEF IInv
<1>3. /\ path # NoFile /\ path.n = Len(Tensors) /\ i - 1 <= Len(path.records)
      /\ \A k \in DOMAIN stream : stream[k].op = "h2d"
      /\ \A t \in seen : mem[t] = path.records[1].data \/ \E k \in DOMAIN stream : stream[k].tensor = t
  BY <1>1, <1>2 DEF Loading
<1>4. stream \in Seq(Work(Range(Tensors))) /\ i \in Nat /\ Len(Tensors) \in Nat \ {0}
  BY <1>2, LessonTyped DEF Types
<1>5. DOMAIN stream = {}
  <2> SUFFICES ASSUME NEW k \in DOMAIN stream PROVE FALSE
    OBVIOUS
  <2>1. stream[k] \in Work(Range(Tensors)) /\ stream[k].op = "h2d" /\ stream[k] \in Range(stream)
    BY <1>3, <1>4 DEF Range
  <2>2. stream[k].slot \in 0 .. 1
    BY <2>1 DEF Work, StepOps, Copies
  <2>3. stream[k].slot # 0 /\ stream[k].slot # 1
    BY <1>1, <2>1 DEF Passed
  <2> QED BY <2>2, <2>3
<1>6. stream = << >>
  <2>1. Len(stream) = 0
    BY <1>4, <1>5
  <2> QED BY <1>4, <2>1, EmptySeq
<1>7. FileSound(path)
  BY <1>2, <1>3 DEF DiskSound
<1>8. 1 \in DOMAIN path.records
  <2>1. Len(path.records) \in Nat /\ DOMAIN path.records = 1 .. Len(path.records)
    BY <1>7 DEF FileSound, Files
  <2> QED BY <1>1, <1>3, <1>4, <2>1
<1> QED BY <1>3, <1>5, <1>6, <1>7, <1>8

LEMMA LoadDoneInv == ASSUME IInv, LoadDone PROVE IInv'
<1> DEFINE d == path.records[1].data
<1>1. /\ pc = "load" /\ Loaded /\ seen = Range(Tensors)
      /\ step' = path.step /\ cursor' = path.cursor
      /\ pc' = "warm" /\ i' = 0 /\ cudaIdx' = 0 /\ seen' = {} /\ buf' = Unused
      /\ UNCHANGED <<path, safe, settled, powerLost, launches, model, graph, mem, stream, out>>
  BY DEF LoadDone, Loaded, disk, launch
<1>2. /\ stream = << >> /\ FileSound(path) /\ 1 \in DOMAIN path.records
      /\ \A t \in Range(Tensors) : mem[t] = d
  BY <1>1, LoadedFacts
<1>3. Types /\ DiskSound /\ Off
  BY DEF IInv
<1>4. path.step \in 0 .. MaxSteps /\ path.cursor \in Nat
  BY <1>2 DEF FileSound, Files
<1>5. Learns(d, path.step, path.cursor) /\ (path.step < MaxSteps => LastOf(d) = path.cursor)
  BY <1>2 DEF FileSound
<1>6. Tensors' = Tensors /\ Lesson' = Lesson /\ \A t \in Range(Tensors) : Total(t)' = Total(t)
  BY <1>1, LessonKept
<1>7. Types'
  BY <1>1, <1>3, <1>4, <1>6, UnusedTyped DEF Types
<1>8. DiskSound'
  BY <1>1, <1>3 DEF DiskSound
<1>9. Off' /\ Loading'
  BY <1>1 DEF Off, Loading, Ended
<1>10. (\A t \in Range(Tensors) : Total(t) = d) /\ Lesson = d
  <2>1. Queued = << >> /\ d \in Seq(Nat) /\ Tensors[1] \in Range(Tensors)
    BY <1>2, <1>3, <1>5, QueuedIs, NothingLearnt, LessonTyped DEF Learns
  <2>2. d \o << >> = d
    <3> HIDE DEF d
    <3> QED BY <2>1
  <2> QED BY <1>2, <2>1, <2>2 DEF Total, Lesson
<1>11. out = NoFile
  BY <1>1, <1>3 DEF Off
<1> HIDE DEF d
<1>12. RunSound'
  BY <1>1, <1>2, <1>5, <1>6, <1>10, <1>11 DEF RunSound, Saving
<1> QED BY <1>7, <1>8, <1>9, <1>12 DEF IInv

-----------------------------------------------------------------------------
(* The medium, and the whole step.                                         *)
LEMMA WritingKept ==
  ASSUME Writing, Lesson' = Lesson, Tensors' = Tensors,
         UNCHANGED <<step, cursor, stream, buf, out, i>>
  PROVE  Writing'
<1>1. Kick(i)' = Kick(i) /\ Kick(i + 1)' = Kick(i + 1)
  BY DEF Kick
<1>2. CopiesUnderWay'
  BY <1>1 DEF Writing, CopiesUnderWay
<1>3. Files' = Files
  BY DEF Files
<1> QED BY <1>2, <1>3 DEF Writing

LEMMA WriteBackInv == ASSUME IInv, WriteBack PROVE IInv'
<1>1. /\ ~settled /\ safe' = path /\ settled' = TRUE
      /\ UNCHANGED <<path, powerLost, launches, model, graph, pc, step, cursor, mem, stream, buf,
                     out, i, cudaIdx, seen>>
  BY DEF WriteBack, launch, position, loop
<1>2. Types /\ DiskSound /\ Off /\ Loading /\ RunSound
  BY DEF IInv
<1>3. Tensors' = Tensors /\ Lesson' = Lesson /\ \A t \in Range(Tensors) : Total(t)' = Total(t)
  BY <1>1, LessonKept
<1>4. Types' /\ DiskSound' /\ Off' /\ Loading'
  BY <1>1, <1>2, <1>3 DEF Types, DiskSound, Off, Loading
<1>5. Writing => Writing'
  BY <1>1, <1>3, WritingKept
<1>6. RunSound'
  BY <1>1, <1>2, <1>3, <1>5 DEF RunSound, Running, Saving, OnlySteps
<1> QED BY <1>4, <1>6 DEF IInv

(* A file cut short is sound. *)
LEMMA CutIsSound ==
  ASSUME NEW f, FileSound(f), NEW g \in Truncations(f)
  PROVE  FileSound(g)
<1> DEFINE R == [tensor : UNION {Range(TensorsOf(m)) : m \in Models}, data : Seq(Nat)]
<1>1. /\ f \in Files /\ f.records \in Seq(R) /\ Len(f.records) \in Nat
      /\ DOMAIN f.records = 1 .. Len(f.records) /\ f.n \in Nat
  BY DEF FileSound, Files
<1>2. PICK k \in 0 .. Len(f.records) - 1 : g = [f EXCEPT !.records = SubSeq(f.records, 1, k)]
  BY DEF Truncations
<1> DEFINE c == SubSeq(f.records, 1, k)
<1> HIDE DEF R
<1>3. /\ c \in Seq(R) /\ Len(c) = k /\ DOMAIN c = 1 .. k
      /\ \A j \in 1 .. k : j \in DOMAIN f.records /\ 1 \in DOMAIN f.records /\ c[j] = f.records[j]
  BY <1>1, <1>2
<1> HIDE DEF c
<1>4. f \in [step : Nat, cursor : Nat, n : Nat, records : Seq(R)]
  BY <1>1 DEF Files, R
<1>5. /\ g \in [step : Nat, cursor : Nat, n : Nat, records : Seq(R)]
      /\ g.step = f.step /\ g.cursor = f.cursor /\ g.n = f.n /\ g.records = c
  BY <1>2, <1>3, <1>4 DEF c
<1>6. g \in Files
  BY <1>5 DEF Files, R
<1>7. \A j \in DOMAIN g.records :
        /\ g.records[j].data = g.records[1].data
        /\ Learns(g.records[j].data, g.step, g.cursor)
        /\ g.step < MaxSteps => LastOf(g.records[j].data) = g.cursor
  <2> SUFFICES ASSUME NEW j \in 1 .. k
               PROVE  /\ c[j].data = c[1].data
                      /\ Learns(c[j].data, f.step, f.cursor)
                      /\ f.step < MaxSteps => LastOf(c[j].data) = f.cursor
    BY <1>3, <1>5
  <2>1. 1 \in 1 .. k /\ c[1] = f.records[1] /\ c[j] = f.records[j] /\ j \in DOMAIN f.records
    BY <1>2, <1>3
  <2> QED BY <2>1 DEF FileSound
<1>8. \E m \in Models : /\ g.n = Len(TensorsOf(m))
                        /\ \A j \in DOMAIN g.records : g.records[j].tensor = TensorsOf(m)[j]
  BY <1>3, <1>5 DEF FileSound
<1>9. Len(g.records) <= g.n /\ g.step \in 0 .. MaxSteps
  BY <1>1, <1>2, <1>3, <1>5 DEF FileSound
<1> QED BY <1>6, <1>7, <1>8, <1>9 DEF FileSound

LEMMA CutIsShorter ==
  ASSUME NEW f, FileSound(f), NEW g \in Truncations(f)
  PROVE  Len(g.records) < g.n
<1> DEFINE R == [tensor : UNION {Range(TensorsOf(m)) : m \in Models}, data : Seq(Nat)]
<1>1. /\ f \in [step : Nat, cursor : Nat, n : Nat, records : Seq(R)]
      /\ f.records \in Seq(R) /\ Len(f.records) \in Nat /\ f.n \in Nat /\ Len(f.records) <= f.n
  BY DEF FileSound, Files
<1>2. PICK k \in 0 .. Len(f.records) - 1 : g = [f EXCEPT !.records = SubSeq(f.records, 1, k)]
  BY DEF Truncations
<1> DEFINE c == SubSeq(f.records, 1, k)
<1> HIDE DEF R
<1>3. c \in Seq(R) /\ Len(c) = k
  BY <1>1, <1>2
<1> HIDE DEF c
<1>4. g.records = c /\ g.n = f.n
  BY <1>1, <1>2 DEF c
<1> QED BY <1>1, <1>2, <1>3, <1>4

LEMMA PowerLossInv == ASSUME IInv, PowerLoss PROVE IInv'
<1>1. /\ path' \in {safe} \union (IF settled THEN {} ELSE Truncations(path))
      /\ safe' = path' /\ settled' = TRUE /\ powerLost' = TRUE /\ Ends("off")
  BY DEF PowerLoss
<1>2. DiskSound /\ Types
  BY DEF IInv
<1>3. path' = NoFile \/ FileSound(path')
  <2>1. CASE path' = safe
    BY <1>2, <2>1 DEF DiskSound
  <2>2. CASE ~settled /\ path' \in Truncations(path)
    <3>1. FileSound(path)
      BY <1>2, <2>2 DEF DiskSound
    <3> QED BY <2>2, <3>1, CutIsSound
  <2> QED BY <1>1, <2>1, <2>2
<1>4. DiskSound'
  BY <1>1, <1>3 DEF DiskSound
<1> QED BY <1>1, <1>2, <1>4, EndsInv DEF Ended

LEMMA StutterInv == ASSUME IInv, UNCHANGED vars PROVE IInv'
<1>1. UNCHANGED <<path, safe, settled, powerLost, launches, model, graph, pc, step, cursor, mem,
                  stream, buf, out, i, cudaIdx, seen>>
  BY DEF vars, disk, launch, position, loop
<1>2. Types /\ DiskSound /\ Off /\ Loading /\ RunSound
  BY DEF IInv
<1>3. Tensors' = Tensors /\ Lesson' = Lesson /\ \A t \in Range(Tensors) : Total(t)' = Total(t)
  BY <1>1, LessonKept
<1>4. Types' /\ DiskSound' /\ Off' /\ Loading'
  BY <1>1, <1>2, <1>3 DEF Types, DiskSound, Off, Loading
<1>5. Writing => Writing'
  BY <1>1, <1>3, WritingKept
<1>6. RunSound'
  BY <1>1, <1>2, <1>3, <1>5 DEF RunSound, Running, Saving, OnlySteps
<1> QED BY <1>4, <1>6 DEF IInv

LEMMA StepInv == IInv /\ [Next]_vars => IInv'
<1> SUFFICES ASSUME IInv, [Next]_vars PROVE IInv'
  OBVIOUS
<1>1. CASE DeviceRuns
  BY <1>1, DeviceInv
<1>2. CASE Starts
  BY <1>2, LaunchInv DEF Starts
<1>3. CASE Trains
  <2>1. CASE Exit
    BY <2>1, StopInv DEF Exit, Ended
  <2> QED BY <1>3, <2>1, WarmUpInv, TrainStepInv, FinishInv DEF Trains
<1>4. CASE Saves
  BY <1>4, SaveOpenInv, SaveWriteInv, SaveCloseInv DEF Saves
<1>5. CASE SaveFails \/ Crash \/ LoadRefuses \/ LoadInvalid \/ LoadMissing
  BY <1>5, StopInv DEF SaveFails, Crash, LoadRefuses, LoadInvalid, LoadMissing, LoadThrows, Ended
<1>6. CASE Loads
  BY <1>5, <1>6, LoadOpenInv, LoadRecordInv, LoadSkipsInv, LoadDoneInv DEF Loads
<1>7. CASE WriteBack
  BY <1>7, WriteBackInv
<1>8. CASE PowerLoss
  BY <1>8, PowerLossInv
<1>9. CASE UNCHANGED vars
  BY <1>9, StutterInv
<1> QED BY <1>1, <1>2, <1>3, <1>4, <1>5, <1>6, <1>7, <1>8, <1>9 DEF Next

(* The inductive invariant holds: files on the disk and the file being     *)
(* written hold one step's state, whatever the streams have yet to run.    *)
THEOREM CheckpointSound == Spec => []IInv
<1> QED BY InitInv, StepInv, PTL DEF Spec

-----------------------------------------------------------------------------
(* What a checkpoint and a running model have learned.                     *)

LEMMA AgreedIs ==
  ASSUME NEW S, NEW v, S = {v}
  PROVE  Agreed(S) = v
BY FS_Singleton DEF Agreed

LEMMA ContentFacts ==
  ASSUME NEW f, FileSound(f)
  PROVE  /\ f # NoFile /\ Len(f.records) \in Nat /\ f.n \in Nat
         /\ Len(f.records) < f.n => Content(f) = Truncated
         /\ Len(f.records) >= f.n => /\ Content(f) = f.records[1].data
                                     /\ 1 \in DOMAIN f.records
                                     /\ Learns(Content(f), f.step, f.cursor)
<1>1. f \in Files /\ f # NoFile /\ f.n \in Nat /\ Len(f.records) \in Nat
      /\ DOMAIN f.records = 1 .. Len(f.records)
  BY NoFileAssumption DEF FileSound, Files
<1>2. ASSUME Len(f.records) >= f.n
      PROVE  /\ Content(f) = f.records[1].data /\ 1 \in DOMAIN f.records
             /\ Learns(Content(f), f.step, f.cursor)
  <2>1. f.n \in Nat \ {0}
    BY TensorFacts DEF FileSound
  <2>2. 1 \in DOMAIN f.records
    BY <1>1, <1>2, <2>1
  <2>3. \A k \in DOMAIN f.records : f.records[k].data = f.records[1].data
    BY DEF FileSound
  <2>4. {r.data : r \in Range(f.records)} = {f.records[1].data}
    BY <2>2, <2>3 DEF Range
  <2>5. Content(f) = f.records[1].data
    <3>1. Content(f) = Agreed({r.data : r \in Range(f.records)})
      BY <1>1, <1>2 DEF Content
    <3>2. Agreed({r.data : r \in Range(f.records)}) = f.records[1].data
      BY <2>4, AgreedIs
    <3> QED BY <3>1, <3>2
  <2> QED BY <2>2, <2>5 DEF FileSound
<1> QED BY <1>1, <1>2 DEF Content

(* A running model has learned its lesson. *)
LearnedSound == Learned = IF Running THEN Lesson ELSE << >>

LEMMA LearnedIs == IInv => LearnedSound
<1> SUFFICES ASSUME IInv PROVE LearnedSound
  OBVIOUS
<1>1. CASE Running
  <2>1. \A t \in Range(Tensors) : mem[t] \o Queued = Lesson
    BY <1>1 DEF IInv, RunSound, Total
  <2>2. Tensors[1] \in Range(Tensors)
    BY LessonTyped DEF IInv
  <2>3. {mem[t] \o Queued : t \in Range(Tensors)} = {Lesson}
    BY <2>1, <2>2
  <2>4. Agreed({mem[t] \o Queued : t \in Range(Tensors)}) = Lesson
    BY <2>3, AgreedIs
  <2> QED BY <1>1, <2>4 DEF LearnedSound, Learned, Running
<1>2. CASE ~Running
  BY <1>2 DEF LearnedSound, Learned, Running
<1> QED BY <1>1, <1>2

(* The step and the cursor in the header of a readable file are those of   *)
(* its tensors (checkpoint.cpp writes the header before the records).      *)
THEOREM HeaderMatches == Spec => []HeaderMatchesTensors
<1>1. IInv => HeaderMatchesTensors
  <2> SUFFICES ASSUME IInv, NEW f \in {path, safe}, Content(f) \notin {NoFile, Truncated}
               PROVE  /\ Len(Content(f)) = f.step * GradAccum
                      /\ \A b \in Range(Content(f)) : b <= f.cursor
    BY DEF HeaderMatchesTensors
  <2>1. f # NoFile
    BY DEF Content
  <2>2. FileSound(f)
    BY <2>1 DEF IInv, DiskSound
  <2>3. Learns(Content(f), f.step, f.cursor)
    BY <2>2, ContentFacts
  <2> QED BY <2>3 DEF Learns, Range
<1> QED BY <1>1, CheckpointSound, PTL

(* Over all launches no batch is learned twice or out of order; a gap is   *)
(* one warm-up of the graph capture.                                       *)
THEOREM WarmUpSkips == Spec => []OnlyWarmUpIsSkipped
<1>1. IInv => OnlyWarmUpIsSkipped
  <2> SUFFICES ASSUME IInv, NEW k \in 1 .. Len(Learned)
               PROVE  Learned[k] - (IF k = 1 THEN 0 ELSE Learned[k - 1]) \in {1, 1 + Warmup}
    BY DEF OnlyWarmUpIsSkipped
  <2>1. Learned = IF Running THEN Lesson ELSE << >>
    BY LearnedIs DEF LearnedSound
  <2>2. Running
    <3>1. Len(<< >>) = 0
      OBVIOUS
    <3> QED BY <2>1, <3>1
  <2>3. Learns(Lesson, step, cursor)
    BY <2>2 DEF IInv, RunSound
  <2>4. Lesson \in Seq(Nat) /\ \A j \in DOMAIN Lesson : Lesson[j] - Previous(Lesson, j) \in {1, 1 + Warmup}
    BY <2>3 DEF Learns
  <2>5. k \in DOMAIN Lesson
    <3> HIDE DEF Lesson
    <3> QED BY <2>1, <2>2, <2>4
  <2> QED BY <2>1, <2>2, <2>4, <2>5 DEF Previous
<1> QED BY <1>1, CheckpointSound, PTL

-----------------------------------------------------------------------------
(* A load that fails.                                                      *)

(* Records are told apart by the name of the parameter and the kind. *)
LEMMA TensorsDistinct ==
  ASSUME NEW m \in Models, NEW j \in 1 .. Len(TensorsOf(m)), NEW k \in 1 .. Len(TensorsOf(m)),
         TensorsOf(m)[j].name = TensorsOf(m)[k].name, TensorsOf(m)[j].kind = TensorsOf(m)[k].kind
  PROVE  j = k
<1> DEFINE kinds == <<"value", "m", "v">>
<1>1. Len(m) \in Nat \ {0} /\ DOMAIN m = 1 .. Len(m)
      /\ \A x, y \in DOMAIN m : m[x].name = m[y].name => x = y
  BY CheckpointAssumption
<1>2. DOMAIN TensorsOf(m) = 1 .. 3 * Len(m) /\ Len(TensorsOf(m)) = 3 * Len(m)
  <2>1. DOMAIN TensorsOf(m) = 1 .. 3 * Len(m)
    BY DEF TensorsOf
  <2>2. DOMAIN TensorsOf(m) = 1 .. Len(TensorsOf(m)) /\ Len(TensorsOf(m)) \in Nat \ {0}
    BY TensorFacts
  <2> QED BY <1>1, <2>1, <2>2
<1>3. \A x \in 1 .. 3 * Len(m) :
        /\ TensorsOf(m)[x].name = m[(x + 2) \div 3].name
        /\ TensorsOf(m)[x].kind = kinds[((x - 1) % 3) + 1]
        /\ (x + 2) \div 3 \in DOMAIN m
  BY <1>1 DEF TensorsOf
<1>4. (j + 2) \div 3 = (k + 2) \div 3
  <2> DEFINE x == (j + 2) \div 3
             y == (k + 2) \div 3
  <2>1. x \in DOMAIN m /\ y \in DOMAIN m /\ m[x].name = m[y].name
    <3>1. j \in 1 .. 3 * Len(m) /\ k \in 1 .. 3 * Len(m)
      BY <1>2
    <3> QED BY <1>3, <3>1
  <2> HIDE DEF x, y
  <2>2. x = y
    BY <1>1, <2>1
  <2> QED BY <2>2 DEF x, y
<1>5. \A x, y \in 1 .. 3 : kinds[x] = kinds[y] => x = y
  BY DEF kinds
<1>6. (j - 1) % 3 = (k - 1) % 3
  <2>1. ((j - 1) % 3) + 1 \in 1 .. 3 /\ ((k - 1) % 3) + 1 \in 1 .. 3
    BY <1>1, <1>2
  <2>2. kinds[((j - 1) % 3) + 1] = kinds[((k - 1) % 3) + 1]
    BY <1>2, <1>3
  <2> HIDE DEF kinds
  <2> QED BY <1>1, <1>2, <1>5, <2>1, <2>2
<1> QED BY <1>1, <1>2, <1>4, <1>6

(* As many distinct tensors of one model as another has are all of its     *)
(* tensors, if they are among them.                                        *)
LEMMA SameTensors ==
  ASSUME NEW m \in Models, NEW q \in Models, Len(TensorsOf(m)) = Len(TensorsOf(q)),
         Range(TensorsOf(q)) \subseteq Range(TensorsOf(m))
  PROVE  Range(TensorsOf(q)) = Range(TensorsOf(m))
<1>1. ASSUME NEW x \in Models
      PROVE  IsFiniteSet(Range(TensorsOf(x))) /\ Cardinality(Range(TensorsOf(x))) = Len(TensorsOf(x))
  <2> DEFINE T == TensorsOf(x)
             n == Len(T)
  <2>1. n \in Nat \ {0} /\ DOMAIN T = 1 .. n /\ \A k \in 1 .. n : T[k] \in Range(T)
    BY TensorFacts
  <2>2. \A j, k \in 1 .. n : T[j] = T[k] => j = k
    BY TensorsDistinct
  <2>3. T = [k \in 1 .. n |-> T[k]]
    BY <2>1 DEF TensorsOf
  <2>4. T \in Bijection(1 .. n, Range(T))
    <3> HIDE DEF T
    <3>1. T \in [1 .. n -> Range(T)] /\ IsInjective(T) /\ \A t \in Range(T) : \E k \in 1 .. n : T[k] = t
      BY <2>1, <2>2, <2>3 DEF IsInjective, Range
    <3> QED BY <3>1 DEF Bijection, Injection, Surjection
  <2>5. IsFiniteSet(1 .. n) /\ Cardinality(1 .. n) = n
    <3> HIDE DEF n
    <3>1. 1 \in Int /\ n \in Int /\ ~(1 > n) /\ n - 1 + 1 = n
      BY <2>1
    <3> QED BY <3>1, FS_Interval
  <2>6. ExistsBijection(1 .. n, Range(T))
    BY <2>4 DEF ExistsBijection
  <2> HIDE DEF n, T
  <2>7. IsFiniteSet(Range(T)) /\ Cardinality(Range(T)) = n
    BY <2>5, <2>6, FS_Bijection
  <2> QED BY <2>7 DEF n, T
<1> QED BY <1>1, FS_Subset

(* The tensor that a record names is the one it is for. *)
LEMMA TargetsAre ==
  ASSUME Types, NEW r, r.tensor \in Range(Tensors)
  PROVE  Targets(r) = {r.tensor}
<1>1. DOMAIN Tensors = 1 .. Len(Tensors) /\ model \in Models
  BY TensorFacts DEF Types, Tensors
<1>2. \A s, t \in Range(Tensors) : s.name = t.name /\ s.kind = t.kind => s = t
  <2> SUFFICES ASSUME NEW j \in DOMAIN Tensors, NEW k \in DOMAIN Tensors,
                      Tensors[j].name = Tensors[k].name, Tensors[j].kind = Tensors[k].kind
               PROVE  Tensors[j] = Tensors[k]
    BY DEF Range
  <2>1. j = k
    BY <1>1, TensorsDistinct DEF Tensors
  <2> QED BY <2>1
<1> QED BY <1>2 DEF Targets

LEMMA RefusedForCause ==
  ASSUME IInv, LoadRefuses \/ LoadInvalid
  PROVE  \/ path = NoFile \/ powerLost
         \/ path.n # Len(Tensors)
         \/ \E r \in Range(path.records) : r.tensor \notin Range(Tensors)
<1>1. CASE LoadRefuses
  BY <1>1 DEF LoadRefuses, Readable
<1>2. CASE LoadInvalid
  <2> SUFFICES ASSUME path # NoFile, ~powerLost,
                      \A r \in Range(path.records) : r.tensor \in Range(Tensors)
               PROVE  FALSE
    OBVIOUS
  <2>1. /\ pc = "load" /\ i # 0 /\ i <= path.n
        /\ \/ i > Len(path.records)
           \/ /\ i <= Len(path.records)
              /\ Targets(path.records[i]) \notin {{}, {path.records[i].tensor}}
    BY <1>2 DEF LoadInvalid, Reading
  <2>2. FileSound(path) /\ Len(path.records) = path.n /\ i \in Nat /\ Types
    BY DEF IInv, DiskSound, Types
  <2>3. Len(path.records) \in Nat /\ DOMAIN path.records = 1 .. Len(path.records)
    BY <2>2 DEF FileSound, Files
  <2>4. path.records[i] \in Range(path.records)
    BY <2>1, <2>2, <2>3 DEF Range
  <2>5. Targets(path.records[i]) = {path.records[i].tensor}
    BY <2>2, <2>4, TargetsAre
  <2> QED BY <2>1, <2>2, <2>3, <2>5
<1> QED BY <1>1, <1>2

(* If every record was of the model, every tensor of the model was found. *)
LEMMA MissingForCause ==
  ASSUME IInv, LoadMissing
  PROVE  powerLost \/ \E r \in Range(path.records) : r.tensor \notin Range(Tensors)
<1> SUFFICES ASSUME ~powerLost, \A r \in Range(path.records) : r.tensor \in Range(Tensors)
             PROVE  FALSE
  OBVIOUS
<1>1. Loaded /\ seen # Range(Tensors)
  BY DEF LoadMissing
<1>2. pc = "load" /\ i # 0 /\ i > path.n
  BY <1>1 DEF Loaded
<1>3. /\ path # NoFile /\ path.n = Len(Tensors) /\ i - 1 <= Len(path.records)
      /\ \A k \in 1 .. i - 1 : path.records[k].tensor \in Range(Tensors) => path.records[k].tensor \in seen
  BY <1>2 DEF IInv, Loading
<1>4. FileSound(path) /\ Len(path.records) = path.n /\ i \in Nat /\ Types
  BY <1>3 DEF IInv, DiskSound, Types
<1>5. Len(Tensors) \in Nat /\ DOMAIN path.records = 1 .. Len(Tensors) /\ seen \subseteq Range(Tensors)
      /\ model \in Models
  BY <1>3, <1>4, LessonTyped DEF FileSound, Files, Types
<1>6. PICK q \in Models : /\ path.n = Len(TensorsOf(q))
                          /\ \A k \in DOMAIN path.records : path.records[k].tensor = TensorsOf(q)[k]
  BY <1>4 DEF FileSound
<1>7. Range(TensorsOf(q)) \subseteq seen
  <2> SUFFICES ASSUME NEW k \in DOMAIN TensorsOf(q) PROVE TensorsOf(q)[k] \in seen
    BY DEF Range
  <2>1. k \in 1 .. Len(Tensors)
    <3>1. DOMAIN TensorsOf(q) = 1 .. Len(TensorsOf(q))
      BY TensorFacts
    <3> QED BY <1>3, <1>6, <3>1
  <2>2. path.records[k] \in Range(path.records) /\ path.records[k].tensor = TensorsOf(q)[k]
    BY <1>5, <1>6, <2>1 DEF Range
  <2>3. k \in 1 .. i - 1
    BY <1>2, <1>3, <1>4, <1>5, <2>1
  <2> QED BY <1>3, <2>2, <2>3
<1>8. Range(TensorsOf(q)) = Range(Tensors)
  BY <1>3, <1>5, <1>6, <1>7, SameTensors DEF Tensors
<1> QED BY <1>1, <1>5, <1>7, <1>8

(* A load that throws had no file, the file of another model, or one that  *)
(* a power loss cut.                                                       *)
THEOREM LoadFails == Spec => []LoadFailsForCause
<1>1. Init => LoadFailsForCause
  BY DEF Init, LoadFailsForCause
<1>2. IInv /\ LoadFailsForCause /\ [Next]_vars => LoadFailsForCause'
  <2> SUFFICES ASSUME IInv, LoadFailsForCause, [Next]_vars, pc' = "load_failed"
               PROVE  (\/ path = NoFile \/ powerLost
                       \/ path.n # Len(Tensors)
                       \/ \E r \in Range(path.records) : r.tensor \notin Range(Tensors))'
    BY DEF LoadFailsForCause
  <2>1. UNCHANGED <<path, powerLost, model>> /\ (pc = pc' \/ LoadRefuses \/ LoadInvalid \/ LoadMissing)
    <3>1. CASE DeviceRuns
      BY <3>1 DEF DeviceRuns, disk, launch
    <3>2. CASE Starts
      BY <3>2 DEF Starts, Launch
    <3>3. CASE Trains
      BY <3>3 DEF Trains, WarmUp, TrainStep, Finish, Exit, Ends
    <3>4. CASE Saves
      <4>1. CASE SaveOpen
        BY <4>1 DEF SaveOpen, disk, launch
      <4>2. CASE SaveWrite
        BY <4>2 DEF SaveWrite, disk, launch
      <4>3. CASE SaveClose
        BY <4>3 DEF SaveClose
      <4> QED BY <3>4, <4>1, <4>2, <4>3 DEF Saves
    <3>5. CASE Loads
      <4>1. CASE LoadRefuses \/ LoadInvalid \/ LoadMissing
        BY <4>1 DEF LoadRefuses, LoadInvalid, LoadMissing, LoadThrows, Ends, disk, launch
      <4>2. CASE LoadOpen
        BY <4>2 DEF LoadOpen, disk, launch
      <4>3. CASE LoadRecord
        BY <4>3 DEF LoadRecord, disk, launch
      <4>4. CASE LoadSkips
        BY <4>4 DEF LoadSkips, disk, launch
      <4>5. CASE LoadDone
        BY <4>5 DEF LoadDone
      <4> QED BY <3>5, <4>1, <4>2, <4>3, <4>4, <4>5 DEF Loads
    <3>6. CASE WriteBack
      BY <3>6 DEF WriteBack, launch
    <3>7. CASE SaveFails \/ Crash \/ PowerLoss
      BY <3>7 DEF SaveFails, Crash, PowerLoss, Ends
    <3>8. CASE UNCHANGED vars
      BY <3>8 DEF vars, disk, launch
    <3> QED BY <3>1, <3>2, <3>3, <3>4, <3>5, <3>6, <3>7, <3>8 DEF Next
  <2>2. \/ path = NoFile \/ powerLost
        \/ path.n # Len(Tensors)
        \/ \E r \in Range(path.records) : r.tensor \notin Range(Tensors)
    BY <2>1, RefusedForCause, MissingForCause DEF LoadFailsForCause
  <2> QED BY <2>1, <2>2 DEF Tensors
<1> QED BY <1>1, <1>2, CheckpointSound, PTL DEF Spec

-----------------------------------------------------------------------------
(* The checkpoint implements the atomic save of AtomicSave.                *)

SavedState == <<Content(path), Content(safe), settled>>

LEMMA ContentKept ==
  ASSUME UNCHANGED <<path, safe, settled>>
  PROVE  UNCHANGED SavedState
BY DEF SavedState

LEMMA InitRefines == Init => AS!Init
<1> SUFFICES ASSUME Init PROVE AS!Init
  OBVIOUS
<1>1. Learned = << >>
  BY DEF Init, Learned
<1>2. Content(path) = NoFile /\ Content(safe) = NoFile
  BY DEF Init, Content
<1> QED BY <1>1, <1>2 DEF Init, AS!Init

(* A launch starts with nothing learned. *)
LEMMA LaunchRefines ==
  ASSUME IInv, IInv', LearnedSound', Starts
  PROVE  UNCHANGED <<Learned, SavedState>>
<1>1. PICK m \in Models, g \in BOOLEAN, resume \in BOOLEAN : Launch(m, g, resume)
  BY DEF Starts
<1>2. /\ pc \in Ended /\ pc' = (IF resume THEN "load" ELSE "warm")
      /\ UNCHANGED <<path, safe, settled, step>>
  BY <1>1 DEF Launch, disk, position
<1>3. Learned = << >> /\ step' = 0
  BY <1>2 DEF Learned, Ended, IInv, Off
<1>4. Learned' = << >>
  <2>1. CASE ~Running'
    BY <2>1 DEF LearnedSound
  <2>2. CASE Running'
    <3>1. Learns(Lesson', 0, cursor') /\ Learned' = Lesson'
      BY <1>3, <2>2 DEF IInv, RunSound, LearnedSound
    <3>2. Lesson' \in Seq(Nat) /\ Len(Lesson') = 0
      BY <3>1, CheckpointAssumption DEF Learns
    <3> QED BY <3>1, <3>2, EmptySeq
  <2> QED BY <2>1, <2>2
<1> QED BY <1>2, <1>3, <1>4, ContentKept

(* Steps of a running model that teach it nothing and leave the disk. *)
LEMMA QuietRefines ==
  ASSUME LearnedSound, LearnedSound', Running, Running', Lesson' = Lesson, UNCHANGED <<path, safe, settled>>
  PROVE  UNCHANGED <<Learned, SavedState>>
BY ContentKept DEF LearnedSound

(* Steps of a process that does not train yet, or no longer. *)
LEMMA IdleRefines ==
  ASSUME LearnedSound, LearnedSound', ~Running, ~Running', UNCHANGED <<path, safe, settled>>
  PROVE  UNCHANGED <<Learned, SavedState>>
BY ContentKept DEF LearnedSound

LEMMA TrainRefines ==
  ASSUME IInv, LearnedSound, LearnedSound', Trains \/ DeviceRuns
  PROVE  AS!Learn \/ AS!Crash \/ UNCHANGED <<Learned, SavedState>>
<1>1. CASE DeviceRuns
  <2>1. UNCHANGED <<path, safe, settled, pc>>
    BY <1>1 DEF DeviceRuns, disk
  <2>2. CASE Running
    BY <1>1, <2>1, <2>2, DeviceTeachesNothing, QuietRefines DEF Running
  <2>3. CASE ~Running
    BY <2>1, <2>3, IdleRefines DEF Running
  <2> QED BY <2>2, <2>3
<1>2. CASE WarmUp
  <2>1. /\ pc = "warm" /\ pc' = "train"
        /\ UNCHANGED <<path, safe, settled, model, mem, stream>>
    BY <1>2 DEF WarmUp, disk, launch
  <2> QED BY <2>1, LessonKept, QuietRefines DEF Running
<1>3. CASE Finish
  <2>1. /\ pc = "train" /\ pc' = "final"
        /\ UNCHANGED <<path, safe, settled, model, mem, stream>>
    BY <1>3 DEF Finish, disk, launch
  <2> QED BY <2>1, LessonKept, QuietRefines DEF Running
<1>4. CASE Exit
  <2>1. pc' = "off" /\ UNCHANGED <<path, safe, settled>>
    BY <1>4 DEF Exit, Ends, disk
  <2>2. Learned' = << >>
    BY <2>1 DEF LearnedSound, Running
  <2> QED BY <2>1, <2>2 DEF AS!Crash
<1>5. CASE TrainStep
  <2> DEFINE b == Batches(cursor, GradAccum)
  <2>1. pc = "train" /\ pc' \in {"save", "train"} /\ UNCHANGED <<path, safe, settled>>
    BY <1>5 DEF TrainStep, disk
  <2>2. Learned = Lesson /\ Learned' = Lesson'
    BY <2>1 DEF LearnedSound, Running
  <2>3. b \in Seq(Nat) /\ Len(b) = GradAccum /\ Lesson' = Lesson \o b
    BY <1>5, TrainStepTeaches
  <2>4. Lesson \in Seq(Nat) /\ GradAccum \in Nat \ {0}
    BY LessonTyped, CheckpointAssumption DEF IInv
  <2> HIDE DEF b
  <2>5. /\ Len(Lesson \o b) > Len(Lesson)
        /\ SubSeq(Lesson \o b, 1, Len(Lesson)) = Lesson
    <3> HIDE DEF Lesson
    <3> QED BY <2>3, <2>4
  <2>6. AS!Learn
    BY <2>1, <2>2, <2>3, <2>5 DEF AS!Learn
  <2> QED BY <2>6
<1> QED BY <1>1, <1>2, <1>3, <1>4, <1>5 DEF Trains

LEMMA SaveRefines ==
  ASSUME IInv, IInv', LearnedSound, LearnedSound', Saves
  PROVE  AS!Save \/ UNCHANGED <<Learned, SavedState>>
<1>1. CASE SaveOpen
  <2>1. /\ Saving /\ UNCHANGED <<path, safe, settled, model, mem, pc>>
    BY <1>1 DEF SaveOpen, disk, launch
  <2>2. Lesson' = Lesson
    BY <1>1, <2>1, SaveOpenTeachesNothing, LessonKept
  <2> QED BY <2>1, <2>2, QuietRefines DEF Running, Saving
<1>2. CASE SaveWrite
  <2>1. Saving /\ out # NoFile /\ UNCHANGED <<path, safe, settled, model, mem, pc>>
    BY <1>2 DEF SaveWrite, disk, launch
  <2>2. Types /\ Writing
    BY <2>1 DEF IInv, RunSound, Running, Saving
  <2>3. Lesson' = Lesson
    BY <1>2, <2>1, <2>2, SaveWriteCopies, LessonKept
  <2> QED BY <2>1, <2>3, QuietRefines DEF Running, Saving
<1>3. CASE SaveClose
  <2>1. /\ Saving /\ out # NoFile /\ i > Len(Tensors) /\ path' = out /\ settled' = FALSE
        /\ pc' \in {"done", "train"} /\ UNCHANGED <<safe, model, mem, stream>>
    BY <1>3 DEF SaveClose, launch
  <2>2. Types /\ Writing
    BY <2>1 DEF IInv, RunSound, Running, Saving
  <2>3. Learned = Lesson /\ Learned' = Lesson' /\ Lesson' = Lesson
    BY <2>1, LessonKept DEF LearnedSound, Running, Saving
  <2>4. FileSound(out)
    BY <2>1 DEF IInv, DiskSound
  <2>5. Content(out) = Lesson
    <3>1. /\ i \in 1 .. Len(Tensors) + 1 /\ out.n = Len(Tensors) /\ Len(out.records) = i - 1
          /\ \A k \in 1 .. i - 1 : out.records[k].data = Lesson
          /\ Len(Tensors) \in Nat \ {0}
      BY <2>2, LessonTyped DEF Writing
    <3>2. Len(out.records) >= out.n /\ 1 \in 1 .. i - 1
      BY <2>1, <3>1
    <3>3. Content(out) = out.records[1].data
      BY <2>4, <3>2, ContentFacts
    <3> QED BY <3>1, <3>2, <3>3
  <2>6. Content(path)' = Lesson /\ Content(safe)' = Content(safe)
    BY <2>1, <2>5
  <2> QED BY <2>1, <2>3, <2>6 DEF AS!Save
<1> QED BY <1>1, <1>2, <1>3 DEF Saves

LEMMA LoadRefines ==
  ASSUME IInv, LearnedSound, LearnedSound', Loads
  PROVE  AS!Resume \/ AS!Crash \/ UNCHANGED <<Learned, SavedState>>
<1>1. CASE LoadOpen \/ LoadRecord \/ LoadSkips
  <2>1. pc = "load" /\ pc' = "load" /\ UNCHANGED <<path, safe, settled>>
    BY <1>1 DEF LoadOpen, LoadRecord, LoadSkips, Reading, disk
  <2> QED BY <2>1, IdleRefines DEF Running
<1>2. CASE LoadRefuses \/ LoadInvalid \/ LoadMissing
  <2>1. pc' = "load_failed" /\ UNCHANGED <<path, safe, settled>>
    BY <1>2 DEF LoadRefuses, LoadInvalid, LoadMissing, LoadThrows, Ends, disk
  <2>2. Learned' = << >>
    BY <2>1 DEF LearnedSound, Running
  <2> QED BY <2>1, <2>2 DEF AS!Crash
<1>3. CASE LoadDone
  <2> DEFINE d == path.records[1].data
  <2>1. /\ Loaded /\ pc = "load" /\ pc' = "warm" /\ seen = Range(Tensors) /\ i > path.n
        /\ UNCHANGED <<path, safe, settled, model, mem, stream>>
    BY <1>3 DEF LoadDone, Loaded, disk, launch
  <2>2. Learned = << >> /\ Learned' = Lesson'
    BY <2>1 DEF LearnedSound, Running
  <2>3. /\ stream = << >> /\ FileSound(path)
        /\ \A t \in Range(Tensors) : mem[t] = d
    BY <2>1, LoadedFacts
  <2>4. Len(path.records) >= path.n
    <3>1. i \in Nat /\ i # 0 /\ i - 1 <= Len(path.records)
      BY <2>1 DEF IInv, Loading, Types, Loaded
    <3> QED BY <2>1, <2>3, <3>1, ContentFacts
  <2>5. Content(path) = d /\ d \in Seq(Nat)
    BY <2>3, <2>4, ContentFacts DEF Learns
  <2>6. Lesson = d
    <3>1. Queued = << >> /\ Tensors[1] \in Range(Tensors)
      BY <2>3, QueuedIs, NothingLearnt, LessonTyped DEF IInv
    <3>2. d \o << >> = d
      <4> HIDE DEF d
      <4> QED BY <2>5
    <3> QED BY <2>3, <3>1, <3>2 DEF Lesson, Total
  <2>7. Lesson' = Lesson
    BY <2>1, LessonKept
  <2>8. Content(path) \notin {NoFile, Truncated}
    BY <2>5, NoFileAssumption
  <2> HIDE DEF d
  <2>9. AS!Resume
    BY <2>1, <2>2, <2>5, <2>6, <2>7, <2>8 DEF AS!Resume
  <2> QED BY <2>9
<1> QED BY <1>1, <1>2, <1>3 DEF Loads

LEMMA MachineRefines ==
  ASSUME IInv, LearnedSound, LearnedSound', SaveFails \/ Crash \/ WriteBack \/ PowerLoss
  PROVE  AS!Crash \/ AS!Settle \/ AS!PowerLoss
<1>1. CASE SaveFails \/ Crash
  <2>1. pc' \in Ended /\ UNCHANGED <<path, safe, settled>>
    BY <1>1 DEF SaveFails, Crash, Ends, disk, Ended
  <2>2. Learned' = << >>
    BY <2>1 DEF LearnedSound, Running, Ended
  <2> QED BY <2>1, <2>2 DEF AS!Crash
<1>2. CASE WriteBack
  <2>1. /\ safe' = path /\ settled' = TRUE
        /\ UNCHANGED <<path, model, pc, mem, stream>>
    BY <1>2 DEF WriteBack, launch
  <2>2. Lesson' = Lesson
    BY <2>1, LessonKept
  <2>3. Learned' = Learned
    BY <2>1, <2>2 DEF LearnedSound, Running
  <2> QED BY <2>1, <2>3 DEF AS!Settle
<1>3. CASE PowerLoss
  <2>1. /\ path' \in {safe} \union (IF settled THEN {} ELSE Truncations(path))
        /\ safe' = path' /\ settled' = TRUE /\ pc' = "off"
    BY <1>3 DEF PowerLoss, Ends
  <2>2. Learned' = << >>
    BY <2>1 DEF LearnedSound, Running
  <2>3. Content(path)' = Content(safe) \/ (~settled /\ Content(path)' = Truncated)
    <3>1. CASE path' = safe
      BY <3>1
    <3>2. CASE ~settled /\ path' \in Truncations(path)
      <4>1. FileSound(path)
        BY <3>2 DEF IInv, DiskSound
      <4>2. FileSound(path') /\ Len(path'.records) < path'.n
        <5>1. FileSound(path')
          BY <3>2, <4>1, CutIsSound
        <5> QED BY <3>2, <4>1, <5>1, CutIsShorter
      <4>3. Content(path') = Truncated
        BY <4>2, ContentFacts
      <4> QED BY <3>2, <4>3
    <3> QED BY <2>1, <3>1, <3>2
  <2>4. Content(safe)' = Content(path)'
    BY <2>1
  <2> QED BY <2>1, <2>2, <2>3, <2>4 DEF AS!PowerLoss
<1> QED BY <1>1, <1>2, <1>3

(* save_checkpoint and load_checkpoint implement AtomicSave: a save is     *)
(* what the model had learned or nothing, whatever crashes or is lost.     *)
THEOREM SavesAtomically == Spec => ImplementsAtomicSave
<1>1. IInv /\ IInv' /\ LearnedSound /\ LearnedSound' /\ [Next]_vars => [AS!Next]_(AS!vars)
  <2> SUFFICES ASSUME IInv, IInv', LearnedSound, LearnedSound', [Next]_vars
               PROVE  AS!Next \/ UNCHANGED <<Learned, SavedState>>
    BY DEF AS!vars, SavedState
  <2>1. CASE Starts
    BY <2>1, LaunchRefines
  <2>2. CASE Trains \/ DeviceRuns
    BY <2>2, TrainRefines DEF AS!Next
  <2>3. CASE Saves
    BY <2>3, SaveRefines DEF AS!Next
  <2>4. CASE Loads
    BY <2>4, LoadRefines DEF AS!Next
  <2>5. CASE SaveFails \/ Crash \/ WriteBack \/ PowerLoss
    BY <2>5, MachineRefines DEF AS!Next
  <2>6. CASE UNCHANGED vars
    <3>1. UNCHANGED <<path, safe, settled, model, pc, mem, stream>>
      BY <2>6 DEF vars, disk, launch
    <3>2. Learned' = Learned
      BY <3>1, LessonKept DEF LearnedSound, Running
    <3> QED BY <3>1, <3>2, ContentKept
  <2> QED BY <2>1, <2>2, <2>3, <2>4, <2>5, <2>6 DEF Next
<1> QED BY <1>1, InitRefines, CheckpointSound, LearnedIs, PTL DEF Spec, ImplementsAtomicSave, AS!Spec
=============================================================================
