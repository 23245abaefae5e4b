----------------------- MODULE AsyncLossReaderProofs -----------------------
(***************************************************************************)
(* Proofs about AsyncLossReader: for every depth of the ring and every     *)
(* step loop, the state is well typed and poll() never takes a slot that a *)
(* copy on the side stream may still write.                                *)
(*                                                                         *)
(* ReadyMeansCopied is not inductive.  It follows from three facts about   *)
(* the work enqueued on copy_stream_: a copy is followed at once by the    *)
(* record of its slot, the records of a slot are enqueued in the order of  *)
(* their numbers, and every record still enqueued is newer than the last   *)
(* one the slot's event completed.                                         *)
(*                                                                         *)
(* LagBounded is about the CPU, where nothing lags but the reader.  A slot *)
(* holds the loss of the step that wrote it (Aged), so that the slot taken *)
(* is recent unless poll() finds nothing to take.  It always finds one:    *)
(* what is already taken lies behind the read head and ahead of the write  *)
(* head, which queue() has just moved (TakenBehind).                       *)
(***************************************************************************)
EXTENDS AsyncLossReader, TLAPS

Kernels ==
  [op : {"zero"}] \cup [op : {"add"}, step : 0 .. loop.steps] \cup [op : {"fence"}]

CopyOps ==
  [op : {"wait"}, fence : Nat] \cup [op : {"copy"}, slot : Heads]
    \cup [op : {"record"}, slot : Heads, n : Nat]

Streams == compute \in Seq(Kernels) /\ copies \in Seq(CopyOps) /\ fence \in [recorded : Nat, completed : Nat]

(* The steps that have been queued. *)
Queued == IF host.pc = "queue" THEN host.step - 1 ELSE host.step

Numbered ==
  \A i \in Heads : slots[i].completed <= slots[i].recorded /\ slots[i].recorded <= Queued

IsRecord(k, i) == copies[k].op = "record" /\ copies[k].slot = i

CopyThenRecord ==
  \A k \in 1 .. Len(copies) :
    copies[k].op = "copy" => k < Len(copies) /\ IsRecord(k + 1, copies[k].slot)

RecordsPending ==
  \A i \in Heads : \A k \in 1 .. Len(copies) :
    IsRecord(k, i) => slots[i].completed < copies[k].n /\ copies[k].n <= slots[i].recorded

RecordsOrdered ==
  \A i \in Heads : \A k, m \in 1 .. Len(copies) :
    k < m /\ IsRecord(k, i) /\ IsRecord(m, i) => copies[k].n < copies[m].n

IInv ==
  /\ TypeOK /\ Streams /\ Numbered
  /\ CopyThenRecord /\ RecordsPending /\ RecordsOrdered

(* Slots from head a forward to slot i, round the ring, and the queue()s   *)
(* since the one that wrote slot i.                                        *)
Ahead(a, i) == IF i >= a THEN i - a ELSE i - a + Depth
Age(i) == IF i < write THEN write - i ELSE write - i + Depth

OnCpu == compute = << >> /\ copies = << >> /\ loss = host.step /\ \A i \in Heads : Ready(i)

(* A slot holds the loss of the step that wrote it. *)
Aged == \A i \in Heads : slots[i].valid => slots[i].value + Age(i) > Queued

(* What has been taken, or never written, lies between the write head and  *)
(* the read head.  When poll() is called the write head has just moved, so *)
(* that the slot at the read head is pending.                              *)
TakenBehind ==
  \A i \in Heads : ~Pending(i) =>
    IF host.pc = "poll" THEN Ahead(write, i) < Ahead(read, i) ELSE Ahead(write, i) <= Ahead(read, i)

CpuInv == ~loop.cuda => OnCpu /\ Aged /\ TakenBehind /\ LagBounded

-----------------------------------------------------------------------------
(* What `s \o <<a, b, c>>` holds at every index. *)
LEMMA AppendThree ==
  ASSUME NEW S, NEW s \in Seq(S), NEW a \in S, NEW b \in S, NEW c \in S
  PROVE  LET t == s \o << a, b, c >>
         IN  /\ t \in Seq(S) /\ Len(t) = Len(s) + 3
             /\ \A k \in 1 .. Len(s) : t[k] = s[k]
             /\ t[Len(s) + 1] = a /\ t[Len(s) + 2] = b /\ t[Len(s) + 3] = c
  OBVIOUS

(* What the rest of a sequence holds at every index. *)
LEMMA TailAt ==
  ASSUME NEW S, NEW s \in Seq(S), s # << >>
  PROVE  /\ Tail(s) \in Seq(S) /\ Len(Tail(s)) = Len(s) - 1 /\ Head(s) = s[1] /\ s[1] \in S
         /\ Len(s) \in Nat \ {0}
         /\ \A k \in 1 .. Len(Tail(s)) : k + 1 \in 1 .. Len(s) /\ Tail(s)[k] = s[k + 1]
  OBVIOUS

LEMMA HeadsFacts == Depth \in Nat \ {0} /\ Heads \subseteq Nat /\ 0 \in Heads
  BY ReaderAssumption DEF Heads

LEMMA AdvanceInHeads == ASSUME NEW h \in Heads PROVE Advance(h) \in Heads
  BY ReaderAssumption DEF Advance, Heads

Slot ==
  [valid : BOOLEAN, consumed : BOOLEAN, value : 0 .. loop.steps,
   recorded : 0 .. loop.steps, completed : 0 .. loop.steps]

LEMMA LoopFacts == loop \in Loops => loop.steps \in Nat /\ loop.pollEvery \in Nat \ {0} /\ loop.cuda \in BOOLEAN
  BY ReaderAssumption

(* TypeOK, field by field. *)
LEMMA TypeFacts ==
  ASSUME TypeOK
  PROVE  /\ loop.steps \in Nat /\ loop.pollEvery \in Nat \ {0} /\ loop.cuda \in BOOLEAN
         /\ host.pc \in {"train", "queue", "poll"} /\ host.step \in 0 .. loop.steps
         /\ host = [pc |-> host.pc, step |-> host.step]
         /\ slots \in [Heads -> Slot]
         /\ \A i \in Heads : /\ slots[i].valid \in BOOLEAN /\ slots[i].consumed \in BOOLEAN
                            /\ slots[i].value \in 0 .. loop.steps
                            /\ slots[i].recorded \in 0 .. loop.steps
                            /\ slots[i].completed \in 0 .. loop.steps
         /\ loss \in 0 .. loop.steps /\ last \in 0 .. loop.steps
         /\ write \in Heads /\ read \in Heads
<1>1. loop.steps \in Nat /\ loop.pollEvery \in Nat \ {0} /\ loop.cuda \in BOOLEAN
  BY LoopFacts DEF TypeOK
<1>2. slots \in [Heads -> Slot]
  BY DEF TypeOK, Slot
<1>3. ASSUME NEW i \in Heads
      PROVE  /\ slots[i].valid \in BOOLEAN /\ slots[i].consumed \in BOOLEAN
             /\ slots[i].value \in 0 .. loop.steps /\ slots[i].recorded \in 0 .. loop.steps
             /\ slots[i].completed \in 0 .. loop.steps
  <2>1. slots[i] \in Slot
    BY <1>2
  <2> QED BY <2>1 DEF Slot
<1> QED BY <1>1, <1>2, <1>3 DEF TypeOK

(* An update of one slot. *)
LEMMA SlotUpdate ==
  ASSUME NEW f \in [Heads -> Slot], NEW i \in Heads, NEW s \in Slot
  PROVE  /\ [f EXCEPT ![i] = s] \in [Heads -> Slot]
         /\ [f EXCEPT ![i] = s][i] = s
         /\ \A j \in Heads \ {i} : [f EXCEPT ![i] = s][j] = f[j]
  OBVIOUS

-----------------------------------------------------------------------------
LEMMA InitInv == Init => IInv
<1> SUFFICES ASSUME Init PROVE IInv
  OBVIOUS
<1>1. TypeOK
  BY LoopFacts, HeadsFacts DEF Init, TypeOK
<1>2. Streams /\ Numbered
  BY DEF Init, Streams, Numbered, Queued
<1>3. Len(copies) = 0
  BY DEF Init
<1> QED BY <1>1, <1>2, <1>3 DEF IInv, CopyThenRecord, RecordsPending, RecordsOrdered

LEMMA TrainKeepsInv == IInv /\ Train => IInv'
<1> SUFFICES ASSUME IInv, Train PROVE IInv'
  OBVIOUS
<1> USE LoopFacts DEF IInv
<1>1. /\ loop' = loop /\ slots' = slots /\ copies' = copies /\ fence' = fence
      /\ host'.step = host.step + 1 /\ host'.pc = "queue" /\ host.pc = "train"
  BY DEF Train
<1>2. TypeOK'
  <2>1. host' \in [pc : {"train", "queue", "poll"}, step : 0 .. loop.steps]
    BY TypeFacts DEF Train
  <2>2. loss' \in 0 .. loop.steps
    BY TypeFacts DEF Train
  <2> QED BY <1>1, <2>1, <2>2 DEF TypeOK, Train
<1>3. compute' \in Seq(Kernels)'
  <2>1. Kernels' = Kernels
    BY <1>1 DEF Kernels
  <2>2. CASE loop.cuda
    <3>1. [op |-> "zero"] \in Kernels /\ [op |-> "add", step |-> host.step + 1] \in Kernels
      BY TypeFacts DEF Kernels, Train
    <3>2. << [op |-> "zero"], [op |-> "add", step |-> host.step + 1] >> \in Seq(Kernels)
      BY <3>1
    <3>3. compute' = compute \o << [op |-> "zero"], [op |-> "add", step |-> host.step + 1] >>
      BY <2>2 DEF Train
    <3>4. compute' \in Seq(Kernels)
      BY <3>2, <3>3 DEF Streams
    <3> QED BY <2>1, <3>4
  <2>3. CASE ~loop.cuda
    BY <2>1, <2>3 DEF Train, Streams
  <2> QED BY <2>2, <2>3
<1>4. Streams'
  BY <1>1, <1>3 DEF Streams, CopyOps
<1>5. Queued' = Queued
  BY <1>1 DEF Queued, TypeOK
<1>6. Numbered'
  BY <1>1, <1>5 DEF Numbered
<1> QED BY <1>1, <1>2, <1>4, <1>6 DEF CopyThenRecord, RecordsPending, RecordsOrdered, IsRecord

LEMMA QueueCudaKeepsInv == IInv /\ QueueCuda => IInv'
<1> SUFFICES ASSUME IInv, QueueCuda PROVE IInv'
  OBVIOUS
<1> USE LoopFacts DEF IInv
<1> DEFINE w == write
           n == slots[w].recorded + 1
           wait == [op |-> "wait", fence |-> fence.recorded + 1]
           copy == [op |-> "copy", slot |-> w]
           record == [op |-> "record", slot |-> w, n |-> n]
           L == Len(copies)
<1>1. /\ w \in Heads /\ n \in Nat /\ L \in Nat /\ fence.recorded \in Nat
      /\ wait \in CopyOps /\ copy \in CopyOps /\ record \in CopyOps
  <2>1. w \in Heads /\ n \in Nat
    BY TypeFacts
  <2>2. L \in Nat /\ fence.recorded \in Nat
    BY DEF Streams
  <2> QED BY <2>1, <2>2 DEF CopyOps
<1>2. /\ copies' \in Seq(CopyOps) /\ Len(copies') = L + 3
      /\ \A k \in 1 .. L : copies'[k] = copies[k]
      /\ copies'[L + 1] = wait /\ copies'[L + 2] = copy /\ copies'[L + 3] = record
  <2>1. copies' = copies \o << wait, copy, record >> /\ copies \in Seq(CopyOps)
    BY DEF QueueCuda, CopyWork, Streams
  <2> HIDE DEF wait, copy, record
  <2> QED BY <1>1, <2>1, AppendThree
<1>3. /\ slots'[w].recorded = n /\ slots'[w].completed = slots[w].completed
      /\ \A i \in Heads \ {w} : slots'[i] = slots[i]
      /\ \A i \in Heads : slots'[i].completed = slots[i].completed /\ slots'[i].recorded \in Nat
                          /\ slots[i].recorded <= slots'[i].recorded
  <2> DEFINE new == [slots[w] EXCEPT !.valid = TRUE, !.consumed = FALSE, !.recorded = n]
  <2>1. slots' = [slots EXCEPT ![w] = new]
    BY <1>1, TypeFacts DEF QueueCuda
  <2>2. new.recorded = n /\ new.completed = slots[w].completed
    BY <1>1, TypeFacts DEF Slot
  <2>3. slots'[w] = new /\ \A i \in Heads \ {w} : slots'[i] = slots[i]
    BY <1>1, <2>1, TypeFacts
  <2> HIDE DEF new
  <2>4. ASSUME NEW i \in Heads
        PROVE  /\ slots'[i].completed = slots[i].completed /\ slots'[i].recorded \in Nat
               /\ slots[i].recorded <= slots'[i].recorded
    <3>1. slots[i].recorded \in Nat
      BY TypeFacts
    <3>2. CASE i = w
      BY <1>1, <2>2, <2>3, <3>1, <3>2
    <3>3. CASE i # w
      BY <2>3, <3>1, <3>3
    <3> QED BY <3>2, <3>3
  <2> QED BY <2>2, <2>3, <2>4
<1>4. loop' = loop /\ host.pc = "queue" /\ host'.pc # "queue" /\ host'.step = host.step
  BY DEF QueueCuda, AfterQueue, TypeOK
<1>5. Queued' = Queued + 1 /\ Queued \in Int /\ Queued + 1 <= loop.steps
  BY <1>4 DEF Queued, TypeOK
<1>6. Numbered'
  <2>1. \A i \in Heads : slots[i].completed <= slots[i].recorded /\ slots[i].recorded <= Queued
    BY DEF Numbered
  <2>2. ASSUME NEW i \in Heads
        PROVE  slots'[i].completed <= slots'[i].recorded /\ slots'[i].recorded <= Queued'
    <3>1. slots[i].recorded \in Nat /\ slots[i].completed \in Nat
      BY TypeFacts
    <3>2. CASE i = w
      <4>1. slots'[i].recorded = slots[i].recorded + 1
        BY <1>3, <3>2
      <4> QED BY <1>3, <1>5, <2>1, <3>1, <4>1
    <3>3. CASE i # w
      BY <1>3, <1>5, <2>1, <3>1, <3>3
    <3> QED BY <3>2, <3>3
  <2> QED BY <2>2 DEF Numbered
<1>7. n \in 0 .. loop.steps
  BY <1>1, <1>5, TypeFacts DEF Numbered
<1>8. TypeOK'
  <2>1. slots' \in [Heads -> [valid : BOOLEAN, consumed : BOOLEAN, value : 0 .. loop.steps,
                              recorded : 0 .. loop.steps, completed : 0 .. loop.steps]]
    <3> DEFINE new == [slots[w] EXCEPT !.valid = TRUE, !.consumed = FALSE, !.recorded = n]
    <3>1. slots' = [slots EXCEPT ![w] = new]
      BY <1>1, TypeFacts DEF QueueCuda
    <3>2. new \in Slot
      BY <1>1, <1>7, TypeFacts DEF Slot
    <3> HIDE DEF new
    <3>3. slots' \in [Heads -> Slot]
      BY <1>1, <3>1, <3>2, SlotUpdate, TypeFacts
    <3> QED BY <3>3 DEF Slot
  <2>2. host' \in [pc : {"train", "queue", "poll"}, step : 0 .. loop.steps]
    BY DEF QueueCuda, AfterQueue, TypeOK
  <2> QED BY <1>1, <1>4, <2>1, <2>2, AdvanceInHeads DEF QueueCuda, TypeOK
<1>9. Streams'
  <2>1. [op |-> "fence"] \in Kernels /\ Kernels' = Kernels
    BY <1>4 DEF Kernels
  <2>2. compute' \in Seq(Kernels)'
    BY <2>1 DEF QueueCuda, Streams
  <2>3. fence' \in [recorded : Nat, completed : Nat]
    <3>1. fence' = [fence EXCEPT !.recorded = @ + 1]
      BY DEF QueueCuda
    <3> QED BY <3>1 DEF Streams
  <2> QED BY <1>2, <2>2, <2>3 DEF Streams, CopyOps
<1>10. ASSUME NEW k \in 1 .. L + 3, NEW i \in Heads, IsRecord(k, i)'
       PROVE  (k \in 1 .. L /\ IsRecord(k, i)) \/ (k = L + 3 /\ i = w /\ copies'[k].n = n)
  BY <1>1, <1>2, <1>10 DEF IsRecord
<1>11. CopyThenRecord'
  <2> SUFFICES ASSUME NEW k \in 1 .. L + 3, copies'[k].op = "copy"
               PROVE  k < L + 3 /\ copies'[k + 1].op = "record" /\ copies'[k + 1].slot = copies'[k].slot
    BY <1>1, <1>2 DEF CopyThenRecord, IsRecord
  <2>1. CASE k \in 1 .. L
    <3>1. k < L /\ IsRecord(k + 1, copies[k].slot)
      BY <1>2, <2>1 DEF CopyThenRecord
    <3>2. k + 1 \in 1 .. L
      BY <1>1, <2>1, <3>1
    <3> QED BY <1>2, <2>1, <3>1, <3>2, <1>1 DEF IsRecord
  <2>2. CASE k \notin 1 .. L
    <3>1. k = L + 2
      BY <1>1, <1>2, <2>2
    <3> QED BY <1>1, <1>2, <3>1
  <2> QED BY <2>1, <2>2
<1>12. RecordsPending'
  <2> SUFFICES ASSUME NEW i \in Heads, NEW k \in 1 .. L + 3, IsRecord(k, i)'
               PROVE  slots'[i].completed < copies'[k].n /\ copies'[k].n <= slots'[i].recorded
    BY <1>1, <1>2 DEF RecordsPending
  <2>1. CASE k \in 1 .. L /\ IsRecord(k, i)
    <3>1. copies'[k] = copies[k] /\ slots[i].completed < copies[k].n /\ copies[k].n <= slots[i].recorded
      BY <1>2, <2>1 DEF RecordsPending
    <3>2. copies[k] \in CopyOps
      BY <2>1 DEF Streams
    <3>3. copies[k].n \in Nat /\ slots[i].recorded \in Nat
      BY <2>1, <3>2, TypeFacts DEF CopyOps, IsRecord
    <3> QED BY <1>3, <3>1, <3>3
  <2>2. CASE k = L + 3 /\ i = w /\ copies'[k].n = n
    <3>1. slots[w].completed <= slots[w].recorded /\ slots[w].completed \in Nat /\ slots[w].recorded \in Nat
      BY <1>1, TypeFacts DEF Numbered
    <3> QED BY <1>3, <2>2, <3>1
  <2> QED BY <1>10, <2>1, <2>2
<1>13. RecordsOrdered'
  <2> SUFFICES ASSUME NEW i \in Heads, NEW k \in 1 .. L + 3, NEW m \in 1 .. L + 3,
                      k < m, IsRecord(k, i)', IsRecord(m, i)'
               PROVE  copies'[k].n < copies'[m].n
    BY <1>1, <1>2 DEF RecordsOrdered
  <2>1. k \in 1 .. L /\ IsRecord(k, i)
    BY <1>1, <1>10
  <2>2. CASE m \in 1 .. L /\ IsRecord(m, i)
    BY <1>2, <2>1, <2>2 DEF RecordsOrdered
  <2>3. CASE m = L + 3 /\ i = w /\ copies'[m].n = n
    <3>1. copies[k].n <= slots[w].recorded /\ copies'[k] = copies[k]
      BY <1>1, <1>2, <2>1, <2>3 DEF RecordsPending
    <3>2. copies[k] \in CopyOps
      BY <1>1, <2>1 DEF Streams
    <3>3. copies[k].n \in Nat /\ slots[w].recorded \in Nat
      BY <1>1, <2>1, <3>2, TypeFacts DEF CopyOps, IsRecord
    <3> QED BY <2>3, <3>1, <3>3
  <2> QED BY <1>10, <2>2, <2>3
<1> QED BY <1>6, <1>8, <1>9, <1>11, <1>12, <1>13

LEMMA QueueCpuKeepsInv == IInv /\ QueueCpu => IInv'
<1> SUFFICES ASSUME IInv, QueueCpu PROVE IInv'
  OBVIOUS
<1> USE LoopFacts DEF IInv
<1>1. /\ loop' = loop /\ copies' = copies /\ fence' = fence /\ compute' = compute
      /\ host.pc = "queue" /\ host'.pc # "queue" /\ host'.step = host.step
      /\ host' \in [pc : {"train", "queue", "poll"}, step : 0 .. loop.steps]
  BY DEF QueueCpu, AfterQueue, TypeOK, gpu
<1>2. \A i \in Heads : slots'[i].recorded = slots[i].recorded /\ slots'[i].completed = slots[i].completed
  BY DEF QueueCpu, TypeOK
<1>3. TypeOK'
  <2>1. slots' \in [Heads -> [valid : BOOLEAN, consumed : BOOLEAN, value : 0 .. loop.steps,
                              recorded : 0 .. loop.steps, completed : 0 .. loop.steps]]
    BY DEF QueueCpu, TypeOK
  <2> QED BY <1>1, <2>1, AdvanceInHeads DEF QueueCpu, TypeOK
<1>4. Streams'
  BY <1>1 DEF Streams, Kernels, CopyOps
<1>5. Queued <= Queued' /\ Queued \in Int /\ Queued' \in Int
  BY <1>1 DEF Queued, TypeOK
<1>6. Numbered'
  BY <1>2, <1>5 DEF Numbered, TypeOK
<1> QED BY <1>1, <1>2, <1>3, <1>4, <1>6 DEF CopyThenRecord, RecordsPending, RecordsOrdered, IsRecord

LEMMA PollKeepsInv == IInv /\ Poll => IInv'
<1> SUFFICES ASSUME IInv, Poll PROVE IInv'
  OBVIOUS
<1> USE LoopFacts DEF IInv
<1>1. /\ loop' = loop /\ copies' = copies /\ fence' = fence /\ compute' = compute
      /\ host.pc = "poll" /\ host'.pc = "train" /\ host'.step = host.step
  BY DEF Poll, TypeOK, gpu
<1> DEFINE taken == [slots[read] EXCEPT !.consumed = TRUE]
<1>2. /\ taken \in Slot /\ taken.recorded = slots[read].recorded
      /\ taken.completed = slots[read].completed /\ read \in Heads
  BY TypeFacts DEF Slot
<1>3. slots' = [slots EXCEPT ![read] = taken] \/ slots' = slots
  BY DEF Poll, Take
<1> HIDE DEF taken
<1>4. /\ slots' \in [Heads -> Slot]
      /\ \A i \in Heads : slots'[i].recorded = slots[i].recorded /\ slots'[i].completed = slots[i].completed
  BY <1>2, <1>3, TypeFacts
<1>5. TypeOK'
  <2>1. CASE Pending(read) /\ Ready(read)
    <3>1. last' \in 0 .. loop.steps /\ read' \in Heads
      BY <2>1, AdvanceInHeads, TypeFacts DEF Poll, Take
    <3> QED BY <1>1, <1>4, <3>1 DEF Poll, TypeOK, Slot
  <2>2. CASE ~(Pending(read) /\ Ready(read))
    BY <1>1, <2>2 DEF Poll, TypeOK
  <2> QED BY <2>1, <2>2
<1>6. Streams'
  BY <1>1 DEF Streams, Kernels, CopyOps
<1>7. Queued' = Queued
  BY <1>1 DEF Queued
<1>8. Numbered'
  BY <1>4, <1>7 DEF Numbered
<1> QED BY <1>1, <1>4, <1>5, <1>6, <1>8 DEF CopyThenRecord, RecordsPending, RecordsOrdered, IsRecord

LEMMA RunComputeKeepsInv == IInv /\ RunCompute => IInv'
<1> SUFFICES ASSUME IInv, RunCompute PROVE IInv'
  OBVIOUS
<1> USE LoopFacts DEF IInv
<1>1. /\ loop' = loop /\ copies' = copies /\ slots' = slots /\ host' = host
      /\ write' = write /\ read' = read /\ last' = last
  BY DEF RunCompute
<1>2. compute' \in Seq(Kernels) /\ Head(compute) \in Kernels
  BY TailAt DEF RunCompute, Streams
<1>3. loss' \in 0 .. loop.steps /\ fence' \in [recorded : Nat, completed : Nat]
  <2>1. CASE Head(compute).op = "zero"
    <3>1. loss' = 0 /\ fence' = fence
      BY <2>1 DEF RunCompute
    <3> QED BY <3>1, TypeFacts DEF Streams
  <2>2. CASE Head(compute).op = "add"
    BY <1>2, <2>2 DEF RunCompute, Streams, Kernels
  <2>3. CASE Head(compute).op = "fence"
    <3>1. fence' = [fence EXCEPT !.completed = @ + 1] /\ loss' = loss
      BY <2>3 DEF RunCompute
    <3> QED BY <3>1, TypeFacts DEF Streams
  <2> QED BY <1>2, <2>1, <2>2, <2>3 DEF Kernels
<1>4. TypeOK'
  BY <1>1, <1>3 DEF TypeOK
<1>5. Streams'
  BY <1>1, <1>2, <1>3 DEF Streams, Kernels, CopyOps
<1> QED BY <1>1, <1>4, <1>5
    DEF Numbered, Queued, CopyThenRecord, RecordsPending, RecordsOrdered, IsRecord

LEMMA RunCopyKeepsInv == IInv /\ RunCopy => IInv'
<1> SUFFICES ASSUME IInv, RunCopy PROVE IInv'
  OBVIOUS
<1> USE LoopFacts DEF IInv
<1>1. /\ loop' = loop /\ compute' = compute /\ fence' = fence /\ host' = host
      /\ write' = write /\ read' = read /\ last' = last /\ loss' = loss
      /\ copies # << >> /\ copies' = Tail(copies) /\ copies \in Seq(CopyOps)
  BY DEF RunCopy, Streams
<1>2. /\ copies' \in Seq(CopyOps) /\ Len(copies') = Len(copies) - 1 /\ Len(copies) \in Nat \ {0}
      /\ Head(copies) = copies[1] /\ copies[1] \in CopyOps
      /\ \A k \in 1 .. Len(copies') : k + 1 \in 1 .. Len(copies) /\ copies'[k] = copies[k + 1]
  BY <1>1, TailAt
<1>3. \A i \in Heads : IsRecord(1, i) =>
        copies[1].n \in Nat /\ copies[1].n <= slots[i].recorded /\ copies[1].n <= loop.steps
  <2> SUFFICES ASSUME NEW i \in Heads, IsRecord(1, i)
               PROVE  copies[1].n \in Nat /\ copies[1].n <= slots[i].recorded /\ copies[1].n <= loop.steps
    OBVIOUS
  <2>1. copies[1].n \in Nat /\ 1 \in 1 .. Len(copies)
    BY <1>2 DEF CopyOps, IsRecord
  <2>2. copies[1].n <= slots[i].recorded
    BY <2>1 DEF RecordsPending
  <2> QED BY <2>1, <2>2, TypeFacts
<1>4. /\ slots' \in [Heads -> Slot]
      /\ \A i \in Heads : slots'[i].recorded = slots[i].recorded
      /\ \A i \in Heads : slots'[i].completed = IF IsRecord(1, i) THEN copies[1].n ELSE slots[i].completed
  <2> DEFINE i == copies[1].slot
  <2>1. CASE copies[1].op = "wait"
    <3>1. slots' = slots /\ \A h \in Heads : ~IsRecord(1, h)
      BY <1>2, <2>1 DEF RunCopy, IsRecord
    <3> QED BY <3>1, TypeFacts
  <2>2. CASE copies[1].op = "copy"
    <3> DEFINE new == [slots[i] EXCEPT !.value = loss]
    <3>1. i \in Heads /\ \A h \in Heads : ~IsRecord(1, h)
      BY <1>2, <2>2 DEF CopyOps, IsRecord
    <3>2. slots' = [slots EXCEPT ![i] = new]
      BY <1>2, <2>2, TypeFacts DEF RunCopy
    <3>3. new \in Slot /\ new.recorded = slots[i].recorded /\ new.completed = slots[i].completed
      BY <3>1, TypeFacts DEF Slot
    <3> HIDE DEF new, i
    <3> QED BY <3>1, <3>2, <3>3, TypeFacts, SlotUpdate
  <2>3. CASE copies[1].op = "record"
    <3> DEFINE new == [slots[i] EXCEPT !.completed = copies[1].n]
    <3>1. i \in Heads /\ \A h \in Heads : IsRecord(1, h) <=> h = i
      BY <1>2, <2>3 DEF CopyOps, IsRecord
    <3>2. slots' = [slots EXCEPT ![i] = new]
      BY <1>2, <2>3, TypeFacts DEF RunCopy
    <3>3. copies[1].n \in 0 .. loop.steps
      BY <1>3, <3>1, TypeFacts
    <3>4. new \in Slot /\ new.recorded = slots[i].recorded /\ new.completed = copies[1].n
      BY <3>1, <3>3, TypeFacts DEF Slot
    <3> HIDE DEF new, i
    <3> QED BY <3>1, <3>2, <3>4, TypeFacts, SlotUpdate
  <2> QED BY <1>2, <2>1, <2>2, <2>3 DEF CopyOps
<1>5. TypeOK'
  BY <1>1, <1>4 DEF TypeOK, Slot
<1>6. Streams'
  BY <1>1, <1>2 DEF Streams, Kernels, CopyOps
<1>7. Numbered'
  BY <1>1, <1>3, <1>4 DEF Numbered, Queued
<1>8. ASSUME NEW k \in 1 .. Len(copies'), NEW i \in Heads
      PROVE  /\ IsRecord(k, i)' <=> IsRecord(k + 1, i)
             /\ k + 1 \in 1 .. Len(copies) /\ copies'[k] = copies[k + 1]
  BY <1>2 DEF IsRecord
<1>9. CopyThenRecord'
  <2> SUFFICES ASSUME NEW k \in 1 .. Len(copies'), copies'[k].op = "copy"
               PROVE  k < Len(copies') /\ IsRecord(k + 1, copies[k + 1].slot)'
    BY <1>2 DEF CopyThenRecord, IsRecord
  <2>1. k + 1 \in 1 .. Len(copies) /\ copies'[k] = copies[k + 1]
    BY <1>2
  <2>2. k + 1 < Len(copies) /\ IsRecord(k + 2, copies[k + 1].slot)
    BY <2>1 DEF CopyThenRecord
  <2>3. k < Len(copies') /\ k + 1 \in 1 .. Len(copies')
    BY <1>2, <2>2
  <2> QED BY <1>2, <2>2, <2>3 DEF IsRecord
<1>10. RecordsPending'
  <2> SUFFICES ASSUME NEW i \in Heads, NEW k \in 1 .. Len(copies'), IsRecord(k, i)'
               PROVE  slots'[i].completed < copies'[k].n /\ copies'[k].n <= slots'[i].recorded
    BY DEF RecordsPending
  <2>1. IsRecord(k + 1, i) /\ k + 1 \in 1 .. Len(copies) /\ copies'[k] = copies[k + 1]
    BY <1>8
  <2>2. slots[i].completed < copies[k + 1].n /\ copies[k + 1].n <= slots[i].recorded
    BY <2>1 DEF RecordsPending
  <2>3. IsRecord(1, i) => copies[1].n < copies[k + 1].n
    BY <1>2, <2>1 DEF RecordsOrdered
  <2> QED BY <1>4, <2>1, <2>2, <2>3
<1>11. RecordsOrdered'
  <2> SUFFICES ASSUME NEW i \in Heads, NEW k \in 1 .. Len(copies'), NEW m \in 1 .. Len(copies'),
                      k < m, IsRecord(k, i)', IsRecord(m, i)'
               PROVE  copies'[k].n < copies'[m].n
    BY DEF RecordsOrdered
  <2>1. /\ IsRecord(k + 1, i) /\ k + 1 \in 1 .. Len(copies) /\ copies'[k] = copies[k + 1]
        /\ IsRecord(m + 1, i) /\ m + 1 \in 1 .. Len(copies) /\ copies'[m] = copies[m + 1]
    BY <1>8
  <2>2. k + 1 < m + 1
    OBVIOUS
  <2> QED BY <2>1, <2>2 DEF RecordsOrdered
<1> QED BY <1>5, <1>6, <1>7, <1>9, <1>10, <1>11

LEMMA StepInv == IInv /\ [Next]_vars => IInv'
<1> SUFFICES ASSUME IInv, [Next]_vars PROVE IInv'
  OBVIOUS
<1>1. CASE UNCHANGED vars
  BY <1>1 DEF vars, IInv, TypeOK, Streams, Kernels, CopyOps, Numbered, Queued, CopyThenRecord,
              RecordsPending, RecordsOrdered, IsRecord
<1> QED BY <1>1, TrainKeepsInv, QueueCudaKeepsInv, QueueCpuKeepsInv, PollKeepsInv,
           RunComputeKeepsInv, RunCopyKeepsInv DEF Next

LEMMA InvImpliesReady == IInv => ReadyMeansCopied
<1> SUFFICES ASSUME IInv, NEW i \in Heads, Ready(i), NEW k \in DOMAIN copies, copies[k].op = "copy"
             PROVE  copies[k].slot # i
  BY DEF ReadyMeansCopied
<1>1. k \in 1 .. Len(copies) /\ Len(copies) \in Nat
  BY DEF IInv, Streams
<1>2. k < Len(copies) /\ IsRecord(k + 1, copies[k].slot)
  BY <1>1 DEF IInv, CopyThenRecord
<1>3. k + 1 \in 1 .. Len(copies)
  BY <1>1, <1>2
<1>4. SUFFICES ASSUME copies[k].slot = i PROVE FALSE
  OBVIOUS
<1>5. slots[i].completed < copies[k + 1].n /\ copies[k + 1].n <= slots[i].recorded
  BY <1>2, <1>3, <1>4 DEF IInv, RecordsPending
<1>6. slots[i].completed = slots[i].recorded /\ slots[i].recorded \in Nat /\ copies[k + 1].n \in Nat
  <2>1. copies[k + 1] \in CopyOps /\ copies[k + 1].op = "record"
    BY <1>2, <1>3 DEF IInv, Streams, IsRecord
  <2> QED BY <2>1, TypeFacts DEF IInv, Ready, CopyOps
<1> QED BY <1>5, <1>6

-----------------------------------------------------------------------------
LEMMA AdvanceIs ==
  ASSUME NEW h \in Heads
  PROVE  Advance(h) \in Heads /\ Advance(h) = IF h + 1 = Depth THEN 0 ELSE h + 1
<1>1. Depth \in Nat \ {0} /\ h \in Nat /\ h < Depth
  BY ReaderAssumption DEF Heads
<1>2. h + 1 = Depth => (h + 1) % Depth = 0
  BY <1>1
<1>3. h + 1 < Depth => (h + 1) % Depth = h + 1
  BY <1>1
<1> QED BY <1>1, <1>2, <1>3, AdvanceInHeads DEF Advance

LEMMA RingFacts ==
  ASSUME NEW a \in Heads, NEW i \in Heads
  PROVE  /\ Ahead(a, i) \in 0 .. Depth - 1
         /\ Ahead(a, a) = 0
         /\ i # a => Ahead(Advance(a), i) = Ahead(a, i) - 1
         /\ Ahead(Advance(a), a) = Depth - 1
<1>1. Depth \in Nat \ {0} /\ a \in 0 .. Depth - 1 /\ i \in 0 .. Depth - 1
  BY ReaderAssumption DEF Heads
<1>2. Advance(a) = IF a + 1 = Depth THEN 0 ELSE a + 1
  BY AdvanceIs
<1> QED BY <1>1, <1>2 DEF Ahead

LEMMA InitCpu == Init => CpuInv
<1> SUFFICES ASSUME Init PROVE OnCpu /\ Aged /\ TakenBehind /\ LagBounded
  BY DEF CpuInv
<1>1. \A i \in Heads : slots[i].valid = FALSE /\ slots[i].completed = 0 /\ slots[i].recorded = 0
  BY DEF Init
<1>2. host.pc = "train" /\ host.step = 0 /\ write = 0 /\ read = 0 /\ last = 0 /\ loss = 0
  BY DEF Init
<1>3. Depth \in Nat \ {0} /\ Heads \subseteq Nat
  BY HeadsFacts
<1>4. \A i \in Heads : Ahead(0, i) <= Ahead(0, i)
  BY <1>3 DEF Ahead
<1> QED BY <1>1, <1>2, <1>3, <1>4 DEF Init, OnCpu, Aged, TakenBehind, LagBounded, Ready

LEMMA TrainCpu == IInv /\ CpuInv /\ Train => CpuInv'
<1> SUFFICES ASSUME IInv, OnCpu, Aged, TakenBehind, ~loop.cuda, Train
             PROVE  (OnCpu /\ Aged /\ TakenBehind /\ LagBounded)'
  BY DEF CpuInv, Train
<1>1. /\ host'.pc = "queue" /\ host'.step = host.step + 1 /\ host.pc = "train" /\ loss' = host.step + 1
      /\ UNCHANGED <<loop, compute, copies, slots, write, read, last>>
  BY DEF Train
<1>2. Queued' = Queued
  BY <1>1, TypeFacts DEF Queued, IInv
<1> QED BY <1>1, <1>2 DEF OnCpu, Aged, TakenBehind, LagBounded, Ready, Age, Pending

LEMMA QueueCpuCpu == IInv /\ CpuInv /\ QueueCpu => CpuInv'
<1> SUFFICES ASSUME IInv, OnCpu, Aged, TakenBehind, ~loop.cuda, QueueCpu
             PROVE  (OnCpu /\ Aged /\ TakenBehind /\ LagBounded)'
  BY DEF CpuInv, QueueCpu
<1> DEFINE w == write
<1>1. /\ host.pc = "queue" /\ host'.pc = AfterQueue /\ host'.step = host.step
      /\ write' = Advance(w) /\ UNCHANGED <<loop, compute, copies, loss, read, last>>
  BY TypeFacts DEF QueueCpu, gpu, IInv
<1>2. /\ w \in Heads /\ read \in Heads /\ Depth \in Nat \ {0} /\ Heads = 0 .. Depth - 1
      /\ host.step \in Nat
      /\ slots \in [Heads -> Slot]
  BY TypeFacts, ReaderAssumption DEF IInv, Heads
<1>3. /\ slots'[w].valid = TRUE /\ slots'[w].consumed = FALSE /\ slots'[w].value = loss
      /\ slots'[w].completed = slots[w].completed /\ slots'[w].recorded = slots[w].recorded
      /\ \A i \in Heads \ {w} : slots'[i] = slots[i]
  BY <1>2 DEF QueueCpu, Slot
<1>4. OnCpu'
  BY <1>1, <1>2, <1>3 DEF OnCpu, Ready
<1>5. Queued = host.step - 1 /\ Queued' = host.step
  BY <1>1 DEF Queued, AfterQueue
<1>6. write' = IF w + 1 = Depth THEN 0 ELSE w + 1
  BY <1>1, <1>2, AdvanceIs
<1>7. Aged'
  <2> SUFFICES ASSUME NEW i \in Heads, slots'[i].valid PROVE slots'[i].value + Age(i)' > host.step
    BY <1>5 DEF Aged
  <2>1. CASE i = w
    <3>1. Age(i)' = 1
      BY <1>2, <1>6, <2>1 DEF Age
    <3> QED BY <1>2, <1>3, <2>1, <3>1 DEF OnCpu
  <2>2. CASE i # w
    <3>1. Age(i)' = Age(i) + 1 /\ Age(i) \in Nat
      BY <1>2, <1>6, <2>2 DEF Age
    <3>2. slots'[i] = slots[i] /\ slots[i].value + Age(i) > host.step - 1 /\ slots[i].value \in Nat
      BY <1>3, <1>5, <2>2, TypeFacts DEF Aged, IInv
    <3> QED BY <1>2, <3>1, <3>2
  <2> QED BY <2>1, <2>2
<1>8. TakenBehind'
  <2>1. ASSUME NEW i \in Heads, ~Pending(i)' PROVE Ahead(write', i) < Ahead(read, i)
    <3>1. i # w
      BY <1>3, <2>1 DEF Pending
    <3>2. Ahead(w, i) <= Ahead(read, i)
      BY <1>1, <1>3, <2>1, <3>1 DEF Pending, TakenBehind
    <3>3. /\ Ahead(write', i) = Ahead(w, i) - 1
          /\ Ahead(w, i) \in 0 .. Depth - 1 /\ Ahead(read, i) \in 0 .. Depth - 1
      BY <1>1, <1>2, <3>1, RingFacts
    <3> QED BY <1>2, <3>2, <3>3
  <2>2. \A i \in Heads : Ahead(write', i) \in Int /\ Ahead(read, i) \in Int
    <3>1. write' \in Heads
      BY <1>1, <1>2, AdvanceIs
    <3>2. \A a, i \in Heads : Ahead(a, i) \in Int
      BY <1>2, RingFacts
    <3> QED BY <1>2, <3>1, <3>2
  <2> QED BY <1>1, <2>1, <2>2 DEF TakenBehind
<1>9. LagBounded'
  BY <1>1 DEF LagBounded, AfterQueue
<1> QED BY <1>4, <1>7, <1>8, <1>9

LEMMA PollCpu == IInv /\ CpuInv /\ Poll => CpuInv'
<1> SUFFICES ASSUME IInv, OnCpu, Aged, TakenBehind, ~loop.cuda, Poll
             PROVE  (OnCpu /\ Aged /\ TakenBehind /\ LagBounded)'
  BY DEF CpuInv, Poll
<1>1. /\ read \in Heads /\ write \in Heads /\ Depth \in Nat \ {0} /\ Heads = 0 .. Depth - 1
      /\ host.step \in Nat /\ slots \in [Heads -> Slot]
      /\ host.pc = "poll" /\ host'.pc = "train" /\ host'.step = host.step
      /\ UNCHANGED <<loop, compute, copies, loss, write>>
  BY TypeFacts, ReaderAssumption DEF IInv, Heads, Poll, gpu
<1>2. Pending(read) /\ Ready(read)
  <2>1. Pending(read)
    <3>1. ~(Ahead(write, read) < Ahead(read, read))
      BY <1>1, RingFacts
    <3> QED BY <1>1, <3>1 DEF TakenBehind
  <2> QED BY <1>1, <2>1 DEF OnCpu
<1>3. last' = slots[read].value /\ read' = Advance(read)
      /\ slots' = [slots EXCEPT ![read].consumed = TRUE]
  BY <1>2 DEF Poll, Take
<1>4. \A i \in Heads : /\ slots'[i].valid = slots[i].valid /\ slots'[i].value = slots[i].value
                       /\ slots'[i].completed = slots[i].completed
                       /\ slots'[i].recorded = slots[i].recorded
                       /\ i # read => slots'[i].consumed = slots[i].consumed
  BY <1>1, <1>3 DEF Slot
<1>5. OnCpu'
  BY <1>1, <1>4 DEF OnCpu, Ready
<1>6. Queued' = Queued /\ Queued = host.step
  BY <1>1 DEF Queued
<1>7. Aged'
  BY <1>1, <1>4, <1>6 DEF Aged, Age
<1>8. TakenBehind'
  <2> SUFFICES ASSUME NEW i \in Heads, ~Pending(i)' PROVE Ahead(write, i) <= Ahead(read', i)
    BY <1>1 DEF TakenBehind
  <2>1. CASE i = read
    <3>1. Ahead(read', i) = Depth - 1 /\ Ahead(write, i) \in 0 .. Depth - 1
      BY <1>1, <1>3, <2>1, RingFacts
    <3> QED BY <1>1, <3>1
  <2>2. CASE i # read
    <3>1. Ahead(write, i) < Ahead(read, i)
      BY <1>1, <1>4, <2>2 DEF Pending, TakenBehind
    <3>2. /\ Ahead(read', i) = Ahead(read, i) - 1
          /\ Ahead(write, i) \in 0 .. Depth - 1 /\ Ahead(read, i) \in 0 .. Depth - 1
      BY <1>1, <1>3, <2>2, RingFacts
    <3> QED BY <1>1, <3>1, <3>2
  <2> QED BY <2>1, <2>2
<1>9. LagBounded'
  <2>1. slots[read].valid /\ slots[read].value \in Nat
    BY <1>1, <1>2, TypeFacts DEF Pending, IInv
  <2>2. Age(read) \in 1 .. Depth
    BY <1>1 DEF Age
  <2>3. slots[read].value + Age(read) > host.step
    BY <1>1, <1>6, <2>1 DEF Aged
  <2>4. host.step - last' < Depth
    BY <1>1, <1>3, <2>1, <2>2, <2>3
  <2> QED BY <1>1, <2>4 DEF LagBounded
<1> QED BY <1>5, <1>7, <1>8, <1>9

LEMMA StepCpu == IInv /\ CpuInv /\ [Next]_vars => CpuInv'
<1> SUFFICES ASSUME IInv, CpuInv, [Next]_vars PROVE CpuInv'
  OBVIOUS
<1>1. CASE QueueCuda \/ RunCompute \/ RunCopy
  BY <1>1 DEF QueueCuda, RunCompute, RunCopy, CpuInv, OnCpu
<1>2. CASE UNCHANGED vars
  BY <1>2 DEF vars, CpuInv, OnCpu, Aged, TakenBehind, LagBounded, Ready, Pending, Age, Queued
<1> QED BY <1>1, <1>2, TrainCpu, QueueCpuCpu, PollCpu DEF Next

-----------------------------------------------------------------------------
(* The queues of both streams are what queue() and the training loop put   *)
(* there, in every reachable state.                                        *)
THEOREM ReaderSound == Spec => []IInv
<1> QED BY InitInv, StepInv, PTL DEF Spec

(* The heads stay in the ring and no value comes from a step that has not  *)
(* been trained.                                                           *)
THEOREM TypeCorrect == Spec => []TypeOK
<1>1. IInv => TypeOK
  BY DEF IInv
<1> QED BY <1>1, ReaderSound, PTL

(* When cudaEventQuery() reports a slot's event complete, no copy into that *)
(* slot is outstanding, however far the streams lag and however often the  *)
(* writer has lapped the reader.                                           *)
THEOREM ReadySlotsAreCopied == Spec => []ReadyMeansCopied
<1> QED BY InvImpliesReady, ReaderSound, PTL

(* On the CPU every poll() finds the slot at the read head pending and     *)
(* takes the loss of one of the last Depth steps, for every depth of the   *)
(* ring and however rarely the loop polls.                                 *)
THEOREM LagIsBounded == Spec => []LagBounded
<1>1. Init => IInv /\ CpuInv
  BY InitInv, InitCpu
<1>2. (IInv /\ CpuInv) /\ [Next]_vars => (IInv /\ CpuInv)'
  BY StepInv, StepCpu
<1>3. CpuInv => LagBounded
  BY DEF CpuInv, LagBounded
<1> QED BY <1>1, <1>2, <1>3, PTL DEF Spec
=============================================================================
