--------------------------- MODULE ZwtCheckpoint ---------------------------
(***************************************************************************)
(* Checkpoint and resume in zwt: save_checkpoint and load_checkpoint of    *)
(* train/checkpoint.cpp, called by rank 0's step loop in                   *)
(* tools/zwt_pretrain.cpp, over a sequence of launches of the program      *)
(* that may crash.  The host thread enqueues AdamW steps and copies on the *)
(* compute stream; a copy runs when the stream reaches it, and two pinned  *)
(* buffers take turns between the stream and the file.                     *)
(*                                                                         *)
(* The value of a tensor is the sequence of batches it has learned from.   *)
(* The disk keeps the file the program sees at ckpt_path, and the one that *)
(* has surely reached the medium: nothing in the code syncs, so a power    *)
(* loss before the write-back brings back the older file or a truncation.  *)
(***************************************************************************)
EXTENDS Integers, Sequences, SequencesExt, FiniteSets

CONSTANTS
  Models,      \* what may be trained: sequences of parameters, each a record
               \* of a name and a shape, in the order of collect_params
  MaxSteps,    \* max_steps
  Interval,    \* ckpt_interval
  GradAccum,   \* grad_accum
  Warmup,      \* kWarmupIters of the graph capture
  NoFile,      \* no file at ckpt_path
  Truncated,   \* what a file that ends early holds
  Torn,        \* what tensors of different steps hold
  MaxLaunches  \* bound on the launches of the program

ASSUME CheckpointAssumption ==
  /\ MaxSteps \in Nat \ {0} /\ Interval \in Nat \ {0}
  /\ GradAccum \in Nat \ {0} /\ Warmup \in Nat /\ MaxLaunches \in Nat
  /\ \A m \in Models : m \in Seq(Range(m)) \ {<< >>}
  /\ \A m \in Models : \A i, j \in DOMAIN m : m[i].name = m[j].name => i = j

VARIABLES
  path, safe,   \* the file at ckpt_path, and the last one on the medium
  settled,      \* whether path has reached the medium
  powerLost,    \* whether power was ever lost
  launches,     \* launches of the program so far
  pc,           \* off | load | warm | train | save | final | done, or how
                \* a launch failed: save_failed | load_failed
  model, graph, \* the configured parameters; whether a graph is captured
  step,         \* step, and step_count_ of the optimiser
  cursor,       \* batches the loader has handed out
  mem,          \* the value of each tensor on the device
  stream,       \* work enqueued on the compute stream
  buf,          \* the pinned buffers
  out,          \* the file being written: its header and records
  i,            \* the record the loop of a save or a load is at
  cudaIdx,      \* cuda_idx of load_checkpoint
  seen          \* the tensors load_checkpoint has found

disk == <<path, safe, settled, powerLost>>
launch == <<launches, model, graph>>
position == <<step, cursor>>
loop == <<i, cudaIdx, seen>>
vars == <<disk, launch, pc, position, mem, stream, buf, out, loop>>

-----------------------------------------------------------------------------
(* The tensors of a model in the order they are written. *)
TensorsOf(m) ==
  [k \in 1 .. 3 * Len(m) |->
    LET p == m[(k + 2) \div 3]
    IN  [name |-> p.name, kind |-> <<"value", "m", "v">>[((k - 1) % 3) + 1],
         shape |-> p.shape]]

(* Files, finished or cut short; what stands for no file or no content is  *)
(* none of them.                                                           *)
Files ==
  [ step : Nat, cursor : Nat, n : Nat,
    records : Seq([tensor : UNION {Range(TensorsOf(m)) : m \in Models}, data : Seq(Nat)]) ]

ASSUME NoFileAssumption == NoFile \notin Files /\ {NoFile, Truncated} \cap Seq(Nat) = {}

Tensors == TensorsOf(model)
Fresh(m) == [t \in Range(TensorsOf(m)) |-> << >>]

(* The pinned buffer of record k (k counts from 1). *)
Slot(k) == (k - 1) % 2

Batches(from, n) == [b \in 1 .. n |-> from + b]

Unused == [s \in 0 .. 1 |-> << >>]

Init ==
  /\ path = NoFile /\ safe = NoFile /\ settled = TRUE /\ powerLost = FALSE
  /\ launches = 0 /\ pc = "off"
  /\ model \in Models /\ graph = FALSE
  /\ step = 0 /\ cursor = 0
  /\ mem = Fresh(model)
  /\ stream = << >> /\ buf = Unused
  /\ out = NoFile
  /\ i = 0 /\ cudaIdx = 0 /\ seen = {}

-----------------------------------------------------------------------------
(* The compute stream: AdamW steps, and copies between a tensor and a      *)
(* pinned buffer, each followed by a record of the buffer's event.         *)

StepOp(batches) == [op |-> "step", batches |-> batches]
ToHost(t, s)    == [op |-> "d2h", tensor |-> t, slot |-> s]
ToDevice(t, s)  == [op |-> "h2d", tensor |-> t, slot |-> s]

DeviceRuns ==
  /\ stream # << >>
  /\ LET w == Head(stream)
     IN  /\ mem' = CASE w.op = "step" -> [t \in DOMAIN mem |-> mem[t] \o w.batches]
                     [] w.op = "h2d"  -> [mem EXCEPT ![w.tensor] = buf[w.slot]]
                     [] OTHER         -> mem
         /\ buf' = IF w.op = "d2h" THEN [buf EXCEPT ![w.slot] = mem[w.tensor]] ELSE buf
  /\ stream' = Tail(stream)
  /\ UNCHANGED <<disk, launch, pc, position, out, loop>>

(* cudaEventSynchronize returns: the last record of the event has run. *)
Passed(s) == \A w \in Range(stream) : w.op # "step" => w.slot # s

-----------------------------------------------------------------------------
(* Launch, training, and the ways a launch ends.                           *)

Ended == {"off", "save_failed", "load_failed"}

Launch(m, g, resume) ==
  /\ pc \in Ended /\ launches < MaxLaunches
  /\ launches' = launches + 1
  /\ model' = m /\ graph' = g
  /\ mem' = Fresh(m)
  /\ pc' = IF resume THEN "load" ELSE "warm"
  /\ UNCHANGED <<disk, position, stream, buf, out, loop>>

(* The process ends, and all it had in memory is gone. *)
Ends(how) ==
  /\ pc' = how
  /\ step' = 0 /\ cursor' = 0 /\ mem' = Fresh(model)
  /\ stream' = << >> /\ buf' = Unused /\ out' = NoFile
  /\ i' = 0 /\ cudaIdx' = 0 /\ seen' = {}
  /\ UNCHANGED launch

Exit == pc = "done" /\ Ends("off") /\ UNCHANGED disk

(* Graph capture runs kWarmupIters micro-batches of real tokens and throws *)
(* their gradients away.                                                   *)
WarmUp ==
  /\ pc = "warm"
  /\ cursor' = IF graph THEN cursor + Warmup ELSE cursor
  /\ pc' = "train"
  /\ UNCHANGED <<disk, launch, step, mem, stream, buf, out, loop>>

(* One optimiser step: grad_accum batches, then AdamW. *)
TrainStep ==
  /\ pc = "train" /\ step < MaxSteps
  /\ step' = step + 1
  /\ cursor' = cursor + GradAccum
  /\ stream' = Append(stream, StepOp(Batches(cursor, GradAccum)))
  /\ pc' = IF step' % Interval = 0 THEN "save" ELSE "train"
  /\ UNCHANGED <<disk, launch, mem, buf, out, loop>>

(* After the loop: cudaDeviceSynchronize, then the final checkpoint. *)
Finish ==
  /\ pc = "train" /\ step >= MaxSteps
  /\ stream = << >>
  /\ pc' = "final"
  /\ UNCHANGED <<disk, launch, position, mem, stream, buf, out, loop>>

-----------------------------------------------------------------------------
(* save_checkpoint                                                         *)

Saving == pc \in {"save", "final"}

(* kick_d2h *)
Kick(k) ==
  IF k > Len(Tensors) THEN << >> ELSE <<ToHost(Tensors[k], Slot(k))>>

(* Mutant: the file is opened at ckpt_path itself. *)
SaveOpenInPlace ==
  /\ Saving /\ out = NoFile
  /\ out' = [step |-> IF pc = "final" THEN MaxSteps ELSE step,
             cursor |-> cursor, n |-> Len(Tensors), records |-> << >>]
  /\ path' = out' /\ settled' = FALSE
  /\ stream' = stream \o Kick(1) \o Kick(2)
  /\ i' = 1
  /\ UNCHANGED <<safe, powerLost, launch, pc, position, mem, buf, cudaIdx, seen>>

(* The header, and the copies of the first two records. *)
SaveOpen ==
  /\ Saving /\ out = NoFile
  /\ out' = [step |-> IF pc = "final" THEN MaxSteps ELSE step,
             cursor |-> cursor, n |-> Len(Tensors), records |-> << >>]
  /\ stream' = stream \o Kick(1) \o Kick(2)
  /\ i' = 1
  /\ UNCHANGED <<disk, launch, pc, position, mem, buf, cudaIdx, seen>>

(* Mutant: no wait for the copy into the buffer. *)
SaveWriteAtOnce ==
  /\ Saving /\ out # NoFile /\ i <= Len(Tensors)
  /\ out' = [out EXCEPT !.records =
              Append(@, [tensor |-> Tensors[i], data |-> buf[Slot(i)]])]
  /\ stream' = stream \o Kick(i + 2)
  /\ i' = i + 1
  /\ UNCHANGED <<disk, launch, pc, position, mem, buf, cudaIdx, seen>>

(* wait_d2h and the write of record i; the next iteration starts record    *)
(* i + 2 on its way into the buffer just written out.                      *)
SaveWrite ==
  /\ Saving /\ out # NoFile /\ i <= Len(Tensors)
  /\ Passed(Slot(i))
  /\ out' = [out EXCEPT !.records =
              Append(@, [tensor |-> Tensors[i], data |-> buf[Slot(i)]])]
  /\ stream' = stream \o Kick(i + 2)
  /\ i' = i + 1
  /\ UNCHANGED <<disk, launch, pc, position, mem, buf, cudaIdx, seen>>

(* close, and rename over the last checkpoint. *)
SaveClose ==
  /\ Saving /\ out # NoFile /\ i > Len(Tensors)
  /\ path' = out /\ out' = NoFile /\ settled' = FALSE
  /\ pc' = IF pc = "final" THEN "done" ELSE "train"
  /\ i' = 0 /\ buf' = Unused
  /\ UNCHANGED <<safe, powerLost, launch, position, mem, stream, cudaIdx, seen>>

(* The open, a write, the close or the rename fails and throws; nobody     *)
(* catches it.                                                             *)
SaveFails == Saving /\ Ends("save_failed") /\ UNCHANGED disk

-----------------------------------------------------------------------------
(* load_checkpoint                                                         *)

LoadThrows == Ends("load_failed") /\ UNCHANGED disk

(* There is a file, with as many records as the model needs. *)
Readable == path # NoFile /\ path.n = Len(Tensors)

LoadOpen ==
  /\ pc = "load" /\ i = 0 /\ Readable
  /\ i' = 1
  /\ UNCHANGED <<disk, launch, pc, position, mem, stream, buf, out, cudaIdx, seen>>

LoadRefuses ==
  /\ pc = "load" /\ i = 0 /\ ~Readable
  /\ LoadThrows

Reading == pc = "load" /\ i # 0 /\ i <= path.n

(* The tensor of the model that record r is for, by name. *)
Targets(r) ==
  {t \in Range(Tensors) : t.name = r.tensor.name /\ t.kind = r.tensor.kind}

(* A record of the model: into the next pinned buffer once its last copy   *)
(* is over, then on its way to the device.                                 *)
LoadRecord ==
  /\ Reading /\ i <= Len(path.records)
  /\ LET r == path.records[i]
         s == cudaIdx % 2
     IN  /\ r.tensor \in Targets(r)
         /\ Passed(s)
         /\ buf' = [buf EXCEPT ![s] = r.data]
         /\ stream' = Append(stream, ToDevice(r.tensor, s))
         /\ cudaIdx' = cudaIdx + 1
         /\ seen' = seen \union {r.tensor}
  /\ i' = i + 1
  /\ UNCHANGED <<disk, launch, pc, position, mem, out>>

(* A record of no parameter of the model is passed over. *)
LoadSkips ==
  /\ Reading /\ i <= Len(path.records)
  /\ Targets(path.records[i]) = {}
  /\ i' = i + 1
  /\ UNCHANGED <<disk, launch, pc, position, mem, stream, buf, out, cudaIdx, seen>>

(* The file ends early, or validate_record finds another shape. *)
LoadInvalid ==
  /\ Reading
  /\ \/ i > Len(path.records)
     \/ /\ i <= Len(path.records)
        /\ LET r == path.records[i] IN Targets(r) \notin {{}, {r.tensor}}
  /\ LoadThrows

Loaded == pc = "load" /\ i # 0 /\ i > path.n /\ Passed(0) /\ Passed(1)

(* Mutant: set_step_count and resume_step are left out. *)
LoadDoneKeepsStep ==
  /\ Loaded /\ seen = Range(Tensors)
  /\ cursor' = path.cursor
  /\ pc' = "warm" /\ i' = 0 /\ cudaIdx' = 0 /\ seen' = {} /\ buf' = Unused
  /\ UNCHANGED <<disk, launch, step, mem, stream, out>>

(* Mutant: the loader starts from its first batch. *)
LoadDoneFromStart ==
  /\ Loaded /\ seen = Range(Tensors)
  /\ step' = path.step
  /\ pc' = "warm" /\ i' = 0 /\ cudaIdx' = 0 /\ seen' = {} /\ buf' = Unused
  /\ UNCHANGED <<disk, launch, cursor, mem, stream, out>>

LoadDone ==
  /\ Loaded /\ seen = Range(Tensors)
  /\ step' = path.step /\ cursor' = path.cursor
  /\ pc' = "warm" /\ i' = 0 /\ cudaIdx' = 0 /\ seen' = {} /\ buf' = Unused
  /\ UNCHANGED <<disk, launch, mem, stream, out>>

LoadMissing ==
  /\ Loaded /\ seen # Range(Tensors)
  /\ LoadThrows

-----------------------------------------------------------------------------
(* The machine                                                             *)

Crash == pc \notin Ended /\ Ends("off") /\ UNCHANGED disk

WriteBack ==
  /\ ~settled
  /\ safe' = path /\ settled' = TRUE
  /\ UNCHANGED <<path, powerLost, launch, pc, position, mem, stream, buf, out, loop>>

(* The start of a file that had not reached the medium. *)
Truncations(file) ==
  {[file EXCEPT !.records = SubSeq(@, 1, k)] : k \in 0 .. Len(file.records) - 1}

PowerLoss ==
  /\ path' \in {safe} \union (IF settled THEN {} ELSE Truncations(path))
  /\ safe' = path' /\ settled' = TRUE /\ powerLost' = TRUE
  /\ Ends("off")

Starts == \E m \in Models, g, resume \in BOOLEAN : Launch(m, g, resume)
Trains == WarmUp \/ TrainStep \/ Finish \/ Exit
Saves  == SaveOpen \/ SaveWrite \/ SaveClose
Loads  == \/ LoadOpen \/ LoadRecord \/ LoadSkips \/ LoadDone
          \/ LoadRefuses \/ LoadInvalid \/ LoadMissing

Next == \/ DeviceRuns \/ Starts \/ Trains \/ Saves \/ SaveFails \/ Loads
        \/ Crash \/ WriteBack \/ PowerLoss

Spec == Init /\ [][Next]_vars
-----------------------------------------------------------------------------
(* Properties                                                              *)

AllBatches == MaxSteps * GradAccum + MaxLaunches * Warmup

IsFile(f) ==
  /\ DOMAIN f = {"step", "cursor", "n", "records"}
  /\ f.step \in 0 .. MaxSteps /\ f.cursor \in 0 .. AllBatches
  /\ \E m \in Models : /\ f.n = 3 * Len(m)
                       /\ IsPrefix([k \in DOMAIN f.records |-> f.records[k].tensor],
                                   TensorsOf(m))

(* Every variable keeps its kind; the file being written and the ones on   *)
(* the disk hold the records of some model in collect_params order.        *)
TypeOK ==
  /\ \A f \in {path, safe, out} : f = NoFile \/ IsFile(f)
  /\ settled \in BOOLEAN /\ powerLost \in BOOLEAN /\ graph \in BOOLEAN /\ model \in Models
  /\ launches \in 0 .. MaxLaunches
  /\ pc \in Ended \union {"load", "warm", "train", "save", "final", "done"}
  /\ step \in 0 .. MaxSteps /\ cursor \in 0 .. AllBatches
  /\ DOMAIN mem = Range(Tensors) /\ DOMAIN buf = {0, 1}
  /\ i \in 0 .. Len(Tensors) + 1 /\ cudaIdx \in 0 .. Len(Tensors)
  /\ seen \subseteq Range(Tensors)

(* What all of a set of values agree on. *)
Agreed(values) == IF Cardinality(values) = 1 THEN CHOOSE v \in values : TRUE ELSE Torn

Queued == FlattenSeq([k \in DOMAIN stream |->
            IF stream[k].op = "step" THEN stream[k].batches ELSE << >>])

(* What the model of this launch has learned from, once it is loaded: the  *)
(* tensors and the optimiser's moments must agree on it.                   *)
Learned ==
  IF pc \in {"warm", "train", "save", "final", "done"}
  THEN Agreed({mem[t] \o Queued : t \in Range(Tensors)})
  ELSE << >>

(* What a checkpoint has learned from: all its records must agree on it. *)
Content(file) ==
  IF file = NoFile THEN NoFile
  ELSE IF Len(file.records) < file.n THEN Truncated
  ELSE Agreed({r.data : r \in Range(file.records)})

AS == INSTANCE AtomicSave
        WITH live <- Learned, saved <- Content(path), safe <- Content(safe),
             Nothing <- NoFile, Broken <- Truncated

(* A checkpoint saves the model and both moments of every parameter as one *)
(* optimiser step left them, although the copies overlap the file writes   *)
(* through two reused buffers; a crash at any moment leaves the last one;  *)
(* a resumed run trains from exactly the saved state or not at all; only a *)
(* power loss can make the file older, or unusable.                        *)
ImplementsAtomicSave == AS!Spec

(* The step and the cursor in a file's header are those of its tensors:    *)
(* grad_accum batches per step, and none the loader hands out afterwards   *)
(* has been learned already.                                               *)
HeaderMatchesTensors ==
  \A f \in {path, safe} : Content(f) \notin {NoFile, Truncated} =>
    /\ Len(Content(f)) = f.step * GradAccum
    /\ \A b \in Range(Content(f)) : b <= f.cursor

(* Over all crashes and resumptions a model learns from no batch twice and *)
(* in the loader's order, and misses only what the graph warm-up of one    *)
(* launch drained.                                                         *)
OnlyWarmUpIsSkipped ==
  \A k \in 1 .. Len(Learned) :
    Learned[k] - (IF k = 1 THEN 0 ELSE Learned[k - 1]) \in {1, 1 + Warmup}

(* A load fails only if there is no file, or it is of another model, or a  *)
(* power loss cut it: a process crash never costs the checkpoint.          *)
LoadFailsForCause ==
  pc = "load_failed" =>
    \/ path = NoFile \/ powerLost
    \/ path.n # Len(Tensors)
    \/ \E r \in Range(path.records) : r.tensor \notin Range(Tensors)
=============================================================================
