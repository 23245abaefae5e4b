-------------------------- MODULE AsyncLossReader --------------------------
(***************************************************************************)
(* The non-blocking loss readout of olmo_cpp (train/async_loss_reader.cpp) *)
(* in the step loops of train.cpp.  Each step zeroes and accumulates one   *)
(* loss tensor on the compute stream; queue() sends a copy of it through   *)
(* a side stream into the next slot of a ring; poll() takes the slot at    *)
(* the read head if its copy has arrived.                                  *)
(*                                                                         *)
(* A loss is the number of the step that computed it, 0 a zeroed tensor.   *)
(***************************************************************************)
EXTENDS Integers, Sequences

CONSTANTS
  Depth,  \* slots of the ring
  Loops   \* the step loops: is the loss on the GPU, the steps from one poll() to the
          \* next, and the bound on the steps of the run

ASSUME ReaderAssumption ==
  Depth \in Nat \ {0} /\ Loops \subseteq [cuda : BOOLEAN, pollEvery : Nat \ {0}, steps : Nat]

VARIABLES
  loop,     \* the step loop that runs
  host,     \* the call the training thread makes next, and its step
  compute,  \* kernels enqueued on the compute stream
  copies,   \* work enqueued on copy_stream_
  loss,     \* accum_loss_tensor, in device memory
  slots,    \* slots_: flags, value, records of the event enqueued and completed
  fence,    \* records of compute_barrier_ enqueued and completed
  write,    \* write_head_
  read,     \* read_head_
  last      \* last_value_

vars == <<loop, host, compute, copies, loss, slots, fence, write, read, last>>

gpu == <<compute, copies, fence>>

Heads == 0 .. Depth - 1

Init ==
  /\ loop \in Loops
  /\ host = [pc |-> "train", step |-> 0]
  /\ compute = << >> /\ copies = << >>
  /\ loss = 0
  /\ slots = [i \in Heads |->
       [valid |-> FALSE, consumed |-> TRUE, value |-> 0, recorded |-> 0, completed |-> 0]]
  /\ fence = [recorded |-> 0, completed |-> 0]
  /\ write = 0 /\ read = 0
  /\ last = 0

-----------------------------------------------------------------------------
(* zero_(), the backward passes and add_() of one step. *)
Train ==
  /\ host.pc = "train" /\ host.step < loop.steps
  /\ host' = [pc |-> "queue", step |-> host.step + 1]
  /\ IF loop.cuda
       THEN /\ compute' = compute \o << [op |-> "zero"], [op |-> "add", step |-> host.step + 1] >>
            /\ UNCHANGED loss
       ELSE /\ loss' = host.step + 1
            /\ UNCHANGED compute
  /\ UNCHANGED <<loop, copies, slots, fence, write, read, last>>

Advance(head) == (head + 1) % Depth

(* The train loop polls in the steps that are multiples of pollEvery, the  *)
(* first one (step 0 of the code) included.                                *)
AfterQueue == IF (host.step - 1) % loop.pollEvery = 0 THEN "poll" ELSE "train"

(* Mutant: the event is recorded before the copy. *)
CopyWorkEarly(barrier, n) ==
  << [op |-> "wait", fence |-> barrier], [op |-> "record", slot |-> write, n |-> n],
     [op |-> "copy", slot |-> write] >>

(* A wait for the compute stream, the copy, and the event of the slot. *)
CopyWork(barrier, n) ==
  << [op |-> "wait", fence |-> barrier], [op |-> "copy", slot |-> write],
     [op |-> "record", slot |-> write, n |-> n] >>

QueueCuda ==
  /\ host.pc = "queue" /\ loop.cuda
  /\ host' = [host EXCEPT !.pc = AfterQueue]
  /\ slots' = [slots EXCEPT ![write].valid = TRUE, ![write].consumed = FALSE,
                            ![write].recorded = @ + 1]
  /\ fence' = [fence EXCEPT !.recorded = @ + 1]
  /\ compute' = Append(compute, [op |-> "fence"])
  /\ copies' = copies \o CopyWork(fence.recorded + 1, slots[write].recorded + 1)
  /\ write' = Advance(write)
  /\ UNCHANGED <<loop, loss, read, last>>

(* Mutant: a slot that was read once stays consumed. *)
QueueCpuConsumed ==
  /\ host.pc = "queue" /\ ~loop.cuda
  /\ host' = [host EXCEPT !.pc = AfterQueue]
  /\ slots' = [slots EXCEPT ![write].valid = TRUE, ![write].value = loss,
                            ![write].consumed = slots[write].valid]
  /\ write' = Advance(write)
  /\ UNCHANGED <<loop, gpu, loss, read, last>>

(* On the CPU the value is stored at once. *)
QueueCpu ==
  /\ host.pc = "queue" /\ ~loop.cuda
  /\ host' = [host EXCEPT !.pc = AfterQueue]
  /\ slots' = [slots EXCEPT ![write].valid = TRUE, ![write].consumed = FALSE,
                            ![write].value = loss]
  /\ write' = Advance(write)
  /\ UNCHANGED <<loop, gpu, loss, read, last>>

Pending(i) == slots[i].valid /\ ~slots[i].consumed

(* cudaEventQuery: has the last record of the event completed? *)
Ready(i) == slots[i].completed = slots[i].recorded

Take ==
  /\ last' = slots[read].value
  /\ slots' = [slots EXCEPT ![read].consumed = TRUE]
  /\ read' = Advance(read)

Poll ==
  /\ host.pc = "poll"
  /\ host' = [host EXCEPT !.pc = "train"]
  /\ IF Pending(read) /\ Ready(read) THEN Take ELSE UNCHANGED <<slots, read, last>>
  /\ UNCHANGED <<loop, gpu, loss, write>>

-----------------------------------------------------------------------------
(* The streams. *)
RunCompute ==
  /\ compute # << >>
  /\ compute' = Tail(compute)
  /\ CASE Head(compute).op = "zero" -> loss' = 0 /\ UNCHANGED fence
       [] Head(compute).op = "add" -> loss' = Head(compute).step /\ UNCHANGED fence
       [] Head(compute).op = "fence" ->
            fence' = [fence EXCEPT !.completed = @ + 1] /\ UNCHANGED loss
  /\ UNCHANGED <<loop, host, copies, slots, write, read, last>>

RunCopy ==
  /\ copies # << >>
  /\ copies' = Tail(copies)
  /\ LET k == Head(copies)
     IN  \/ k.op = "wait" /\ fence.completed >= k.fence /\ UNCHANGED slots
         \/ k.op = "copy" /\ slots' = [slots EXCEPT ![k.slot].value = loss]
         \/ k.op = "record" /\ slots' = [slots EXCEPT ![k.slot].completed = k.n]
  /\ UNCHANGED <<loop, host, compute, loss, fence, write, read, last>>

Next == Train \/ QueueCuda \/ QueueCpu \/ Poll \/ RunCompute \/ RunCopy

Spec == Init /\ [][Next]_vars

-----------------------------------------------------------------------------
TypeOK ==
  /\ loop \in Loops
  /\ host \in [pc : {"train", "queue", "poll"}, step : 0 .. loop.steps]
  /\ slots \in [Heads -> [valid : BOOLEAN, consumed : BOOLEAN, value : 0 .. loop.steps,
                          recorded : 0 .. loop.steps, completed : 0 .. loop.steps]]
  /\ loss \in 0 .. loop.steps /\ last \in 0 .. loop.steps
  /\ write \in Heads /\ read \in Heads

(* An event that has completed stands for the copy into its slot: poll()   *)
(* never reads a slot that the side stream may still write, however far    *)
(* the streams lag and however often the writer has lapped the ring.       *)
ReadyMeansCopied ==
  \A i \in Heads : Ready(i) => \A k \in DOMAIN copies : copies[k].op = "copy" => copies[k].slot # i

(* On the CPU the value poll() leaves is of one of the last Depth steps,   *)
(* although a loop that polls rarely lets the writer lap the read head.    *)
LagBounded ==
  ~loop.cuda /\ host.pc = "train" /\ (host.step - 1) % loop.pollEvery = 0 => host.step - last < Depth
=============================================================================
