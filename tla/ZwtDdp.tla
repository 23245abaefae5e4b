------------------------------- MODULE ZwtDdp -------------------------------
(***************************************************************************)
(* Data-parallel training in zwt (dist/ddp.cpp, dist/comm.cpp and the step *)
(* loop of tools/zwt_pretrain.cpp).  On every rank a host thread enqueues  *)
(* work on two CUDA streams without waiting for it: the compute stream     *)
(* runs the backward kernels, the gathers into the bucket staging buffers, *)
(* the scatters and AdamW; the comm stream runs the all-reduces.  Only     *)
(* events order one stream after the other.                                *)
(*                                                                         *)
(* A gradient is the set of the contributions summed in it, each the       *)
(* <<rank, step, micro-batch>> whose backward pass produced it.            *)
(***************************************************************************)
EXTENDS Integers, Sequences, FiniteSets, SequencesExt

CONSTANTS
  Ranks,        \* the processes of the job
  Sizes,        \* bytes of each parameter's gradient, in construction order
  BucketBytes,  \* bucket_bytes_
  Layers,       \* the parameters of each layer, both in forward order
  Accum,        \* grad_accum: micro-batches of a step
  MaxSteps,     \* bound: max_steps of the run
  QueueDepth    \* bound: launches the host can be ahead of its streams

ASSUME DdpAssumption ==
  /\ Accum \in Nat \ {0} /\ MaxSteps \in Nat /\ QueueDepth \in Nat \ {0}
  /\ Sizes \in Seq(Nat \ {0}) \ {<< >>} /\ BucketBytes \in Nat

(* collect_params: each layer has parameters, each parameter is in one. *)
ASSUME LayersAssumption ==
  /\ Layers \in Seq(Seq(DOMAIN Sizes) \ {<< >>})
  /\ \A p \in DOMAIN Sizes : \E l \in DOMAIN Layers : \E k \in DOMAIN Layers[l] : Layers[l][k] = p
  /\ \A l, m \in DOMAIN Layers : \A j \in DOMAIN Layers[l] : \A k \in DOMAIN Layers[m] :
       Layers[l][j] = Layers[m][k] => l = m /\ j = k

VARIABLES
  host,      \* where the host thread of each rank is in its step loop
  mgr,       \* BucketManager, and fire_idx of OverlapHookup's callback
  compute,   \* work enqueued on the compute stream and not yet run
  comm,      \* work enqueued on the comm stream and not yet run
  events,    \* records of each event: enqueued, and completed
  grads,     \* Parameter::grad
  staged,    \* the bucket staging buffers, by parameter
  sent,      \* what each rank put into its n-th all-reduce
  reduced,   \* all-reduces completed
  used       \* the gradients each AdamW step has read

vars == <<host, mgr, compute, comm, events, grads, staged, sent, reduced, used>>

streams == <<compute, comm>>
memory == <<grads, staged, sent, reduced, used>>

-----------------------------------------------------------------------------
(* build_buckets_(): from the last parameter to the first, a new bucket    *)
(* whenever the next parameter would not fit.                              *)
Params == DOMAIN Sizes

BytesOf(bucket) == FoldLeft(LAMBDA n, p : n + Sizes[p], 0, bucket)

Place(buckets, p) ==
  IF buckets # << >> /\ BytesOf(Last(buckets)) + Sizes[p] <= BucketBytes
    THEN Front(buckets) \o << Append(Last(buckets), p) >>
    ELSE Append(buckets, <<p>>)

(* The buckets of the last n parameters. *)
BucketsOfLast[n \in 0 .. Len(Sizes)] ==
  IF n = 0 THEN << >> ELSE Place(BucketsOfLast[n - 1], Len(Sizes) + 1 - n)

Buckets == BucketsOfLast[Len(Sizes)]

BucketIds == DOMAIN Buckets

Members == [b \in BucketIds |-> ToSet(Buckets[b])]

BucketOf == [p \in Params |-> CHOOSE b \in BucketIds : p \in Members[b]]

(* begin_step(). *)
FreshBuckets == [b \in BucketIds |-> [remaining |-> Len(Buckets[b]), fired |-> FALSE]]

(* The events of a rank: bucket_done_[b], and one grad_ready per firing,   *)
(* of which only the number matters since the compute stream records them  *)
(* in order.                                                               *)
NoRecords == [done |-> [b \in BucketIds |-> 0], ready |-> 0]

Init ==
  /\ host = [r \in Ranks |-> [pc |-> "top", step |-> 0, micro |-> 0, layer |-> 0, marks |-> << >>]]
  /\ mgr = [r \in Ranks |-> [buckets |-> FreshBuckets, fires |-> 0]]
  /\ compute = [r \in Ranks |-> << >>]
  /\ comm = [r \in Ranks |-> << >>]
  /\ events = [r \in Ranks |-> [recorded |-> NoRecords, completed |-> NoRecords]]
  /\ grads = [r \in Ranks |-> [p \in Params |-> {}]]
  /\ staged = [r \in Ranks |-> [p \in Params |-> {}]]
  /\ sent = [r \in Ranks |-> << >>]
  /\ reduced = [r \in Ranks |-> 0]
  /\ used = [r \in Ranks |-> << >>]

-----------------------------------------------------------------------------
(* The host thread.                                                        *)

Enqueue(queue, r, ops) == queue' = [queue EXCEPT ![r] = @ \o ops]

(* The top of the loop: opt.zero_grad(). *)
StartStep(r) ==
  /\ host[r].pc = "top"
  /\ host[r].step < MaxSteps
  /\ Len(compute[r]) + Len(comm[r]) < QueueDepth
  /\ host' = [host EXCEPT ![r] = [ pc |-> "backward", step |-> host[r].step + 1, micro |-> 1,
                                   layer |-> Len(Layers), marks |-> << >> ]]
  /\ Enqueue(compute, r, << [op |-> "zero"] >>)
  /\ UNCHANGED <<mgr, comm, events, memory>>

(* After a layer: the layer before it, the next micro-batch, or the end of *)
(* the backward passes.                                                    *)
AfterLayer(h) ==
  IF h.layer > 1 THEN [h EXCEPT !.pc = "backward", !.layer = @ - 1]
  ELSE IF h.micro < Accum THEN [h EXCEPT !.pc = "backward", !.micro = @ + 1, !.layer = Len(Layers)]
  ELSE [h EXCEPT !.pc = "sync"]

(* backward() of one layer; only the last micro-batch signals the manager. *)
BackwardLayer(r) ==
  LET h == host[r]
  IN  /\ h.pc = "backward"
      /\ Enqueue(compute, r, << [op |-> "backward", layer |-> h.layer,
                                 batch |-> <<r, h.step, h.micro>>] >>)
      /\ host' = [host EXCEPT ![r] =
           IF h.micro = Accum THEN [h EXCEPT !.pc = "mark", !.marks = Layers[h.layer]]
           ELSE AfterLayer(h)]
      /\ UNCHANGED <<mgr, comm, events, memory>>

(* Mutant: the bucket fires before its last parameter. *)
CompletesEarly(bucket) == bucket.remaining <= 2

Completes(bucket) == bucket.remaining <= 1

(* Mutant: the comm stream does not wait for the gather. *)
FireUnordered(r, b) ==
  /\ Enqueue(compute, r, << [op |-> "gather", bucket |-> b], [op |-> "ready"] >>)
  /\ Enqueue(comm, r, << [op |-> "reduce", bucket |-> b], [op |-> "done", event |-> b] >>)
  /\ events' = [events EXCEPT ![r].recorded.ready = @ + 1, ![r].recorded.done[b] = @ + 1]

(* The callback of OverlapHookup: an event after the gather on the compute *)
(* stream, a wait for it and the all-reduce on the comm stream, and the    *)
(* record of bucket_done_[fire_idx], fire_idx being counted over all steps.*)
Fire(r, b) ==
  LET n == events[r].recorded.ready + 1
      idx == mgr[r].fires + 1
      done == events[r].recorded.done
  IN  /\ Enqueue(compute, r, << [op |-> "gather", bucket |-> b], [op |-> "ready"] >>)
      /\ Enqueue(comm, r,
           << [op |-> "wait", ready |-> n], [op |-> "reduce", bucket |-> b] >>
             \o IF idx \in BucketIds THEN << [op |-> "done", event |-> idx] >> ELSE << >>)
      /\ events' = [events EXCEPT ![r].recorded =
           [ ready |-> n, done |-> [e \in BucketIds |-> done[e] + IF e = idx THEN 1 ELSE 0] ]]

(* mark_ready() of the next parameter of the layer. *)
MarkReady(r) ==
  LET h == host[r]
      b == BucketOf[Head(h.marks)]
      bucket == mgr[r].buckets[b]
  IN  /\ h.pc = "mark"
      /\ ~bucket.fired
      /\ host' = [host EXCEPT ![r] =
           IF Len(h.marks) > 1 THEN [h EXCEPT !.marks = Tail(h.marks)]
           ELSE AfterLayer([h EXCEPT !.marks = << >>])]
      /\ IF Completes(bucket)
           THEN /\ Fire(r, b)
                /\ mgr' = [mgr EXCEPT ![r].buckets[b] = [remaining |-> 0, fired |-> TRUE],
                                      ![r].fires = @ + 1]
           ELSE /\ mgr' = [mgr EXCEPT ![r].buckets[b].remaining = @ - 1]
                /\ UNCHANGED <<streams, events>>
      /\ UNCHANGED memory

EachBucket(op(_)) == [b \in BucketIds |-> op(b)]

(* Mutant: finalize() leaves the buckets as they are. *)
SyncWithoutBeginStep(r) ==
  /\ host[r].pc = "sync"
  /\ \A b \in BucketIds : mgr[r].buckets[b].fired
  /\ Enqueue(compute, r,
       EachBucket(LAMBDA b : [op |-> "wait", event |-> b, n |-> events[r].recorded.done[b]])
         \o EachBucket(LAMBDA b : [op |-> "scatter", bucket |-> b]))
  /\ host' = [host EXCEPT ![r].pc = "optimize"]
  /\ UNCHANGED <<mgr, comm, events, memory>>

(* sync_and_finalize(): the compute stream waits for the last record of    *)
(* every bucket_done event, if it has one, and scatters the buckets; then  *)
(* begin_step().                                                           *)
SyncAndFinalize(r) ==
  /\ host[r].pc = "sync"
  /\ \A b \in BucketIds : mgr[r].buckets[b].fired
  /\ Enqueue(compute, r,
       EachBucket(LAMBDA b : [op |-> "wait", event |-> b, n |-> events[r].recorded.done[b]])
         \o EachBucket(LAMBDA b : [op |-> "scatter", bucket |-> b]))
  /\ mgr' = [mgr EXCEPT ![r].buckets = FreshBuckets]
  /\ host' = [host EXCEPT ![r].pc = "optimize"]
  /\ UNCHANGED <<comm, events, memory>>

(* clipper.clip() and opt.step(). *)
OptStep(r) ==
  /\ host[r].pc = "optimize"
  /\ Enqueue(compute, r, << [op |-> "adamw"] >>)
  /\ host' = [host EXCEPT ![r].pc = "top"]
  /\ UNCHANGED <<mgr, comm, events, memory>>

-----------------------------------------------------------------------------
(* The streams: each runs its work in order.                               *)

ComputeOp(r, op) == compute[r] # << >> /\ Head(compute[r]).op = op

CommOp(r, op) == comm[r] # << >> /\ Head(comm[r]).op = op

ComputeDone(r) == compute' = [compute EXCEPT ![r] = Tail(@)] /\ UNCHANGED <<host, mgr, comm>>

CommDone(r) == comm' = [comm EXCEPT ![r] = Tail(@)] /\ UNCHANGED <<host, mgr, compute>>

RunZeroGrad(r) ==
  /\ ComputeOp(r, "zero")
  /\ ComputeDone(r)
  /\ grads' = [grads EXCEPT ![r] = [p \in Params |-> {}]]
  /\ UNCHANGED <<events, staged, sent, reduced, used>>

RunBackward(r) ==
  /\ ComputeOp(r, "backward")
  /\ ComputeDone(r)
  /\ LET k == Head(compute[r])
     IN  grads' = [grads EXCEPT ![r] = [p \in Params |->
                    grads[r][p] \cup IF p \in ToSet(Layers[k.layer]) THEN {k.batch} ELSE {}]]
  /\ UNCHANGED <<events, staged, sent, reduced, used>>

(* Copies from one buffer to the other, for the parameters of a bucket. *)
Copied(from, to, b) == [p \in Params |-> IF p \in Members[b] THEN from[p] ELSE to[p]]

RunGather(r) ==
  /\ ComputeOp(r, "gather")
  /\ ComputeDone(r)
  /\ staged' = [staged EXCEPT ![r] = Copied(grads[r], staged[r], Head(compute[r]).bucket)]
  /\ UNCHANGED <<events, grads, sent, reduced, used>>

RunRecordReady(r) ==
  /\ ComputeOp(r, "ready")
  /\ ComputeDone(r)
  /\ events' = [events EXCEPT ![r].completed.ready = @ + 1]
  /\ UNCHANGED memory

RunWaitDone(r) ==
  /\ ComputeOp(r, "wait")
  /\ events[r].completed.done[Head(compute[r]).event] >= Head(compute[r]).n
  /\ ComputeDone(r)
  /\ UNCHANGED <<events, memory>>

RunScatter(r) ==
  /\ ComputeOp(r, "scatter")
  /\ ComputeDone(r)
  /\ grads' = [grads EXCEPT ![r] = Copied(staged[r], grads[r], Head(compute[r]).bucket)]
  /\ UNCHANGED <<events, staged, sent, reduced, used>>

RunAdamW(r) ==
  /\ ComputeOp(r, "adamw")
  /\ ComputeDone(r)
  /\ used' = [used EXCEPT ![r] = Append(@, grads[r])]
  /\ UNCHANGED <<events, grads, staged, sent, reduced>>

RunWaitReady(r) ==
  /\ CommOp(r, "wait")
  /\ events[r].completed.ready >= Head(comm[r]).ready
  /\ CommDone(r)
  /\ UNCHANGED <<events, memory>>

(* ncclAllReduce: the kernel of a rank reads its buffer, and writes the    *)
(* average once every rank has put its part into the same collective.      *)
JoinAllReduce(r) ==
  /\ CommOp(r, "reduce")
  /\ Len(sent[r]) = reduced[r]
  /\ sent' = [sent EXCEPT ![r] = Append(@, staged[r])]
  /\ UNCHANGED <<host, mgr, streams, events, grads, staged, reduced, used>>

FinishAllReduce(r) ==
  LET n == reduced[r] + 1
      b == Head(comm[r]).bucket
  IN  /\ CommOp(r, "reduce")
      /\ \A q \in Ranks : Len(sent[q]) >= n
      /\ staged' = [staged EXCEPT ![r] = [p \in Params |->
           IF p \in Members[b] THEN UNION {sent[q][n][p] : q \in Ranks} ELSE staged[r][p]]]
      /\ reduced' = [reduced EXCEPT ![r] = n]
      /\ CommDone(r)
      /\ UNCHANGED <<events, grads, sent, used>>

RunRecordDone(r) ==
  /\ CommOp(r, "done")
  /\ CommDone(r)
  /\ events' = [events EXCEPT ![r].completed.done[Head(comm[r]).event] = @ + 1]
  /\ UNCHANGED memory

-----------------------------------------------------------------------------
Host(r) == StartStep(r) \/ BackwardLayer(r) \/ MarkReady(r) \/ SyncAndFinalize(r) \/ OptStep(r)

Compute(r) ==
  \/ RunZeroGrad(r) \/ RunBackward(r) \/ RunGather(r) \/ RunRecordReady(r)
  \/ RunWaitDone(r) \/ RunScatter(r) \/ RunAdamW(r)

Comm(r) == RunWaitReady(r) \/ JoinAllReduce(r) \/ FinishAllReduce(r) \/ RunRecordDone(r)

Next == \E r \in Ranks : Host(r) \/ Compute(r) \/ Comm(r)

(* The host thread runs, and a stream runs what it can run. *)
Fairness == \A r \in Ranks : WF_vars(Host(r)) /\ WF_vars(Compute(r)) /\ WF_vars(Comm(r))

Spec == Init /\ [][Next]_vars /\ Fairness

-----------------------------------------------------------------------------
Local(r, s) == {<<r, s, m>> : m \in 1 .. Accum}

Mean(s) == UNION {Local(r, s) : r \in Ranks}

Gradients == SUBSET (Ranks \X (1 .. MaxSteps) \X (1 .. Accum))

TypeOK ==
  /\ \A r \in Ranks :
       /\ host[r].pc \in {"top", "backward", "mark", "sync", "optimize"}
       /\ host[r].step \in 0 .. MaxSteps /\ host[r].micro \in 0 .. Accum
       /\ host[r].layer \in 0 .. Len(Layers)
       /\ mgr[r].fires \in 0 .. MaxSteps * Len(Buckets)
       /\ \A b \in BucketIds : mgr[r].buckets[b].remaining \in 0 .. Len(Buckets[b])
  /\ grads \in [Ranks -> [Params -> Gradients]]
  /\ staged \in [Ranks -> [Params -> Gradients]]
  /\ reduced \in [Ranks -> 0 .. MaxSteps * Len(Buckets)]

(* When a bucket is gathered, every micro-batch of the step has been added *)
(* to the gradient of each of its parameters, and nothing of another step. *)
GatherComplete ==
  \A r \in Ranks : ComputeOp(r, "gather") =>
    \A p \in Members[Head(compute[r]).bucket] :
      \E s \in 1 .. MaxSteps : grads[r][p] = Local(r, s)

(* "The bucket_done event is what opt.step() waits on to guarantee the     *)
(* fp32 grad is fully reduced before AdamW reads it" (comm.hpp:28): AdamW  *)
(* reads the average over all ranks and micro-batches of the same step.    *)
UsesMean(s) == \A r \in Ranks, p \in Params : s \in DOMAIN used[r] => used[r][s][p] = Mean(s)

StepUsesMean == \A s \in 1 .. MaxSteps : UsesMean(s)

(* The same of the first step alone.  fire_idx is never reset, so that is  *)
(* the only step whose all-reduces record bucket_done_ and the only one    *)
(* whose scatter is ordered after them: StepUsesMean fails from the second *)
(* on, whatever the host threads and the first step do.                    *)
FirstStepUsesMean == UsesMean(1)

(* Streams, events and collectives never wait for each other in a circle:  *)
(* every rank gets through all its steps.                                  *)
TrainingEnds == \A r \in Ranks : <>(Len(used[r]) = MaxSteps)
=============================================================================
