--------------------------- MODULE ZwtActivations ---------------------------
(***************************************************************************)
(* The activations of zwt's hand-written layers: which scratch tensors one *)
(* micro-batch allocates, saves, views, reads and drops, in the order of   *)
(* the C++ scopes, over the arena that recycles their memory.              *)
(*                                                                         *)
(* A layer is the sequence of instructions its forward() or backward()     *)
(* runs.  Slots <<l, name>> are the Tensor objects of layer l (0 for the   *)
(* model); a slot that owns storage has a block, a view has the block of   *)
(* the tensor it was taken from.  A kernel that writes a block makes every *)
(* other slot over it stale.                                               *)
(***************************************************************************)
EXTENDS Arena, FiniteSets

CONSTANTS
  Shapes,                \* the model configurations to run
  MaxPasses              \* bound: micro-batches run

ASSUME ActivationsAssumption ==
  /\ MaxPasses \in Nat
  /\ Shapes \subseteq [layers : Nat, rows : Positive, seq : Positive, heads : Positive,
                      kv : Positive, dim : Positive, hidden : Positive, vocab : Positive]

VARIABLES
  shape,  \* layers, rows (batch x seq), seq, heads, kv, dim, hidden, vocab
  pass,   \* which call of run_micro_batch this is
  pc,     \* the next instruction
  view,   \* non-owning slot -> the block it points to
  stale   \* the slots whose contents another tensor overwrote

vars == <<shape, pass, pc, arena, own, view, stale>>

-----------------------------------------------------------------------------
(* Instructions *)
Take(t, n) == <<[op |-> "take", t |-> t, n |-> n]>>         \* Tensor t = empty_scratch(n)
Assign(t, u) == <<[op |-> "assign", t |-> t, u |-> u]>>     \* t = std::move(u)
View(v, t) == <<[op |-> "view", t |-> v, u |-> t]>>         \* v = t.view(...)
Kernel(outs, ins) == <<[op |-> "kernel", outs |-> outs, ins |-> ins]>>
Drop(t) == <<[op |-> "drop", t |-> t]>>                     \* end of t's scope

(* Mutant: the first temporary of a scope is never released. *)
DropsAllButFirst(l, names) == [i \in 1 .. Len(names) - 1 |-> Drop(<<l, names[i + 1]>>)[1]]

(* The destructors at the end of a scope, latest declaration first. *)
Drops(l, names) == [i \in DOMAIN names |-> Drop(<<l, names[i]>>)[1]]

Save(m, n) == Take(<<0, "fresh">>, n) \o Assign(m, <<0, "fresh">>)

(* Element counts of the tensors. *)
Model == shape.rows * shape.heads * shape.dim
KV == shape.rows * shape.kv * shape.dim
Scores == shape.rows * shape.heads * shape.seq
Hidden == shape.rows * shape.hidden
Logits == shape.rows * shape.vocab
Rstd == 2 * shape.rows   \* fp32 beside bf16 activations

-----------------------------------------------------------------------------
(* Layers: forward and backward *)
RMSNormF(l, nm, x, y) ==
  View(<<l, nm, "in">>, x) \o Save(<<l, nm, "rstd">>, Rstd) \o Take(y, Model)
  \o Kernel({y, <<l, nm, "rstd">>}, {x})

RMSNormB(l, nm, g, gx) ==
  Take(gx, Model) \o Kernel({gx}, {g, <<l, nm, "in">>, <<l, nm, "rstd">>})

LinearF(l, nm, x, y, n) == View(<<l, nm, "in">>, x) \o Take(y, n) \o Kernel({y}, {x})

LinearB(l, nm, g, gx, n) ==
  Kernel({}, {g, <<l, nm, "in">>}) \o Take(gx, n) \o Kernel({gx}, {g})

SdpaF(l) ==
  Take(<<l, "scores">>, Scores)
  \o Kernel({<<l, "scores">>}, {<<l, "saved_q">>, <<l, "saved_k">>})
  \o Kernel({<<l, "saved_out">>}, {<<l, "scores">>, <<l, "saved_v">>})
  \o Drop(<<l, "scores">>)

SdpaB(l) ==
  Take(<<l, "probs">>, Scores)
  \o Kernel({<<l, "probs">>}, {<<l, "saved_q">>, <<l, "saved_k">>})
  \o Kernel({<<l, "gv">>}, {<<l, "probs">>, <<l, "gob">>})
  \o Take(<<l, "gs">>, Scores)
  \o Kernel({<<l, "gs">>}, {<<l, "gob">>, <<l, "saved_v">>, <<l, "probs">>})
  \o Kernel({<<l, "gq">>}, {<<l, "gs">>, <<l, "saved_k">>})
  \o Kernel({<<l, "gk">>}, {<<l, "gs">>, <<l, "saved_q">>})
  \o Drops(l, <<"gs", "probs">>)

(* The compact K and V of grouped-query attention, expanded to all heads.  *)
HeadsF(l) ==
  IF shape.kv = shape.heads
  THEN Save(<<l, "saved_k">>, Model) \o Save(<<l, "saved_v">>, Model)
       \o Kernel({<<l, "saved_k">>}, {<<l, "k">>}) \o Kernel({<<l, "saved_v">>}, {<<l, "v">>})
  ELSE Take(<<l, "k_kv">>, KV) \o Take(<<l, "v_kv">>, KV)
       \o Kernel({<<l, "k_kv">>}, {<<l, "k">>}) \o Kernel({<<l, "v_kv">>}, {<<l, "v">>})
       \o Save(<<l, "saved_k">>, Model) \o Save(<<l, "saved_v">>, Model)
       \o Kernel({<<l, "saved_k">>}, {<<l, "k_kv">>})
       \o Kernel({<<l, "saved_v">>}, {<<l, "v_kv">>})
       \o Drops(l, <<"v_kv", "k_kv">>)

HeadsB(l) ==
  IF shape.kv = shape.heads
  THEN Assign(<<l, "gk_kv">>, <<l, "gk">>) \o Assign(<<l, "gv_kv">>, <<l, "gv">>)
  ELSE Take(<<l, "gk_kv">>, KV) \o Take(<<l, "gv_kv">>, KV)
       \o Kernel({<<l, "gk_kv">>}, {<<l, "gk">>}) \o Kernel({<<l, "gv_kv">>}, {<<l, "gv">>})

AttentionF(l, x, y) ==
  LinearF(l, "q_proj", x, <<l, "q">>, Model) \o LinearF(l, "k_proj", x, <<l, "k">>, KV)
  \o LinearF(l, "v_proj", x, <<l, "v">>, KV)
  \o Kernel({<<l, "q">>}, {<<l, "q">>}) \o Kernel({<<l, "k">>}, {<<l, "k">>})   \* rope
  \o Save(<<l, "saved_q">>, Model) \o Kernel({<<l, "saved_q">>}, {<<l, "q">>})
  \o HeadsF(l)
  \o Save(<<l, "saved_out">>, Model) \o SdpaF(l)
  \o Take(<<l, "out_bshd">>, Model) \o Kernel({<<l, "out_bshd">>}, {<<l, "saved_out">>})
  \o LinearF(l, "out_proj", <<l, "out_bshd">>, y, Model)
  \o Drops(l, <<"out_bshd", "v", "k", "q">>)

AttentionB(l, g, gx) ==
  LinearB(l, "out_proj", g, <<l, "gout">>, Model)
  \o Take(<<l, "gob">>, Model) \o Kernel({<<l, "gob">>}, {<<l, "gout">>})
  \o Take(<<l, "gq">>, Model) \o Take(<<l, "gk">>, Model) \o Take(<<l, "gv">>, Model)
  \o SdpaB(l) \o HeadsB(l)
  \o Take(<<l, "gq_s">>, Model) \o Take(<<l, "gk_s">>, KV) \o Take(<<l, "gv_s">>, KV)
  \o Kernel({<<l, "gq_s">>}, {<<l, "gq">>}) \o Kernel({<<l, "gk_s">>}, {<<l, "gk_kv">>})
  \o Kernel({<<l, "gv_s">>}, {<<l, "gv_kv">>})
  \o Kernel({<<l, "gq_s">>}, {<<l, "gq_s">>}) \o Kernel({<<l, "gk_s">>}, {<<l, "gk_s">>})
  \o LinearB(l, "q_proj", <<l, "gq_s">>, <<l, "gx_q">>, Model)
  \o LinearB(l, "k_proj", <<l, "gk_s">>, <<l, "gx_k">>, Model)
  \o LinearB(l, "v_proj", <<l, "gv_s">>, <<l, "gx_v">>, Model)
  \o Take(gx, Model) \o Kernel({gx}, {<<l, "gx_q">>, <<l, "gx_k">>, <<l, "gx_v">>})
  \o Drops(l, <<"gx_v", "gx_k", "gx_q", "gv_s", "gk_s", "gq_s", "gv_kv", "gk_kv", "gv", "gk",
                "gq", "gob", "gout">>)

FFNF(l, x, y) ==
  LinearF(l, "gate_up", x, <<l, "up">>, 2 * Hidden) \o Assign(<<l, "combined">>, <<l, "up">>)
  \o Save(<<l, "silu_mul">>, Hidden) \o Kernel({<<l, "silu_mul">>}, {<<l, "combined">>})
  \o LinearF(l, "down", <<l, "silu_mul">>, y, Model)

FFNB(l, g, gx) ==
  LinearB(l, "down", g, <<l, "gh">>, Hidden)
  \o Take(<<l, "gc">>, 2 * Hidden) \o Kernel({<<l, "gc">>}, {<<l, "gh">>, <<l, "combined">>})
  \o LinearB(l, "gate_up", <<l, "gc">>, gx, Model)
  \o Drops(l, <<"gc", "gh">>)

BlockF(l, x, z) ==
  RMSNormF(l, "norm1", x, <<l, "n1">>) \o AttentionF(l, <<l, "n1">>, <<l, "a">>)
  \o Save(<<l, "after_attn">>, Model) \o Kernel({<<l, "after_attn">>}, {x, <<l, "a">>})
  \o RMSNormF(l, "norm2", <<l, "after_attn">>, <<l, "n2">>)
  \o FFNF(l, <<l, "n2">>, <<l, "f">>)
  \o Take(z, Model) \o Kernel({z}, {<<l, "after_attn">>, <<l, "f">>})
  \o Drops(l, <<"f", "n2", "a", "n1">>)

BlockB(l, g, gx) ==
  FFNB(l, g, <<l, "gf">>) \o RMSNormB(l, "norm2", <<l, "gf">>, <<l, "gy_n">>)
  \o Take(<<l, "gy">>, Model) \o Kernel({<<l, "gy">>}, {g, <<l, "gy_n">>})
  \o AttentionB(l, <<l, "gy">>, <<l, "ga">>)
  \o RMSNormB(l, "norm1", <<l, "ga">>, <<l, "gx_n">>)
  \o Take(gx, Model) \o Kernel({gx}, {<<l, "gy">>, <<l, "gx_n">>})
  \o Drops(l, <<"gx_n", "ga", "gy", "gy_n", "gf">>)

-----------------------------------------------------------------------------
(* Transformer::forward, backward and the micro-batch around them *)
H == <<0, "h">>
G == <<0, "g">>
T == <<0, "result">>

BlocksF[l \in 0 .. shape.layers] == IF l = 0 THEN << >> ELSE BlocksF[l - 1] \o BlockF(l, H, T) \o Assign(H, T)
BlocksB[l \in 0 .. shape.layers] == IF l = 0 THEN << >> ELSE BlockB(l, G, T) \o Assign(G, T) \o BlocksB[l - 1]

TransformerF(logits) ==
  Take(H, Model) \o Kernel({H}, {})   \* the embedding
  \o BlocksF[shape.layers]
  \o RMSNormF(0, "final_norm", H, T) \o Assign(H, T)
  \o LinearF(0, "lm_head", H, logits, Logits) \o Drop(H)

TransformerB(glogits) ==
  LinearB(0, "lm_head", glogits, G, Model)
  \o RMSNormB(0, "final_norm", G, T) \o Assign(G, T)
  \o BlocksB[shape.layers]
  \o Kernel({}, {G}) \o Drop(G)       \* the embedding's gradient

MicroBatch ==
  TransformerF(<<0, "logits">>)
  \o Take(<<0, "glogits">>, Logits) \o Kernel({<<0, "glogits">>}, {<<0, "logits">>})
  \o TransformerB(<<0, "glogits">>)
  \o Drops(0, <<"glogits", "logits">>)

-----------------------------------------------------------------------------
(* Running the instructions *)
Slots == Live \cup DOMAIN view
Block(t) == IF t \in Live THEN own[t] ELSE view[t]
Overlap(t, u) == ~Disjoint(Block(t), Block(u))

AtEnd == pc > Len(MicroBatch)
Now == MicroBatch[pc]
Runs(op) == ~AtEnd /\ Now.op = op

Init ==
  /\ shape \in Shapes
  /\ pass = 0 /\ pc = Len(MicroBatch) + 1
  /\ arena = EmptyArena /\ own = NoTensors /\ view = NoTensors /\ stale = {}

Step == pc' = pc + 1 /\ UNCHANGED <<shape, pass>>

(* empty_scratch(): the new tensor holds nothing yet. *)
TakeScratch ==
  /\ Runs("take")
  /\ AllocCall(Now.t, Now.n)
  /\ stale' = stale \cup {Now.t}
  /\ Step /\ UNCHANGED view

(* Mutant: the source keeps its pointer and its allocator. *)
MoveKeeps(t, u) ==
  /\ arena' = IF t \in Live THEN Free(arena, own[t]) ELSE arena
  /\ own' = Put(own, t, own[u])

(* Tensor's move-assignment: the target's storage is released, then the    *)
(* source's is taken over.                                                 *)
Move(t, u) ==
  /\ arena' = IF t \in Live THEN Free(arena, own[t]) ELSE arena
  /\ own' = Put(Cut(own, u), t, own[u])

MoveAssign ==
  /\ Runs("assign")
  /\ Move(Now.t, Now.u)
  /\ stale' = (stale \ {Now.t, Now.u}) \cup (IF Now.u \in stale THEN {Now.t} ELSE {})
  /\ Step /\ UNCHANGED view

TakeView ==
  /\ Runs("view")
  /\ view' = Put(view, Now.t, Block(Now.u))
  /\ stale' = IF Now.u \in stale THEN stale \cup {Now.t} ELSE stale \ {Now.t}
  /\ Step /\ UNCHANGED <<arena, own>>

(* A kernel leaves its outputs in their blocks, and its values in whatever *)
(* else lies there.                                                        *)
RunKernel ==
  /\ Runs("kernel")
  /\ stale' = {t \in Slots : \/ t \in stale \ Now.outs
                             \/ \E o \in Now.outs \ {t} : Overlap(o, t)}
  /\ Step /\ UNCHANGED <<arena, own, view>>

(* A destructor; a moved-from tensor has nothing to release. *)
EndScope ==
  /\ Runs("drop")
  /\ IF Now.t \in Live THEN FreeCall(Now.t) ELSE UNCHANGED <<arena, own>>
  /\ stale' = stale \ {Now.t}
  /\ Step /\ UNCHANGED view

(* step_begin(): the arena forgets every block; the layers' members stay. *)
StepBegin ==
  /\ AtEnd /\ pass < MaxPasses
  /\ pass' = pass + 1 /\ pc' = 1
  /\ arena' = EmptyArena
  /\ UNCHANGED <<shape, own, view, stale>>

Next == TakeScratch \/ MoveAssign \/ TakeView \/ RunKernel \/ EndScope \/ StepBegin

Spec == Init /\ [][Next]_vars

-----------------------------------------------------------------------------
TypeOK ==
  /\ shape \in Shapes /\ pass \in 0 .. MaxPasses /\ pc \in 1 .. Len(MicroBatch) + 1
  /\ Live \cap DOMAIN view = {}
  /\ stale \subseteq Slots
  /\ \A t \in Slots : Block(t).off + Block(t).size <= Capacity

Members ==
  {<<l, m>> : l \in 1 .. shape.layers,
      m \in {"saved_q", "saved_k", "saved_v", "saved_out", "combined", "silu_mul", "after_attn"}}
  \cup {<<l, nm, "rstd">> : l \in 1 .. shape.layers, nm \in {"norm1", "norm2"}}
  \cup {<<0, "final_norm", "rstd">>}

(* A micro-batch gives back every temporary of its forward and backward,   *)
(* on every path of the two head layouts; only the saved members remain.   *)
TemporariesReturned == AtEnd /\ pass > 0 => Live = Members

(* A kernel reads, from a tensor that owns its storage, what was last      *)
(* written to that tensor.                                                 *)
OwnedReadsIntact == Runs("kernel") => Now.ins \cap stale \cap Live = {}

(* ... and through a saved view as well: backward() sees the activations   *)
(* forward() computed.                                                     *)
ReadsIntact == Runs("kernel") => Now.ins \cap stale = {}
=============================================================================
