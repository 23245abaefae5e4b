----------------------------- MODULE Generation -----------------------------
(***************************************************************************)
(* The generation loops of olmo_cpp: the REPL of tools/chat.cpp with its   *)
(* six ways to decode a reply, and the library's speculative_generate.     *)
(* mode names the way, fixed by the command line:                          *)
(*   full     no cache, the whole conversation each step                   *)
(*   concat   KVCache, one token per step                                  *)
(*   paged    PagedKVCache, chunked prefill, one token per step            *)
(*   graph    paged, with the decode step captured in a CUDA graph         *)
(*   mtp      speculative_decode_step: drafts of the model's MTP heads     *)
(*   tree     tree_decode_step: a tree of such drafts                      *)
(*   draft    draft_model_speculative_step: drafts of a second model       *)
(*   library  speculative_generate of generate/speculative_decode.cpp      *)
(* One action is one iteration of a loop.  Decoding is greedy (temperature *)
(* 0, repetition penalty 1); a draft is any token.  The model is Target, a *)
(* function of the cached entries a row of attention sees.                 *)
(***************************************************************************)
EXTENDS KvCache, FiniteSets, FiniteSetsExt

CONSTANTS
  Modes,        \* the modes of the instance
  Models,       \* names of models
  Target(_, _), \* the best token after the visible entries, per model
  Eos,          \* the end-of-sequence token
  Prompts,      \* what a user may type, as tokens
  Instruct,     \* --instruct: a conversation begins with an Eos
  MaxContext,   \* kMaxContext
  MaxTokens,    \* --max-tokens
  ChunkSize,    \* --prefill-chunk-size, 0 for none
  Warmup,       \* --cuda-graph-warmup
  Heads,        \* num_mtp_heads()
  DraftLen,     \* draft_len of the two-model state
  Fanout,       \* --tree-fanout
  AdjustEvery,  \* kAdjustEvery
  MaxTurns      \* bound on the turns of a conversation

CachedModes == {"concat", "paged"}
ExactModes == CachedModes \cup {"full"}
AllModes == ExactModes \cup {"graph", "mtp", "tree", "draft", "library"}

ASSUME GenerationAssumption ==
  /\ Modes \subseteq AllModes
  /\ Eos \in Tokens
  /\ Prompts \subseteq Seq(Tokens) \ {<< >>}
  /\ \A p \in Prompts : p[Len(p)] # Eos
  /\ Instruct \in BOOLEAN
  /\ MaxContext \in Nat /\ MaxTokens \in 1 .. MaxContext - 1
  /\ BufferLen >= MaxContext
  /\ ChunkSize \in Nat /\ Warmup \in Nat /\ MaxTurns \in Nat
  /\ Heads \in Nat \ {0} /\ DraftLen \in Nat \ {0}
  /\ Fanout \in Nat \ {0} /\ AdjustEvery \in Nat \ {0}

VARIABLES
  mode, model,
  pc,         \* idle | prefill | decode | replay | failed | quit
  tokens,     \* all_tokens: the conversation
  promptLen,  \* prompt_len
  maxTotal,   \* max_total
  off,        \* prefilled tokens (paged)
  kv,         \* KVCache of the model
  draftKv,    \* KVCache of the draft model
  paged,      \* PagedKVCache
  graphPos,   \* the position baked into the captured graph
  current,    \* current_token of speculative_generate
  dyn,        \* draft length and its running window (dyn_k)
  turns

config == <<mode, model>>
turn == <<promptLen, maxTotal, turns>>
vars == <<config, pc, tokens, turn, off, kv, draftKv, paged, graphPos,
          current, dyn>>

Smaller(m, n) == IF m <= n THEN m ELSE n
Back == Last(tokens)

-----------------------------------------------------------------------------
(* The forward passes.                                                     *)

(* Mutant: a first batch is attended without a mask too. *)
SeesAll(len, n, i) == len + n

(* The rows of a batch of n tokens over a cache of len entries: one row    *)
(* and a first batch are causal; a later batch over a KVCache is attended  *)
(* without a mask (is_causal is false), so each row sees the whole batch.  *)
Sees(len, n, i) == IF len = 0 THEN i ELSE len + n

Entries(len, new) ==
  [i \in DOMAIN new |->
     [tok |-> new[i], pos |-> len + i - 1, sees |-> Sees(len, Len(new), i)]]

(* forward()/forward_backbone() over a KVCache. *)
Forward(c, new) == Update(c, Entries(Len(c.filled), new))

(* The best token after row i of a batch of n that turned a cache of len   *)
(* entries into c.                                                         *)
Choice(c, len, n, i) ==
  Target(model, SubSeq(c.filled, 1, Sees(len, n, i)))

(* The choices after all rows of a batch fed to c. *)
Rows(c, new) ==
  [i \in DOMAIN new |-> Choice(Forward(c, new), Len(c.filled), Len(new), i)]

(* forward_paged: the chunked-prefill mask keeps every row causal.         *)
PagedEntries(start, new) ==
  [i \in DOMAIN new |->
     [tok |-> new[i], pos |-> start + i - 1, sees |-> start + i]]

ForwardPaged(c, new) == AppendPaged(c, PagedEntries(c.len, new))

(* What a cache should hold for a sequence of tokens, and the greedy       *)
(* choice after it: forward() without a cache.                             *)
Ideal(h) == [i \in DOMAIN h |-> [tok |-> h[i], pos |-> i - 1, sees |-> i]]
Best(m, h) == Target(m, Ideal(h))

-----------------------------------------------------------------------------
(* The REPL.                                                               *)

FreshDyn == [k |-> Smaller(1, Heads), steps |-> 0, drafted |-> 0, accepted |-> 0]

Init ==
  /\ mode \in Modes /\ model \in Models
  /\ pc = "idle"
  /\ tokens = << >>
  /\ promptLen = 0 /\ maxTotal = 0 /\ off = 0 /\ turns = 0
  /\ kv = EmptyBuffer /\ draftKv = EmptyBuffer /\ paged = EmptyPaged
  /\ graphPos = 0 /\ current = Eos
  /\ dyn = FreshDyn

(* The last n tokens: what is kept when the conversation outgrows the      *)
(* context.                                                                *)
Kept(conv, n) == SubSeq(conv, Len(conv) - Smaller(n, Len(conv)) + 1, Len(conv))

(* Mutant: the pages of the previous reply are not given back. *)
ReadPromptKeepsPages(p) ==
  LET conv == Kept(tokens \o p, Larger(MaxContext - MaxTokens, 1))
  IN  /\ pc = "idle" /\ turns < MaxTurns
      /\ tokens' = conv
      /\ promptLen' = Len(conv)
      /\ maxTotal' = Smaller(Len(conv) + MaxTokens, MaxContext)
      /\ turns' = turns + 1
      /\ pc' = "prefill"
      /\ off' = 0
      /\ kv' = EmptyBuffer /\ draftKv' = EmptyBuffer
      /\ dyn' = FreshDyn
      /\ UNCHANGED <<config, paged, graphPos, current>>

(* A turn: the prompt joins the conversation, the oldest tokens go, and    *)
(* every cache of the reply is built anew.                                 *)
ReadPrompt(p) ==
  LET begin == IF Instruct /\ tokens = << >> THEN <<Eos>> ELSE << >>
      conv  == Kept(tokens \o begin \o p, Larger(MaxContext - MaxTokens, 1))
  IN  /\ pc = "idle" /\ turns < MaxTurns
      /\ tokens' = conv
      /\ promptLen' = Len(conv)
      /\ maxTotal' = Smaller(Len(conv) + MaxTokens, MaxContext)
      /\ turns' = turns + 1
      /\ pc' = "prefill"
      /\ off' = 0
      /\ kv' = EmptyBuffer /\ draftKv' = EmptyBuffer /\ paged' = EmptyPaged
      /\ graphPos' = 0
      /\ dyn' = FreshDyn
      /\ UNCHANGED <<config, current>>

ClearContext ==
  /\ pc = "idle" /\ tokens # << >>
  /\ tokens' = << >>
  /\ UNCHANGED <<config, pc, turn, off, kv, draftKv, paged, graphPos, current, dyn>>

Quit ==
  /\ pc = "idle"
  /\ pc' = "quit"
  /\ UNCHANGED <<config, tokens, turn, off, kv, draftKv, paged, graphPos, current, dyn>>

(* The loop conditions: room left, and no end token yet.  In the library   *)
(* the stop test reads current_token.                                      *)
Room == Len(tokens) < maxTotal
Stopped == IF mode = "library" THEN current = Eos ELSE Back = Eos

(* Mutant: only the limit ends a reply. *)
MoreToDoPastEos == Room

MoreToDo == Room /\ ~Stopped

(* Mutant: only an end token ends a reply. *)
EndTurnAtEos ==
  /\ pc \in {"decode", "replay"}
  /\ Stopped
  /\ pc' = "idle"
  /\ UNCHANGED <<config, tokens, turn, off, kv, draftKv, paged, graphPos, current, dyn>>

EndTurn ==
  /\ pc \in {"decode", "replay"}
  /\ ~MoreToDo
  /\ pc' = "idle"
  /\ UNCHANGED <<config, tokens, turn, off, kv, draftKv, paged, graphPos, current, dyn>>

-----------------------------------------------------------------------------
(* Prefill.                                                                *)

(* Without a cache there is none; a KVCache takes the prompt in one pass   *)
(* and the first token is chosen; a speculative path chooses nothing yet.  *)
PrefillFull ==
  /\ mode = "full" /\ pc = "prefill"
  /\ pc' = "decode"
  /\ UNCHANGED <<config, tokens, turn, off, kv, draftKv, paged, graphPos, current, dyn>>

PrefillConcat ==
  /\ mode = "concat" /\ pc = "prefill"
  /\ LET c == Forward(kv, tokens)
     IN  /\ kv' = c
         /\ tokens' = Append(tokens, Choice(c, 0, promptLen, promptLen))
  /\ pc' = "decode"
  /\ UNCHANGED <<config, turn, off, draftKv, paged, graphPos, current, dyn>>

PrefillSpeculative ==
  /\ mode \in {"mtp", "tree", "draft"} /\ pc = "prefill"
  /\ kv' = Forward(kv, tokens)
  /\ draftKv' = IF mode = "draft" THEN Forward(draftKv, tokens) ELSE draftKv
  /\ pc' = "decode"
  /\ UNCHANGED <<config, tokens, turn, off, paged, graphPos, current, dyn>>

(* speculative_generate fills its cache, then takes the first token from a *)
(* second pass without a cache.                                            *)
PrefillLibrary ==
  /\ mode = "library" /\ pc = "prefill"
  /\ kv' = Forward(kv, tokens)
  /\ current' = Best(model, tokens)
  /\ tokens' = Append(tokens, current')
  /\ pc' = "decode"
  /\ UNCHANGED <<config, turn, off, draftKv, paged, graphPos, dyn>>

(* One chunk of a paged prefill; the last one yields the first token.      *)
Chunk ==
  IF ChunkSize > 0 /\ ChunkSize < promptLen
  THEN Smaller(ChunkSize, promptLen - off)
  ELSE promptLen

PrefillChunk ==
  LET fed == SubSeq(tokens, off + 1, off + Chunk)
      c   == ForwardPaged(paged, fed)
  IN  /\ mode \in {"paged", "graph"} /\ pc = "prefill"
      /\ CanReserve(paged, Chunk)
      /\ paged' = c
      /\ off' = off + Chunk
      /\ IF off' < promptLen
         THEN UNCHANGED <<pc, tokens>>
         ELSE /\ pc' = "decode"
              /\ tokens' = Append(tokens, Target(model, View(c)))
      /\ UNCHANGED <<config, turn, kv, draftKv, graphPos, current, dyn>>

-----------------------------------------------------------------------------
(* One token per step.                                                     *)

StepFull ==
  /\ mode = "full" /\ pc = "decode" /\ MoreToDo
  /\ tokens' = Append(tokens, Best(model, tokens))
  /\ UNCHANGED <<config, pc, turn, off, kv, draftKv, paged, graphPos, current, dyn>>

StepConcat ==
  /\ mode = "concat" /\ pc = "decode" /\ MoreToDo
  /\ LET c == Forward(kv, <<Back>>)
     IN  /\ kv' = c
         /\ tokens' = Append(tokens, Choice(c, Len(kv.filled), 1, 1))
  /\ UNCHANGED <<config, pc, turn, off, draftKv, paged, graphPos, current, dyn>>

(* Mutant: the step feeds the token before the last one. *)
StepPagedLate ==
  /\ mode = "paged" /\ pc = "decode" /\ MoreToDo
  /\ CanReserve(paged, 1)
  /\ LET c == ForwardPaged(paged, <<tokens[Len(tokens) - 1]>>)
     IN  /\ paged' = c
         /\ tokens' = Append(tokens, Target(model, View(c)))
  /\ UNCHANGED <<config, pc, turn, off, kv, draftKv, graphPos, current, dyn>>

Warmed == Len(tokens) - promptLen - 1

(* The eager step, also the warm-up of the graph mode. *)
StepPaged ==
  /\ mode = "paged" \/ (mode = "graph" /\ Warmed < Warmup)
  /\ pc = "decode" /\ MoreToDo
  /\ CanReserve(paged, 1)
  /\ LET c == ForwardPaged(paged, <<Back>>)
     IN  /\ paged' = c
         /\ tokens' = Append(tokens, Target(model, View(c)))
  /\ UNCHANGED <<config, pc, turn, off, kv, draftKv, graphPos, current, dyn>>

(* Capture: from here the cursor moves outside the graph.  Capturing       *)
(* records the step and runs nothing, so the slot under the cursor stays   *)
(* as it was and the logits that are sampled are whatever memory held.     *)
(* The position of the step is read after the cursor moved, and stays in   *)
(* the graph.                                                              *)
Capture ==
  LET c == Reserve(paged, 1)
  IN  /\ mode = "graph" /\ Warmed >= Warmup
      /\ pc = "decode" /\ MoreToDo
      /\ CanReserve(paged, 1)
      /\ paged' = [c EXCEPT !.external = TRUE]
      /\ graphPos' = c.len
      /\ \E t \in Tokens : tokens' = Append(tokens, t)
      /\ pc' = "replay"
      /\ UNCHANGED <<config, turn, off, kv, draftKv, current, dyn>>

Replay ==
  LET entry == [tok |-> Back, pos |-> graphPos, sees |-> paged.len + 1]
      c     == AppendPaged(Reserve(paged, 1), <<entry>>)
  IN  /\ pc = "replay" /\ MoreToDo
      /\ CanReserve(paged, 1)
      /\ paged' = c
      /\ tokens' = Append(tokens, Target(model, View(c)))
      /\ UNCHANGED <<config, pc, turn, off, kv, draftKv, graphPos, current, dyn>>

(* "out of pages" is caught in main, which returns. *)
OutOfPages ==
  /\ mode \in {"paged", "graph"}
  /\ \/ pc = "prefill" /\ ~CanReserve(paged, Chunk)
     \/ pc \in {"decode", "replay"} /\ MoreToDo /\ ~CanReserve(paged, 1)
  /\ pc' = "failed"
  /\ UNCHANGED <<config, tokens, turn, off, kv, draftKv, paged, graphPos, current, dyn>>

-----------------------------------------------------------------------------
(* Speculation.                                                            *)

(* A draft of n tokens, shorter if it ends with the end token. *)
Drafts(n) ==
  { d \in UNION {[1 .. k -> Tokens] : k \in 1 .. n} :
      /\ \A i \in 1 .. Len(d) - 1 : d[i] # Eos
      /\ Len(d) = n \/ Last(d) = Eos }

FirstOf(S, none) == IF S = {} THEN none ELSE Min(S)

(* The draft-length controller of the MTP loop, after a step that drafted  *)
(* d and accepted a: grow at 70 percent, shrink at 30.                     *)
Adjusted(d, a) ==
  LET D == dyn.drafted + d
      A == dyn.accepted + a
  IN  IF dyn.steps + 1 < AdjustEvery
      THEN [dyn EXCEPT !.steps = @ + 1, !.drafted = D, !.accepted = A]
      ELSE [ k |-> IF D > 0 /\ 10 * A >= 7 * D /\ dyn.k < Heads THEN dyn.k + 1
                   ELSE IF D > 0 /\ 10 * A <= 3 * D /\ dyn.k > 1 THEN dyn.k - 1
                   ELSE dyn.k,
             steps |-> 0, drafted |-> 0, accepted |-> 0 ]

(* Mutant: only the drafts that were right are counted. *)
CutBackToHits(c, snap, got, hits) == Truncate(c, snap + hits)

(* The rollback keeps one entry of the batch per accepted token. *)
CutBack(c, snap, got, hits) == Truncate(c, snap + Len(got))

(* speculative_decode_step.  The last token is fed (after the prefill: for *)
(* the second time), the choice after it is accepted, and the drafts are   *)
(* verified in one pass: as many are taken as agree with the model, a      *)
(* drafted end token as it is, and the model's own choice replaces the     *)
(* first that disagrees.                                                   *)
StepMtp ==
  /\ mode = "mtp" /\ pc = "decode" /\ MoreToDo
  /\ \E fed \in {Forward(kv, <<Back>>)} :
       LET snap == Len(fed.filled)
           main == Choice(fed, snap - 1, 1, 1)
       IN  IF main = Eos
           THEN /\ kv' = fed
                /\ tokens' = Append(tokens, main)
                /\ dyn' = Adjusted(0, 0)
           ELSE \E d \in Drafts(Smaller(dyn.k, Heads)) :
                \E own \in {Rows(fed, <<main>> \o d)} :
                  LET n    == Len(d)
                      stop == FirstOf({i \in 1 .. n : d[i] = Eos \/ own[i] # d[i]}, n + 1)
                      tail == IF stop > n THEN << >>
                              ELSE IF d[stop] = Eos THEN <<Eos>> ELSE <<own[stop]>>
                      got  == <<main>> \o SubSeq(d, 1, stop - 1) \o tail
                      hits == IF stop <= n /\ d[stop] = Eos THEN stop ELSE stop - 1
                  IN  /\ kv' = CutBack(Forward(fed, <<main>> \o d), snap, got, hits)
                      /\ tokens' = tokens \o got
                      /\ dyn' = Adjusted(n, hits)
  /\ UNCHANGED <<config, pc, turn, off, draftKv, paged, graphPos, current>>

(* The context forward_tree gives a node: the seed and the accepted nodes  *)
(* above it, and nothing of the conversation.  A node's flat index, its    *)
(* rotary position, is abstracted to its depth.                            *)
TreeChoice(seed, acc) == Target(model, Ideal(<<seed>> \o acc))

(* The walk of tree_speculative_step: top[i] are the candidates at depth   *)
(* i; it descends while the model's choice is among them, and its last     *)
(* choice is taken even so.  These are the model's choices all the way.    *)
TreeChoices(seed) ==
  { own \in [1 .. Heads + 1 -> Tokens] :
      \A i \in DOMAIN own : own[i] = TreeChoice(seed, SubSeq(own, 1, i - 1)) }

(* tree_decode_step: the last token is fed likewise, the walk's tokens are *)
(* run through the cache and appended up to an end token.                  *)
StepTree ==
  /\ mode = "tree" /\ pc = "decode" /\ MoreToDo
  /\ \E own \in TreeChoices(Back) :
     \E top \in [1 .. Heads -> {S \in SUBSET Tokens : Cardinality(S) = Fanout}] :
       LET got  == SubSeq(own, 1, FirstOf({i \in 1 .. Heads : own[i] \notin top[i]}, Heads + 1))
           upto == FirstOf({i \in DOMAIN got : got[i] = Eos}, Len(got))
       IN  /\ kv' = Forward(Forward(kv, <<Back>>), got)
           /\ tokens' = tokens \o SubSeq(got, 1, upto)
           /\ dyn' = Adjusted(MapThenSumSet(LAMBDA i : Fanout ^ i, 1 .. Heads), Len(got))
  /\ UNCHANGED <<config, pc, turn, off, draftKv, paged, graphPos, current>>

(* A KVCache that is fed tokens one at a time. *)
FedSingly(c, new) ==
  LET start == Len(c.filled)
  IN  Update(c, [i \in DOMAIN new |->
                   [tok |-> new[i], pos |-> start + i - 1, sees |-> start + i]])

(* draft_model_speculative_step.  The second model drafts one token at a   *)
(* time; the model verifies the last token and the drafts in one pass.     *)
(* Its choice after the last token is always taken; then draft k is        *)
(* compared with the choice that follows draft k.  Both caches are cut     *)
(* back, except when the first choice ends the reply.                      *)
StepDraft ==
  /\ mode = "draft" /\ pc = "decode" /\ MoreToDo
  /\ \E d \in Drafts(DraftLen) : \E own \in {Rows(kv, <<Back>> \o d)} :
       LET n    == Len(d)
           snap == Len(kv.filled)
           ver  == Forward(kv, <<Back>> \o d)
           fed  == FedSingly(draftKv, <<Back>> \o Front(d))
           stop == FirstOf({k \in 1 .. n : d[k] = Eos \/ own[k + 1] # d[k]}, n)
           hits == IF own[stop + 1] = d[stop] THEN stop ELSE stop - 1
           got  == SubSeq(own, 1, stop + 1)
       IN  IF own[1] = Eos
           THEN /\ tokens' = Append(tokens, Eos)
                /\ kv' = ver
                /\ draftKv' = fed
           ELSE /\ tokens' = tokens \o got
                /\ kv' = Truncate(ver, snap + Len(got))
                /\ draftKv' = Truncate(fed, Len(fed.filled) - (n - hits))
  /\ UNCHANGED <<config, pc, turn, off, paged, graphPos, current, dyn>>

(* speculative_decode_step of the library, and the loop around it: like    *)
(* the MTP step, but a drafted end token is verified, a batch accepted in  *)
(* full yields one more token, the cache keeps the whole batch, and the    *)
(* loop stops at a token it has appended but goes on from the last token   *)
(* of the batch.                                                           *)
StepLibrary ==
  /\ mode = "library" /\ pc = "decode" /\ MoreToDo
  /\ \E fed \in {Forward(kv, <<current>>)} :
     \E main \in {Choice(fed, Len(kv.filled), 1, 1)} :
     \E d \in [1 .. Heads -> Tokens] : \E own \in {Rows(fed, <<main>> \o d)} :
       LET stop == FirstOf({i \in 1 .. Heads : own[i] # d[i]}, Heads + 1)
           got  == <<main>> \o SubSeq(own, 1, stop)
           upto == Min({Len(got), maxTotal - Len(tokens)}
                         \cup {i \in DOMAIN got : got[i] = Eos})
       IN  /\ kv' = Forward(fed, <<main>> \o d)
           /\ tokens' = tokens \o SubSeq(got, 1, upto)
           /\ current' = Last(got)
  /\ UNCHANGED <<config, pc, turn, off, draftKv, paged, graphPos, dyn>>

-----------------------------------------------------------------------------
Repl == (\E p \in Prompts : ReadPrompt(p)) \/ ClearContext \/ Quit

Prefill == \/ PrefillFull \/ PrefillConcat \/ PrefillSpeculative
           \/ PrefillLibrary \/ PrefillChunk

Step == \/ StepFull \/ StepConcat \/ StepPaged \/ Capture \/ Replay
        \/ StepMtp \/ StepTree \/ StepDraft \/ StepLibrary

Generate == Prefill \/ Step \/ EndTurn \/ OutOfPages

Next == Repl \/ Generate

Spec == Init /\ [][Next]_vars

(* The loops run without waiting for anyone; a user may stay away. *)
FairSpec == Spec /\ WF_vars(Generate)

-----------------------------------------------------------------------------
(* Properties.                                                             *)

(* Every variable keeps its type; the draft length stays between one and   *)
(* the number of heads.                                                    *)
TypeOK ==
  /\ mode \in Modes /\ model \in Models
  /\ pc \in {"idle", "prefill", "decode", "replay", "failed", "quit"}
  /\ tokens \in Seq(Tokens)
  /\ promptLen \in Nat /\ maxTotal \in Nat /\ off \in Nat /\ turns \in Nat
  /\ kv \in [filled : Seq(Entry), cap : Nat]
  /\ draftKv \in [filled : Seq(Entry), cap : Nat]
  /\ paged \in PagedType
  /\ graphPos \in Nat /\ current \in Tokens
  /\ dyn \in [k : 1 .. Heads, steps : Nat, drafted : Nat, accepted : Nat]

(* While a reply is generated one token at a time, the cache holds exactly *)
(* the K/V of the conversation without its last token, each entry at its   *)
(* own position and computed causally - whatever the chunks of the prefill *)
(* and the pages the entries lie in.                                       *)
CacheMirrorsTokens ==
  pc = "decode" =>
    /\ mode = "concat" => kv.filled = Ideal(Front(tokens))
    /\ mode = "paged" => View(paged) = Ideal(Front(tokens))

(* What speculative_generate promises in its head comment, and the code    *)
(* does not keep: the result is bit for bit that of the big model alone,   *)
(* each token the model's choice after all the tokens before it.           *)
LibraryReplyIsGreedy ==
  mode = "library" =>
    \A i \in promptLen + 1 .. Len(tokens) :
      tokens[i] = Best(model, SubSeq(tokens, 1, i - 1))

(* Pages are neither lost nor handed out twice, the page table covers the  *)
(* cursor and no more, and no buffer is shorter than what it holds, over   *)
(* every mixture of prefill, eager steps, capture, replay and rollback.    *)
CachesSound ==
  /\ PagesPartitioned(paged)
  /\ TableCovers(paged)
  /\ Len(kv.filled) <= kv.cap
  /\ Len(draftKv.filled) <= draftKv.cap

(* A paged reply fails only when the conversation has more tokens than all *)
(* pages have slots.                                                       *)
FailsOnlyWhenFull ==
  pc = "failed" => Len(tokens) > MaxPages * PageSize

(* s can be read in t in order, possibly with entries between. *)
Embeds(s, t) ==
  LET read[k \in 0 .. Len(t)] ==
        IF k = 0 THEN 0
        ELSE LET n == read[k - 1]
             IN  IF n < Len(s) /\ s[n + 1] = t[k].tok THEN n + 1 ELSE n
  IN  read[Len(t)] = Len(s)

(* Rolling back after a verification never drops the K/V of an accepted    *)
(* token: what MTP and tree speculation have cached contains every token   *)
(* but the last, in order.                                                 *)
NothingAcceptedIsLost ==
  (mode \in {"mtp", "tree"} /\ pc = "decode") =>
     Embeds(Front(tokens), kv.filled)

(* Nothing follows an end token within a reply, although it may arrive in  *)
(* the middle of an accepted batch.  The library loop is left out: it goes *)
(* on when the end token is not the last of its batch.                     *)
EosEndsReply ==
  mode # "library" =>
    \A i \in promptLen + 1 .. Len(tokens) - 1 : tokens[i] # Eos

(* Every reply ends: each step of each mode appends at least one token or  *)
(* fails.                                                                  *)
ReplyEnds == pc = "prefill" ~> pc \in {"idle", "failed"}

(* For the exact modes the loop implements GreedyDecoding. *)
Exact == mode \in ExactModes

Greedy == INSTANCE GreedyDecoding WITH
  history  <- IF Exact THEN tokens ELSE << >>,
  limit    <- IF Exact THEN maxTotal ELSE 0,
  replying <- /\ Exact
              /\ \/ pc = "prefill"
                 \/ pc = "decode" /\ MoreToDo

ImplementsGreedyDecoding == Greedy!Spec
=============================================================================
