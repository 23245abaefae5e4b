----------------------------- MODULE Scheduler -----------------------------
(***************************************************************************)
(* The multi-request scheduler of olmo_cpp (serve/scheduler.cpp) over the  *)
(* shared page pool.  admit() walks the prompt block by block and leases a *)
(* page for each, counting the leading blocks that were already registered *)
(* as cached; step() advances the first request that is not done by one    *)
(* prefill chunk or one token.                                             *)
(*                                                                         *)
(* The loops of admit() and release_all() are modelled one iteration at a  *)
(* time; `call` says which of them is running, and nothing else can happen *)
(* until it returns or throws (the scheduler is single-threaded).          *)
(*                                                                         *)
(* The K/V entry of a slot is represented by the token sequence whose      *)
(* forward pass produced it, or Junk: a request reads its cache correctly  *)
(* when the entries are the prefixes of its own stream of tokens.          *)
(***************************************************************************)
EXTENDS Integers, Sequences, FiniteSets

CONSTANTS
  MaxPages,        \* pages of the pool
  PageSize,        \* token slots of a page
  ChunkSize,       \* prefill_chunk_size_
  Tokens,          \* the vocabulary
  Prompts,         \* prompts a client may admit
  Budgets,         \* values of max_new_tokens
  Eos,             \* eos_id, or a value outside Tokens for none
  Sampled(_),      \* the tokens the sampler may draw after a sequence
  NoToken,         \* last_token = -1
  Junk,            \* uninitialised or meaningless K/V
  DriverReleases,  \* does the driver give back the pages of done requests?
  MaxRequests      \* bound: calls of admit()

ASSUME SchedulerAssumption ==
  /\ MaxPages \in Nat \ {0} /\ PageSize \in Nat \ {0}
  /\ ChunkSize \in Nat \ {0}
  /\ Prompts \subseteq Seq(Tokens)
  /\ Budgets \subseteq Nat
  /\ NoToken \notin Tokens /\ Junk \notin Seq(Tokens)
  /\ DriverReleases \in BOOLEAN
  /\ MaxRequests \in Nat

VARIABLES
  pool,    \* the bookkeeping of the shared pool
  kv,      \* its K/V tensors: the entry of every slot of every page
  reqs,    \* requests_, in the order of their ids
  call,    \* the admit() or release_all() in progress
  admits   \* calls of admit() so far (next_id_)

vars == <<pool, kv, reqs, call, admits>>

-----------------------------------------------------------------------------
(* Mutant: a hash that does not chain to the blocks before. *)
BlocksUnchained(s, b) == SubSeq(s, (b - 1) * PageSize + 1, b * PageSize)

(* The first b blocks of a prompt.  hash_block chains every block to the   *)
(* ones before it, so without collisions the hash of block b stands for    *)
(* exactly this sequence.                                                  *)
Blocks(s, b) == SubSeq(s, 1, b * PageSize)

FullBlocks(s) == Len(s) \div PageSize

BlockHashes == UNION {{Blocks(s, b) : b \in 1 .. FullBlocks(s)} : s \in Prompts}

INSTANCE BlockPool WITH Hashes <- BlockHashes, NoHash <- << >>

Offsets == 0 .. PageSize - 1

NoCall == [kind |-> "none"]

(* The tokens whose K/V admit() takes to be in the pool already. *)
CachedLen(c) == c.cached * PageSize

(* SchedulerRequest: the fields the scheduler works with. *)
Request(c) ==
  [ prompt |-> c.prompt,
    budget |-> c.budget,
    gen    |-> << >>,                  \* generated_tokens
    table  |-> c.table,                \* page_table
    len    |-> CachedLen(c),           \* logical_len
    done   |-> CachedLen(c),           \* prefill_done
    last   |-> NoToken,                \* last_token
    status |-> "Prefilling",
    released |-> FALSE ]               \* have its pages been given back?

(* Every token of a request so far. *)
Stream(r) == r.prompt \o r.gen

(* Mutant: every position goes to the first page. *)
PageOfFirst(r, i) == r.table[1]

(* The page of a position of the sequence, and the K/V entry there. *)
PageOf(r, i) == r.table[i \div PageSize + 1]

Slot(r, i) == kv[PageOf(r, i)][i % PageSize]

Init ==
  /\ pool = EmptyPool
  /\ kv = [p \in Pages |-> [o \in Offsets |-> Junk]]
  /\ reqs = << >>
  /\ call = NoCall
  /\ admits = 0

-----------------------------------------------------------------------------
(* admit().  The request becomes visible only when the walk has finished;  *)
(* until then its pages are leased by the call.                            *)
AdmitCall(prompt, budget) ==
  /\ call = NoCall
  /\ admits < MaxRequests
  /\ admits' = admits + 1
  /\ call' = [ kind |-> "admit", prompt |-> prompt, budget |-> budget,
               table |-> << >>, cached |-> 0, hitting |-> TRUE ]
  /\ UNCHANGED <<pool, kv, reqs>>

Walking == call.kind = "admit" /\ Len(call.table) < FullBlocks(call.prompt)

NextBlock == Blocks(call.prompt, Len(call.table) + 1)

(* One iteration: the block counts as cached only if all before it were. *)
AdmitBlock ==
  /\ Walking
  /\ CanLease(pool, NextBlock)
  /\ LET hit == call.hitting /\ Hit(pool, NextBlock)
     IN  call' = [ call EXCEPT !.table   = Append(@, LeasedPage(pool, NextBlock)),
                               !.cached  = IF hit THEN @ + 1 ELSE @,
                               !.hitting = hit ]
  /\ pool' = FindOrLease(pool, NextBlock)
  /\ UNCHANGED <<kv, reqs, admits>>

Leftover(s) == Len(s) % PageSize # 0

(* After the walk: a page of its own for a partial block, then queue up. *)
AdmitReturn ==
  /\ call.kind = "admit" /\ ~Walking
  /\ IF Leftover(call.prompt)
       THEN /\ HasFree(pool)
            /\ pool' = Allocate(pool)
            /\ reqs' = Append(reqs, Request([call EXCEPT !.table = Append(@, TopFree(pool))]))
       ELSE /\ reqs' = Append(reqs, Request(call))
            /\ UNCHANGED pool
  /\ call' = NoCall
  /\ UNCHANGED <<kv, admits>>

(* "out of pages": the exception leaves admit(), the local request is      *)
(* destroyed, and the pages it leased stay leased and registered.          *)
AdmitThrow ==
  /\ IF Walking THEN ~CanLease(pool, NextBlock)
     ELSE call.kind = "admit" /\ Leftover(call.prompt) /\ ~HasFree(pool)
  /\ call' = NoCall
  /\ UNCHANGED <<pool, kv, reqs, admits>>

-----------------------------------------------------------------------------
(* pick_(): first come, first served. *)
Picked(i) ==
  /\ i \in DOMAIN reqs
  /\ reqs[i].status # "Done"
  /\ \A j \in 1 .. i - 1 : reqs[j].status = "Done"

(* The sequence the cache of r holds, or Junk if its entries are not the   *)
(* prefixes of one sequence.                                               *)
Cached(r) ==
  LET s == IF r.len = 0 THEN << >> ELSE Slot(r, r.len - 1)
  IN  IF s # Junk /\ Len(s) = r.len /\ \A i \in 0 .. r.len - 1 : Slot(r, i) = SubSeq(s, 1, i + 1)
        THEN s ELSE Junk

(* What the K/V computed for `fed` becomes, and what the sampler can draw. *)
Extended(r, fed, n) == IF Cached(r) = Junk THEN Junk ELSE Cached(r) \o SubSeq(fed, 1, n)

Drawn(r, fed) == IF Cached(r) = Junk THEN Tokens ELSE Sampled(Cached(r) \o fed)

(* SharedPoolKVCache::append throws when the table is too short. *)
Fits(r, n) == r.len + n <= Len(r.table) * PageSize

(* append() of every layer: the slots [len, len + Len(fed)) are written. *)
Write(r, fed) ==
  LET new(p, o) == {j \in r.len .. r.len + Len(fed) - 1 : PageOf(r, j) = p /\ j % PageSize = o}
  IN  kv' = [ p \in Pages |-> [ o \in Offsets |->
                IF new(p, o) = {} THEN kv[p][o]
                ELSE Extended(r, fed, (CHOOSE j \in new(p, o) : TRUE) - r.len + 1) ] ]

(* Mutant: the budget check is one too late. *)
WithTokenOverBudget(r, t) ==
  [ r EXCEPT !.gen = Append(@, t),
             !.last = t,
             !.status = IF t = Eos \/ Len(r.gen) >= r.budget THEN "Done" ELSE "Decoding" ]

(* A token is sampled: appended, remembered, and checked against the ends. *)
WithToken(r, t) ==
  [ r EXCEPT !.gen = Append(@, t),
             !.last = t,
             !.status = IF t = Eos \/ Len(r.gen) + 1 >= r.budget
                          THEN "Done" ELSE "Decoding" ]

(* run_prefill_chunk_() with nothing left to do: no token is sampled. *)
PrefillSkip(i) ==
  /\ reqs[i].status = "Prefilling"
  /\ reqs[i].done >= Len(reqs[i].prompt)
  /\ reqs' = [reqs EXCEPT ![i].status = "Decoding"]
  /\ UNCHANGED <<pool, kv>>

PrefillChunk(i) ==
  LET r == reqs[i]
      rest == Len(r.prompt) - r.done
      n == IF ChunkSize < rest THEN ChunkSize ELSE rest
      fed == SubSeq(r.prompt, r.done + 1, r.done + n)
      fwd == [r EXCEPT !.len = @ + n, !.done = @ + n]
  IN  /\ r.status = "Prefilling"
      /\ rest > 0
      /\ Fits(r, n)
      /\ Write(r, fed)
      /\ IF n = rest
           THEN \E t \in Drawn(r, fed) : reqs' = [reqs EXCEPT ![i] = WithToken(fwd, t)]
           ELSE reqs' = [reqs EXCEPT ![i] = fwd]
      /\ UNCHANGED pool

(* Mutant: no page for the slot about to be written. *)
NeedsPageLate(r) == r.len > Len(r.table) * PageSize

NeedsPage(r) == r.len + 1 > Len(r.table) * PageSize

(* run_decode_step_() when allocate() does not throw.  The embedding       *)
(* rejects last_token = -1: the exception leaves the new page in the table *)
(* and everything else as it was.                                          *)
DecodeStep(i) ==
  /\ reqs[i].status = "Decoding"
  /\ NeedsPage(reqs[i]) => HasFree(pool)
  /\ pool' = IF NeedsPage(reqs[i]) THEN Allocate(pool) ELSE pool
  /\ LET r == IF NeedsPage(reqs[i])
                THEN [reqs[i] EXCEPT !.table = Append(@, TopFree(pool))] ELSE reqs[i]
     IN  IF r.last = NoToken
           THEN reqs' = [reqs EXCEPT ![i] = r] /\ UNCHANGED kv
           ELSE /\ Fits(r, 1)
                /\ Write(r, <<r.last>>)
                /\ \E t \in Drawn(r, <<r.last>>) :
                     reqs' = [reqs EXCEPT ![i] = WithToken([r EXCEPT !.len = @ + 1], t)]

(* step() *)
Step ==
  /\ call = NoCall
  /\ \E i \in DOMAIN reqs : Picked(i) /\ (PrefillSkip(i) \/ PrefillChunk(i) \/ DecodeStep(i))
  /\ UNCHANGED <<call, admits>>

-----------------------------------------------------------------------------
(* A driver that gives back the pages of a request that is done, once:     *)
(* pool->release_all(request.page_table).                                  *)
ReleaseCall(i) ==
  /\ DriverReleases
  /\ call = NoCall
  /\ reqs[i].status = "Done" /\ ~reqs[i].released
  /\ reqs' = [reqs EXCEPT ![i].released = TRUE]
  /\ call' = [kind |-> "release", todo |-> reqs[i].table]
  /\ UNCHANGED <<pool, kv, admits>>

(* Mutant: release_all() stops after the first page. *)
ReleaseFirstOnly ==
  /\ call.kind = "release"
  /\ pool.refs[Head(call.todo)] > 0
  /\ pool' = DecRef(pool, Head(call.todo))
  /\ call' = NoCall
  /\ UNCHANGED <<kv, reqs, admits>>

ReleaseNext ==
  /\ call.kind = "release"
  /\ pool.refs[Head(call.todo)] > 0
  /\ pool' = DecRef(pool, Head(call.todo))
  /\ call' = IF Len(call.todo) = 1 THEN NoCall ELSE [call EXCEPT !.todo = Tail(@)]
  /\ UNCHANGED <<kv, reqs, admits>>

Admit == \E prompt \in Prompts, budget \in Budgets : AdmitCall(prompt, budget)

InCall == AdmitBlock \/ AdmitReturn \/ AdmitThrow \/ ReleaseNext

Next ==
  \/ Admit
  \/ \E i \in DOMAIN reqs : ReleaseCall(i)
  \/ InCall
  \/ Step

(* run_until_done() keeps calling step(), and a call runs to its end. *)
Fairness == WF_vars(Step) /\ WF_vars(InCall)

Spec == Init /\ [][Next]_vars /\ Fairness

-----------------------------------------------------------------------------
TypeOK ==
  /\ pool \in PoolType
  /\ \A p \in Pages, o \in Offsets : kv[p][o] = Junk \/ kv[p][o] \in Seq(Tokens)
  /\ \A i \in DOMAIN reqs :
       LET r == reqs[i]
       IN  /\ r.prompt \in Prompts /\ r.budget \in Budgets
           /\ r.gen \in Seq(Tokens) /\ r.table \in Seq(Pages)
           /\ r.last \in Tokens \cup {NoToken}
           /\ r.status \in {"Prefilling", "Decoding", "Done"}
           /\ r.len \in 0 .. Len(r.table) * PageSize
           /\ r.done \in 0 .. Len(r.prompt)
  /\ call.kind \in {"none", "admit", "release"}
  /\ admits \in 0 .. MaxRequests

(* The free list and the hash table are exact whatever admit() and         *)
(* release_all() do, exceptions in the middle of admit() included.         *)
PoolSound == FreeExact(pool) /\ IndexExact(pool)

(* The page tables whose entries stand for a reference: those of the       *)
(* requests that have not given their pages back and, under number 0, what *)
(* the call in progress has leased or has still to give back.              *)
Tables ==
  [i \in 0 .. Len(reqs) |->
    IF i > 0 THEN (IF reqs[i].released THEN << >> ELSE reqs[i].table)
    ELSE CASE call.kind = "admit" -> call.table
           [] call.kind = "release" -> call.todo
           [] OTHER -> << >>]

(* The entries that refer to page p, each a table and a position in it. *)
Leases(p) ==
  {e \in UNION {{i} \X DOMAIN Tables[i] : i \in DOMAIN Tables} : Tables[e[1]][e[2]] = p}

(* Every page some request still reads is counted for it: no page is       *)
(* reused under a reader, however requests share and give back prefixes.   *)
(* More references than readers can exist: an admit() that threw.          *)
NoLeaseLost == \A p \in Pages : pool.refs[p] >= Cardinality(Leases(p))

(* A registered block has all the blocks before it registered, except in   *)
(* the middle of release_all(): a hit never follows a miss, so counting    *)
(* leading hits in admit() counts them all.                                *)
ChainUnbroken ==
  call.kind # "release" =>
    \A k \in BlockHashes : Hit(pool, k) /\ Len(k) > PageSize =>
      Hit(pool, SubSeq(k, 1, Len(k) - PageSize))

(* "K/V for [0, lcp_blocks * page_size) is already valid in the pool": the *)
(* request about to run reads, in every position it takes as cached, the   *)
(* K/V of its own tokens, although a page may have been leased as a hit    *)
(* before the request that owns it ever ran.                               *)
CachedPrefixValid ==
  \A i \in DOMAIN reqs : Picked(i) =>
    Cached(reqs[i]) = SubSeq(Stream(reqs[i]), 1, reqs[i].len)

(* The token fed to a decode step is one the model has emitted. *)
DecodeInputIsToken ==
  \A i \in DOMAIN reqs : reqs[i].status = "Decoding" => reqs[i].last # NoToken

(* A K/V entry a live request relies on is never replaced, by whichever    *)
(* request runs and whichever pages are recycled.                          *)
CachedSlotsStable ==
  [][ \A i \in DOMAIN reqs : reqs[i].status # "Done" =>
        \A j \in 0 .. reqs[i].len - 1 :
          Slot(reqs[i], j) = SubSeq(Stream(reqs[i]), 1, j + 1) =>
            Slot(reqs[i], j)' = Slot(reqs[i], j) ]_vars

(* With the scheduler driven to the end, each admitted request finishes. *)
EveryRequestFinishes ==
  \A i \in 1 .. MaxRequests :
    i \in DOMAIN reqs ~> i \in DOMAIN reqs /\ reqs[i].status = "Done"

(* What a client sees of the requests. *)
Promise(r) ==
  [ prompt |-> r.prompt, budget |-> r.budget, out |-> r.gen, done |-> r.status = "Done" ]

Promised(rs) == [i \in DOMAIN rs |-> Promise(rs[i])]

(* Pages, prefix sharing, chunking and turns are invisible to a client:    *)
(* the tokens of each request are the ones a server without any of them    *)
(* could have sent.                                                        *)
Service == INSTANCE TokenService WITH served <- Promised(reqs)

ImplementsTokenService == Service!Spec
=============================================================================
