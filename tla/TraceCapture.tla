---------------------------- MODULE TraceCapture ----------------------------
(***************************************************************************)
(* From a function to one invocation's history: the capture pass of        *)
(* capture/instrument.cpp puts taps into a UIR function, the interpreter   *)
(* of cpuref/interp.cpp runs it once per lane, store/trace_store.cpp packs *)
(* the coded columns into a file and maps it again, and                    *)
(* timetravel/timetravel.cpp rebuilds and scrubs a lane's history.  The    *)
(* driver that calls them in this order is the one of                      *)
(* tests/test_timetravel.cpp; which lanes a divergent block leaves         *)
(* inactive is its choice.                                                 *)
(***************************************************************************)
EXTENDS TraceCodec

CONSTANTS
  Program,       \* blocks in layout order; a block is a sequence of
                 \* instructions [op, value, capturable, site]
  Compute(_, _), \* what an instruction's value is in a lane, given its input
  Inputs,        \* what a lane may be given
  Filters,       \* regions of interest: sets of values accept may take
  NoValue,       \* the result of an instruction that has none
  Lanes,         \* number of invocations
  Masks,         \* lanes active after the first block: << >> for all, or flags
  WarpSizes,
  MaxPasses      \* bound on the runs of the capture pass

ASSUME CaptureAssumption ==
  /\ Lanes \in Nat \ {0} /\ MaxPasses \in Nat /\ Inputs \subseteq Values
  /\ \A m \in Masks : m = << >> \/ m \in [1 .. Lanes -> {0, 1}]
  /\ WarpSizes \subseteq Nat

Terminators == {"branch", "return"}
Instructions == UNION {Range(Program[b]) : b \in DOMAIN Program}

(* What the verifier lets through and a driver without loops builds: no     *)
(* taps yet, one terminator at the end of each block, the return in the     *)
(* last one, one definition of each value.                                  *)
ASSUME ProgramAssumption ==
  /\ Program \in Seq(Seq(Instructions))
  /\ \A b \in DOMAIN Program : Program[b] # << >> /\ \A k \in DOMAIN Program[b] :
       LET in == Program[b][k]
       IN  /\ in.op # "tap"
           /\ in.op \in Terminators <=> k = Len(Program[b])
           /\ in.op = "return" => b = Len(Program)
           /\ in.capturable => /\ in.op \notin Terminators /\ in.value # NoValue
                               /\ \A x \in Inputs : Compute(in.value, x) \in Values
  /\ LET all == FlattenSeq(Program)
     IN  \A i, j \in DOMAIN all :
           all[i].value = all[j].value => i = j \/ all[i].value = NoValue

VARIABLES
  code,     \* the function's blocks
  accept,   \* the region of interest
  passes,   \* runs of insert_taps so far
  sites,    \* the tables of tap sites they returned, one after the other
  phase,    \* instrument | run | store | written | failed | open | rejected
  kind, warp, taken, \* of the columns: value kind, warp size, lanes active
                     \* after the first block
  input,    \* the inputs of the lanes run so far
  columns,  \* the values recorded for each site
  entries,  \* the columns added to the writer
  file,     \* the file's cells
  dir,      \* the directory the reader holds
  lane, steps, cursor \* the timeline: its lane, steps and cursor

program == <<code, accept, passes, sites>>
capture == <<kind, warp, taken, input, columns>>
timeline == <<lane, steps, cursor>>
captureVars == <<program, phase, capture, entries, file, dir, timeline>>

CaptureInit ==
  /\ code = Program /\ accept \in Filters /\ passes = 0 /\ sites = << >>
  /\ phase = "instrument"
  /\ kind = U32 /\ warp = 32 /\ taken = << >> /\ input = << >> /\ columns = << >>
  /\ entries = << >> /\ file = << >> /\ dir = << >>
  /\ lane = 0 /\ steps = << >> /\ cursor = 0

-----------------------------------------------------------------------------
(* insert_taps                                                             *)

Tap(v, id) == [op |-> "tap", value |-> v, capturable |-> FALSE, site |-> id]

(* Mutant: taps of earlier runs are not looked for. *)
AlreadyTappedNone == {}

AlreadyTapped ==
  UNION {{code[b][k].value : k \in {j \in DOMAIN code[b] : code[b][j].op = "tap"}} :
           b \in DOMAIN code}

Wanted(in) ==
  /\ in.op \notin Terminators /\ in.op # "tap"
  /\ in.value # NoValue /\ in.capturable
  /\ in.value \notin AlreadyTapped
  /\ in.value \in accept

(* The instructions to tap, in layout order over all blocks: next_id counts *)
(* them.                                                                    *)
Wanteds == LET all == FlattenSeq(code) IN Keep(all, {in \in Range(all) : Wanted(in)})
SiteOf(in) == (CHOOSE k \in DOMAIN Wanteds : Wanteds[k] = in) - 1

InsertTaps ==
  /\ phase = "instrument" /\ passes < MaxPasses
  /\ code' = [b \in DOMAIN code |-> FlattenSeq([k \in DOMAIN code[b] |->
                LET in == code[b][k]
                IN  IF Wanted(in) THEN <<in, Tap(in.value, SiteOf(in))>> ELSE <<in>>])]
  /\ sites' = sites \o [k \in DOMAIN Wanteds |-> [id |-> k - 1, value |-> Wanteds[k].value]]
  /\ passes' = passes + 1
  /\ UNCHANGED <<accept, phase, capture, entries, file, dir, timeline>>

-----------------------------------------------------------------------------
(* The interpreter, and the driver that collects the columns.              *)

StartRun ==
  /\ phase = "instrument" /\ sites # << >>
  /\ phase' = "run"
  /\ kind' \in {U32, F32} /\ warp' \in WarpSizes /\ taken' \in Masks
  /\ columns' = [s \in DOMAIN sites |-> [k \in 1 .. Lanes |-> 0]]
  /\ UNCHANGED <<program, input, entries, file, dir, timeline>>

(* What runs of some blocks: one after the other, for a branch falls       *)
(* through, up to the first return.                                        *)
Executed(blocks) ==
  LET all     == FlattenSeq(blocks)
      returns == {k \in DOMAIN all : all[k].op = "return"}
  IN  SubSeq(all, 1, IF returns = {} THEN Len(all) ELSE Min(returns))

Taps(run) == Keep(run, {in \in Range(run) : in.op = "tap"})

(* Interp::run for the next lane: each tap reports its site and its value. *)
RunLane(x) ==
  /\ phase = "run" /\ Len(input) < Lanes
  /\ LET sink == Taps(Executed(code))
     IN  columns' = [s \in DOMAIN columns |->
           LET hits == {k \in DOMAIN sink : sink[k].site = s - 1}
           IN  IF hits = {} THEN columns[s]
               ELSE [columns[s] EXCEPT ![Len(input) + 1] = Compute(sink[Max(hits)].value, x)]]
  /\ input' = Append(input, x)
  /\ UNCHANGED <<program, phase, kind, warp, taken, entries, file, dir, timeline>>

InFirstBlock(v) == \E k \in DOMAIN Program[1] : Program[1][k].value = v

Column(s) == [kind |-> kind, warp |-> warp, bits |-> columns[s],
              active |-> IF InFirstBlock(sites[s].value) THEN << >> ELSE taken]

-----------------------------------------------------------------------------
(* TraceWriter                                                             *)

Add ==
  /\ \/ phase = "run" /\ Len(input) = Lanes
     \/ phase = "store"
  /\ Len(entries) < Len(sites)
  /\ phase' = "store"
  /\ LET s == Len(entries) + 1
     IN  entries' = Append(entries, [site  |-> sites[s].id, count |-> Lanes,
                                     blob  |-> encode(Column(s))])
  /\ UNCHANGED <<program, capture, file, dir, timeline>>

OTR1 == 1
DirCells == 4

(* Magic, number of columns, a directory entry per column, the blobs. *)
Packed ==
  LET blobs == [e \in DOMAIN entries |-> entries[e].blob]
      start[e \in 1 .. Len(entries) + 1] ==
        IF e = 1 THEN 2 + DirCells * Len(entries) ELSE start[e - 1] + Len(blobs[e - 1])
  IN  <<OTR1, Len(entries)>>
        \o FlattenSeq([e \in DOMAIN entries |->
             <<entries[e].site, start[e], Len(blobs[e]), entries[e].count>>])
        \o FlattenSeq(blobs)

Write ==
  /\ phase = "store" /\ Len(entries) = Len(sites)
  /\ \/ file' = Packed /\ phase' = "written"
     \/ \* fwrite stops early; write returns false and leaves what it wrote
        /\ \E k \in 0 .. Len(Packed) - 1 : file' = SubSeq(Packed, 1, k)
        /\ phase' = "failed"
  /\ UNCHANGED <<program, capture, entries, dir, timeline>>

-----------------------------------------------------------------------------
(* TraceReader; the page after the end of a mapped file reads as zeros.    *)

Cell(k) == IF k <= Len(file) THEN file[k] ELSE 0

Directory ==
  [e \in 1 .. Cell(2) |->
    LET d == 2 + DirCells * (e - 1)
    IN  [site |-> Cell(d + 1), offset |-> Cell(d + 2), length |-> Cell(d + 3),
         count |-> Cell(d + 4)]]

(* Mutant: columns may lie past the end of the file. *)
OpensUnchecked == Len(file) >= 2 /\ file[1] = OTR1

Opens ==
  /\ Len(file) >= 2 /\ file[1] = OTR1
  /\ \A e \in DOMAIN Directory : Directory[e].offset + Directory[e].length <= Len(file)

Open ==
  /\ phase \in {"written", "failed"}
  /\ IF Opens THEN phase' = "open" /\ dir' = Directory
              ELSE phase' = "rejected" /\ dir' = << >>
  /\ UNCHANGED <<program, capture, entries, file, timeline>>

(* column_by_site: the first entry of that site, if it has as many values   *)
(* as the directory says.                                                   *)
ColumnsOfSite(id) ==
  LET es == {e \in DOMAIN dir : dir[e].site = id}
  IN  IF es = {} THEN {}
      ELSE LET d == dir[Min(es)]
               c == decode([k \in 1 .. d.length |-> Cell(d.offset + k)])
           IN  {x \in {c} : Len(x.bits) = d.count}

-----------------------------------------------------------------------------
(* Timeline                                                                *)

(* sites, ordered by their ids. *)
Ordered ==
  LET order == CHOOSE p \in [DOMAIN sites -> DOMAIN sites] :
        \A i, j \in DOMAIN sites : i < j => p[i] # p[j] /\ sites[p[i]].id <= sites[p[j]].id
  IN  [s \in DOMAIN sites |-> sites[order[s]]]

(* The values of lane k at the sites in the order of their ids, where it   *)
(* was active.                                                             *)
StepsOf(k) ==
  FlattenSeq([s \in DOMAIN sites |->
    LET site == Ordered[s]
        found == {c \in ColumnsOfSite(site.id) :
                    k <= Len(c.bits) /\ LaneActive(c.active, k)}
    IN  IF found = {} THEN << >>
        ELSE <<[id |-> site.id, value |-> site.value,
                bits |-> (CHOOSE c \in found : TRUE).bits[k]]>>])

Reconstruct(k) ==
  /\ phase = "open"
  /\ lane' = k /\ steps' = StepsOf(k) /\ cursor' = 0
  /\ UNCHANGED <<program, phase, capture, entries, file, dir>>

Scrub(to) ==
  /\ lane # 0
  /\ cursor' = to
  /\ UNCHANGED <<program, phase, capture, entries, file, dir, lane, steps>>

StepForward == cursor + 1 < Len(steps) /\ Scrub(cursor + 1)
StepBack    == cursor > 0 /\ Scrub(cursor - 1)

Seek(k) == Scrub(IF k < Len(steps) THEN k ELSE Max({0, Len(steps) - 1}))

CaptureNext ==
  \/ InsertTaps \/ StartRun
  \/ \E x \in Inputs : RunLane(x)
  \/ Add \/ Write \/ Open
  \/ \E k \in 1 .. Lanes : Reconstruct(k)
  \/ StepForward \/ StepBack
  \/ \E k \in 0 .. Len(sites) : Seek(k)

CaptureSpec == CaptureInit /\ [][CaptureNext]_captureVars

-----------------------------------------------------------------------------
(* Properties                                                              *)

(* Every variable keeps its kind; the cursor is at a step if there is one. *)
CaptureTypeOK ==
  /\ DOMAIN code = DOMAIN Program /\ accept \in Filters /\ passes \in 0 .. MaxPasses
  /\ phase \in {"instrument", "run", "store", "written", "failed", "open", "rejected"}
  /\ kind \in {U32, F32} /\ input \in Seq(Inputs) /\ Len(input) <= Lanes
  /\ \A s \in DOMAIN columns : columns[s] \in [1 .. Lanes -> Values]
  /\ Len(entries) <= Len(sites)
  /\ lane \in 0 .. Lanes
  /\ cursor \in 0 .. Max({0, Len(steps) - 1})

(* The history of lane k by the meaning of the program: the values of the  *)
(* region of interest in the order they are computed, in the blocks the    *)
(* lane is active in.                                                      *)
Truth(k) ==
  LET Recorded(in) == /\ in.capturable /\ in.value \in accept
                      /\ InFirstBlock(in.value) \/ LaneActive(taken, k)
      all == Executed(Program)
      run == Keep(all, {in \in Range(all) : Recorded(in)})
  IN  [s \in DOMAIN run |-> <<run[s].value, Compute(run[s].value, input[k])>>]

History == [s \in DOMAIN steps |-> <<steps[s].value, steps[s].bits>>]

(* What is rebuilt for an invocation is what it computed, value by value   *)
(* and in order, through taps, columns, codec, file and directory.         *)
HistoryExact == phase = "open" /\ lane # 0 /\ file = Packed => History = Truth(lane)

(* From a file whose write failed half-way a reader may rebuild less, never *)
(* a value that was not computed.                                          *)
CutFileNeverLies ==
  phase = "open" /\ lane # 0 => Range(History) \subseteq Range(Truth(lane))

(* However often the pass runs, a value has one tap, right behind its      *)
(* definition, and each block still ends in its only terminator.           *)
TapsWellPlaced ==
  \A b \in DOMAIN code :
    /\ \A k \in DOMAIN code[b] : code[b][k].op \in Terminators <=> k = Len(code[b])
    /\ \A k \in DOMAIN code[b] : code[b][k].op = "tap" =>
         /\ k > 1 /\ code[b][k - 1].value = code[b][k].value /\ code[b][k - 1].op # "tap"
=============================================================================
