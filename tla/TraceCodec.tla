----------------------------- MODULE TraceCodec -----------------------------
(***************************************************************************)
(* The trace codec of src/src/trace/codec.cpp: one column holds a value    *)
(* per shader invocation (lane), some lanes inactive, and is coded warp by *)
(* warp, as bare values or as a base and narrow residuals, into one bit    *)
(* stream.                                                                 *)
(*                                                                         *)
(* A coded column is a sequence of cells: a header field is one cell, what *)
(* BitWriter writes is one cell per bit, filled up to whole bytes by       *)
(* flush.  Values have ValueBits bits where the code has 32, and a width   *)
(* WidthBits where it has 6.                                               *)
(***************************************************************************)
EXTENDS Integers, Sequences, SequencesExt, FiniteSetsExt

CONSTANTS ValueBits, WidthBits

Pow2[k \in Nat] == IF k = 0 THEN 1 ELSE 2 * Pow2[k - 1]

ASSUME CodecAssumption ==
  ValueBits \in Nat \ {0} /\ WidthBits \in Nat /\ Pow2[WidthBits] > ValueBits

U32 == 0
F32 == 1
Magic == 192

Values == 0 .. Pow2[ValueBits] - 1

-----------------------------------------------------------------------------
(* Bits, least significant first.                                          *)

(* BitWriter: put, flush *)
Bits(v, n) == [k \in 1 .. n |-> (v \div Pow2[k - 1]) % 2]
Bytes(bits) == (bits + 7) \div 8
Flush(bits) == bits \o [k \in 1 .. 8 * Bytes(Len(bits)) - Len(bits) |-> 0]

Numeral(bits) ==
  LET low[k \in 0 .. Len(bits)] ==
        IF k = 0 THEN 0 ELSE IF bits[k] = 1 THEN low[k - 1] + Pow2[k - 1] ELSE low[k - 1]
  IN  low[Len(bits)]

(* BitReader::get of n bits after position at; past the end it reads zeros. *)
Get(bits, at, n) ==
  Numeral([k \in 1 .. n |-> IF at + k <= Len(bits) THEN bits[at + k] ELSE 0])

(* The ^ of C++. *)
Xor(v, w) ==
  Numeral([k \in 1 .. ValueBits |-> IF Bits(v, ValueBits)[k] = Bits(w, ValueBits)[k] THEN 0 ELSE 1])

(* Mutant: a power of two gets one bit too few. *)
BitWidthShort(x) == Min({b \in 0 .. ValueBits : x <= Pow2[b]})

(* bit_width *)
BitWidth(x) == Min({b \in 0 .. ValueBits : x < Pow2[b]})

-----------------------------------------------------------------------------
(* Columns                                                                 *)

NoColumn == [kind |-> U32, warp |-> 32, bits |-> << >>, active |-> << >>]

LaneActive(active, k) == active = << >> \/ active[k] = 1

(* The elements of s that are in S, in order. *)
Keep(s, S) ==
  LET kept[k \in 0 .. Len(s)] ==
        IF k = 0 THEN << >> ELSE IF s[k] \in S THEN Append(kept[k - 1], s[k]) ELSE kept[k - 1]
  IN  kept[Len(s)]

Width(size) == IF size = 0 THEN 1 ELSE size
Warps(n, size) == (n + Width(size) - 1) \div Width(size)

(* The active lanes of the w-th warp of n lanes, in order. *)
Warp(n, size, active, w) ==
  LET first == (w - 1) * Width(size)
      last  == Min({w * Width(size), n})
  IN  Keep([k \in 1 .. last - first |-> first + k], {k \in 1 .. n : LaneActive(active, k)})

Residual(kind, v, base) == IF kind = F32 THEN Xor(v, base) ELSE v - base

ValueOf(kind, res, base) ==
  IF kind = F32 THEN Xor(res, base) ELSE (res + base) % Pow2[ValueBits]

(* The values vs, n bits each. *)
Fields(vs, n) == FlattenSeq([k \in DOMAIN vs |-> Bits(vs[k], n)])

(* One warp: the mode bit, then bare values or base, width and residuals,  *)
(* whichever is shorter.                                                   *)
WarpBits(kind, vs) ==
  LET base == IF vs = << >> THEN 0 ELSE IF kind = F32 THEN vs[1] ELSE Min(Range(vs))
      r    == [k \in DOMAIN vs |-> Residual(kind, vs[k], base)]
      b    == BitWidth(Max(Range(r) \union {0}))
      raw  == Len(vs) * ValueBits < ValueBits + WidthBits + Len(vs) * b
  IN  IF raw
      THEN <<1>> \o Fields(vs, ValueBits)
      ELSE <<0>> \o Bits(base, ValueBits) \o Bits(b, WidthBits) \o Fields(r, b)

encode(c) ==
  LET n == Len(c.bits)
      Coded(w) == WarpBits(c.kind, [k \in DOMAIN Warp(n, c.warp, c.active, w) |->
                                     c.bits[Warp(n, c.warp, c.active, w)[k]]])
  IN  <<Magic, c.kind, c.warp, n, IF c.active = << >> THEN 1 ELSE 0>>
        \o Flush(c.active)
        \o Flush(FlattenSeq([w \in 1 .. Warps(n, c.warp) |-> Coded(w)]))

(* Reads one warp of the given lanes; s is the reader's position and the   *)
(* values so far.                                                          *)
DecodeWarp(kind, body, lanes, s) ==
  LET raw   == Get(body, s.at, 1) = 1
      base  == Get(body, s.at + 1, ValueBits)
      b     == Get(body, s.at + 1 + ValueBits, WidthBits)
      first == IF raw THEN s.at + 1 ELSE s.at + 1 + ValueBits + WidthBits
      width == IF raw THEN ValueBits ELSE b
      At(k) == Get(body, first + (k - 1) * width, width)
      Rank(lane) == CHOOSE k \in DOMAIN lanes : lanes[k] = lane
  IN  [at   |-> first + Len(lanes) * width,
       bits |-> [lane \in DOMAIN s.bits |->
                  IF lane \notin Range(lanes) THEN s.bits[lane]
                  ELSE IF raw THEN At(Rank(lane)) ELSE ValueOf(kind, At(Rank(lane)), base)]]

decode(cells) ==
  IF Len(cells) < 2 \/ cells[1] # Magic THEN NoColumn
  ELSE LET kind   == cells[2]
           warp   == cells[3]
           n      == cells[4]
           all    == cells[5] # 0
           rest   == SubSeq(cells, 6, Len(cells))
           active == IF all THEN << >> ELSE [k \in 1 .. n |-> Get(rest, k - 1, 1)]
           body   == IF all THEN rest ELSE SubSeq(rest, 8 * Bytes(n) + 1, Len(rest))
           read[w \in 0 .. Warps(n, warp)] ==
             IF w = 0 THEN [at |-> 0, bits |-> [k \in 1 .. n |-> 0]]
             ELSE DecodeWarp(kind, body, Warp(n, warp, active, w), read[w - 1])
       IN  [kind |-> kind, warp |-> warp, bits |-> read[Warps(n, warp)].bits, active |-> active]
=============================================================================
