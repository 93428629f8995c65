---------------------- MODULE EpsCopyInputStreamProofs ----------------------
(***************************************************************************)
(* Proofs about EpsCopyInputStream: wherever the chunks are cut, pointers, *)
(* limits and the bytes in front of the parser stand for the same stream.  *)
(*                                                                         *)
(* Everything is measured from one point, the position of buffer_end_ in   *)
(* the stream.  A flip moves it; reads move the pointer against it; limits *)
(* are kept relative to it.                                                *)
(***************************************************************************)
EXTENDS EpsCopyInputStream, TLAPS

(* The position of the buffer end of b, for a pointer p to position pos *)
BaseOf(b, p, pos) == pos + b.end - p

Base == BaseOf(buf, ptr, Pos)

Spanning == {"bytes", "fixed", "varint", "cord"}

Pcs == {"loop", "read", "flip", "ended", "rest", "ok", "failed"} \cup Spanning

Typed ==
  /\ input \in Inputs
  /\ taken \in 0 .. input.length /\ last \in Nat /\ size \in Nat /\ overall \in Int
  /\ buf.in \in {"chunk", "patch"} /\ buf.next \in {"chunk", "patch", "none"}
  /\ buf.end \in Int /\ ptr \in Int
  /\ limit \in Int /\ limitEnd \in Int
  /\ tokens \in Seq(Int) /\ ends \in Seq(Int)
  /\ goal \in Nat /\ left \in Nat
  /\ pc \in Pcs /\ ended \in {"limit", "stream", "tag"}

(* What buffer b is relative to the stream, of which tk bytes were taken *)
BufferFor(mode, b, tk, la, sz, p, pos) ==
  /\ p >= 0 /\ p <= b.end + SlopBytes
  /\ b.in = "patch" => b.end \in 0 .. SlopBytes
  /\ b.in = "chunk" => /\ b.next = "patch"
                       /\ mode # "flat" => b.end + SlopBytes - p <= la
  /\ b.next = "patch" => BaseOf(b, p, pos) = tk - SlopBytes
  /\ b.next = "chunk" => /\ BaseOf(b, p, pos) = tk - sz /\ b.end = SlopBytes
                         /\ sz > SlopBytes /\ sz <= tk /\ la = sz
  /\ b.next = "none"  => BaseOf(b, p, pos) = tk /\ sz = 0

MemOf(b, i) == IF b.in = "patch" THEN b.patch[i] ELSE i

BytesFor(b, tk, p, pos) ==
  \A i \in p .. b.end + SlopBytes - 1 :
    pos + (i - p) < tk => MemOf(b, i) = pos + (i - p)

BufferInv == /\ BufferFor(input.mode, buf, taken, last, size, ptr, Pos)
             /\ BytesFor(buf, taken, ptr, Pos)

(* What may still be asked of the stream, and what is known of its end *)
Budget == CASE input.mode = "flat"    -> taken
            [] input.mode = "bounded" -> input.bound
            [] OTHER                  -> MaxInt

OverallInv ==
  /\ buf.next # "none" => overall = Budget - taken
  /\ input.mode = "flat" => overall = 0 /\ taken = input.length
  /\ input.mode = "bounded" => taken - last <= input.bound
  /\ input.mode = "coded" /\ input.finish > 0 => taken - last < input.finish

(* The outermost limit ends at top. *)
TopFor(in, top, base) ==
  /\ in.mode = "flat" => top = in.length
  /\ in.mode = "bounded" => top = in.bound
  /\ in.mode \in {"stream", "coded"} =>
       top \in MaxInt - SlopBytes .. MaxInt /\ top - base <= MaxInt

OuterEnd(lim, tks, es, base) ==
  IF es = <<>> THEN base + lim ELSE es[Len(es)] + tks[Len(es)]

(* A token is the distance to the end of the message around. *)
ChainFor(in, lim, tks, es, base, pos) ==
  /\ Len(tks) = Len(es)
  /\ es # <<>> => base + lim = es[1]
  /\ \A i \in 1 .. Len(es) - 1 : es[i] + tks[i] = es[i + 1]
  /\ \A i \in 1 .. Len(es) : /\ es[i] - pos <= MaxLength
                             /\ es[i] - base <= MaxLength + SlopBytes
  /\ TopFor(in, OuterEnd(lim, tks, es, base), base)

ChainInv == ChainFor(input, limit, tokens, ends, Base, Pos)

(* Where the parser is *)
ControlInv ==
  /\ pc # "flip" => limitEnd = buf.end + Least(0, limit)
  /\ pc = "flip" => ptr >= buf.end /\ ptr - buf.end < limit
  /\ pc = "read" => ptr < limitEnd
  /\ pc \in {"loop", "read", "flip", "ended"} => left = 0
  /\ left <= goal
  /\ pc # "ended" => ended = "limit"
  /\ pc = "ended" =>
       /\ ended = "limit" => ptr - buf.end = limit
       /\ ended = "stream" => Pos = taken
       /\ ended = "tag" => goal = input.finish /\ input.finish > 0
  /\ input.finish > 0 /\ ended # "tag" => goal < input.finish
  /\ pc = "rest" => ends # <<>> /\ goal = ends[1]
  /\ pc = "fixed" => left > BytesAvailable
  /\ pc = "cord" => /\ input.mode # "flat"
                    /\ left > BytesAvailable \/ left > MaxCordBytesToCopy

Running == pc \notin {"ok", "failed"} /\ ~Truncated

Placed == BufferInv /\ OverallInv /\ ChainInv

IInv == Typed /\ (Running => Placed /\ ControlInv)

-----------------------------------------------------------------------------
(* Buffers *)

LEMMA SlopSize ==
    /\ SlopBytes \in Nat /\ SlopBytes >= 2 /\ MaxHeader <= SlopBytes /\ MaxHeader \in Nat
    /\ FixedBytes \in Nat \ {0} /\ FixedBytes <= SlopBytes
    /\ MaxVarint \in Nat /\ MaxVarint <= SlopBytes - 1
    /\ MaxLength \in Nat /\ MaxInt \in Nat /\ MaxLength + 2 * SlopBytes < MaxInt
    /\ MaxCordBytesToCopy \in Nat /\ MaxCordBytesToCopy >= 2 * SlopBytes
BY ConstantsAssumption

LEMMA InputOK ==
    ASSUME Typed
    PROVE  /\ input.length \in Nat /\ input.length <= MaxLength
           /\ input.bound \in Nat /\ input.bound <= MaxLength + 1
           /\ input.finish \in Nat /\ input.finish <= input.length
           /\ input.mode \in {"flat", "stream", "bounded", "coded"}
           /\ taken \in Nat /\ taken <= input.length
<1>1. /\ input.mode \in Modes /\ input.length \in 0 .. MaxLength
      /\ input.bound \in 0 .. MaxLength + 1 /\ input.finish \in 0 .. MaxLength
      /\ input.finish <= input.length /\ taken \in 0 .. input.length
  BY DEF Typed, Inputs
<1>2. Modes \subseteq {"flat", "stream", "bounded", "coded"}
  BY ConstantsAssumption
<1>3. MaxLength \in Nat
  BY SlopSize
<1>4. input.mode \in {"flat", "stream", "bounded", "coded"}
  BY <1>1, <1>2
<1> QED
  BY <1>1, <1>3, <1>4

(* Reading on in the buffer *)
LEMMA Advance ==
    ASSUME NEW mode, NEW b, b.end \in Int, NEW tk \in Int, NEW la \in Int, NEW sz \in Int,
           NEW p \in Int, NEW pos \in Int, NEW q \in Int, NEW at \in Int,
           BufferFor(mode, b, tk, la, sz, p, pos), BytesFor(b, tk, p, pos),
           p <= q, q <= b.end + SlopBytes, q - p = at - pos
    PROVE  BufferFor(mode, b, tk, la, sz, q, at) /\ BytesFor(b, tk, q, at)
<1>1. BaseOf(b, q, at) = BaseOf(b, p, pos)
  BY DEF BaseOf
<1>2. BufferFor(mode, b, tk, la, sz, q, at)
  BY <1>1, SlopSize DEF BufferFor
<1>3. BytesFor(b, tk, q, at)
  BY SlopSize DEF BytesFor
<1> QED
  BY <1>2, <1>3

(* The three ways to the next buffer *)
LEMMA NextIsChunk ==
    ASSUME Typed, BufferInv, buf.next = "chunk",
           buf' = Chunk(taken), UNCHANGED <<taken, last, size>>,
           NEW q \in Int, NEW p, NEW pos, ptr <= q, buf.end <= q, q <= buf.end + SlopBytes,
           p = Start + (q - buf.end), pos = Pos + (q - ptr)
    PROVE  /\ BufferFor(input.mode, buf', taken', last', size', p, pos)
           /\ BytesFor(buf', taken', p, pos)
           /\ BaseOf(buf', p, pos) = Base + (buf'.end - Start) /\ buf'.end >= Start
           /\ buf'.end \in Int /\ buf'.next = "patch" /\ buf'.in = "chunk"
<1> USE SlopSize, InputOK
<1>1. /\ Pos \in Int /\ ptr \in Int /\ buf.end = SlopBytes /\ size > SlopBytes /\ size \in Nat
      /\ last = size /\ Pos + buf.end - ptr = taken - size
  BY DEF Typed, BufferInv, BufferFor, BaseOf, Pos
<1>2. Start = taken - size
  BY DEF Start
<1>3. buf'.end = taken - SlopBytes /\ buf'.in = "chunk" /\ buf'.next = "patch"
  BY DEF Chunk
<1>4. p = pos /\ p \in Int
  BY <1>1, <1>2
<1>5. p >= taken - size /\ p <= taken
  BY <1>1, <1>2
<1>6. taken >= size
  BY DEF BufferInv, BufferFor
<1>7. BytesFor(buf', taken', p, pos)
  BY <1>3, <1>4 DEF BytesFor, MemOf
<1> QED
  BY SMTT(30), <1>1, <1>2, <1>3, <1>4, <1>5, <1>6, <1>7 DEF BufferFor, BaseOf, Base

LEMMA NextIsPatch ==
    ASSUME Typed, BufferInv, buf.next = "patch", NEW n \in 1 .. input.length - taken,
           buf' = [in |-> "patch", end |-> Least(n, SlopBytes), patch |-> Patched(n),
                   next |-> IF n > SlopBytes THEN "chunk" ELSE "patch"],
           taken' = taken + n, last' = n, size' = n,
           NEW q \in Int, NEW p, NEW pos, ptr <= q, buf.end <= q, q <= buf.end + SlopBytes,
           p = Start + (q - buf.end), pos = Pos + (q - ptr)
    PROVE  /\ BufferFor(input.mode, buf', taken', last', size', p, pos)
           /\ BytesFor(buf', taken', p, pos)
           /\ BaseOf(buf', p, pos) = Base + (buf'.end - Start) /\ buf'.end >= Start
           /\ buf'.end \in Int /\ buf'.next \in {"patch", "chunk"} /\ buf'.in = "patch"
<1> USE SlopSize, InputOK
<1>1. /\ Pos \in Int /\ ptr \in Int /\ buf.end \in Int
      /\ Pos + buf.end - ptr = taken - SlopBytes
  BY DEF Typed, BufferInv, BufferFor, BaseOf, Pos
<1>2. Start = 0
  BY DEF Start
<1>3. /\ n \in Nat /\ n > 0 /\ buf'.in = "patch" /\ buf'.patch = Patched(n)
      /\ buf'.end = (IF n <= SlopBytes THEN n ELSE SlopBytes)
      /\ n > SlopBytes => buf'.next = "chunk"
      /\ n <= SlopBytes => buf'.next = "patch"
  BY DEF Least
<1>4. /\ p = q - buf.end /\ p \in 0 .. SlopBytes
      /\ pos - p = taken - SlopBytes /\ pos \in Int
  BY <1>1, <1>2
<1>5. BytesFor(buf', taken', p, pos)
  <2> SUFFICES ASSUME NEW i \in p .. buf'.end + SlopBytes - 1
               PROVE  buf'.patch[i] = pos + (i - p)
    BY <1>3 DEF BytesFor, MemOf
  <2>1. i \in 0 .. 2 * SlopBytes - 1 /\ i - SlopBytes < buf'.end /\ i \in Int
    BY <1>3, <1>4
  <2>2. Patched(n)[i] = IF i < SlopBytes THEN Mem(buf.end + i)
                        ELSE IF i < SlopBytes + buf'.end THEN taken + i - SlopBytes
                        ELSE Junk
    BY <2>1 DEF Patched
  <2>3. CASE i >= SlopBytes
    BY <1>3, <1>4, <2>1, <2>2, <2>3
  <2>4. CASE i < SlopBytes
    <3>1. buf.end + i \in ptr .. buf.end + SlopBytes - 1
      BY <1>1, <1>4, <2>1, <2>4
    <3>2. PICK j : j = buf.end + i
      OBVIOUS
    <3>3. Pos + (j - ptr) = pos + (i - p)
      BY <1>1, <1>4, <2>1, <3>2
    <3>4. pos + (i - p) < taken
      BY <1>4, <2>1, <2>4
    <3>5. MemOf(buf, j) = pos + (i - p)
      BY <3>1, <3>2, <3>3, <3>4 DEF BufferInv, BytesFor
    <3> QED
      BY <1>3, <2>2, <2>4, <3>2, <3>5 DEF Mem, MemOf
  <2> QED
    BY <2>1, <2>3, <2>4
<1>6. BaseOf(buf', p, pos) = taken - SlopBytes + buf'.end
  BY <1>3, <1>4 DEF BaseOf
<1>7. BufferFor(input.mode, buf', taken', last', size', p, pos)
  BY <1>3, <1>4, <1>6 DEF BufferFor
<1> QED
  BY <1>1, <1>2, <1>3, <1>5, <1>6, <1>7 DEF Base, BaseOf

LEMMA NextIsLast ==
    ASSUME Typed, BufferInv, buf.next = "patch",
           buf' = [in |-> "patch", end |-> SlopBytes, next |-> "none", patch |-> Patched(0)],
           taken' = taken, size' = 0,
           NEW q \in Int, NEW p, NEW pos, ptr <= q, buf.end <= q, q <= buf.end + SlopBytes,
           p = Start + (q - buf.end), pos = Pos + (q - ptr)
    PROVE  /\ BufferFor(input.mode, buf', taken', last', size', p, pos)
           /\ BytesFor(buf', taken', p, pos)
           /\ BaseOf(buf', p, pos) = Base + (buf'.end - Start) /\ buf'.end >= Start
           /\ buf'.end \in Int /\ buf'.next = "none" /\ buf'.in = "patch"
<1> USE SlopSize, InputOK
<1>1. /\ Pos \in Int /\ ptr \in Int /\ buf.end \in Int
      /\ Pos + buf.end - ptr = taken - SlopBytes
  BY DEF Typed, BufferInv, BufferFor, BaseOf, Pos
<1>2. Start = 0
  BY DEF Start
<1>3. /\ buf'.in = "patch" /\ buf'.patch = Patched(0)
      /\ buf'.end = SlopBytes /\ buf'.next = "none"
  OBVIOUS
<1>4. /\ p = q - buf.end /\ p \in 0 .. SlopBytes
      /\ pos - p = taken - SlopBytes /\ pos \in Int
  BY <1>1, <1>2
<1>5. BytesFor(buf', taken', p, pos)
  <2> SUFFICES ASSUME NEW i \in p .. buf'.end + SlopBytes - 1, pos + (i - p) < taken
               PROVE  buf'.patch[i] = pos + (i - p)
    BY <1>3 DEF BytesFor, MemOf
  <2>1. i \in 0 .. SlopBytes - 1 /\ i \in 0 .. 2 * SlopBytes - 1 /\ i \in Int
    BY <1>3, <1>4
  <2>2. Patched(0)[i] = Mem(buf.end + i)
    BY <2>1 DEF Patched
  <2>3. buf.end + i \in ptr .. buf.end + SlopBytes - 1
    BY <1>1, <1>4, <2>1
  <2>4. PICK j : j = buf.end + i
    OBVIOUS
  <2>5. Pos + (j - ptr) = pos + (i - p)
    BY <1>1, <1>4, <2>1, <2>4
  <2>6. MemOf(buf, j) = pos + (i - p)
    BY <2>3, <2>4, <2>5 DEF BufferInv, BytesFor
  <2> QED
    BY <1>3, <2>2, <2>4, <2>6 DEF Mem, MemOf
<1>6. BaseOf(buf', p, pos) = taken
  BY <1>3, <1>4 DEF BaseOf
<1>7. BufferFor(input.mode, buf', taken', last', size', p, pos)
  BY <1>3, <1>4, <1>6 DEF BufferFor
<1> QED
  BY <1>1, <1>2, <1>3, <1>5, <1>6, <1>7 DEF Base, BaseOf

BufferTyped ==
  /\ taken \in 0 .. input.length /\ last \in Nat /\ size \in Nat /\ overall \in Int
  /\ buf.in \in {"chunk", "patch"} /\ buf.next \in {"chunk", "patch", "none"}
  /\ buf.end \in Int

(* The next buffer continues the stream: q, a place among the slop bytes or *)
(* behind, is p in it.  The stream is not asked beyond the last tag.        *)
LEMMA Flipped ==
    ASSUME Typed, BufferInv, OverallInv, UNCHANGED input, NEW e, NextBuffer(e),
           buf.next = "patch" /\ input.mode = "coded" /\ input.finish > 0 /\ ~e
             => taken < input.finish,
           NEW q \in Int, NEW p, NEW pos, ptr <= q, buf.end <= q, q <= buf.end + SlopBytes,
           p = Start + (q - buf.end), pos = Pos + (q - ptr)
    PROVE  /\ BufferFor(input.mode, buf', taken', last', size', p, pos)
           /\ BytesFor(buf', taken', p, pos)
           /\ BaseOf(buf', p, pos) = Base + (buf'.end - Start) /\ buf'.end >= Start
           /\ BufferTyped' /\ OverallInv'
<1> USE SlopSize, InputOK
<1>1. last \in Nat /\ size \in Nat /\ overall \in Int
  BY DEF Typed
<1>2. /\ buf.next # "none" => overall = Budget - taken
      /\ input.mode = "flat" => overall = 0 /\ taken = input.length
      /\ input.mode = "bounded" => taken - last <= input.bound
      /\ input.mode = "coded" /\ input.finish > 0 => taken - last < input.finish
  BY DEF OverallInv
<1>3. CASE /\ buf.next = "chunk" /\ buf' = Chunk(taken)
           /\ UNCHANGED <<zcis, size, overall>>
  <2>1. UNCHANGED <<taken, last, size, overall>>
    BY <1>3 DEF zcis
  <2>2. OverallInv'
    BY <1>2, <1>3, <2>1 DEF OverallInv, Budget
  <2>3. BufferTyped'
    BY <1>1, <1>3, <2>1, NextIsChunk DEF BufferTyped
  <2> QED
    BY <1>3, <2>1, <2>2, <2>3, NextIsChunk
<1>4. CASE /\ buf.next = "patch" /\ overall > 0 /\ ~e
           /\ \E n \in 1 .. input.length - taken :
                /\ buf' = [in |-> "patch", end |-> Least(n, SlopBytes), patch |-> Patched(n),
                           next |-> IF n > SlopBytes THEN "chunk" ELSE "patch"]
                /\ taken' = taken + n /\ last' = n /\ size' = n /\ overall' = overall - n
  <2>1. PICK n \in 1 .. input.length - taken :
          /\ buf' = [in |-> "patch", end |-> Least(n, SlopBytes), patch |-> Patched(n),
                     next |-> IF n > SlopBytes THEN "chunk" ELSE "patch"]
          /\ taken' = taken + n /\ last' = n /\ size' = n /\ overall' = overall - n
    BY <1>4
  <2>2. n \in Nat /\ n > 0 /\ taken' \in 0 .. input.length
    BY <2>1
  <2>3. OverallInv'
    <3>1. Budget \in Int /\ overall = Budget - taken
      BY <1>2, <1>4 DEF Budget
    <3>2. overall' = Budget - taken'
      BY <2>1, <2>2, <3>1
    <3>3. Budget' = Budget \/ input.mode = "flat"
      BY DEF Budget
    <3>4. input.mode # "flat"
      BY <1>2, <1>4
    <3>5. input.mode = "bounded" => taken <= input.bound
      BY <1>4, <3>1 DEF Budget
    <3> QED
      BY <1>2, <1>4, <2>1, <2>2, <3>2, <3>3, <3>4, <3>5 DEF OverallInv
  <2>4. BufferTyped'
    BY <1>1, <1>4, <2>1, <2>2, NextIsPatch DEF BufferTyped
  <2> QED
    BY <1>4, <2>1, <2>3, <2>4, NextIsPatch
<1>5. CASE /\ buf.next = "patch"
           /\ LET asks == overall > 0 /\ ~e IN
                /\ asks => taken = input.length
                /\ overall' = IF asks THEN 0 ELSE overall
                /\ last' = IF asks THEN 0 ELSE last
           /\ buf' = [in |-> "patch", end |-> SlopBytes, next |-> "none", patch |-> Patched(0)]
           /\ size' = 0 /\ UNCHANGED taken
  <2>1. /\ taken' = taken /\ size' = 0
        /\ overall' \in {0, overall} /\ last' \in {0, last}
        /\ buf'.next = "none"
    BY <1>5
  <2>2. OverallInv'
    <3>1. CASE overall > 0 /\ ~e
      <4>1. last' = 0 /\ taken = input.length /\ input.mode # "flat"
        BY <1>2, <1>5, <3>1
      <4>2. input.mode = "bounded" => taken <= input.bound
        BY <1>2, <1>5, <3>1 DEF Budget
      <4>3. ~(input.mode = "coded" /\ input.finish > 0)
        BY <1>5, <3>1, <4>1
      <4> QED
        BY <2>1, <4>1, <4>2, <4>3 DEF OverallInv
    <3>2. CASE ~(overall > 0 /\ ~e)
      <4>1. last' = last /\ overall' = overall
        BY <1>5, <3>2
      <4> QED
        BY <1>2, <2>1, <4>1 DEF OverallInv
    <3> QED
      BY <3>1, <3>2
  <2>3. BufferTyped'
    BY <1>1, <1>5, <2>1, NextIsLast DEF BufferTyped
  <2> QED
    BY <1>5, <2>2, <2>3, NextIsLast
<1> QED
  BY <1>3, <1>4, <1>5 DEF NextBuffer
-----------------------------------------------------------------------------
(* Limits *)

(* The buffer end moves on, and the position. *)
LEMMA ChainAdvances ==
    ASSUME NEW in, NEW lim \in Int, NEW tks \in Seq(Int), NEW es \in Seq(Int),
           NEW base \in Int, NEW pos \in Int, ChainFor(in, lim, tks, es, base, pos),
           NEW d \in Nat, NEW e \in Nat
    PROVE  ChainFor(in, lim - d, tks, es, base + d, pos + e)
<1> USE SlopSize
<1>1. OuterEnd(lim - d, tks, es, base + d) = OuterEnd(lim, tks, es, base)
      /\ (base + d) + (lim - d) = base + lim
  BY DEF OuterEnd
<1>2. \A i \in 1 .. Len(es) : /\ es[i] - (pos + e) <= MaxLength
                              /\ es[i] - (base + d) <= MaxLength + SlopBytes
  <2> SUFFICES ASSUME NEW i \in 1 .. Len(es)
               PROVE  /\ es[i] - (pos + e) <= MaxLength
                      /\ es[i] - (base + d) <= MaxLength + SlopBytes
    OBVIOUS
  <2>1. es[i] - pos <= MaxLength /\ es[i] - base <= MaxLength + SlopBytes /\ es[i] \in Int
    BY DEF ChainFor
  <2> QED
    BY <2>1
<1>3. TopFor(in, OuterEnd(lim, tks, es, base), base + d)
  BY DEF ChainFor, TopFor
<1> QED
  BY <1>1, <1>2, <1>3 DEF ChainFor

(* The stream is opened again at pos + e, behind what was read. *)
LEMMA ChainReopens ==
    ASSUME NEW in, NEW lim \in Int, NEW tks \in Seq(Int), NEW es \in Seq(Int),
           NEW base \in Int, NEW pos \in Int, ChainFor(in, lim, tks, es, base, pos),
           NEW e \in Nat, NEW b \in Int, b >= pos + e - SlopBytes,
           b >= base \/ b >= SlopBytes
    PROVE  ChainFor(in, base + lim - b, tks, es, b, pos + e)
<1> USE SlopSize
<1>1. /\ OuterEnd(base + lim - b, tks, es, b) = OuterEnd(lim, tks, es, base)
      /\ b + (base + lim - b) = base + lim
  BY DEF OuterEnd
<1>2. \A i \in 1 .. Len(es) : /\ es[i] - (pos + e) <= MaxLength
                              /\ es[i] - b <= MaxLength + SlopBytes
  <2> SUFFICES ASSUME NEW i \in 1 .. Len(es)
               PROVE  /\ es[i] - (pos + e) <= MaxLength
                      /\ es[i] - b <= MaxLength + SlopBytes
    OBVIOUS
  <2>1. es[i] - pos <= MaxLength /\ es[i] \in Int
    BY DEF ChainFor
  <2> QED
    BY <2>1
<1>3. TopFor(in, OuterEnd(lim, tks, es, base), b)
  BY DEF ChainFor, TopFor
<1> QED
  BY <1>1, <1>2, <1>3 DEF ChainFor

(* PushLimit, for a message of n bytes behind a header of h *)
LEMMA ChainPushed ==
    ASSUME NEW in, NEW lim \in Int, NEW tks \in Seq(Int), NEW es \in Seq(Int),
           NEW base \in Int, NEW pos \in Int, ChainFor(in, lim, tks, es, base, pos),
           NEW h \in Nat, NEW n \in 0 .. MaxLength, pos + h <= base + SlopBytes,
           NEW new, new = pos + h + n - base
    PROVE  ChainFor(in, new, <<lim - new>> \o tks, <<pos + h + n>> \o es, base, pos + h)
<1> USE SlopSize
<1> DEFINE tks2 == <<lim - new>> \o tks  es2 == <<pos + h + n>> \o es
<1>1. /\ new \in Int /\ Len(es) = Len(tks) /\ Len(es) \in Nat
  BY DEF ChainFor
<1>2. /\ es2 \in Seq(Int) /\ tks2 \in Seq(Int)
      /\ Len(es2) = Len(es) + 1 /\ Len(tks2) = Len(es) + 1
      /\ es2[1] = pos + h + n /\ tks2[1] = lim - new
      /\ \A i \in 2 .. Len(es) + 1 : es2[i] = es[i - 1] /\ tks2[i] = tks[i - 1]
  BY <1>1
<1>3. es2 # <<>>
  BY <1>1, <1>2
<1> HIDE DEF es2, tks2
<1>4. base + new = es2[1]
  BY <1>1, <1>2
<1>5. ASSUME NEW i \in 1 .. Len(es2) - 1 PROVE es2[i] + tks2[i] = es2[i + 1]
  <2>1. CASE i = 1
    <3>1. es # <<>> /\ es2[2] = es[1] /\ base + lim = es[1]
      BY <1>1, <1>2, <2>1 DEF ChainFor
    <3> QED
      BY <1>1, <1>2, <2>1, <3>1
  <2>2. CASE i # 1
    <3>1. /\ i - 1 \in 1 .. Len(es) - 1 /\ (i + 1) - 1 = (i - 1) + 1
          /\ i \in 2 .. Len(es) + 1 /\ i + 1 \in 2 .. Len(es) + 1
      BY <1>1, <1>2, <2>2
    <3>2. es[i - 1] + tks[i - 1] = es[(i - 1) + 1]
      BY <3>1 DEF ChainFor
    <3>3. es2[i] = es[i - 1] /\ tks2[i] = tks[i - 1] /\ es2[i + 1] = es[(i + 1) - 1]
      BY <1>2, <3>1
    <3> QED
      BY <3>1, <3>2, <3>3
  <2> QED
    BY <2>1, <2>2
<1>6. ASSUME NEW i \in 1 .. Len(es2)
      PROVE  es2[i] - (pos + h) <= MaxLength /\ es2[i] - base <= MaxLength + SlopBytes
  <2>1. CASE i = 1
    BY SMTT(30), <1>2, <2>1
  <2>2. CASE i # 1
    <3>1. i - 1 \in 1 .. Len(es) /\ i \in 2 .. Len(es) + 1
      BY <1>1, <1>2, <2>2
    <3>2. PICK j : j = i - 1
      OBVIOUS
    <3>3. PICK v : v = es[j]
      OBVIOUS
    <3>4. j \in 1 .. Len(es)
      BY <3>1, <3>2
    <3>5. v - pos <= MaxLength /\ v - base <= MaxLength + SlopBytes
      BY <3>3, <3>4 DEF ChainFor
    <3>6. v \in Int
      BY <3>3, <3>4
    <3>7. es2[i] = v
      BY <1>2, <3>1, <3>2, <3>3
    <3> QED
      BY <3>5, <3>6, <3>7
  <2> QED
    BY <2>1, <2>2
<1>7. OuterEnd(new, tks2, es2, base) = OuterEnd(lim, tks, es, base)
  <2>1. CASE es = <<>>
    BY <1>1, <1>2, <1>3, <2>1 DEF OuterEnd
  <2>2. CASE es # <<>>
    <3>1. /\ Len(es) \in Nat \ {0} /\ Len(es) + 1 \in 2 .. Len(es) + 1
          /\ (Len(es) + 1) - 1 = Len(es)
      BY <1>1, <2>2
    <3>2. es2[Len(es2)] = es[Len(es)] /\ tks2[Len(es2)] = tks[Len(es)]
      BY <1>2, <3>1
    <3> QED
      BY <1>3, <2>2, <3>2 DEF OuterEnd
  <2> QED
    BY <2>1, <2>2
<1>8. ChainFor(in, new, tks2, es2, base, pos + h)
  BY <1>1, <1>2, <1>4, <1>5, <1>6, <1>7 DEF ChainFor
<1> QED
  BY <1>8 DEF es2, tks2

(* PopLimit, at the end of a message *)
LEMMA ChainPopped ==
    ASSUME NEW in, NEW lim \in Int, NEW tks \in Seq(Int), NEW es \in Seq(Int),
           NEW base \in Int, NEW pos \in Int, ChainFor(in, lim, tks, es, base, pos),
           tks # <<>>
    PROVE  ChainFor(in, lim + Head(tks), Tail(tks), Tail(es), base, pos)
<1> USE SlopSize
<1> DEFINE tks2 == Tail(tks)  es2 == Tail(es)
<1>1. /\ Len(es) = Len(tks) /\ Len(es) \in Nat \ {0} /\ es # <<>>
      /\ Head(tks) = tks[1] /\ tks[1] \in Int /\ base + lim = es[1]
  BY DEF ChainFor
<1>2. /\ es2 \in Seq(Int) /\ tks2 \in Seq(Int)
      /\ Len(es2) = Len(es) - 1 /\ Len(tks2) = Len(es) - 1
      /\ \A i \in 1 .. Len(es) - 1 : es2[i] = es[i + 1] /\ tks2[i] = tks[i + 1]
  BY <1>1
<1> HIDE DEF es2, tks2
<1>3. ASSUME NEW i \in 1 .. Len(es2) - 1 PROVE es2[i] + tks2[i] = es2[i + 1]
  <2>1. PICK j : j = i + 1
    OBVIOUS
  <2>2. j \in 1 .. Len(es) - 1 /\ i \in 1 .. Len(es) - 1 /\ i + 1 \in 1 .. Len(es) - 1
    BY <1>1, <1>2, <2>1
  <2>3. es[j] + tks[j] = es[j + 1]
    BY <2>2 DEF ChainFor
  <2> QED
    BY <1>2, <2>1, <2>2, <2>3
<1>4. ASSUME NEW i \in 1 .. Len(es2)
      PROVE  es2[i] - pos <= MaxLength /\ es2[i] - base <= MaxLength + SlopBytes
  <2>1. PICK j : j = i + 1
    OBVIOUS
  <2>2. j \in 1 .. Len(es) /\ i \in 1 .. Len(es) - 1
    BY <1>1, <1>2, <2>1
  <2>3. es[j] - pos <= MaxLength /\ es[j] - base <= MaxLength + SlopBytes
    BY <2>2 DEF ChainFor
  <2> QED
    BY <1>2, <2>1, <2>2, <2>3
<1>5. es2 # <<>> => base + (lim + tks[1]) = es2[1]
  <2> SUFFICES ASSUME es2 # <<>> PROVE base + (lim + tks[1]) = es2[1]
    OBVIOUS
  <2>1. 1 \in 1 .. Len(es) - 1
    BY <1>1, <1>2
  <2>2. es[1] + tks[1] = es[2] /\ es2[1] = es[2]
    BY <1>2, <2>1 DEF ChainFor
  <2> QED
    BY <1>1, <2>2
<1>6. OuterEnd(lim + tks[1], tks2, es2, base) = OuterEnd(lim, tks, es, base)
  <2>1. CASE es2 = <<>>
    <3>1. Len(es) = 1
      BY <1>1, <1>2, <2>1
    <3> QED
      BY <1>1, <2>1, <3>1 DEF OuterEnd
  <2>2. CASE es2 # <<>>
    <3>1. Len(es) - 1 \in 1 .. Len(es) - 1
      BY <1>1, <1>2, <2>2
    <3> QED
      <4>1. (Len(es) - 1) + 1 = Len(es) /\ Len(es2) = Len(es) - 1
        BY <1>1, <1>2
      <4>2. es2[Len(es2)] = es[Len(es)] /\ tks2[Len(es2)] = tks[Len(es)]
        BY <1>2, <3>1, <4>1
      <4> QED
        BY <1>1, <2>2, <4>2 DEF OuterEnd
  <2> QED
    BY <2>1, <2>2
<1>7. ChainFor(in, lim + tks[1], tks2, es2, base, pos)
  BY <1>1, <1>2, <1>3, <1>4, <1>5, <1>6 DEF ChainFor
<1> QED
  BY <1>1, <1>7 DEF es2, tks2

-----------------------------------------------------------------------------
(* The kinds of steps *)

(* Reading d bytes that are there *)
ReadsOn(d) ==
  /\ UNCHANGED <<input, taken, last, size, overall, buf>>
  /\ ptr' = ptr + d /\ Pos' = Pos + d /\ ptr + d <= buf.end + SlopBytes

LEMMA ReadOn ==
    ASSUME Typed, Placed, NEW d \in Nat, ReadsOn(d)
    PROVE  /\ BufferInv' /\ OverallInv' /\ Base' = Base
           /\ UNCHANGED <<limit, tokens, ends>> => Placed'
<1>1. /\ Pos \in Int /\ ptr \in Int /\ buf.end \in Int /\ taken \in Int /\ last \in Int
      /\ size \in Int /\ limit \in Int /\ tokens \in Seq(Int) /\ ends \in Seq(Int)
      /\ Base \in Int
  BY InputOK DEF Typed, Pos, Base, BaseOf
<1>2. /\ ptr + d <= buf.end + SlopBytes
      /\ BufferFor(input.mode, buf, taken, last, size, ptr, Pos)
      /\ BytesFor(buf, taken, ptr, Pos)
  BY DEF ReadsOn, Placed, BufferInv
<1>3. PICK p, pos : p = ptr + d /\ pos = Pos + d
  OBVIOUS
<1>4. BufferInv' /\ Base' = Base
  <2>1. /\ BufferFor(input.mode, buf, taken, last, size, p, pos)
        /\ BytesFor(buf, taken, p, pos)
    <3>1. p \in Int /\ pos \in Int /\ ptr <= p /\ p <= buf.end + SlopBytes /\ p - ptr = pos - Pos
      BY <1>1, <1>2, <1>3
    <3> QED
      BY <1>1, <1>2, <3>1, Advance
  <2>2. BaseOf(buf, p, pos) = BaseOf(buf, ptr, Pos)
    BY <1>1, <1>3 DEF BaseOf
  <2> QED
    BY <1>3, <2>1, <2>2 DEF BufferInv, Base, ReadsOn
<1>5. OverallInv'
  BY DEF Placed, OverallInv, Budget, ReadsOn
<1>6. ChainFor(input, limit - 0, tokens, ends, Base + 0, Pos + d)
  BY <1>1, ChainAdvances DEF Placed, ChainInv
<1>7. limit - 0 = limit /\ Base + 0 = Base
  BY <1>1
<1>8. UNCHANGED input /\ Pos' = Pos + d
  BY DEF ReadsOn
<1>9. UNCHANGED <<limit, tokens, ends>> => ChainInv'
  BY <1>4, <1>6, <1>7, <1>8 DEF ChainInv, ReadsOn
<1> QED
  BY <1>4, <1>5, <1>9 DEF Placed

(* Reading to q in this buffer, and d bytes in the next *)
ReadsInNext(e, q, d) ==
  /\ UNCHANGED <<input, tokens, ends>> /\ NextBuffer(e)
  /\ buf.next = "patch" /\ input.mode = "coded" /\ input.finish > 0 /\ ~e
       => taken < input.finish
  /\ limit' = limit - (buf'.end - Start)
  /\ ptr <= q /\ buf.end <= q /\ q <= buf.end + SlopBytes
  /\ ptr' = Start + (q - buf.end) + d /\ Pos' = Pos + (q - ptr) + d
  /\ d > 0 => ptr' <= buf'.end + SlopBytes

LEMMA ReadInNext ==
    ASSUME Typed, Placed, NEW e, NEW q \in Int, NEW d \in Nat, ReadsInNext(e, q, d)
    PROVE  /\ Placed' /\ BufferTyped' /\ ptr' \in Int /\ limit' \in Int
           /\ Start \in Int /\ buf'.end >= Start
<1>1. /\ Pos \in Int /\ ptr \in Int /\ buf.end \in Int /\ limit \in Int
      /\ tokens \in Seq(Int) /\ ends \in Seq(Int) /\ Base \in Int /\ Start \in Int
  <2>1. /\ ptr \in Int /\ buf.end \in Int /\ limit \in Int /\ taken \in Int /\ size \in Int
        /\ tokens \in Seq(Int) /\ ends \in Seq(Int) /\ goal \in Int /\ left \in Int
    BY InputOK DEF Typed
  <2> QED
    BY <2>1 DEF Pos, Base, BaseOf, Start
<1>2. /\ ptr <= q /\ buf.end <= q /\ q <= buf.end + SlopBytes
      /\ ptr' = Start + (q - buf.end) + d /\ Pos' = Pos + (q - ptr) + d
      /\ d > 0 => ptr' <= buf'.end + SlopBytes
  BY DEF ReadsInNext
<1>3. PICK p, pos : p = Start + (q - buf.end) /\ pos = Pos + (q - ptr)
  OBVIOUS
<1>4. /\ BufferFor(input.mode, buf', taken', last', size', p, pos)
      /\ BytesFor(buf', taken', p, pos)
      /\ BaseOf(buf', p, pos) = Base + (buf'.end - Start) /\ buf'.end >= Start
      /\ BufferTyped' /\ OverallInv'
  BY <1>3, Flipped DEF Placed, ReadsInNext
<1>5. /\ p \in Int /\ pos \in Int /\ ptr' = p + d /\ Pos' = pos + d /\ ptr' \in Int
      /\ Pos' = Pos + ((q - ptr) + d) /\ (q - ptr) + d \in Nat
  BY <1>1, <1>2, <1>3
<1>6. buf'.end \in Int /\ taken' \in Int /\ last' \in Int /\ size' \in Int
  BY <1>4 DEF BufferTyped
<1>7. /\ BufferFor(input.mode, buf', taken', last', size', ptr', Pos')
      /\ BytesFor(buf', taken', ptr', Pos')
      /\ BaseOf(buf', ptr', Pos') = BaseOf(buf', p, pos)
  <2>1. PICK p2, pos2 : p2 = ptr' /\ pos2 = Pos'
    OBVIOUS
  <2>2. p2 \in Int /\ pos2 \in Int /\ p <= p2 /\ p2 - p = pos2 - pos
    BY <1>2, <1>5, <2>1
  <2>3. p2 <= buf'.end + SlopBytes
    <3>1. CASE d > 0
      BY <1>2, <2>1, <3>1
    <3>2. CASE d = 0
      <4>1. p <= buf'.end + SlopBytes /\ p2 = p
        BY <1>4, <1>5, <2>1, <3>2 DEF BufferFor
      <4> QED
        BY <4>1
    <3> QED
      BY <3>1, <3>2
  <2>4. PICK b2, tk, la, sz, m : b2 = buf' /\ tk = taken' /\ la = last' /\ sz = size' /\ m = input.mode
    OBVIOUS
  <2>5. /\ BufferFor(m, b2, tk, la, sz, p2, pos2)
        /\ BytesFor(b2, tk, p2, pos2)
    BY <1>4, <1>5, <1>6, <2>2, <2>3, <2>4, Advance
  <2>6. BaseOf(b2, p2, pos2) = BaseOf(b2, p, pos)
    BY <1>5, <1>6, <2>2, <2>4 DEF BaseOf
  <2> QED
    BY <2>1, <2>4, <2>5, <2>6
<1>8. BufferInv' /\ Base' = Base + (buf'.end - Start)
  BY <1>4, <1>5, <1>7 DEF BufferInv, Base, ReadsInNext
<1>9. buf'.end - Start \in Nat
  BY SMTT(30), <1>1, <1>4, <1>6
<1>10. ChainFor(input, limit - (buf'.end - Start), tokens, ends, Base + (buf'.end - Start),
                Pos + ((q - ptr) + d))
  BY <1>1, <1>5, <1>9, ChainAdvances DEF Placed, ChainInv
<1>11. limit' = limit - (buf'.end - Start) /\ UNCHANGED <<input, tokens, ends>>
  BY DEF ReadsInNext
<1>12. ChainInv'
  BY <1>5, <1>8, <1>10, <1>11 DEF ChainInv
<1> QED
  BY <1>1, <1>4, <1>5, <1>6, <1>8, <1>11, <1>12 DEF Placed

(* Nothing is read. *)
LEMMA Stays ==
    ASSUME Placed, UNCHANGED <<input, zcis, core, limit, tokens, ptr, left, hist>>
    PROVE  Placed'
<1>1. /\ UNCHANGED <<input, taken, last, buf, size, overall, limit, tokens, ptr, ends>>
      /\ Pos' = Pos /\ Base' = Base
  BY DEF zcis, core, hist, Pos, Base
<1>2. BufferInv'
  BY <1>1 DEF Placed, BufferInv
<1>3. OverallInv'
  BY <1>1 DEF Placed, OverallInv, Budget
<1>4. ChainInv'
  BY <1>1 DEF Placed, ChainInv
<1> QED
  BY <1>2, <1>3, <1>4 DEF Placed

-----------------------------------------------------------------------------
(* The steps *)

LEMMA AllIntegers ==
    ASSUME Typed
    PROVE  /\ Pos \in Int /\ ptr \in Int /\ buf.end \in Int /\ limit \in Int
           /\ limitEnd \in Int /\ goal \in Nat /\ left \in Nat /\ Base \in Int
           /\ taken \in Nat /\ size \in Nat /\ last \in Nat /\ overall \in Int
           /\ tokens \in Seq(Int) /\ ends \in Seq(Int) /\ Start \in Int
<1>1. /\ ptr \in Int /\ buf.end \in Int /\ limit \in Int /\ limitEnd \in Int
      /\ goal \in Nat /\ left \in Nat /\ taken \in Nat /\ size \in Nat /\ last \in Nat
      /\ overall \in Int /\ tokens \in Seq(Int) /\ ends \in Seq(Int)
  BY InputOK DEF Typed
<1>2. Pos \in Int
  BY <1>1 DEF Pos
<1> QED
  BY <1>1, <1>2 DEF Base, BaseOf, Start

LEMMA Going ==
    ASSUME IInv, pc \in {"loop", "read", "flip", "rest"} \cup Spanning
    PROVE  Typed /\ Placed /\ ControlInv
BY DEF IInv, Running, Truncated, Spanning

LEMMA StepDone == ASSUME IInv, Done PROVE IInv'
<1>1. Typed /\ Placed /\ ControlInv
  BY Going DEF Done
<1>2. /\ pc = "loop"
      /\ UNCHANGED <<input, zcis, core, lims, ended, ptr, left, hist>>
      /\ pc' \in {"read", "ended", "failed", "flip"}
      /\ pc' = "read" => ptr < limitEnd
      /\ pc' = "ended" => ptr - buf.end = limit
      /\ pc' = "flip" => /\ ptr >= limitEnd
                         /\ ptr - buf.end # limit /\ ~(ptr - buf.end > limit)
  BY SMTT(30), <1>1, AllIntegers DEF Done
<1>3. UNCHANGED <<input, taken, last, size, overall, buf, limit, limitEnd, tokens, ended,
                  ptr, left, goal, ends>>
  BY <1>2 DEF zcis, core, lims, hist
<1>4. Typed'
  BY <1>1, <1>2, <1>3 DEF Typed, Pcs
<1>5. Placed'
  BY <1>1, <1>2, Stays DEF lims
<1>6. /\ limitEnd = buf.end + Least(0, limit) /\ left = 0 /\ ended = "limit" /\ left <= goal
      /\ input.finish > 0 => goal < input.finish
  BY <1>1, <1>2 DEF ControlInv
<1>7. pc' = "flip" => ptr >= buf.end /\ ptr - buf.end < limit
  <2>1. ptr \in Int /\ buf.end \in Int /\ limit \in Int /\ limitEnd \in Int
    BY <1>1, AllIntegers
  <2>2. limitEnd = IF 0 < limit THEN buf.end ELSE buf.end + limit
    BY <1>6, <2>1 DEF Least
  <2> QED
    BY <1>2, <2>1, <2>2
<1>8. ControlInv' \/ pc' = "failed"
  BY <1>2, <1>3, <1>6, <1>7 DEF ControlInv
<1> QED
  BY <1>4, <1>5, <1>8 DEF IInv, Running

LEMMA StepPopLimit == ASSUME IInv, PopLimit PROVE IInv'
<1>1. /\ Typed /\ pc = "ended" /\ tokens # <<>> /\ limit' = limit + Head(tokens)
      /\ tokens' = Tail(tokens) /\ pc' \in {"loop", "failed"}
      /\ UNCHANGED <<input, zcis, core, ended, ptr, left, goal>>
      /\ pc' = "loop" => /\ ended = "limit" /\ limitEnd' = buf.end + Least(0, limit')
                         /\ ends' = Tail(ends)
      /\ pc' = "failed" => UNCHANGED <<limitEnd, ends>>
  BY DEF IInv, PopLimit
<1>2. UNCHANGED <<input, taken, last, size, overall, buf, ended, ptr, left, goal>>
  BY <1>1 DEF zcis, core
<1>3. Head(tokens) \in Int /\ Tail(tokens) \in Seq(Int) /\ limit' \in Int
  <2>1. tokens \in Seq(Int) /\ limit \in Int
    BY <1>1, AllIntegers
  <2>2. Head(tokens) \in Int /\ Tail(tokens) \in Seq(Int)
    BY <1>1, <2>1
  <2> QED
    BY <1>1, <2>1, <2>2
<1>4. CASE pc' = "loop"
  <2>1. Placed /\ ControlInv
    BY <1>1, <1>4 DEF IInv, Running, Truncated
  <2>2. /\ ends # <<>> /\ Tail(ends) \in Seq(Int)
        /\ ChainFor(input, limit + Head(tokens), Tail(tokens), Tail(ends), Base, Pos)
    <3>1. ChainFor(input, limit, tokens, ends, Base, Pos) /\ Len(tokens) = Len(ends)
      BY <2>1 DEF Placed, ChainInv, ChainFor
    <3>2. tokens \in Seq(Int) /\ ends \in Seq(Int) /\ limit \in Int /\ Base \in Int /\ Pos \in Int
      BY <1>1, AllIntegers
    <3>3. ends # <<>>
      BY <1>1, <3>1, <3>2
    <3> QED
      BY <1>1, <3>1, <3>2, <3>3, ChainPopped
  <2>3. Base' = Base /\ Pos' = Pos
    BY <1>2 DEF Base, Pos
  <2>4. Typed'
    <3>1. limitEnd' \in Int
      <4>1. buf.end \in Int
        BY <1>1, AllIntegers
      <4> QED
        BY <1>1, <1>3, <1>4, <4>1 DEF Least
    <3> QED
      BY <1>1, <1>2, <1>3, <1>4, <2>2, <3>1 DEF Typed, Pcs
  <2>5. Placed'
    <3>1. BufferInv'
      BY <1>2, <2>1, <2>3 DEF Placed, BufferInv
    <3>2. OverallInv'
      BY <1>2, <2>1 DEF Placed, OverallInv, Budget
    <3>3. ChainInv'
      BY <1>1, <1>2, <1>4, <2>2, <2>3 DEF ChainInv
    <3> QED
      BY <3>1, <3>2, <3>3 DEF Placed
  <2>6. ControlInv'
    BY <1>1, <1>2, <1>4, <2>1 DEF ControlInv
  <2> QED
    BY <2>4, <2>5, <2>6 DEF IInv
<1>5. CASE pc' = "failed"
  <2>1. UNCHANGED <<limitEnd, ends>>
    BY <1>1, <1>5
  <2>2. Typed'
    BY <1>1, <1>2, <1>3, <1>5, <2>1 DEF Typed, Pcs
  <2> QED
    BY <1>5, <2>2 DEF IInv, Running
<1> QED
  BY <1>1, <1>4, <1>5

(* The bytes that BackUp would give back are those behind ptr. *)
LEMMA BackUpIsBehind ==
    ASSUME Typed, Placed
    PROVE  BackUpCount = taken - Pos
<1>1. /\ buf.next = "patch" => Pos + buf.end - ptr = taken - SlopBytes
      /\ buf.next = "chunk" => Pos + buf.end - ptr = taken - size
      /\ buf.next = "none" => Pos + buf.end - ptr = taken /\ size = 0
      /\ buf.next \in {"patch", "chunk", "none"}
  BY DEF Placed, BufferInv, BufferFor, BaseOf, Typed
<1>2. /\ Pos \in Int /\ buf.end \in Int /\ ptr \in Int /\ taken \in Int /\ size \in Int
      /\ SlopBytes \in Int
  BY AllIntegers, SlopSize
<1>3. CASE buf.next = "patch"
  BY <1>1, <1>2, <1>3 DEF BackUpCount, BytesAvailable
<1>4. CASE buf.next # "patch"
  <2>1. BackUpCount = size + buf.end - ptr
    BY <1>4 DEF BackUpCount
  <2>2. Pos + buf.end - ptr = taken - size
    BY <1>1, <1>2, <1>4
  <2> QED
    BY <1>2, <2>1, <2>2
<1> QED
  BY <1>3, <1>4

LEMMA StepFinish == ASSUME IInv, Finish PROVE IInv'
<1>1. Typed /\ Placed /\ ControlInv
  BY DEF IInv, Running, Truncated, Finish
<1>2. PICK count : /\ count \in {0, BackUpCount} /\ (count # 0 => count > 0)
                   /\ taken' = taken - count /\ overall' = overall + count
                   /\ last' = IF count > 0 THEN 0 ELSE last
  BY DEF Finish
<1>3. /\ pc' \in {"ok", "failed"} /\ pc = "ended"
      /\ UNCHANGED <<input, buf, size, limit, limitEnd, tokens, ended, ptr, left, goal, ends>>
  BY DEF Finish, lims, hist
<1>4. left = 0 /\ Pos = goal
  BY <1>1, <1>3, AllIntegers DEF ControlInv, Pos
<1>5. /\ goal \in Nat /\ taken \in Nat /\ input.length \in Nat /\ taken <= input.length
      /\ overall \in Int /\ last \in Nat
  BY <1>1, InputOK, AllIntegers
<1>6. count \in Nat /\ count <= taken
  <2>1. count = 0 \/ (count = taken - goal /\ count > 0)
    BY <1>1, <1>2, <1>4, BackUpIsBehind
  <2> QED
    BY <1>5, <2>1
<1>7. taken' \in 0 .. input.length /\ overall' \in Int /\ last' \in Nat
  BY <1>2, <1>5, <1>6
<1>8. Typed'
  BY <1>1, <1>3, <1>7 DEF Typed, Pcs
<1> QED
  BY <1>3, <1>8 DEF IInv, Running

(* A tag may be read in front of the buffer end. *)
LEMMA BeforeTheEnd ==
    ASSUME Typed, ControlInv, pc = "read"
    PROVE  /\ ptr < buf.end /\ ptr < limitEnd /\ limitEnd = buf.end + Least(0, limit)
           /\ left = 0 /\ Pos = goal /\ ended = "limit"
           /\ input.finish > 0 => goal < input.finish
<1>1. /\ ptr < limitEnd /\ limitEnd = buf.end + Least(0, limit) /\ left = 0
      /\ ended = "limit"
      /\ input.finish > 0 => goal < input.finish
  BY DEF ControlInv
<1>2. ptr \in Int /\ buf.end \in Int /\ limit \in Int /\ limitEnd \in Int /\ goal \in Nat
  BY AllIntegers
<1>3. ptr < buf.end
  <2>1. limitEnd = IF 0 < limit THEN buf.end ELSE buf.end + limit
    BY <1>1, <1>2 DEF Least
  <2> QED
    BY <1>1, <1>2, <2>1
<1>4. Pos = goal
  BY <1>1, <1>2 DEF Pos
<1> QED
  BY <1>1, <1>3, <1>4

LEMMA StepEndTag == ASSUME IInv, EndTag PROVE IInv'
<1>1. Typed /\ Placed /\ ControlInv /\ pc = "read"
  BY Going DEF EndTag
<1>2. /\ input.finish > 0 /\ goal = input.finish - 1 /\ ptr' = ptr + 1 /\ goal' = goal + 1
      /\ ended' = "tag" /\ pc' = "ended"
      /\ UNCHANGED <<input, taken, last, buf, size, overall, limit, limitEnd, tokens, left, ends>>
  BY DEF EndTag, zcis, core, lims
<1>3. /\ ptr \in Int /\ buf.end \in Int /\ goal \in Nat /\ left \in Nat /\ SlopBytes \in Nat
      /\ SlopBytes >= 2 /\ input.finish \in Nat /\ Pos \in Int
  BY <1>1, AllIntegers, InputOK, SlopSize
<1>4. ReadsOn(1)
  <2>1. ptr + 1 <= buf.end + SlopBytes
    BY <1>1, <1>3, BeforeTheEnd
  <2>2. Pos' = Pos + 1
    BY <1>2, <1>3 DEF Pos
  <2> QED
    BY <1>2, <2>1, <2>2 DEF ReadsOn
<1>5. Placed'
  BY <1>1, <1>2, <1>4, ReadOn
<1>6. ptr' \in Int /\ goal' \in Nat /\ goal' = input.finish
  BY <1>2, <1>3
<1>7. Typed'
  BY <1>1, <1>2, <1>6 DEF Typed, Pcs
<1>8. ControlInv'
  <2>1. left <= goal'
    BY <1>1, <1>2, <1>3, BeforeTheEnd
  <2> QED
    BY <1>1, <1>2, <1>6, <2>1, BeforeTheEnd DEF ControlInv
<1> QED
  BY <1>5, <1>7, <1>8 DEF IInv

LEMMA StepToken ==
    ASSUME IInv, NEW n \in 1 .. SlopBytes, Token(n) PROVE IInv'
<1>1. Typed /\ Placed /\ ControlInv /\ pc = "read"
  BY Going DEF Token
<1>2. /\ ptr' = ptr + n /\ goal' = goal + n /\ pc' = "loop"
      /\ input.finish > 0 => goal + n < input.finish
      /\ UNCHANGED <<input, taken, last, buf, size, overall, limit, limitEnd, tokens, ended,
                     left, ends>>
  BY DEF Token, Fits, zcis, core, lims
<1>3. /\ ptr \in Int /\ buf.end \in Int /\ goal \in Nat /\ left \in Nat /\ SlopBytes \in Nat
      /\ n \in Nat /\ n <= SlopBytes /\ Pos \in Int
  BY <1>1, AllIntegers, SlopSize
<1>4. ReadsOn(n)
  <2>1. ptr + n <= buf.end + SlopBytes
    BY <1>1, <1>3, BeforeTheEnd
  <2>2. Pos' = Pos + n
    BY <1>2, <1>3 DEF Pos
  <2> QED
    BY <1>2, <2>1, <2>2 DEF ReadsOn
<1>5. Placed'
  BY <1>1, <1>2, <1>3, <1>4, ReadOn
<1>6. ptr' \in Int /\ goal' \in Nat
  BY <1>2, <1>3
<1>7. Typed'
  BY <1>1, <1>2, <1>6 DEF Typed, Pcs
<1>8. ControlInv'
  <2>1. left <= goal'
    BY <1>1, <1>2, <1>3, BeforeTheEnd
  <2> QED
    BY <1>1, <1>2, <2>1, BeforeTheEnd DEF ControlInv
<1> QED
  BY <1>5, <1>7, <1>8 DEF IInv

LEMMA StepMessage ==
    ASSUME IInv, NEW h \in 1 .. MaxHeader, NEW n \in 0 .. MaxLength, NEW raw \in BOOLEAN,
           Message(h, n, raw)
    PROVE  IInv'
<1>1. Typed /\ Placed /\ ControlInv /\ pc = "read"
  BY Going DEF Message
<1>2. /\ ptr' = ptr + h
      /\ input.finish > 0 => goal + (h + n) < input.finish
      /\ UNCHANGED <<input, taken, last, buf, size, overall, ended>>
  BY DEF Message, Fits, zcis, core
<1>3. /\ ptr \in Int /\ buf.end \in Int /\ goal \in Nat /\ left \in Nat /\ SlopBytes \in Nat
      /\ h \in Nat /\ n \in Nat /\ h <= SlopBytes /\ Pos \in Int /\ Base \in Int
      /\ limit \in Int /\ tokens \in Seq(Int) /\ ends \in Seq(Int)
  BY <1>1, AllIntegers, SlopSize
<1>4. /\ ptr < buf.end /\ ended = "limit" /\ left = 0 /\ Pos = goal
  BY <1>1, BeforeTheEnd
<1>5. CASE pc' = "failed" /\ UNCHANGED <<lims, left, hist>>
  <2>1. UNCHANGED <<limit, limitEnd, tokens, left, goal, ends>> /\ ptr' \in Int
    BY <1>2, <1>3, <1>5 DEF lims, hist
  <2>2. Typed'
    BY <1>1, <1>2, <1>5, <2>1 DEF Typed, Pcs
  <2> QED
    BY <1>5, <2>2 DEF IInv, Running
<1>6. CASE LET new == n + ptr' - buf.end IN
            /\ limit' = new /\ limitEnd' = buf.end + Least(0, new)
            /\ tokens' = <<limit - new>> \o tokens
            /\ ends' = <<goal + h + n>> \o ends
            /\ IF raw THEN pc' = "rest" /\ left' = n /\ goal' = goal + h + n
               ELSE pc' = "loop" /\ goal' = goal + h /\ UNCHANGED left
  <2>1. PICK new : new = n + (ptr + h) - buf.end
    OBVIOUS
  <2>2. /\ limit' = new /\ limitEnd' = buf.end + Least(0, new)
        /\ tokens' = <<limit - new>> \o tokens /\ ends' = <<goal + h + n>> \o ends
        /\ \/ pc' = "rest" /\ left' = n /\ goal' = goal + h + n
           \/ pc' = "loop" /\ left' = left /\ goal' = goal + h
    BY <1>2, <1>6, <2>1
  <2>3. /\ new \in Int /\ limit - new \in Int /\ goal + h + n \in Int /\ new = Pos + h + n - Base
        /\ Pos + h <= Base + SlopBytes /\ goal' \in Nat /\ left' \in Nat /\ left' <= goal'
        /\ ptr' \in Int /\ Pos' = Pos + h /\ ptr + h <= buf.end + SlopBytes
        /\ limitEnd' \in Int
    <3>1. Base = goal + buf.end - ptr
      BY <1>3, <1>4 DEF Base, BaseOf
    <3>2. new \in Int /\ limit - new \in Int /\ goal + h + n \in Int /\ new = Pos + h + n - Base
      <4>1. new \in Int /\ limit - new \in Int /\ goal + h + n \in Int
        BY <1>3, <2>1
      <4>2. goal + h + n - (goal + buf.end - ptr) = n + (ptr + h) - buf.end
        BY <1>3
      <4> QED
        BY <1>4, <2>1, <3>1, <4>1, <4>2
    <3>3. Pos + h <= Base + SlopBytes /\ ptr + h <= buf.end + SlopBytes
      BY SMTT(30), <1>3, <1>4, <3>1
    <3>4. goal' \in Nat /\ left' \in Nat /\ left' <= goal' /\ goal' - left' = goal + h
      BY <1>3, <1>4, <2>2
    <3>5. Pos' = Pos + h
      BY <1>4, <3>4 DEF Pos
    <3>6. limitEnd' \in Int
      BY <1>3, <2>2, <3>2 DEF Least
    <3> QED
      BY <1>2, <1>3, <3>2, <3>3, <3>4, <3>5, <3>6
  <2>4. /\ ReadsOn(h)
    BY <1>2, <2>3 DEF ReadsOn
  <2>5. BufferInv' /\ OverallInv' /\ Base' = Base
    BY <1>1, <1>3, <2>4, ReadOn
  <2>6. tokens' \in Seq(Int) /\ ends' \in Seq(Int) /\ ends' # <<>> /\ ends'[1] = goal + h + n
    BY <1>3, <2>2, <2>3
  <2>7. ChainInv'
    <3>1. ChainFor(input, limit, tokens, ends, Base, Pos)
      BY <1>1 DEF Placed, ChainInv
    <3>2. ChainFor(input, new, <<limit - new>> \o tokens, <<Pos + h + n>> \o ends, Base, Pos + h)
      BY <1>3, <2>3, <3>1, ChainPushed
    <3> QED
      BY <1>2, <1>4, <2>2, <2>3, <2>5, <3>2 DEF ChainInv
  <2>8. Typed'
    BY <1>1, <1>2, <2>2, <2>3, <2>6 DEF Typed, Pcs
  <2>9. ControlInv'
    <3>1. input.finish > 0 => goal' < input.finish
      <4>1. input.finish \in Nat
        BY <1>1, InputOK
      <4> QED
        BY <1>2, <1>3, <2>2, <4>1
    <3>2. limitEnd' = buf'.end + Least(0, limit')
      BY <1>2, <2>2
    <3> QED
      BY <1>2, <1>4, <2>2, <2>3, <2>6, <3>1, <3>2 DEF ControlInv
  <2> QED
    BY <2>5, <2>7, <2>8, <2>9 DEF IInv, Placed
<1> QED
  BY <1>5, <1>6 DEF Message

LEMMA StepField ==
    ASSUME IInv, NEW kind \in Kinds, NEW h \in 1 .. MaxHeader, NEW n \in 0 .. MaxLength,
           Field(kind, h, n)
    PROVE  IInv'
<1>1. Typed /\ Placed /\ ControlInv /\ pc = "read"
  BY Going DEF Field
<1>2. /\ goal' = goal + h + n
      /\ input.finish > 0 => goal + (h + n) < input.finish
      /\ UNCHANGED <<input, taken, last, buf, size, overall, limit, limitEnd, tokens, ended,
                     ends>>
  BY DEF Field, Fits, zcis, core, lims
<1>3. /\ ptr \in Int /\ buf.end \in Int /\ goal \in Nat /\ left \in Nat /\ SlopBytes \in Nat
      /\ h \in Nat /\ n \in Nat /\ h <= SlopBytes /\ Pos \in Int /\ MaxCordBytesToCopy \in Nat
  BY <1>1, AllIntegers, SlopSize
<1>4. /\ ptr < buf.end /\ ended = "limit" /\ left = 0 /\ Pos = goal
      /\ limitEnd = buf.end + Least(0, limit)
  BY <1>1, BeforeTheEnd
<1>5. PICK d \in Nat :
        /\ ptr' = ptr + d /\ ptr + d <= buf.end + SlopBytes
        /\ left' \in Nat /\ left' <= goal' /\ goal' - left' = goal + d
        /\ pc' \in {"loop"} \cup Spanning
        /\ pc' = "loop" => left' = 0
        /\ pc' = "fixed" => left' > buf.end + SlopBytes - (ptr + d)
        /\ pc' = "cord" => /\ input.mode # "flat"
                           /\ \/ left' > buf.end + SlopBytes - (ptr + d)
                              \/ left' > MaxCordBytesToCopy
  <2> DEFINE room == BytesAvailable - h
             most == IF kind = "cord" THEN Least(room, MaxCordBytesToCopy) ELSE room
  <2>1. /\ room \in Int /\ room = buf.end + SlopBytes - (ptr + h)
        /\ most \in Int /\ most <= room
        /\ kind # "cord" => most = room
        /\ kind = "cord" => most = room \/ most = MaxCordBytesToCopy
    BY <1>3 DEF BytesAvailable, Least
  <2> HIDE DEF room, most
  <2>2. CASE kind # "varint" /\ n <= most
    <3>1. ptr' = ptr + h + n /\ pc' = "loop" /\ left' = left
      BY <2>2 DEF Field, room, most
    <3>2. PICK d \in Nat : d = h + n
      BY <1>3
    <3>3. ptr + d <= buf.end + SlopBytes
      BY <1>3, <2>1, <2>2, <3>2
    <3>4. ptr' = ptr + d /\ left' = 0 /\ goal' - left' = goal + d /\ left' <= goal'
      BY <1>2, <1>3, <1>4, <3>1, <3>2
    <3> QED
      BY <3>1, <3>3, <3>4
  <2>3. CASE ~(kind # "varint" /\ n <= most)
    <3>1. /\ ptr' = ptr + h /\ left' = n
          /\ pc' = IF kind = "cord" /\ input.mode = "flat" THEN "bytes" ELSE kind
      BY <2>3 DEF Field, room, most
    <3>2. ptr + h <= buf.end + SlopBytes /\ goal' - left' = goal + h /\ left' <= goal'
      BY <1>2, <1>3, <1>4, <3>1
    <3>3. kind # "varint" => n > most
      BY <1>3, <2>1, <2>3
    <3>4. pc' = "fixed" => n > buf.end + SlopBytes - (ptr + h)
      BY <2>1, <3>1, <3>3
    <3>5. pc' = "cord" => /\ input.mode # "flat"
                          /\ \/ n > buf.end + SlopBytes - (ptr + h)
                             \/ n > MaxCordBytesToCopy
      BY <2>1, <3>1, <3>3
    <3>6. pc' \in Spanning
      BY <3>1 DEF Spanning, Kinds
    <3> QED
      BY <1>3, <3>1, <3>2, <3>4, <3>5, <3>6 DEF Spanning
  <2> QED
    BY <2>2, <2>3
<1>6. ReadsOn(d)
  <2>1. Pos' = Pos + d
    BY <1>4, <1>5 DEF Pos
  <2> QED
    BY <1>2, <1>5, <2>1 DEF ReadsOn
<1>7. Placed'
  BY <1>1, <1>2, <1>6, ReadOn
<1>8. ptr' \in Int /\ goal' \in Nat
  BY <1>2, <1>3, <1>5
<1>9. Typed'
  BY <1>1, <1>2, <1>5, <1>8 DEF Typed, Pcs
<1>10. ControlInv'
  <2>1. input.finish > 0 => goal' < input.finish
    <3>1. input.finish \in Nat
      BY <1>1, InputOK
    <3> QED
      BY <1>2, <1>3, <3>1
  <2>2. pc' \notin {"flip", "read", "ended", "rest"}
    BY <1>5 DEF Spanning
  <2>3. /\ pc' = "fixed" => left' > BytesAvailable'
        /\ pc' = "cord" => left' > BytesAvailable' \/ left' > MaxCordBytesToCopy
    BY <1>2, <1>5 DEF BytesAvailable
  <2> QED
    BY <1>2, <1>4, <1>5, <2>1, <2>2, <2>3 DEF ControlInv
<1> QED
  BY <1>7, <1>9, <1>10 DEF IInv

LEMMA StepFails ==
    ASSUME IInv, Fails, UNCHANGED <<input, ended, hist>> PROVE IInv'
<1>1. /\ Typed /\ pc' = "failed"
      /\ UNCHANGED <<input, taken, last, buf, size, overall, limit, limitEnd, tokens, ended,
                     ptr, left, goal, ends>>
  BY DEF IInv, Fails, zcis, core, lims, hist
<1>2. Typed'
  BY <1>1 DEF Typed, Pcs
<1> QED
  BY <1>1, <1>2 DEF IInv, Running

(* The rest of what is being read is there. *)
LEMMA StepRestHere ==
    ASSUME IInv, pc \in Spanning, left <= BytesAvailable, RestHere,
           UNCHANGED <<input, zcis, core, lims, ended, hist>>
    PROVE  IInv'
<1>1. Typed /\ Placed /\ ControlInv
  BY Going
<1>2. /\ ptr' = ptr + left /\ left' = 0 /\ pc' = "loop"
      /\ UNCHANGED <<input, taken, last, buf, size, overall, limit, limitEnd, tokens, ended,
                     goal, ends>>
  BY DEF RestHere, zcis, core, lims, hist
<1>3. /\ ptr \in Int /\ buf.end \in Int /\ goal \in Nat /\ left \in Nat /\ SlopBytes \in Nat
  BY <1>1, AllIntegers, SlopSize
<1>4. ReadsOn(left)
  <2>1. ptr + left <= buf.end + SlopBytes
    BY <1>3 DEF BytesAvailable
  <2>2. Pos' = Pos + left
    BY <1>2, <1>3 DEF Pos
  <2> QED
    BY <1>2, <2>1, <2>2 DEF ReadsOn
<1>5. Placed'
  BY <1>1, <1>2, <1>3, <1>4, ReadOn
<1>6. Typed'
  <2>1. ptr' \in Int
    BY <1>2, <1>3
  <2> QED
    BY <1>1, <1>2, <2>1 DEF Typed, Pcs
<1>7. ControlInv'
  <2>1. /\ limitEnd = buf.end + Least(0, limit) /\ ended = "limit"
        /\ input.finish > 0 => goal < input.finish
    BY <1>1 DEF ControlInv, Spanning
  <2>2. left' <= goal'
    BY <1>2, <1>3
  <2> QED
    BY <1>2, <2>1, <2>2 DEF ControlInv
<1> QED
  BY <1>5, <1>6, <1>7 DEF IInv

(* Reading goes on in the next buffer: to q in this one, and d bytes there. *)
Crosses(q, d) ==
  /\ NextAdjusted /\ UNCHANGED <<input, ended, hist>> /\ left > BytesAvailable
  /\ ptr <= q /\ buf.end <= q /\ q <= buf.end + SlopBytes
  /\ ptr' = Start + (q - buf.end) + d /\ left' = left - (q - ptr) - d /\ left' \in Nat
  /\ d > 0 => ptr' <= buf'.end + SlopBytes

LEMMA Crossing ==
    ASSUME Typed, Placed, ControlInv, pc \in {"rest"} \cup Spanning,
           NEW q \in Int, NEW d \in Nat, Crosses(q, d), pc' \in Pcs
    PROVE  /\ Placed' /\ Typed' /\ limitEnd' = buf'.end + Least(0, limit')
           /\ left' <= goal' /\ UNCHANGED <<input, ended, goal, ends>>
           /\ ended = "limit" /\ (input.finish > 0 => goal' < input.finish)
<1>1. /\ ptr \in Int /\ buf.end \in Int /\ goal \in Nat /\ left \in Nat /\ SlopBytes \in Nat
      /\ taken \in Nat /\ input.finish \in Nat
  BY AllIntegers, SlopSize, InputOK
<1>2. /\ NextBuffer(FALSE) /\ limit' = limit - (buf'.end - Start)
      /\ limitEnd' = buf'.end + Least(0, limit')
      /\ UNCHANGED <<input, tokens, ended, goal, ends>>
      /\ left > buf.end + SlopBytes - ptr
      /\ left' = left - (q - ptr) - d /\ left' \in Nat
      /\ ptr <= q
  BY DEF Crosses, NextAdjusted, hist, BytesAvailable
<1>3. /\ ended = "limit" /\ left <= goal
      /\ input.finish > 0 => goal < input.finish
  BY DEF ControlInv, Spanning
<1>4. buf.next = "patch" /\ input.finish > 0 => taken < input.finish
  <2> SUFFICES ASSUME buf.next = "patch", input.finish > 0 PROVE taken < input.finish
    OBVIOUS
  <2>1. (goal - left) + buf.end - ptr = taken - SlopBytes
    BY DEF Placed, BufferInv, BufferFor, BaseOf, Pos
  <2> QED
    BY <1>1, <1>2, <1>3, <2>1
<1>5. Pos' = Pos + (q - ptr) + d
  BY <1>1, <1>2 DEF Pos
<1>6. ReadsInNext(FALSE, q, d)
  BY <1>2, <1>4, <1>5 DEF ReadsInNext, Crosses
<1>7. Placed' /\ BufferTyped' /\ ptr' \in Int /\ limit' \in Int
  BY <1>6, ReadInNext
<1>8. limitEnd' \in Int
  BY <1>2, <1>7 DEF BufferTyped, Least
<1>9. Typed'
  BY <1>2, <1>7, <1>8 DEF Typed, BufferTyped
<1>10. left' <= goal'
  BY <1>1, <1>2, <1>3
<1> QED
  BY <1>2, <1>3, <1>7, <1>9, <1>10

LEMMA NextEndTyped == ASSUME Typed, NextAdjusted PROVE buf'.end \in Int
<1>1. taken \in Nat /\ SlopBytes \in Nat
  BY AllIntegers, SlopSize
<1>2. CASE buf.next = "chunk"
  BY <1>1, <1>2 DEF NextAdjusted, NextBuffer, Chunk
<1>3. CASE buf.next # "chunk"
  BY <1>1, <1>3 DEF NextAdjusted, NextBuffer, Least
<1> QED
  BY <1>2, <1>3

(* What is left to read fits in the next buffer, or is more than that. *)
LEMMA Spans ==
    ASSUME IInv, pc \in Spanning, pc # "cord", NEW q \in Int, left > BytesAvailable,
           ptr <= q, buf.end <= q, q <= buf.end + SlopBytes,
           NextAdjusted, UNCHANGED <<input, ended, hist>>,
           Rest(Start + (q - buf.end), left - (q - ptr),
                buf'.end - Start + (buf.end + SlopBytes - q))
    PROVE  IInv'
<1>1. Typed /\ Placed /\ ControlInv
  BY Going
<1>2. /\ ptr \in Int /\ buf.end \in Int /\ left \in Nat /\ SlopBytes \in Nat /\ Start \in Int
      /\ goal \in Nat
  BY <1>1, AllIntegers, SlopSize
<1>3. PICK more, p : more = left - (q - ptr) /\ p = Start + (q - buf.end)
  OBVIOUS
<1>4. more \in Nat /\ p \in Int /\ left > buf.end + SlopBytes - ptr
  BY <1>2, <1>3 DEF BytesAvailable
<1>5. PICK room : room = buf'.end - Start + (buf.end + SlopBytes - q)
  OBVIOUS
<1>6. Rest(p, more, room)
  BY <1>3, <1>5
<1>7. pc' \in {"loop", pc}
  BY <1>6 DEF Rest
<1>8. CASE more <= room
  <2>1. ptr' = p + more /\ left' = 0 /\ pc' = "loop"
    BY <1>6, <1>8 DEF Rest
  <2>2. Crosses(q, more)
    <3>1. ptr' = Start + (q - buf.end) + more
      BY <1>3, <2>1
    <3>2. left' = left - (q - ptr) - more /\ left' \in Nat
      BY <1>2, <1>3, <2>1
    <3>3. ptr' <= buf'.end + SlopBytes
      <4>1. CASE buf'.end \in Int
        <5>1. p + (buf'.end - Start + (buf.end + SlopBytes - q)) = buf'.end + SlopBytes
          BY <1>2, <1>3, <4>1
        <5>2. room \in Int
          BY <1>2, <1>5, <4>1
        <5>3. p + more <= p + room
          BY <1>4, <1>8, <5>2
        <5> QED
          BY <1>5, <2>1, <5>1, <5>3
      <4>2. buf'.end \in Int
        BY <1>1, NextEndTyped
      <4> QED
        BY <4>1, <4>2
    <3> QED
      BY <3>1, <3>2, <3>3 DEF Crosses
  <2>3. /\ Placed' /\ Typed' /\ limitEnd' = buf'.end + Least(0, limit')
        /\ UNCHANGED <<input, ended, goal, ends>> /\ ended = "limit"
        /\ (input.finish > 0 => goal' < input.finish)
    BY <1>1, <1>4, <2>1, <2>2, Crossing DEF Pcs
  <2>4. left' <= goal'
    BY <1>2, <2>1, <2>3
  <2>5. ControlInv'
    BY <2>1, <2>3, <2>4 DEF ControlInv
  <2> QED
    BY <2>3, <2>5 DEF IInv
<1>9. CASE ~(more <= room)
  <2>1. ptr' = p /\ left' = more /\ pc' = pc
    BY <1>6, <1>9 DEF Rest
  <2>2. Crosses(q, 0)
    <3>1. ptr' = Start + (q - buf.end) + 0 /\ left' = left - (q - ptr) - 0 /\ left' \in Nat
      BY <1>2, <1>3, <1>4, <2>1
    <3> QED
      BY <3>1 DEF Crosses
  <2>3. /\ Placed' /\ Typed' /\ limitEnd' = buf'.end + Least(0, limit')
        /\ left' <= goal' /\ UNCHANGED <<input, ended, goal, ends>> /\ ended = "limit"
        /\ (input.finish > 0 => goal' < input.finish)
    BY <1>1, <2>1, <2>2, Crossing DEF Pcs
  <2>4. left' > BytesAvailable'
    <3>1. buf'.end \in Int
      BY <2>3 DEF Typed
    <3>2. room = buf'.end + SlopBytes - p /\ room \in Int
      BY <1>2, <1>3, <1>5, <3>1
    <3> QED
      BY <1>4, <1>9, <2>1, <3>2 DEF BytesAvailable
  <2>5. ControlInv'
    BY <2>1, <2>3, <2>4 DEF ControlInv, Spanning
  <2> QED
    BY <2>3, <2>5 DEF IInv
<1> QED
  BY <1>8, <1>9

LEMMA StepAppendSize == ASSUME IInv, AppendSize PROVE IInv'
<1>1. Typed /\ Placed /\ ControlInv
  BY Going DEF AppendSize, Spanning
<1>2. pc = "bytes" /\ UNCHANGED <<input, ended, hist>>
  BY DEF AppendSize
<1>3. CASE left <= BytesAvailable
  BY <1>2, <1>3, StepRestHere DEF AppendSize, Spanning
<1>4. CASE ~(left <= BytesAvailable)
  <2>1. CASE buf.next = "none" \/ limit <= SlopBytes
    BY <1>2, <1>4, <2>1, StepFails DEF AppendSize
  <2>2. CASE ~(buf.next = "none" \/ limit <= SlopBytes)
    <3>1. NextAdjusted /\ Rest(Start + SlopBytes, left - BytesAvailable, buf'.end - Start)
      BY <1>4, <2>2 DEF AppendSize
    <3>2. /\ ptr \in Int /\ buf.end \in Int /\ left \in Nat /\ SlopBytes \in Nat
          /\ Start \in Int /\ BytesAvailable \in Int
      BY SMTT(30), <1>1, AllIntegers, SlopSize DEF BytesAvailable
    <3>3. PICK q \in Int : q = buf.end + SlopBytes
      BY <3>2
    <3>4. /\ q - buf.end = SlopBytes /\ q - ptr = BytesAvailable
          /\ buf.end <= q /\ q <= buf.end + SlopBytes /\ left > BytesAvailable
      BY <1>4, <3>2, <3>3 DEF BytesAvailable
    <3>5. ptr <= q
      BY <1>1, <3>3 DEF Placed, BufferInv, BufferFor
    <3>6. buf'.end - Start + (buf.end + SlopBytes - q) = buf'.end - Start
      BY <3>1, <3>2, <3>3, <1>1, NextEndTyped
    <3> QED
      BY <1>2, <3>1, <3>4, <3>5, <3>6, Spans DEF Spanning
  <2> QED
    BY <2>1, <2>2
<1> QED
  BY <1>3, <1>4

LEMMA Remainder ==
    ASSUME NEW a \in Nat, NEW b \in Nat \ {0}
    PROVE  a % b \in Nat /\ a % b < b /\ a % b <= a
OBVIOUS

LEMMA StepReadPackedFixed == ASSUME IInv, ReadPackedFixed PROVE IInv'
<1>1. Typed /\ Placed /\ ControlInv
  BY Going DEF ReadPackedFixed, Spanning
<1>2. pc = "fixed" /\ UNCHANGED <<input, ended, hist>> /\ left > BytesAvailable
  BY <1>1 DEF ReadPackedFixed, ControlInv
<1>3. CASE buf.next = "none" \/ limit <= SlopBytes
  BY <1>2, <1>3, StepFails DEF ReadPackedFixed
<1>4. CASE ~(buf.next = "none" \/ limit <= SlopBytes)
  <2>1. PICK rem, block : rem = BytesAvailable % FixedBytes /\ block = BytesAvailable - rem
    OBVIOUS
  <2>2. /\ NextAdjusted
        /\ Rest(Start + SlopBytes - (BytesAvailable - block), left - block,
                buf'.end - Start + (BytesAvailable - block))
    BY <1>4, <2>1 DEF ReadPackedFixed
  <2>3. /\ ptr \in Int /\ buf.end \in Int /\ left \in Nat /\ SlopBytes \in Nat
        /\ Start \in Int /\ buf'.end \in Int /\ FixedBytes \in Nat \ {0} /\ FixedBytes <= SlopBytes
        /\ ptr <= buf.end + SlopBytes
    BY <1>1, <2>2, NextEndTyped, AllIntegers, SlopSize DEF Placed, BufferInv, BufferFor
  <2>4. BytesAvailable = buf.end + SlopBytes - ptr /\ BytesAvailable \in Nat
    BY <2>3 DEF BytesAvailable
  <2>5. rem \in Nat /\ rem < FixedBytes /\ rem <= BytesAvailable
    BY <2>1, <2>3, <2>4, Remainder
  <2>6. PICK q \in Int : q = buf.end + SlopBytes - rem
    BY <2>3, <2>5
  <2>7. /\ ptr <= q /\ buf.end <= q /\ q <= buf.end + SlopBytes
    BY <2>3, <2>4, <2>5, <2>6
  <2>8. /\ Start + SlopBytes - (BytesAvailable - block) = Start + (q - buf.end)
        /\ left - block = left - (q - ptr)
        /\ buf'.end - Start + (BytesAvailable - block)
             = buf'.end - Start + (buf.end + SlopBytes - q)
    BY <2>1, <2>3, <2>4, <2>5, <2>6
  <2> QED
    BY <1>2, <2>2, <2>7, <2>8, Spans DEF Spanning
<1> QED
  BY <1>3, <1>4

LEMMA StepReadPackedVarint == ASSUME IInv, ReadPackedVarint PROVE IInv'
<1>1. Typed /\ Placed /\ ControlInv
  BY Going DEF ReadPackedVarint, Spanning
<1>2. pc = "varint" /\ UNCHANGED <<input, ended, hist>>
  BY DEF ReadPackedVarint
<1>3. /\ ptr \in Int /\ buf.end \in Int /\ left \in Nat /\ SlopBytes \in Nat /\ goal \in Nat
      /\ Start \in Int /\ ptr <= buf.end + SlopBytes
      /\ MaxVarint \in Nat /\ MaxVarint <= SlopBytes - 1
  BY <1>1, AllIntegers, SlopSize DEF Placed, BufferInv, BufferFor
<1>4. PICK chunk \in Int : chunk = buf.end - ptr
  BY <1>3
<1>5. chunk + SlopBytes = BytesAvailable
  BY <1>3, <1>4 DEF BytesAvailable
<1>6. CASE left <= chunk + SlopBytes
  <2>1. RestHere /\ UNCHANGED <<zcis, core, lims>>
    BY <1>4, <1>6 DEF ReadPackedVarint
  <2> QED
    BY <1>2, <1>5, <1>6, <2>1, StepRestHere DEF Spanning
<1>7. CASE ~(left <= chunk + SlopBytes) /\ (buf.next = "none" \/ limit <= SlopBytes)
  BY <1>2, <1>4, <1>7, StepFails DEF ReadPackedVarint
<1>8. CASE ~(left <= chunk + SlopBytes) /\ ~(buf.next = "none" \/ limit <= SlopBytes)
  <2>1. PICK overrun \in IF chunk > 0 THEN 0 .. MaxVarint - 1 ELSE {-chunk} :
          /\ NextAdjusted
          /\ ptr' = Start + overrun /\ left' = left - (overrun + chunk) /\ pc' = pc
    BY <1>4, <1>8 DEF ReadPackedVarint
  <2>2. /\ overrun \in Int /\ 0 <= overrun /\ overrun <= SlopBytes /\ 0 <= overrun + chunk
    <3>1. CASE chunk > 0
      BY <1>3, <1>4, <2>1, <3>1
    <3>2. CASE ~(chunk > 0)
      BY <1>3, <1>4, <2>1, <3>2
    <3> QED
      BY <3>1, <3>2
  <2>3. PICK q \in Int : q = buf.end + overrun
    BY <1>3, <2>2
  <2>4. /\ ptr <= q /\ buf.end <= q /\ q <= buf.end + SlopBytes
        /\ ptr' = Start + (q - buf.end) + 0
        /\ left' = left - (q - ptr) - 0 /\ left' \in Nat /\ left > chunk + SlopBytes
    BY <1>3, <1>4, <1>8, <2>1, <2>2, <2>3
  <2>5. Crosses(q, 0)
    BY <1>2, <1>5, <2>1, <2>4 DEF Crosses
  <2>6. /\ Placed' /\ Typed' /\ limitEnd' = buf'.end + Least(0, limit')
        /\ left' <= goal' /\ UNCHANGED <<input, ended, goal, ends>> /\ ended = "limit"
        /\ (input.finish > 0 => goal' < input.finish)
    BY <1>1, <1>2, <2>1, <2>5, Crossing DEF Spanning, Pcs
  <2>7. ControlInv'
    BY <1>2, <2>1, <2>6 DEF ControlInv
  <2> QED
    BY <2>6, <2>7 DEF IInv
<1> QED
  BY <1>6, <1>7, <1>8

LEMMA StepAppendUntilEnd == ASSUME IInv, AppendUntilEnd PROVE IInv'
<1>1. Typed /\ Placed /\ ControlInv
  BY Going DEF AppendUntilEnd
<1>2. /\ pc = "rest" /\ UNCHANGED <<input, hist>> /\ UNCHANGED <<goal, ends>>
  BY DEF AppendUntilEnd, hist
<1>3. /\ ptr \in Int /\ buf.end \in Int /\ left \in Nat /\ SlopBytes \in Nat /\ goal \in Nat
      /\ Start \in Int /\ limit \in Int
  BY <1>1, AllIntegers, SlopSize
<1>4. /\ ends # <<>> /\ Len(tokens) = Len(ends) /\ goal = ends[1]
      /\ BaseOf(buf, ptr, Pos) + limit = ends[1]
      /\ ptr <= buf.end + SlopBytes /\ ended = "limit"
      /\ limitEnd = buf.end + Least(0, limit)
      /\ input.finish > 0 => goal < input.finish
  BY <1>1, <1>2 DEF ControlInv, Placed, ChainInv, ChainFor, Base, BufferInv, BufferFor
<1>5. left = limit + buf.end - ptr
  <2>1. goal - left + buf.end - ptr + limit = goal
    BY <1>3, <1>4 DEF BaseOf, Pos
  <2>2. limit \in Int /\ ptr \in Int /\ buf.end \in Int /\ left \in Int /\ goal \in Int
    BY <1>3
  <2> QED
    BY <2>1, <2>2
<1>6. CASE /\ limit > SlopBytes /\ buf.next # "none" /\ NextAdjusted
           /\ left' = left - BytesAvailable /\ ptr' = Start + SlopBytes
           /\ UNCHANGED <<ended, pc>>
  <2>1. PICK q \in Int : q = buf.end + SlopBytes
    BY <1>3
  <2>2. /\ ptr <= q /\ buf.end <= q /\ q <= buf.end + SlopBytes
        /\ ptr' = Start + (q - buf.end) + 0
        /\ left' = left - (q - ptr) - 0 /\ left' \in Nat /\ left > BytesAvailable
    <3>1. /\ limit > SlopBytes /\ left' = left - BytesAvailable /\ ptr' = Start + SlopBytes
          /\ ptr <= buf.end + SlopBytes
      BY <1>4, <1>6
    <3>2. /\ ptr <= q /\ buf.end <= q /\ q <= buf.end + SlopBytes
          /\ ptr' = Start + (q - buf.end) + 0
      BY <1>3, <2>1, <3>1
    <3>3. BytesAvailable = q - ptr /\ BytesAvailable \in Int
      BY <1>3, <2>1 DEF BytesAvailable
    <3>4. left > BytesAvailable
      BY <1>3, <1>5, <2>1, <3>1, <3>3
    <3>5. left' = left - (q - ptr) - 0 /\ left' \in Nat
      BY <1>3, <3>1, <3>3, <3>4
    <3> QED
      BY <3>2, <3>4, <3>5
  <2>3. Crosses(q, 0)
    BY <1>2, <1>6, <2>2 DEF Crosses
  <2>4. /\ Placed' /\ Typed' /\ limitEnd' = buf'.end + Least(0, limit')
        /\ left' <= goal' /\ UNCHANGED <<input, ended, goal, ends>> /\ ended = "limit"
        /\ (input.finish > 0 => goal' < input.finish)
    BY <1>1, <1>2, <1>6, <2>3, Crossing DEF Pcs
  <2>5. ControlInv'
    BY <1>2, <1>4, <1>6, <2>4 DEF ControlInv
  <2> QED
    BY <2>4, <2>5 DEF IInv
<1>7. CASE /\ limit > SlopBytes /\ buf.next = "none"
           /\ limitEnd' = buf.end /\ ended' = "stream"
           /\ left' = left - BytesAvailable /\ ptr' = buf.end /\ pc' = "ended"
           /\ UNCHANGED <<zcis, core, limit, tokens>>
  <2>1. left' \in Nat
    <3>1. limit > SlopBytes /\ left' = left - (buf.end + SlopBytes - ptr)
      BY <1>7 DEF BytesAvailable
    <3> QED
      BY <1>3, <1>5, <3>1
  <2>2. tokens' # <<>>
    BY <1>1, <1>4, <1>7, AllIntegers
  <2>3. Typed'
    BY <1>1, <1>2, <1>3, <1>7, <2>1 DEF Typed, Pcs, zcis, core
  <2> QED
    BY <1>7, <2>2, <2>3 DEF IInv, Running, Truncated
<1>8. CASE /\ limit <= SlopBytes
           /\ left' = left - BytesUntilLimit /\ ptr' = buf.end + limit /\ pc' = "ended"
           /\ UNCHANGED <<zcis, core, lims, ended>>
  <2>1. UNCHANGED <<taken, last, buf, size, overall, limit, limitEnd, tokens, ended>>
    BY <1>8 DEF zcis, core, lims
  <2>2. /\ left' = 0 /\ ptr' = ptr + left /\ ptr + left <= buf.end + SlopBytes /\ ptr' \in Int
    <3>1. limit <= SlopBytes /\ left' = left - (limit + buf.end - ptr) /\ ptr' = buf.end + limit
      BY <1>8 DEF BytesUntilLimit
    <3> QED
      BY <1>3, <1>5, <3>1
  <2>3. Pos' = Pos + left
    BY <1>2, <1>3, <2>2 DEF Pos
  <2>4. ReadsOn(left)
    BY <1>2, <2>1, <2>2, <2>3 DEF ReadsOn
  <2>5. Placed'
    BY <1>1, <1>2, <1>3, <2>1, <2>4, ReadOn
  <2>6. Typed'
    BY <1>1, <1>2, <1>8, <2>1, <2>2 DEF Typed, Pcs
  <2>7. ptr' - buf'.end = limit'
    BY <1>3, <1>8, <2>1
  <2>8. ControlInv'
    BY <1>2, <1>3, <1>4, <1>8, <2>1, <2>2, <2>7 DEF ControlInv
  <2> QED
    BY <2>5, <2>6, <2>8 DEF IInv
<1> QED
  BY <1>6, <1>7, <1>8 DEF AppendUntilEnd

(* A parse that is not known to end in the slop bytes has not loaded the tag *)
(* that ends it.                                                             *)
LEMMA TagIsAhead ==
    ASSUME Typed, Placed, ControlInv, pc = "flip", buf.next = "patch",
           input.mode = "coded", input.finish > 0, ~ParseEndsInSlopRegion
    PROVE  taken < input.finish
<1>1. /\ ptr \in Int /\ buf.end \in Int /\ goal \in Nat /\ SlopBytes \in Nat
      /\ taken \in Nat /\ input.finish \in Nat /\ Pos \in Int
  BY AllIntegers, SlopSize, InputOK
<1>2. /\ goal < input.finish /\ Pos = goal
      /\ Pos + buf.end - ptr = taken - SlopBytes
  <2>1. left = 0 /\ goal < input.finish
    BY DEF ControlInv
  <2>2. Pos = goal
    BY <1>1, <2>1 DEF Pos
  <2> QED
    BY <2>1, <2>2 DEF Placed, BufferInv, BufferFor, BaseOf
<1>3. SUFFICES ASSUME taken >= input.finish PROVE FALSE
  BY <1>1
<1>4. PICK i \in Int : i = input.finish - 1 - goal + ptr
  BY <1>1
<1>5. /\ i \in ptr .. buf.end + SlopBytes - 1 /\ Pos + (i - ptr) = input.finish - 1
      /\ Pos + (i - ptr) < taken
  BY <1>1, <1>2, <1>3, <1>4
<1>6. MemOf(buf, i) = input.finish - 1
  <2>1. BytesFor(buf, taken, ptr, Pos)
    BY DEF Placed, BufferInv
  <2> QED
    BY <1>5, <2>1 DEF BytesFor
<1> QED
  BY <1>5, <1>6 DEF ParseEndsInSlopRegion, Tracking, Mem, MemOf

LEMMA StepFlip == ASSUME IInv, Flip PROVE IInv'
<1>1. Typed /\ Placed /\ ControlInv
  BY Going DEF Flip
<1>2. pc = "flip" /\ UNCHANGED <<input, tokens, left, goal, ends>>
  BY DEF Flip, hist
<1>3. /\ ptr \in Int /\ buf.end \in Int /\ left \in Nat /\ SlopBytes \in Nat /\ goal \in Nat
      /\ Start \in Int /\ limit \in Int
  BY <1>1, AllIntegers, SlopSize
<1>4. /\ ptr >= buf.end /\ ptr - buf.end < limit /\ left = 0 /\ left <= goal /\ ended = "limit"
      /\ ptr <= buf.end + SlopBytes
  BY <1>1, <1>2 DEF ControlInv, Placed, BufferInv, BufferFor
<1>5. input.finish > 0 => goal < input.finish
  BY <1>1, <1>2 DEF ControlInv
<1>6. CASE /\ buf.next # "none"
           /\ NextBuffer(ParseEndsInSlopRegion)
           /\ limit' = limit - (buf'.end - Start)
           /\ ptr' = Start + (ptr - buf.end)
           /\ IF ptr' >= buf'.end
                THEN pc' = "flip" /\ UNCHANGED limitEnd
                ELSE pc' = "read" /\ limitEnd' = buf'.end + Least(0, limit')
           /\ UNCHANGED ended
  <2>1. PICK e : e = ParseEndsInSlopRegion
    OBVIOUS
  <2>2. NextBuffer(e)
    BY <1>6, <2>1
  <2>3. buf.next = "patch" /\ input.mode = "coded" /\ input.finish > 0 /\ ~e
          => taken < input.finish
    BY <1>1, <1>2, <2>1, TagIsAhead
  <2>4. Pos' = Pos + (ptr - ptr) + 0
    BY <1>2, <1>3 DEF Pos
  <2>5. ptr' = Start + (ptr - buf.end) + 0
    BY <1>3, <1>6
  <2>6. ReadsInNext(e, ptr, 0)
    BY <1>2, <1>3, <1>4, <1>6, <2>2, <2>3, <2>4, <2>5 DEF ReadsInNext
  <2>7. Placed' /\ BufferTyped' /\ ptr' \in Int /\ limit' \in Int
    BY <1>1, <1>3, <2>6, ReadInNext
  <2>8. buf'.end \in Int
    BY <2>7 DEF BufferTyped
  <2>9. ptr' - buf'.end < limit'
    BY <1>3, <1>4, <1>6, <2>7, <2>8
  <2>10. CASE ptr' >= buf'.end
    <3>1. pc' = "flip" /\ limitEnd' = limitEnd
      BY <1>6, <2>10
    <3>2. Typed'
      BY <1>1, <1>2, <1>6, <2>7, <3>1 DEF Typed, BufferTyped, Pcs
    <3>3. ControlInv'
      BY <1>2, <1>4, <1>5, <1>6, <2>9, <2>10, <3>1 DEF ControlInv
    <3> QED
      BY <2>7, <3>2, <3>3 DEF IInv
  <2>11. CASE ~(ptr' >= buf'.end)
    <3>1. pc' = "read" /\ limitEnd' = buf'.end + Least(0, limit')
      BY <1>6, <2>11
    <3>2. limitEnd' \in Int /\ ptr' < limitEnd'
      BY <2>7, <2>8, <2>9, <2>11, <3>1 DEF Least
    <3>3. Typed'
      BY <1>1, <1>2, <1>6, <2>7, <3>1, <3>2 DEF Typed, BufferTyped, Pcs
    <3>4. ControlInv'
      BY <1>2, <1>4, <1>5, <1>6, <3>1, <3>2 DEF ControlInv
    <3> QED
      BY <2>7, <3>3, <3>4 DEF IInv
  <2> QED
    BY <2>10, <2>11
<1>7. CASE /\ pc' = "failed"
           /\ UNCHANGED <<zcis, core, limit, limitEnd, ended, ptr>>
  <2>1. Typed'
    BY <1>1, <1>2, <1>7 DEF Typed, Pcs, zcis, core
  <2> QED
    BY <1>7, <2>1 DEF IInv, Running
<1>8. CASE /\ buf.next = "none" /\ ptr - buf.end = 0
           /\ pc' = "ended" /\ ended' = "stream" /\ limitEnd' = buf.end
           /\ UNCHANGED <<zcis, core, limit, ptr>>
  <2>1. Typed'
    BY <1>1, <1>2, <1>3, <1>8 DEF Typed, Pcs, zcis, core
  <2>2. Placed'
    BY <1>1, <1>2, <1>8, Stays DEF hist
  <2>3. limitEnd' = buf.end + Least(0, limit)
    BY <1>3, <1>4, <1>8 DEF Least
  <2>4. Pos' = taken
    <3>1. Pos + buf.end - ptr = taken
      BY <1>1, <1>8 DEF Placed, BufferInv, BufferFor, BaseOf
    <3>2. Pos \in Int /\ Pos' = Pos
      BY <1>1, <1>2, AllIntegers DEF Pos
    <3>3. taken \in Nat
      BY <1>1, AllIntegers
    <3> QED
      BY <1>3, <1>8, <3>1, <3>2, <3>3
  <2>5. ControlInv'
    BY <1>2, <1>4, <1>5, <1>8, <2>3, <2>4 DEF ControlInv, zcis, core
  <2> QED
    BY <2>1, <2>2, <2>5 DEF IInv
<1> QED
  BY <1>6, <1>7, <1>8 DEF Flip

(* A stream that is opened at position at *)
LEMMA OpenedShape ==
    ASSUME NEW at \in Nat, NEW n \in Nat
    PROVE  /\ Opened(at, n).end \in Int /\ OpenedPtr(at, n) \in Nat
           /\ Opened(at, n).in \in {"chunk", "patch"} /\ Opened(at, n).next = "patch"
           /\ Opened(at, n).end - OpenedPtr(at, n) = n - SlopBytes
<1>1. SlopBytes \in Nat
  BY SlopSize
<1>2. CASE n > SlopBytes
  <2>1. PICK v \in Int : v = at + n
    OBVIOUS
  <2>2. Opened(at, n) = Chunk(v) /\ OpenedPtr(at, n) = at
    BY <1>2, <2>1 DEF Opened, OpenedPtr
  <2>3. Chunk(v).in = "chunk" /\ Chunk(v).end = v - SlopBytes /\ Chunk(v).next = "patch"
    BY DEF Chunk
  <2> QED
    BY <1>1, <2>1, <2>2, <2>3
<1>3. CASE ~(n > SlopBytes)
  BY <1>1, <1>3 DEF Opened, OpenedPtr
<1> QED
  BY <1>2, <1>3

LEMMA OpenedOK ==
    ASSUME NEW mode, NEW at \in Nat, NEW n \in Nat, NEW b, b = Opened(at, n),
           NEW p, p = OpenedPtr(at, n), NEW tk \in Int, tk - at = n, NEW sz
    PROVE  BufferFor(mode, b, tk, n, sz, p, at) /\ BytesFor(b, tk, p, at)
<1>1. SlopBytes \in Nat
  BY SlopSize
<1>2. CASE n > SlopBytes
  <2>1. /\ b.in = "chunk" /\ b.end = at + n - SlopBytes /\ b.next = "patch" /\ p = at
    <3>1. b = Chunk(at + n) /\ p = at
      BY <1>2 DEF Opened, OpenedPtr
    <3>2. PICK v \in Int : v = at + n
      OBVIOUS
    <3>3. b = Chunk(v)
      BY <3>1, <3>2
    <3>4. b.in = "chunk" /\ b.end = v - SlopBytes /\ b.next = "patch"
      BY <3>3 DEF Chunk
    <3> QED
      BY <1>1, <3>1, <3>2, <3>4
  <2>2. BytesFor(b, tk, p, at)
    BY <1>1, <2>1 DEF BytesFor, MemOf
  <2>3. BaseOf(b, p, at) = tk - SlopBytes
    BY <1>1, <2>1 DEF BaseOf
  <2> QED
    BY <1>1, <2>1, <2>2, <2>3 DEF BufferFor
<1>3. CASE ~(n > SlopBytes)
  <2>1. /\ b.in = "patch" /\ b.end = SlopBytes /\ b.next = "patch" /\ p = 2 * SlopBytes - n
        /\ b.patch = [i \in 0 .. 2 * SlopBytes - 1 |->
                        IF i >= 2 * SlopBytes - n THEN at + i - (2 * SlopBytes - n) ELSE Junk]
    BY <1>3 DEF Opened, OpenedPtr, NoPatch
  <2>2. p \in Nat /\ p <= 2 * SlopBytes
    BY <1>1, <1>3, <2>1
  <2>3. BytesFor(b, tk, p, at)
    <3> SUFFICES ASSUME NEW i \in p .. b.end + SlopBytes - 1
                 PROVE  b.patch[i] = at + (i - p)
      BY <2>1 DEF BytesFor, MemOf
    <3>1. i \in 0 .. 2 * SlopBytes - 1 /\ i >= 2 * SlopBytes - n /\ i \in Int
      BY <1>1, <2>1, <2>2
    <3>2. b.patch[i] = at + i - (2 * SlopBytes - n)
      BY <2>1, <3>1
    <3> QED
      BY <1>1, <2>1, <2>2, <3>1, <3>2
  <2>4. BaseOf(b, p, at) = tk - SlopBytes
    BY <1>1, <2>1 DEF BaseOf
  <2>5. b.end \in 0 .. SlopBytes /\ p <= b.end + SlopBytes
    BY <1>1, <2>1, <2>2
  <2> QED
    BY <1>1, <2>1, <2>2, <2>3, <2>4, <2>5 DEF BufferFor
<1> QED
  BY <1>2, <1>3

(* A stream that is at its end *)
LEMMA ClosedOK ==
    ASSUME NEW mode, NEW at \in Nat, NEW la, NEW b, b = Closed
    PROVE  /\ BufferFor(mode, b, at, la, 0, 0, at) /\ BytesFor(b, at, 0, at)
           /\ BaseOf(b, 0, at) = at
           /\ b.end = 0 /\ b.in = "patch" /\ b.next = "none"
<1>1. SlopBytes \in Nat
  BY SlopSize
<1>2. b.end = 0 /\ b.in = "patch" /\ b.next = "none"
  BY DEF Closed
<1>3. BaseOf(b, 0, at) = at
  BY <1>2 DEF BaseOf
<1>4. BytesFor(b, at, 0, at)
  BY <1>1, <1>2 DEF BytesFor
<1> QED
  BY <1>1, <1>2, <1>3, <1>4 DEF BufferFor

(* Behind what is backed up and copied the stream goes on where the cord ends. *)
LEMMA CordIsContinued ==
    ASSUME Typed, Placed, buf.in = "chunk" \/ buf.next # "none"
    PROVE  /\ taken - CordBackUp + (left - CordCopied) = goal
           /\ overall + CordBackUp - (left - CordCopied) = Budget - goal
<1>1. /\ ptr \in Int /\ buf.end \in Int /\ left \in Nat /\ SlopBytes \in Nat /\ goal \in Nat
      /\ taken \in Nat /\ size \in Nat /\ overall \in Int /\ BytesAvailable \in Int
      /\ BytesAvailable = buf.end + SlopBytes - ptr
  BY SMTT(30), AllIntegers, SlopSize DEF BytesAvailable
<1>2. /\ buf.in \in {"chunk", "patch"} /\ buf.next \in {"chunk", "patch", "none"}
      /\ buf.in = "chunk" => buf.next = "patch"
      /\ buf.next = "patch" => (goal - left) + buf.end - ptr = taken - SlopBytes
      /\ buf.next = "chunk" => /\ (goal - left) + buf.end - ptr = taken - size
                               /\ buf.end = SlopBytes
      /\ buf.next # "none" => overall = Budget - taken
  BY DEF Typed, Placed, BufferInv, BufferFor, BaseOf, Pos, OverallInv
<1>3. Budget \in Int
  BY SlopSize, InputOK DEF Budget
<1>4. /\ CordBackUp \in Int /\ CordCopied \in Int
      /\ taken - CordBackUp + (left - CordCopied) = goal
  <2>1. CASE buf.in = "chunk"
    <3>1. CordBackUp = BytesAvailable /\ CordCopied = 0
      BY <2>1 DEF CordBackUp, CordCopied
    <3> QED
      BY <1>1, <1>2, <2>1, <3>1
  <2>2. CASE buf.in = "patch" /\ buf.next = "chunk" /\ BytesAvailable = SlopBytes
    <3>1. CordBackUp = size /\ CordCopied = 0
      BY <2>2 DEF CordBackUp, CordCopied
    <3> QED
      BY <1>1, <1>2, <2>2, <3>1
  <2>3. CASE buf.in = "patch" /\ buf.next = "chunk" /\ BytesAvailable # SlopBytes
    <3>1. CordBackUp = size - SlopBytes /\ CordCopied = BytesAvailable
      BY <2>3 DEF CordBackUp, CordCopied
    <3> QED
      BY <1>1, <1>2, <2>3, <3>1
  <2>4. CASE buf.in = "patch" /\ buf.next = "patch"
    <3>1. CordBackUp = 0 /\ CordCopied = BytesAvailable
      BY <2>4 DEF CordBackUp, CordCopied
    <3> QED
      BY <1>1, <1>2, <2>4, <3>1
  <2> QED
    BY <1>2, <2>1, <2>2, <2>3, <2>4
<1>5. overall = Budget - taken
  BY <1>2
<1> QED
  BY <1>1, <1>3, <1>4, <1>5

LEMMA StepReadCordFallback == ASSUME IInv, ReadCordFallback PROVE IInv'
<1>1. Typed /\ Placed /\ ControlInv
  BY Going DEF ReadCordFallback, Spanning
<1>2. pc = "cord" /\ UNCHANGED <<input, ended, goal, ends>> /\ UNCHANGED <<input, ended, hist>>
  BY DEF ReadCordFallback, hist
<1>3. PICK at, count, budget, newLimit :
        /\ newLimit = BytesUntilLimit - left /\ count = left - CordCopied
        /\ at = taken - CordBackUp + count /\ budget = overall + CordBackUp - count
  OBVIOUS
<1>4. PICK possible \in BOOLEAN :
        possible <=> /\ newLimit >= 0 /\ budget >= 0 /\ at <= input.length
                     /\ buf.in = "chunk" \/ buf.next # "none"
  OBVIOUS
<1>5. CASE ~possible
  <2>1. Fails
    BY <1>3, <1>4, <1>5 DEF ReadCordFallback
  <2> QED
    BY <1>2, <2>1, StepFails
<1>6. CASE possible
  <2>1. at = goal /\ budget = Budget - goal
    BY <1>1, <1>3, <1>4, <1>6, CordIsContinued
  <2>2. /\ ptr \in Int /\ buf.end \in Int /\ left \in Nat /\ SlopBytes \in Nat /\ goal \in Nat
        /\ limit \in Int /\ MaxCordBytesToCopy \in Nat /\ MaxCordBytesToCopy >= 2 * SlopBytes
        /\ input.length \in Nat /\ goal <= input.length /\ Budget \in Int /\ Budget >= goal
    <3>1. Budget \in Int
      BY <1>1, SlopSize, InputOK DEF Budget
    <3>2. goal \in Nat /\ input.length \in Nat
      BY <1>1, InputOK, AllIntegers
    <3>3. goal <= input.length /\ Budget >= goal
      BY <1>4, <1>6, <2>1, <3>1, <3>2
    <3> QED
      BY <1>1, <3>1, <3>2, <3>3, SlopSize, AllIntegers
  <2>3. /\ input.mode # "flat" /\ left <= goal /\ ended = "limit"
        /\ left > BytesAvailable \/ left > MaxCordBytesToCopy
        /\ input.finish > 0 => goal < input.finish
    BY <1>1, <1>2 DEF ControlInv
  <2>4. /\ limit' = newLimit - (buf'.end - ptr') /\ limitEnd' = buf'.end + Least(0, limit')
        /\ pc' = "loop" /\ left' = 0 /\ tokens' = tokens
    BY <1>3, <1>4, <1>6 DEF ReadCordFallback
  <2>5. /\ BufferInv' /\ BufferTyped' /\ OverallInv' /\ ptr' \in Nat
        /\ buf'.end - ptr' \in Int /\ buf'.end - ptr' >= - SlopBytes
    <3>1. Pos' = goal
      BY <1>2, <2>2, <2>4 DEF Pos
    <3>2. Budget' = Budget
      BY <1>2, <2>3 DEF Budget
    <3>3. CASE \E n \in 0 .. input.length - at :
                 /\ taken' = at + n /\ last' = n /\ overall' = budget - n
                 /\ buf' = Opened(at, n) /\ ptr' = OpenedPtr(at, n)
                 /\ UNCHANGED size
      <4>1. PICK n \in 0 .. input.length - at :
              /\ taken' = at + n /\ last' = n /\ overall' = budget - n
              /\ buf' = Opened(at, n) /\ ptr' = OpenedPtr(at, n)
              /\ UNCHANGED size
        BY <3>3
      <4>2. /\ n \in Nat /\ taken' = goal + n /\ taken' \in 0 .. input.length
            /\ buf' = Opened(goal, n) /\ ptr' = OpenedPtr(goal, n)
        BY <2>1, <2>2, <4>1
      <4>3. /\ BufferFor(input.mode, buf', taken', n, size', ptr', goal)
            /\ BytesFor(buf', taken', ptr', goal)
            /\ buf'.end \in Int /\ ptr' \in Nat /\ buf'.in \in {"chunk", "patch"}
            /\ buf'.next = "patch" /\ buf'.end - ptr' = n - SlopBytes
        <5>1. PICK b, p, tk, sz : b = buf' /\ p = ptr' /\ tk = taken' /\ sz = size'
          OBVIOUS
        <5>2. b = Opened(goal, n) /\ p = OpenedPtr(goal, n) /\ tk - goal = n /\ tk \in Int
          BY <2>2, <4>2, <5>1
        <5>3. /\ BufferFor(input.mode, b, tk, n, sz, p, goal) /\ BytesFor(b, tk, p, goal)
              /\ b.end \in Int /\ p \in Nat /\ b.in \in {"chunk", "patch"}
              /\ b.next = "patch" /\ b.end - p = n - SlopBytes
          <6>1. BufferFor(input.mode, b, tk, n, sz, p, goal)
            BY <2>2, <4>2, <5>2, OpenedOK
          <6>2. BytesFor(b, tk, p, goal)
            BY <2>2, <4>2, <5>2, OpenedOK
          <6> QED
            BY <2>2, <4>2, <5>2, <6>1, <6>2, OpenedShape
        <5> QED
          BY <5>1, <5>3
      <4>4. BufferInv'
        BY <1>2, <3>1, <4>1, <4>3 DEF BufferInv
      <4>5. overall' = Budget' - taken' /\ taken' - last' = goal /\ overall' \in Int
        BY <2>1, <2>2, <3>2, <4>1, <4>2
      <4>6. OverallInv'
        <5>1. input.mode = "bounded" => Budget = input.bound
          BY DEF Budget
        <5> QED
          BY <1>2, <2>2, <2>3, <4>5, <5>1 DEF OverallInv
      <4>7. BufferTyped'
        <5>1. size \in Nat
          BY <1>1, AllIntegers
        <5> QED
          BY <1>2, <4>1, <4>2, <4>3, <4>5, <5>1 DEF BufferTyped
      <4> QED
        BY <2>2, <4>2, <4>3, <4>4, <4>6, <4>7
    <3>4. CASE /\ at = input.length
               /\ taken' = at /\ last' = 0 /\ overall' = 0 /\ size' = 0
               /\ buf' = Closed /\ ptr' = 0
      <4>1. /\ BufferFor(input.mode, buf', taken', last', size', ptr', goal)
            /\ BytesFor(buf', taken', ptr', goal)
            /\ buf'.end = 0 /\ buf'.in = "patch" /\ buf'.next = "none"
        BY <2>1, <2>2, <3>4, ClosedOK
      <4>2. BufferInv'
        BY <1>2, <3>1, <4>1 DEF BufferInv
      <4>3. taken' = goal /\ taken' - last' = goal
        BY <2>1, <2>2, <3>4
      <4>4. OverallInv'
        <5>1. input.mode = "bounded" => Budget = input.bound
          BY DEF Budget
        <5> QED
          BY <1>2, <2>2, <2>3, <4>1, <4>3, <5>1 DEF OverallInv
      <4>5. BufferTyped'
        <5>1. taken' \in 0 .. input.length
          BY <2>2, <4>3
        <5> QED
          BY <1>2, <3>4, <4>1, <5>1 DEF BufferTyped
      <4> QED
        BY <2>2, <3>4, <4>1, <4>2, <4>4, <4>5
    <3> QED
      BY <1>3, <1>4, <1>6, <3>3, <3>4 DEF ReadCordFallback
  <2>6. PICK off \in Int : off = buf'.end - ptr' /\ off >= - SlopBytes
    BY <2>5
  <2>7. PICK b \in Int : b = goal + off
    BY <2>2, <2>6
  <2>8. PICK pos \in Int, base \in Int : pos = goal - left /\ base = pos + buf.end - ptr
    BY <2>2
  <2>9. pos = Pos /\ base = Base
    BY <2>8 DEF Pos, Base, BaseOf
  <2>10. ChainFor(input, base + limit - b, tokens, ends, b, pos + left)
    <3>1. b >= pos + left - SlopBytes
      BY <2>2, <2>6, <2>7, <2>8
    <3>2. b >= base \/ b >= SlopBytes
      <4>1. CASE left > BytesAvailable
        <5>1. left > buf.end + SlopBytes - ptr
          BY <4>1 DEF BytesAvailable
        <5> QED
          BY <2>2, <2>6, <2>7, <2>8, <5>1
      <4>2. CASE left > MaxCordBytesToCopy
        <5>1. left <= goal
          BY <2>3
        <5> QED
          BY <2>2, <2>6, <2>7, <2>8, <4>2, <5>1
      <4> QED
        BY <2>3, <4>1, <4>2
    <3>3. ChainFor(input, limit, tokens, ends, base, pos)
      BY <1>1, <2>9 DEF Placed, ChainInv
    <3>4. tokens \in Seq(Int) /\ ends \in Seq(Int)
      BY <1>1, AllIntegers
    <3> QED
      BY <2>2, <3>1, <3>2, <3>3, <3>4, ChainReopens
  <2>11. limit' = base + limit - b /\ limit' \in Int
    <3>1. newLimit = limit + buf.end - ptr - left
      BY <1>3, <2>2 DEF BytesUntilLimit
    <3> QED
      BY <2>2, <2>4, <2>6, <2>7, <2>8, <3>1
  <2>12. pos + left = goal /\ Pos' = goal /\ Base' = b
    <3>1. pos + left = goal /\ Pos' = goal
      BY <1>2, <2>2, <2>4, <2>8 DEF Pos
    <3>2. Base' = goal + buf'.end - ptr'
      BY <3>1 DEF Base, BaseOf
    <3>3. buf'.end \in Int /\ ptr' \in Int
      BY <2>5 DEF BufferTyped
    <3> QED
      BY <2>2, <2>6, <2>7, <3>1, <3>2, <3>3
  <2>13. ChainInv'
    BY <1>2, <2>4, <2>10, <2>11, <2>12 DEF ChainInv
  <2>14. limitEnd' \in Int
    BY <2>4, <2>5, <2>11 DEF BufferTyped, Least
  <2>15. Typed'
    BY <1>1, <1>2, <2>4, <2>5, <2>11, <2>14 DEF Typed, BufferTyped, Pcs
  <2>16. ControlInv'
    BY <1>2, <2>2, <2>3, <2>4 DEF ControlInv
  <2> QED
    BY <2>5, <2>13, <2>15, <2>16 DEF IInv, Placed
<1> QED
  BY <1>5, <1>6

-----------------------------------------------------------------------------
(* The invariant *)

LEMMA InitIInv == Init => IInv
<1> SUFFICES ASSUME Init PROVE IInv
  OBVIOUS
<1>1. /\ input \in Inputs /\ size = 0 /\ limitEnd = buf.end + Least(0, limit)
      /\ tokens = <<>> /\ ended = "limit" /\ pc = "loop" /\ left = 0 /\ goal = 0 /\ ends = <<>>
      /\ InitFlat \/ InitStream \/ InitNothing
  BY DEF Init
<1>2. /\ input.length \in Nat /\ input.length <= MaxLength
      /\ input.bound \in Nat /\ input.finish \in Nat
      /\ input.mode \in {"flat", "stream", "bounded", "coded"}
      /\ SlopBytes \in Nat /\ MaxInt \in Nat /\ MaxLength + 2 * SlopBytes < MaxInt
      /\ MaxLength \in Nat /\ SlopBytes >= 2
  <2>1. input.mode \in Modes /\ Modes \subseteq {"flat", "stream", "bounded", "coded"}
    BY <1>1, ConstantsAssumption DEF Inputs
  <2>2. /\ input.length \in 0 .. MaxLength /\ input.bound \in 0 .. MaxLength + 1
        /\ input.finish \in 0 .. MaxLength
    BY <1>1 DEF Inputs
  <2>3. input.mode \in {"flat", "stream", "bounded", "coded"}
    BY <2>1
  <2> QED
    BY <2>2, <2>3, SlopSize
<1>3. Pos = 0
  BY <1>1 DEF Pos
<1>4. ASSUME taken \in 0 .. input.length, last \in Nat, overall \in Int, limit \in Int,
             buf.in \in {"chunk", "patch"}, buf.next \in {"chunk", "patch", "none"},
             buf.end \in Int, ptr \in Int, BufferInv, OverallInv,
             TopFor(input, buf.end - ptr + limit, buf.end - ptr)
      PROVE  IInv
  <2>1. limitEnd \in Int
    BY <1>1, <1>4 DEF Least
  <2>2. Typed
    BY <1>1, <1>4, <2>1 DEF Typed, Pcs
  <2>3. Base = buf.end - ptr
    BY <1>3, <1>4 DEF Base, BaseOf
  <2>4. ChainInv
    BY <1>1, <1>4, <2>3 DEF ChainInv, ChainFor, OuterEnd
  <2>5. ControlInv
    BY <1>1 DEF ControlInv, Spanning
  <2> QED
    BY <1>4, <2>2, <2>4, <2>5 DEF IInv, Placed
<1>5. CASE InitFlat
  <2>1. /\ input.mode = "flat" /\ taken = input.length /\ last = 0 /\ overall = 0 /\ ptr = 0
        /\ buf = Flat(input.length)
        /\ limit = IF input.length > SlopBytes THEN SlopBytes ELSE 0
    BY <1>5 DEF InitFlat
  <2>2. OverallInv
    BY <1>2, <2>1 DEF OverallInv, Budget
  <2>3. CASE input.length > SlopBytes
    <3>1. buf = Chunk(input.length) /\ limit = SlopBytes
      BY <2>1, <2>3 DEF Flat
    <3>2. buf.in = "chunk" /\ buf.end = input.length - SlopBytes /\ buf.next = "patch"
      BY <3>1 DEF Chunk
    <3>3. BufferInv
      BY <1>2, <1>3, <2>1, <2>3, <3>2 DEF BufferInv, BufferFor, BytesFor, BaseOf, MemOf
    <3>4. TopFor(input, buf.end - ptr + limit, buf.end - ptr)
      BY <1>2, <2>1, <3>1, <3>2 DEF TopFor
    <3> QED
      BY <1>2, <1>4, <2>1, <2>2, <3>1, <3>2, <3>3, <3>4
  <2>4. CASE ~(input.length > SlopBytes)
    <3>1. /\ buf.in = "patch" /\ buf.end = input.length /\ buf.next = "none" /\ limit = 0
          /\ buf.patch = [i \in 0 .. 2 * SlopBytes - 1 |-> IF i < input.length THEN i ELSE Junk]
      BY <2>1, <2>4 DEF Flat, NoPatch
    <3>2. BytesFor(buf, taken, ptr, Pos)
      BY <1>2, <1>3, <2>1, <2>4, <3>1 DEF BytesFor, MemOf
    <3>3. BufferInv
      BY <1>1, <1>2, <1>3, <2>1, <2>4, <3>1, <3>2 DEF BufferInv, BufferFor, BaseOf
    <3>4. TopFor(input, buf.end - ptr + limit, buf.end - ptr)
      BY <1>2, <2>1, <3>1 DEF TopFor
    <3> QED
      BY <1>2, <1>4, <2>1, <2>2, <3>1, <3>3, <3>4
  <2> QED
    BY <2>3, <2>4
<1>6. CASE InitStream
  <2>1. PICK n \in 0 .. input.length :
          /\ taken = n /\ last = n
          /\ overall = (IF input.mode = "bounded" THEN input.bound ELSE MaxInt) - n
          /\ buf = Opened(0, n) /\ ptr = OpenedPtr(0, n)
          /\ limit = IF input.mode = "bounded" THEN input.bound - (buf.end - ptr)
                     ELSE IF n > SlopBytes THEN MaxInt - (n - SlopBytes) ELSE MaxInt
    BY <1>6 DEF InitStream
  <2>2. input.mode # "flat" /\ n \in Nat /\ n <= input.length
    BY <1>2, <1>6, <2>1 DEF InitStream
  <2>3. /\ buf.end \in Int /\ ptr \in Nat /\ buf.in \in {"chunk", "patch"}
        /\ buf.next = "patch" /\ buf.end - ptr = n - SlopBytes
    BY <2>1, <2>2, OpenedShape
  <2>4. BufferInv
    <3>1. PICK b, p, tk, sz : b = buf /\ p = ptr /\ tk = taken /\ sz = size
      OBVIOUS
    <3>2. b = Opened(0, n) /\ p = OpenedPtr(0, n) /\ tk - 0 = n /\ tk \in Int
      BY <2>1, <2>2, <3>1
    <3>3. BufferFor(input.mode, b, tk, n, sz, p, 0)
      BY <2>2, <3>2, OpenedOK
    <3>4. BytesFor(b, tk, p, 0)
      BY <2>2, <3>2, OpenedOK
    <3> QED
      BY <1>3, <2>1, <3>1, <3>3, <3>4 DEF BufferInv
  <2>5. OverallInv
    <3>1. overall = Budget - taken
      BY <2>1, <2>2 DEF Budget
    <3>2. taken - last = 0
      BY <2>1, <2>2
    <3> QED
      BY <1>2, <2>2, <3>1, <3>2 DEF OverallInv
  <2>6. overall \in Int /\ limit \in Int
    BY <1>2, <2>1, <2>2, <2>3
  <2>7. TopFor(input, buf.end - ptr + limit, buf.end - ptr)
    <3>1. PICK e : e = n - SlopBytes
      OBVIOUS
    <3>2. e \in Int /\ e <= MaxLength /\ e >= - SlopBytes
      BY <1>2, <2>2, <3>1
    <3>3. CASE input.mode = "bounded"
      <4>1. limit = input.bound - e
        BY <2>1, <2>3, <3>1, <3>3
      <4> QED
        BY <1>2, <2>3, <3>1, <3>2, <3>3, <4>1 DEF TopFor
    <3>4. CASE input.mode # "bounded"
      <4>1. /\ e + limit \in MaxInt - SlopBytes .. MaxInt
            /\ (e + limit) - e <= MaxInt
        <5>1. limit = IF n > SlopBytes THEN MaxInt - (n - SlopBytes) ELSE MaxInt
          BY <2>1, <3>4
        <5> QED
          BY <1>2, <2>2, <3>1, <3>2, <5>1
      <4> QED
        BY <1>2, <2>2, <2>3, <3>1, <3>4, <4>1 DEF TopFor
    <3> QED
      BY <3>3, <3>4
  <2> QED
    BY <1>4, <2>1, <2>2, <2>3, <2>4, <2>5, <2>6, <2>7
<1>7. CASE InitNothing
  <2>1. /\ input.mode # "flat" /\ input.length = 0 /\ taken = 0 /\ last = 0 /\ overall = 0
        /\ ptr = 0 /\ buf = Closed
        /\ limit = IF input.mode = "bounded" THEN input.bound ELSE MaxInt
    BY <1>7 DEF InitNothing
  <2>2. /\ BufferFor(input.mode, buf, 0, 0, 0, 0, 0) /\ BytesFor(buf, 0, 0, 0)
        /\ buf.end = 0 /\ buf.in = "patch" /\ buf.next = "none"
    BY <2>1, ClosedOK
  <2>3. BufferInv
    BY <1>1, <1>3, <2>1, <2>2 DEF BufferInv
  <2>4. OverallInv
    BY <1>2, <2>1, <2>2 DEF OverallInv
  <2>5. limit \in Int
    BY <1>2, <2>1
  <2>6. TopFor(input, buf.end - ptr + limit, buf.end - ptr)
    BY <1>2, <2>1, <2>2, <2>5 DEF TopFor
  <2> QED
    BY <1>2, <1>4, <2>1, <2>2, <2>3, <2>4, <2>5, <2>6
<1> QED
  BY <1>1, <1>5, <1>6, <1>7

LEMMA NextIInv == IInv /\ [Next]_vars => IInv'
<1> SUFFICES ASSUME IInv, [Next]_vars PROVE IInv'
  OBVIOUS
<1>1. CASE UNCHANGED vars
  <2>1. UNCHANGED <<input, taken, last, buf, size, overall, limit, limitEnd, tokens, ended,
                    ptr, pc, left, goal, ends>>
    BY <1>1 DEF vars, zcis, core, lims, hist
  <2>2. Typed'
    BY <2>1 DEF IInv, Typed
  <2>3. Running' => Running
    BY <2>1 DEF Running, Truncated
  <2>4. ControlInv => ControlInv'
    <3>1. BytesAvailable' = BytesAvailable
      BY <2>1 DEF BytesAvailable
    <3>2. limitEnd' = limitEnd /\ buf'.end = buf.end /\ Least(0, limit)' = Least(0, limit)
      BY <2>1
    <3> QED
      <4>1. /\ input' = input /\ limit' = limit /\ buf' = buf /\ ptr' = ptr /\ pc' = pc
            /\ left' = left /\ goal' = goal /\ ends' = ends /\ ended' = ended
            /\ taken' = taken /\ Pos' = Pos
        BY <2>1 DEF Pos
      <4>2. SUFFICES ASSUME ControlInv PROVE ControlInv'
        OBVIOUS
      <4>3. /\ pc' # "flip" => limitEnd' = buf'.end + Least(0, limit)'
            /\ pc' = "flip" => ptr' >= buf'.end /\ ptr' - buf'.end < limit'
            /\ pc' = "read" => ptr' < limitEnd'
        BY <3>2, <4>1, <4>2 DEF ControlInv
      <4>4. /\ pc' \in {"loop", "read", "flip", "ended"} => left' = 0
            /\ left' <= goal'
            /\ pc' # "ended" => ended' = "limit"
            /\ input'.finish > 0 /\ ended' # "tag" => goal' < input'.finish
            /\ pc' = "rest" => ends' # <<>> /\ goal' = ends'[1]
        BY <4>1, <4>2 DEF ControlInv
      <4>5. pc' = "ended" =>
              /\ ended' = "limit" => ptr' - buf'.end = limit'
              /\ ended' = "stream" => Pos' = taken'
              /\ ended' = "tag" => goal' = input'.finish /\ input'.finish > 0
        BY <4>1, <4>2 DEF ControlInv
      <4>6. /\ pc' = "fixed" => left' > BytesAvailable'
            /\ pc' = "cord" => /\ input'.mode # "flat"
                               /\ left' > BytesAvailable' \/ left' > MaxCordBytesToCopy
        BY <3>1, <4>1, <4>2 DEF ControlInv
      <4> QED
        BY <4>3, <4>4, <4>5, <4>6 DEF ControlInv
  <2>5. Placed => Placed'
    BY <2>1, Stays DEF zcis, core, hist
  <2> QED
    BY <2>2, <2>3, <2>4, <2>5 DEF IInv
<1>2. CASE Done
  BY <1>2, StepDone
<1>3. CASE Flip
  BY <1>3, StepFlip
<1>4. CASE PopLimit
  BY <1>4, StepPopLimit
<1>5. CASE Finish
  BY <1>5, StepFinish
<1>6. CASE EndTag
  BY <1>6, StepEndTag
<1>7. CASE \E n \in 1 .. SlopBytes : Token(n)
  BY <1>7, StepToken
<1>8. CASE \E h \in 1 .. MaxHeader, n \in 0 .. MaxLength :
             \/ \E raw \in BOOLEAN : Message(h, n, raw)
             \/ \E kind \in Kinds : Field(kind, h, n)
  BY <1>8, StepMessage, StepField
<1>9. CASE AppendSize
  BY <1>9, StepAppendSize
<1>10. CASE AppendUntilEnd
  BY <1>10, StepAppendUntilEnd
<1>11. CASE ReadPackedFixed
  BY <1>11, StepReadPackedFixed
<1>12. CASE ReadPackedVarint
  BY <1>12, StepReadPackedVarint
<1>13. CASE ReadCordFallback
  BY <1>13, StepReadCordFallback
<1> QED
  BY <1>1, <1>2, <1>3, <1>4, <1>5, <1>6, <1>7, <1>8, <1>9, <1>10, <1>11, <1>12, <1>13 DEF Next

(* Every step of the parser, wherever the chunks are cut, keeps pointers,  *)
(* limits, budget and loaded bytes consistent with one stream.             *)
THEOREM Inductive == Spec => []IInv
<1>1. Init => IInv
  BY InitIInv
<1>2. IInv /\ [Next]_vars => IInv'
  BY NextIInv
<1> QED
  BY <1>1, <1>2, PTL DEF Spec

LEMMA BuffersAreRight ==
    ASSUME Typed, Placed
    PROVE  BufferOK /\ BytesOK
<1>1. BufferOK
  <2>1. /\ ptr \in Int /\ buf.end \in Int /\ SlopBytes \in Nat /\ taken \in Nat /\ size \in Nat
        /\ BytesAvailable = buf.end + SlopBytes - ptr
    BY AllIntegers, SlopSize DEF BytesAvailable
  <2>2. BufferFor(input.mode, buf, taken, last, size, ptr, Pos)
    BY DEF Placed, BufferInv
  <2>3. Pos \in Int
    BY AllIntegers
  <2>4. /\ buf.next = "patch" => Pos + buf.end - ptr = taken - SlopBytes
        /\ buf.next = "chunk" => /\ buf.end = SlopBytes /\ size > SlopBytes
                                 /\ Pos + buf.end - ptr = taken - size
        /\ buf.next = "none" => Pos + buf.end - ptr = taken
        /\ buf.next \in {"patch", "chunk", "none"}
    BY <2>2 DEF BufferFor, BaseOf, Typed
  <2>5. BytesAvailable >= 0 /\ ptr >= 0
    BY <2>1, <2>2 DEF BufferFor
  <2>6. /\ buf.in = "patch" => buf.end \in 0 .. SlopBytes
        /\ buf.in = "chunk" => /\ buf.next = "patch"
                               /\ input.mode # "flat" => BytesAvailable <= last
    BY <2>1, <2>2 DEF BufferFor
  <2>7. buf.next = "patch" => Pos + BytesAvailable = taken
    BY <2>1, <2>3, <2>4
  <2> QED
    BY <2>4, <2>5, <2>6, <2>7 DEF BufferOK
<1>2. BytesOK
  BY DEF Placed, BufferInv, BytesFor, BytesOK, MemOf, Mem
<1> QED
  BY <1>1, <1>2

LEMMA LimitsAreRight ==
    ASSUME Typed, Placed, ControlInv
    PROVE  LimitOK
<1>1. /\ ptr \in Int /\ buf.end \in Int /\ limit \in Int /\ goal \in Nat /\ left \in Nat
      /\ SlopBytes \in Nat /\ SlopBytes >= 2 /\ MaxInt \in Nat /\ MaxLength \in Nat
      /\ MaxLength + 2 * SlopBytes < MaxInt
      /\ input.length \in Nat /\ input.bound \in Nat
      /\ input.length <= MaxLength /\ input.bound <= MaxLength + 1
  BY AllIntegers, SlopSize, InputOK
<1>2. /\ left <= goal /\ (pc # "flip" => limitEnd = buf.end + Least(0, limit))
      /\ ptr <= buf.end + SlopBytes
  BY DEF ControlInv, Placed, BufferInv, BufferFor
<1>3. PICK base, top : base = Base /\ top = base + limit
  OBVIOUS
<1>4. base = goal - left + buf.end - ptr /\ base \in Int /\ top \in Int /\ base >= - SlopBytes
  BY <1>1, <1>2, <1>3 DEF Base, BaseOf, Pos
<1>5. Pos + BytesUntilLimit = top
  BY <1>1, <1>3, <1>4 DEF BytesUntilLimit, Pos
<1>6. /\ Len(tokens) = Len(ends)
      /\ ends # <<>> => top = ends[1]
      /\ \A i \in 1 .. Len(ends) : ends[i] - base <= MaxLength + SlopBytes
      /\ ends = <<>> => TopFor(input, top, base)
  BY <1>3 DEF Placed, ChainInv, ChainFor, OuterEnd
<1>7. ends # <<>> => Pos + BytesUntilLimit = Head(ends)
  <2>1. ends # <<>> => Head(ends) = ends[1]
    BY AllIntegers
  <2> QED
    BY <1>5, <1>6, <2>1
<1>8. /\ ends = <<>> /\ input.mode = "flat" => top = input.length
      /\ ends = <<>> /\ input.mode = "bounded" => top = input.bound
      /\ ends = <<>> /\ input.mode \in {"stream", "coded"} =>
           top >= MaxInt - SlopBytes /\ top - base <= MaxInt
  BY <1>1, <1>6 DEF TopFor
<1>9. limit <= MaxInt
  <2>1. limit = top - base
    BY <1>1, <1>3, <1>4
  <2>2. CASE ends # <<>>
    <3>1. 1 \in 1 .. Len(ends)
      BY <2>2, AllIntegers
    <3>2. top - base <= MaxLength + SlopBytes
      BY <1>6, <2>2, <3>1
    <3> QED
      BY <1>1, <1>4, <2>1, <3>2
  <2>3. CASE ends = <<>>
    <3>1. \/ top = input.length \/ top = input.bound \/ top - base <= MaxInt
      BY <1>8, <2>3, InputOK
    <3> QED
      BY <1>1, <1>4, <2>1, <3>1
  <2> QED
    BY <2>2, <2>3
<1> QED
  BY <1>2, <1>5, <1>6, <1>7, <1>8, <1>9 DEF LimitOK

(* When a message of the stream has ended, nothing was loaded behind it that *)
(* BackUp cannot give back.                                                  *)
LEMMA BackUpIsRight ==
    ASSUME "bounded" \notin TagModes, Typed, Placed, ControlInv
    PROVE  BackUpOK
<1>1. /\ ptr \in Int /\ buf.end \in Int /\ limit \in Int /\ goal \in Nat /\ left \in Nat
      /\ SlopBytes \in Nat /\ SlopBytes >= 2 /\ MaxInt \in Nat /\ MaxLength \in Nat
      /\ MaxLength + 2 * SlopBytes < MaxInt /\ taken \in Nat /\ taken <= MaxLength
      /\ last \in Nat /\ size \in Nat /\ input.bound \in Nat /\ input.finish \in Nat
  BY SMTT(30), AllIntegers, SlopSize, InputOK
<1>2. ASSUME pc = "ended", tokens = <<>>, input.mode \in {"bounded", "coded"}
      PROVE  BackUpCount <= last
  <2>1. left = 0 /\ Pos = goal
    <3>1. left = 0
      BY <1>2 DEF ControlInv
    <3> QED
      BY <1>1, <3>1 DEF Pos
  <2>2. BackUpCount = taken - goal
    BY <2>1, BackUpIsBehind
  <2>3. taken - last <= goal
    <3>1. /\ input.mode = "bounded" => taken - last <= input.bound
          /\ input.mode = "coded" /\ input.finish > 0 => taken - last < input.finish
      BY DEF Placed, OverallInv
    <3>2. CASE ended = "stream"
      <4>1. goal = taken
        BY <1>2, <2>1, <3>2 DEF ControlInv
      <4> QED
        BY <1>1, <4>1
    <3>3. CASE ended = "tag"
      <4>1. goal = input.finish /\ input.finish > 0
        BY <1>2, <3>3 DEF ControlInv
      <4>2. input.mode # "bounded"
        BY <4>1 DEF Typed, Inputs
      <4> QED
        BY <1>1, <1>2, <3>1, <4>1, <4>2
    <3>4. CASE ended = "limit"
      <4>1. ptr - buf.end = limit
        BY <1>2, <3>4 DEF ControlInv
      <4>2. ends = <<>> /\ TopFor(input, Base + limit, Base)
        <5>1. Len(tokens) = Len(ends) /\ ends \in Seq(Int)
          BY AllIntegers DEF Placed, ChainInv, ChainFor
        <5>2. ends = <<>>
          BY <1>2, <5>1
        <5> QED
          BY <5>2 DEF Placed, ChainInv, ChainFor, OuterEnd
      <4>3. Base = goal + buf.end - ptr
        BY <2>1 DEF Base, BaseOf
      <4>4. Base + limit = goal
        BY <1>1, <4>1, <4>3
      <4>5. input.mode # "coded"
        <5>1. ptr <= buf.end + SlopBytes
          BY DEF Placed, BufferInv, BufferFor
        <5>2. goal + buf.end - ptr <= taken
          <6>1. \/ goal + buf.end - ptr = taken - SlopBytes
                \/ goal + buf.end - ptr = taken - size
                \/ goal + buf.end - ptr = taken
            BY <2>1 DEF Placed, BufferInv, BufferFor, BaseOf, Typed
          <6> QED
            BY <1>1, <6>1
        <5>3. input.mode = "coded" => goal >= MaxInt - SlopBytes
          BY <1>1, <4>2, <4>4 DEF TopFor
        <5> QED
          BY <1>1, <5>1, <5>2, <5>3
      <4>6. goal = input.bound
        BY <1>2, <4>2, <4>4, <4>5 DEF TopFor
      <4> QED
        BY <1>1, <1>2, <3>1, <4>5, <4>6
    <3> QED
      BY <3>2, <3>3, <3>4 DEF Typed
  <2> QED
    BY <1>1, <2>2, <2>3
<1>3. ASSUME pc = "cord", buf.next # "none" PROVE CordBackUp <= last
  <2>1. input.mode # "flat"
    BY <1>3 DEF ControlInv
  <2>2. /\ buf.in \in {"chunk", "patch"} /\ buf.next \in {"chunk", "patch"}
        /\ buf.in = "chunk" => buf.end + SlopBytes - ptr <= last
        /\ buf.next = "chunk" => last = size
    BY <1>3, <2>1 DEF Typed, Placed, BufferInv, BufferFor
  <2>3. CASE buf.in = "chunk"
    <3>1. CordBackUp = buf.end + SlopBytes - ptr
      BY <2>3 DEF CordBackUp, BytesAvailable
    <3> QED
      BY <2>2, <2>3, <3>1
  <2>4. CASE buf.in = "patch" /\ buf.next = "chunk"
    <3>1. CordBackUp \in {size, size - SlopBytes}
      BY <2>4 DEF CordBackUp
    <3> QED
      BY <1>1, <2>2, <2>4, <3>1
  <2>5. CASE buf.in = "patch" /\ buf.next = "patch"
    <3>1. CordBackUp = 0
      BY <2>5 DEF CordBackUp
    <3> QED
      BY <1>1, <3>1
  <2> QED
    BY <2>2, <2>3, <2>4, <2>5
<1> QED
  BY <1>2, <1>3 DEF BackUpOK

(* Aligned: the bytes in front of the parser are those of the stream, limits *)
(* stand for the ends of the messages, and no more is backed up than was     *)
(* read last; unless a tag may end a parse of a bounded number of bytes.     *)
THEOREM StaysAligned ==
    ASSUME "bounded" \notin TagModes
    PROVE  Spec => []Aligned
<1>1. IInv => Aligned
  BY BuffersAreRight, LimitsAreRight, BackUpIsRight DEF IInv, Running, Aligned
<1> QED
  BY <1>1, Inductive, PTL

-----------------------------------------------------------------------------
(* The promise of the stream *)

(* Why there is no next buffer *)
Exhausted ==
  \/ taken = input.length
  \/ input.mode = "bounded" /\ taken >= input.bound
  \/ input.mode = "coded" /\ input.finish > 0 /\ taken >= input.finish

EndInv ==
  /\ buf.next = "none" => Exhausted
  /\ input.finish > 0 => \A i \in 1 .. Len(ends) : ends[i] < input.finish
  /\ pc = "ended" =>
       /\ ended = "stream" => limit > 0 /\ ptr = buf.end /\ buf.next = "none"
       /\ ended = "tag" => tokens = <<>>
       /\ ended = "limit" /\ tokens = <<>> => ptr <= buf.end \/ buf.next # "none"

StreamInv == (Running => EndInv) /\ (Truncated => Stream!Malformed)

LEMMA StreamTop ==
    /\ input.mode = "flat" => Stream!Top = {input.length}
    /\ input.mode = "bounded" => Stream!Top = {input.bound}
    /\ input.mode \in {"stream", "coded"} => Stream!Top = {}
BY DEF Stream!Top

LEMMA StreamStays ==
    ASSUME pc \notin {"ok", "failed"}, pc' \notin {"ok", "failed"},
           UNCHANGED <<input, goal, ends>>
    PROVE  [Stream!Next]_(Stream!vars)
BY DEF Stream!vars

LEMMA StreamReads ==
    ASSUME pc \notin {"ok", "failed"}, pc' \notin {"ok", "failed"}, UNCHANGED <<input, ends>>,
           goal' > goal, Stream!TokenAt(goal)
    PROVE  [Stream!Next]_(Stream!vars)
BY DEF Stream!Next, Stream!Read

LEMMA StreamOpens ==
    ASSUME pc \notin {"ok", "failed"}, pc' \notin {"ok", "failed"}, UNCHANGED input,
           goal' > goal, Stream!TokenAt(goal), ends' # <<>>, Tail(ends') = ends,
           goal' <= Head(ends')
    PROVE  [Stream!Next]_(Stream!vars)
BY DEF Stream!Next, Stream!Open

LEMMA StreamCloses ==
    ASSUME pc \notin {"ok", "failed"}, pc' \notin {"ok", "failed"}, UNCHANGED <<input, goal>>,
           ends # <<>>, goal = Head(ends), ends' = Tail(ends)
    PROVE  [Stream!Next]_(Stream!vars)
BY DEF Stream!Next, Stream!Close

LEMMA StreamFails ==
    ASSUME pc \notin {"ok", "failed"}, pc' = "failed", UNCHANGED <<input, goal, ends>>,
           Stream!Malformed
    PROVE  [Stream!Next]_(Stream!vars)
BY DEF Stream!Next, Stream!Fail

(* A field that reaches over a limit *)
LEMMA PastTheLimit ==
    ASSUME Typed, Placed, ControlInv, goal > Pos + BytesUntilLimit
    PROVE  Stream!Malformed
<1>1. /\ goal \in Nat /\ SlopBytes \in Nat /\ MaxInt \in Nat /\ MaxLength \in Nat
      /\ MaxLength + 2 * SlopBytes < MaxInt
      /\ input.length \in Nat /\ input.length <= MaxLength
      /\ input.mode \in {"flat", "stream", "bounded", "coded"}
  BY AllIntegers, SlopSize, InputOK
<1>2. LimitOK
  BY LimitsAreRight
<1>3. PICK e : e = Pos + BytesUntilLimit
  OBVIOUS
<1>4. CASE ends # <<>>
  <2>1. e = ends[1] /\ 1 \in DOMAIN ends
    BY <1>2, <1>3, <1>4, AllIntegers DEF LimitOK
  <2>2. e \in Stream!Ends
    BY <2>1 DEF Stream!Ends
  <2> QED
    BY <1>3, <2>2 DEF Stream!Malformed
<1>5. CASE ends = <<>> /\ input.mode \in {"flat", "bounded"}
  <2>1. e \in Stream!Top
    BY <1>2, <1>3, <1>5, StreamTop DEF LimitOK
  <2>2. e \in Stream!Ends
    BY <2>1 DEF Stream!Ends
  <2> QED
    BY <1>3, <2>2 DEF Stream!Malformed
<1>6. CASE ends = <<>> /\ input.mode \in {"stream", "coded"}
  <2>1. e >= MaxInt - SlopBytes
    BY <1>2, <1>3, <1>6 DEF LimitOK
  <2>2. e \in Int
    <3>1. Pos \in Int /\ limit \in Int /\ buf.end \in Int /\ ptr \in Int
      BY AllIntegers
    <3> QED
      BY <1>3, <3>1 DEF BytesUntilLimit
  <2>3. goal > input.length
    BY <1>1, <1>3, <2>1, <2>2
  <2> QED
    BY <2>3 DEF Stream!Malformed
<1> QED
  BY <1>1, <1>4, <1>5, <1>6

(* A field that reaches over the end of the stream *)
LEMMA PastTheEnd ==
    ASSUME Typed, EndInv, buf.next = "none", goal > taken,
           input.finish > 0 => goal < input.finish
    PROVE  Stream!Malformed
<1>1. /\ goal \in Nat /\ taken \in Nat /\ input.length \in Nat /\ input.bound \in Nat
      /\ input.finish \in Nat
  BY AllIntegers, InputOK
<1>2. Exhausted
  BY DEF EndInv
<1>3. CASE taken = input.length
  BY <1>3 DEF Stream!Malformed
<1>4. CASE input.mode = "bounded" /\ taken >= input.bound
  <2>1. input.bound \in Stream!Ends
    BY <1>4, StreamTop DEF Stream!Ends
  <2>2. goal > input.bound
    BY <1>1, <1>4
  <2> QED
    BY <2>1, <2>2 DEF Stream!Malformed
<1>5. CASE input.mode = "coded" /\ input.finish > 0 /\ taken >= input.finish
  BY <1>1, <1>5
<1> QED
  BY <1>2, <1>3, <1>4, <1>5 DEF Exhausted

(* A message that ends behind the end of the stream *)
LEMMA LimitPastTheEnd ==
    ASSUME Typed, Placed, ControlInv, EndInv, buf.next = "none",
           Pos + BytesUntilLimit > taken, goal >= taken,
           input.finish > 0 => goal < input.finish,
           ends # <<>> \/ input.mode \in {"flat", "bounded"}
    PROVE  Stream!Malformed
<1>1. /\ goal \in Nat /\ taken \in Nat /\ input.length \in Nat /\ input.bound \in Nat
      /\ input.finish \in Nat
  BY AllIntegers, InputOK
<1>2. Exhausted
  BY DEF EndInv
<1>3. PICK e \in Int : e = Pos + BytesUntilLimit
  <2>1. Pos \in Int /\ limit \in Int /\ buf.end \in Int /\ ptr \in Int
    BY AllIntegers
  <2> QED
    BY <2>1 DEF BytesUntilLimit
<1>4. e \in Stream!Ends
  <2>1. LimitOK
    BY LimitsAreRight
  <2>2. CASE ends # <<>>
    <3>1. e = ends[1] /\ 1 \in DOMAIN ends
      BY <1>3, <2>1, <2>2, AllIntegers DEF LimitOK
    <3> QED
      BY <3>1 DEF Stream!Ends
  <2>3. CASE ends = <<>>
    <3>1. e \in Stream!Top
      BY <1>3, <2>1, <2>3, StreamTop DEF LimitOK
    <3> QED
      BY <3>1 DEF Stream!Ends
  <2> QED
    BY <2>2, <2>3
<1>5. CASE taken = input.length
  BY <1>3, <1>4, <1>5 DEF Stream!Malformed
<1>6. CASE input.mode = "bounded" /\ taken >= input.bound
  <2>1. input.bound \in Stream!Top
    BY <1>6, StreamTop
  <2>2. e > input.bound
    BY <1>1, <1>3, <1>6
  <2> QED
    BY <1>4, <2>1, <2>2 DEF Stream!Malformed
<1>7. CASE input.mode = "coded" /\ input.finish > 0 /\ taken >= input.finish
  BY <1>1, <1>7
<1> QED
  BY <1>2, <1>5, <1>6, <1>7 DEF Exhausted

(* Where there is a tag, there is a byte of the message. *)
LEMMA TagInside ==
    ASSUME Typed, Placed, ControlInv, pc = "read"
    PROVE  Stream!TokenAt(goal)
<1>1. /\ ptr \in Int /\ buf.end \in Int /\ limit \in Int /\ goal \in Nat /\ taken \in Nat
      /\ size \in Nat /\ SlopBytes \in Nat /\ SlopBytes >= 2 /\ input.length \in Nat
      /\ taken <= input.length /\ limitEnd \in Int
  BY AllIntegers, SlopSize, InputOK
<1>2. /\ ptr < buf.end /\ ptr < limitEnd /\ Pos = goal /\ limitEnd = buf.end + Least(0, limit)
      /\ input.finish > 0 => goal < input.finish
  BY BeforeTheEnd
<1>3. goal < input.length
  <2>1. \/ goal + buf.end - ptr = taken - SlopBytes
        \/ goal + buf.end - ptr = taken - size
        \/ goal + buf.end - ptr = taken
    BY <1>2 DEF Placed, BufferInv, BufferFor, BaseOf, Typed
  <2> QED
    BY <1>1, <1>2, <2>1
<1>4. goal < goal + BytesUntilLimit
  <2>1. ptr < buf.end + limit
    <3>1. limitEnd = IF 0 < limit THEN buf.end ELSE buf.end + limit
      BY <1>1, <1>2 DEF Least
    <3> QED
      BY <1>1, <1>2, <3>1
  <2> QED
    BY <1>1, <2>1 DEF BytesUntilLimit
<1>5. LimitOK
  BY LimitsAreRight
<1>6. ends # <<>> => goal < Head(ends)
  BY <1>2, <1>4, <1>5 DEF LimitOK
<1>7. ends = <<>> => \A e \in Stream!Top : goal < e
  BY <1>2, <1>4, <1>5, StreamTop, InputOK DEF LimitOK
<1> QED
  BY <1>2, <1>3, <1>6, <1>7 DEF Stream!TokenAt

(* The last buffer is the one behind which there is nothing to ask for. *)
LEMMA LastIsExhausted ==
    ASSUME Typed, Placed, NEW e, NextBuffer(e), UNCHANGED input,
           e => ParseEndsInSlopRegion, buf'.next = "none"
    PROVE  Exhausted'
<1>1. /\ ptr \in Int /\ buf.end \in Int /\ SlopBytes \in Nat /\ taken \in Nat /\ MaxInt \in Nat
      /\ MaxLength \in Nat /\ taken <= MaxLength /\ MaxLength + 2 * SlopBytes < MaxInt
      /\ input.length \in Nat /\ input.bound \in Nat /\ input.finish \in Nat /\ overall \in Int
      /\ input.mode \in {"flat", "stream", "bounded", "coded"}
  BY SMTT(30), AllIntegers, SlopSize, InputOK
<1>2. /\ buf.next = "patch" /\ taken' = taken
      /\ overall > 0 /\ ~e => taken = input.length
  BY DEF NextBuffer, Chunk
<1>3. /\ overall = Budget - taken /\ (input.mode = "flat" => taken = input.length)
      /\ BytesFor(buf, taken, ptr, Pos) /\ Pos + buf.end - ptr = taken - SlopBytes
  BY <1>2 DEF Placed, OverallInv, BufferInv, BufferFor, BaseOf
<1>4. CASE taken = input.length
  BY <1>2, <1>4 DEF Exhausted
<1>5. CASE e
  <2>1. input.mode = "coded" /\ input.finish > 0
    BY <1>5 DEF ParseEndsInSlopRegion, Tracking
  <2>2. PICK i \in ptr .. buf.end + SlopBytes - 1 : MemOf(buf, i) = input.finish - 1
    BY <1>5 DEF ParseEndsInSlopRegion, Mem, MemOf
  <2>3. Pos \in Int
    BY AllIntegers
  <2>4. Pos + (i - ptr) < taken
    BY <1>1, <1>3, <2>2, <2>3
  <2>5. input.finish - 1 = Pos + (i - ptr)
    BY <1>3, <2>2, <2>4 DEF BytesFor
  <2>6. taken >= input.finish
    BY <1>1, <2>2, <2>3, <2>4, <2>5
  <2> QED
    BY <1>2, <2>1, <2>6 DEF Exhausted
<1>6. CASE ~(overall > 0)
  <2>1. Budget <= taken
    <3>1. Budget \in Int
      BY <1>1 DEF Budget
    <3> QED
      BY <1>1, <1>3, <1>6, <3>1
  <2>2. input.mode \notin {"stream", "coded"}
    BY <1>1, <2>1 DEF Budget
  <2>3. input.mode = "bounded" => taken >= input.bound
    BY <1>1, <2>1 DEF Budget
  <2> QED
    BY <1>1, <1>2, <1>3, <2>2, <2>3 DEF Exhausted
<1> QED
  BY <1>2, <1>4, <1>5, <1>6

LEMMA EndStays ==
    ASSUME EndInv, UNCHANGED <<input, taken, buf, ends>>, pc' # "ended"
    PROVE  EndInv'
<1>1. /\ input' = input /\ taken' = taken /\ buf' = buf /\ ends' = ends
  OBVIOUS
<1>2. Exhausted => Exhausted'
  BY <1>1 DEF Exhausted
<1> QED
  BY <1>1, <1>2 DEF EndInv

LEMMA EndCrosses ==
    ASSUME Typed, Placed, EndInv, NextAdjusted, UNCHANGED <<input, ends>>, pc' # "ended"
    PROVE  EndInv'
<1>1. buf'.next = "none" => Exhausted'
  BY LastIsExhausted DEF NextAdjusted
<1> QED
  BY <1>1 DEF EndInv

Refines == StreamInv' /\ [Stream!Next]_(Stream!vars)

LEMMA GoingOn ==
    ASSUME IInv, StreamInv, pc \in {"loop", "read", "flip", "rest"} \cup Spanning
    PROVE  /\ Typed /\ Placed /\ ControlInv /\ EndInv
           /\ pc \notin {"ok", "failed", "ended"}
           /\ input.finish > 0 => goal < input.finish
<1>1. /\ Typed /\ Placed /\ ControlInv /\ pc \notin {"ok", "failed", "ended"}
  BY Going DEF Spanning
<1>2. EndInv
  BY <1>1 DEF StreamInv, Running, Truncated
<1> QED
  BY <1>1, <1>2 DEF ControlInv

LEMMA RefineDone == ASSUME IInv, StreamInv, Done PROVE Refines
<1>1. /\ Typed /\ Placed /\ ControlInv /\ EndInv /\ pc \notin {"ok", "failed", "ended"}
      /\ pc = "loop"
      /\ input.finish > 0 => goal < input.finish
  BY GoingOn DEF Done
<1>2. /\ ptr \in Int /\ buf.end \in Int /\ limit \in Int /\ limitEnd \in Int /\ taken \in Nat
      /\ goal \in Nat
  BY <1>1, AllIntegers
<1>3. /\ UNCHANGED <<input, taken, buf, limit, tokens, ended, ptr, left, goal, ends>>
      /\ pc' \in {"read", "ended", "failed", "flip"}
      /\ pc' = "ended" => ~(ptr - buf.end > 0 /\ buf.next = "none")
      /\ pc' = "failed" => \/ ptr - buf.end > limit
                           \/ ptr - buf.end > 0 /\ buf.next = "none"
  BY <1>2 DEF Done, zcis, core, lims, hist
<1>4. left = 0 /\ Pos = goal /\ ended = "limit"
  <2>1. left = 0 /\ ended = "limit"
    BY <1>1 DEF ControlInv
  <2> QED
    BY <1>2, <2>1 DEF Pos
<1>5. CASE pc' \in {"read", "flip"}
  <2>1. EndInv'
    BY <1>1, <1>3, <1>5, EndStays
  <2> QED
    BY <1>1, <1>3, <1>5, <2>1, StreamStays DEF Refines, StreamInv, Truncated
<1>6. CASE pc' = "ended"
  <2>1. EndInv'
    <3>1. ptr <= buf.end \/ buf.next # "none"
      BY <1>2, <1>3, <1>6
    <3>2. Exhausted => Exhausted'
      BY <1>3 DEF Exhausted
    <3> QED
      BY <1>1, <1>3, <1>4, <3>1, <3>2 DEF EndInv
  <2>2. ~Truncated'
    BY <1>3, <1>4 DEF Truncated
  <2> QED
    BY <1>1, <1>3, <1>6, <2>1, <2>2, StreamStays DEF Refines, StreamInv
<1>7. CASE pc' = "failed"
  <2>1. Stream!Malformed
    <3>1. CASE ptr - buf.end > limit
      <4>1. goal > goal + BytesUntilLimit
        BY <1>2, <3>1 DEF BytesUntilLimit
      <4> QED
        BY <1>1, <1>4, <4>1, PastTheLimit
    <3>2. CASE ptr - buf.end > 0 /\ buf.next = "none"
      <4>1. goal + buf.end - ptr = taken
        BY <1>1, <1>4, <3>2 DEF Placed, BufferInv, BufferFor, BaseOf
      <4>2. goal > taken
        BY <1>2, <3>2, <4>1
      <4> QED
        BY <1>1, <3>2, <4>2, PastTheEnd
    <3> QED
      BY <1>3, <1>7, <3>1, <3>2
  <2> QED
    BY <1>1, <1>3, <1>7, <2>1, StreamFails DEF Refines, StreamInv, Running, Truncated
<1> QED
  BY <1>3, <1>5, <1>6, <1>7

LEMMA RefineFlip == ASSUME IInv, StreamInv, Flip PROVE Refines
<1>1. /\ Typed /\ Placed /\ ControlInv /\ EndInv /\ pc \notin {"ok", "failed", "ended"}
      /\ pc = "flip"
      /\ input.finish > 0 => goal < input.finish
  BY GoingOn DEF Flip
<1>2. /\ ptr \in Int /\ buf.end \in Int /\ limit \in Int /\ taken \in Nat /\ goal \in Nat
  BY <1>1, AllIntegers
<1>3. UNCHANGED <<input, tokens, left, goal, ends>>
  BY DEF Flip, hist
<1>4. left = 0 /\ Pos = goal /\ ptr >= buf.end /\ ptr - buf.end < limit
  <2>1. left = 0 /\ ptr >= buf.end /\ ptr - buf.end < limit
    BY <1>1 DEF ControlInv
  <2> QED
    BY <1>2, <2>1 DEF Pos
<1>5. buf.next = "none" => goal + buf.end - ptr = taken
  BY <1>1, <1>4 DEF Placed, BufferInv, BufferFor, BaseOf
<1>6. CASE NextBuffer(ParseEndsInSlopRegion) /\ pc' \in {"read", "flip"}
  <2>1. PICK e : e = ParseEndsInSlopRegion
    OBVIOUS
  <2>2. NextBuffer(e)
    BY <1>6, <2>1
  <2>3. buf'.next = "none" => Exhausted'
    BY <1>1, <1>3, <2>1, <2>2, LastIsExhausted
  <2>4. EndInv'
    BY <1>1, <1>3, <1>6, <2>3 DEF EndInv
  <2> QED
    BY <1>1, <1>3, <1>6, <2>4, StreamStays DEF Refines, StreamInv, Truncated
<1>7. CASE buf.next = "none" /\ ptr - buf.end # 0 /\ pc' = "failed"
  <2>1. goal > taken
    <3>1. goal + buf.end - ptr = taken /\ ptr >= buf.end /\ ptr - buf.end # 0
      BY <1>4, <1>5, <1>7
    <3> QED
      BY <1>2, <3>1
  <2>2. Stream!Malformed
    BY <1>1, <1>7, <2>1, PastTheEnd
  <2> QED
    BY <1>1, <1>3, <1>7, <2>2, StreamFails DEF Refines, StreamInv, Running, Truncated
<1>8. CASE /\ buf.next = "none" /\ ptr - buf.end = 0 /\ pc' = "ended" /\ ended' = "stream"
           /\ UNCHANGED <<zcis, core, limit, ptr>>
  <2>1. goal = taken /\ ptr = buf.end /\ limit > 0
    BY <1>2, <1>4, <1>5, <1>8
  <2>2. UNCHANGED <<taken, buf, limit, ptr>>
    BY <1>8 DEF zcis, core
  <2>3. EndInv'
    <3>1. Exhausted => Exhausted'
      BY <1>3, <2>2 DEF Exhausted
    <3> QED
      BY <1>1, <1>3, <1>8, <2>1, <2>2, <3>1 DEF EndInv
  <2>4. Truncated' => Stream!Malformed
    <3> SUFFICES ASSUME tokens # <<>> PROVE Stream!Malformed
      BY <1>3 DEF Truncated
    <3>1. ends # <<>>
      <4>1. Len(tokens) = Len(ends)
        BY <1>1 DEF Placed, ChainInv, ChainFor
      <4> QED
        BY <1>1, <4>1, AllIntegers
    <3>2. Pos + BytesUntilLimit > taken
      BY <1>2, <1>4, <2>1 DEF BytesUntilLimit
    <3>3. goal >= taken
      BY <1>2, <2>1
    <3> QED
      BY <1>1, <1>8, <3>1, <3>2, <3>3, LimitPastTheEnd
  <2>5. Stream!Malformed => Stream!Malformed'
    BY <1>3 DEF Stream!Malformed, Stream!Ends, Stream!Top, Stream!TokenAt
  <2> QED
    BY <1>1, <1>3, <1>8, <2>3, <2>4, <2>5, StreamStays DEF Refines, StreamInv
<1> QED
  <2>1. \/ NextBuffer(ParseEndsInSlopRegion) /\ pc' \in {"read", "flip"}
        \/ buf.next = "none" /\ ptr - buf.end # 0 /\ pc' = "failed"
        \/ /\ buf.next = "none" /\ ptr - buf.end = 0 /\ pc' = "ended" /\ ended' = "stream"
           /\ UNCHANGED <<zcis, core, limit, ptr>>
    BY DEF Flip
  <2> QED
    BY <1>6, <1>7, <1>8, <2>1

LEMMA RefinePopLimit == ASSUME IInv, StreamInv, PopLimit PROVE Refines
<1>1. /\ Typed /\ pc = "ended" /\ tokens # <<>> /\ UNCHANGED <<input, goal>>
      /\ UNCHANGED <<zcis, core>>
      /\ \/ ended = "limit" /\ pc' = "loop" /\ ends' = Tail(ends)
         \/ ended # "limit" /\ pc' = "failed" /\ ends' = ends
  BY DEF IInv, PopLimit
<1>2. CASE ended = "limit" /\ pc' = "loop" /\ ends' = Tail(ends)
  <2>1. Placed /\ ControlInv /\ EndInv
    BY <1>1, <1>2 DEF IInv, StreamInv, Running, Truncated
  <2>2. /\ ptr \in Int /\ buf.end \in Int /\ limit \in Int /\ goal \in Nat
    BY <1>1, AllIntegers
  <2>3. /\ ends # <<>> /\ goal = Head(ends)
    <3>1. Len(tokens) = Len(ends)
      BY <2>1 DEF Placed, ChainInv, ChainFor
    <3>2. ends # <<>>
      BY <1>1, <3>1, AllIntegers
    <3>3. goal + BytesUntilLimit = Head(ends)
      <4>1. left = 0
        BY <1>1, <2>1 DEF ControlInv
      <4>2. Pos = goal
        BY <2>2, <4>1 DEF Pos
      <4> QED
        BY <1>1, <2>1, <3>2, <4>2, LimitsAreRight DEF LimitOK
    <3>4. BytesUntilLimit = 0
      <4>1. ptr - buf.end = limit
        BY <1>1, <1>2, <2>1 DEF ControlInv
      <4> QED
        BY <2>2, <4>1 DEF BytesUntilLimit
    <3> QED
      BY <2>2, <3>2, <3>3, <3>4
  <2>4. EndInv'
    <3>1. /\ UNCHANGED <<input, taken, buf>> /\ (Exhausted => Exhausted')
      BY <1>1 DEF zcis, core, Exhausted
    <3>2. input.finish > 0 => \A i \in 1 .. Len(ends') : ends'[i] < input.finish
      <4> SUFFICES ASSUME input.finish > 0, NEW i \in 1 .. Len(ends')
                   PROVE  ends'[i] < input.finish
        OBVIOUS
      <4>1. PICK es \in Seq(Int) : es = ends
        BY <1>1, AllIntegers
      <4>2. es # <<>> /\ ends' = Tail(es)
        BY <1>2, <2>3, <4>1
      <4>3. i + 1 \in 1 .. Len(es) /\ ends'[i] = es[i + 1]
        BY <4>1, <4>2
      <4>4. PICK j : j = i + 1
        OBVIOUS
      <4>5. ends[j] < input.finish
        BY <2>1, <4>1, <4>3, <4>4 DEF EndInv
      <4> QED
        BY <4>1, <4>3, <4>4, <4>5
    <3> QED
      BY <1>2, <2>1, <3>1, <3>2 DEF EndInv
  <2> QED
    BY <1>1, <1>2, <2>3, <2>4, StreamCloses DEF Refines, StreamInv, Truncated
<1>3. CASE ended # "limit" /\ pc' = "failed" /\ ends' = ends
  <2>1. ended = "stream"
    <3>1. CASE ended = "tag"
      <4>1. EndInv
        BY <1>1, <3>1 DEF StreamInv, Running, Truncated
      <4> QED
        BY <1>1, <3>1, <4>1 DEF EndInv
    <3> QED
      BY <1>1, <1>3, <3>1 DEF Typed
  <2>2. Stream!Malformed
    BY <1>1, <2>1 DEF StreamInv, Truncated
  <2> QED
    BY <1>1, <1>3, <2>2, StreamFails DEF Refines, StreamInv, Running, Truncated
<1> QED
  BY <1>1, <1>2, <1>3

LEMMA RefineEndTag == ASSUME IInv, StreamInv, EndTag PROVE Refines
<1>1. /\ Typed /\ Placed /\ ControlInv /\ EndInv /\ pc \notin {"ok", "failed", "ended"}
      /\ pc = "read"
  BY GoingOn DEF EndTag
<1>2. /\ input.finish > 0 /\ goal = input.finish - 1 /\ goal' = goal + 1
      /\ ended' = "tag" /\ pc' = "ended"
      /\ UNCHANGED <<input, taken, buf, limit, tokens, ends>>
  BY DEF EndTag, zcis, core, lims
<1>3. Stream!TokenAt(goal)
  BY <1>1, TagInside
<1>4. goal \in Nat /\ input.finish \in Nat /\ ends \in Seq(Int) /\ tokens \in Seq(Int)
  BY <1>1, AllIntegers, InputOK
<1>5. ends = <<>>
  <2> SUFFICES ASSUME ends # <<>> PROVE FALSE
    OBVIOUS
  <2>1. 1 \in 1 .. Len(ends) /\ Head(ends) = ends[1] /\ ends[1] \in Int
    BY <1>4
  <2>2. ends[1] < input.finish /\ goal < ends[1]
    BY <1>1, <1>2, <1>3, <2>1 DEF EndInv, Stream!TokenAt
  <2>3. goal \in Int /\ input.finish \in Int /\ ends[1] \in Int
    BY <1>4, <2>1
  <2> QED
    BY <1>2, <2>2, <2>3
<1>6. tokens = <<>>
  <2>1. Len(tokens) = Len(ends)
    BY <1>1 DEF Placed, ChainInv, ChainFor
  <2> QED
    BY <1>4, <1>5, <2>1
<1>7. EndInv'
  <2>1. Exhausted => Exhausted'
    BY <1>2 DEF Exhausted
  <2> QED
    BY <1>1, <1>2, <1>6, <2>1 DEF EndInv
<1>8. goal' > goal
  BY <1>2, <1>4
<1> QED
  BY <1>1, <1>2, <1>3, <1>7, <1>8, StreamReads DEF Refines, StreamInv, Truncated

LEMMA RefineToken ==
    ASSUME IInv, StreamInv, NEW n \in 1 .. SlopBytes, Token(n) PROVE Refines
<1>1. /\ Typed /\ Placed /\ ControlInv /\ EndInv /\ pc \notin {"ok", "failed", "ended"}
      /\ pc = "read"
  BY GoingOn DEF Token
<1>2. /\ goal' = goal + n /\ pc' = "loop" /\ UNCHANGED <<input, taken, buf, ends>>
  BY DEF Token, zcis, core
<1>3. Stream!TokenAt(goal)
  BY <1>1, TagInside
<1>4. goal' > goal
  BY <1>1, <1>2, AllIntegers, SlopSize
<1>5. EndInv'
  BY <1>1, <1>2, EndStays
<1> QED
  BY <1>1, <1>2, <1>3, <1>4, <1>5, StreamReads DEF Refines, StreamInv, Truncated

LEMMA RefineField ==
    ASSUME IInv, StreamInv, NEW kind \in Kinds, NEW h \in 1 .. MaxHeader,
           NEW n \in 0 .. MaxLength, Field(kind, h, n)
    PROVE  Refines
<1>1. /\ Typed /\ Placed /\ ControlInv /\ EndInv /\ pc \notin {"ok", "failed", "ended"}
      /\ pc = "read"
  BY GoingOn DEF Field
<1>2. /\ goal' = goal + h + n /\ pc' \in {"loop"} \cup Spanning
      /\ UNCHANGED <<input, taken, buf, ends>>
  BY DEF Field, zcis, core, Spanning, Kinds
<1>3. Stream!TokenAt(goal)
  BY <1>1, TagInside
<1>4. goal' > goal
  <2>1. goal \in Nat /\ h \in Nat /\ h > 0 /\ n \in Nat
    BY <1>1, AllIntegers, SlopSize
  <2> QED
    BY <1>2, <2>1
<1>5. pc' \notin {"ok", "failed", "ended"}
  BY <1>2 DEF Spanning
<1>6. EndInv'
  BY <1>1, <1>2, <1>5, EndStays
<1> QED
  BY <1>1, <1>2, <1>3, <1>4, <1>5, <1>6, StreamReads DEF Refines, StreamInv, Truncated

LEMMA RefineMessage ==
    ASSUME IInv, StreamInv, NEW h \in 1 .. MaxHeader, NEW n \in 0 .. MaxLength,
           NEW raw \in BOOLEAN, Message(h, n, raw)
    PROVE  Refines
<1>1. /\ Typed /\ Placed /\ ControlInv /\ EndInv /\ pc \notin {"ok", "failed", "ended"}
      /\ pc = "read"
  BY GoingOn DEF Message
<1>2. /\ UNCHANGED <<input, taken, buf>>
      /\ input.finish > 0 => goal + (h + n) < input.finish
  BY DEF Message, Fits, zcis, core
<1>3. Stream!TokenAt(goal)
  BY <1>1, TagInside
<1>4. goal \in Nat /\ h \in Nat /\ h > 0 /\ n \in Nat /\ SlopBytes \in Nat /\ input.finish \in Nat
  BY <1>1, AllIntegers, SlopSize, InputOK
<1>5. CASE Len(tokens) = MaxDepth
  <2>1. pc' = "failed" /\ UNCHANGED <<goal, ends>>
    BY <1>5 DEF Message, hist
  <2>2. Len(tokens) = Len(ends)
    BY <1>1 DEF Placed, ChainInv, ChainFor
  <2>3. Stream!Malformed
    BY <1>3, <1>5, <2>2 DEF Stream!Malformed
  <2> QED
    BY <1>1, <1>2, <2>1, <2>3, StreamFails DEF Refines, StreamInv, Running, Truncated
<1>6. CASE Len(tokens) # MaxDepth
  <2>1. /\ ends' = <<goal + h + n>> \o ends /\ pc' \in {"rest", "loop"}
        /\ goal' \in {goal + h + n, goal + h}
    BY <1>6 DEF Message
  <2>2. PICK end \in Int : end = goal + h + n
    BY <1>4
  <2>3. PICK es \in Seq(Int) : es = ends
    BY <1>1, AllIntegers
  <2>4. ends' = <<end>> \o es
    BY <2>1, <2>2, <2>3
  <2>5. /\ ends' # <<>> /\ Tail(ends') = es /\ Head(ends') = end
    BY <2>2, <2>3, <2>4
  <2>6. /\ Len(ends') = Len(es) + 1
        /\ \A i \in 1 .. Len(es) + 1 : ends'[i] = IF i = 1 THEN end ELSE es[i - 1]
    BY <2>2, <2>3, <2>4
  <2>7. goal' > goal /\ goal' <= end
    BY <1>4, <2>1, <2>2
  <2>8. EndInv'
    <3>1. input.finish > 0 => \A i \in 1 .. Len(ends') : ends'[i] < input.finish
      <4> SUFFICES ASSUME input.finish > 0, NEW i \in 1 .. Len(ends')
                   PROVE  ends'[i] < input.finish
        OBVIOUS
      <4>1. end < input.finish
        BY <1>2, <1>4, <2>2
      <4>2. CASE i = 1
        BY <2>6, <4>1, <4>2
      <4>3. CASE i # 1
        <5>1. i - 1 \in 1 .. Len(es) /\ ends'[i] = es[i - 1]
          BY <2>3, <2>6, <4>3
        <5>2. PICK j : j = i - 1
          OBVIOUS
        <5>3. es[j] < input.finish
          BY <1>1, <2>3, <5>1, <5>2 DEF EndInv
        <5> QED
          BY <5>1, <5>2, <5>3
      <4> QED
        BY <4>2, <4>3
    <3>2. Exhausted => Exhausted'
      BY <1>2 DEF Exhausted
    <3> QED
      BY <1>1, <1>2, <2>1, <3>1, <3>2 DEF EndInv
  <2>9. [Stream!Next]_(Stream!vars)
    BY <1>1, <1>2, <1>3, <2>1, <2>3, <2>5, <2>7, StreamOpens
  <2> QED
    BY <2>1, <2>8, <2>9 DEF Refines, StreamInv, Truncated
<1> QED
  BY <1>5, <1>6

LEMMA StreamFinishes ==
    ASSUME pc \notin {"ok", "failed"}, pc' = "ok", UNCHANGED <<input, goal, ends>>,
           ends = <<>>, goal <= input.length,
           \/ goal \in Stream!Top
           \/ input.mode \in {"stream", "coded"} /\ goal = input.length
           \/ input.mode = "coded" /\ goal = input.finish /\ goal # 0,
           input.mode \in {"bounded", "coded"} => taken' = goal
    PROVE  [Stream!Next]_(Stream!vars)
BY DEF Stream!Next, Stream!Finish

(* Where a message may end: at its limit, at the end of the stream, at a tag *)
LEMMA EndsWell ==
    ASSUME Typed, Placed, ControlInv, EndInv, pc = "ended", tokens = <<>>
    PROVE  /\ ends = <<>> /\ Pos = goal
           /\ ended = "limit" => /\ input.mode \in {"flat", "bounded"}
                                 /\ goal \in Stream!Top /\ goal <= taken
           /\ ended = "stream" =>
                /\ goal = taken /\ input.mode # "flat"
                /\ input.mode \in {"stream", "coded"} => goal = input.length
                /\ input.mode = "bounded" => Stream!Malformed
           /\ ended = "tag" => /\ goal = input.finish /\ goal > 0
                               /\ input.mode # "coded" => Stream!Malformed
                               /\ input.mode = "coded" => goal <= taken /\ ~IsExceedingLimit
<1>1. /\ ptr \in Int /\ buf.end \in Int /\ limit \in Int /\ goal \in Nat /\ SlopBytes \in Nat
      /\ MaxInt \in Nat /\ MaxLength \in Nat /\ MaxLength + 2 * SlopBytes < MaxInt
      /\ taken \in Nat /\ taken <= MaxLength /\ size \in Nat /\ limitEnd \in Int
      /\ input.finish \in Nat /\ input.length \in Nat /\ input.bound \in Nat
      /\ SlopBytes >= 2 /\ taken <= input.length
  BY AllIntegers, SlopSize, InputOK
<1>2. Pos = goal
  <2>1. left = 0
    BY DEF ControlInv
  <2> QED
    BY <1>1, <2>1 DEF Pos
<1>3. ends = <<>>
  <2>1. Len(tokens) = Len(ends)
    BY DEF Placed, ChainInv, ChainFor
  <2> QED
    BY <2>1, AllIntegers
<1>4. PICK top \in Int : top = goal + BytesUntilLimit
  BY <1>1 DEF BytesUntilLimit
<1>5. top = goal + limit + buf.end - ptr
  BY <1>1, <1>4 DEF BytesUntilLimit
<1>6. /\ input.mode = "flat" => top = input.length
      /\ input.mode = "bounded" => top = input.bound
      /\ input.mode \in {"stream", "coded"} => top >= MaxInt - SlopBytes
  BY <1>2, <1>3, <1>4, LimitsAreRight DEF LimitOK
<1>7. /\ ptr <= buf.end + SlopBytes
      /\ buf.next = "patch" => goal + buf.end - ptr = taken - SlopBytes
      /\ buf.next = "chunk" => goal + buf.end - ptr = taken - size /\ size > SlopBytes
      /\ buf.next = "none" => goal + buf.end - ptr = taken
      /\ buf.next \in {"patch", "chunk", "none"}
  BY <1>2 DEF Typed, Placed, BufferInv, BufferFor, BaseOf
<1>8. goal + buf.end - ptr <= taken
  BY <1>1, <1>7
<1>9. input.mode \in {"stream", "coded"} => limit > SlopBytes
  <2> SUFFICES ASSUME input.mode \in {"stream", "coded"} PROVE limit > SlopBytes
    OBVIOUS
  <2>1. top >= MaxInt - SlopBytes
    BY <1>6
  <2> QED
    BY <1>1, <1>5, <1>8, <2>1
<1>10. ASSUME ended = "limit"
       PROVE  input.mode \in {"flat", "bounded"} /\ goal \in Stream!Top /\ goal <= taken
  <2>1. ptr - buf.end = limit /\ (ptr <= buf.end \/ buf.next # "none")
    BY <1>10 DEF ControlInv, EndInv
  <2>2. input.mode \notin {"stream", "coded"}
    BY <1>1, <1>7, <1>9, <2>1
  <2>3. goal = top
    BY <1>1, <1>5, <2>1
  <2>4. goal <= taken
    <3>1. CASE ptr <= buf.end
      BY <1>1, <1>8, <3>1
    <3>2. CASE buf.next # "none"
      BY <1>1, <1>7, <3>2
    <3> QED
      BY <2>1, <3>1, <3>2
  <2> QED
    BY <1>6, <2>2, <2>3, <2>4, StreamTop, InputOK
<1>11. ASSUME ended = "stream"
       PROVE  /\ goal = taken /\ input.mode # "flat"
              /\ input.mode \in {"stream", "coded"} => goal = input.length
              /\ input.mode = "bounded" => Stream!Malformed
  <2>1. goal = taken /\ limit > 0 /\ ptr = buf.end /\ buf.next = "none"
    BY <1>2, <1>11 DEF ControlInv, EndInv
  <2>2. top > taken
    BY <1>1, <1>5, <2>1
  <2>3. input.mode # "flat"
    BY <1>1, <1>6, <2>2 DEF Placed, OverallInv
  <2>4. input.finish > 0 => goal < input.finish
    BY <1>11 DEF ControlInv
  <2>5. input.mode \in {"stream", "coded"} => goal = input.length
    <3>1. Exhausted
      BY <2>1 DEF EndInv
    <3> QED
      BY <1>1, <2>1, <2>4, <3>1 DEF Exhausted
  <2>6. input.mode = "bounded" => Stream!Malformed
    BY <1>1, <1>2, <1>4, <2>1, <2>2, <2>4, LimitPastTheEnd
  <2> QED
    BY <2>1, <2>3, <2>5, <2>6
<1>12. ASSUME ended = "tag"
       PROVE  /\ goal = input.finish /\ goal > 0
              /\ input.mode # "coded" => Stream!Malformed
              /\ input.mode = "coded" => goal <= taken /\ ~IsExceedingLimit
  <2>1. goal = input.finish /\ goal > 0
    BY <1>12 DEF ControlInv
  <2>2. input.mode # "coded" => Stream!Malformed
    BY <2>1 DEF Stream!Malformed
  <2>3. ASSUME input.mode = "coded" PROVE goal <= taken /\ ~IsExceedingLimit
    <3>1. goal <= taken
      <4>1. CASE buf.next = "none"
        <5>1. Exhausted /\ input.finish > 0
          BY <1>1, <2>1, <4>1 DEF EndInv
        <5>2. taken = input.length \/ taken >= input.finish
          BY <2>3, <5>1 DEF Exhausted
        <5>3. input.finish <= input.length
          BY InputOK
        <5> QED
          BY <1>1, <2>1, <5>2, <5>3
      <4>2. CASE buf.next # "none"
        BY <1>1, <1>7, <4>2
      <4> QED
        BY <4>1, <4>2
    <3>2. limit > SlopBytes
      BY <1>9, <2>3
    <3>3. ~(ptr - buf.end > limit)
      BY <1>1, <1>7, <3>2
    <3>4. limitEnd = buf.end
      BY <1>1, <3>2 DEF ControlInv, Least
    <3>5. ~(ptr > buf.end /\ buf.next = "none")
      BY <1>1, <1>7, <3>1
    <3> QED
      BY <3>1, <3>3, <3>4, <3>5 DEF IsExceedingLimit
  <2> QED
    BY <2>1, <2>2, <2>3
<1> QED
  BY <1>2, <1>3, <1>10, <1>11, <1>12

LEMMA RefineFinish == ASSUME IInv, StreamInv, Finish PROVE Refines
<1>1. /\ Typed /\ Placed /\ ControlInv /\ EndInv /\ pc = "ended" /\ tokens = <<>>
  BY DEF IInv, StreamInv, Running, Truncated, Finish
<1>2. /\ pc' \in {"ok", "failed"} /\ UNCHANGED <<input, goal, ends>>
      /\ pc' = "ok" <=> \/ input.mode \in {"flat", "bounded"} /\ ended = "limit"
                        \/ input.mode = "stream" /\ ended = "stream"
                        \/ input.mode = "coded" /\ (ended = "stream" \/ ~IsExceedingLimit)
      /\ input.mode \in {"bounded", "coded"} =>
           taken' = taken - IF BackUpCount > 0 THEN BackUpCount ELSE 0
  BY <1>1, InputOK DEF Finish, hist
<1>3. StreamInv'
  BY <1>2 DEF StreamInv, Running, Truncated
<1>4. ended \in {"limit", "stream", "tag"} /\ input.mode \in {"flat", "stream", "bounded", "coded"}
  BY <1>1, InputOK DEF Typed
<1>5. CASE pc' = "ok"
  <2>1. /\ ends = <<>> /\ goal <= taken /\ taken \in Nat /\ goal \in Nat /\ taken <= input.length
        /\ BackUpCount = taken - goal /\ input.length \in Nat
    BY <1>1, <1>2, <1>4, <1>5, EndsWell, BackUpIsBehind, AllIntegers, InputOK
  <2>2. input.mode \in {"bounded", "coded"} => taken' = goal
    BY <1>2, <2>1
  <2>3. goal <= input.length
    BY <2>1
  <2>4. \/ goal \in Stream!Top
        \/ input.mode \in {"stream", "coded"} /\ goal = input.length
        \/ input.mode = "coded" /\ goal = input.finish /\ goal # 0
    BY <1>1, <1>2, <1>4, <1>5, EndsWell
  <2>5. [Stream!Next]_(Stream!vars)
    BY <1>1, <1>2, <1>5, <2>1, <2>2, <2>3, <2>4, StreamFinishes
  <2> QED
    BY <1>3, <2>5 DEF Refines
<1>6. CASE pc' = "failed"
  <2>1. Stream!Malformed
    BY <1>1, <1>2, <1>4, <1>6, EndsWell
  <2> QED
    BY <1>1, <1>2, <1>3, <1>6, <2>1, StreamFails DEF Refines
<1> QED
  BY <1>2, <1>5, <1>6

(* A read over several buffers stops where the stream or the message does. *)
LEMMA ReadFails ==
    ASSUME Typed, Placed, ControlInv, EndInv, input.finish > 0 => goal < input.finish,
           left > BytesAvailable, buf.next = "none" \/ limit <= SlopBytes
    PROVE  Stream!Malformed
<1>1. /\ ptr \in Int /\ buf.end \in Int /\ limit \in Int /\ goal \in Nat /\ left \in Nat
      /\ SlopBytes \in Nat /\ taken \in Nat
  BY AllIntegers, SlopSize
<1>2. left > buf.end + SlopBytes - ptr
  BY DEF BytesAvailable
<1>3. CASE buf.next = "none"
  <2>1. (goal - left) + buf.end - ptr = taken
    BY <1>3 DEF Placed, BufferInv, BufferFor, BaseOf, Pos
  <2>2. goal > taken
    BY <1>1, <1>2, <2>1
  <2> QED
    BY <1>3, <2>2, PastTheEnd
<1>4. CASE limit <= SlopBytes
  <2>1. goal > (goal - left) + (limit + buf.end - ptr)
    BY <1>1, <1>2, <1>4
  <2>2. goal > Pos + BytesUntilLimit
    BY <2>1 DEF Pos, BytesUntilLimit
  <2> QED
    BY <2>2, PastTheLimit
<1> QED
  BY <1>3, <1>4

LEMMA RefineFails ==
    ASSUME IInv, StreamInv, pc \in Spanning, Fails, UNCHANGED <<input, ended, hist>>,
           Stream!Malformed
    PROVE  Refines
<1>1. pc \notin {"ok", "failed"} /\ pc' = "failed" /\ UNCHANGED <<input, goal, ends>>
  BY DEF Fails, hist, Spanning
<1> QED
  BY <1>1, StreamFails DEF Refines, StreamInv, Running, Truncated

LEMMA RefineStays ==
    ASSUME IInv, StreamInv, pc \in {"rest"} \cup Spanning,
           UNCHANGED <<input, zcis, core, hist>>, pc' \notin {"ended", "ok", "failed"}
    PROVE  Refines
<1>1. EndInv /\ pc \notin {"ok", "failed"}
  BY GoingOn
<1>2. UNCHANGED <<input, taken, buf, goal, ends>>
  BY DEF zcis, core, hist
<1>3. EndInv'
  BY <1>1, <1>2, EndStays
<1> QED
  BY <1>1, <1>2, <1>3, StreamStays DEF Refines, StreamInv, Truncated

LEMMA RefineCrosses ==
    ASSUME IInv, StreamInv, pc \in {"rest"} \cup Spanning, NextAdjusted,
           UNCHANGED <<input, hist>>, pc' \notin {"ended", "ok", "failed"}
    PROVE  Refines
<1>1. Typed /\ Placed /\ EndInv /\ pc \notin {"ok", "failed"}
  BY GoingOn
<1>2. UNCHANGED <<input, goal, ends>>
  BY DEF hist
<1>3. EndInv'
  BY <1>1, <1>2, EndCrosses
<1> QED
  BY <1>1, <1>2, <1>3, StreamStays DEF Refines, StreamInv, Truncated

LEMMA RefineAppendSize == ASSUME IInv, StreamInv, AppendSize PROVE Refines
<1>1. pc = "bytes" /\ UNCHANGED <<input, ended, hist>>
  BY DEF AppendSize
<1>2. /\ Typed /\ Placed /\ ControlInv /\ EndInv
      /\ input.finish > 0 => goal < input.finish
  BY <1>1, GoingOn DEF Spanning
<1>3. left \in Nat /\ BytesAvailable \in Int
  BY SMTT(30), <1>2, AllIntegers, SlopSize DEF BytesAvailable
<1>4. CASE left <= BytesAvailable
  <2>1. pc' = "loop" /\ UNCHANGED <<zcis, core>>
    BY <1>4 DEF AppendSize, RestHere
  <2> QED
    BY <1>1, <2>1, RefineStays DEF Spanning
<1>5. CASE ~(left <= BytesAvailable) /\ (buf.next = "none" \/ limit <= SlopBytes)
  <2>1. Fails
    BY <1>5 DEF AppendSize
  <2>2. Stream!Malformed
    BY <1>2, <1>3, <1>5, ReadFails
  <2> QED
    BY <1>1, <2>1, <2>2, RefineFails DEF Spanning
<1>6. CASE ~(left <= BytesAvailable) /\ ~(buf.next = "none" \/ limit <= SlopBytes)
  <2>1. NextAdjusted /\ pc' \in {"loop", pc}
    BY <1>6 DEF AppendSize, Rest
  <2> QED
    BY <1>1, <2>1, RefineCrosses DEF Spanning
<1> QED
  BY <1>4, <1>5, <1>6

LEMMA RefineReadPackedFixed == ASSUME IInv, StreamInv, ReadPackedFixed PROVE Refines
<1>1. pc = "fixed" /\ UNCHANGED <<input, ended, hist>>
  BY DEF ReadPackedFixed
<1>2. /\ Typed /\ Placed /\ ControlInv /\ EndInv
      /\ input.finish > 0 => goal < input.finish
  BY <1>1, GoingOn DEF Spanning
<1>3. left > BytesAvailable
  BY <1>1, <1>2 DEF ControlInv
<1>4. CASE buf.next = "none" \/ limit <= SlopBytes
  <2>1. Fails
    BY <1>4 DEF ReadPackedFixed
  <2>2. Stream!Malformed
    BY <1>2, <1>3, <1>4, ReadFails
  <2> QED
    BY <1>1, <2>1, <2>2, RefineFails DEF Spanning
<1>5. CASE ~(buf.next = "none" \/ limit <= SlopBytes)
  <2>1. NextAdjusted /\ pc' \in {"loop", pc}
    BY <1>5 DEF ReadPackedFixed, Rest
  <2> QED
    BY <1>1, <2>1, RefineCrosses DEF Spanning
<1> QED
  BY <1>4, <1>5

LEMMA RefineReadPackedVarint == ASSUME IInv, StreamInv, ReadPackedVarint PROVE Refines
<1>1. pc = "varint" /\ UNCHANGED <<input, ended, hist>>
  BY DEF ReadPackedVarint
<1>2. /\ Typed /\ Placed /\ ControlInv /\ EndInv
      /\ input.finish > 0 => goal < input.finish
  BY <1>1, GoingOn DEF Spanning
<1>3. /\ left \in Nat /\ BytesAvailable \in Int
      /\ (buf.end - ptr) + SlopBytes = BytesAvailable
  <2>1. left \in Nat /\ ptr \in Int /\ buf.end \in Int /\ SlopBytes \in Nat
    BY <1>2, AllIntegers, SlopSize
  <2> QED
    BY <2>1 DEF BytesAvailable
<1>4. CASE left <= BytesAvailable
  <2>1. pc' = "loop" /\ UNCHANGED <<zcis, core>>
    BY <1>3, <1>4 DEF ReadPackedVarint, RestHere
  <2> QED
    BY <1>1, <2>1, RefineStays DEF Spanning
<1>5. CASE ~(left <= BytesAvailable) /\ (buf.next = "none" \/ limit <= SlopBytes)
  <2>1. Fails
    BY <1>3, <1>5 DEF ReadPackedVarint
  <2>2. Stream!Malformed
    BY <1>2, <1>3, <1>5, ReadFails
  <2> QED
    BY <1>1, <2>1, <2>2, RefineFails DEF Spanning
<1>6. CASE ~(left <= BytesAvailable) /\ ~(buf.next = "none" \/ limit <= SlopBytes)
  <2>1. NextAdjusted /\ pc' = pc
    BY <1>3, <1>6 DEF ReadPackedVarint
  <2> QED
    BY <1>1, <2>1, RefineCrosses DEF Spanning
<1> QED
  BY <1>4, <1>5, <1>6

LEMMA RefineAppendUntilEnd == ASSUME IInv, StreamInv, AppendUntilEnd PROVE Refines
<1>1. pc = "rest" /\ UNCHANGED <<input, hist>> /\ UNCHANGED <<goal, ends>>
  BY DEF AppendUntilEnd, hist
<1>2. /\ Typed /\ Placed /\ ControlInv /\ EndInv
      /\ input.finish > 0 => goal < input.finish
  BY <1>1, GoingOn
<1>3. /\ ptr \in Int /\ buf.end \in Int /\ left \in Nat /\ SlopBytes \in Nat /\ goal \in Nat
      /\ limit \in Int /\ taken \in Nat
  BY <1>2, AllIntegers, SlopSize
<1>4. /\ ends # <<>> /\ goal = ends[1] /\ ended = "limit"
      /\ Pos + BytesUntilLimit = Head(ends)
  BY <1>1, <1>2, LimitsAreRight DEF ControlInv, LimitOK
<1>5. Pos + BytesUntilLimit = goal
  BY <1>2, <1>4, AllIntegers
<1>6. tokens # <<>>
  <2>1. Len(tokens) = Len(ends)
    BY <1>2 DEF Placed, ChainInv, ChainFor
  <2> QED
    BY <1>2, <1>4, <2>1, AllIntegers
<1>7. CASE NextAdjusted /\ pc' = pc
  BY <1>1, <1>7, RefineCrosses
<1>8. CASE /\ limit > SlopBytes /\ buf.next = "none" /\ ended' = "stream" /\ pc' = "ended"
           /\ UNCHANGED tokens
  <2>1. goal > taken
    <3>1. (goal - left) + buf.end - ptr = taken
      BY <1>2, <1>8 DEF Placed, BufferInv, BufferFor, BaseOf, Pos
    <3>2. (goal - left) + (limit + buf.end - ptr) = goal
      BY <1>5 DEF Pos, BytesUntilLimit
    <3>3. limit > SlopBytes
      BY <1>8
    <3> QED
      BY <1>3, <3>1, <3>2, <3>3
  <2>2. Stream!Malformed
    BY <1>2, <1>8, <2>1, PastTheEnd
  <2>3. Stream!Malformed'
    BY <1>1, <2>2 DEF Stream!Malformed, Stream!Ends, Stream!Top, Stream!TokenAt
  <2>4. ~Running'
    BY <1>6, <1>8 DEF Running, Truncated
  <2>5. StreamInv'
    BY <2>3, <2>4 DEF StreamInv
  <2> QED
    BY <1>1, <1>8, <2>5, StreamStays DEF Refines
<1>9. CASE pc' = "ended" /\ UNCHANGED <<zcis, core, lims, ended>>
  <2>1. UNCHANGED <<taken, buf, tokens>> /\ tokens' # <<>> /\ ended' = "limit"
    BY <1>4, <1>6, <1>9 DEF zcis, core, lims
  <2>2. EndInv'
    <3>1. Exhausted => Exhausted'
      BY <1>1, <2>1 DEF Exhausted
    <3> QED
      BY <1>1, <1>2, <2>1, <3>1 DEF EndInv
  <2> QED
    BY <1>1, <1>9, <2>1, <2>2, StreamStays DEF Refines, StreamInv, Truncated
<1> QED
  <2>1. \/ NextAdjusted /\ pc' = pc
        \/ /\ limit > SlopBytes /\ buf.next = "none" /\ ended' = "stream" /\ pc' = "ended"
           /\ UNCHANGED tokens
        \/ pc' = "ended" /\ UNCHANGED <<zcis, core, lims, ended>>
    BY DEF AppendUntilEnd
  <2> QED
    BY <1>7, <1>8, <1>9, <2>1

LEMMA RefineReadCordFallback == ASSUME IInv, StreamInv, ReadCordFallback PROVE Refines
<1>1. /\ pc = "cord" /\ UNCHANGED <<input, ended, hist>> /\ UNCHANGED <<input, goal, ends>>
  BY DEF ReadCordFallback, hist
<1>2. /\ Typed /\ Placed /\ ControlInv /\ EndInv
      /\ input.finish > 0 => goal < input.finish
  BY <1>1, GoingOn DEF Spanning
<1>3. /\ ptr \in Int /\ buf.end \in Int /\ left \in Nat /\ SlopBytes \in Nat /\ goal \in Nat
      /\ limit \in Int /\ taken \in Nat /\ MaxCordBytesToCopy \in Nat /\ MaxInt \in Nat
      /\ MaxCordBytesToCopy >= 2 * SlopBytes /\ MaxLength \in Nat
      /\ MaxLength + 2 * SlopBytes < MaxInt
      /\ input.length \in Nat /\ input.length <= MaxLength /\ input.bound \in Nat
      /\ input.mode \in {"flat", "stream", "bounded", "coded"}
  BY <1>2, AllIntegers, SlopSize, InputOK
<1>4. PICK at, count, budget, newLimit :
        /\ newLimit = BytesUntilLimit - left /\ count = left - CordCopied
        /\ at = taken - CordBackUp + count /\ budget = overall + CordBackUp - count
  OBVIOUS
<1>5. PICK possible \in BOOLEAN :
        possible <=> /\ newLimit >= 0 /\ budget >= 0 /\ at <= input.length
                     /\ buf.in = "chunk" \/ buf.next # "none"
  OBVIOUS
<1>6. CASE ~possible
  <2>1. Fails
    BY <1>4, <1>5, <1>6 DEF ReadCordFallback
  <2>2. Stream!Malformed
    <3>1. CASE ~(buf.in = "chunk" \/ buf.next # "none")
      <4>1. buf.in = "patch" /\ buf.next = "none"
        BY <1>2, <3>1 DEF Typed
      <4>2. buf.end <= SlopBytes /\ ptr >= 0
        BY <1>2, <1>3, <4>1 DEF Placed, BufferInv, BufferFor
      <4>3. left > BytesAvailable
        <5>1. left > BytesAvailable \/ left > MaxCordBytesToCopy
          BY <1>1, <1>2 DEF ControlInv
        <5>2. BytesAvailable = buf.end + SlopBytes - ptr
          BY DEF BytesAvailable
        <5> QED
          BY <1>3, <4>2, <5>1, <5>2
      <4> QED
        BY <1>2, <4>1, <4>3, ReadFails
    <3>2. CASE ~(newLimit >= 0)
      <4>1. goal > (goal - left) + (limit + buf.end - ptr)
        BY <1>3, <1>4, <3>2 DEF BytesUntilLimit
      <4>2. goal > Pos + BytesUntilLimit
        BY <4>1 DEF Pos, BytesUntilLimit
      <4> QED
        BY <1>2, <4>2, PastTheLimit
    <3>3. CASE (buf.in = "chunk" \/ buf.next # "none") /\ ~(budget >= 0)
      <4>1. budget = Budget - goal
        BY <1>2, <1>4, <3>3, CordIsContinued
      <4>2. Budget \in Int
        BY <1>3 DEF Budget
      <4>3. goal > Budget
        BY <1>3, <3>3, <4>1, <4>2
      <4>4. input.mode # "flat"
        BY <1>1, <1>2 DEF ControlInv
      <4>5. CASE input.mode = "bounded"
        <5>1. Budget = input.bound /\ input.bound \in Stream!Ends
          BY <4>5, StreamTop DEF Budget, Stream!Ends
        <5> QED
          BY <4>3, <5>1 DEF Stream!Malformed
      <4>6. CASE input.mode # "bounded"
        <5>1. Budget = MaxInt
          BY <4>4, <4>6 DEF Budget
        <5>2. goal > input.length
          BY <1>3, <4>3, <5>1
        <5> QED
          BY <5>2 DEF Stream!Malformed
      <4> QED
        BY <4>5, <4>6
    <3>4. CASE (buf.in = "chunk" \/ buf.next # "none") /\ ~(at <= input.length)
      <4>1. at = goal
        BY <1>2, <1>4, <3>4, CordIsContinued
      <4>2. goal > input.length
        BY <1>3, <3>4, <4>1
      <4> QED
        BY <4>2 DEF Stream!Malformed
    <3> QED
      BY <1>5, <1>6, <3>1, <3>2, <3>3, <3>4
  <2> QED
    BY <1>1, <2>1, <2>2, RefineFails DEF Spanning
<1>7. CASE possible
  <2>1. pc' = "loop" /\ (buf'.next = "none" => taken' = input.length)
    <3>1. PICK e : e = input.length - at
      OBVIOUS
    <3>2. /\ pc' = "loop"
          /\ \/ \E n \in 0 .. e : buf' = Opened(at, n)
             \/ at = input.length /\ taken' = at /\ buf' = Closed
      BY <1>4, <1>5, <1>7, <3>1 DEF ReadCordFallback
    <3>3. CASE \E n \in 0 .. e : buf' = Opened(at, n)
      <4>1. PICK n \in 0 .. e : buf' = Opened(at, n)
        BY <3>3
      <4>2. buf'.next = "patch"
        BY <4>1 DEF Opened, Chunk
      <4> QED
        BY <3>2, <4>2
    <3> QED
      BY <3>2, <3>3
  <2>2. EndInv'
    BY <1>1, <1>2, <2>1 DEF EndInv, Exhausted
  <2> QED
    BY <1>1, <2>1, <2>2, StreamStays DEF Refines, StreamInv, Truncated
<1> QED
  BY <1>6, <1>7

LEMMA InitStreamInv == Init => StreamInv /\ Stream!Init
<1> SUFFICES ASSUME Init PROVE StreamInv /\ Stream!Init
  OBVIOUS
<1>1. pc = "loop" /\ goal = 0 /\ ends = <<>> /\ ended = "limit" /\ input \in Inputs
  BY DEF Init
<1>2. Stream!Init
  BY <1>1 DEF Stream!Init
<1>3. buf.next = "none" => taken = input.length
  <2>1. CASE InitFlat
    BY <2>1 DEF InitFlat
  <2>2. CASE InitStream
    <3>1. PICK n : buf = Opened(0, n)
      BY <2>2 DEF InitStream
    <3> QED
      BY <3>1 DEF Opened, Chunk
  <2>3. CASE InitNothing
    BY <2>3 DEF InitNothing
  <2> QED
    BY <2>1, <2>2, <2>3 DEF Init
<1>4. EndInv
  BY <1>1, <1>3 DEF EndInv, Exhausted
<1> QED
  BY <1>1, <1>2, <1>4 DEF StreamInv, Truncated

LEMMA StepRefines ==
    ASSUME IInv, StreamInv, [Next]_vars
    PROVE  Refines
<1>1. CASE UNCHANGED vars
  <2>1. UNCHANGED <<input, taken, buf, limit, tokens, ended, ptr, pc, goal, ends>>
    BY <1>1 DEF vars, zcis, core, lims, hist
  <2>2. UNCHANGED Stream!vars
    BY <2>1 DEF Stream!vars
  <2>3. Running' => Running
    BY <2>1 DEF Running, Truncated
  <2>4. Truncated' => Truncated
    BY <2>1 DEF Truncated
  <2>5. EndInv => EndInv'
    BY <2>1 DEF EndInv, Exhausted
  <2>6. Stream!Malformed => Stream!Malformed'
    BY <2>1 DEF Stream!Malformed, Stream!Ends, Stream!Top, Stream!TokenAt
  <2> QED
    BY <2>2, <2>3, <2>4, <2>5, <2>6 DEF Refines, StreamInv
<1>2. CASE Done
  BY <1>2, RefineDone
<1>3. CASE Flip
  BY <1>3, RefineFlip
<1>4. CASE PopLimit
  BY <1>4, RefinePopLimit
<1>5. CASE Finish
  BY <1>5, RefineFinish
<1>6. CASE EndTag
  BY <1>6, RefineEndTag
<1>7. CASE \E n \in 1 .. SlopBytes : Token(n)
  BY <1>7, RefineToken
<1>8. CASE \E h \in 1 .. MaxHeader, n \in 0 .. MaxLength :
             \/ \E raw \in BOOLEAN : Message(h, n, raw)
             \/ \E kind \in Kinds : Field(kind, h, n)
  BY <1>8, RefineMessage, RefineField
<1>9. CASE AppendSize
  BY <1>9, RefineAppendSize
<1>10. CASE AppendUntilEnd
  BY <1>10, RefineAppendUntilEnd
<1>11. CASE ReadPackedFixed
  BY <1>11, RefineReadPackedFixed
<1>12. CASE ReadPackedVarint
  BY <1>12, RefineReadPackedVarint
<1>13. CASE ReadCordFallback
  BY <1>13, RefineReadCordFallback
<1> QED
  BY <1>1, <1>2, <1>3, <1>4, <1>5, <1>6, <1>7, <1>8, <1>9, <1>10, <1>11, <1>12, <1>13 DEF Next

(* ImplementsByteStream: a message is accepted just where its bytes are all  *)
(* there and its lengths fit, and BackUp leaves the stream behind its last   *)
(* byte, however the stream is cut into chunks.                              *)
THEOREM KeepsThePromise == Spec => ImplementsByteStream
<1>1. Init => StreamInv /\ Stream!Init
  BY InitStreamInv
<1>2. IInv /\ StreamInv /\ [Next]_vars => StreamInv' /\ [Stream!Next]_(Stream!vars)
  BY StepRefines DEF Refines
<1>3. Spec => Stream!Init /\ [][Stream!Next]_(Stream!vars)
  BY <1>1, <1>2, Inductive, PTL DEF Spec
<1> QED
  BY <1>3 DEF ImplementsByteStream, Stream!Spec
=============================================================================
