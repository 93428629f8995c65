------------------------- MODULE EpsCopyInputStream -------------------------
(***************************************************************************)
(* The input of the wire format parser: EpsCopyInputStream of              *)
(* parse_context.h and parse_context.cc, on top of a flat array or of a    *)
(* ZeroCopyInputStream that hands out its bytes in chunks of any size.     *)
(*                                                                         *)
(* The parser reads up to SlopBytes bytes beyond buffer_end_ without a     *)
(* check, so these must repeat the first bytes of the next buffer; a patch *)
(* buffer joins the end of a chunk with the start of the next.  Limits are *)
(* kept relative to buffer_end_.  Bytes are named by their position in the *)
(* stream, pointers by their index in the patch buffer or, in memory of    *)
(* the stream, by the position of the byte they point to.                  *)
(*                                                                         *)
(* The parser itself is any client that follows the protocol: it asks Done *)
(* where a tag may start, and then reads a tag with what it announces.     *)
(***************************************************************************)
EXTENDS Integers, Sequences

CONSTANTS SlopBytes,            \* kSlopBytes; a tag with a scalar is no longer
          MaxVarint,            \* the longest varint
          MaxHeader,            \* the longest tag with a length
          FixedBytes,           \* the width of the elements of a packed fixed field
          MaxCordBytesToCopy,   \* kMaxCordBytesToCopy
          MaxInt,               \* INT_MAX
          MaxDepth,             \* the recursion limit
          MaxLength,            \* bound on the length of the stream
          Modes,                \* the entry points used
          TagModes,             \* those whose messages a tag may terminate
          None

\* MaxLength: streams that come near 2^31 bytes are left out.
ASSUME ConstantsAssumption ==
  /\ SlopBytes \in Nat /\ MaxVarint \in 1 .. SlopBytes - 1
  /\ MaxHeader \in 1 .. SlopBytes /\ FixedBytes \in 1 .. SlopBytes
  /\ MaxCordBytesToCopy \in Nat /\ MaxCordBytesToCopy >= 2 * SlopBytes
  /\ MaxDepth \in Nat /\ MaxLength \in Nat
  /\ MaxInt \in Nat /\ MaxLength + 2 * SlopBytes < MaxInt
  /\ Modes \subseteq {"flat", "stream", "bounded", "coded"} /\ TagModes \subseteq Modes
  /\ None \notin Int

VARIABLES
  input,     \* mode, length, bound of a bounded parse, the end of the last tag
  taken,     \* the position of the ZeroCopyInputStream
  last,      \* how much BackUp may push back: the last chunk, if Next was last
  size,      \* size_
  overall,   \* overall_limit_
  buf,       \* the current buffer: what it is "in", buffer_end_, next_chunk_,
             \* and the contents of the patch buffer
  limit,     \* limit_
  limitEnd,  \* limit_end_
  tokens,    \* the LimitTokens of the messages being read, innermost first
  ended,     \* last_tag_minus_1_: the parse ended at a limit, the stream, a tag
  ptr,       \* ptr
  pc,        \* what is being done with ptr
  left,      \* what a read in several steps has still to read
  goal,      \* history: the position when that is done
  ends       \* history: the positions where the messages end, innermost first

zcis == <<taken, last>>
core == <<buf, size, overall>>
lims == <<limit, limitEnd, tokens>>
hist == <<goal, ends>>
vars == <<input, zcis, core, lims, ended, ptr, pc, left, hist>>

Junk == -1   \* the value of a byte that is not of the stream

Inputs ==
  {i \in [mode : Modes, length : 0 .. MaxLength, bound : 0 .. MaxLength + 1,
          finish : 0 .. MaxLength] :
     /\ i.finish <= i.length /\ (i.finish > 0 => i.mode \in TagModes)
     /\ i.mode # "bounded" => i.bound = 0}

Tracking == input.mode = "coded"
Least(a, b) == IF a < b THEN a ELSE b

BytesAvailable  == buf.end + SlopBytes - ptr
BytesUntilLimit == limit + buf.end - ptr

-----------------------------------------------------------------------------
(* Buffers *)

\* The bytes of the patch buffer that are left from before and lie outside what
\* can be read are not kept.
NoPatch == [i \in 0 .. 2 * SlopBytes - 1 |-> Junk]

\* Memory of the stream that ends before position p.
Chunk(p) == [in |-> "chunk", end |-> p - SlopBytes, next |-> "patch", patch |-> NoPatch]

\* InitFrom: the first chunk is of n bytes, which start at position at.
Opened(at, n) ==
  IF n > SlopBytes THEN Chunk(at + n)
  ELSE [in |-> "patch", end |-> SlopBytes, next |-> "patch",
        patch |-> [i \in DOMAIN NoPatch |->
                     IF i >= 2 * SlopBytes - n THEN at + i - (2 * SlopBytes - n)
                     ELSE Junk]]
OpenedPtr(at, n) == IF n > SlopBytes THEN at ELSE 2 * SlopBytes - n

\* InitFrom of a stream that is at its end.
Closed == [in |-> "patch", end |-> 0, next |-> "none", patch |-> NoPatch]

\* InitFrom of an array of n bytes.
Flat(n) ==
  IF n > SlopBytes THEN Chunk(n)
  ELSE [in |-> "patch", end |-> n, next |-> "none",
        patch |-> [i \in DOMAIN NoPatch |-> IF i < n THEN i ELSE Junk]]

InitFlat ==
  /\ input.mode = "flat"
  /\ taken = input.length /\ last = 0 /\ overall = 0 /\ ptr = 0
  /\ buf = Flat(input.length)
  /\ limit = IF input.length > SlopBytes THEN SlopBytes ELSE 0

\* An unbounded parse counts down from MaxInt; a chunk that is copied to the
\* patch buffer does not count.
InitStream ==
  /\ input.mode # "flat"
  /\ \E n \in 0 .. input.length :
       /\ taken = n /\ last = n
       /\ overall = (IF input.mode = "bounded" THEN input.bound ELSE MaxInt) - n
       /\ buf = Opened(0, n) /\ ptr = OpenedPtr(0, n)
       /\ limit = IF input.mode = "bounded" THEN input.bound - (buf.end - ptr)
                  ELSE IF n > SlopBytes THEN MaxInt - (n - SlopBytes) ELSE MaxInt

InitNothing ==
  /\ input.mode # "flat" /\ input.length = 0
  /\ taken = 0 /\ last = 0 /\ overall = 0 /\ ptr = 0
  /\ buf = Closed
  /\ limit = IF input.mode = "bounded" THEN input.bound ELSE MaxInt

Init ==
  /\ input \in Inputs
  /\ InitFlat \/ InitStream \/ InitNothing
  /\ size = 0
  /\ limitEnd = buf.end + Least(0, limit)
  /\ tokens = <<>> /\ ended = "limit" /\ pc = "loop" /\ left = 0
  /\ goal = 0 /\ ends = <<>>

Mem(i) == IF buf.in = "patch" THEN buf.patch[i] ELSE i

\* Where the buffer that NextBuffer returns starts.
Start == IF buf.next = "chunk" THEN taken - size ELSE 0

\* The patch buffer with the slop bytes moved to its front, and behind them
\* the first of n bytes of the stream.
Patched(n) ==
  [i \in 0 .. 2 * SlopBytes - 1 |->
     IF i < SlopBytes THEN Mem(buf.end + i)
     ELSE IF i < SlopBytes + Least(n, SlopBytes) THEN taken + i - SlopBytes
     ELSE Junk]

\* NextBuffer, for a parse that is known to end in the slop bytes or not.
\* Chunks of no bytes are skipped.
NextBuffer(endsInSlop) ==
  \/ /\ buf.next = "chunk"
     /\ buf' = Chunk(taken)
     /\ UNCHANGED <<zcis, size, overall>>
  \/ /\ buf.next = "patch"
     /\ overall > 0 /\ ~endsInSlop
     /\ \E n \in 1 .. input.length - taken :
          /\ buf' = [in |-> "patch", end |-> Least(n, SlopBytes), patch |-> Patched(n),
                     next |-> IF n > SlopBytes THEN "chunk" ELSE "patch"]
          /\ taken' = taken + n /\ last' = n /\ size' = n /\ overall' = overall - n
  \/ /\ buf.next = "patch"
     /\ LET asks == overall > 0 /\ ~endsInSlop IN
          /\ asks => taken = input.length
          /\ overall' = IF asks THEN 0 ELSE overall
          /\ last' = IF asks THEN 0 ELSE last
     /\ buf' = [in |-> "patch", end |-> SlopBytes, next |-> "none", patch |-> Patched(0)]
     /\ size' = 0
     /\ UNCHANGED taken

\* ParseEndsInSlopRegion: the tag that terminates the message is among the slop
\* bytes that have not been read; only looked for where BackUp must work.
ParseEndsInSlopRegion ==
  /\ Tracking /\ input.finish > 0
  /\ \E i \in ptr .. buf.end + SlopBytes - 1 : Mem(i) = input.finish - 1

\* A fault: the limit moves by the size of the chunk, not by what is in front of
\* buffer_end_.
NextAdjusted_BySize ==
  /\ NextBuffer(FALSE)
  /\ limit' = limit - (taken' - taken)
  /\ limitEnd' = buf'.end + Least(0, limit')
  /\ UNCHANGED tokens

\* Next, when there is a next buffer.
NextAdjusted ==
  /\ NextBuffer(FALSE)
  /\ limit' = limit - (buf'.end - Start)
  /\ limitEnd' = buf'.end + Least(0, limit')
  /\ UNCHANGED tokens

Fails == pc' = "failed" /\ UNCHANGED <<zcis, core, lims, ended, ptr, left>>

-----------------------------------------------------------------------------
(* The end of a message, a limit or the stream *)

\* A fault: a limit that is reached is trusted beyond the end of the stream.
Done_AtLimit ==
  /\ pc = "loop"
  /\ LET overrun == ptr - buf.end IN
       pc' = CASE ptr < limitEnd   -> "read"
               [] ptr >= limitEnd /\ overrun = limit -> "ended"
               [] ptr >= limitEnd /\ overrun > limit -> "failed"
               [] OTHER            -> "flip"
  /\ UNCHANGED <<input, zcis, core, lims, ended, ptr, left, hist>>

\* DoneWithCheck: is there a tag at ptr?
Done ==
  /\ pc = "loop"
  /\ LET overrun == ptr - buf.end IN
       pc' = CASE ptr < limitEnd   -> "read"
               [] ptr >= limitEnd /\ overrun = limit ->
                    IF overrun > 0 /\ buf.next = "none" THEN "failed" ELSE "ended"
               [] ptr >= limitEnd /\ overrun > limit -> "failed"
               [] OTHER            -> "flip"
  /\ UNCHANGED <<input, zcis, core, lims, ended, ptr, left, hist>>

\* One turn of the loop of DoneFallback.
Flip ==
  /\ pc = "flip"
  /\ LET overrun == ptr - buf.end IN
     \/ /\ buf.next # "none"
        /\ NextBuffer(ParseEndsInSlopRegion)
        /\ limit' = limit - (buf'.end - Start)
        /\ ptr' = Start + overrun
        /\ IF ptr' >= buf'.end
             THEN pc' = "flip" /\ UNCHANGED limitEnd
             ELSE pc' = "read" /\ limitEnd' = buf'.end + Least(0, limit')
        /\ UNCHANGED ended
     \/ /\ buf.next = "none" /\ overrun # 0
        /\ pc' = "failed"
        /\ UNCHANGED <<zcis, core, limit, limitEnd, ended, ptr>>
     \/ /\ buf.next = "none" /\ overrun = 0
        /\ pc' = "ended" /\ ended' = "stream" /\ limitEnd' = buf.end
        /\ UNCHANGED <<zcis, core, limit, ptr>>
  /\ UNCHANGED <<input, tokens, left, hist>>

\* The end of a message that has a limit.
PopLimit ==
  /\ pc = "ended" /\ tokens # <<>>
  /\ limit' = limit + Head(tokens) /\ tokens' = Tail(tokens)
  /\ IF ended = "limit"
       THEN /\ pc' = "loop" /\ limitEnd' = buf.end + Least(0, limit')
            /\ ends' = Tail(ends)
       ELSE pc' = "failed" /\ UNCHANGED <<limitEnd, ends>>
  /\ UNCHANGED <<input, zcis, core, ended, ptr, left, goal>>

BackUpCount ==
  IF buf.next = "patch" THEN BytesAvailable ELSE size + buf.end - ptr

IsExceedingLimit ==
  ptr > limitEnd /\ (buf.next = "none" \/ ptr - buf.end > limit)

\* MergeFromImpl after the parse loop: BackUp, and was this the right end?
Finish ==
  /\ pc = "ended" /\ tokens = <<>>
  /\ LET count == IF input.mode \in {"bounded", "coded"} /\ BackUpCount > 0
                  THEN BackUpCount ELSE 0
     IN  /\ taken' = taken - count /\ overall' = overall + count
         /\ last' = IF count > 0 THEN 0 ELSE last
  /\ pc' = IF CASE input.mode \in {"flat", "bounded"} -> ended = "limit"
                [] input.mode = "stream"             -> ended = "stream"
                [] input.mode = "coded" -> ended = "stream" \/ ~IsExceedingLimit
           THEN "ok" ELSE "failed"
  /\ UNCHANGED <<input, buf, size, lims, ended, ptr, left, hist>>

-----------------------------------------------------------------------------
(* Reading.  The input is a message: packed elements fill their field, and *)
(* the tag that terminates it, if there is one, is where the input says.   *)

Fits(n) == input.finish > 0 => goal + n < input.finish

\* A tag and a value of n bytes together, read without a check.
Token(n) ==
  /\ pc = "read" /\ Fits(n)
  /\ ptr' = ptr + n /\ goal' = goal + n /\ pc' = "loop"
  /\ UNCHANGED <<input, zcis, core, lims, ended, left, ends>>

\* A zero tag, or the end of a group nobody started: SetLastTag.
EndTag ==
  /\ pc = "read" /\ input.finish > 0 /\ goal = input.finish - 1
  /\ ptr' = ptr + 1 /\ goal' = goal + 1 /\ ended' = "tag" /\ pc' = "ended"
  /\ UNCHANGED <<input, zcis, core, lims, left, ends>>

\* PushLimit for a message of n bytes behind a header of h; the message is
\* parsed, or appended to a string as it is (AppendUntilEnd).
Message(h, n, raw) ==
  /\ pc = "read" /\ Fits(h + n)
  /\ ptr' = ptr + h
  /\ IF Len(tokens) = MaxDepth
       THEN pc' = "failed" /\ UNCHANGED <<lims, left, hist>>
       ELSE LET new == n + ptr' - buf.end IN
            /\ limit' = new /\ limitEnd' = buf.end + Least(0, new)
            /\ tokens' = <<limit - new>> \o tokens
            /\ ends' = <<goal + h + n>> \o ends
            /\ IF raw THEN pc' = "rest" /\ left' = n /\ goal' = goal + h + n
               ELSE pc' = "loop" /\ goal' = goal + h /\ UNCHANGED left
  /\ UNCHANGED <<input, zcis, core, ended>>

\* One turn of AppendUntilEnd.
AppendUntilEnd ==
  /\ pc = "rest"
  /\ \/ /\ limit > SlopBytes /\ buf.next # "none"
        /\ NextAdjusted
        /\ left' = left - BytesAvailable /\ ptr' = Start + SlopBytes
        /\ UNCHANGED <<ended, pc>>
     \/ /\ limit > SlopBytes /\ buf.next = "none"
        /\ limitEnd' = buf.end /\ ended' = "stream"
        /\ left' = left - BytesAvailable /\ ptr' = buf.end /\ pc' = "ended"
        /\ UNCHANGED <<zcis, core, limit, tokens>>
     \/ /\ limit <= SlopBytes
        /\ left' = left - BytesUntilLimit /\ ptr' = buf.end + limit /\ pc' = "ended"
        /\ UNCHANGED <<zcis, core, lims, ended>>
  /\ UNCHANGED <<input, hist>>

\* A field of n bytes behind a header of h: what is there without a flip is
\* taken at once.
Field(kind, h, n) ==
  /\ pc = "read" /\ Fits(h + n)
  /\ kind = "fixed" => n % FixedBytes = 0
  /\ goal' = goal + h + n
  /\ LET room == BytesAvailable - h
         most == IF kind = "cord" THEN Least(room, MaxCordBytesToCopy) ELSE room
     IN  IF kind # "varint" /\ n <= most
           THEN ptr' = ptr + h + n /\ pc' = "loop" /\ UNCHANGED left
           ELSE /\ ptr' = ptr + h /\ left' = n
                /\ pc' = IF kind = "cord" /\ input.mode = "flat" THEN "bytes" ELSE kind
  /\ UNCHANGED <<input, zcis, core, lims, ended, ends>>

\* What is left of a read after a step to pointer p: it ends there, or goes on.
Rest(p, more, room) ==
  IF more <= room THEN ptr' = p + more /\ left' = 0 /\ pc' = "loop"
  ELSE ptr' = p /\ left' = more /\ UNCHANGED pc
RestHere == ptr' = ptr + left /\ left' = 0 /\ pc' = "loop"

\* One turn of AppendSize, for Skip, ReadString, ReadArray and a flat ReadCord.
AppendSize ==
  /\ pc = "bytes"
  /\ IF left <= BytesAvailable \* a cord of an array
       THEN RestHere /\ UNCHANGED <<zcis, core, lims>>
     ELSE IF buf.next = "none" \/ limit <= SlopBytes THEN Fails
     ELSE /\ NextAdjusted
          /\ Rest(Start + SlopBytes, left - BytesAvailable, buf'.end - Start)
  /\ UNCHANGED <<input, ended, hist>>

\* One turn of ReadPackedFixed; an element that is cut is read again.
ReadPackedFixed ==
  /\ pc = "fixed"
  /\ IF buf.next = "none" \/ limit <= SlopBytes THEN Fails
     ELSE LET block == BytesAvailable - (BytesAvailable % FixedBytes) IN
          /\ NextAdjusted
          /\ Rest(Start + SlopBytes - (BytesAvailable - block), left - block,
                  buf'.end - Start + (BytesAvailable - block))
  /\ UNCHANGED <<input, ended, hist>>

\* One turn of ReadPackedVarint: the last varint that starts in the buffer ends
\* overrun bytes behind it; a field that ends in the slop bytes is finished in
\* a copy of them.
ReadPackedVarint ==
  /\ pc = "varint"
  /\ LET chunk == buf.end - ptr IN
     IF left <= chunk + SlopBytes
       THEN RestHere /\ UNCHANGED <<zcis, core, lims>>
     ELSE IF buf.next = "none" \/ limit <= SlopBytes THEN Fails
     ELSE \E overrun \in IF chunk > 0 THEN 0 .. MaxVarint - 1 ELSE {-chunk} :
          /\ NextAdjusted
          /\ ptr' = Start + overrun /\ left' = left - (overrun + chunk)
          /\ UNCHANGED pc
  /\ UNCHANGED <<input, ended, hist>>

\* ReadCordFallback backs the stream up to where the buffer can be left, takes
\* the rest from the stream and starts again from there.
CordBackUp ==
  CASE buf.in = "chunk"                                        -> BytesAvailable
    [] buf.in = "patch" /\ buf.next = "chunk"
         /\ BytesAvailable = SlopBytes                         -> size
    [] buf.in = "patch" /\ buf.next = "chunk"
         /\ BytesAvailable # SlopBytes                         -> size - SlopBytes
    [] OTHER                                                   -> 0

CordCopied ==
  IF buf.in = "chunk" \/ (buf.next = "chunk" /\ BytesAvailable = SlopBytes) THEN 0
  ELSE BytesAvailable

ReadCordFallback ==
  /\ pc = "cord"
  /\ LET newLimit == BytesUntilLimit - left
         count    == left - CordCopied
         at       == taken - CordBackUp + count
         budget   == overall + CordBackUp - count
         possible == /\ newLimit >= 0 /\ budget >= 0 /\ at <= input.length
                     /\ buf.in = "chunk" \/ buf.next # "none"
     IN  \/ ~possible /\ Fails
         \/ /\ possible
            /\ \/ \E n \in 0 .. input.length - at :
                    /\ taken' = at + n /\ last' = n /\ overall' = budget - n
                    /\ buf' = Opened(at, n) /\ ptr' = OpenedPtr(at, n)
                    /\ UNCHANGED size
               \/ /\ at = input.length
                  /\ taken' = at /\ last' = 0 /\ overall' = 0 /\ size' = 0
                  /\ buf' = Closed /\ ptr' = 0
            /\ limit' = newLimit - (buf'.end - ptr')
            /\ limitEnd' = buf'.end + Least(0, limit')
            /\ pc' = "loop" /\ left' = 0
            /\ UNCHANGED tokens
  /\ UNCHANGED <<input, ended, hist>>

Kinds == {"bytes", "fixed", "varint", "cord"}

Next ==
  \/ Done \/ Flip \/ PopLimit \/ Finish \/ EndTag
  \/ \E n \in 1 .. SlopBytes : Token(n)
  \/ \E h \in 1 .. MaxHeader, n \in 0 .. MaxLength :
       \/ \E raw \in BOOLEAN : Message(h, n, raw)
       \/ \E kind \in Kinds : Field(kind, h, n)
  \/ AppendSize \/ AppendUntilEnd \/ ReadPackedFixed \/ ReadPackedVarint
  \/ ReadCordFallback

Spec == Init /\ [][Next]_vars

-----------------------------------------------------------------------------
(* Properties *)

\* The position of the byte ptr points to.
Pos == goal - left

BufferOK ==
  /\ buf.in = "patch" => ptr >= 0 /\ buf.end \in 0 .. SlopBytes
  /\ buf.in = "chunk" => buf.next = "patch" /\ ptr >= 0
  /\ BytesAvailable >= 0
  /\ buf.in = "chunk" /\ input.mode # "flat" => BytesAvailable <= last
  /\ CASE buf.next = "patch" -> Pos + BytesAvailable = taken
       [] buf.next = "chunk" -> /\ buf.end = SlopBytes /\ size > SlopBytes
                                /\ Pos + buf.end - ptr = taken - size
       [] buf.next = "none"  -> Pos + buf.end - ptr = taken

\* What can be read without a check is the stream from Pos on, as far as the
\* chunks loaded go.
BytesOK ==
  \A i \in ptr .. buf.end + SlopBytes - 1 :
    Pos + (i - ptr) < taken => Mem(i) = Pos + (i - ptr)

\* limit_ stands for the end of the innermost message wherever the buffers are.
LimitOK ==
  /\ limit <= MaxInt
  /\ ends # <<>> => Pos + BytesUntilLimit = Head(ends)
  /\ ends = <<>> /\ input.mode = "flat" => Pos + BytesUntilLimit = input.length
  /\ ends = <<>> /\ input.mode = "bounded" => Pos + BytesUntilLimit = input.bound
  /\ ends = <<>> /\ input.mode \in {"stream", "coded"} =>
       Pos + BytesUntilLimit >= MaxInt - SlopBytes
  /\ pc # "flip" => limitEnd = buf.end + Least(0, limit)
  /\ Len(tokens) = Len(ends)

\* ZeroCopyInputStream::BackUp takes back no more than the last chunk.
BackUpOK ==
  /\ pc = "ended" /\ tokens = <<>> /\ input.mode \in {"bounded", "coded"} =>
       BackUpCount <= last
  /\ pc = "cord" /\ buf.next # "none" => CordBackUp <= last

\* The stream has ended inside a message; what is left is to fail.
Truncated == pc = "ended" /\ ended = "stream" /\ tokens # <<>>

\* Wherever the chunks are cut: the bytes in front of ptr are those of the
\* stream, the limits and the end of the stream are where they belong, and
\* nothing is backed up that was not read.
Aligned ==
  pc \notin {"ok", "failed"} /\ ~Truncated =>
    BufferOK /\ BytesOK /\ LimitOK /\ BackUpOK

\* The parse as seen by its caller.
Stream == INSTANCE ByteStream WITH
  pos    <- goal,
  limits <- ends,
  status <- IF pc \in {"ok", "failed"} THEN pc ELSE "reading",
  left   <- IF pc = "ok" /\ input.mode \in {"bounded", "coded"} THEN taken ELSE None

\* Done, the flips and the reads that span buffers keep the promise of the
\* stream: a message is accepted just when its bytes are all there and its
\* lengths fit, wherever the chunks are cut, and BackUp leaves the stream behind
\* the last byte of the message.
ImplementsByteStream == Stream!Spec
=============================================================================
