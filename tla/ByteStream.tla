----------------------------- MODULE ByteStream -----------------------------
(***************************************************************************)
(* What the parse of a message promises: it reads its bytes in order, a    *)
(* token only where one starts, inside the innermost of the limits that    *)
(* were pushed; it succeeds at the end of the input, or at the tag that    *)
(* terminates the message, and leaves the rest of the stream to others; it *)
(* fails only when lengths in the input do not fit.                        *)
(***************************************************************************)
EXTENDS Integers, Sequences

CONSTANTS MaxDepth, None

VARIABLES input,   \* the input: mode, length, bound, the end of its last tag
          pos,     \* how much of it has been read
          limits,  \* where the messages being read end, the innermost first
          status,  \* "reading", "ok" or "failed"
          left     \* where the stream has been left

vars == <<input, pos, limits, status, left>>

\* Where a message at the top level must end, if that is known.
Top == CASE input.mode = "flat"    -> {input.length}
         [] input.mode = "bounded" -> {input.bound}
         [] OTHER                  -> {}

Ends == {limits[i] : i \in DOMAIN limits} \cup Top

\* A token starts before the end of the input and of the message it is in.
TokenAt(p) ==
  /\ p < input.length
  /\ IF limits # <<>> THEN p < Head(limits) ELSE \A e \in Top : p < e
  /\ input.finish > 0 => p < input.finish

\* Lengths that do not fit, messages too deep, or a tag that ends a message
\* whose length is known.
Malformed ==
  \/ pos > input.length
  \/ \E e \in Ends : pos > e \/ e > input.length
  \/ \E e \in Ends, t \in Top : e > t
  \/ Len(limits) = MaxDepth /\ TokenAt(pos)
  \/ input.mode # "coded" /\ pos = input.finish /\ pos > 0

Init ==
  /\ pos = 0 /\ limits = <<>> /\ status = "reading" /\ left = None

Read ==
  /\ TokenAt(pos)
  /\ pos' > pos
  /\ UNCHANGED <<input, limits, status, left>>

\* A message of n bytes, read field by field or taken as it is.
Open ==
  /\ TokenAt(pos)
  /\ limits' # <<>> /\ Tail(limits') = limits
  /\ pos' > pos /\ pos' <= Head(limits')
  /\ UNCHANGED <<input, status, left>>

Close ==
  /\ limits # <<>> /\ pos = Head(limits)
  /\ limits' = Tail(limits)
  /\ UNCHANGED <<input, pos, status, left>>

Finish ==
  /\ limits = <<>> /\ pos <= input.length
  /\ pos \in Top \cup (IF input.mode \in {"stream", "coded"} THEN {input.length} ELSE {})
             \cup (IF input.mode = "coded" THEN {input.finish} \ {0} ELSE {})
  /\ status' = "ok"
  /\ left' = IF input.mode \in {"bounded", "coded"} THEN pos ELSE None
  /\ UNCHANGED <<input, pos, limits>>

Fail ==
  /\ Malformed
  /\ status' = "failed"
  /\ UNCHANGED <<input, pos, limits, left>>

Next == status = "reading" /\ (Read \/ Open \/ Close \/ Finish \/ Fail)

Spec == Init /\ [][Next]_vars
=============================================================================
