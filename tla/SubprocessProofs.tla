-------------------------- MODULE SubprocessProofs --------------------------
(***************************************************************************)
(* Proofs about Subprocess: for pipes and messages of any size, a true     *)
(* result means the complete response, protoc survives the child, cleans   *)
(* up, reads only when there is something to read, and -- when requests to *)
(* filters fit in a pipe -- never waits for a child that waits for it.     *)
(***************************************************************************)
EXTENDS Subprocess, TLAPS

Procs == {"parent", "child"}

Pipe == [data : Nat, writers : SUBSET Procs, readers : SUBSET Procs]

(* The values that control the two processes *)
Controlled ==
    /\ kind \in {"plugin", "filter"}
    /\ pc \in {"start", "forked", "communicate", "select", "write", "read", "wait",
               "returned", "killed"}
    /\ ready \in SUBSET {"stdin", "stdout"} /\ written \in BOOLEAN
    /\ sigpipe \in {"default", "ignored"}
    /\ result \in {NULL, "ok", "failed", "unserializable"}
    /\ child \in {"none", "setup", "ready", "reading", "writing", "ended", "reaped"}
    /\ eof \in BOOLEAN
    /\ status \in {NULL, "exit 0", "exit 1", "signal"}

(* The sizes and the pipes *)
Typed ==
    /\ request \in Nat /\ response \in Nat
    /\ kind = "filter" => request <= MaxFiltered
    /\ stdin \in Pipe /\ stdout \in Pipe

(* The pipes lose nothing and hold no more than Capacity *)
Counted ==
    /\ input_pos \in Nat /\ output \in Nat /\ got \in Nat /\ sent \in Nat
    /\ stdin.data \in Nat /\ stdout.data \in Nat
    /\ stdin.data <= Capacity /\ stdout.data <= Capacity
    /\ got + stdin.data <= input_pos /\ input_pos <= request
    /\ output + stdout.data = sent /\ sent <= response
    /\ child = "writing" => sent < response

(* Before the fork nothing has happened *)
Unstarted ==
    /\ pc = "start" <=> child = "none"
    /\ pc = "start" => input_pos = 0 /\ output = 0 /\ got = 0 /\ sent = 0 /\ eof = FALSE

(* Who holds which end of which pipe *)
ParentEnds ==
    /\ pc \in {"forked", "communicate", "write"} => "parent" \in stdin.writers
    /\ pc \in {"forked", "communicate", "select", "write", "read"} =>
          "parent" \in stdout.readers
    /\ pc \notin {"start", "forked"} =>
          "parent" \notin stdin.readers /\ "parent" \notin stdout.writers
    /\ pc = "wait" \/ (pc = "returned" /\ result # "unserializable") =>
          /\ "parent" \notin stdin.writers /\ "parent" \notin stdout.readers
          /\ stdout.data = 0 /\ stdout.writers = {}

Alive == child = "setup" \/ Running

ChildEnds ==
    /\ child \notin {"none", "setup"} =>
          "child" \notin stdin.writers /\ "child" \notin stdout.readers
    /\ Alive => "child" \in stdin.readers
    /\ Alive /\ (kind = "plugin" \/ child \in {"setup", "writing"}) =>
          "child" \in stdout.writers
    /\ child \in {"ended", "reaped"} =>
          "child" \notin stdin.readers /\ "child" \notin stdout.writers

(* What select found stays so: only the parent reads, and no end is reopened *)
Selected ==
    /\ pc = "read" => "stdout" \in ready
    /\ pc \in {"write", "read"} /\ "stdout" \in ready => Readable

(* SIGPIPE is ignored while protoc uses the pipes *)
Signals ==
    /\ pc \in {"select", "write", "read", "wait"} => sigpipe = "ignored"
    /\ pc # "killed"

(* A running plugin is sent all of the request before its input ends *)
Delivered ==
    /\ eof => stdin.data = 0 /\ stdin.writers = {} /\ child \notin {"none", "setup"}
    /\ kind = "plugin" /\ Alive =>
          /\ got + stdin.data = input_pos
          /\ "parent" \notin stdin.writers => input_pos = request
    /\ kind = "plugin" /\ eof => got = request
    /\ kind = "plugin" /\ child = "writing" => eof

(* How the child ended, and what Communicate made of it *)
Ended ==
    /\ status # NULL <=> child \in {"ended", "reaped"}
    /\ kind = "plugin" /\ status = "exit 0" => got = request /\ sent = response
    /\ result \in {"ok", "failed"} => pc = "returned"
    /\ pc = "returned" /\ result # "unserializable" =>
          child = "reaped" /\ sigpipe = "default"
    /\ result = "ok" => status = "exit 0" /\ output = sent

(* The inductive invariant *)
IInv ==
    /\ Controlled /\ Typed /\ Counted /\ Unstarted
    /\ ParentEnds /\ ChildEnds /\ Selected /\ Signals /\ Delivered /\ Ended

-----------------------------------------------------------------------------
(* What the operations do to a pipe *)
LEMMA PutGives ==
    ASSUME NEW p \in Pipe
    PROVE  /\ Put(p) \in Pipe /\ Put(p).data = p.data + 1
           /\ Put(p).writers = p.writers /\ Put(p).readers = p.readers
BY DEF Put, Pipe

LEMMA TakeGives ==
    ASSUME NEW p \in Pipe, p.data > 0
    PROVE  /\ Take(p) \in Pipe /\ Take(p).data = p.data - 1
           /\ Take(p).writers = p.writers /\ Take(p).readers = p.readers
BY DEF Take, Pipe

LEMMA CloseGives ==
    ASSUME NEW p \in Pipe, NEW who \in Procs
    PROVE  /\ CloseWriter(p, who) \in Pipe /\ CloseWriter(p, who).data = p.data
           /\ CloseWriter(p, who).writers = p.writers \ {who}
           /\ CloseWriter(p, who).readers = p.readers
           /\ CloseReader(p, who) \in Pipe /\ CloseReader(p, who).data = p.data
           /\ CloseReader(p, who).writers = p.writers
           /\ CloseReader(p, who).readers = p.readers \ {who}
BY DEF CloseWriter, CloseReader, Pipe, Procs

LEMMA CloseBothGives ==
    ASSUME NEW p \in Pipe, NEW who \in Procs
    PROVE  /\ CloseBoth(p, who) \in Pipe /\ CloseBoth(p, who).data = p.data
           /\ CloseBoth(p, who).writers = p.writers \ {who}
           /\ CloseBoth(p, who).readers = p.readers \ {who}
BY CloseGives DEF CloseBoth

LEMMA OpenedGives ==
    /\ Opened \in Pipe /\ Opened.data = 0
    /\ Opened.writers = Procs /\ Opened.readers = Procs
BY DEF Opened, Pipe, Procs

LEMMA InitEstablishes == ASSUME Init PROVE IInv
<1>1. Controlled
  BY DEF Init, Controlled
<1>2. Typed
  BY BoundsAssumption DEF Init, Typed, Closed, Pipe, Procs
<1>3. Counted
  BY CapacityAssumption DEF Init, Counted, Closed
<1>4. Unstarted
  BY DEF Init, Unstarted
<1>5. ParentEnds
  BY DEF Init, ParentEnds
<1>6. ChildEnds
  BY DEF Init, ChildEnds, Alive, Running
<1>7. Selected
  BY DEF Init, Selected, Readable
<1>8. Signals
  BY DEF Init, Signals
<1>9. Delivered
  BY DEF Init, Delivered, Alive, Running
<1>10. Ended
  BY NullAssumption DEF Init, Ended
<1>11. QED BY <1>1, <1>2, <1>3, <1>4, <1>5, <1>6, <1>7, <1>8, <1>9, <1>10 DEF IInv

LEMMA StutterPreserves == ASSUME IInv, UNCHANGED vars PROVE IInv'
<1>1. Controlled'
  BY ZenonT(30) DEF vars, sizes, parent, plugin, IInv, Controlled
<1>2. Typed'
  BY DEF vars, sizes, parent, plugin, IInv, Typed
<1>3. Counted'
  BY DEF vars, sizes, parent, plugin, IInv, Counted
<1>4. Unstarted'
  BY DEF vars, sizes, parent, plugin, IInv, Unstarted
<1>5. ParentEnds'
  BY DEF vars, sizes, parent, plugin, IInv, ParentEnds
<1>6. ChildEnds'
  BY DEF vars, sizes, parent, plugin, IInv, ChildEnds, Alive, Running
<1>7. Selected'
  BY DEF vars, sizes, parent, plugin, IInv, Selected, Readable
<1>8. Signals'
  BY DEF vars, sizes, parent, plugin, IInv, Signals
<1>9. Delivered'
  BY DEF vars, sizes, parent, plugin, IInv, Delivered, Alive, Running
<1>10. Ended'
  BY DEF vars, sizes, parent, plugin, IInv, Ended
<1>11. QED BY <1>1, <1>2, <1>3, <1>4, <1>5, <1>6, <1>7, <1>8, <1>9, <1>10 DEF IInv

LEMMA StepPreserves == ASSUME IInv, Next PROVE IInv'
<1>1. CASE Start
  <2>1. /\ stdin' \in Pipe /\ stdin'.data = 0
           /\ stdin'.writers = Procs /\ stdin'.readers = Procs
        /\ stdout' \in Pipe /\ stdout'.data = 0
           /\ stdout'.writers = Procs /\ stdout'.readers = Procs
    BY <1>1, OpenedGives DEF Start, sizes, IInv, Typed, Procs
  <2>2. Controlled'
    BY <1>1, <2>1 DEF Start, sizes, IInv, Controlled, Unstarted
  <2>3. Typed'
    BY <1>1, <2>1 DEF Start, sizes, IInv, Typed, Unstarted
  <2>4. Counted'
    BY <1>1, <2>1, CapacityAssumption DEF Start, sizes, IInv, Counted, Typed, Unstarted
  <2>5. Unstarted'
    BY <1>1, <2>1 DEF Start, IInv, Unstarted
  <2>6. ParentEnds'
    BY <1>1, <2>1, NullAssumption DEF Start, IInv, ParentEnds, Unstarted, Procs
  <2>7. ChildEnds'
    BY <1>1, <2>1 DEF Start, sizes, IInv, ChildEnds, Unstarted, Alive, Running, Procs
  <2>8. Selected'
    BY <1>1, <2>1 DEF Start, IInv, Selected, Unstarted, Readable
  <2>9. Signals'
    BY <1>1, <2>1 DEF Start, IInv, Signals, Unstarted
  <2>10. Delivered'
    BY <1>1, <2>1 DEF Start, sizes, IInv, Delivered, Counted, ChildEnds, Unstarted,
       Alive, Running, Procs
  <2>11. Ended'
    BY <1>1, <2>1, NullAssumption DEF Start, sizes, IInv, Ended, Unstarted
  <2>12. QED BY <2>2, <2>3, <2>4, <2>5, <2>6, <2>7, <2>8, <2>9, <2>10, <2>11 DEF IInv
<1>2. CASE CloseChildEnds
  <2>1. /\ stdin' \in Pipe /\ stdin'.data = stdin.data
           /\ stdin'.writers = stdin.writers /\ stdin'.readers = stdin.readers \ {"parent"}
        /\ stdout' \in Pipe /\ stdout'.data = stdout.data
           /\ stdout'.writers = stdout.writers \ {"parent"} /\ stdout'.readers = stdout.readers
    BY <1>2, CloseGives DEF CloseChildEnds, plugin, sizes, IInv, Typed, Procs
  <2>2. Controlled'
    BY <1>2, <2>1 DEF CloseChildEnds, plugin, sizes, IInv, Controlled
  <2>3. Typed'
    BY <1>2, <2>1 DEF CloseChildEnds, sizes, IInv, Typed
  <2>4. Counted'
    BY <1>2, <2>1, CapacityAssumption DEF CloseChildEnds, plugin, sizes, IInv, Counted,
       Typed
  <2>5. Unstarted'
    BY <1>2, <2>1 DEF CloseChildEnds, plugin, IInv, Unstarted
  <2>6. ParentEnds'
    BY <1>2, <2>1, NullAssumption DEF CloseChildEnds, IInv, ParentEnds
  <2>7. ChildEnds'
    BY <1>2, <2>1 DEF CloseChildEnds, plugin, sizes, IInv, ChildEnds, Alive, Running
  <2>8. Selected'
    BY <1>2, <2>1 DEF CloseChildEnds, IInv, Selected, Readable
  <2>9. Signals'
    BY <1>2, <2>1 DEF CloseChildEnds, IInv, Signals
  <2>10. Delivered'
    BY <1>2, <2>1 DEF CloseChildEnds, plugin, sizes, IInv, Delivered, Counted,
       ChildEnds, Alive, Running
  <2>11. Ended'
    BY <1>2, <2>1, NullAssumption DEF CloseChildEnds, plugin, sizes, IInv, Ended
  <2>12. QED BY <2>2, <2>3, <2>4, <2>5, <2>6, <2>7, <2>8, <2>9, <2>10, <2>11 DEF IInv
<1>3. CASE Serialize
  <2>1. Controlled'
    BY <1>3 DEF Serialize, plugin, sizes, IgnoreSigpipe, IInv, Controlled
  <2>2. Typed'
    BY <1>3 DEF Serialize, sizes, IInv, Typed
  <2>3. Counted'
    BY <1>3, CapacityAssumption DEF Serialize, plugin, sizes, IInv, Counted, Typed
  <2>4. Unstarted'
    BY <1>3 DEF Serialize, plugin, IInv, Unstarted
  <2>5. ParentEnds'
    BY <1>3, NullAssumption DEF Serialize, IInv, ParentEnds
  <2>6. ChildEnds'
    BY <1>3 DEF Serialize, plugin, sizes, IInv, ChildEnds, Alive, Running
  <2>7. Selected'
    BY <1>3 DEF Serialize, IInv, Selected, Readable
  <2>8. Signals'
    BY <1>3 DEF Serialize, IgnoreSigpipe, IInv, Signals
  <2>9. Delivered'
    BY <1>3 DEF Serialize, plugin, sizes, IInv, Delivered, Counted, ChildEnds, Alive,
       Running
  <2>10. Ended'
    BY <1>3, NullAssumption DEF Serialize, plugin, sizes, IInv, Ended
  <2>11. QED BY <2>1, <2>2, <2>3, <2>4, <2>5, <2>6, <2>7, <2>8, <2>9, <2>10 DEF IInv
<1>4. CASE Select
  <2>1. Controlled'
    BY <1>4 DEF Select, plugin, sizes, IInv, Controlled
  <2>2. Typed'
    BY <1>4 DEF Select, sizes, IInv, Typed
  <2>3. Counted'
    BY <1>4, CapacityAssumption DEF Select, plugin, sizes, HasRoom, IInv, Counted, Typed
  <2>4. Unstarted'
    BY <1>4 DEF Select, plugin, IInv, Unstarted
  <2>5. ParentEnds'
    BY <1>4, NullAssumption DEF Select, plugin, sizes, Writable, HasRoom, Readable,
       IInv, Typed, ParentEnds, ChildEnds, Ended, Alive, Running
  <2>6. ChildEnds'
    BY <1>4 DEF Select, plugin, sizes, IInv, ChildEnds, Alive, Running
  <2>7. Selected'
    BY <1>4 DEF Select, IInv, Selected, Readable
  <2>8. Signals'
    BY <1>4 DEF Select, IInv, Signals
  <2>9. Delivered'
    BY <1>4 DEF Select, plugin, sizes, IInv, Delivered, Counted, ChildEnds, Alive,
       Running
  <2>10. Ended'
    BY <1>4, NullAssumption DEF Select, plugin, sizes, IInv, Ended
  <2>11. QED BY <2>1, <2>2, <2>3, <2>4, <2>5, <2>6, <2>7, <2>8, <2>9, <2>10 DEF IInv
<1>5. CASE WriteSome
  <2>1. /\ stdin' \in Pipe /\ stdin'.data = stdin.data + 1
           /\ stdin'.writers = stdin.writers /\ stdin'.readers = stdin.readers
        /\ stdout' = stdout
    BY <1>5, PutGives DEF WriteSome, plugin, sizes, IInv, Typed, Procs
  <2>2. Controlled'
    BY <1>5, <2>1 DEF WriteSome, plugin, sizes, IInv, Controlled
  <2>3. Typed'
    BY <1>5, <2>1 DEF WriteSome, sizes, IInv, Typed
  <2>4. Counted'
    BY <1>5, <2>1, CapacityAssumption DEF WriteSome, plugin, sizes, HasRoom, Remaining,
       IInv, Counted, Typed
  <2>5. Unstarted'
    BY <1>5, <2>1 DEF WriteSome, plugin, IInv, Unstarted
  <2>6. ParentEnds'
    BY <1>5, <2>1, NullAssumption DEF WriteSome, IInv, ParentEnds
  <2>7. ChildEnds'
    BY <1>5, <2>1 DEF WriteSome, plugin, sizes, IInv, ChildEnds, Alive, Running
  <2>8. Selected'
    BY <1>5, <2>1 DEF WriteSome, IInv, Selected, Readable
  <2>9. Signals'
    BY <1>5, <2>1 DEF WriteSome, IInv, Signals
  <2>10. Delivered'
    BY <1>5, <2>1 DEF WriteSome, plugin, sizes, HasRoom, Remaining, IInv, Typed,
       Delivered, Counted, ChildEnds, ParentEnds, Alive, Running
  <2>11. Ended'
    BY <1>5, <2>1, NullAssumption DEF WriteSome, plugin, sizes, IInv, Ended
  <2>12. QED BY <2>2, <2>3, <2>4, <2>5, <2>6, <2>7, <2>8, <2>9, <2>10, <2>11 DEF IInv
<1>6. CASE WriteReturns
  <2>1. /\ \/ stdin' = stdin
           \/ /\ stdin' \in Pipe /\ stdin'.data = stdin.data
              /\ stdin'.writers = stdin.writers \ {"parent"}
              /\ stdin'.readers = stdin.readers
        /\ stdout' = stdout
    BY <1>6, CloseGives DEF WriteReturns, plugin, sizes, IInv, Typed, Procs
  <2>2. Controlled'
    BY <1>6, <2>1 DEF WriteReturns, plugin, sizes, AfterWrite, IInv, Controlled
  <2>3. Typed'
    BY <1>6, <2>1 DEF WriteReturns, sizes, IInv, Typed
  <2>4. Counted'
    BY <1>6, <2>1, CapacityAssumption DEF WriteReturns, plugin, sizes, Remaining, IInv,
       Counted, Typed
  <2>5. Unstarted'
    BY <1>6, <2>1 DEF WriteReturns, plugin, AfterWrite, IInv, Unstarted
  <2>6. ParentEnds'
    BY <1>6, <2>1, NullAssumption DEF WriteReturns, AfterWrite, IInv, ParentEnds
  <2>7. ChildEnds'
    BY <1>6, <2>1 DEF WriteReturns, plugin, sizes, IInv, ChildEnds, Alive, Running
  <2>8. Selected'
    BY <1>6, <2>1 DEF WriteReturns, AfterWrite, IInv, Selected, Readable
  <2>9. Signals'
    BY <1>6, <2>1 DEF WriteReturns, AfterWrite, IInv, Signals
  <2>10. Delivered'
    BY <1>6, <2>1 DEF WriteReturns, plugin, sizes, AfterWrite, Remaining, IInv, Typed,
       Delivered, Counted, ChildEnds, ParentEnds, Alive, Running
  <2>11. Ended'
    BY <1>6, <2>1, NullAssumption DEF WriteReturns, plugin, sizes, AfterWrite,
       Remaining, IInv, Typed, Ended, Counted, ParentEnds, ChildEnds, Delivered,
       Signals, Alive, Running
  <2>12. QED BY <2>2, <2>3, <2>4, <2>5, <2>6, <2>7, <2>8, <2>9, <2>10, <2>11 DEF IInv
<1>7. CASE WriteFails
  <2>1. /\ stdin' \in Pipe /\ stdin'.data = stdin.data
           /\ stdin'.writers = stdin.writers \ {"parent"} /\ stdin'.readers = stdin.readers
        /\ stdout' = stdout
    BY <1>7, CloseGives DEF WriteFails, plugin, sizes, IInv, Typed, Procs, Signals
  <2>2. Controlled'
    BY <1>7, <2>1 DEF WriteFails, plugin, sizes, AfterWrite, IInv, Controlled
  <2>3. Typed'
    BY <1>7, <2>1 DEF WriteFails, sizes, IInv, Typed
  <2>4. Counted'
    BY <1>7, <2>1, CapacityAssumption DEF WriteFails, plugin, sizes, Remaining, IInv,
       Counted, Typed
  <2>5. Unstarted'
    BY <1>7, <2>1 DEF WriteFails, plugin, AfterWrite, IInv, Unstarted
  <2>6. ParentEnds'
    BY <1>7, <2>1, NullAssumption DEF WriteFails, AfterWrite, IInv, ParentEnds
  <2>7. ChildEnds'
    BY <1>7, <2>1 DEF WriteFails, plugin, sizes, IInv, ChildEnds, Alive, Running
  <2>8. Selected'
    BY <1>7, <2>1 DEF WriteFails, AfterWrite, IInv, Selected, Readable
  <2>9. Signals'
    BY <1>7, <2>1 DEF WriteFails, AfterWrite, IInv, Signals
  <2>10. Delivered'
    BY <1>7, <2>1 DEF WriteFails, plugin, sizes, Remaining, IInv, Delivered, Counted,
       ChildEnds, Alive, Running
  <2>11. Ended'
    BY <1>7, <2>1, NullAssumption DEF WriteFails, plugin, sizes, AfterWrite, Remaining,
       IInv, Typed, Ended, Counted, ParentEnds, ChildEnds, Delivered, Signals, Alive,
       Running
  <2>12. QED BY <2>2, <2>3, <2>4, <2>5, <2>6, <2>7, <2>8, <2>9, <2>10, <2>11 DEF IInv
<1>8. CASE Read
  <2>1. /\ stdin' = stdin
        /\ stdout' \in Pipe /\ stdout'.data = stdout.data - 1
           /\ stdout'.writers = stdout.writers /\ stdout'.readers = stdout.readers
    BY <1>8, TakeGives DEF Read, plugin, sizes, IInv, Typed, Procs
  <2>2. Controlled'
    BY <1>8, <2>1 DEF Read, plugin, sizes, IInv, Controlled
  <2>3. Typed'
    BY <1>8, <2>1 DEF Read, sizes, IInv, Typed
  <2>4. Counted'
    BY <1>8, <2>1, CapacityAssumption DEF Read, plugin, sizes, IInv, Counted, Typed
  <2>5. Unstarted'
    BY <1>8, <2>1 DEF Read, plugin, IInv, Unstarted
  <2>6. ParentEnds'
    BY <1>8, <2>1, NullAssumption DEF Read, IInv, ParentEnds
  <2>7. ChildEnds'
    BY <1>8, <2>1 DEF Read, plugin, sizes, IInv, ChildEnds, Alive, Running
  <2>8. Selected'
    BY <1>8, <2>1 DEF Read, IInv, Selected, Readable
  <2>9. Signals'
    BY <1>8, <2>1 DEF Read, IInv, Signals
  <2>10. Delivered'
    BY <1>8, <2>1 DEF Read, plugin, sizes, IInv, Delivered, Counted, ChildEnds, Alive,
       Running
  <2>11. Ended'
    BY <1>8, <2>1, NullAssumption DEF Read, plugin, sizes, IInv, Ended
  <2>12. QED BY <2>2, <2>3, <2>4, <2>5, <2>6, <2>7, <2>8, <2>9, <2>10, <2>11 DEF IInv
<1>9. CASE ReadEof
  <2>1. /\ stdin' \in Pipe /\ stdin'.data = stdin.data
           /\ stdin'.writers = stdin.writers \ {"parent"} /\ stdin'.readers = stdin.readers
        /\ stdout' \in Pipe /\ stdout'.data = stdout.data
           /\ stdout'.writers = stdout.writers /\ stdout'.readers = stdout.readers \ {"parent"}
    BY <1>9, CloseGives DEF ReadEof, plugin, sizes, CloseStdin, AtEof, IInv, Typed,
       Procs
  <2>2. Controlled'
    BY <1>9, <2>1 DEF ReadEof, plugin, sizes, IInv, Controlled
  <2>3. Typed'
    BY <1>9, <2>1 DEF ReadEof, sizes, IInv, Typed
  <2>4. Counted'
    BY <1>9, <2>1, CapacityAssumption DEF ReadEof, plugin, sizes, IInv, Counted, Typed
  <2>5. Unstarted'
    BY <1>9, <2>1 DEF ReadEof, plugin, IInv, Unstarted
  <2>6. ParentEnds'
    BY <1>9, <2>1, NullAssumption DEF ReadEof, AtEof, IInv, ParentEnds
  <2>7. ChildEnds'
    BY <1>9, <2>1 DEF ReadEof, plugin, sizes, IInv, ChildEnds, Alive, Running
  <2>8. Selected'
    BY <1>9, <2>1 DEF ReadEof, IInv, Selected, Readable
  <2>9. Signals'
    BY <1>9, <2>1 DEF ReadEof, IInv, Signals
  <2>10. Delivered'
    BY <1>9, <2>1 DEF ReadEof, plugin, sizes, AtEof, IInv, Delivered, Counted,
       ChildEnds, Alive, Running
  <2>11. Ended'
    BY <1>9, <2>1, NullAssumption DEF ReadEof, plugin, sizes, IInv, Ended
  <2>12. QED BY <2>2, <2>3, <2>4, <2>5, <2>6, <2>7, <2>8, <2>9, <2>10, <2>11 DEF IInv
<1>10. CASE Wait
  <2>1. Controlled'
    BY <1>10 DEF Wait, sizes, Outcomes, Parsed, IInv, Controlled
  <2>2. Typed'
    BY <1>10 DEF Wait, sizes, IInv, Typed
  <2>3. Counted'
    BY <1>10, CapacityAssumption DEF Wait, sizes, IInv, Counted, Typed
  <2>4. Unstarted'
    BY <1>10 DEF Wait, IInv, Unstarted
  <2>5. ParentEnds'
    BY <1>10, NullAssumption DEF Wait, Outcomes, IInv, ParentEnds
  <2>6. ChildEnds'
    BY <1>10 DEF Wait, sizes, IInv, ChildEnds, Alive, Running
  <2>7. Selected'
    BY <1>10 DEF Wait, IInv, Selected, Readable
  <2>8. Signals'
    BY <1>10 DEF Wait, IInv, Signals
  <2>9. Delivered'
    BY <1>10 DEF Wait, sizes, IInv, Delivered, Counted, ChildEnds, Alive, Running
  <2>10. Ended'
    <3>1. result' \in {"ok", "failed"} /\ (result' = "ok" => status = "exit 0")
      BY <1>10 DEF Wait, Outcomes, Parsed
    <3>2. output = sent
      BY <1>10 DEF Wait, IInv, Counted, ParentEnds
    <3>. QED
      BY <1>10, <3>1, <3>2, NullAssumption DEF Wait, sizes, IInv, Ended
  <2>11. QED BY <2>1, <2>2, <2>3, <2>4, <2>5, <2>6, <2>7, <2>8, <2>9, <2>10 DEF IInv
<1>11. CASE Setup
  <2>1. /\ stdin' \in Pipe /\ stdin'.data = stdin.data
           /\ stdin'.writers = stdin.writers \ {"child"} /\ stdin'.readers = stdin.readers
        /\ stdout' \in Pipe /\ stdout'.data = stdout.data
           /\ stdout'.writers = stdout.writers /\ stdout'.readers = stdout.readers \ {"child"}
    BY <1>11, CloseGives DEF Setup, parent, sizes, CloseParentEnds, IInv, Typed, Procs
  <2>2. Controlled'
    BY ZenonT(30), <1>11, <2>1 DEF Setup, parent, sizes, IInv, Controlled
  <2>3. Typed'
    BY <1>11, <2>1 DEF Setup, parent, sizes, IInv, Typed
  <2>4. Counted'
    BY <1>11, <2>1, CapacityAssumption DEF Setup, parent, sizes, IInv, Counted, Typed
  <2>5. Unstarted'
    BY <1>11, <2>1 DEF Setup, parent, IInv, Unstarted
  <2>6. ParentEnds'
    BY <1>11, <2>1, NullAssumption DEF Setup, parent, IInv, ParentEnds
  <2>7. ChildEnds'
    BY <1>11, <2>1 DEF Setup, parent, sizes, IInv, ChildEnds, Alive, Running
  <2>8. Selected'
    BY <1>11, <2>1 DEF Setup, parent, IInv, Selected, Readable
  <2>9. Signals'
    BY <1>11, <2>1 DEF Setup, parent, IInv, Signals
  <2>10. Delivered'
    BY <1>11, <2>1 DEF Setup, parent, sizes, IInv, Delivered, Counted, ChildEnds,
       Alive, Running
  <2>11. Ended'
    BY <1>11, <2>1, NullAssumption DEF Setup, parent, sizes, IInv, Ended
  <2>12. QED BY <2>2, <2>3, <2>4, <2>5, <2>6, <2>7, <2>8, <2>9, <2>10, <2>11 DEF IInv
<1>12. CASE Turn
  <2>1. Controlled'
    BY ZenonT(30), <1>12 DEF Turn, parent, sizes, IInv, Controlled
  <2>2. Typed'
    BY <1>12 DEF Turn, parent, sizes, IInv, Typed
  <2>3. Counted'
    BY <1>12, CapacityAssumption DEF Turn, parent, sizes, MayWrite, IInv, Counted, Typed
  <2>4. Unstarted'
    BY <1>12 DEF Turn, parent, IInv, Unstarted
  <2>5. ParentEnds'
    BY <1>12, NullAssumption DEF Turn, parent, IInv, ParentEnds
  <2>6. ChildEnds'
    BY <1>12 DEF Turn, parent, sizes, MayWrite, IInv, ChildEnds, Alive, Running
  <2>7. Selected'
    BY <1>12 DEF Turn, parent, IInv, Selected, Readable
  <2>8. Signals'
    BY <1>12 DEF Turn, parent, IInv, Signals
  <2>9. Delivered'
    BY <1>12 DEF Turn, parent, sizes, MayWrite, Done, IInv, Delivered, Counted,
       ChildEnds, Alive, Running
  <2>10. Ended'
    BY <1>12, NullAssumption DEF Turn, parent, sizes, Done, IInv, Ended
  <2>11. QED BY <2>1, <2>2, <2>3, <2>4, <2>5, <2>6, <2>7, <2>8, <2>9, <2>10 DEF IInv
<1>13. CASE ChildReads
  <2>1. /\ stdin' \in Pipe /\ stdin'.data = stdin.data - 1
           /\ stdin'.writers = stdin.writers /\ stdin'.readers = stdin.readers
        /\ stdout' = stdout
    BY <1>13, TakeGives DEF ChildReads, parent, sizes, IInv, Typed, Procs
  <2>2. Controlled'
    BY <1>13, <2>1 DEF ChildReads, parent, sizes, IInv, Controlled
  <2>3. Typed'
    BY <1>13, <2>1 DEF ChildReads, parent, sizes, IInv, Typed
  <2>4. Counted'
    BY <1>13, <2>1, CapacityAssumption DEF ChildReads, parent, sizes, IInv, Counted,
       Typed
  <2>5. Unstarted'
    BY <1>13, <2>1 DEF ChildReads, parent, IInv, Unstarted
  <2>6. ParentEnds'
    BY <1>13, <2>1, NullAssumption DEF ChildReads, parent, IInv, ParentEnds
  <2>7. ChildEnds'
    BY <1>13, <2>1 DEF ChildReads, parent, sizes, IInv, ChildEnds, Alive, Running
  <2>8. Selected'
    BY <1>13, <2>1 DEF ChildReads, parent, IInv, Selected, Readable
  <2>9. Signals'
    BY <1>13, <2>1 DEF ChildReads, parent, IInv, Signals
  <2>10. Delivered'
    BY <1>13, <2>1 DEF ChildReads, parent, sizes, IInv, Delivered, Counted, ChildEnds,
       Alive, Running
  <2>11. Ended'
    BY <1>13, <2>1, NullAssumption DEF ChildReads, parent, sizes, IInv, Ended
  <2>12. QED BY <2>2, <2>3, <2>4, <2>5, <2>6, <2>7, <2>8, <2>9, <2>10, <2>11 DEF IInv
<1>14. CASE ChildReadsEof
  <2>1. Controlled'
    BY <1>14 DEF ChildReadsEof, parent, sizes, IInv, Controlled
  <2>2. Typed'
    BY <1>14 DEF ChildReadsEof, parent, sizes, IInv, Typed
  <2>3. Counted'
    BY <1>14, CapacityAssumption DEF ChildReadsEof, parent, sizes, IInv, Counted, Typed
  <2>4. Unstarted'
    BY <1>14 DEF ChildReadsEof, parent, IInv, Unstarted
  <2>5. ParentEnds'
    BY <1>14, NullAssumption DEF ChildReadsEof, parent, AtEof, IInv, ParentEnds
  <2>6. ChildEnds'
    BY <1>14 DEF ChildReadsEof, parent, sizes, IInv, ChildEnds, Alive, Running
  <2>7. Selected'
    BY <1>14 DEF ChildReadsEof, parent, IInv, Selected, Readable
  <2>8. Signals'
    BY <1>14 DEF ChildReadsEof, parent, IInv, Signals
  <2>9. Delivered'
    BY <1>14 DEF ChildReadsEof, parent, sizes, AtEof, IInv, Delivered, Counted,
       ChildEnds, Alive, Running
  <2>10. Ended'
    BY <1>14, NullAssumption DEF ChildReadsEof, parent, sizes, IInv, Ended
  <2>11. QED BY <2>1, <2>2, <2>3, <2>4, <2>5, <2>6, <2>7, <2>8, <2>9, <2>10 DEF IInv
<1>15. CASE ChildWrites
  <2>1. /\ stdin' = stdin
        /\ stdout' \in Pipe /\ stdout'.data = stdout.data + 1
           /\ stdout'.writers = stdout.writers /\ stdout'.readers = stdout.readers
    BY <1>15, PutGives DEF ChildWrites, parent, sizes, IInv, Typed, Procs
  <2>2. Controlled'
    BY ZenonT(30), <1>15, <2>1 DEF ChildWrites, parent, sizes, IInv, Controlled
  <2>3. Typed'
    BY <1>15, <2>1 DEF ChildWrites, parent, sizes, IInv, Typed
  <2>4. Counted'
    BY <1>15, <2>1, CapacityAssumption DEF ChildWrites, parent, sizes, HasRoom, IInv,
       Counted, Typed
  <2>5. Unstarted'
    BY <1>15, <2>1 DEF ChildWrites, parent, IInv, Unstarted
  <2>6. ParentEnds'
    BY <1>15, <2>1, NullAssumption DEF ChildWrites, parent, sizes, HasRoom, IInv,
       Typed, ParentEnds, ChildEnds, Ended, Alive, Running
  <2>7. ChildEnds'
    BY <1>15, <2>1 DEF ChildWrites, parent, sizes, IInv, ChildEnds, Alive, Running
  <2>8. Selected'
    BY <1>15, <2>1 DEF ChildWrites, parent, IInv, Selected, Counted, Readable
  <2>9. Signals'
    BY <1>15, <2>1 DEF ChildWrites, parent, IInv, Signals
  <2>10. Delivered'
    BY <1>15, <2>1 DEF ChildWrites, parent, sizes, IInv, Delivered, Counted, ChildEnds,
       Alive, Running
  <2>11. Ended'
    BY <1>15, <2>1, NullAssumption DEF ChildWrites, parent, sizes, IInv, Ended
  <2>12. QED BY <2>2, <2>3, <2>4, <2>5, <2>6, <2>7, <2>8, <2>9, <2>10, <2>11 DEF IInv
<1>16. CASE Exit
  <2>1. /\ stdin' \in Pipe /\ stdin'.data = stdin.data
           /\ stdin'.writers = stdin.writers \ {"child"} /\ stdin'.readers = stdin.readers \ {"child"}
        /\ stdout' \in Pipe /\ stdout'.data = stdout.data
           /\ stdout'.writers = stdout.writers \ {"child"} /\ stdout'.readers = stdout.readers \ {"child"}
    BY <1>16, CloseBothGives DEF Exit, Ends, parent, sizes, IInv, Typed, Procs
  <2>2. Controlled'
    BY <1>16, <2>1 DEF Exit, Ends, parent, sizes, IInv, Controlled
  <2>3. Typed'
    BY <1>16, <2>1 DEF Exit, Ends, parent, sizes, IInv, Typed
  <2>4. Counted'
    BY <1>16, <2>1, CapacityAssumption DEF Exit, Ends, parent, sizes, IInv, Counted,
       Typed
  <2>5. Unstarted'
    BY <1>16, <2>1 DEF Exit, Ends, parent, IInv, Unstarted
  <2>6. ParentEnds'
    BY <1>16, <2>1, NullAssumption DEF Exit, Ends, parent, IInv, ParentEnds
  <2>7. ChildEnds'
    BY <1>16, <2>1 DEF Exit, Ends, parent, sizes, IInv, ChildEnds, Alive, Running
  <2>8. Selected'
    BY <1>16, <2>1 DEF Exit, Ends, parent, IInv, Selected, Readable
  <2>9. Signals'
    BY <1>16, <2>1 DEF Exit, Ends, parent, IInv, Signals
  <2>10. Delivered'
    BY <1>16, <2>1 DEF Exit, Ends, parent, sizes, Done, IInv, Delivered, Counted,
       ChildEnds, Alive, Running
  <2>11. Ended'
    BY <1>16, <2>1, NullAssumption DEF Exit, Ends, parent, sizes, Done, IInv, Typed,
       Ended, Counted, ParentEnds, ChildEnds, Delivered, Signals, Alive, Running
  <2>12. QED BY <2>2, <2>3, <2>4, <2>5, <2>6, <2>7, <2>8, <2>9, <2>10, <2>11 DEF IInv
<1>17. CASE ExitEarly
  <2>1. /\ stdin' \in Pipe /\ stdin'.data = stdin.data
           /\ stdin'.writers = stdin.writers \ {"child"} /\ stdin'.readers = stdin.readers \ {"child"}
        /\ stdout' \in Pipe /\ stdout'.data = stdout.data
           /\ stdout'.writers = stdout.writers \ {"child"} /\ stdout'.readers = stdout.readers \ {"child"}
    BY <1>17, CloseBothGives DEF ExitEarly, Ends, parent, sizes, IInv, Typed, Procs
  <2>2. Controlled'
    BY <1>17, <2>1 DEF ExitEarly, Ends, parent, sizes, IInv, Controlled
  <2>3. Typed'
    BY <1>17, <2>1 DEF ExitEarly, Ends, parent, sizes, IInv, Typed
  <2>4. Counted'
    BY <1>17, <2>1, CapacityAssumption DEF ExitEarly, Ends, parent, sizes, IInv,
       Counted, Typed
  <2>5. Unstarted'
    BY <1>17, <2>1 DEF ExitEarly, Ends, parent, IInv, Unstarted
  <2>6. ParentEnds'
    BY <1>17, <2>1, NullAssumption DEF ExitEarly, Ends, parent, IInv, ParentEnds
  <2>7. ChildEnds'
    BY <1>17, <2>1 DEF ExitEarly, Ends, parent, sizes, IInv, ChildEnds, Alive, Running
  <2>8. Selected'
    BY <1>17, <2>1 DEF ExitEarly, Ends, parent, IInv, Selected, Readable
  <2>9. Signals'
    BY <1>17, <2>1 DEF ExitEarly, Ends, parent, IInv, Signals
  <2>10. Delivered'
    BY <1>17, <2>1 DEF ExitEarly, Ends, parent, sizes, IInv, Delivered, Counted,
       ChildEnds, Alive, Running
  <2>11. Ended'
    BY <1>17, <2>1, NullAssumption DEF ExitEarly, Ends, parent, sizes, IInv, Ended
  <2>12. QED BY <2>2, <2>3, <2>4, <2>5, <2>6, <2>7, <2>8, <2>9, <2>10, <2>11 DEF IInv
<1>18. CASE CloseStdout
  <2>1. /\ stdin' = stdin
        /\ stdout' \in Pipe /\ stdout'.data = stdout.data
           /\ stdout'.writers = stdout.writers \ {"child"} /\ stdout'.readers = stdout.readers
    BY <1>18, CloseGives DEF CloseStdout, plugin, parent, sizes, IInv, Typed, Procs
  <2>2. Controlled'
    BY <1>18, <2>1 DEF CloseStdout, plugin, parent, sizes, IInv, Controlled
  <2>3. Typed'
    BY <1>18, <2>1 DEF CloseStdout, parent, sizes, IInv, Typed
  <2>4. Counted'
    BY <1>18, <2>1, CapacityAssumption DEF CloseStdout, plugin, parent, sizes, IInv,
       Counted, Typed
  <2>5. Unstarted'
    BY <1>18, <2>1 DEF CloseStdout, plugin, parent, IInv, Unstarted
  <2>6. ParentEnds'
    BY <1>18, <2>1, NullAssumption DEF CloseStdout, parent, IInv, ParentEnds
  <2>7. ChildEnds'
    BY <1>18, <2>1 DEF CloseStdout, plugin, parent, sizes, IInv, ChildEnds, Alive,
       Running
  <2>8. Selected'
    BY <1>18, <2>1 DEF CloseStdout, parent, IInv, Selected, Readable
  <2>9. Signals'
    BY <1>18, <2>1 DEF CloseStdout, parent, IInv, Signals
  <2>10. Delivered'
    BY <1>18, <2>1 DEF CloseStdout, plugin, parent, sizes, IInv, Delivered, Counted,
       ChildEnds, Alive, Running
  <2>11. Ended'
    BY <1>18, <2>1, NullAssumption DEF CloseStdout, plugin, parent, sizes, IInv, Ended
  <2>12. QED BY <2>2, <2>3, <2>4, <2>5, <2>6, <2>7, <2>8, <2>9, <2>10, <2>11 DEF IInv
<1>19. CASE Fail
  <2>1. /\ stdin' \in Pipe /\ stdin'.data = stdin.data
           /\ stdin'.writers = stdin.writers \ {"child"} /\ stdin'.readers = stdin.readers \ {"child"}
        /\ stdout' \in Pipe /\ stdout'.data = stdout.data
           /\ stdout'.writers = stdout.writers \ {"child"} /\ stdout'.readers = stdout.readers \ {"child"}
    BY <1>19, CloseBothGives DEF Fail, Ends, parent, sizes, IInv, Typed, Procs
  <2>2. Controlled'
    BY <1>19, <2>1 DEF Fail, Ends, parent, sizes, IInv, Controlled
  <2>3. Typed'
    BY <1>19, <2>1 DEF Fail, Ends, parent, sizes, IInv, Typed
  <2>4. Counted'
    BY <1>19, <2>1, CapacityAssumption DEF Fail, Ends, parent, sizes, IInv, Counted,
       Typed
  <2>5. Unstarted'
    BY <1>19, <2>1 DEF Fail, Ends, parent, sizes, Running, IInv, Typed, Unstarted
  <2>6. ParentEnds'
    BY <1>19, <2>1, NullAssumption DEF Fail, Ends, parent, IInv, ParentEnds
  <2>7. ChildEnds'
    BY <1>19, <2>1 DEF Fail, Ends, parent, sizes, IInv, ChildEnds, Alive, Running
  <2>8. Selected'
    BY <1>19, <2>1 DEF Fail, Ends, parent, IInv, Selected, Readable
  <2>9. Signals'
    BY <1>19, <2>1 DEF Fail, Ends, parent, IInv, Signals
  <2>10. Delivered'
    BY <1>19, <2>1 DEF Fail, Ends, parent, sizes, IInv, Delivered, Counted, ChildEnds,
       Alive, Running
  <2>11. Ended'
    BY <1>19, <2>1, NullAssumption DEF Fail, Ends, parent, sizes, Running, IInv, Typed,
       Ended, Counted, ParentEnds, ChildEnds, Delivered, Signals, Alive
  <2>12. QED BY <2>2, <2>3, <2>4, <2>5, <2>6, <2>7, <2>8, <2>9, <2>10, <2>11 DEF IInv
<1>20. CASE Crash
  <2>1. /\ stdin' \in Pipe /\ stdin'.data = stdin.data
           /\ stdin'.writers = stdin.writers \ {"child"} /\ stdin'.readers = stdin.readers \ {"child"}
        /\ stdout' \in Pipe /\ stdout'.data = stdout.data
           /\ stdout'.writers = stdout.writers \ {"child"} /\ stdout'.readers = stdout.readers \ {"child"}
    BY <1>20, CloseBothGives DEF Crash, Ends, parent, sizes, IInv, Typed, Procs
  <2>2. Controlled'
    BY <1>20, <2>1 DEF Crash, Ends, parent, sizes, IInv, Controlled
  <2>3. Typed'
    BY <1>20, <2>1 DEF Crash, Ends, parent, sizes, IInv, Typed
  <2>4. Counted'
    BY <1>20, <2>1, CapacityAssumption DEF Crash, Ends, parent, sizes, IInv, Counted,
       Typed
  <2>5. Unstarted'
    BY <1>20, <2>1 DEF Crash, Ends, parent, sizes, Running, IInv, Typed, Unstarted
  <2>6. ParentEnds'
    BY <1>20, <2>1, NullAssumption DEF Crash, Ends, parent, IInv, ParentEnds
  <2>7. ChildEnds'
    BY <1>20, <2>1 DEF Crash, Ends, parent, sizes, IInv, ChildEnds, Alive, Running
  <2>8. Selected'
    BY <1>20, <2>1 DEF Crash, Ends, parent, IInv, Selected, Readable
  <2>9. Signals'
    BY <1>20, <2>1 DEF Crash, Ends, parent, IInv, Signals
  <2>10. Delivered'
    BY <1>20, <2>1 DEF Crash, Ends, parent, sizes, IInv, Delivered, Counted, ChildEnds,
       Alive, Running
  <2>11. Ended'
    BY <1>20, <2>1, NullAssumption DEF Crash, Ends, parent, sizes, Running, IInv,
       Typed, Ended, Counted, ParentEnds, ChildEnds, Delivered, Signals, Alive
  <2>12. QED BY <2>2, <2>3, <2>4, <2>5, <2>6, <2>7, <2>8, <2>9, <2>10, <2>11 DEF IInv
<1>21. CASE Interrupted
  BY <1>21, StutterPreserves DEF Interrupted
<1>22. QED BY <1>1, <1>2, <1>3, <1>4, <1>5, <1>6, <1>7, <1>8, <1>9, <1>10, <1>11,
         <1>12, <1>13, <1>14, <1>15, <1>16, <1>17, <1>18, <1>19, <1>20, <1>21 DEF Next,
         Parent, Child

-----------------------------------------------------------------------------
(* In every run of the parent and its child, whatever the sizes of the pipes *)
(* and messages, the ends of the pipes, what went through them and the       *)
(* control of the two processes are related as IInv says.                    *)
THEOREM Inductive == Spec => []IInv
<1>1. Init => IInv
  BY InitEstablishes
<1>2. IInv /\ [Next]_vars => IInv'
  BY StepPreserves, StutterPreserves
<1>. QED
  BY <1>1, <1>2, PTL DEF Spec

(* No pipe holds more than it can, and nothing that went into one is lost    *)
THEOREM TypeCorrect == Spec => []TypeOK
<1>1. IInv => TypeOK
  <2>. SUFFICES ASSUME IInv PROVE TypeOK
    OBVIOUS
  <2>1. stdin \in PipeType /\ stdout \in PipeType
    BY CapacityAssumption DEF IInv, Typed, Counted, Pipe, PipeType, Procs
  <2>2. /\ input_pos \in 0 .. request /\ output \in 0 .. response
        /\ got + stdin.data <= request /\ output + stdout.data = sent /\ sent <= response
    BY DEF IInv, Typed, Counted
  <2>3. status # NULL <=> child \in {"ended", "reaped"}
    BY DEF IInv, Ended
  <2>. QED
    BY <2>1, <2>2, <2>3 DEF TypeOK
<1>. QED
  BY <1>1, Inductive, PTL

(* Communicate returns true only for the whole output of a child that exited *)
(* with 0; a plugin has then read the whole request and written the whole    *)
(* response.                                                                 *)
THEOREM TrueMeansComplete == Spec => []OkMeansComplete
<1>1. IInv => OkMeansComplete
  BY DEF IInv, Ended, OkMeansComplete
<1>. QED
  BY <1>1, Inductive, PTL

(* Once Communicate has returned from its loop, both descriptors are closed, *)
(* the child is reaped and SIGPIPE restored, whatever the child did.         *)
THEOREM AlwaysCleansUp == Spec => []CleansUp
<1>1. IInv => CleansUp
  BY DEF IInv, ParentEnds, Ended, CleansUp
<1>. QED
  BY <1>1, Inductive, PTL

(* A child that closes its input, or dies, never kills protoc by SIGPIPE     *)
THEOREM NeverKilled == Spec => []SurvivesTheChild
<1>1. IInv => SurvivesTheChild
  BY DEF IInv, Signals, SurvivesTheChild
<1>. QED
  BY <1>1, Inductive, PTL

(* The read after a select finds data or the end, though a write of any      *)
(* length may have come between                                              *)
THEOREM ReadsAtOnce == Spec => []ReadNeverBlocks
<1>1. IInv => ReadNeverBlocks
  BY DEF IInv, Selected, ReadNeverBlocks
<1>. QED
  BY <1>1, Inductive, PTL

(* protoc and its child never block in their writes for each other, for any  *)
(* sizes, if requests to other children than plugins of this repository fit  *)
(* in a pipe: a plugin has seen the end of its input when it writes.         *)
THEOREM NeverWaitForEachOther ==
    ASSUME MaxFiltered <= Capacity
    PROVE  Spec => []NoMutualWait
<1>1. IInv => NoMutualWait
  <2>. SUFFICES ASSUME IInv, pc = "write", Remaining > 0, ~HasRoom(stdin), child = "writing"
                PROVE  FALSE
    BY DEF NoMutualWait
  <2>1. CASE kind = "plugin"
    BY <2>1 DEF IInv, Delivered, ParentEnds
  <2>2. CASE kind = "filter"
    <3>1. request <= Capacity
      BY <2>2, BoundsAssumption, CapacityAssumption DEF IInv, Typed
    <3>2. stdin.data < request
      BY DEF IInv, Typed, Counted, Remaining
    <3>. QED
      BY <3>1, <3>2, CapacityAssumption DEF IInv, Typed, Counted, HasRoom
  <2>. QED
    BY <2>1, <2>2 DEF IInv, Controlled
<1>. QED
  BY <1>1, Inductive, PTL
=============================================================================
