----------------------------- MODULE Subprocess -----------------------------
(***************************************************************************)
(* protoc runs a plugin (compiler/subprocess.cc): Start forks and connects *)
(* two pipes; Communicate writes the request to one and reads the response *)
(* from the other, multiplexed by select, then waits for the child.  The   *)
(* descriptors are blocking, and select only says that some byte can be    *)
(* moved.                                                                  *)
(*                                                                         *)
(* The child is a plugin of this repository (PluginMain in plugin.cc: the  *)
(* whole request is parsed before the response is written) or any filter   *)
(* that reads and writes as it likes; each may fail at any moment.  Data   *)
(* is counted in units that a pipe holds Capacity of.                      *)
(***************************************************************************)
EXTENDS Integers

CONSTANTS
    Capacity,    \* units that a pipe holds
    MaxRequest, MaxResponse, \* bounds: the sizes of the messages
    MaxFiltered, \* bound: the size of a request to a filter
    NULL

ASSUME CapacityAssumption == Capacity \in Nat \ {0}

ASSUME BoundsAssumption ==
    MaxRequest \in Nat /\ MaxResponse \in Nat /\ MaxFiltered \in 0 .. MaxRequest

ASSUME NullAssumption ==
    NULL \notin {"exit 0", "exit 1", "signal", "ok", "failed", "unserializable"}

VARIABLES
    kind,      \* what the child is: "plugin" or "filter"
    request, response,  \* sizes of the messages
    stdin, stdout,      \* the pipes, named after the child's descriptors
    pc,        \* control state of the parent
    ready,     \* what select found: the sets of descriptors
    written,   \* the write of the parent has moved some data
    input_pos, output,  \* units written and read by the parent
    sigpipe,   \* disposition of SIGPIPE in the parent
    result,    \* what Communicate returned
    child,     \* control state of the child
    got, sent, \* units read and written by the child
    eof,       \* the child has seen the end of its input
    status     \* how the child ended

parent == <<pc, ready, written, input_pos, output, sigpipe, result>>
plugin == <<child, got, sent, eof, status>>
sizes  == <<kind, request, response>>
vars   == <<sizes, stdin, stdout, parent, plugin>>

-----------------------------------------------------------------------------
(* A pipe keeps the processes that hold each of its ends *)

Closed == [data |-> 0, writers |-> {}, readers |-> {}]
Opened == [data |-> 0, writers |-> {"parent", "child"}, readers |-> {"parent", "child"}]

HasRoom(p) == p.data < Capacity
AtEof(p) == p.data = 0 /\ p.writers = {}
(* Fault: what was written is not accounted for *)
Put_NotCounted(p) == p
Put(p) == [p EXCEPT !.data = @ + 1]
Take(p) == [p EXCEPT !.data = @ - 1]
CloseWriter(p, who) == [p EXCEPT !.writers = @ \ {who}]
CloseReader(p, who) == [p EXCEPT !.readers = @ \ {who}]
CloseBoth(p, who) == CloseReader(CloseWriter(p, who), who)

Init ==
    /\ kind \in {"plugin", "filter"}
    /\ request \in 0 .. (IF kind = "filter" THEN MaxFiltered ELSE MaxRequest)
    /\ response \in 0 .. MaxResponse
    /\ stdin = Closed /\ stdout = Closed
    /\ pc = "start" /\ ready = {} /\ written = FALSE
    /\ input_pos = 0 /\ output = 0 /\ sigpipe = "default" /\ result = NULL
    /\ child = "none" /\ got = 0 /\ sent = 0 /\ eof = FALSE /\ status = NULL

-----------------------------------------------------------------------------
(* The parent *)

(* pipe, pipe, fork: both processes hold all four ends *)
Start ==
    /\ pc = "start" /\ pc' = "forked"
    /\ stdin' = Opened /\ stdout' = Opened
    /\ child' = "setup"
    /\ UNCHANGED <<sizes, ready, written, input_pos, output, sigpipe, result,
                   got, sent, eof, status>>

CloseChildEnds ==
    /\ pc = "forked" /\ pc' = "communicate"
    /\ stdin' = CloseReader(stdin, "parent")
    /\ stdout' = CloseWriter(stdout, "parent")
    /\ UNCHANGED <<sizes, ready, written, input_pos, output, sigpipe, result, plugin>>

(* Fault: SIGPIPE keeps its default *)
IgnoreSigpipe_Not == sigpipe
IgnoreSigpipe == "ignored"

(* The request may be too large to serialize: an early return *)
Serialize ==
    /\ pc = "communicate"
    /\ sigpipe' = IgnoreSigpipe
    /\ \/ pc' = "select" /\ UNCHANGED result
       \/ pc' = "returned" /\ result' = "unserializable"
    /\ UNCHANGED <<sizes, stdin, stdout, ready, written, input_pos, output, plugin>>

Readable == stdout.data > 0 \/ stdout.writers = {}

Writable ==
    /\ "parent" \in stdin.writers
    /\ HasRoom(stdin) \/ stdin.readers = {}

(* select blocks until a descriptor is ready.  Fault: FD_ISSET of the read   *)
(* set is not asked.                                                         *)
Select_ReadsAnyway ==
    /\ pc = "select"
    /\ Readable \/ Writable
    /\ ready' = {"stdout"} \cup {f \in {"stdin"} : Writable}
    /\ pc' = IF Writable THEN "write" ELSE "read"
    /\ written' = FALSE
    /\ UNCHANGED <<sizes, stdin, stdout, input_pos, output, sigpipe, result, plugin>>

Select ==
    /\ pc = "select"
    /\ Readable \/ Writable
    /\ ready' = {f \in {"stdout"} : Readable} \cup {f \in {"stdin"} : Writable}
    /\ pc' = IF Writable THEN "write" ELSE "read"
    /\ written' = FALSE
    /\ UNCHANGED <<sizes, stdin, stdout, input_pos, output, sigpipe, result, plugin>>

(* EINTR: "Interrupted by signal.  Try again." *)
Interrupted == pc = "select" /\ UNCHANGED vars

Remaining == request - input_pos

(* write() on a blocking descriptor moves what fits, and waits for the rest  *)
WriteSome ==
    /\ pc = "write"
    /\ Remaining > 0 /\ HasRoom(stdin) /\ stdin.readers # {}
    /\ stdin' = Put(stdin)
    /\ input_pos' = input_pos + 1
    /\ written' = TRUE
    /\ UNCHANGED <<sizes, stdout, pc, ready, output, sigpipe, result, plugin>>

AfterWrite == IF "stdout" \in ready THEN "read" ELSE "select"

(* ... until all is written, or the last reader has gone *)
WriteReturns ==
    /\ pc = "write"
    /\ Remaining = 0 \/ (written /\ stdin.readers = {})
    /\ stdin' = IF Remaining = 0 THEN CloseWriter(stdin, "parent") ELSE stdin
    /\ pc' = AfterWrite
    /\ UNCHANGED <<sizes, stdout, ready, written, input_pos, output, sigpipe, result, plugin>>

(* "Child closed pipe.  Presumably it will report an error later." *)
WriteFails ==
    /\ pc = "write"
    /\ Remaining > 0 /\ ~written /\ stdin.readers = {}
    /\ IF sigpipe = "default"
       THEN pc' = "killed" /\ UNCHANGED <<stdin, input_pos>>
       ELSE /\ pc' = AfterWrite
            /\ input_pos' = request
            /\ stdin' = CloseWriter(stdin, "parent")
    /\ UNCHANGED <<sizes, stdout, ready, written, output, sigpipe, result, plugin>>

Read ==
    /\ pc = "read"
    /\ stdout.data > 0
    /\ stdout' = Take(stdout)
    /\ output' = output + 1
    /\ pc' = "select"
    /\ UNCHANGED <<sizes, stdin, ready, written, input_pos, sigpipe, result, plugin>>

(* "Child did not finish reading input before it closed the output": stdin  *)
(* is closed too.  Fault: it is not.                                        *)
CloseStdin_Not == stdin
CloseStdin == CloseWriter(stdin, "parent")

ReadEof ==
    /\ pc = "read"
    /\ AtEof(stdout)
    /\ stdout' = CloseReader(stdout, "parent")
    /\ stdin' = CloseStdin
    /\ pc' = "wait"
    /\ UNCHANGED <<sizes, ready, written, input_pos, output, sigpipe, result, plugin>>

(* Output that is not a plugin's, or is not all of it, may be parseable all  *)
(* the same.  Fault: WIFSIGNALED is not asked.                               *)
Parsed == IF kind = "plugin" /\ output = response THEN {"ok"} ELSE {"ok", "failed"}

Outcomes_AnyEnd == IF status = "exit 1" THEN {"failed"} ELSE Parsed
Outcomes == IF status # "exit 0" THEN {"failed"} ELSE Parsed

(* waitpid, "Restore SIGPIPE handling", and the result *)
Wait ==
    /\ pc = "wait" /\ child = "ended"
    /\ pc' = "returned"
    /\ child' = "reaped"
    /\ sigpipe' = "default"
    /\ result' \in Outcomes
    /\ UNCHANGED <<sizes, stdin, stdout, ready, written, input_pos, output,
                   got, sent, eof, status>>

Parent ==
    \/ Start \/ CloseChildEnds \/ Serialize \/ Select
    \/ WriteSome \/ WriteReturns \/ WriteFails \/ Read \/ ReadEof \/ Wait

-----------------------------------------------------------------------------
(* The child *)

(* Fault: it keeps its copies of the parent's ends *)
CloseParentEnds_Not == UNCHANGED <<stdin, stdout>>
CloseParentEnds ==
    /\ stdin' = CloseWriter(stdin, "child")
    /\ stdout' = CloseReader(stdout, "child")

(* dup2, close, exec *)
Setup ==
    /\ child = "setup" /\ child' = "ready"
    /\ CloseParentEnds
    /\ UNCHANGED <<sizes, parent, got, sent, eof, status>>

Running == child \in {"ready", "reading", "writing"}

Done == eof /\ sent = response

(* Fault: a plugin that answers while it reads *)
MayWrite_BeforeEof == sent < response /\ "child" \in stdout.writers
MayWrite ==
    /\ sent < response /\ "child" \in stdout.writers
    /\ kind = "plugin" => eof

(* PluginMain: ParseFromFileDescriptor reads to the end of the input, then   *)
(* SerializeToFileDescriptor writes                                          *)
Turn ==
    /\ child = "ready" /\ ~Done
    /\ child' \in {"reading", "writing"}
    /\ child' = "reading" => ~eof
    /\ child' = "writing" => MayWrite
    /\ UNCHANGED <<sizes, stdin, stdout, parent, got, sent, eof, status>>

ChildReads ==
    /\ child = "reading" /\ child' = "ready"
    /\ stdin.data > 0
    /\ stdin' = Take(stdin)
    /\ got' = got + 1
    /\ UNCHANGED <<sizes, stdout, parent, sent, eof, status>>

ChildReadsEof ==
    /\ child = "reading" /\ child' = "ready"
    /\ AtEof(stdin)
    /\ eof' = TRUE
    /\ UNCHANGED <<sizes, stdin, stdout, parent, got, sent, status>>

ChildWrites ==
    /\ child = "writing" /\ child' = "ready"
    /\ HasRoom(stdout) /\ stdout.readers # {}
    /\ stdout' = Put(stdout)
    /\ sent' = sent + 1
    /\ UNCHANGED <<sizes, stdin, parent, got, eof, status>>

Ends(how) ==
    /\ child' = "ended" /\ status' = how
    /\ stdin' = CloseBoth(stdin, "child")
    /\ stdout' = CloseBoth(stdout, "child")
    /\ UNCHANGED <<sizes, parent, got, sent, eof>>

Exit ==
    /\ child = "ready"
    /\ Done \/ (eof /\ "child" \notin stdout.writers)
    /\ Ends("exit 0")

Child == Setup \/ Turn \/ ChildReads \/ ChildReadsEof \/ ChildWrites \/ Exit

(* A filter need not use all of its input, nor keep its output open *)
ExitEarly == kind = "filter" /\ child = "ready" /\ Ends("exit 0")

CloseStdout ==
    /\ kind = "filter" /\ child = "ready" /\ "child" \in stdout.writers
    /\ stdout' = CloseWriter(stdout, "child")
    /\ UNCHANGED <<sizes, stdin, parent, plugin>>

(* exec fails, the request is unparseable, the generator fails *)
Fail == (child = "setup" \/ Running) /\ Ends("exit 1")

Crash == Running /\ Ends("signal")

Next ==
    \/ Parent \/ Interrupted
    \/ Child \/ ExitEarly \/ CloseStdout \/ Fail \/ Crash

Spec == Init /\ [][Next]_vars

(* protoc runs, and so does a child that has something to do *)
FairSpec == Spec /\ WF_vars(Parent) /\ WF_vars(Child)

-----------------------------------------------------------------------------
(* Properties *)

PipeType ==
    [data : 0 .. Capacity, writers : SUBSET {"parent", "child"},
     readers : SUBSET {"parent", "child"}]

TypeOK ==
    /\ stdin \in PipeType /\ stdout \in PipeType
    /\ input_pos \in 0 .. request /\ output \in 0 .. response
    /\ got + stdin.data <= request /\ output + stdout.data = sent /\ sent <= response
    /\ status # NULL <=> child \in {"ended", "reaped"}

(* Communicate returns true only for the complete output of a child that     *)
(* exited with 0, and then a plugin has had the complete request             *)
OkMeansComplete ==
    result = "ok" =>
        /\ status = "exit 0" /\ output = sent
        /\ kind = "plugin" => got = request /\ output = response

(* Whatever the child does, once Communicate has returned no descriptor and  *)
(* no zombie is left, and SIGPIPE is as before -- except after the early     *)
(* return that Serialize models                                              *)
CleansUp ==
    pc = "returned" /\ result # "unserializable" =>
        /\ "parent" \notin stdin.writers \cup stdout.readers
        /\ child = "reaped" /\ sigpipe = "default"

(* A child that dies early does not kill protoc *)
SurvivesTheChild == pc # "killed"

(* The read that follows a select, and perhaps a long write, has something   *)
(* to read, or the end                                                       *)
ReadNeverBlocks == pc = "read" => Readable

(* Communicate returns, if the child goes on as long as it can *)
CommunicateReturns == <>(pc = "returned")

(* "All this is done carefully to avoid deadlocks": the parent is not blocked *)
(* in write while the child is blocked in its own.  Only a child that reads   *)
(* all of its input first, or a request that fits in the pipe, makes this     *)
(* true: a filter that is sent more does not.                                 *)
NoMutualWait ==
    ~ /\ pc = "write" /\ Remaining > 0 /\ ~HasRoom(stdin)
      /\ child = "writing" /\ ~HasRoom(stdout)
      /\ stdin.readers # {} /\ stdout.readers # {}
=============================================================================
