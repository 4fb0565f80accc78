----------------------------- MODULE DeviceEvents -----------------------------
(***************************************************************************)
(* The stream and event operations of DeviceManager,                       *)
(* src/src/dot/device_manager.rs, driven by the pipeline the spec          *)
(* describes: on every device a compare stream and an open stream; the    *)
(* host, for each of Iterations batches, copies the query in, submits the *)
(* compare kernels, records the events on the compare streams, makes the  *)
(* open streams wait on them and submits the open kernels; at the end it  *)
(* synchronizes all streams before reading results back.                  *)
(*                                                                         *)
(* A stream is a FIFO of submitted work that the device runs in order,     *)
(* concurrently with the host and with the other streams.  As in CUDA, a  *)
(* cuStreamWaitEvent waits for the most recent record of the event        *)
(* submitted before the wait call (none: no wait), and a record, once the *)
(* stream reaches it, marks that record complete.  Kernel bodies are      *)
(* abstracted to their names.                                              *)
(***************************************************************************)
EXTENDS Integers, Sequences

CONSTANTS
  N,           \* self.devices.len()
  Iterations   \* batches the host submits

ASSUME N \in Nat \ {0} /\ Iterations \in Nat \ {0}

Dev == 0..(N - 1)
Streams == {"cmp", "open"}
Batches == 1..Iterations

(* Work a stream runs: a kernel or copy named <<step, batch>>, a record of *)
(* event e as its n-th record, a wait for the n-th record of event e.    *)
Kernel(step, k) == [op |-> "kernel", name |-> <<step, k>>]
RecordOp(e, n) == [op |-> "record", ev |-> e, n |-> n]
WaitOp(e, n) == [op |-> "wait", ev |-> e, n |-> n]

VARIABLES
  host_pc,   \* the host's step: "query", "compare", "record", "await",
             \* "open", "sync", "done"
  batch,     \* the batch the host is submitting
  sync_s,    \* await_streams: the stream set being synchronized
  sync_i,    \* await_streams: the device index of its loop
  queue,     \* queue[d][s]: the work submitted to stream s of device d, not run
  completed, \* completed[d]: the names of the kernels device d has run
  recorded,  \* recorded[e]: how many records of event e were submitted
  fired      \* fired[e]: the latest record of event e a stream has reached

vars == <<host_pc, batch, sync_s, sync_i, queue, completed, recorded, fired>>

(* Append work[d] to stream s of every device d, as the per-device loops do. *)
AppendAll(s, work) == [d \in Dev |-> [queue[d] EXCEPT ![s] = Append(@, work[d])]]

-----------------------------------------------------------------------------
(* Mutant: stream idx paired with the event of the next device.            *)
EventOf_shifted(idx) == (idx + 1) % N
(* await_event, lines 76-80: streams[idx] waits on events[idx].             *)
EventOf(idx) == idx

(* Mutants: the loop bound one too high; one too low.                      *)
MoreDevices_inclusive(i, n) == i <= n
MoreDevices_short(i, n) == i < n - 1
(* await_streams, line 48: for i in 0..self.devices.len().                 *)
MoreDevices(i, n) == i < n

-----------------------------------------------------------------------------
Init ==
  /\ host_pc = "query" /\ batch = 1
  /\ sync_s = "cmp" /\ sync_i = 0
  /\ queue = [d \in Dev |-> [s \in Streams |-> <<>>]]
  /\ completed = [d \in Dev |-> {}]
  /\ recorded = [e \in Dev |-> 0]
  /\ fired = [e \in Dev |-> 0]

HostStep(next) ==
  /\ host_pc' = next
  /\ UNCHANGED <<batch, sync_s, sync_i, completed, recorded, fired>>

(* htod_transfer_query, lines 86-107: on every device, malloc_async and    *)
(* memcpy_htod_async of both query halves on the device's stream.         *)
HtodTransferQuery ==
  /\ host_pc = "query"
  /\ queue' = AppendAll("cmp", [d \in Dev |-> Kernel("h2d", batch)])
  /\ HostStep("compare")

(* The caller submits the compare kernels to every compare stream.        *)
Compare ==
  /\ host_pc = "compare"
  /\ queue' = AppendAll("cmp", [d \in Dev |-> Kernel("cmp", batch)])
  /\ HostStep("record")

(* record_event, lines 63-70: event::record(events[idx], streams[idx]).    *)
RecordEvent ==
  /\ host_pc = "record"
  /\ recorded' = [e \in Dev |-> recorded[e] + 1]
  /\ queue' = AppendAll("cmp", [d \in Dev |-> RecordOp(d, recorded[d] + 1)])
  /\ host_pc' = "await"
  /\ UNCHANGED <<batch, sync_s, sync_i, completed, fired>>

(* await_event, lines 72-84: wait_event(streams[idx], events[idx]) on the  *)
(* open streams: a wait for the latest record submitted so far.           *)
AwaitEvent ==
  /\ host_pc = "await"
  /\ queue' = AppendAll("open", [d \in Dev |-> WaitOp(EventOf(d), recorded[EventOf(d)])])
  /\ HostStep("open")

(* The caller submits the open kernels; then the next batch or the sync.  *)
Open ==
  /\ host_pc = "open"
  /\ queue' = AppendAll("open", [d \in Dev |-> Kernel("open", batch)])
  /\ IF batch < Iterations
     THEN host_pc' = "query" /\ batch' = batch + 1
     ELSE host_pc' = "sync" /\ UNCHANGED batch
  /\ UNCHANGED <<sync_s, sync_i, completed, recorded, fired>>

(* await_streams, lines 47-52, on the compare streams and then on the open *)
(* streams: for each device in turn, synchronize blocks the host until    *)
(* the stream has run all its work.                                        *)
AwaitStreams ==
  /\ host_pc = "sync"
  /\ queue[sync_i][sync_s] = <<>>
  /\ IF MoreDevices(sync_i + 1, N)
     THEN sync_i' = sync_i + 1 /\ UNCHANGED <<sync_s, host_pc>>
     ELSE /\ sync_i' = 0
          /\ IF sync_s = "cmp" THEN sync_s' = "open" /\ UNCHANGED host_pc
             ELSE host_pc' = "done" /\ UNCHANGED sync_s
  /\ UNCHANGED <<batch, queue, completed, recorded, fired>>

(* Stream s of device d runs the work at its head: a kernel completes, a   *)
(* record fires its event, a wait passes once its record has fired.       *)
Run(d, s) ==
  /\ queue[d][s] # <<>>
  /\ LET w == Head(queue[d][s]) IN
     /\ w.op = "wait" => fired[w.ev] >= w.n
     /\ completed' = IF w.op = "kernel"
                     THEN [completed EXCEPT ![d] = @ \cup {w.name}] ELSE completed
     /\ fired' = IF w.op = "record" THEN [fired EXCEPT ![w.ev] = w.n] ELSE fired
  /\ queue' = [queue EXCEPT ![d][s] = Tail(@)]
  /\ UNCHANGED <<host_pc, batch, sync_s, sync_i, recorded>>

Terminating == host_pc = "done" /\ UNCHANGED vars

Next ==
  \/ HtodTransferQuery \/ Compare \/ RecordEvent \/ AwaitEvent \/ Open
  \/ AwaitStreams
  \/ \E d \in Dev, s \in Streams : Run(d, s)
  \/ Terminating

Spec == Init /\ [][Next]_vars

-----------------------------------------------------------------------------
TypeOK ==
  /\ host_pc \in {"query", "compare", "record", "await", "open", "sync", "done"}
  /\ batch \in Batches /\ sync_s \in Streams /\ sync_i \in Dev
  /\ \A e \in Dev : fired[e] \in 0..recorded[e] /\ recorded[e] \in 0..Iterations

(* Once await_streams has returned for both stream sets, every device has  *)
(* run all the work submitted to it: results read back are final.          *)
ResultsReadyAtSync ==
  host_pc = "done" =>
    \A d \in Dev, s \in Streams : queue[d][s] = <<>>

-----------------------------------------------------------------------------
(* The refinement mapping onto DevicePipeline: the kernels the host has    *)
(* appended to the streams so far, counted from its step and batch; the   *)
(* kernels each device has run; synchronized once await_streams is done.  *)
Issued ==
  3 * (batch - 1) +
    CASE host_pc = "query" -> 0 [] host_pc = "compare" -> 1
      [] host_pc \in {"record", "await", "open"} -> 2
      [] host_pc \in {"sync", "done"} -> 3

Pipeline == INSTANCE DevicePipeline
              WITH issued <- Issued, done <- completed, synced <- host_pc = "done"

(* The streams and events implement the pipeline's dependency order: on    *)
(* every device, in every interleaving of host and streams, a kernel runs *)
(* only after the kernel before it on its stream and, for an open kernel, *)
(* after the compare of its batch; kernels run only once issued; and      *)
(* await_streams returns only when every kernel has run everywhere.       *)
RefinesPipeline == Pipeline!Spec

=============================================================================
