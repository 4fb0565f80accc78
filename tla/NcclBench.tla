------------------------------ MODULE NcclBench ------------------------------
(***************************************************************************)
(* The NCCL DMA benchmark src/src/bin/nccl.rs with the IdWrapper hex       *)
(* encoding of src/src/helpers/id_wrapper.rs.                               *)
(*                                                                         *)
(* Two processes: the host (party 0, NCCL rank 0) and the node (party 1).  *)
(* The host spawns an HTTP server task that serves COMM_ID[i] as hex, and  *)
(* for each of its devices joins a communicator of world size 2 with that *)
(* id (Comm::from_rank blocks until both ranks have joined with the same   *)
(* id).  The node, for each of its devices, GETs the id of device i,       *)
(* parses it with IdWrapper::from_str and joins.  Then the host sends a    *)
(* buffer on every device, the node receives it, and both synchronize.    *)
(* An id is IdLen bytes (128 in the code); a hex character is its digit.  *)
(***************************************************************************)
EXTENDS Integers, Sequences, SequencesExt

CONSTANTS
  HostDevices,    \* CudaDevice::count() on the host
  NodeDevices,    \* CudaDevice::count() on the node
  IdLen,          \* the length of an NCCL unique id (128, scaled)
  ByteVals,       \* the i8 values an id byte may take
  NodeStartsLate  \* whether the node is launched only once the host listens

ASSUME /\ HostDevices \in Nat \ {0} /\ NodeDevices \in Nat \ {0}
       /\ ByteVals \subseteq -128..127 /\ NodeStartsLate \in BOOLEAN

MaxDevices == IF HostDevices > NodeDevices THEN HostDevices ELSE NodeDevices
Dev == 0..(MaxDevices - 1)

VARIABLES
  comm_id,  \* COMM_ID: the host's NCCL unique id per device
  srv,      \* the host's HTTP server task: "none", "spawned", "bound"
  host_pc, host_i,  \* the host's main: phase and device index
  node_pc, node_i,  \* the node's main: phase and device index
  node_id,  \* the id the node parsed for each device (<<>> before)
  comm,     \* the devices whose communicator both ranks have formed
  sent,     \* per device: the host's send: "none", "queued", "done"
  recvd     \* per device: the node's receive: "none", "queued", "done"

vars == <<comm_id, srv, host_pc, host_i, node_pc, node_i, node_id, comm,
          sent, recvd>>

Ok(v) == [ok |-> TRUE, val |-> v]
Err   == [ok |-> FALSE]

-----------------------------------------------------------------------------
(* Mutant: the parsed byte kept unsigned.                                   *)
AsI8_unsigned(b) == b
(* id_wrapper.rs line 14: c as i8.                                          *)
AsI8(b) == IF b >= 128 THEN b - 256 ELSE b
(* id_wrapper.rs line 30: c as u8.                                          *)
AsU8(c) == (c + 256) % 256

(* Mutant: hex written without zero padding, as format!("{:x}") would.    *)
Display_unpadded(id) ==
  FlattenSeq([k \in 1..Len(id) |->
                IF AsU8(id[k]) < 16 THEN <<AsU8(id[k])>>
                ELSE <<AsU8(id[k]) \div 16, AsU8(id[k]) % 16>>])
(* nccl.rs lines 27-56 are a verbatim copy of IdWrapper that the binary    *)
(* uses; both are modelled by the two operators below.                     *)
(* Display, id_wrapper.rs lines 24-34: hex::encode of the bytes as u8, two *)
(* lowercase digits per byte, high nibble first.                          *)
Display(id) ==
  FlattenSeq([k \in 1..Len(id) |-> <<AsU8(id[k]) \div 16, AsU8(id[k]) % 16>>])

(* FromStr, id_wrapper.rs lines 10-21: hex::decode(s).unwrap() (an odd     *)
(* length panics), each byte as i8, then copy_from_slice into [i8; 128],   *)
(* which panics unless there are exactly 128 bytes.  Err is a panic.      *)
FromStr(s) ==
  IF Len(s) % 2 # 0 \/ Len(s) \div 2 # IdLen THEN Err
  ELSE Ok([k \in 1..IdLen |-> AsI8(16 * s[2 * k - 1] + s[2 * k])])

(* Mutant: the device loop bound taken as inclusive.                       *)
MoreDevices_inclusive(i, n) == i <= n
(* nccl.rs lines 84, 105, 118: for i in 0..n_devices.                      *)
MoreDevices(i, n) == i < n

-----------------------------------------------------------------------------
Init ==
  /\ comm_id \in [0..(HostDevices - 1) -> [1..IdLen -> ByteVals]]
  /\ srv = "none"
  /\ host_pc = "start" /\ host_i = 0
  /\ node_pc = "fetch" /\ node_i = 0
  /\ node_id = [i \in Dev |-> <<>>]
  /\ comm = {}
  /\ sent = [i \in Dev |-> "none"]
  /\ recvd = [i \in Dev |-> "none"]

(* nccl.rs lines 71-78: the host spawns the server task and goes on.       *)
SpawnServer ==
  /\ host_pc = "start"
  /\ srv' = "spawned"
  /\ host_pc' = "join"
  /\ UNCHANGED <<comm_id, host_i, node_pc, node_i, node_id, comm, sent, recvd>>

(* nccl.rs line 75: the server task binds 0.0.0.0:3000 and serves.         *)
Bind ==
  /\ srv = "spawned"
  /\ srv' = "bound"
  /\ UNCHANGED <<comm_id, host_pc, host_i, node_pc, node_i, node_id, comm, sent, recvd>>

(* The handler root, nccl.rs lines 60-63: COMM_ID[device_id] as hex; an    *)
(* index past the host's devices panics the handler and the connection    *)
(* is dropped without a response.                                          *)
root(i) == IF i < HostDevices THEN Ok(Display(comm_id[i])) ELSE Err

(* nccl.rs lines 88-89: the node GETs /i and unwraps the response, then    *)
(* parses the body with from_str.  No server listening, no response, or  *)
(* a body that does not parse makes the node panic.                       *)
Fetch ==
  /\ node_pc = "fetch"
  /\ NodeStartsLate => srv = "bound"
  /\ LET res == IF srv = "bound" THEN root(node_i) ELSE Err
         id  == IF res.ok THEN FromStr(res.val) ELSE Err
     IN IF ~id.ok
        THEN node_pc' = "panicked" /\ UNCHANGED node_id
        ELSE /\ node_id' = [node_id EXCEPT ![node_i] = id.val]
             /\ node_pc' = "join"
  /\ UNCHANGED <<comm_id, srv, host_pc, host_i, node_i, comm, sent, recvd>>

(* nccl.rs line 97: Comm::from_rank returns on both ranks once both have   *)
(* joined device i's communicator with the same unique id; ranks holding  *)
(* different ids never meet.  Each then goes on to its next device.       *)
FormComm ==
  /\ host_pc = "join" /\ node_pc = "join" /\ host_i = node_i
  /\ host_i < HostDevices /\ comm_id[host_i] = node_id[node_i]
  /\ comm' = comm \cup {host_i}
  /\ IF MoreDevices(host_i + 1, HostDevices)
     THEN host_pc' = "join" /\ host_i' = host_i + 1
     ELSE host_pc' = "send" /\ host_i' = 0
  /\ IF MoreDevices(node_i + 1, NodeDevices)
     THEN node_pc' = "fetch" /\ node_i' = node_i + 1
     ELSE node_pc' = "recv" /\ node_i' = 0
  /\ UNCHANGED <<comm_id, srv, node_id, sent, recvd>>

(* nccl.rs lines 105-116: the host enqueues a send on every device in turn,*)
(* the node a receive (NCCL enqueues both on the device's stream).        *)
HostSend ==
  /\ host_pc = "send"
  /\ sent' = [sent EXCEPT ![host_i] = "queued"]
  /\ host_i' = host_i + 1
  /\ host_pc' = IF MoreDevices(host_i + 1, HostDevices) THEN "send" ELSE "sync"
  /\ UNCHANGED <<comm_id, srv, node_pc, node_i, node_id, comm, recvd>>

NodeRecv ==
  /\ node_pc = "recv"
  /\ recvd' = [recvd EXCEPT ![node_i] = "queued"]
  /\ node_i' = node_i + 1
  /\ node_pc' = IF MoreDevices(node_i + 1, NodeDevices) THEN "recv" ELSE "sync"
  /\ UNCHANGED <<comm_id, srv, host_pc, host_i, node_id, comm, sent>>

(* NCCL moves the buffer of device i once both sides have enqueued it.    *)
Transfer(i) ==
  /\ i \in comm /\ sent[i] = "queued" /\ recvd[i] = "queued"
  /\ sent' = [sent EXCEPT ![i] = "done"]
  /\ recvd' = [recvd EXCEPT ![i] = "done"]
  /\ UNCHANGED <<comm_id, srv, host_pc, host_i, node_pc, node_i, node_id, comm>>

(* nccl.rs lines 118-120: devs[i].synchronize() on every device.           *)
HostSync ==
  /\ host_pc = "sync"
  /\ \A i \in 0..(HostDevices - 1) : sent[i] = "done"
  /\ host_pc' = "done"
  /\ UNCHANGED <<comm_id, srv, host_i, node_pc, node_i, node_id, comm, sent, recvd>>

NodeSync ==
  /\ node_pc = "sync"
  /\ \A i \in 0..(NodeDevices - 1) : recvd[i] = "done"
  /\ node_pc' = "done"
  /\ UNCHANGED <<comm_id, srv, host_pc, host_i, node_i, node_id, comm, sent, recvd>>

(* A process blocked in from_rank or synchronize, or finished or crashed:  *)
(* nothing it does changes the state.                                      *)
Blocked ==
  /\ \/ host_pc \in {"join", "sync", "done"}
     \/ node_pc \in {"join", "sync", "done", "panicked"}
     \/ NodeStartsLate /\ node_pc = "fetch" /\ srv # "bound"
  /\ UNCHANGED vars

Finished == host_pc = "done" /\ node_pc = "done"

Next ==
  \/ SpawnServer \/ Bind \/ Fetch \/ FormComm \/ HostSend \/ NodeRecv
  \/ HostSync \/ NodeSync \/ \E i \in Dev : Transfer(i)
  \/ Blocked

(* Each process's main thread and the server task run; NCCL completes a   *)
(* rendezvous both ranks are in and a transfer both sides enqueued.       *)
Fairness ==
  /\ WF_vars(SpawnServer) /\ WF_vars(Bind) /\ WF_vars(Fetch)
  /\ WF_vars(FormComm) /\ WF_vars(HostSend) /\ WF_vars(NodeRecv)
  /\ WF_vars(HostSync) /\ WF_vars(NodeSync)
  /\ \A i \in Dev : WF_vars(Transfer(i))

Spec == Init /\ [][Next]_vars /\ Fairness

-----------------------------------------------------------------------------
TypeOK ==
  /\ srv \in {"none", "spawned", "bound"}
  /\ host_pc \in {"start", "join", "send", "sync", "done"}
  /\ node_pc \in {"fetch", "join", "recv", "sync", "done", "panicked"}
  /\ host_i \in 0..MaxDevices /\ node_i \in 0..MaxDevices
  /\ comm \subseteq Dev
  /\ \A i \in Dev : node_id[i] \in {<<>>} \cup [1..IdLen -> -128..127]

(* Every id the node parsed is the host's id of that device, byte for     *)
(* byte: the i8 -> u8 -> hex -> u8 -> i8 round trip of IdWrapper is the   *)
(* identity on every byte value, negative ones included.                  *)
IdsAgree ==
  \A i \in Dev : node_id[i] # <<>> => node_id[i] = comm_id[i]

(* The node process never panics.                                          *)
NodeNeverPanics == node_pc # "panicked"

(* Both processes finish the benchmark: every communicator forms and every *)
(* transfer completes.                                                      *)
BenchCompletes == <>Finished

=============================================================================
