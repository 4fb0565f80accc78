# TLA+ models of iris-mpc

This directory holds TLA+ models of the parts of iris-mpc under `src/` that
have state, concurrency or arithmetic worth checking, and the TLC
configurations that check them. `PROJECT.json` lists every component, every
run, the mutants that show each property can fail, the source lines each
definition models, the findings and the hazards.

## 1. The system and its parts

Three computation parties each hold replicated 2-out-of-3 shares of an iris
database. They compare a query against it on GPUs and reveal only a match
bit. The parts under `src/` are:

| Part | Source | State and operations | Interacts with |
|---|---|---|---|
| Party state sync | `iris-mpc-gpu/src/server/sync_nccl.rs` | per rank: `SyncState {db_len, deleted_request_ids}`; `sync` = serialize → `all_gather` → deserialize_all → `SyncResult` | all ranks of one NCCL communicator |
| Test client | `iris-mpc/src/bin/client.rs` | two tokio tasks; three `Mutex<HashMap>`s (expected_results, requests, responses); SNS publish, SQS receive/delete | the MPC servers through SNS/SQS |
| Threshold test: open | `iris-mpc-gpu/tests/threshold.rs` (`open`, test loop) | per party and device: result share buffer `(a, b)` and scratch `c`; NCCL send/recv in a group; stream-ordered copies | the three parties over NCCL |
| Threshold test: arithmetic | same file (`sample_*`, `rep_share`, `real_result_msb`) | u16 dot products, their sharing, the plaintext reference bit | the open step compares against it |
| Share retrieval | `iris-mpc-common/src/helpers/smpc_request.rs` | one request per party: retried GET, sealed-box decrypt with key fallback, hash validation | S3, the party's key pairs |
| NCCL benchmark | `src/bin/nccl.rs`, `src/helpers/id_wrapper.rs` | host: HTTP server task serving `COMM_ID[i]` as hex; node: GET and `IdWrapper::from_str`; both: `Comm::from_rank` per device, send/recv, synchronize | two processes on two hosts |
| Device manager | `src/dot/device_manager.rs` | per device a CUDA stream per step and one event; `record_event`, `await_event`, `await_streams`, `htod_transfer_query` | the GPU and the pipeline that drives it |
| NetworkValue | `iris-mpc-cpu/src/next_gen_network/value.rs` | bincode encode/decode of ring values | network |
| Upgrade config, matmul bench, `lib.rs` | | CLI structs, benchmark, module list | none |

These behaviours are hard to test:

- NCCL collectives and point-to-point transfers have no timeout. A rank that
  never enters one leaves its peers blocked forever.
- Two tokio tasks of the client take Mutexes in opposite orders.
- The SQS queue returns messages in any order, hides them until their
  visibility timeout, can return nothing at all, and can deliver a result
  again after it was deleted.
- The threshold test relies on wrapping u16/u64 arithmetic, and the reference
  bit depends on the ring width.
- Keys may rotate at a party while requests sealed under the old key are
  still in flight.

## 2. Modules

Each component module has an `MC*` module that gives its constants values for
TLC. Every module keeps the source's names where TLA+ allows.

### SyncNccl (`sync_nccl.rs`)

- Variables:
  - `my_state`: the state each rank passes in.
  - `pc`: where each rank is inside `sync`.
  - `send_buf`: the padded serialization.
  - `recv_buf`: the gathered buffer.
  - `result`: the `all_states` returned.
- `Serialize(r)` is line 9 with `serialize` (lines 31-38). The bincode
  encoding is modelled byte by byte: little-endian usizes, with length
  prefixes for Vec and String. A state longer than `SERIAL_SIZE` returns Err
  before the collective.
- `AllGather` is lines 10-16. It fires only once every rank has entered, and
  every rank receives the rank-ordered concatenation.
- `Deserialize(r)` is lines 18-20. It covers `deserialize_all` (chunks of
  `SERIAL_SIZE`, trailing bytes ignored). What `SyncResult` decides from
  the states (`must_rollback_storage`) lives outside this tree and is not
  modelled.
- `WaitInCollective` is the blocked wait of a rank inside `all_gather`. It is
  a step that changes nothing, so a hang shows up as a liveness violation and
  not as a deadlock.
- `Round == INSTANCE SyncRound WITH ...` is the refinement mapping. A rank has
  joined the round (`Joined`) once its buffer is on the device. Its status is
  the `Result` that `sync` returns (`RoundStatus`), and what it learned is
  `result`. `AllGather` maps to a stuttering step of the abstract round.

### DevicePipeline (abstract pipeline)

- What `DeviceEvents` promises its caller. The host issues `Program`
  (query copy, compare and open of each batch in turn). A device may run an
  issued kernel once the kernels it depends on (`DependsOn`) have run there:
  the previous kernel on its stream and, for an open, the compare of its
  batch. `Synchronize` happens only when every device has run everything.
- `DeviceEvents` maps onto it with `Issued` (counted from the host's step
  and batch), `completed` and `host_pc = "done"`. Records, waits and the
  per-device steps of `await_streams` are stuttering steps of the abstract
  spec. `RefinesPipeline` checks the refinement in `events_pass`.

### SyncRound (abstract round)

This module holds no code, only what a sync round promises. Each rank either
fails before joining (`FailEarly`) or joins (`Enter`). Once every rank has
joined, each rank either learns the states of all ranks in rank order
(`Learn`) or fails (`FailLate`). Weak fairness says each rank decides whether
to join, and each rank ends a round that all ranks have joined. A round that
some rank never joined may hang, and that is what `sync` does.

### NcclBench (`nccl.rs`, `id_wrapper.rs`)

- Two processes: the host (party 0) and the node (party 1).
- Variables:
  - `comm_id`: the host's `COMM_ID`, any bytes from `ByteVals`;
  - `srv`: the server task, which is none, spawned or bound;
  - `host_pc`/`host_i` and `node_pc`/`node_i`: each main loop and its
    device;
  - `node_id`: the ids the node parsed;
  - `comm`: the communicators formed;
  - `sent`/`recvd`: the transfers.
- `Display` and `FromStr` model the hex encoding by what it does on bytes:
  - `i8 as u8`, then two digits per byte;
  - `hex::decode`, with an odd length panicking;
  - `u8 as i8`;
  - `copy_from_slice`, which panics unless the length is `IdLen` (128 in the
    code).
- `root(i)` is the handler. An index past the host's devices panics it, and
  the connection drops.
- Actions:
  - `SpawnServer` and `Bind` are lines 71-78.
  - `Fetch` is lines 84-90. The `reqwest::blocking::get(...).unwrap()` and
    the parse panic when there is no server, no response or a bad body.
  - `FormComm` is lines 92-102. `Comm::from_rank` returns on both ranks only
    when both have joined device `i` with the same id.
  - `HostSend`/`NodeRecv` are lines 104-116.
  - `Transfer` is NCCL moving the buffer.
  - `HostSync`/`NodeSync` are lines 118-120.
  - `Blocked` is a process blocked, finished or crashed, and is a step that
    changes nothing.
- Constants:
  - `HostDevices` and `NodeDevices` are each host's `CudaDevice::count()`.
  - `NodeStartsLate` says whether the node is launched only after the
    host's server is listening.

### DeviceEvents (`device_manager.rs`)

- Each device has a compare stream and an open stream, each a FIFO of
  submitted work. The device runs the work in order, concurrently with the
  host and with the other streams.
- The host drives the pipeline of the spec (§ scheduling). For each of
  `Iterations` batches it does:
  1. `HtodTransferQuery` (lines 86-107);
  2. `Compare`;
  3. `RecordEvent` (lines 63-70), which records `events[idx]` on the compare
     stream;
  4. `AwaitEvent` (lines 72-84), which makes the open stream wait on
     `events[EventOf(idx)]`;
  5. `Open`.

  At the end, `AwaitStreams` (lines 47-52) synchronizes every compare stream
  and then every open stream, one device at a time.
- The callers are outside this tree. `Compare` and `Open` are modelled from
  the spec.
- `Run(d, s)` follows CUDA's rules:
  - a wait submitted by `cuStreamWaitEvent` waits for the record of the event
    submitted last before the wait call;
  - a record fires when its stream reaches it.

### Client (`client.rs`)

- Variables:
  - The sender task: `s_pc`, the query index, the chosen option, the template
    and the picked key.
  - The receiver task: `r_pc`, the iteration and the message in hand.
  - The three maps.
  - `lock`: who holds each Mutex.
  - The environment: the command line `args` (`--random`, `--db-index`,
    `--n-repeat`, each `Option` as the set of its values), the SNS `topic`,
    the server's enrolled `server_db`, the SQS `queue` with per-message
    visibility, and `answered`.
- Sender actions: `Choose` (lines 160-167, taken when `random.is_some()`,
  so `--random false` also runs random mode), `ChooseManual` (lines 199-211:
  the database code for the first `n_repeat` queries, then a fresh code; the
  seed-1337 code for every query without `--db-index`; a panic for an index
  past the database), `Expect` (options 0 and 1),
  `LockResponses` and `ExpectFresh` (option 2, holding responses while
  locking expected_results; an empty responses map panics on `.unwrap()`
  and ends the sender), `RecordRequest`, `Publish` (an SNS error ends
  main) and `Join` (`recv_thread.await??`).
- Receiver actions: `Receive` (lines 92-102: a message, an empty receive, or
  an SQS error), `CheckResult` (stale message, or the asserts of lines
  120-141), `GetRequest`, `InsertResponse` (locks responses while holding
  expected_results) and `DeleteMessage`.
- `ServerAnswer`, `VisibilityTimeout` and `Redeliver` are the environment.
  `Redeliver` is SQS's at-least-once delivery: a copy of a result the
  receiver already deleted comes back as a visible message, up to
  `MaxDeliveries` deliveries per result. Two copies in the queue at once are
  not modelled; the receiver handles each copy alone either way. The server
  answers in topic order: a match on an enrolled code, otherwise it enrols.
- `Parked` is a task awaiting a Mutex the other task holds, or the process
  after main returned.
- Abstracted:
  - an iris code is `<<"db", i>>` or `<<"new", q>>`;
  - the seeded code is `<<"seed", 1337>>`;
  - shares, base64 and JSON are left out.
- Manual mode records nothing in expected_results, so the receiver takes the
  stale path for every result and leaves it in the queue; a later run sees
  those results as the stale messages `StaleMsgs`.

### OpenReveal (`threshold.rs`, `open` and the test loop)

- Three parties and `Devices` devices each. One bit stands for the bit-sliced
  u64 words, because XOR is bitwise.
- `Compare` is lines 214-218. The circuit, which is outside this tree, leaves
  a fresh `rep_share` of the plaintext bits in `(a, b)`. The scratch slot `c`
  keeps the previous value.
- `GroupOpen` is lines 124-141. Between `group_start` and `group_end` each
  device stream gets one fused send+recv operation.
- `Transfer(p, d)` is NCCL moving `b` of party p into `c` of `next_id(p)`
  when both heads match.
- `Dtoh` is lines 143-155: stream-ordered copies, then `a ^ b ^ c`.
- `ReturnBuffer` is lines 221-222, and the loop runs for `Iterations` rounds.
- `WaitOnStream` is a host thread blocked on a stream whose NCCL operation
  cannot progress.

### Threshold (`threshold.rs`, host arithmetic)

- Phases: `Sample` (lines 24-41, 177-178), `Share` (`rep_share_vec`, lines
  43-65, 180-181) and `Reference` (`real_result_msb`, lines 106-116, 182).
- Widths are scaled:
  - u16 becomes `RingBits` = 6 and u64 becomes `WideBits` = 16;
  - `B_BITS` = 2 and `IRIS_CODE_SIZE` = 12;
  - the ratio is 3/8.
- `A/B` = 1/4 as in the code. The code's headroom (the largest `|m*A - c*B|`
  against half the ring) is about the same at these widths: 60/128, against
  1.05e9/2^31 at the real widths.
- `OverflowChecks` picks the build profile. When it is FALSE every u16/u64
  operation wraps. When it is TRUE an overflowing operation panics, which is
  `cargo test`'s default.

### SharesDecoding (`smpc_request.rs`)

- One party (`party_id`). The parties share nothing in this step.
- Variables:
  - GET `attempts`, against an environment-chosen number of transport
    `faults`;
  - the HTTP status (`http_ok`), and whether the 2xx body arrives whole and
    parses as a `SharesS3Object` (`body_ok`);
  - the party's current `key_gen` (previous = `key_gen - 1`), which `Rotate`
    advances at any time;
  - the generation the client sealed with;
  - the client's JSON text;
  - the field taken (`share`);
  - the key generation used to decrypt;
  - `outcome`.
- Actions:
  - `Fetch` is lines 123-165. `RetryLeft` is `take(5)`, which allows six
    attempts; a non-2xx answer is not retried. The body is read and parsed
    after the retry (lines 140-146), so a body that fails is a
    `RequestError` with no retry. `Get` (lines 110-117) has no field for a
    `party_id` above 2: `SecretStringNotFound`. The runs use party 2, so that
    branch is not reached.
  - `Decrypt` is lines 167-208: the current key, then the previous one.
  - `Validate` is lines 210-220: the hash of the serde re-serialization.

## 3. Runs

| Run | Config | Expect | Shows |
|---|---|---|---|
| sync_pass | MCSyncNccl.cfg | pass | 3 ranks, `SERIAL_SIZE` at `WordSize` 2 with 2 ids of ≤1 byte; states range over two db_lens and up to 2 ids (one state fills the buffer exactly). `sync` implements `SyncRound` (`RefinesSyncRound`): no rank learns anything before all have entered `all_gather`, and each learns the states of all ranks in rank order. Every rank eventually returns (`EveryRankReturns`), and when every state fits the buffer every rank returns `Ok` (`RoundSucceeds`): the abstract round allows a rank to fail after the collective, so this is what rules out a decoding error on an exactly-full chunk. |
| sync_oversize | MCSyncNccl_oversize.cfg | violation | With 3 ids allowed, a rank's state is too large: it returns Err at line 9 and the other two hang in `all_gather` (`EveryRankReturns`). |
| client_pass | MCClient.cfg | pass | 2 queries, a 1-entry db, 3 nodes, one stale message, network errors; random mode and three manual command lines (`AllArgs`). No assert or unwrap of the receiver fails in any interleaving (`NoFailedCheck`). |
| client_lock_cycle | MCClient_lock_cycle.cfg | violation | The sender in option 2 holds responses and waits for expected_results while the receiver holds expected_results and waits for responses. |
| client_unchecked | MCClient_unchecked.cfg | violation | One query: the receiver uses its 3 iterations on empty receives before the server answers, and main returns Ok with nothing checked. |
| open_pass | MCOpenReveal.cfg | pass | 2 devices, 2 rounds, two maskings. Every opened vector is the plaintext, and the ring of grouped transfers always completes. |
| threshold_pass | MCThreshold.cfg | pass | Wrapping build: every sampled value's shares reconstruct it, and the reference MSB is exactly `c*B > m*A`. |
| threshold_debug | MCThreshold_debug.cfg | violation | With overflow checks the test panics, first at `u16::MAX - x + 1` for x = 0. |
| threshold_spec_msb | MCThreshold_spec_msb.cfg | violation | The spec's "MSB = 1 exactly when not a match, match = c/m < ρ" disagrees with the reference: c = 1, m = 3 gives MSB 1 although 1/3 < 3/8. The code's decision is `c/m > 1 - 2ρ`. |
| bench_pass | MCNcclBench.cfg | pass | 2 devices on each host, 2-byte ids over the bytes {-128, -1, 0, 127}, node launched after the host listens. Every parsed id equals the host's byte for byte (`IdsAgree`), the node never panics, and both processes finish (`BenchCompletes`). |
| events_pass | MCDeviceEvents.cfg | pass | 3 devices, 2 batches. `DeviceEvents` implements `DevicePipeline` (`RefinesPipeline`). Through the refinement, no device runs a batch's open kernel before its compare kernel, and the host passes `await_streams` only when every stream is drained (`ResultsReadyAtSync`). |
| shares_pass | MCSharesDecoding.cfg | pass | Party 2, with 0, 5 or 6 transport errors, either HTTP status, a body that parses or not, two rotations and two JSON texts. A well-formed request is always accepted. |

The bounds are enough for these reasons:

- **SyncNccl:** three ranks allow a rank to disagree with two others. Two ids
  of one byte fill `SERIAL_SIZE` exactly, which reaches the `>` boundary of
  line 33. `WordSize` 2 keeps the byte order observable.
- **Client:** two queries allow option 2 (re-sending a freshly enrolled code)
  to happen. One stale message is enough to show the skip path. The manual
  command lines are `--db-index 0 --n-repeat 1` (a database code, then a
  fresh one), no `--db-index` (the same seeded code twice, so the second is
  a match), and `--db-index DB_SIZE` (the index panic). `MaxDeliveries` 2
  lets every result come back once after it was deleted. The two violation
  runs use random mode only.
- **OpenReveal:** two devices show per-device streams. Two rounds show the
  stale scratch slot.
- **Threshold:** every `x` and `m` in range is enumerated. The randomness set
  {0, 5, 63} contains both wrapping and non-wrapping draws.
- **SharesDecoding:** the fault counts 0, 5 and 6 sit on both sides of the
  retry budget.
- **NcclBench:** the bytes -128, -1, 0 and 127 are the edges of the i8/u8
  conversion. -1 and 0 give a high nibble of 0 or 15, and -128 and 127 differ
  only in the top bit. Two devices show the loop moving on to a second
  communicator. Ids of two bytes instead of 128 keep every byte a separate
  position.
- **DeviceEvents:** two batches make each event be recorded twice, so a
  wait has to tell the latest record from an earlier one. The second batch's
  compare can then overtake the first batch's open. (Three batches also
  pass, but checking the refinement on them takes over three minutes.) Three devices make a
  mispaired event observable and let `await_streams` find a middle device
  still busy.

Each property has a mutant: a plausible bug in the mapped definition under
which TLC finds the property violated. `PROJECT.json` lists them.

## 4. Fairness

- **SyncNccl:** weak fairness for each rank's `Serialize` and `Deserialize`,
  because each rank runs `sync` on its own thread. `AllGather` is weakly fair
  because NCCL completes a collective once every rank is in it. There is no
  fairness for `WaitInCollective`: it changes nothing.
- **OpenReveal:** weak fairness for each party's test loop, one host thread
  per party, and for each `Transfer` whose send and receive are both at the
  head of their streams.
- **SharesDecoding:** weak fairness for the handler's own steps. It is used
  by no liveness property yet.
- **SyncRound:** the abstract fairness is implied by SyncNccl's. Each rank's
  thread serializes, and a collective that all ranks entered completes.
- **NcclBench:** weak fairness for each process's main-thread steps and for
  the server task's bind, since each runs on its own thread or tokio worker.
  `FormComm` and `Transfer` are weakly fair because NCCL completes a
  rendezvous or a send/recv pair once both sides are in it. There is no
  fairness for `Blocked`.
- **DeviceEvents** and **DevicePipeline:** safety only. Deadlock is checked: a stream waiting on an
  event that never fires would block `AwaitStreams`, and TLC would report it.
- **Client:** no fairness. It is checked for safety only, and the SQS service
  is not fair in any useful sense.

## 5. Not modelled, and the plan

Not modelled:

- The MPC circuit (`Circuits`) and the server are outside this tree. They
  appear only through what they give the modelled code: fresh sharings in
  OpenReveal, and the server answers. `must_rollback_storage` is not
  modelled.
- The matmul benchmark, the upgrade CLI config and `iris-mpc-cpu/src/lib.rs`
  have no state to check.
- `NetworkValue` (`value.rs`): `to_network` and `from_network` are one-line
  bincode wrappers of a serde-derived enum. There is no state and no
  concurrency, and the round trip is serde's own.
- The following parts of `DeviceManager` change no ordering state, so
  nothing about them is checked:
  - `init`;
  - `fork_streams` and `create_cublas`, apart from the streams they create;
  - the accessors;
  - `htod_copy_into`, which is a synchronous copy.
- The timing and the throughput print of `nccl.rs`. Lines 27-56 of
  `nccl.rs` are a second `IdWrapper` whose `Display` goes through
  `ToString`; it behaves as the library's copy, which is the one mapped.
- Two behaviours of `nccl.rs` are parameters of the model that no run
  sets to the failing case; the pass run fixes the safe launch order and
  equal device counts:
  - a node launched before the host's server has bound port 3000 panics on
    its first GET. The doc comment gives the two launch commands but no
    order. `NodeStartsLate = FALSE` models it; no run checks that case.
  - the device counts of the two hosts are never compared. A host with more
    devices blocks forever in `Comm::from_rank`, which breaks
    `BenchCompletes`. A node with more devices panics.
- Hazards that no property covers are listed with a note in `PROJECT.json`:
  - the device buffers that `htod_transfer_query` never frees;
  - the missing ordering from a batch's open back to the next batch's compare;
  - the share body read outside the retry of `get_iris_data_by_party_id`;
  - `--random false` running random mode, and the database index panic of
    manual mode;
  - the option count read before the responses lock in option 2: the
    responses map only grows, so the panic on an empty map is never reached;
  - a result JSON that is valid but not in canonical key order:
    `AcceptsWellFormed` assumes canonical JSON;
  - the `sync_nccl.rs` tests taking `n_parties = 3.min(CudaDevice::count())`.
    On a one-GPU host, `test_out_of_sync` runs rank 0 alone and its
    assertion of `Some(12)` fails. The test harness is not modelled.
- The test's print-only mismatch report (`threshold.rs` line 224) is covered
  by `OpenCorrect`, which demands what the test only prints.

Left open:

1. A rank crash in SyncNccl. The code has no handling for it: a crash before
   `all_gather` leaves the others blocked, as `sync_oversize` already shows
   for an early `Err`.
2. Client: a second run against a server that still holds the first run's
   enrolments. The stale messages of `StaleMsgs` stand for the results an
   earlier run left in the queue.
3. Two copies of one result in the queue at the same time.
