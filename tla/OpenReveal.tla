------------------------------ MODULE OpenReveal ------------------------------
(***************************************************************************)
(* The open/reveal step of iris-mpc-gpu/tests/threshold.rs, repeated the   *)
(* way test_threshold repeats it.                                          *)
(*                                                                         *)
(* Each of the three parties holds, per device, the replicated XOR share   *)
(* pair (a, b) of the match bits in its result buffer.  open() issues, in  *)
(* one NCCL group, a send of b to next_id and a receive from prev_id into  *)
(* the scratch half of the buffer (c), per device stream; it then copies   *)
(* a, b, c to the host on the same stream and XORs them.  The model keeps  *)
(* one bit per device: the u64 words are bit-sliced and XOR is bitwise.    *)
(* Every iteration the comparison circuit (outside this tree) leaves a     *)
(* fresh sharing of the same plaintext bits in the buffer.                 *)
(***************************************************************************)
EXTENDS Integers, Sequences, FiniteSets

CONSTANTS
  Devices,      \* device indices 0..n_devices-1 of every party
  Iterations,   \* rounds of compare/open (test_threshold runs 10)
  Masks         \* the (a, b) random bits rep_share may draw

Parties == {0, 1, 2}
ASSUME /\ Devices = 0..(Cardinality(Devices) - 1)
       /\ Iterations \in Nat \ {0}
       /\ Masks \subseteq {0, 1} \X {0, 1}

VARIABLES
  plain,    \* the plaintext match bit of each device's slice
  mask,     \* the randomness of each iteration's sharing, per device
  pc,       \* where each party is in its test loop
  iter,     \* the iteration each party is in
  buf,      \* each party's result buffer per device: a, b and the slot c
  stream,   \* each party's per-device stream: queued NCCL operations
  opened    \* the result vectors open() returned, per party, in order

vars == <<plain, mask, pc, iter, buf, stream, opened>>

Xor(x, y) == (x + y) % 2

(* Circuits::next_id / prev_id (outside this tree): the ring of parties.   *)
next_id(p) == (p + 1) % 3
prev_id(p) == (p + 2) % 3

(* rep_share, threshold.rs lines 43-54, over XOR: value = a ^ b ^ c, and   *)
(* party 0 holds (a, c), party 1 (b, a), party 2 (c, b).                   *)
rep_share(value, a, b, id) ==
  LET c == Xor(value, Xor(a, b)) IN
  CASE id = 0 -> <<a, c>>
    [] id = 1 -> <<b, a>>
    [] id = 2 -> <<c, b>>

(* The share pair party p holds for device d in iteration i.               *)
ShareOf(i, d, p) == rep_share(plain[d], mask[i][d][1], mask[i][d][2], p)

-----------------------------------------------------------------------------
(* compare_threshold_masked_many; synchronize_streams; take_result_buffer  *)
(* (threshold.rs lines 214-218): the buffer holds this iteration's shares; *)
(* the scratch slot c keeps what the last open received into it.           *)
Compare(p) ==
  /\ pc[p] = "compare"
  /\ buf' = [buf EXCEPT ![p] = [d \in Devices |->
               [a |-> ShareOf(iter[p], d, p)[1], b |-> ShareOf(iter[p], d, p)[2],
                c |-> buf[p][d].c]]]
  /\ pc' = [pc EXCEPT ![p] = "open"]
  /\ UNCHANGED <<plain, mask, iter, stream, opened>>

(* Mutant: the sends and receives issued outside a group, so each device   *)
(* stream gets a send operation followed by a separate receive operation.  *)
GroupOpen_ungrouped(p) ==
  /\ pc[p] = "open"
  /\ stream' = [stream EXCEPT ![p] = [d \in Devices |->
                  stream[p][d] \o <<{"send"}, {"recv"}>>]]
  /\ pc' = [pc EXCEPT ![p] = "dtoh"]
  /\ UNCHANGED <<plain, mask, iter, buf, opened>>

(* open, lines 124-141: between group_start and group_end every device     *)
(* stream gets send_view(b, next_id) and receive_view(c, prev_id); the     *)
(* group fuses them into one operation per stream.                        *)
GroupOpen(p) ==
  /\ pc[p] = "open"
  /\ stream' = [stream EXCEPT ![p] = [d \in Devices |->
                  Append(stream[p][d], {"send", "recv"})]]
  /\ pc' = [pc EXCEPT ![p] = "dtoh"]
  /\ UNCHANGED <<plain, mask, iter, buf, opened>>

(* The NCCL point-to-point transfer on device d's communicator from p to   *)
(* next_id(p): the operation at the head of p's stream sends and the one   *)
(* at the head of the receiver's stream receives from p; the receiver's c  *)
(* gets p's b.  An operation leaves its stream when all its parts are done.*)
Retire(s, part) ==
  IF Head(s) = {part} THEN Tail(s) ELSE <<Head(s) \ {part}>> \o Tail(s)

Transfer(p, d) ==
  LET q == next_id(p) IN
  /\ stream[p][d] # <<>> /\ "send" \in Head(stream[p][d])
  /\ stream[q][d] # <<>> /\ "recv" \in Head(stream[q][d])
  /\ prev_id(q) = p
  /\ buf' = [buf EXCEPT ![q][d].c = buf[p][d].b]
  /\ stream' = [stream EXCEPT ![p][d] = Retire(@, "send"),
                              ![q][d] = Retire(@, "recv")]
  /\ UNCHANGED <<plain, mask, pc, iter, opened>>

(* Mutant: the host copy does not wait for the device stream.              *)
Dtoh_unsynced(p) ==
  /\ pc[p] = "dtoh"
  /\ opened' = [opened EXCEPT ![p] = Append(@,
                  [d \in Devices |-> Xor(buf[p][d].a, Xor(buf[p][d].b, buf[p][d].c))])]
  /\ pc' = [pc EXCEPT ![p] = "return"]
  /\ UNCHANGED <<plain, mask, iter, buf, stream>>

(* open, lines 143-155: dtoh_on_stream_sync of a, b, c on each device's    *)
(* stream (so after that stream's transfers), a ^= b ^ c, results          *)
(* concatenated in device order.                                           *)
Dtoh(p) ==
  /\ pc[p] = "dtoh"
  /\ \A d \in Devices : stream[p][d] = <<>>
  /\ opened' = [opened EXCEPT ![p] = Append(@,
                  [d \in Devices |-> Xor(buf[p][d].a, Xor(buf[p][d].b, buf[p][d].c))])]
  /\ pc' = [pc EXCEPT ![p] = "return"]
  /\ UNCHANGED <<plain, mask, iter, buf, stream>>

(* Mutant: one round too many (0..=10).                                   *)
LastRound_inclusive(i) == i = Iterations + 1
(* Line 209: for _ in 0..10.                                               *)
LastRound(i) == i = Iterations

(* Lines 221-222: synchronize_streams, return_result_buffer, next round.   *)
ReturnBuffer(p) ==
  /\ pc[p] = "return"
  /\ \A d \in Devices : stream[p][d] = <<>>
  /\ IF LastRound(iter[p])
     THEN /\ pc' = [pc EXCEPT ![p] = "done"]
          /\ UNCHANGED iter
     ELSE /\ pc' = [pc EXCEPT ![p] = "compare"]
          /\ iter' = [iter EXCEPT ![p] = @ + 1]
  /\ UNCHANGED <<plain, mask, buf, stream, opened>>

(* A host thread blocked in a stream synchronize whose stream still holds  *)
(* an unmatched NCCL operation: NCCL has no timeout, the thread waits.     *)
WaitOnStream ==
  /\ \E p \in Parties :
       pc[p] \in {"dtoh", "return"} /\ \E d \in Devices : stream[p][d] # <<>>
  /\ UNCHANGED vars

Finished == \A p \in Parties : pc[p] = "done"
Terminating == Finished /\ UNCHANGED vars

-----------------------------------------------------------------------------
Init ==
  /\ plain \in [Devices -> {0, 1}]
  /\ mask \in [1..Iterations -> [Devices -> Masks]]
  /\ pc = [p \in Parties |-> "compare"]
  /\ iter = [p \in Parties |-> 1]
  /\ buf = [p \in Parties |-> [d \in Devices |-> [a |-> 0, b |-> 0, c |-> 0]]]
  /\ stream = [p \in Parties |-> [d \in Devices |-> <<>>]]
  /\ opened = [p \in Parties |-> <<>>]

Next ==
  \/ \E p \in Parties :
       Compare(p) \/ GroupOpen(p) \/ Dtoh(p) \/ ReturnBuffer(p)
  \/ \E p \in Parties, d \in Devices : Transfer(p, d)
  \/ WaitOnStream
  \/ Terminating

(* Each party's test loop runs on its own host thread; NCCL progresses a   *)
(* transfer whose send and receive are both at the head of their streams.  *)
Fairness ==
  /\ \A p \in Parties : WF_vars(Compare(p) \/ GroupOpen(p) \/ Dtoh(p) \/ ReturnBuffer(p))
  /\ \A p \in Parties, d \in Devices : WF_vars(Transfer(p, d))

Spec == Init /\ [][Next]_vars /\ Fairness

-----------------------------------------------------------------------------
TypeOK ==
  /\ pc \in [Parties -> {"compare", "open", "dtoh", "return", "done"}]
  /\ iter \in [Parties -> 1..Iterations]
  /\ \A p \in Parties : Len(opened[p]) <= Iterations
  /\ \A p \in Parties, d \in Devices : \A k \in DOMAIN stream[p][d] :
       stream[p][d][k] \in SUBSET {"send", "recv"} \ {{}}

(* Every vector open() returns, at every party and in every round, is the  *)
(* plaintext match bits in device order: the share each party receives is *)
(* its prev_id's b of the same round, never a stale or mismatched one.     *)
OpenCorrect ==
  \A p \in Parties : \A i \in DOMAIN opened[p] : opened[p][i] = plain

(* Every party finishes all rounds: the ring of sends and receives never   *)
(* leaves every party waiting on its neighbour.                            *)
AllRoundsFinish == <>Finished

=============================================================================
