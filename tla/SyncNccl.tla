------------------------------- MODULE SyncNccl -------------------------------
(***************************************************************************)
(* The party synchronization round of iris-mpc-gpu/src/server/sync_nccl.rs *)
(*                                                                         *)
(* Every rank of an NCCL communicator calls sync(comm, state): it          *)
(* serializes its SyncState into a fixed-size buffer (serialize), takes    *)
(* part in the all_gather collective that concatenates all ranks' buffers  *)
(* in rank order, splits the gathered buffer back into SERIAL_SIZE chunks  *)
(* (deserialize_all) and builds a SyncResult from its own state and all    *)
(* gathered states.  The wire format is bincode's: a usize is WordSize     *)
(* little-endian bytes, a Vec or String is its length followed by its      *)
(* elements; bincode::deserialize ignores trailing bytes (the padding).    *)
(***************************************************************************)
EXTENDS Integers, Sequences, SequencesExt, FiniteSets

CONSTANTS
  Ranks,            \* the ranks 0..world_size-1 of the communicator
  WordSize,         \* size_of::<usize>() in bytes (scaled down)
  MAX_REQUESTS,     \* sync_nccl.rs MAX_REQUESTS (scaled down)
  MAX_REQUEST_ID_LEN, \* sync_nccl.rs MAX_REQUEST_ID_LEN (scaled down)
  DbLens,           \* the database lengths a party may report
  RequestIds,       \* the deleted request ids a party may report (byte seqs)
  MaxDeleted        \* bound on the number of deleted ids in one SyncState

ASSUME /\ Ranks = 0..(Cardinality(Ranks) - 1)
       /\ WordSize \in Nat \ {0}
       /\ DbLens \subseteq 0..(256^WordSize - 1)

VARIABLES
  my_state,   \* the SyncState each rank passes to sync (fixed per behaviour)
  pc,         \* where each rank is inside sync()
  send_buf,   \* the serialized state each rank copied to its device
  recv_buf,   \* all_states_dev: the gathered buffer as seen by each rank
  result      \* the all_states vector each rank returns in its SyncResult

vars == <<my_state, pc, send_buf, recv_buf, result>>

-----------------------------------------------------------------------------
(* The SyncStates a server may pass to sync.                               *)
SyncStates ==
  [db_len : DbLens, deleted_request_ids : BoundedSeq(RequestIds, MaxDeleted)]

(* SERIAL_SIZE: the fixed serialized size, sync_nccl.rs lines 24-27.       *)
SERIAL_SIZE == MAX_REQUESTS * (WordSize + MAX_REQUEST_ID_LEN) + 2 * WordSize

(* Mutant: a usize written big-endian (the reader stays little-endian).   *)
UsizeBytes_big_endian(v) == [i \in 1..WordSize |-> (v \div 256^(WordSize - i)) % 256]

(* A usize as WordSize little-endian bytes, and back.                      *)
UsizeBytes(v) == [i \in 1..WordSize |-> (v \div 256^(i - 1)) % 256]
RECURSIVE LittleEndian(_, _, _)
LittleEndian(buf, pos, k) ==
  IF k = 0 THEN 0 ELSE buf[pos] + 256 * LittleEndian(buf, pos + 1, k - 1)
ReadUsize(buf, pos) == LittleEndian(buf, pos, WordSize)

(* bincode::serialize of SyncState {db_len, deleted_request_ids}.          *)
Bincode(s) ==
  UsizeBytes(s.db_len)
    \o UsizeBytes(Len(s.deleted_request_ids))
    \o FlattenSeq([i \in DOMAIN s.deleted_request_ids |->
                     UsizeBytes(Len(s.deleted_request_ids[i]))
                       \o s.deleted_request_ids[i]])

(* serialize: bincode, refuse a state longer than SERIAL_SIZE, pad with 0. *)
(* A fallible result: Ok(v) or Err (the Rust Result).                     *)
Ok(v) == [ok |-> TRUE, val |-> v]
Err   == [ok |-> FALSE]

(* Mutants: padding one byte short; rejecting a state that fills the      *)
(* buffer exactly (>= instead of >).                                       *)
serialize_pad_short(s) ==
  LET ser == Bincode(s) IN
  IF Len(ser) > SERIAL_SIZE THEN Err
  ELSE Ok(ser \o [i \in 1..(SERIAL_SIZE - 1 - Len(ser)) |-> 0])
serialize_reject_full(s) ==
  LET ser == Bincode(s) IN
  IF Len(ser) >= SERIAL_SIZE THEN Err
  ELSE Ok(ser \o [i \in 1..(SERIAL_SIZE - Len(ser)) |-> 0])

serialize(s) ==
  LET ser == Bincode(s) IN
  IF Len(ser) > SERIAL_SIZE THEN Err
  ELSE Ok(ser \o [i \in 1..(SERIAL_SIZE - Len(ser)) |-> 0])

(* bincode::deserialize of the Vec<String> of n ids starting at pos; a     *)
(* length prefix or string running past the buffer end is an error.  All  *)
(* modelled bytes are ASCII, so the UTF-8 check of String never fails.     *)
(* Mutant: a string may not end on the last byte of the buffer.            *)
RECURSIVE DecodeIds_end_exclusive(_, _, _)
DecodeIds_end_exclusive(buf, pos, n) ==
  IF n = 0 THEN Ok(<<>>)
  ELSE IF pos + WordSize - 1 > Len(buf) THEN Err
  ELSE LET len   == ReadUsize(buf, pos)
           start == pos + WordSize
       IN IF start + len - 1 >= Len(buf) THEN Err
          ELSE LET rest == DecodeIds_end_exclusive(buf, start + len, n - 1)
               IN IF ~rest.ok THEN Err
                  ELSE Ok(<<SubSeq(buf, start, start + len - 1)>> \o rest.val)

RECURSIVE DecodeIds(_, _, _)
DecodeIds(buf, pos, n) ==
  IF n = 0 THEN Ok(<<>>)
  ELSE IF pos + WordSize - 1 > Len(buf) THEN Err
  ELSE LET len   == ReadUsize(buf, pos)
           start == pos + WordSize
       IN IF start + len - 1 > Len(buf) THEN Err
          ELSE LET rest == DecodeIds(buf, start + len, n - 1)
               IN IF ~rest.ok THEN Err
                  ELSE Ok(<<SubSeq(buf, start, start + len - 1)>> \o rest.val)

(* deserialize: SyncState from the front of a buffer, trailing bytes ok.   *)
deserialize(buf) ==
  IF 2 * WordSize > Len(buf) THEN Err
  ELSE LET ids == DecodeIds(buf, 2 * WordSize + 1, ReadUsize(buf, WordSize + 1))
       IN IF ~ids.ok THEN Err
          ELSE Ok([db_len |-> ReadUsize(buf, 1), deleted_request_ids |-> ids.val])

(* Mutant: the chunk count rounded down after subtracting one byte, which *)
(* drops the last full chunk.                                              *)
deserialize_all_short(buf) ==
  LET n      == (Len(buf) - 1) \div SERIAL_SIZE
      chunk(i) == SubSeq(buf, (i - 1) * SERIAL_SIZE + 1, i * SERIAL_SIZE)
      states == [i \in 1..n |-> deserialize(chunk(i))]
  IN IF \E i \in 1..n : ~states[i].ok THEN Err
     ELSE Ok([i \in 1..n |-> states[i].val])

(* deserialize_all: state_ser.chunks(SERIAL_SIZE).map(deserialize)         *)
(* .collect(); the last chunk may be short, any failing chunk fails all.   *)
deserialize_all(buf) ==
  LET n      == (Len(buf) + SERIAL_SIZE - 1) \div SERIAL_SIZE
      chunk(i) == SubSeq(buf, (i - 1) * SERIAL_SIZE + 1,
                         IF i * SERIAL_SIZE > Len(buf) THEN Len(buf)
                         ELSE i * SERIAL_SIZE)
      states == [i \in 1..n |-> deserialize(chunk(i))]
  IN IF \E i \in 1..n : ~states[i].ok THEN Err
     ELSE Ok([i \in 1..n |-> states[i].val])

-----------------------------------------------------------------------------
Init ==
  /\ my_state \in [Ranks -> SyncStates]
  /\ pc       = [r \in Ranks |-> "start"]
  /\ send_buf = [r \in Ranks |-> <<>>]
  /\ recv_buf = [r \in Ranks |-> <<>>]
  /\ result   = [r \in Ranks |-> <<>>]

(* sync line 9: htod_copy(serialize(state)?); a state too large to         *)
(* serialize returns Err from sync before the collective is entered.      *)
Serialize(r) ==
  /\ pc[r] = "start"
  /\ LET ser == serialize(my_state[r]) IN
       IF ~ser.ok
       THEN /\ pc' = [pc EXCEPT ![r] = "err"]
            /\ UNCHANGED send_buf
       ELSE /\ pc' = [pc EXCEPT ![r] = "gathering"]
            /\ send_buf' = [send_buf EXCEPT ![r] = ser.val]
  /\ UNCHANGED <<my_state, recv_buf, result>>

(* sync lines 10-16: all_gather completes only once every rank of the      *)
(* communicator has entered it; it fills every rank's all_states_dev with  *)
(* the ranks' buffers concatenated in rank order.                          *)
AllGather ==
  /\ \A r \in Ranks : pc[r] = "gathering"
  /\ LET gathered == FlattenSeq([i \in 1..Cardinality(Ranks) |-> send_buf[i - 1]])
     IN recv_buf' = [r \in Ranks |-> gathered]
  /\ pc' = [r \in Ranks |-> "gathered"]
  /\ UNCHANGED <<my_state, send_buf, result>>

(* sync lines 18-20: dtoh copy, deserialize_all(...)?, SyncResult::new.    *)
Deserialize(r) ==
  /\ pc[r] = "gathered"
  /\ LET all == deserialize_all(recv_buf[r]) IN
       IF ~all.ok
       THEN /\ pc' = [pc EXCEPT ![r] = "err"]
            /\ UNCHANGED result
       ELSE /\ pc' = [pc EXCEPT ![r] = "done"]
            /\ result' = [result EXCEPT ![r] = all.val]
  /\ UNCHANGED <<my_state, send_buf, recv_buf>>

(* A rank inside all_gather whose peers have not all entered it waits on   *)
(* the device: NCCL has no timeout, so the wait is a step that changes     *)
(* nothing and a hang is a behaviour that stays here forever.             *)
WaitInCollective ==
  /\ \E r \in Ranks : pc[r] = "gathering"
  /\ UNCHANGED vars

(* Every rank has returned from sync: the round is over.                   *)
Returned == \A r \in Ranks : pc[r] \in {"done", "err"}
Terminating == Returned /\ UNCHANGED vars

Next ==
  \/ \E r \in Ranks : Serialize(r) \/ Deserialize(r)
  \/ AllGather
  \/ WaitInCollective
  \/ Terminating

(* Each rank runs sync on its own thread to completion; NCCL completes a   *)
(* collective that every rank has entered.                                 *)
Fairness ==
  /\ \A r \in Ranks : WF_vars(Serialize(r)) /\ WF_vars(Deserialize(r))
  /\ WF_vars(AllGather)

Spec == Init /\ [][Next]_vars /\ Fairness

-----------------------------------------------------------------------------
TypeOK ==
  /\ my_state \in [Ranks -> SyncStates]
  /\ pc \in [Ranks -> {"start", "gathering", "gathered", "done", "err"}]
  /\ \A r \in Ranks : pc[r] \in {"gathering", "gathered", "done"}
                        => Len(send_buf[r]) = SERIAL_SIZE

(* When every rank's state fits the buffer, every rank eventually returns *)
(* Ok from sync: deserialize_all decodes every chunk of the gathered       *)
(* buffer, the exactly-full ones whose last id ends on the chunk boundary *)
(* included.  The abstract round allows a rank to fail after the          *)
(* collective (FailLate), so this is not implied by RefinesSyncRound.      *)
RoundSucceeds ==
  (\A r \in Ranks : serialize(my_state[r]).ok) =>
    <>(\A r \in Ranks : pc[r] = "done")

(* Every rank eventually returns from sync, with a result or an error: no  *)
(* rank is left blocked in the all_gather collective.                      *)
EveryRankReturns == <>Returned

-----------------------------------------------------------------------------
(* The refinement mapping onto SyncRound: a rank has joined the round once *)
(* it has put its serialized state on the device (an Err of serialize     *)
(* leaves send_buf empty); its status is that of the Result sync returns,  *)
(* and what it learned is the all_states of its SyncResult.                *)
Joined(r) ==
  \/ pc[r] \in {"gathering", "gathered", "done"}
  \/ pc[r] = "err" /\ send_buf[r] # <<>>
RoundStatus(r) ==
  CASE pc[r] = "done" -> "ok" [] pc[r] = "err" -> "err" [] OTHER -> "pending"

Round == INSTANCE SyncRound
           WITH States <- SyncStates, state <- my_state,
                entered <- [r \in Ranks |-> Joined(r)],
                status <- [r \in Ranks |-> RoundStatus(r)],
                learned <- result

(* sync implements the round it stands for: no rank returns a SyncResult  *)
(* before every rank has entered all_gather, the all_states it returns    *)
(* are the states all ranks passed in rank order, and every rank that     *)
(* entered a collective all ranks entered returns.                        *)
RefinesSyncRound == Round!Spec

=============================================================================
