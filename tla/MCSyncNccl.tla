------------------------------ MODULE MCSyncNccl ------------------------------
(* Model-checking instance of SyncNccl: three ranks as in the three-party  *)
(* deployment, a two-byte usize, room for two one-byte request ids.        *)
EXTENDS SyncNccl

(* 1 and 300 differ in both bytes of the little-endian encoding.           *)
MCDbLens == {1, 300}
(* Deleted request ids: the one-byte id "a" (a state may list it twice). *)
MCRequestIds == {<<97>>}
=============================================================================
