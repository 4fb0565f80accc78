---------------------------- MODULE DevicePipeline ----------------------------
(***************************************************************************)
(* What the streams and events of DeviceManager promise the pipeline that *)
(* drives them, with no streams, records or waits in sight.  The host     *)
(* issues, batch after batch, a query copy, a compare kernel and an open  *)
(* kernel to every device.  A device may run an issued kernel once the    *)
(* kernels it depends on have run on that device: the kernel issued      *)
(* before it on the same stream, and, for an open kernel, the compare     *)
(* kernel of its batch.  The host is synchronized only when every device  *)
(* has run everything issued.                                              *)
(***************************************************************************)
EXTENDS Integers, Sequences, FiniteSets

CONSTANTS Dev, Batches

Steps == <<"h2d", "cmp", "open">>

(* The kernels in the order the host issues them.                          *)
Program == [i \in 1..(3 * Cardinality(Batches)) |->
              <<Steps[((i - 1) % 3) + 1], ((i - 1) \div 3) + 1>>]
Kernels == {Program[i] : i \in DOMAIN Program}

(* The dependency edges into kernel x: the previous kernel on its stream  *)
(* (query copies and compares share a stream) and the compare an open     *)
(* reads.                                                                  *)
DependsOn(x) ==
  LET k == x[2] IN
  CASE x[1] = "h2d"  -> {<<"cmp", k - 1>>} \cap Kernels
    [] x[1] = "cmp"  -> {<<"h2d", k>>}
    [] x[1] = "open" -> {<<"cmp", k>>} \cup ({<<"open", k - 1>>} \cap Kernels)

VARIABLES
  issued,  \* how many kernels of Program the host has issued
  done,    \* done[d]: the kernels device d has run
  synced   \* whether the host has synchronized every stream

pvars == <<issued, done, synced>>

Issued == {Program[i] : i \in 1..issued}

Init ==
  /\ issued = 0
  /\ done = [d \in Dev |-> {}]
  /\ synced = FALSE

Issue ==
  /\ issued < Len(Program)
  /\ issued' = issued + 1
  /\ UNCHANGED <<done, synced>>

Complete(d, x) ==
  /\ x \in Issued \ done[d]
  /\ DependsOn(x) \subseteq done[d]
  /\ done' = [done EXCEPT ![d] = @ \cup {x}]
  /\ UNCHANGED <<issued, synced>>

Synchronize ==
  /\ ~synced /\ issued = Len(Program)
  /\ \A d \in Dev : done[d] = Kernels
  /\ synced' = TRUE
  /\ UNCHANGED <<issued, done>>

Next ==
  \/ Issue \/ Synchronize
  \/ \E d \in Dev, x \in Kernels : Complete(d, x)

Spec == Init /\ [][Next]_pvars

=============================================================================
