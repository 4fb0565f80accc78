------------------------------- MODULE SyncRound -------------------------------
(***************************************************************************)
(* What one synchronization round promises its callers, with no buffers,  *)
(* encoding or collective in sight.  Each rank holds a state.  A rank     *)
(* either gives up before it joins the round, or joins it; once every     *)
(* rank has joined, each joined rank either learns the states of all ranks *)
(* in rank order or gives up.  No rank learns anything before every rank  *)
(* has joined, and what it learns is exactly the ranks' states.           *)
(***************************************************************************)
EXTENDS Integers, FiniteSets

CONSTANTS Ranks, States

VARIABLES
  state,    \* the state each rank brings to the round
  entered,  \* whether each rank has joined the round
  status,   \* "pending", "ok" or "err" for each rank
  learned   \* what each rank learned: the states of all ranks, in rank order

avars == <<state, entered, status, learned>>

AllStates == [i \in 1..Cardinality(Ranks) |-> state[i - 1]]

Init ==
  /\ state \in [Ranks -> States]
  /\ entered = [r \in Ranks |-> FALSE]
  /\ status = [r \in Ranks |-> "pending"]
  /\ learned = [r \in Ranks |-> <<>>]

Enter(r) ==
  /\ status[r] = "pending" /\ ~entered[r]
  /\ entered' = [entered EXCEPT ![r] = TRUE]
  /\ UNCHANGED <<state, status, learned>>

FailEarly(r) ==
  /\ status[r] = "pending" /\ ~entered[r]
  /\ status' = [status EXCEPT ![r] = "err"]
  /\ UNCHANGED <<state, entered, learned>>

Learn(r) ==
  /\ status[r] = "pending" /\ \A q \in Ranks : entered[q]
  /\ status' = [status EXCEPT ![r] = "ok"]
  /\ learned' = [learned EXCEPT ![r] = AllStates]
  /\ UNCHANGED <<state, entered>>

FailLate(r) ==
  /\ status[r] = "pending" /\ \A q \in Ranks : entered[q]
  /\ status' = [status EXCEPT ![r] = "err"]
  /\ UNCHANGED <<state, entered, learned>>

Next == \E r \in Ranks : Enter(r) \/ FailEarly(r) \/ Learn(r) \/ FailLate(r)

(* Every rank decides whether to join, and once all have joined every rank *)
(* ends the round; a round some rank never joined may never end.          *)
Spec ==
  /\ Init /\ [][Next]_avars
  /\ \A r \in Ranks : WF_avars(Enter(r) \/ FailEarly(r))
  /\ \A r \in Ranks : WF_avars(Learn(r) \/ FailLate(r))

=============================================================================
