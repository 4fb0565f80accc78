-------------------------------- MODULE Client --------------------------------
(***************************************************************************)
(* The end-to-end test client iris-mpc/src/bin/client.rs.                  *)
(*                                                                         *)
(* Two tokio tasks share three Mutex<HashMap>s: expected_results ("E"),    *)
(* requests ("Q") and responses ("R").  The main task (sender) builds      *)
(* N_QUERIES requests, records what it expects in E and the template in Q, *)
(* and publishes the three shares to the SNS topic.  The spawned task      *)
(* (receiver) makes N_QUERIES * 3 receive_message calls on the SQS         *)
(* response queue, checks each ResultEvent against E, records freshly      *)
(* inserted templates in R and deletes the message.  The MPC server is     *)
(* the environment: it answers each published request, in topic order,    *)
(* with one ResultEvent per node.  Shares, base64 and JSON are abstracted: *)
(* an iris code is <<"db", i>> for database entry i or <<"new", q>> for    *)
(* the fresh random code of query q.                                       *)
(***************************************************************************)
EXTENDS Integers, Sequences, FiniteSets, TLC

CONSTANTS
  N_QUERIES,      \* client.rs N_QUERIES (scaled down)
  DB_SIZE,        \* client.rs DB_SIZE (scaled down)
  Nodes,          \* the MPC parties answering each request
  StaleMsgs,      \* result messages left in the queue by an earlier run
  NetworkErrors,  \* whether SNS/SQS calls may fail
  MaxDeliveries,  \* how many times SQS may deliver one result message
  ArgChoices      \* the --random, --db-index, --n-repeat the client may get

ASSUME /\ N_QUERIES \in Nat \ {0}
       /\ DB_SIZE \in Nat \ {0}
       /\ NetworkErrors \in BOOLEAN
       /\ MaxDeliveries \in Nat \ {0}

VARIABLES
  s_pc, s_q, s_opt, s_tmpl, s_key,      \* sender (main task)
  r_pc, r_iter, r_msg,                  \* receiver (spawned task)
  expected_results, requests, responses, \* the three shared maps
  lock,                                 \* holder of each Mutex
  topic,                                \* requests published, in order
  server_db,                            \* the server's enrolled codes
  queue,                                \* the SQS response queue
  answered,                             \* every result ever queued, by id,
                                        \* with how often it was delivered
  args                                  \* the command line of this run

sender   == <<s_pc, s_q, s_opt, s_tmpl, s_key>>
receiver == <<r_pc, r_iter, r_msg>>
maps     == <<expected_results, requests, responses>>
env      == <<args, topic, server_db, queue, answered>>
vars     == <<sender, receiver, maps, lock, env>>

None == -1                       \* Option::None of expected_results
Free == "free"
Locks == {"E", "Q", "R"}
RequestIds == 1..N_QUERIES       \* Uuid::new_v4 of query q
DbCode(i) == <<"db", i>>
NewCode(q) == <<"new", q>>
SeedCode == <<"seed", 1337>>     \* IrisCode::random_rng of StdRng seeded 1337
Codes == {DbCode(i) : i \in 0..(DB_SIZE - 1)} \cup {NewCode(q) : q \in RequestIds}
           \cup {SeedCode}
(* An Option<T> argument of Opt as the set of its values: {} is None.     *)
SomeOf(o) == CHOOSE v \in o : TRUE

(* A map with one key added or overwritten (HashMap::insert).              *)
Insert(f, k, v) == [x \in DOMAIN f \cup {k} |-> IF x = k THEN v ELSE f[x]]
(* A map with one key removed.                                             *)
Remove(f, k) == [x \in DOMAIN f \ {k} |-> f[x]]

-----------------------------------------------------------------------------
(* The server's answer to a published request (outside this tree): a code  *)
(* already enrolled matches its serial id; otherwise it is enrolled at the *)
(* next serial id.  Every node reports the same answer.                    *)
ServerAnswer ==
  /\ topic # <<>>
  /\ LET req  == Head(topic)
         hits == {k \in 0..(Len(server_db) - 1) : server_db[k + 1] = req.code}
         match == hits # {}
         serial == IF match THEN CHOOSE k \in hits : TRUE ELSE Len(server_db)
         msgs == [n \in Nodes |-> [signup_id |-> req.id, node_id |-> n,
                                   serial_id |-> serial, is_match |-> match,
                                   visible |-> TRUE]]
     IN /\ server_db' = IF match THEN server_db ELSE Append(server_db, req.code)
        /\ queue' = queue @@ [m \in {<<req.id, n>> : n \in Nodes} |-> msgs[m[2]]]
        /\ answered' = answered @@ [m \in {<<req.id, n>> : n \in Nodes} |->
                                      [msg |-> msgs[m[2]], deliveries |-> 1]]
  /\ topic' = Tail(topic)
  /\ UNCHANGED <<sender, receiver, maps, lock, args>>

(* SQS visibility timeout: a received message that was not deleted becomes *)
(* visible again.                                                          *)
VisibilityTimeout ==
  /\ \E m \in DOMAIN queue :
       /\ ~queue[m].visible
       /\ r_msg # m
       /\ queue' = [queue EXCEPT ![m].visible = TRUE]
  /\ UNCHANGED <<sender, receiver, maps, lock, args, topic, server_db, answered>>

(* SQS delivers at least once: a copy of a result the receiver has already *)
(* deleted may come back as a new visible message, up to MaxDeliveries     *)
(* times per result.                                                      *)
Redeliver ==
  /\ \E m \in DOMAIN answered \ DOMAIN queue :
       /\ answered[m].deliveries < MaxDeliveries
       /\ queue' = queue @@ (m :> answered[m].msg)
       /\ answered' = [answered EXCEPT ![m].deliveries = @ + 1]
  /\ UNCHANGED <<sender, receiver, maps, lock, args, topic, server_db>>

-----------------------------------------------------------------------------
(* Sender, lines 160-166, when --random is given (with either value, as   *)
(* random.is_some() tests): options is 2 while responses is empty, else 3; *)
(* choice_rng picks one.  The responses lock is a temporary of the if.     *)
Choose ==
  /\ s_pc = "choose"
  /\ args.random # {}
  /\ lock["R"] = Free
  /\ \E opt \in 0..(IF Cardinality(DOMAIN responses) = 0 THEN 1 ELSE 2) :
       /\ s_opt' = opt
       /\ s_pc' = IF opt = 2 THEN "lock_R" ELSE "expect"
  /\ UNCHANGED <<s_q, s_tmpl, s_key, receiver, maps, lock, env>>

(* Manual mode, lines 199-211, when --random is not given: the database  *)
(* code db_index for the first n_repeat queries and a fresh random code  *)
(* after them; with no db_index, the code of an RNG seeded with 1337,     *)
(* the same code for every query.  An index past the database panics     *)
(* main.  Nothing is recorded in expected_results.                        *)
ChooseManual ==
  /\ s_pc = "choose"
  /\ args.random = {}
  /\ IF args.db_index = {}
     THEN s_tmpl' = SeedCode /\ s_pc' = "requests"
     ELSE IF s_q - 1 >= args.n_repeat
     THEN s_tmpl' = NewCode(s_q) /\ s_pc' = "requests"
     ELSE IF SomeOf(args.db_index) < DB_SIZE
     THEN s_tmpl' = DbCode(SomeOf(args.db_index)) /\ s_pc' = "requests"
     ELSE s_pc' = "exited" /\ UNCHANGED s_tmpl
  /\ UNCHANGED <<s_q, s_opt, s_key, receiver, maps, lock, env>>

(* Lines 168-184: option 0 expects None for a fresh random code, option 1  *)
(* expects Some(db_index) for a database code; E is held for the insert.   *)
Expect ==
  /\ s_pc = "expect"
  /\ lock["E"] = Free
  /\ \/ /\ s_opt = 0
        /\ expected_results' = Insert(expected_results, s_q, None)
        /\ s_tmpl' = NewCode(s_q)
     \/ /\ s_opt = 1
        /\ \E i \in 0..(DB_SIZE - 1) :
             /\ expected_results' = Insert(expected_results, s_q, i)
             /\ s_tmpl' = DbCode(i)
  /\ s_pc' = "requests"
  /\ UNCHANGED <<s_q, s_opt, s_key, receiver, requests, responses, lock, env>>

(* Lines 187-189: option 2 takes the responses lock into tmp and picks one *)
(* of its keys; gen_range(0..0) on an empty map panics main.  Option 2 is *)
(* chosen from a count read under an earlier guard, and responses only    *)
(* grows, so the panic needs the count to have been stale downward.       *)
LockResponses ==
  /\ s_pc = "lock_R"
  /\ lock["R"] = Free
  /\ lock' = [lock EXCEPT !["R"] = "sender"]
  /\ IF DOMAIN responses = {}
     THEN s_pc' = "exited" /\ UNCHANGED s_key
     ELSE \E k \in DOMAIN responses : s_key' = k /\ s_pc' = "expect_fresh"
  /\ UNCHANGED <<s_q, s_opt, s_tmpl, receiver, maps, env>>

(* Lines 190-196: still holding responses, lock expected_results and      *)
(* expect Some(key); tmp is dropped at the end of the arm.                 *)
ExpectFresh ==
  /\ s_pc = "expect_fresh"
  /\ lock["E"] = Free
  /\ expected_results' = Insert(expected_results, s_q, s_key)
  /\ s_tmpl' = responses[s_key]
  /\ lock' = [lock EXCEPT !["R"] = Free]
  /\ s_pc' = "requests"
  /\ UNCHANGED <<s_q, s_opt, s_key, receiver, requests, responses, env>>

(* Lines 213-216: record the template under the request id.               *)
RecordRequest ==
  /\ s_pc = "requests"
  /\ lock["Q"] = Free
  /\ requests' = Insert(requests, s_q, s_tmpl)
  /\ s_pc' = "publish"
  /\ UNCHANGED <<s_q, s_opt, s_tmpl, s_key, receiver, expected_results,
                 responses, lock, env>>

(* Lines 218-273: share the code and publish one message per node in one  *)
(* publish_batch; an SNS error returns Err from main, ending the process.  *)
Publish ==
  /\ s_pc = "publish"
  /\ \/ /\ topic' = Append(topic, [id |-> s_q, code |-> s_tmpl])
        /\ s_q' = s_q + 1
        /\ s_pc' = IF s_q = N_QUERIES THEN "join" ELSE "choose"
     \/ /\ NetworkErrors
        /\ s_pc' = "exited"
        /\ UNCHANGED <<topic, s_q>>
  /\ UNCHANGED <<s_opt, s_tmpl, s_key, receiver, maps, lock, args, server_db,
                 queue, answered>>

(* Lines 276-281: sleep, then recv_thread.await??: main returns Ok only if *)
(* the receiver returned Ok; an Err or a panic (JoinError) is an Err.     *)
Join ==
  /\ s_pc = "join"
  /\ r_pc \in {"done", "failed", "panicked"}
  /\ s_pc' = IF r_pc = "done" THEN "returned" ELSE "exited"
  /\ UNCHANGED <<s_q, s_opt, s_tmpl, s_key, receiver, maps, lock, env>>

-----------------------------------------------------------------------------
(* Mutant: the loop bound taken as inclusive (0..=N_QUERIES * 3).          *)
MoreReceives_inclusive(i) == i <= N_QUERIES * 3
(* Line 92: for _ in 0..N_QUERIES * 3.                                     *)
MoreReceives(i) == i < N_QUERIES * 3

(* Mutant: the serial id compared one-based against a zero-based index.    *)
ResultAgrees_one_based(res, id) == res.is_match /\ res.serial_id = id + 1
(* Lines 139-140: assert!(result.is_match); assert_eq!(serial_id, id).     *)
ResultAgrees(res, id) == res.is_match /\ res.serial_id = id

(* Receiver, lines 92-100: one receive_message of at most one message per  *)
(* iteration, N_QUERIES * 3 iterations.  A visible message is returned and *)
(* becomes invisible; with none visible the call returns no message and   *)
(* the iteration ends; an SQS error ends the task with Err.               *)
Receive ==
  /\ r_pc = "receive"
  /\ \/ /\ ~MoreReceives(r_iter)
        /\ r_pc' = "done"
        /\ UNCHANGED <<r_iter, r_msg, queue>>
     \/ /\ MoreReceives(r_iter)
        /\ \E m \in DOMAIN queue :
             /\ queue[m].visible
             /\ queue' = [queue EXCEPT ![m].visible = FALSE]
             /\ r_msg' = m
             /\ r_pc' = "lock_E"
        /\ UNCHANGED r_iter
     \/ /\ MoreReceives(r_iter)
        /\ \A m \in DOMAIN queue : ~queue[m].visible
        /\ r_iter' = r_iter + 1
        /\ UNCHANGED <<r_pc, r_msg, queue>>
     \/ /\ MoreReceives(r_iter)
        /\ NetworkErrors
        /\ r_pc' = "failed"
        /\ UNCHANGED <<r_iter, r_msg, queue>>
  /\ UNCHANGED <<sender, maps, lock, args, topic, server_db, answered>>

(* Lines 108-141: lock expected_results into tmp (held to the end of the  *)
(* iteration).  Unknown signup_id: log and continue without deleting.     *)
(* Expected None: assert !is_match.  Expected Some(id): assert is_match   *)
(* and serial_id == id.  A failed assert panics the task.                 *)
CheckResult ==
  /\ r_pc = "lock_E"
  /\ lock["E"] = Free
  /\ LET res == queue[r_msg]
         sid == res.signup_id
     IN IF sid \notin DOMAIN expected_results
        THEN /\ r_pc' = "receive"
             /\ r_iter' = r_iter + 1
             /\ r_msg' = <<>>
             /\ UNCHANGED lock
        ELSE /\ lock' = [lock EXCEPT !["E"] = "receiver"]
             /\ UNCHANGED <<r_iter, r_msg>>
             /\ IF expected_results[sid] = None
                THEN r_pc' = IF res.is_match THEN "panicked" ELSE "get_request"
                ELSE r_pc' = IF ResultAgrees(res, expected_results[sid])
                             THEN "delete" ELSE "panicked"
  /\ UNCHANGED <<sender, maps, env>>

(* Lines 123-128: lock requests and clone the template (unwrap panics on a *)
(* missing id); the guard is a temporary, released at once.                *)
GetRequest ==
  /\ r_pc = "get_request"
  /\ lock["Q"] = Free
  /\ r_pc' = IF queue[r_msg].signup_id \in DOMAIN requests
             THEN "insert_response" ELSE "panicked"
  /\ UNCHANGED <<r_iter, r_msg, sender, maps, lock, env>>

(* Lines 129-132: lock responses, still holding expected_results, and      *)
(* insert the template under the returned serial id.                       *)
InsertResponse ==
  /\ r_pc = "insert_response"
  /\ lock["R"] = Free
  /\ responses' = Insert(responses, queue[r_msg].serial_id,
                         requests[queue[r_msg].signup_id])
  /\ r_pc' = "delete"
  /\ UNCHANGED <<r_iter, r_msg, sender, expected_results, requests, lock, env>>

(* Lines 143-150: delete_message with the receipt handle, then tmp drops. *)
DeleteMessage ==
  /\ r_pc = "delete"
  /\ \/ /\ queue' = Remove(queue, r_msg)
        /\ r_pc' = "receive"
        /\ r_iter' = r_iter + 1
        /\ r_msg' = <<>>
     \/ /\ NetworkErrors
        /\ r_pc' = "failed"
        /\ UNCHANGED <<r_iter, r_msg, queue>>
  /\ lock' = [lock EXCEPT !["E"] = Free]
  /\ UNCHANGED <<sender, maps, args, topic, server_db, answered>>

-----------------------------------------------------------------------------
(* A task awaiting a Mutex held by the other task stays parked; once main  *)
(* has returned the runtime is gone and nothing moves.                     *)
Parked ==
  /\ \/ s_pc \in {"exited", "returned"}
     \/ s_pc \in {"choose", "lock_R"} /\ lock["R"] # Free
     \/ s_pc \in {"expect", "expect_fresh"} /\ lock["E"] # Free
     \/ r_pc = "lock_E" /\ lock["E"] # Free
     \/ r_pc = "insert_response" /\ lock["R"] # Free
  /\ UNCHANGED vars

Running == s_pc \notin {"exited", "returned"}

Init ==
  /\ s_pc = "choose" /\ s_q = 1 /\ s_opt = 0 /\ s_tmpl = <<>> /\ s_key = None
  /\ r_pc = "receive" /\ r_iter = 0 /\ r_msg = <<>>
  /\ expected_results = <<>> /\ requests = <<>> /\ responses = <<>>
  /\ lock = [l \in Locks |-> Free]
  /\ topic = <<>>
  /\ server_db = [i \in 1..DB_SIZE |-> DbCode(i - 1)]
  /\ queue = [m \in StaleMsgs |-> [signup_id |-> 0, node_id |-> 0,
                                   serial_id |-> 0, is_match |-> TRUE,
                                   visible |-> TRUE]]
  /\ answered = <<>>
  /\ args \in ArgChoices

Next ==
  \/ /\ Running
     /\ \/ Choose \/ ChooseManual \/ Expect \/ LockResponses \/ ExpectFresh
        \/ RecordRequest \/ Publish \/ Join
        \/ Receive \/ CheckResult \/ GetRequest \/ InsertResponse
        \/ DeleteMessage
        \/ ServerAnswer \/ VisibilityTimeout \/ Redeliver
  \/ Parked

Spec == Init /\ [][Next]_vars

-----------------------------------------------------------------------------
TypeOK ==
  /\ s_pc \in {"choose", "expect", "lock_R", "expect_fresh", "requests",
               "publish", "join", "exited", "returned"}
  /\ s_q \in 1..(N_QUERIES + 1)
  /\ r_pc \in {"receive", "lock_E", "get_request", "insert_response",
               "delete", "done", "failed", "panicked"}
  /\ r_iter \in 0..(N_QUERIES * 3)
  /\ DOMAIN expected_results \subseteq RequestIds
  /\ DOMAIN requests \subseteq RequestIds
  /\ \A k \in DOMAIN responses : responses[k] \in Codes
  /\ args.random \subseteq BOOLEAN
  /\ lock \in [Locks -> {Free, "sender", "receiver"}]

(* The receiver's checks never fail against a correct server: whatever   *)
(* order the two tasks, the server and the queue interleave in, a result  *)
(* is only read after the sender recorded what it expects and which code  *)
(* it sent, and a code re-sent from responses is expected at the serial   *)
(* id the server enrolled it under (asserts of lines 122, 139, 140 and   *)
(* the unwraps of lines 127 and 132).                                     *)
NoFailedCheck == r_pc # "panicked"

(* The two tasks never wait on each other's Mutex: the receiver holds      *)
(* expected_results while it locks responses (lines 108, 129), the sender *)
(* holds responses while it locks expected_results (lines 187, 190).      *)
NoLockCycle ==
  ~ /\ s_pc = "expect_fresh" /\ lock["E"] = "receiver"
    /\ r_pc = "insert_response" /\ lock["R"] = "sender"

(* When main returns Ok, every result of every request ("Receive all       *)
(* messages", line 278) has been received, checked and deleted.           *)
AllResultsChecked ==
  s_pc = "returned" =>
    \A q \in RequestIds, n \in Nodes :
      <<q, n>> \in DOMAIN answered /\ <<q, n>> \notin DOMAIN queue

=============================================================================
