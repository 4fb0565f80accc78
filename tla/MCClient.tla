------------------------------- MODULE MCClient -------------------------------
(* Model-checking instance of Client.                                      *)
EXTENDS Client

(* The client run with --random true and no other option.                 *)
RandomArgs == {[random |-> {TRUE}, db_index |-> {}, n_repeat |-> 0]}

(* Random mode, and the manual modes: --db-index 0 --n-repeat 1 (the       *)
(* database code, then a random one); no --db-index (the seeded code for  *)
(* every query); --db-index past the database.                            *)
AllArgs ==
  RandomArgs \cup
  {[random |-> {}, db_index |-> {0}, n_repeat |-> 1],
   [random |-> {}, db_index |-> {}, n_repeat |-> 0],
   [random |-> {}, db_index |-> {DB_SIZE}, n_repeat |-> N_QUERIES]}
=============================================================================
