---------------------------- MODULE SharesDecoding ----------------------------
(***************************************************************************)
(* Retrieval and decryption of one party's iris share for a                *)
(* UniquenessRequest, iris-mpc-common/src/helpers/smpc_request.rs.         *)
(*                                                                         *)
(* get_iris_data_by_party_id downloads the SharesS3Object from the         *)
(* presigned URL, retrying transport errors; decrypt_iris_share opens the  *)
(* sealed box of the share with the current key pair and falls back to the *)
(* previous one; validate_iris_share hashes the re-serialized JSON and     *)
(* compares it with the hash the request carries for this party.  The     *)
(* server calls the three in that order (outside this tree).  The parties *)
(* share nothing in this step, so one party, party_id, is modelled; its   *)
(* key pairs rotate at any time.  Ciphertexts, JSON texts and hashes are  *)
(* abstracted to what tells them apart: whose public key and which key    *)
(* generation a share is sealed under, and whether the client's JSON text *)
(* is the one serde_json writes.                                           *)
(***************************************************************************)
EXTENDS Integers

CONSTANTS
  party_id,     \* this party's id, 0, 1 or 2
  RETRIES,      \* take(5) of the retry strategy
  FaultCounts,  \* how many GETs in a row may meet a transport error
  MaxGen,       \* bound on key generations
  JsonTexts     \* the JSON texts a client may seal: "canonical" or another

ASSUME /\ party_id \in Nat
       /\ RETRIES \in Nat /\ FaultCounts \subseteq Nat /\ MaxGen \in Nat \ {0}
       /\ "canonical" \in JsonTexts

VARIABLES
  pc,         \* where the party is in handling the request
  attempts,   \* GET attempts made so far
  faults,     \* how many GETs meet a transport error before one gets through
  http_ok,    \* whether the GET that gets through is answered 2xx
  body_ok,    \* whether its body downloads whole and parses as SharesS3Object
  key_gen,    \* the party's current key generation (previous = key_gen - 1)
  sealed_gen, \* the key generation the client sealed this party's share with
  json,       \* the JSON text the client sealed
  share,      \* which iris_share_<q> the party took out of the S3 object
  used_gen,   \* the key generation the party held when it decrypted
  outcome     \* Ok, Ok(false), or the SharesDecodingError returned

vars == <<pc, attempts, faults, http_ok, body_ok, key_gen, sealed_gen, json, share,
          used_gen, outcome>>

NoKey == -1

-----------------------------------------------------------------------------
(* Mutant: party 2 reads iris_share_1.                                     *)
Get_copy_paste(p) == CASE p = 0 -> 0 [] p = 1 -> 1 [] p = 2 -> 1 [] OTHER -> NoKey
(* SharesS3Object::get, lines 110-117: party_id selects iris_share_<id>;  *)
(* any other id has no field (None).                                      *)
Get(p) == CASE p = 0 -> 0 [] p = 1 -> 1 [] p = 2 -> 2 [] OTHER -> NoKey

(* Mutants: one retry fewer; one retry more.                              *)
RetryLeft_short(n) == n < RETRIES
RetryLeft_long(n) == n <= RETRIES + 1
(* Lines 128-135: FixedInterval(200ms).map(jitter).take(5): Retry::spawn   *)
(* retries an Err of send() while the strategy has a delay left, n being   *)
(* the attempts made so far: 1 + 5 attempts in all.                        *)
RetryLeft(n) == n <= RETRIES

(* Mutant: no fallback to the previous key pair.                           *)
Opens_current_only(g, sealed) == sealed = g
(* Lines 178-193: open_sealed_box with the current key pair, else with the *)
(* previous one if there is one (PreviousKeyNotFound otherwise).           *)
Opens(g, sealed) == sealed = g \/ (g > 0 /\ sealed = g - 1)

(* Lines 215-219: serde_json::to_string writes the canonical text; the      *)
(* share is valid when its sha256 equals the request's hash of the text    *)
(* the client sealed.                                                      *)
Reserialize(text) == "canonical"
HashMatches(text) == Reserialize(text) = text

-----------------------------------------------------------------------------
Init ==
  /\ pc = "fetch"
  /\ attempts = 0
  /\ faults \in FaultCounts
  /\ http_ok \in BOOLEAN
  /\ body_ok \in BOOLEAN
  /\ key_gen \in 0..1
  /\ sealed_gen \in 0..1
  /\ json \in JsonTexts
  /\ share = NoKey
  /\ used_gen = NoKey
  /\ outcome = "none"

Finish(o) == pc' = "done" /\ outcome' = o

(* One GET of get_iris_data_by_party_id, lines 129-164: a transport error  *)
(* is retried while the strategy has delays left and returned otherwise;  *)
(* a response with a non-2xx status is an error, not retried.  A 2xx body *)
(* is read and parsed by response.json() outside the retry: a body that   *)
(* fails to download or to parse is a RequestError (lines 140-146); then  *)
(* the party's field is taken, SecretStringNotFound if there is none.     *)
Fetch ==
  /\ pc = "fetch"
  /\ attempts' = attempts + 1
  /\ IF attempts < faults
     THEN /\ IF RetryLeft(attempts + 1) THEN UNCHANGED <<pc, outcome>>
             ELSE Finish("RequestError")
          /\ UNCHANGED share
     ELSE IF http_ok /\ body_ok /\ Get(party_id) # NoKey
          THEN /\ share' = Get(party_id)
               /\ pc' = "decrypt"
               /\ UNCHANGED outcome
          ELSE IF http_ok /\ body_ok
          THEN /\ Finish("SecretStringNotFound")
               /\ UNCHANGED share
          ELSE IF http_ok
          THEN /\ Finish("RequestError")
               /\ UNCHANGED share
          ELSE /\ Finish("ResponseContent")
               /\ UNCHANGED share
  /\ UNCHANGED <<faults, http_ok, body_ok, key_gen, sealed_gen, json, used_gen>>

(* decrypt_iris_share, lines 167-208, with the key pairs the party holds   *)
(* now.  The client sealed iris_share_<q> to party q's public key, so     *)
(* only the party's own share opens with its keys.                        *)
Decrypt ==
  /\ pc = "decrypt"
  /\ used_gen' = key_gen
  /\ IF share = party_id /\ Opens(key_gen, sealed_gen)
     THEN pc' = "validate" /\ UNCHANGED outcome
     ELSE Finish("SealedBoxOpenError")
  /\ UNCHANGED <<attempts, faults, http_ok, body_ok, key_gen, sealed_gen, json, share>>

(* validate_iris_share, lines 210-220: Ok(false) for a hash mismatch.      *)
Validate ==
  /\ pc = "validate"
  /\ Finish(IF HashMatches(json) THEN "Ok" ELSE "Invalid")
  /\ UNCHANGED <<attempts, faults, http_ok, body_ok, key_gen, sealed_gen, json,
                 share, used_gen>>

(* A key rotation: the current pair becomes the previous one.             *)
Rotate ==
  /\ key_gen < MaxGen
  /\ key_gen' = key_gen + 1
  /\ UNCHANGED <<pc, attempts, faults, http_ok, body_ok, sealed_gen, json, share,
                 used_gen, outcome>>

Done == pc = "done"
Terminating == Done /\ UNCHANGED vars

Next == Fetch \/ Decrypt \/ Validate \/ Rotate \/ Terminating

(* The request handler runs to completion on its task.                    *)
Spec == Init /\ [][Next]_vars /\ WF_vars(Fetch \/ Decrypt \/ Validate)

-----------------------------------------------------------------------------
TypeOK ==
  /\ pc \in {"fetch", "decrypt", "validate", "done"}
  /\ attempts \in 0..(RETRIES + 1)
  /\ key_gen \in 0..MaxGen
  /\ outcome \in {"none", "Ok", "Invalid", "RequestError", "ResponseContent",
                  "SecretStringNotFound", "SealedBoxOpenError"}

(* The party accepts the request whenever nothing is really wrong with it: *)
(* its GETs meet no more transport errors than the retry strategy absorbs, *)
(* S3 answers 2xx with a body that arrives whole and is a SharesS3Object, *)
(* the party's id names one of its fields, its share was sealed under a  *)
(* key it still held when it decrypted (at most one rotation earlier),    *)
(* and the client sealed canonical JSON.  Field selection, retry count,  *)
(* key fallback and hashing must all line up for this.                    *)
AcceptsWellFormed ==
  /\ Done
  /\ faults <= RETRIES
  /\ http_ok /\ body_ok /\ Get(party_id) # NoKey
  /\ used_gen # NoKey => used_gen - sealed_gen \in {0, 1}
  /\ json = "canonical"
  => outcome = "Ok"

=============================================================================
