----------------------------- MODULE Idempotency -----------------------------
(***************************************************************************)
(* The Idempotency-Key middleware (internal/adapters/httpapi/              *)
(* idempotency.go) around one mutating request and its duplicates: the     *)
(* requests of one scope, the guild, method, path and key joined, sent     *)
(* again by a client that retries or twice at once.  Each request is       *)
(* served by its own goroutine; the mutex covers the lookup and the store  *)
(* of the entry, and not the handler between them.                         *)
(*                                                                         *)
(* StoreEntryForgets and HandleErrorCached are seeded faults of the        *)
(* definitions they precede, used by no definition.                        *)
(*                                                                         *)
(* A response is written through to net/http's buffer and reaches the      *)
(* client when the middleware returns.                                     *)
(***************************************************************************)
EXTENDS Naturals, FiniteSets

CONSTANTS Requests,     \* the request and its duplicates
          MaxRestarts   \* bound: how often the process is restarted

ASSUME IdempotencyAssumption ==
    /\ Requests \cap {"none", "error"} = {}
    /\ MaxRestarts \in Nat

VARIABLES
    entry,      \* the cached entry: {} or the one request that wrote it
    phase,      \* where each request is
    answer,     \* what its client got from this process
    applied,    \* the requests whose unit of work committed
    informed,   \* requests sent after this process gave a success answer
    restarts

vars == <<entry, phase, answer, applied, informed, restarts>>

Phases == {"unsent", "arrived", "running", "succeeded", "done"}

(* A success answer is the result of the request that computed it.         *)
Answers == Requests \cup {"none", "error"}

(* The cache holds at most one response for the key, the one stored last,  *)
(* and every request is where the middleware can put it.                   *)
TypeOK ==
    /\ entry \in SUBSET Requests /\ Cardinality(entry) <= 1
    /\ phase \in [Requests -> Phases]
    /\ answer \in [Requests -> Answers]
    /\ applied \in SUBSET Requests
    /\ informed \in SUBSET Requests
    /\ restarts \in 0..MaxRestarts

Init ==
    /\ entry = {}
    /\ phase = [r \in Requests |-> "unsent"]
    /\ answer = [r \in Requests |-> "none"]
    /\ applied = {}
    /\ informed = {}
    /\ restarts = 0

SuccessGiven == \E r \in Requests : answer[r] \in Requests

(* A client sends the request; informed remembers whether some client      *)
(* already holds a success answer from this process.                       *)
Send(r) ==
    /\ phase[r] = "unsent"
    /\ phase' = [phase EXCEPT ![r] = "arrived"]
    /\ informed' = IF SuccessGiven THEN informed \cup {r} ELSE informed
    /\ UNCHANGED <<entry, answer, applied, restarts>>

(* The lookup under the mutex: replay the entry, or go on to the handler.  *)
Lookup(r) ==
    /\ phase[r] = "arrived"
    /\ \/ /\ entry # {}
          /\ \E q \in entry : answer' = [answer EXCEPT ![r] = q]
          /\ phase' = [phase EXCEPT ![r] = "done"]
       \/ /\ entry = {}
          /\ phase' = [phase EXCEPT ![r] = "running"]
          /\ UNCHANGED answer
    /\ UNCHANGED <<entry, applied, informed, restarts>>

(* The handler ran: its unit of work committed and the answer is 2xx.      *)
HandleApplied(r) ==
    /\ phase[r] = "running"
    /\ phase' = [phase EXCEPT ![r] = "succeeded"]
    /\ applied' = applied \cup {r}
    /\ UNCHANGED <<entry, answer, informed, restarts>>

HandleErrorCached(r) ==
    /\ phase[r] = "running"
    /\ phase' = [phase EXCEPT ![r] = "succeeded"]
    /\ UNCHANGED <<entry, answer, applied, informed, restarts>>

(* The handler answers with an error, which is not cached.  The unit was   *)
(* rolled back; or the commit went through and its acknowledgement was     *)
(* lost to the request's 15s deadline.                                     *)
HandleError(r) ==
    /\ phase[r] = "running"
    /\ phase' = [phase EXCEPT ![r] = "done"]
    /\ answer' = [answer EXCEPT ![r] = "error"]
    /\ \/ UNCHANGED applied
       \/ applied' = applied \cup {r}
    /\ UNCHANGED <<entry, informed, restarts>>

StoreEntryForgets(r) ==
    /\ phase[r] = "succeeded"
    /\ phase' = [phase EXCEPT ![r] = "done"]
    /\ answer' = [answer EXCEPT ![r] = r]
    /\ UNCHANGED <<entry, applied, informed, restarts>>

(* The entry is stored, over one that a concurrent duplicate may have      *)
(* stored meanwhile, and the response leaves.                              *)
StoreEntry(r) ==
    /\ phase[r] = "succeeded"
    /\ entry' = {r}
    /\ phase' = [phase EXCEPT ![r] = "done"]
    /\ answer' = [answer EXCEPT ![r] = r]
    /\ UNCHANGED <<applied, informed, restarts>>

(* The process restarts: the entries are gone, and so are the requests it  *)
(* was serving, which their clients see as errors.  What clients already   *)
(* know of the old process no longer counts.                               *)
Restart ==
    /\ restarts < MaxRestarts
    /\ restarts' = restarts + 1
    /\ entry' = {}
    /\ LET open == {r \in Requests : phase[r] \in {"arrived", "running", "succeeded"}}
       IN  /\ phase' = [r \in Requests |-> IF r \in open THEN "done" ELSE phase[r]]
           /\ answer' = [r \in Requests |-> IF r \in open THEN "error"
                                            ELSE IF answer[r] \in Requests THEN "none"
                                            ELSE answer[r]]
    /\ informed' = {}
    /\ UNCHANGED applied

AllDone ==
    /\ \A r \in Requests : phase[r] = "done"
    /\ UNCHANGED vars

Next ==
    \/ \E r \in Requests : \/ Send(r) \/ Lookup(r) \/ HandleApplied(r)
                           \/ HandleError(r) \/ StoreEntry(r)
    \/ Restart
    \/ AllDone

Spec == Init /\ [][Next]_vars

-----------------------------------------------------------------------------
(* A client that already holds a success answer from this process, and     *)
(* sends the request again, never makes the mutation happen again.         *)
RetryAfterAnswer == informed \cap applied = {}

(* Whatever is replayed was computed by a request that was really applied: *)
(* no answer claims a success that did not happen.                         *)
AnswersAreTrue == \A r \in Requests : answer[r] \in Requests => answer[r] \in applied

(* The mutation happens at most once: "a replayed mutating request returns *)
(* the original result without re-applying it" (idempotency.go:9), R16.    *)
AppliedOnce == Cardinality(applied) <= 1
=============================================================================
