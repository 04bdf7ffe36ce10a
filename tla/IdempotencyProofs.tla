-------------------------- MODULE IdempotencyProofs --------------------------
(***************************************************************************)
(* What the idempotency cache guarantees for any number of duplicates and  *)
(* restarts.                                                               *)
(*                                                                         *)
(* RetryAfterAnswer is not inductive: that an informed retry cannot run    *)
(* rests on the entry being there whenever a client holds a success answer *)
(* of this process, and staying there until the process ends.              *)
(***************************************************************************)
EXTENDS Idempotency, FiniteSetTheorems, TLAPS

(* While somebody holds a success answer, the entry is in the cache.       *)
AnswerMeansEntry == \A r \in Requests : answer[r] \in Requests => entry # {}

(* An informed retry finds the entry and never reaches the handler.        *)
InformedNeverRuns ==
    \A r \in informed : entry # {} /\ phase[r] \in {"arrived", "done"}

(* What is cached, or about to be, was applied; what was not sent was not. *)
OnlyAppliedSucceeds ==
    /\ entry \subseteq applied
    /\ \A r \in Requests : /\ phase[r] = "succeeded" => r \in applied
                           /\ phase[r] = "unsent" => r \notin applied

IInv ==
    /\ TypeOK
    /\ AnswerMeansEntry
    /\ InformedNeverRuns
    /\ OnlyAppliedSucceeds
    /\ RetryAfterAnswer
    /\ AnswersAreTrue

(* Before any request the invariant holds.                                 *)
LEMMA InitKeeps ==
    ASSUME Init
    PROVE  IInv
<1>1. TypeOK
  <2>1. Cardinality({}) = 0
    BY FS_EmptySet
  <2> QED  BY <2>1, IdempotencyAssumption DEF Init, TypeOK, Phases, Answers
<1>2. \A r \in Requests : answer[r] \notin Requests
  BY IdempotencyAssumption DEF Init
<1>3. OnlyAppliedSucceeds
  BY DEF Init, OnlyAppliedSucceeds
<1> QED  BY <1>1, <1>2, <1>3 DEF Init, IInv, AnswerMeansEntry, InformedNeverRuns,
                             RetryAfterAnswer, AnswersAreTrue

(* Every step of the middleware, its clients and the process keeps it.     *)
LEMMA NextKeeps ==
    ASSUME IInv, [Next]_vars
    PROVE  IInv'
<1> USE DEF IInv
<1>1. ASSUME NEW r \in Requests, Send(r) PROVE IInv'
  <2>1. TypeOK'
    BY <1>1 DEF Send, TypeOK, Phases
  <2>2. informed' \subseteq informed \cup {r} /\ (r \in informed' \ informed => entry # {})
    BY <1>1 DEF Send, SuccessGiven, AnswerMeansEntry
  <2>3. InformedNeverRuns'
    BY <1>1, <2>2 DEF Send, InformedNeverRuns, TypeOK
  <2>4. OnlyAppliedSucceeds' /\ RetryAfterAnswer'
    BY <1>1, <2>2 DEF Send, OnlyAppliedSucceeds, RetryAfterAnswer, TypeOK
  <2>5. AnswerMeansEntry' /\ AnswersAreTrue'
    BY <1>1 DEF Send, AnswerMeansEntry, AnswersAreTrue
  <2> QED  BY <2>1, <2>3, <2>4, <2>5
<1>2. ASSUME NEW r \in Requests, Lookup(r) PROVE IInv'
  <2>1. CASE entry # {} /\ phase' = [phase EXCEPT ![r] = "done"]
             /\ \E q \in entry : answer' = [answer EXCEPT ![r] = q]
    <3>1. PICK q \in entry : answer' = [answer EXCEPT ![r] = q]
      BY <2>1
    <3>2. UNCHANGED <<entry, applied, informed, restarts>>
      BY <1>2 DEF Lookup
    <3>3. TypeOK'
      BY <2>1, <3>1, <3>2 DEF TypeOK, Phases, Answers
    <3>4. AnswerMeansEntry' /\ InformedNeverRuns'
      BY <2>1, <3>1, <3>2 DEF AnswerMeansEntry, InformedNeverRuns, TypeOK
    <3>5. OnlyAppliedSucceeds' /\ RetryAfterAnswer'
      BY <2>1, <3>2 DEF OnlyAppliedSucceeds, RetryAfterAnswer, TypeOK
    <3>6. AnswersAreTrue'
      BY <3>1, <3>2 DEF AnswersAreTrue, OnlyAppliedSucceeds, TypeOK
    <3> QED  BY <3>3, <3>4, <3>5, <3>6
  <2>2. CASE entry = {} /\ phase' = [phase EXCEPT ![r] = "running"] /\ UNCHANGED answer
    <3>1. UNCHANGED <<entry, applied, informed, restarts, answer>>
      BY <1>2, <2>2 DEF Lookup
    <3>2. TypeOK'
      BY <2>2, <3>1 DEF TypeOK, Phases
    <3>3. AnswerMeansEntry' /\ AnswersAreTrue' /\ RetryAfterAnswer'
      BY <3>1 DEF AnswerMeansEntry, AnswersAreTrue, RetryAfterAnswer
    <3>4. InformedNeverRuns'
      BY <2>2, <3>1 DEF InformedNeverRuns
    <3>5. OnlyAppliedSucceeds'
      BY <2>2, <3>1 DEF OnlyAppliedSucceeds, TypeOK
    <3> QED  BY <3>2, <3>3, <3>4, <3>5
  <2> QED  BY <1>2, <2>1, <2>2 DEF Lookup
<1>3. ASSUME NEW r \in Requests, phase[r] = "running",
             applied' \in {applied, applied \cup {r}},
             phase' \in {[phase EXCEPT ![r] = "done"], [phase EXCEPT ![r] = "succeeded"]},
             phase'[r] = "succeeded" => r \in applied',
             answer' \in {answer, [answer EXCEPT ![r] = "error"]},
             UNCHANGED <<entry, informed, restarts>>
      PROVE  IInv'
  <2>1. r \notin informed
    BY <1>3 DEF InformedNeverRuns
  <2>2. TypeOK'
    BY <1>3 DEF TypeOK, Phases, Answers
  <2>3. \A q \in Requests : answer'[q] = answer[q] \/ answer'[q] \notin Requests
    BY <1>3, IdempotencyAssumption DEF TypeOK
  <2>4. AnswerMeansEntry' /\ AnswersAreTrue'
    BY <1>3, <2>3 DEF AnswerMeansEntry, AnswersAreTrue
  <2>5. InformedNeverRuns'
    BY <1>3, <2>1 DEF InformedNeverRuns, TypeOK
  <2>6. OnlyAppliedSucceeds'
    BY <1>3 DEF OnlyAppliedSucceeds, TypeOK
  <2>7. RetryAfterAnswer'
    BY <1>3, <2>1 DEF RetryAfterAnswer
  <2> QED  BY <2>2, <2>4, <2>5, <2>6, <2>7
<1>4. ASSUME NEW r \in Requests, HandleApplied(r) PROVE IInv'
  BY <1>3, <1>4 DEF HandleApplied
<1>5. ASSUME NEW r \in Requests, HandleError(r) PROVE IInv'
  <2>1. phase'[r] # "succeeded"
    BY <1>5 DEF HandleError, TypeOK
  <2> QED  BY <1>3, <1>5, <2>1 DEF HandleError
<1>6. ASSUME NEW r \in Requests, StoreEntry(r) PROVE IInv'
  <2>1. /\ phase[r] = "succeeded" /\ entry' = {r}
        /\ phase' = [phase EXCEPT ![r] = "done"]
        /\ answer' = [answer EXCEPT ![r] = r]
        /\ UNCHANGED <<applied, informed, restarts>>
    BY <1>6 DEF StoreEntry
  <2>2. r \in applied
    BY <2>1 DEF OnlyAppliedSucceeds
  <2>3. Cardinality({r}) = 1
    BY FS_Singleton, Zenon
  <2>4. TypeOK'
    BY <2>1, <2>3 DEF TypeOK, Phases, Answers
  <2>5. AnswerMeansEntry' /\ InformedNeverRuns'
    BY <2>1 DEF AnswerMeansEntry, InformedNeverRuns, TypeOK
  <2>6. OnlyAppliedSucceeds' /\ RetryAfterAnswer'
    BY <2>1, <2>2 DEF OnlyAppliedSucceeds, RetryAfterAnswer, TypeOK
  <2>7. AnswersAreTrue'
    BY <2>1, <2>2 DEF AnswersAreTrue, TypeOK
  <2> QED  BY <2>4, <2>5, <2>6, <2>7
<1>7. CASE Restart
  <2> DEFINE open == {r \in Requests : phase[r] \in {"arrived", "running", "succeeded"}}
  <2>1. /\ restarts < MaxRestarts /\ restarts' = restarts + 1
        /\ entry' = {} /\ informed' = {} /\ applied' = applied
        /\ phase' = [r \in Requests |-> IF r \in open THEN "done" ELSE phase[r]]
        /\ answer' = [r \in Requests |-> IF r \in open THEN "error"
                                         ELSE IF answer[r] \in Requests THEN "none"
                                         ELSE answer[r]]
    BY <1>7 DEF Restart
  <2>2. \A r \in Requests : answer'[r] \in {"none", "error"} \cup (Answers \ Requests)
    BY <2>1 DEF TypeOK
  <2>3. \A r \in Requests : answer'[r] \notin Requests
    BY <2>2, IdempotencyAssumption DEF Answers
  <2>4. Cardinality({}) = 0
    BY FS_EmptySet
  <2>5. TypeOK'
    BY <2>1, <2>4, IdempotencyAssumption DEF TypeOK, Phases, Answers
  <2>6. OnlyAppliedSucceeds'
    BY <2>1 DEF OnlyAppliedSucceeds, TypeOK, Phases
  <2>7. AnswerMeansEntry' /\ AnswersAreTrue' /\ InformedNeverRuns' /\ RetryAfterAnswer'
    BY <2>1, <2>3 DEF AnswerMeansEntry, AnswersAreTrue, InformedNeverRuns, RetryAfterAnswer
  <2> QED  BY <2>5, <2>6, <2>7
<1>8. CASE UNCHANGED vars
  BY <1>8 DEF vars, TypeOK, AnswerMeansEntry, InformedNeverRuns, OnlyAppliedSucceeds,
              RetryAfterAnswer, AnswersAreTrue
<1>9. CASE AllDone
  BY <1>8, <1>9 DEF AllDone
<1> QED  BY <1>1, <1>2, <1>4, <1>5, <1>6, <1>7, <1>8, <1>9 DEF Next

(* The invariant holds throughout.                                         *)
THEOREM IdempotencyInvariant == Spec => []IInv
<1>1. Init => IInv
  BY InitKeeps
<1>2. IInv /\ [Next]_vars => IInv'
  BY NextKeeps
<1> QED  BY <1>1, <1>2, PTL DEF Spec

(* However many duplicates race and however often the process restarts, a  *)
(* request sent after this process gave a success answer is not applied.   *)
THEOREM InformedRetriesAreSafe == Spec => []RetryAfterAnswer
<1>1. IInv => RetryAfterAnswer
  BY DEF IInv
<1> QED  BY <1>1, IdempotencyInvariant, PTL

(* No client is told of a success that did not happen.                     *)
THEOREM SuccessIsReal == Spec => []AnswersAreTrue
<1>1. IInv => AnswersAreTrue
  BY DEF IInv
<1> QED  BY <1>1, IdempotencyInvariant, PTL
=============================================================================
