--------------------------- MODULE ModelCallProofs ----------------------------
(***************************************************************************)
(* ModelCall for every workflow, every number of retries and every reply:   *)
(* its types, what an evaluator that fails can and cannot cause, and how    *)
(* long a request may take for the caller never to interrupt the retries.   *)
(***************************************************************************)
EXTENDS ModelCall, EngineLemmas

(* What is known of the reply that ended the subprocess, and where the      *)
(* verdict comes from.                                                      *)
Asking ==
  /\ child = "asking" => role # "decided" /\ tries <= Retries
  /\ child = "answered" => Accepted(heard)
  /\ role = "actor" => heard \in Work
  /\ role = "evaluator" => heard \in Judgements(st)

Judged ==
  /\ role # "decided" => verdict = NoVerdict
  /\ verdict # NoVerdict =>
       /\ heard \in Judgements(st)
       /\ \E checks \in [StateDef[st].checks -> BOOLEAN] : verdict = VerdictOf(checks)
       /\ decision = Advance(st, attempt, used, verdict)

IInv == TypeOK /\ Asking /\ Judged

-----------------------------------------------------------------------------
(* Replies.                                                                 *)

(* Nobody is silent and understood at once.                                 *)
LEMMA Failures ==
  ASSUME NEW s
  PROVE  /\ {Unreachable, Garbled} \subseteq Work \cap Judgements(s)
         /\ ~Accepted(Unreachable) /\ ~Accepted(Garbled)
BY DEF Unreachable, Garbled, Work, Judgements, Accepted, Reply

(* What the evaluator is understood to say is a verdict value, for each     *)
(* criterion it speaks of.                                                  *)
LEMMA AcceptedSays ==
  ASSUME NEW s, NEW r \in Judgements(s), Accepted(r), NEW id \in DOMAIN r.says
  PROVE  r.says[id] \in VerdictValues
<1>1. r \notin {Unreachable, Garbled}
  BY Failures
<1>2. PICK f \in UNION {[D -> VerdictValues \cup {Malformed}] :
                          D \in SUBSET (Criteria(s) \cup {Unasked})} :
        r = Reply("verdicts", f)
  BY <1>1 DEF Judgements
<1>3. PICK D : f \in [D -> VerdictValues \cup {Malformed}]
  BY <1>2
<1>4. r.says = f
  BY <1>2 DEF Reply
<1>5. r.says[id] \in VerdictValues \cup {Malformed} /\ r.says[id] # Malformed
  BY <1>3, <1>4 DEF Accepted
<1>6. QED
  BY <1>5

(* Whatever ended the evaluator, it says something of every criterion.      *)
LEMMA ValueType ==
  ASSUME heard \in Judgements(st), child = "answered" => Accepted(heard), NEW id
  PROVE  Value(id) \in VerdictValues
<1>1. CASE child = "answered"
  BY <1>1, AcceptedSays DEF Value, Said, VerdictValues
<1>2. CASE child # "answered"
  BY <1>2 DEF Value, Said, Silence, VerdictValues
<1>3. QED
  BY <1>1, <1>2

(* What the runner makes of an answer is a verdict.                         *)
LEMMA VerdictType ==
  ASSUME heard \in Judgements(st), child = "answered" => Accepted(heard),
         NEW checks \in [StateDef[st].checks -> BOOLEAN]
  PROVE  VerdictOf(checks) \in Verdicts(st)
BY ValueType DEF VerdictOf, Verdicts

(* A subprocess that did not answer says "fail" of everything.              *)
LEMMA Unheard ==
  ASSUME child # "answered", NEW id
  PROVE  Value(id) = "fail"
BY DEF Value, Said, Silence

-----------------------------------------------------------------------------
(* Nobody has been asked yet.                                               *)
LEMMA InitHolds == Init => IInv
<1> SUFFICES ASSUME Init PROVE IInv
  OBVIOUS
<1>1. TypeOK
  BY WorkflowAssumption, ModelCallAssumption, Failures
  DEF Init, TypeOK, Transition
<1>2. Asking
  BY ModelCallAssumption, Failures DEF Init, Asking
<1>3. Judged
  BY DEF Init, Judged
<1>4. QED
  BY <1>1, <1>2, <1>3 DEF IInv

(* One more request to the model keeps the invariant.                       *)
LEMMA AskStep ==
  ASSUME IInv, AskModel
  PROVE  IInv'
<1> USE ModelCallAssumption
<1>1. PICK d \in Durations[pace],
           r \in (IF role = "actor" THEN Work ELSE Judgements(st)) :
        /\ heard' = r
        /\ IF Accepted(r)
             THEN child' = "answered" /\ clock' = clock + d
             ELSE /\ child' = IF MayAskAgain(tries + 1) THEN "asking" ELSE "failed"
                  /\ clock' = clock + d + Pause(r)
  BY DEF AskModel
<1>2. /\ child = "asking" /\ tries' = tries + 1
      /\ UNCHANGED <<st, attempt, used, pace, role, verdict, decision>>
  BY DEF AskModel
<1>3. tries \in Nat /\ tries <= Retries /\ role # "decided" /\ verdict = NoVerdict
  BY <1>2 DEF IInv, TypeOK, Asking, Judged
<1>4. d \in Nat /\ Pause(r) \in Nat
  BY DEF Pause, IInv, TypeOK
<1>5. r \in Work \cup Judgements(st)
  OBVIOUS
<1>6. TypeOK'
  BY <1>1, <1>2, <1>3, <1>4, <1>5 DEF IInv, TypeOK, Judgements, Criteria, Verdicts
<1>7. Asking'
  BY <1>1, <1>2, <1>3 DEF IInv, TypeOK, Asking, Accepted, MayAskAgain, Judgements, Criteria
<1>8. Judged'
  BY <1>2, <1>3 DEF Judged
<1>9. QED
  BY <1>6, <1>7, <1>8 DEF IInv

(* A decision is the engine's on the verdict of this answer.                *)
LEMMA DecideStep ==
  ASSUME IInv, Decide
  PROVE  IInv'
<1>1. PICK checks \in [StateDef[st].checks -> BOOLEAN] :
        /\ verdict' = VerdictOf(checks)
        /\ decision' = Advance(st, attempt, used, VerdictOf(checks))
  BY DEF Decide
<1>2. /\ role = "evaluator" /\ child # "asking" /\ role' = "decided"
      /\ UNCHANGED <<st, attempt, used, pace, child, tries, clock, heard>>
  BY DEF Decide
<1>3. VerdictOf(checks) \in Verdicts(st)
  BY <1>2, VerdictType DEF IInv, Asking
<1>4. decision'.to \in Names
  BY <1>1, AdvanceType
<1>5. VerdictOf(checks)' = VerdictOf(checks)
  BY <1>2 DEF VerdictOf, Value, Said
<1>6. TypeOK'
  BY <1>1, <1>2, <1>3, <1>4 DEF IInv, TypeOK, Judgements, Criteria, Verdicts
<1>7. Asking'
  BY <1>2 DEF IInv, Asking, Accepted
<1>8. Judged'
  BY <1>1, <1>2, <1>5 DEF IInv, Asking, Judged, Judgements, Criteria
<1>9. QED
  BY <1>6, <1>7, <1>8 DEF IInv

(* Every step of actor and evaluator keeps the invariant.                   *)
LEMMA StepHolds == IInv /\ [Next]_vars => IInv'
<1> SUFFICES ASSUME IInv, [Next]_vars PROVE IInv'
  OBVIOUS
<1> USE DEF IInv, TypeOK, Asking, Judged
<1>1. CASE UNCHANGED vars
  BY <1>1 DEF vars, VerdictOf, Value, Said, Accepted, Judgements, Criteria, Verdicts
<1>2. CASE AskModel
  BY <1>2, AskStep
<1>3. CASE Kill
  BY <1>3 DEF Kill, Judgements, Criteria, Verdicts
<1>4. CASE ActorDone
  BY <1>4, ModelCallAssumption, Failures
  DEF ActorDone, Judgements, Criteria, Verdicts
<1>5. CASE ActorLost
  BY <1>5, WorkflowAssumption
  DEF ActorLost, Judgements, Criteria, Verdicts, Transition
<1>6. CASE Decide
  BY <1>6, DecideStep
<1>7. QED
  BY <1>1, <1>2, <1>3, <1>4, <1>5, <1>6 DEF Next

(* Whatever the model replies, however slowly: the types are kept.          *)
THEOREM TypeCorrect == Spec => []TypeOK
<1>1. IInv => TypeOK
  BY DEF IInv
<1>2. QED
  BY <1>1, InitHolds, StepHolds, PTL DEF Spec

(* model_evaluator.py:77: for every set of criteria and every number of     *)
(* retries, a verdict that is not "fail" is one the last reply gave, in     *)
(* which every entry was well formed.                                       *)
THEOREM NoGuessing == Spec => []NeverAGuess
<1>1. IInv => NeverAGuess
  <2> SUFFICES ASSUME IInv, NEW a \in DOMAIN verdict.assertions,
                      verdict.assertions[a] # "fail"
               PROVE  /\ a \in DOMAIN heard.says
                      /\ heard.says[a] = verdict.assertions[a]
                      /\ \A id \in DOMAIN heard.says : heard.says[id] \in VerdictValues
    BY DEF NeverAGuess
  <2>1. verdict # NoVerdict
    BY DEF NoVerdict
  <2>2. PICK checks : verdict = VerdictOf(checks)
    BY <2>1 DEF IInv, Judged
  <2>3. verdict.assertions[a] = Value(a)
    BY <2>2 DEF VerdictOf
  <2>4. child = "answered"
    BY <2>3, Unheard
  <2>5. heard \in Judgements(st) /\ Accepted(heard)
    BY <2>1, <2>4 DEF IInv, Asking, Judged
  <2>6. a \in DOMAIN heard.says /\ heard.says[a] = Value(a)
    BY <2>3, <2>4 DEF Value, Said
  <2>7. QED
    BY <2>3, <2>5, <2>6, AcceptedSays
<1>2. QED
  BY <1>1, InitHolds, StepHolds, PTL DEF Spec

(* ADR 0003 D9: in every workflow, an evaluator that failed or was killed   *)
(* keeps a state with a nominal assertion where it is, or blocks it.        *)
THEOREM OutageIsHarmless == Spec => []OutageOnlyCostsAnAttempt
<1>1. IInv => OutageOnlyCostsAnAttempt
  <2> SUFFICES ASSUME IInv, verdict # NoVerdict, child \in {"failed", "killed"},
                      StateDef[st].assertions \ FailureIds(st) # {}
               PROVE  decision.kind \in {"retry", "budget"}
    BY DEF OutageOnlyCostsAnAttempt
  <2>1. PICK checks : verdict = VerdictOf(checks)
    BY DEF IInv, Judged
  <2>2. /\ \A a \in StateDef[st].assertions : verdict.assertions[a] = "fail"
        /\ \A t \in Triggers : ~verdict.escalations[t]
    BY <2>1, Unheard DEF VerdictOf
  <2>3. ~Escalated(verdict) /\ FiredRules(st, verdict) = {}
    BY <2>2 DEF Escalated, FiredRules
  <2>4. ~NominalAssertionsPass(st, verdict)
    BY <2>2 DEF NominalAssertionsPass
  <2>5. st \in States /\ ~StateDef[st].terminal
    BY DEF IInv, TypeOK, NonTerminal
  <2>6. decision = Advance(st, attempt, used, verdict)
    BY DEF IInv, Judged
  <2>7. QED
    BY <2>3, <2>4, <2>5, <2>6 DEF Advance, Transition
<1>2. QED
  BY <1>1, InitHolds, StepHolds, PTL DEF Spec

-----------------------------------------------------------------------------
(* Time.  Each request of a prompt model adds at most its limit and a pause *)
(* of two half seconds.                                                     *)
Cost(limit) == limit + 2

OnTime(limit) ==
  pace = "prompt" => clock <= tries * Cost(limit) /\ child # "killed"

(* While the model is prompt, each request costs its limit and the pause    *)
(* after it at most, so the caller never has to kill.                       *)
LEMMA OnTimeStep ==
  ASSUME NEW limit \in Nat, \A d \in Durations["prompt"] : d <= limit,
         Retries * Cost(limit) + limit <= ProcessTimeout,
         IInv, OnTime(limit), [Next]_vars
  PROVE  OnTime(limit)'
<1> SUFFICES ASSUME pace' = "prompt"
             PROVE  clock' <= tries' * Cost(limit) /\ child' # "killed"
  BY DEF OnTime
<1>1. pace = "prompt"
  BY DEF Next, vars, AskModel, Kill, ActorDone, ActorLost, Decide
<1>2. /\ clock \in Nat /\ tries \in Nat /\ Retries \in Nat /\ ProcessTimeout \in Nat
      /\ Durations["prompt"] \subseteq Nat
  BY ModelCallAssumption DEF IInv, TypeOK, Paces
<1>3. clock <= tries * Cost(limit) /\ child # "killed"
  BY <1>1 DEF OnTime
<1>4. Cost(limit) \in Nat
  BY DEF Cost
<1>5. CASE UNCHANGED vars \/ ActorLost \/ Decide
  BY <1>3, <1>5 DEF vars, ActorLost, Decide
<1>6. CASE AskModel
  <2>1. PICK d \in Durations["prompt"], k \in {0, 1, 2} :
          clock' = clock + d + k /\ tries' = tries + 1 /\ child' # "killed"
    BY <1>1, <1>2, <1>6 DEF AskModel, Pause
  <2>2. d \in Nat /\ d + k <= Cost(limit)
    BY <1>2, <2>1 DEF Cost
  <2>3. (tries + 1) * Cost(limit) = tries * Cost(limit) + Cost(limit)
    BY <1>2, <1>4
  <2>4. QED
    BY <1>2, <1>3, <1>4, <2>1, <2>2, <2>3
<1>7. CASE Kill
  <2>1. PICK d \in Durations["prompt"] : clock + d > ProcessTimeout
    BY <1>1, <1>7 DEF Kill
  <2>2. tries <= Retries
    BY <1>7 DEF Kill, IInv, Asking
  <2>3. tries * Cost(limit) <= Retries * Cost(limit)
    BY <1>2, <1>4, <2>2
  <2>4. tries * Cost(limit) \in Nat /\ Retries * Cost(limit) \in Nat
    BY <1>2, <1>4
  <2>5. clock + d <= ProcessTimeout
    BY <1>2, <1>3, <2>1, <2>3, <2>4
  <2>6. QED
    BY <1>2, <2>1, <2>5
<1>8. CASE ActorDone
  BY <1>4, <1>8 DEF ActorDone
<1>9. QED
  BY <1>5, <1>6, <1>7, <1>8 DEF Next

(* runner.py:314 and session_loop.py:45, for any constants: the caller      *)
(* never interrupts a model that keeps to a limit, once its timeout covers  *)
(* every request at that limit and the pauses between them.  With the       *)
(* constants of the code that is 2 * (180 + 2) + 180 <= 600 half seconds.   *)
THEOREM TimeoutSuffices ==
  ASSUME NEW limit \in Nat, \A d \in Durations["prompt"] : d <= limit,
         Retries * Cost(limit) + limit <= ProcessTimeout
  PROVE  Spec => []RetriesFitTheTimeout
<1>1. Init => OnTime(limit)
  BY DEF Init, OnTime, Cost
<1>2. IInv /\ OnTime(limit) /\ [Next]_vars => OnTime(limit)'
  BY OnTimeStep
<1>3. OnTime(limit) => RetriesFitTheTimeout
  BY DEF OnTime, RetriesFitTheTimeout
<1>4. QED
  BY <1>1, <1>2, <1>3, InitHolds, StepHolds, PTL DEF Spec

=============================================================================
