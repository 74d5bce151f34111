----------------------------- MODULE EngineProofs -----------------------------
(***************************************************************************)
(* What engine.advance makes of an evaluator's doubt, and of better work,   *)
(* for every workflow, every state of it and every verdict.                 *)
(***************************************************************************)
EXTENDS EngineJudgements, EngineLemmas

VerdictOK == st \in NonTerminal /\ verdict \in Verdicts(st)

(* A verdict judged again is a verdict on the same attempt.                 *)
LEMMA VerdictStep ==
  VerdictOK /\ [Next]_vars => VerdictOK'
<1> SUFFICES ASSUME VerdictOK, [Next]_vars PROVE VerdictOK'
  OBVIOUS
<1> USE DEF VerdictOK, Verdicts
<1>1. CASE UNCHANGED vars
  BY <1>1 DEF vars
<1>2. CASE RejudgeCheck /\ UNCHANGED <<st, attempt, used>>
  <2>1. PICK c \in StateDef[st].checks : verdict' = [verdict EXCEPT !.checks[c] = ~@]
    BY <1>2 DEF RejudgeCheck
  <2>2. (~verdict.checks[c]) \in BOOLEAN
    OBVIOUS
  <2>3. [verdict.checks EXCEPT ![c] = ~@] \in [StateDef[st].checks -> BOOLEAN]
    BY <2>2
  <2>4. QED
    BY <1>2, <2>1, <2>3
<1>3. CASE RejudgeAssertion /\ UNCHANGED <<st, attempt, used>>
  BY <1>3 DEF RejudgeAssertion
<1>4. CASE RejudgeTrigger /\ UNCHANGED <<st, attempt, used>>
  <2>1. PICK t \in Triggers : verdict' = [verdict EXCEPT !.escalations[t] = ~@]
    BY <1>4 DEF RejudgeTrigger
  <2>2. (~verdict.escalations[t]) \in BOOLEAN
    OBVIOUS
  <2>3. [verdict.escalations EXCEPT ![t] = ~@] \in [Triggers -> BOOLEAN]
    BY <2>2
  <2>4. QED
    BY <1>4, <2>1, <2>3
<1>5. QED
  BY <1>1, <1>2, <1>3, <1>4 DEF Next

(* A hardened verdict says "pass" of exactly the same entries.              *)
LEMMA HardenedPasses ==
  ASSUME NEW s \in States, NEW v \in Verdicts(s)
  PROVE  /\ Hardened(s, v).checks = v.checks
         /\ Hardened(s, v).escalations = v.escalations
         /\ \A a \in StateDef[s].assertions :
              Hardened(s, v).assertions[a] = "pass" <=> v.assertions[a] = "pass"
BY DEF Hardened, Verdicts

(* So the engine cannot tell a doubt from a refusal.                        *)
LEMMA HardenedDecides ==
  ASSUME NEW s \in NonTerminal, NEW v \in Verdicts(s), NEW n, NEW u
  PROVE  Advance(s, n, u, v) = Advance(s, n, u, Hardened(s, v))
<1> DEFINE h == Hardened(s, v)
<1>0. s \in States
  BY DEF NonTerminal
<1>1. FiredRules(s, v) = FiredRules(s, h)
  BY <1>0, HardenedPasses DEF FiredRules
<1>2. NominalAssertionsPass(s, v) = NominalAssertionsPass(s, h)
  BY <1>0, HardenedPasses DEF NominalAssertionsPass
<1>3. AllChecksPass(s, v) = AllChecksPass(s, h) /\ Escalated(v) = Escalated(h)
  BY <1>0, HardenedPasses DEF AllChecksPass, Escalated
<1>4. FirstFired(s, v) = FirstFired(s, h)
  BY <1>1 DEF FirstFired
<1>5. QED
  BY <1>1, <1>2, <1>3, <1>4 DEF Advance

(* engine.py:17: an evaluator that doubts moves the session exactly where   *)
(* one that refuses would, whatever the state, its rules, its attempt and   *)
(* the budget.                                                              *)
THEOREM DoubtNeverHelps == Spec => []DoubtIsFailure
<1>1. Init => VerdictOK
  BY DEF Init, VerdictOK
<1>2. VerdictOK /\ [Next]_vars => VerdictOK'
  BY VerdictStep
<1>3. VerdictOK => DoubtIsFailure
  BY HardenedDecides DEF VerdictOK, DoubtIsFailure, Decision
<1>4. QED
  BY <1>1, <1>2, <1>3, PTL DEF Spec

-----------------------------------------------------------------------------
(* w passes whatever v does, and agrees with it on escalations and on the   *)
(* assertions of failure rules.                                             *)
Better(s, v, w) ==
  /\ \A c \in StateDef[s].checks : v.checks[c] => w.checks[c]
  /\ \A a \in StateDef[s].assertions :
       \/ w.assertions[a] = v.assertions[a]
       \/ a \notin FailureIds(s) /\ v.assertions[a] # "pass"
  /\ w.escalations = v.escalations

(* Then only the nominal exit can tell them apart.                          *)
LEMMA BetterDecides ==
  ASSUME NEW s \in NonTerminal, NEW n, NEW u, NEW v, NEW w, Better(s, v, w)
  PROVE  LET before == Advance(s, n, u, v)
             after  == Advance(s, n, u, w)
         IN  \/ after = before
             \/ before.kind \in {"retry", "budget"} /\ after.kind = "next"
<1>1. \A i \in DOMAIN StateDef[s].onFailure : StateDef[s].onFailure[i].when \in FailureIds(s)
  BY DEF FailureIds
<1>2. FiredRules(s, v) = FiredRules(s, w)
  BY <1>1 DEF FiredRules, Better
<1>3. FirstFired(s, v) = FirstFired(s, w)
  BY <1>2 DEF FirstFired
<1>4. Escalated(v) = Escalated(w)
  BY DEF Escalated, Better
<1>5. AllChecksPass(s, v) => AllChecksPass(s, w)
  BY DEF AllChecksPass, Better
<1>6. NominalAssertionsPass(s, v) => NominalAssertionsPass(s, w)
  BY DEF NominalAssertionsPass, Better
<1>7. CASE AllChecksPass(s, v) /\ NominalAssertionsPass(s, v)
  BY <1>2, <1>3, <1>4, <1>5, <1>6, <1>7 DEF Advance
<1>8. CASE ~(AllChecksPass(s, v) /\ NominalAssertionsPass(s, v))
  BY <1>2, <1>3, <1>4, <1>8 DEF Advance, Transition
<1>9. QED
  BY <1>7, <1>8

(* engine.py's advance: when the worker does better, and the evaluator says *)
(* so, the session goes where it went before or out through "next", in      *)
(* every state of every workflow.                                           *)
THEOREM BetterWorkIsSafe == Spec => BetterWorkNeverHurts
<1>1. Init => VerdictOK
  BY DEF Init, VerdictOK
<1>2. VerdictOK /\ [Next]_vars => VerdictOK'
  BY VerdictStep
<1>3. ASSUME VerdictOK, [Next]_vars, Better(st, verdict, verdict')
      PROVE  \/ Decision' = Decision
             \/ Decision.kind \in {"retry", "budget"} /\ Decision'.kind = "next"
  <2>1. UNCHANGED <<st, attempt, used>>
    BY <1>3 DEF Next, vars
  <2>2. QED
    BY <1>3, <2>1, BetterDecides DEF VerdictOK, Decision
<1>4. QED
  BY <1>1, <1>2, <1>3, PTL DEF Spec, BetterWorkNeverHurts, Better

=============================================================================
