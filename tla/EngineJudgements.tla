--------------------------- MODULE EngineJudgements ---------------------------
(***************************************************************************)
(* engine.advance over every verdict an attempt can receive.  The           *)
(* evaluator is a language model: judged twice, the same attempt may get    *)
(* two verdicts.  A step changes one entry of the verdict.                  *)
(***************************************************************************)
EXTENDS Engine

CONSTANTS MaxAttempt, MaxUsed  \* bounds on the counters

ASSUME JudgementsAssumption == MaxAttempt \in Nat /\ MaxUsed \in Nat

VARIABLES st, attempt, used, verdict

vars == <<st, attempt, used, verdict>>

Init ==
  /\ st \in NonTerminal
  /\ attempt \in 1..MaxAttempt
  /\ used \in 0..MaxUsed
  /\ verdict \in Verdicts(st)

RejudgeCheck ==
  \E c \in StateDef[st].checks :
    verdict' = [verdict EXCEPT !.checks[c] = ~@]

RejudgeAssertion ==
  \E a \in StateDef[st].assertions, value \in VerdictValues :
    verdict' = [verdict EXCEPT !.assertions[a] = value]

RejudgeTrigger ==
  \E t \in Triggers :
    verdict' = [verdict EXCEPT !.escalations[t] = ~@]

Next ==
  /\ RejudgeCheck \/ RejudgeAssertion \/ RejudgeTrigger
  /\ UNCHANGED <<st, attempt, used>>

Spec == Init /\ [][Next]_vars

Decision == Advance(st, attempt, used, verdict)

-----------------------------------------------------------------------------
\* The verdict with every doubt turned into a failure.
Hardened(s, v) ==
  [v EXCEPT !.assertions =
     [a \in StateDef[s].assertions |->
        IF v.assertions[a] = "pass" THEN "pass" ELSE "fail"]]

(* engine.py:17 "insufficient_evidence counts as a failure": an evaluator   *)
(* that doubts moves the session exactly where one that refuses would,      *)
(* for nominal and for failure assertions alike.                            *)
DoubtIsFailure ==
  Decision = Advance(st, attempt, used, Hardened(st, verdict))

(* Only the worker's contract opens the nominal exit, and a better verdict  *)
(* on it never closes it: when one check or nominal assertion turns to      *)
(* pass, the session goes where it went before, or out through "next".      *)
BetterWorkNeverHurts ==
  [][ (/\ \A c \in StateDef[st].checks : verdict.checks[c] => verdict'.checks[c]
       /\ \A a \in StateDef[st].assertions :
            \/ verdict'.assertions[a] = verdict.assertions[a]
            \/ a \notin FailureIds(st) /\ verdict.assertions[a] # "pass"
       /\ verdict'.escalations = verdict.escalations)
      => \/ Decision' = Decision
         \/ Decision.kind \in {"retry", "budget"} /\ Decision'.kind = "next" ]_vars

=============================================================================
