------------------------------- MODULE ModelCall ------------------------------
(***************************************************************************)
(* One iteration of run_session seen from its two subprocesses: the actor   *)
(* (providers/model_actor.py), then the evaluator                           *)
(* (providers/model_evaluator.py).  Each asks a language model, asks again  *)
(* when the reply is of no use, and is killed when it outlives the timeout  *)
(* of the caller; the caller turns what is left into one verdict for        *)
(* engine.advance.                                                          *)
(*                                                                         *)
(* Time is counted in half seconds, the shortest pause of the code.         *)
(***************************************************************************)
EXTENDS Engine

CONSTANTS
  Retries,         \* _RETRIES
  Durations,       \* bound: how long one request may last, per pace of the model
  ProcessTimeout,  \* after which the caller kills the subprocess
  Unasked          \* an id the model may judge though it is no criterion

(* The 90 seconds of _call_llm bound each wait for the network, not the     *)
(* request: a reply that trickles in takes longer than that.                *)
Paces == {"prompt", "trickling"}

ASSUME ModelCallAssumption ==
  /\ Retries \in Nat
  /\ Durations \in [Paces -> SUBSET Nat]
  /\ ProcessTimeout \in Nat

Malformed == "malformed"

Criteria(s) == StateDef[s].assertions \cup Triggers

(* A reply of the model: an HTTP error or a timeout, a text without the     *)
(* JSON object asked for, or a value for some of the criteria.              *)
Reply(kind, says) == [kind |-> kind, says |-> says]
Silence == <<>>
Unreachable == Reply("unreachable", Silence)
Garbled == Reply("garbled", Silence)

Work == {Unreachable, Garbled, Reply("work", Silence)}

Judgements(s) ==
  {Unreachable, Garbled} \cup
  {Reply("verdicts", f) :
     f \in UNION {[D -> VerdictValues \cup {Malformed}] :
                    D \in SUBSET (Criteria(s) \cup {Unasked})}}

VARIABLES
  st, attempt, used,  \* what the engine is told of the session
  pace,      \* how the model answers during this iteration
  role,      \* whose subprocess runs; "decided" once the engine has answered
  child,     \* the state of that subprocess
  tries,     \* requests it has made
  clock,     \* how long it has run
  heard,     \* the last reply it got
  verdict, decision

vars == <<st, attempt, used, pace, role, child, tries, clock, heard, verdict, decision>>

NoVerdict == [checks |-> <<>>, assertions |-> <<>>, escalations |-> <<>>]

Init ==
  /\ st \in NonTerminal
  /\ attempt \in 1..StateDef[st].maxAttempts
  /\ used = 0
  /\ pace \in Paces
  /\ role = "actor"
  /\ child = "asking"
  /\ tries = 0
  /\ clock = 0
  /\ heard = Unreachable
  /\ verdict = NoVerdict
  /\ decision = Transition(None, "none")

-----------------------------------------------------------------------------
(* One malformed entry spoils the whole reply.                              *)
\* Mutant: only the entries are looked at that the caller asked for.
AcceptedIfAskedFor(r) ==
  /\ r.kind \in {"work", "verdicts"}
  /\ \A id \in DOMAIN r.says \ {Unasked} : r.says[id] # Malformed

Accepted(r) ==
  /\ r.kind \in {"work", "verdicts"}
  /\ \A id \in DOMAIN r.says : r.says[id] # Malformed

Pause(r) == IF r.kind = "unreachable" THEN 2 ELSE 1

\* Mutant: off by one.
MayAskOnceMore(n) == n <= Retries + 1

MayAskAgain(n) == n <= Retries

AskModel ==
  /\ child = "asking"
  /\ \E d \in Durations[pace], r \in (IF role = "actor" THEN Work ELSE Judgements(st)) :
       /\ clock + d <= ProcessTimeout
       /\ heard' = r
       /\ IF Accepted(r)
            THEN child' = "answered" /\ clock' = clock + d
            ELSE /\ child' = IF MayAskAgain(tries + 1) THEN "asking" ELSE "failed"
                 /\ clock' = clock + d + Pause(r)
  /\ tries' = tries + 1
  /\ UNCHANGED <<st, attempt, used, pace, role, verdict, decision>>

\* subprocess.TimeoutExpired.
Kill ==
  /\ child = "asking"
  /\ \E d \in Durations[pace] : clock + d > ProcessTimeout
  /\ child' = "killed"
  /\ UNCHANGED <<st, attempt, used, pace, role, tries, clock, heard, verdict, decision>>

-----------------------------------------------------------------------------
(* The actor's work is persisted and the evaluator starts, unless there is  *)
(* nothing to judge.                                                        *)
ActorDone ==
  /\ role = "actor"
  /\ child = "answered"
  /\ role' = "evaluator"
  /\ child' = IF Criteria(st) = {} THEN "not_started" ELSE "asking"
  /\ tries' = 0
  /\ clock' = 0
  /\ heard' = Unreachable
  /\ UNCHANGED <<st, attempt, used, pace, verdict, decision>>

\* session_loop: an actor that fails blocks the session.
ActorLost ==
  /\ role = "actor"
  /\ child \in {"failed", "killed"}
  /\ role' = "decided"
  /\ decision' = Transition(Blocked, "actor")
  /\ UNCHANGED <<st, attempt, used, pace, child, tries, clock, heard, verdict>>

\* Mutant: what the last, refused reply said is used for want of better.
SaidAnyway == heard.says

Said == IF child = "answered" THEN heard.says ELSE Silence

\* Mutant: a criterion without an answer is taken as met.
ValueOrPass(id) == IF id \in DOMAIN Said THEN Said[id] ELSE "pass"

(* A criterion without an answer counts as failed; so does every criterion  *)
(* when the evaluator failed or was killed.                                 *)
Value(id) == IF id \in DOMAIN Said THEN Said[id] ELSE "fail"

VerdictOf(checks) ==
  [ checks      |-> checks,
    assertions  |-> [a \in StateDef[st].assertions |-> Value(a)],
    escalations |-> [t \in Triggers |-> Value(t) = "pass"] ]

Decide ==
  /\ role = "evaluator"
  /\ child \in {"not_started", "answered", "failed", "killed"}
  /\ \E checks \in [StateDef[st].checks -> BOOLEAN] :
       /\ verdict' = VerdictOf(checks)
       /\ decision' = Advance(st, attempt, used, VerdictOf(checks))
  /\ role' = "decided"
  /\ UNCHANGED <<st, attempt, used, pace, child, tries, clock, heard>>

Next == AskModel \/ Kill \/ ActorDone \/ ActorLost \/ Decide

Spec == Init /\ [][Next]_vars

-----------------------------------------------------------------------------
(* The type of every variable.                                              *)
TypeOK ==
  /\ st \in NonTerminal
  /\ pace \in Paces
  /\ role \in {"actor", "evaluator", "decided"}
  /\ child \in {"asking", "not_started", "answered", "failed", "killed"}
  /\ tries \in 0..Retries + 1
  /\ clock \in Nat
  /\ heard \in Work \cup Judgements(st)
  /\ verdict \in Verdicts(st) \cup {NoVerdict}
  /\ decision.to \in Names

(* model_evaluator.py:77 "hard failure after N malformed parses, never a    *)
(* guess": whatever the retries threw away, a verdict that is not "fail"    *)
(* was given by the last reply, and that reply had no malformed entry.      *)
NeverAGuess ==
  \A a \in DOMAIN verdict.assertions :
    verdict.assertions[a] # "fail" =>
      /\ a \in DOMAIN heard.says
      /\ heard.says[a] = verdict.assertions[a]
      /\ \A id \in DOMAIN heard.says : heard.says[id] \in VerdictValues

(* runner.py:314 and session_loop.py:45: the 300 seconds of the caller      *)
(* cover the three requests and their pauses, so no subprocess is killed    *)
(* between two of them, as long as a request keeps to its 90 seconds.       *)
RetriesFitTheTimeout == pace = "prompt" => child # "killed"

(* An evaluator that cannot be heard costs an attempt and nothing else: it  *)
(* escalates nothing, fires no failure rule, and does not let a state with  *)
(* a nominal assertion through.                                             *)
OutageOnlyCostsAnAttempt ==
  /\ verdict # NoVerdict
  /\ child \in {"failed", "killed"}
  /\ StateDef[st].assertions \ FailureIds(st) # {}
  => decision.kind \in {"retry", "budget"}

=============================================================================
