-------------------------- MODULE SessionProperties --------------------------
(***************************************************************************)
(* What the calls of SessionCalls guarantee, and what the documentation     *)
(* says of them.                                                            *)
(***************************************************************************)
EXTENDS SessionCalls

Labels == LoadPoints \cup Stopped \cup {"judge", "skill", "append", "write"}

StoredBlocks ==
  [seq : Nat, prev : Nat, type : BlockTypes, from : Names, to : Names]

Decisions == [to : Names, kind : Kinds \cup {"none", "actor", "resumed", "skill"}]

(* The type of every variable; what a call holds in memory is a journal     *)
(* that the file still starts with.                                         *)
TypeOK ==
  /\ journal \in Seq(StoredBlocks)
  /\ journal # <<>>
  /\ pc \in [Calls -> Labels]
  /\ steps \in [Calls -> Nat]
  /\ state \in [Calls -> Names]
  /\ seq \in [Calls -> Nat]
  /\ left \in [Calls -> Nat]
  /\ decision \in [Calls -> Decisions]
  /\ tip \in [Calls -> Nat]
  /\ result \in [Calls -> [final : Names, terminal : BOOLEAN, at : Names]]

-----------------------------------------------------------------------------
(* Bounded autonomy (ADR 0003 D6).  However the calls interleave, whatever  *)
(* a human resumes and wherever calls die, the file never holds more        *)
(* transitions than max_transitions plus one for each call that has made    *)
(* its last decision: no call decides twice with the budget spent, and no   *)
(* call goes on after a decision taken on a journal that was no longer the  *)
(* current one.                                                             *)
Finished == {p \in Deciders : pc[p] \in Stopped \cup {"reload"}}

BudgetBound ==
  MaxTransitions \in Nat =>
    TransitionsUsed(journal) <= MaxTransitions + Cardinality(Finished)

(* The step cap of run_session is never reached when the transition budget  *)
(* is below it: every iteration that goes on has spent one transition.      *)
CapNeverHit ==
  (MaxTransitions \in Nat /\ MaxTransitions < MaxSteps) =>
    \A p \in RunCalls : pc[p] = "loop" => steps[p] < MaxSteps

(* The part of the file that load_journal accepts grows as the serial       *)
(* Lifecycle does: a decision that a concurrent append made stale never     *)
(* becomes part of a journal that verifies.                                 *)
Serial == INSTANCE Lifecycle WITH log <- VerifiedPrefix(journal)
RefinesLifecycle == Serial!Spec

(* The evaluator, and the actor, are asked before the budget is looked at   *)
(* (runner.py:310, engine.py:121), but not for ever: however the calls      *)
(* interleave, no run_session enters more than one iteration past what the  *)
(* budget pays for.                                                         *)
OneIterationPastBudget ==
  MaxTransitions \in Nat => \A p \in RunCalls : steps[p] <= MaxTransitions + 1

-----------------------------------------------------------------------------
(* What a reader finds in a journal that load_journal accepts, up to where  *)
(* it does, whoever wrote it and however they overlapped.                   *)
Accepted == VerifiedPrefix(journal)

Before(i) == SubSeq(Accepted, 1, i - 1)

Moves == {i \in 1..Len(Accepted) : Accepted[i].type = "transition"}

(* Once the budget is spent only a human moves the session: every later     *)
(* transition leads to blocked.                                             *)
BudgetIsFinal ==
  MaxTransitions \in Nat =>
    \A i \in Moves :
      TransitionsUsed(Before(i)) >= MaxTransitions => Accepted[i].to = Blocked

(* A state is entered again by a retry only while its max_attempts leave    *)
(* room for it (ADR 0003 D6), also when two attempts of it were judged at   *)
(* the same time: the one that counted fewer entries than there were is     *)
(* never accepted.                                                          *)
Declared(s) ==
  {Blocked, StateDef[s].next} \cup
  {StateDef[s].onFailure[k].to : k \in DOMAIN StateDef[s].onFailure}

RetriesAreBounded ==
  \A i \in Moves :
    LET s == Accepted[i].from
    IN  Accepted[i].to \notin Declared(s) =>
          /\ Accepted[i].to = s
          /\ AttemptCount(Before(i), s) < StateDef[s].maxAttempts

-----------------------------------------------------------------------------
(* Every call that is not killed ends.                                      *)
EveryCallEnds == \A p \in Calls : <>(pc[p] \in Stopped)

(* Why it does.  What a call still has before it: iterations, the stages of *)
(* this iteration, blocks to append, the write of the one it has begun.     *)
Stage(p) ==
  CASE pc[p] \in Stopped                                         -> 0
    [] pc[p] = "loop"                                            -> 1
    [] pc[p] = "reload"                                          -> 2
    [] pc[p] \in {"append", "write"} /\ decision[p] # NoDecision -> 3
    [] pc[p] = "judge"                                           -> 4
    [] pc[p] = "checks"                                          -> 5
    [] pc[p] = "attempt"                                         -> 6
    [] pc[p] \in {"append", "write"} /\ decision[p] = NoDecision -> 7
    [] pc[p] \in {"actor", "resume", "skill"}                    -> 8

Remaining(p) ==
  <<MaxSteps - steps[p], Stage(p), left[p], IF pc[p] = "append" THEN 1 ELSE 0>>

\* The lexical order: less at the first place where they differ.
Below(r, s) == \E i \in 1..4 : r[i] < s[i] /\ \A k \in 1..i - 1 : r[k] = s[k]

(* Every step of the system brings one call nearer to its end, and no       *)
(* other call further from its own: nothing a call reads, and nobody else's *)
(* block, sends it back to a place it has left (run_session's loop, the     *)
(* retries, the artifacts of an answer, append_block).                      *)
StepsCountDown ==
  [][\E p \in Calls :
       /\ Below(Remaining(p)', Remaining(p))
       /\ \A q \in Calls \ {p} : Remaining(q)' = Remaining(q)]_vars

-----------------------------------------------------------------------------
(* With callers that wait for each other.                                   *)

(* No sequence of calls, with a call dying between any two of its writes,   *)
(* leaves a journal that the next call refuses.                             *)
AlwaysVerifies == Verified(journal)

(* Each block of a run starts from the state its predecessor ended in:      *)
(* nothing moves the session between the blocks of an iteration.            *)
StateContinuity ==
  \A i \in 2..Len(journal) :
    journal[i].type \in {"transition", "artifact_produced"} =>
      journal[i].from = journal[i - 1].to

(* "Stops on a terminal state, blocked, or an internal step cap"            *)
(* (session_loop.py:147): the final_state a run reports is the state of the *)
(* journal it returns with it.  It is not when a failure rule has sent the  *)
(* session to another state, nor at the cap; it always is otherwise.        *)
ReportsJournalState ==
  \A p \in RunCalls :
    pc[p] = "returned" /\ result[p].final # result[p].at =>
      decision[p].kind = "failure" \/ steps[p] = MaxSteps

-----------------------------------------------------------------------------
(* What the documentation says and the code does not do.                    *)

(* ADR 0004 D1: the current state is the target of the last transition (or  *)
(* of the human decision that resumed the session); an artifact or a skill  *)
(* invocation does not move the session.                                    *)
OnlyTransitionsMove ==
  Verified(journal) =>
    \A i \in 2..Len(journal) :
      journal[i].type \in {"artifact_produced", "skill_invoked"} =>
        journal[i].to = journal[i - 1].to

=============================================================================
