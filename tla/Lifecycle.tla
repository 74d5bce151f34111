------------------------------- MODULE Lifecycle ------------------------------
(***************************************************************************)
(* What the journal promises, with no calls, no memory and no timing: a     *)
(* log that grows by one block at a time, in which every decision of the    *)
(* engine is a decision on the whole log it is appended to.                 *)
(*                                                                         *)
(* Two of the writers promise less, and the specification says so: the      *)
(* blocks of an actor (its artifacts, its failure) may come from a state    *)
(* that is no longer the current one.                                       *)
(***************************************************************************)
EXTENDS Engine, Journal

CONSTANT ResumeTargets

VARIABLE log

Init == log = Opened(Initial)

Add(type, from, to) ==
  log' = Append(log, Chained(Block(Len(log), type, from, to), Len(log)))

(* One judged attempt of the current state (run_attempt).                   *)
Decide ==
  LET s == CurrentState(log)
  IN  /\ s \in NonTerminal
      /\ \E v \in Verdicts(s) :
           Add("transition", s,
               Advance(s, AttemptCount(log, s), TransitionsUsed(log), v).to)

(* An artifact of the actor, or the captured output of a command.           *)
Produce(s) == Add("artifact_produced", s, s)

(* The actor failed or timed out.                                           *)
ActorBlocks(s) == Add("transition", s, Blocked)

(* A human names the state to go on from.                                   *)
Resume(to) == Add("session_resumed", Blocked, to)

UseSkill == Add("skill_invoked", None, None)

Next ==
  \/ Decide
  \/ \E s \in NonTerminal : Produce(s) \/ ActorBlocks(s)
  \/ \E to \in ResumeTargets : Resume(to)
  \/ UseSkill

Spec == Init /\ [][Next]_log

=============================================================================
