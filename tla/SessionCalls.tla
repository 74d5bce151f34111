----------------------------- MODULE SessionCalls -----------------------------
(***************************************************************************)
(* Everything that reads and appends to one session journal: calls of       *)
(* run_session (session_loop.py), of run_attempt alone (cmd_start),         *)
(* of cmd_resume (cli.py) and of record_skill_invocation (skills.py).       *)
(*                                                                         *)
(* A call is a process.  The file is shared and unlocked: between any two   *)
(* file accesses of a call (during the actor's or the evaluator's minutes, *)
(* or between append_block reading the last line and writing the new one)  *)
(* the other calls may run.  A call may die at any point.                   *)
(***************************************************************************)
EXTENDS Engine, Journal

CONSTANTS
  RunCalls,       \* calls of run_session
  AttemptCalls,   \* calls of run_attempt by cmd_start
  ResumeCalls,    \* calls of cmd_resume, from the command line or the menu
  SkillCalls,     \* calls of record_skill_invocation
  ResumeTargets,  \* what a human may type as the state to resume into
  MaxSteps,       \* run_session's max_steps
  MaxArtifacts    \* bound: artifacts one actor answer contains

Calls == RunCalls \cup AttemptCalls \cup ResumeCalls \cup SkillCalls
Deciders == RunCalls \cup AttemptCalls

ASSUME CallsAssumption ==
  /\ IsFiniteSet(Calls)
  /\ RunCalls \cap AttemptCalls = {}
  /\ Deciders \cap (ResumeCalls \cup SkillCalls) = {}
  /\ ResumeCalls \cap SkillCalls = {}
  /\ ResumeTargets \subseteq Names
  /\ ResumeCalls # {} => ResumeTargets # {}
  /\ MaxSteps \in Nat
  /\ MaxArtifacts \in Nat

VARIABLES
  journal,   \* the file: the sequence of its blocks
  pc,        \* where each call is
  steps,     \* run_session: loop iterations entered
  state,     \* state_id, as the call read it
  seq,       \* number of the next block; at "checks" and "judge" also the
             \* length of the journal the call holds in memory
  left,      \* artifact blocks still to append before the decision
  decision,  \* what the call has decided and not yet left behind
  tip,       \* append_block: the predecessor it has read
  result     \* what the call returned

vars == <<journal, pc, steps, state, seq, left, decision, tip, result>>
locals == <<steps, state, seq, left, decision, tip>>

NoDecision == Transition(None, "none")
NoResult == [final |-> None, terminal |-> FALSE, at |-> None]

Stopped == {"returned", "raised", "dead"}

\* The labels whose next action starts with load_journal.
LoadPoints == {"loop", "actor", "attempt", "checks", "reload", "resume"}

Entry(p) == CASE p \in RunCalls     -> "loop"
              [] p \in AttemptCalls -> "attempt"
              [] p \in ResumeCalls  -> "resume"
              [] p \in SkillCalls   -> "skill"

Started(p) == pc[p] # Entry(p) \/ steps[p] > 0
InFlight(p) == Started(p) /\ pc[p] \notin Stopped

Goto(p, label) == pc' = [pc EXCEPT ![p] = label]

(* The file is append-only, so the journal a call loaded is a prefix of it. *)
Snapshot(p) == SubSeq(journal, 1, seq[p])

Init ==
  /\ journal = Opened(Initial)
  /\ pc = [p \in Calls |-> Entry(p)]
  /\ steps = [p \in Calls |-> 0]
  /\ state = [p \in Calls |-> None]
  /\ seq = [p \in Calls |-> 0]
  /\ left = [p \in Calls |-> 0]
  /\ decision = [p \in Calls |-> NoDecision]
  /\ tip = [p \in Calls |-> 0]
  /\ result = [p \in Calls |-> NoResult]

-----------------------------------------------------------------------------
(* Loading.  Each of these is one load_journal and the branch its caller    *)
(* takes on what it finds.                                                  *)

IntegrityViolation(p) ==
  /\ pc[p] \in LoadPoints
  /\ ~Verified(journal)
  /\ Goto(p, "raised")
  /\ UNCHANGED <<journal, locals, result>>

\* ValueError: the current state is not declared by the workflow.
UnknownState(p) ==
  /\ pc[p] = "attempt" \/ (pc[p] = "loop" /\ steps[p] < MaxSteps)
  /\ Verified(journal)
  /\ CurrentState(journal) \notin States
  /\ Goto(p, "raised")
  /\ UNCHANGED <<journal, locals, result>>

Return(p, final, terminal) ==
  /\ Goto(p, "returned")
  /\ result' = [result EXCEPT ![p] = [final |-> final, terminal |-> terminal,
                                      at |-> CurrentState(journal)]]

ReachTerminal(p) ==
  /\ pc[p] = "attempt" \/ (pc[p] = "loop" /\ steps[p] < MaxSteps)
  /\ Verified(journal)
  /\ CurrentState(journal) \in States \ NonTerminal
  /\ Return(p, CurrentState(journal), TRUE)
  /\ UNCHANGED <<journal, locals>>

StepCap(p) ==
  /\ pc[p] = "loop"
  /\ steps[p] >= MaxSteps
  /\ Verified(journal)
  /\ Return(p, Blocked, FALSE)
  /\ UNCHANGED <<journal, locals>>

\* Mutant: the iteration is not counted.
EnterStateUncounted(p) ==
  /\ pc[p] = "loop"
  /\ steps[p] < MaxSteps
  /\ Verified(journal)
  /\ CurrentState(journal) \in NonTerminal
  /\ Goto(p, "actor")
  /\ state' = [state EXCEPT ![p] = CurrentState(journal)]
  /\ decision' = [decision EXCEPT ![p] = NoDecision]
  /\ UNCHANGED <<journal, steps, seq, left, tip, result>>

EnterState(p) ==
  /\ pc[p] = "loop"
  /\ steps[p] < MaxSteps
  /\ Verified(journal)
  /\ CurrentState(journal) \in NonTerminal
  /\ Goto(p, "actor")
  /\ steps' = [steps EXCEPT ![p] = @ + 1]
  /\ state' = [state EXCEPT ![p] = CurrentState(journal)]
  /\ decision' = [decision EXCEPT ![p] = NoDecision]
  /\ UNCHANGED <<journal, seq, left, tip, result>>

-----------------------------------------------------------------------------
(* The actor has answered, failed or timed out.  Only now is the journal    *)
(* read again for the sequence number; state_id is the one read before.     *)

\* Mutant: the number of the last block instead of the next one.
NextSeqOfLast == journal[Len(journal)].seq

NextSeq == journal[Len(journal)].seq + 1

\* Mutant: a failed actor is called again instead of blocking the session.
ActorFailsAndRetries(p) ==
  /\ pc[p] = "actor"
  /\ Verified(journal)
  /\ seq' = [seq EXCEPT ![p] = Len(journal) - @]
  /\ UNCHANGED <<journal, pc, steps, state, left, decision, tip, result>>

ActorFails(p) ==
  /\ pc[p] = "actor"
  /\ Verified(journal)
  /\ Goto(p, "append")
  /\ seq' = [seq EXCEPT ![p] = NextSeq]
  /\ decision' = [decision EXCEPT ![p] = Transition(Blocked, "actor")]
  /\ UNCHANGED <<journal, steps, state, left, tip, result>>

ActorWorks(p, n) ==
  /\ pc[p] = "actor"
  /\ Verified(journal)
  /\ Goto(p, IF n = 0 THEN "attempt" ELSE "append")
  /\ seq' = [seq EXCEPT ![p] = NextSeq]
  /\ left' = [left EXCEPT ![p] = n]
  /\ UNCHANGED <<journal, steps, state, decision, tip, result>>

(* run_attempt: the journal loaded here is the one the attempt is judged    *)
(* on and numbered from, minutes later.                                     *)
BeginAttempt(p) ==
  /\ pc[p] = "attempt"
  /\ Verified(journal)
  /\ CurrentState(journal) \in NonTerminal
  /\ Goto(p, "checks")
  /\ state' = [state EXCEPT ![p] = CurrentState(journal)]
  /\ seq' = [seq EXCEPT ![p] = Len(journal)]
  /\ UNCHANGED <<journal, steps, left, decision, tip, result>>

\* _load_artifacts loads the journal once more; then the checks run.
RunChecks(p) ==
  /\ pc[p] = "checks"
  /\ Verified(journal)
  /\ Goto(p, "judge")
  /\ UNCHANGED <<journal, locals, result>>

\* Mutant: the transition is numbered from the file as it is after the evaluator.
AttemptSeqReread(p) == Len(journal)

AttemptSeq(p) == seq[p]

(* The evaluator has answered (or timed out: every criterion then counts    *)
(* as failed) and the engine decides.                                       *)
Judge(p) ==
  /\ pc[p] = "judge"
  /\ \E v \in Verdicts(state[p]) :
       decision' = [decision EXCEPT ![p] =
         Advance(state[p], AttemptCount(Snapshot(p), state[p]),
                 TransitionsUsed(Snapshot(p)), v)]
  /\ \E n \in 0..StateDef[state[p]].commands : left' = [left EXCEPT ![p] = n]
  /\ seq' = [seq EXCEPT ![p] = AttemptSeq(p)]
  /\ Goto(p, "append")
  /\ UNCHANGED <<journal, steps, state, tip, result>>

-----------------------------------------------------------------------------
(* The two writers that do not decide.                                      *)

(* cmd_resume.  The state the session is in is not looked at.               *)
Resume(p, to) ==
  /\ pc[p] = "resume"
  /\ Verified(journal)
  /\ Goto(p, "append")
  /\ state' = [state EXCEPT ![p] = Blocked]
  /\ seq' = [seq EXCEPT ![p] = NextSeq]
  /\ decision' = [decision EXCEPT ![p] = Transition(to, "resumed")]
  /\ UNCHANGED <<journal, steps, left, tip, result>>

(* record_skill_invocation numbers its block from the last line, without    *)
(* verifying the journal, and the block has no from_state and no to_state.  *)
RecordSkill(p) ==
  /\ pc[p] = "skill"
  /\ Goto(p, "append")
  /\ state' = [state EXCEPT ![p] = None]
  /\ seq' = [seq EXCEPT ![p] = NextSeq]
  /\ decision' = [decision EXCEPT ![p] = Transition(None, "skill")]
  /\ UNCHANGED <<journal, steps, left, tip, result>>

-----------------------------------------------------------------------------
(* append_block: read the last line, then write.                            *)

\* Mutant: a resumed session is recorded under the kind of the decision.
TypeOfKindVerbatim(kind) == IF kind \in {"resumed", "skill"} THEN kind ELSE "transition"

TypeOfKind(kind) == CASE kind = "resumed" -> "session_resumed"
                      [] kind = "skill"   -> "skill_invoked"
                      [] OTHER            -> "transition"

\* Mutant: artifact blocks carry no to_state.
NextBlockWithoutTarget(p) ==
  IF left[p] > 0
    THEN Block(seq[p], "artifact_produced", state[p], None)
    ELSE Block(seq[p], TypeOfKind(decision[p].kind), state[p], decision[p].to)

NextBlock(p) ==
  IF left[p] > 0
    THEN Block(seq[p], "artifact_produced", state[p], state[p])
    ELSE Block(seq[p], TypeOfKind(decision[p].kind), state[p], decision[p].to)

AppendRead(p) ==
  /\ pc[p] = "append"
  /\ tip' = [tip EXCEPT ![p] = Len(journal)]
  /\ Goto(p, "write")
  /\ UNCHANGED <<journal, steps, state, seq, left, decision, result>>

AfterWrite(p) ==
  IF left[p] > 1 \/ (left[p] = 1 /\ decision[p] # NoDecision) THEN "append"
  ELSE IF left[p] = 1 THEN "attempt"
  ELSE IF p \in Deciders THEN "reload"
  ELSE "returned"

AppendWrite(p) ==
  /\ pc[p] = "write"
  /\ journal' = Append(journal, Chained(NextBlock(p), tip[p]))
  /\ seq' = [seq EXCEPT ![p] = @ + 1]
  /\ left' = [left EXCEPT ![p] = IF @ > 0 THEN @ - 1 ELSE 0]
  /\ Goto(p, AfterWrite(p))
  /\ UNCHANGED <<steps, state, decision, tip, result>>

\* Mutant: a retry ends the run.
StopsUnlessNext(d) == d.to = Blocked \/ d.kind # "next"

(* The reload after the transition block, and run_session's choice between  *)
(* stopping and the next iteration.                                         *)
Stops(d) == d.to = Blocked \/ d.kind \in {"budget", "escalate", "failure"}

Continue(p) ==
  /\ pc[p] = "reload"
  /\ p \in RunCalls
  /\ ~Stops(decision[p])
  /\ Verified(journal)
  /\ Goto(p, "loop")
  /\ UNCHANGED <<journal, locals, result>>

Stop(p) ==
  /\ pc[p] = "reload"
  /\ p \in AttemptCalls \/ Stops(decision[p])
  /\ Verified(journal)
  /\ Return(p, IF p \in RunCalls THEN Blocked ELSE decision[p].to, FALSE)
  /\ UNCHANGED <<journal, locals>>

(* The process is killed, or the call raises an error nothing catches: an   *)
(* actor command that cannot be started, artifacts that are not an object,  *)
(* a malformed command_ref, a full disk.  What it wrote stays.              *)
Die(p) ==
  /\ InFlight(p)
  /\ Goto(p, "dead")
  /\ UNCHANGED <<journal, locals, result>>

-----------------------------------------------------------------------------
Step(p) ==
  \/ IntegrityViolation(p)
  \/ UnknownState(p)
  \/ ReachTerminal(p)
  \/ StepCap(p)
  \/ EnterState(p)
  \/ ActorFails(p)
  \/ \E n \in 0..MaxArtifacts : ActorWorks(p, n)
  \/ BeginAttempt(p)
  \/ RunChecks(p)
  \/ Judge(p)
  \/ \E to \in ResumeTargets : Resume(p, to)
  \/ RecordSkill(p)
  \/ AppendRead(p)
  \/ AppendWrite(p)
  \/ Continue(p)
  \/ Stop(p)

Next == \E p \in Calls : Step(p) \/ Die(p)

Spec == Init /\ [][Next]_vars

(* Every subprocess a call waits for has a timeout, so a call that is not   *)
(* killed keeps moving.                                                     *)
FairSpec == Spec /\ \A p \in Calls : WF_vars(Step(p))

(* Callers that wait for each other: no call starts while another one is    *)
(* in flight.                                                               *)
SerialNext == Next /\ Cardinality({p \in Calls : InFlight(p)'}) <= 1
SerialSpec == Init /\ [][SerialNext]_vars

=============================================================================
