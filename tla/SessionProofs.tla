---------------------------- MODULE SessionProofs -----------------------------
(***************************************************************************)
(* SessionCalls for every workflow, every set of calls and every            *)
(* interleaving: its types, the bound on autonomy, the step cap, what holds *)
(* of callers that wait for each other, the refinement of Lifecycle, why    *)
(* calls end, and what a reader finds in the part of the file that          *)
(* load_journal accepts.                                                    *)
(***************************************************************************)
EXTENDS SessionProperties, EngineLemmas, JournalLemmas

Writing == {"append", "write"}

(* Where a call can be, and what it then holds.                             *)
DeciderRole(p) ==
  /\ pc[p] \notin {"resume", "skill"}
  /\ pc[p] = "actor" => decision[p] = NoDecision
  /\ pc[p] \in {"checks", "judge"} => state[p] \in NonTerminal
  /\ pc[p] \in Writing /\ decision[p] = NoDecision => left[p] > 0

WriterRole(p) ==
  /\ pc[p] \in {"resume", "skill"} \cup Writing \cup Stopped
  /\ pc[p] \in Writing => decision[p].kind \in {"resumed", "skill"}
  /\ left[p] = 0

Roles ==
  /\ \A p \in Deciders : DeciderRole(p)
  /\ \A p \in Calls \ Deciders : WriterRole(p)

(* A decider's next block is never numbered past the end of the file; if it *)
(* is numbered right after the end of a journal that verifies, that journal *)
(* is the one the decision was taken on.                                    *)
Goes(p) == pc[p] \in Writing /\ decision[p] # NoDecision /\ ~Stops(decision[p])

Current(p) == Verified(journal) /\ Len(journal) = seq[p]

NotAhead(p) == pc[p] \in {"checks", "judge"} \cup Writing => seq[p] <= Len(journal)

Affordable(p) == Goes(p) /\ Current(p) => ~BudgetSpent(TransitionsUsed(journal))

Ownership == \A p \in Deciders : NotAhead(p) /\ Affordable(p)

(* The calls that will not decide again.                                    *)
Spent(p) ==
  \/ pc[p] \in Stopped
  \/ pc[p] = "reload" /\ (Stops(decision[p]) \/ ~Verified(journal))

SpentCalls == {p \in Deciders : Spent(p)}

Accounting ==
  MaxTransitions \in Nat =>
    TransitionsUsed(journal) <= MaxTransitions + Cardinality(SpentCalls)

IInv == TypeOK /\ Roles /\ Ownership /\ Accounting

-----------------------------------------------------------------------------
(* Types.                                                                   *)

(* What a call reads from a journal of the right type.                      *)
LEMMA JournalReads ==
  ASSUME TypeOK
  PROVE  /\ Len(journal) \in Nat \ {0}
         /\ journal[Len(journal)] \in StoredBlocks
         /\ CurrentState(journal) \in Names
         /\ NextSeq \in Nat
<1>1. journal \in Seq(StoredBlocks) /\ journal # <<>>
  BY DEF TypeOK
<1>2. Len(journal) \in Nat \ {0}
  BY <1>1
<1>3. journal[Len(journal)] \in StoredBlocks
  BY <1>1, <1>2
<1>4. journal[Len(journal)].to \in Names /\ journal[Len(journal)].seq \in Nat
  BY <1>3 DEF StoredBlocks
<1>5. QED
  BY <1>2, <1>3, <1>4 DEF CurrentState, NextSeq

(* The block a call appends is a block.                                     *)
LEMMA NextBlockType ==
  ASSUME TypeOK, NEW p \in Calls
  PROVE  Chained(NextBlock(p), tip[p]) \in StoredBlocks
<1>1. /\ seq[p] \in Nat /\ tip[p] \in Nat /\ state[p] \in Names
      /\ decision[p] \in Decisions
  BY DEF TypeOK
<1>2. decision[p].to \in Names
  BY <1>1 DEF Decisions
<1>3. TypeOfKind(decision[p].kind) \in BlockTypes /\ "artifact_produced" \in BlockTypes
  BY DEF TypeOfKind, BlockTypes
<1>4. QED
  BY <1>1, <1>2, <1>3 DEF NextBlock, Block, Chained, StoredBlocks

(* The journal of new_session is one block, and no call has started.        *)
LEMMA TypeInit ==
  Init => TypeOK
<1> SUFFICES ASSUME Init PROVE TypeOK
  OBVIOUS
<1>1. {Blocked, None, Initial} \subseteq Names
  BY WorkflowAssumption
<1>2. /\ "" \in Names
      /\ Chained(Block(0, "session_opened", "", Initial), 0) \in StoredBlocks
  BY <1>1 DEF None, Chained, Block, StoredBlocks, BlockTypes
<1>3. journal \in Seq(StoredBlocks) /\ journal # <<>>
  BY <1>2, JournalGrows DEF Init, Opened
<1>4. pc \in [Calls -> Labels]
  BY DEF Init, Entry, Labels, LoadPoints, Stopped, Calls
<1>5. NoDecision \in Decisions
  BY <1>1 DEF NoDecision, Transition, Decisions
<1>6. NoResult \in [final : Names, terminal : BOOLEAN, at : Names]
  BY <1>1 DEF NoResult
<1>7. /\ steps \in [Calls -> Nat] /\ state \in [Calls -> Names]
      /\ seq \in [Calls -> Nat] /\ left \in [Calls -> Nat]
      /\ tip \in [Calls -> Nat] /\ decision \in [Calls -> Decisions]
      /\ result \in [Calls -> [final : Names, terminal : BOOLEAN, at : Names]]
  BY <1>1, <1>5, <1>6 DEF Init
<1>8. QED
  BY <1>3, <1>4, <1>7 DEF TypeOK

(* TypeOK alone is not inductive: how many blocks Judge announces is a      *)
(* number only when the state it judges is one of the workflow's.           *)
LEMMA TypeStep ==
  TypeOK /\ Roles /\ [Next]_vars => TypeOK'
<1> SUFFICES ASSUME TypeOK, Roles, [Next]_vars PROVE TypeOK'
  OBVIOUS
<1> USE DEF TypeOK, Labels, LoadPoints, Stopped, Goto, locals
<1>1. CASE UNCHANGED vars
  BY <1>1 DEF vars
<1>2. ASSUME NEW p \in Calls, Step(p) \/ Die(p)
      PROVE  TypeOK'
  <2>0. {Blocked, None} \subseteq Names /\ ResumeTargets \subseteq Names
        /\ MaxArtifacts \in Nat
    BY WorkflowAssumption, CallsAssumption
  <2>1. CASE IntegrityViolation(p)
    BY <2>1 DEF IntegrityViolation
  <2>2. CASE UnknownState(p)
    BY <2>2 DEF UnknownState
  <2>3. CASE ReachTerminal(p)
    BY <2>3, JournalReads DEF ReachTerminal, Return
  <2>4. CASE StepCap(p)
    BY <2>0, <2>4, JournalReads DEF StepCap, Return
  <2>5. CASE EnterState(p)
    <3>1. NoDecision \in Decisions
      BY <2>0 DEF NoDecision, Transition, Decisions
    <3>2. QED
      BY <2>5, <3>1, JournalReads DEF EnterState
  <2>6. CASE ActorFails(p)
    <3>1. Transition(Blocked, "actor") \in Decisions
      BY <2>0 DEF Transition, Decisions
    <3>2. QED
      BY <2>6, <3>1, JournalReads DEF ActorFails
  <2>7. ASSUME NEW n \in 0..MaxArtifacts, ActorWorks(p, n)
        PROVE  TypeOK'
    <3>1. n \in Nat
      BY <2>0
    <3>2. QED
      BY <2>7, <3>1, JournalReads DEF ActorWorks
  <2>8. CASE BeginAttempt(p)
    BY <2>8, JournalReads DEF BeginAttempt
  <2>9. CASE RunChecks(p)
    BY <2>9 DEF RunChecks
  <2>10. CASE Judge(p)
    <3>1. state[p] \in States
      BY <2>10 DEF Judge, Roles, DeciderRole, WriterRole, NonTerminal, Writing
    <3>2. StateDef[state[p]].commands \in Nat
      BY <3>1, WorkflowAssumption DEF StateDefs
    <3>3. left' \in [Calls -> Nat]
      BY <2>10, <3>2 DEF Judge
    <3>4. \A a, u, v : Advance(state[p], a, u, v) \in Decisions
      BY AdvanceType DEF Decisions
    <3>5. decision' \in [Calls -> Decisions]
      BY <2>10, <3>4 DEF Judge
    <3>6. QED
      BY <2>10, <3>3, <3>5 DEF Judge, AttemptSeq
  <2>11. ASSUME NEW to \in ResumeTargets, Resume(p, to)
         PROVE  TypeOK'
    <3>1. Transition(to, "resumed") \in Decisions
      BY <2>0 DEF Transition, Decisions
    <3>2. QED
      BY <2>0, <2>11, <3>1, JournalReads DEF Resume
  <2>12. CASE RecordSkill(p)
    <3>1. Transition(None, "skill") \in Decisions
      BY <2>0 DEF Transition, Decisions
    <3>2. QED
      BY <2>0, <2>12, <3>1, JournalReads DEF RecordSkill
  <2>13. CASE AppendRead(p)
    BY <2>13, JournalReads DEF AppendRead
  <2>14. CASE AppendWrite(p)
    <3>1. Chained(NextBlock(p), tip[p]) \in StoredBlocks
      BY NextBlockType
    <3>2. journal' \in Seq(StoredBlocks) /\ journal' # <<>>
      BY <2>14, <3>1, JournalGrows DEF AppendWrite
    <3>3. AfterWrite(p) \in {"append", "attempt", "reload", "returned"}
      BY DEF AfterWrite
    <3>4. seq' \in [Calls -> Nat] /\ left' \in [Calls -> Nat]
      BY <2>14 DEF AppendWrite
    <3>5. QED
      BY <2>14, <3>2, <3>3, <3>4 DEF AppendWrite
  <2>15. CASE Continue(p)
    BY <2>15 DEF Continue
  <2>16. CASE Stop(p)
    <3>1. decision[p].to \in Names
      BY DEF Decisions
    <3>2. QED
      BY <2>0, <2>16, <3>1, JournalReads DEF Stop, Return
  <2>17. CASE Die(p)
    BY <2>17 DEF Die
  <2>18. QED
    BY <1>2, <2>1, <2>2, <2>3, <2>4, <2>5, <2>6, <2>7, <2>8, <2>9, <2>10, <2>11,
       <2>12, <2>13, <2>14, <2>15, <2>16, <2>17 DEF Step
<1>3. QED
  BY <1>1, <1>2 DEF Next

-----------------------------------------------------------------------------
(* Roles.                                                                   *)

(* A call decides, or it writes what a human or a skill did.                *)
LEMMA Disjoint ==
  /\ \A p \in Deciders : p \in Calls /\ p \notin ResumeCalls /\ p \notin SkillCalls
  /\ \A p \in Calls \ Deciders : p \in ResumeCalls \/ p \in SkillCalls
BY CallsAssumption DEF Calls, Deciders

(* A step of one call leaves the memory of the others alone.                *)
LEMMA OthersStay ==
  ASSUME TypeOK, NEW p \in Calls, Step(p) \/ Die(p), NEW q \in Calls, q # p
  PROVE  /\ pc'[q] = pc[q] /\ state'[q] = state[q] /\ seq'[q] = seq[q]
         /\ steps'[q] = steps[q] /\ tip'[q] = tip[q] /\ result'[q] = result[q]
         /\ left'[q] = left[q] /\ decision'[q] = decision[q]
BY DEF TypeOK, Step, Die, IntegrityViolation, UnknownState, ReachTerminal, StepCap,
       EnterState, ActorFails, ActorWorks, BeginAttempt, RunChecks, Judge, Resume,
       RecordSkill, AppendRead, AppendWrite, Continue, Stop, Return, Goto, locals

(* No call has started.                                                     *)
LEMMA RolesInit ==
  Init => Roles
<1> SUFFICES ASSUME Init PROVE Roles
  OBVIOUS
<1>1. ASSUME NEW p \in Deciders
      PROVE  DeciderRole(p)
  <2>1. pc[p] \in {"loop", "attempt"}
    BY Disjoint DEF Init, Entry, Deciders
  <2>2. QED
    BY <2>1 DEF DeciderRole, Writing
<1>2. ASSUME NEW p \in Calls \ Deciders
      PROVE  WriterRole(p)
  <2>1. pc[p] \in {"resume", "skill"} /\ left[p] = 0
    BY Disjoint, CallsAssumption DEF Init, Entry, Deciders, Calls
  <2>2. QED
    BY <2>1 DEF WriterRole, Writing
<1>3. QED
  BY <1>1, <1>2 DEF Roles

(* What a step of a call that decides does to its role.                     *)
LEMMA DeciderStep ==
  ASSUME TypeOK, NEW p \in Deciders, DeciderRole(p), Step(p) \/ Die(p)
  PROVE  DeciderRole(p)'
<1> USE DEF TypeOK, DeciderRole, Writing, Goto, locals
<1>0. p \in Calls
  BY Disjoint
<1>1. CASE \/ IntegrityViolation(p) \/ UnknownState(p) \/ ReachTerminal(p)
           \/ StepCap(p) \/ Stop(p) \/ Die(p)
  BY <1>0, <1>1 DEF IntegrityViolation, UnknownState, ReachTerminal, StepCap, Stop,
                    Die, Return
<1>2. CASE EnterState(p) \/ Continue(p)
  BY <1>0, <1>2 DEF EnterState, Continue
<1>3. CASE ActorFails(p)
  BY <1>0, <1>3 DEF ActorFails, NoDecision, Transition
<1>4. ASSUME NEW n \in 0..MaxArtifacts, ActorWorks(p, n)
      PROVE  DeciderRole(p)'
  BY <1>0, <1>4, CallsAssumption DEF ActorWorks
<1>5. CASE BeginAttempt(p)
  BY <1>0, <1>5 DEF BeginAttempt
<1>6. CASE RunChecks(p)
  BY <1>0, <1>6 DEF RunChecks
<1>7. CASE Judge(p)
  <2>1. PICK v : decision'[p] = Advance(state[p], AttemptCount(Snapshot(p), state[p]),
                                        TransitionsUsed(Snapshot(p)), v)
    BY <1>0, <1>7 DEF Judge
  <2>2. decision'[p].kind \in Kinds
    BY <2>1, AdvanceType
  <2>3. decision'[p] # NoDecision
    BY <2>2 DEF NoDecision, Transition, Kinds
  <2>4. QED
    BY <1>0, <1>7, <2>3 DEF Judge
<1>8. ASSUME NEW to \in ResumeTargets, Resume(p, to)
      PROVE  DeciderRole(p)'
  BY <1>8 DEF Resume
<1>9. CASE RecordSkill(p)
  BY <1>9 DEF RecordSkill
<1>10. CASE AppendRead(p)
  BY <1>0, <1>10 DEF AppendRead
<1>11. CASE AppendWrite(p)
  <2>1. left[p] \in Nat /\ left'[p] = IF left[p] > 0 THEN left[p] - 1 ELSE 0
    BY <1>0, <1>11 DEF AppendWrite
  <2>2. pc'[p] = AfterWrite(p) /\ decision'[p] = decision[p]
    BY <1>0, <1>11 DEF AppendWrite
  <2>3. QED
    BY <1>0, <1>11, <2>1, <2>2 DEF AfterWrite
<1>12. QED
  BY <1>1, <1>2, <1>3, <1>4, <1>5, <1>6, <1>7, <1>8, <1>9, <1>10, <1>11 DEF Step

(* The same for a call that only writes.                                    *)
LEMMA WriterStep ==
  ASSUME TypeOK, NEW p \in Calls \ Deciders, WriterRole(p), Step(p) \/ Die(p)
  PROVE  WriterRole(p)'
<1> USE DEF TypeOK, WriterRole, Writing, Goto, locals, Stopped
<1>1. CASE IntegrityViolation(p) \/ Die(p)
  BY <1>1 DEF IntegrityViolation, Die
<1>2. ASSUME NEW to \in ResumeTargets, Resume(p, to)
      PROVE  WriterRole(p)'
  BY <1>2 DEF Resume, Transition
<1>3. CASE RecordSkill(p)
  BY <1>3 DEF RecordSkill, Transition
<1>4. CASE AppendRead(p)
  BY <1>4 DEF AppendRead
<1>5. CASE AppendWrite(p)
  BY <1>5 DEF AppendWrite, AfterWrite
<1>6. QED
  BY <1>1, <1>2, <1>3, <1>4, <1>5
  DEF Step, UnknownState, ReachTerminal, StepCap, EnterState, ActorFails, ActorWorks,
      BeginAttempt, RunChecks, Judge, Continue, Stop

(* A step preserves the role of the call that takes it, and of the others.  *)
LEMMA RolesStep ==
  TypeOK /\ Roles /\ [Next]_vars => Roles'
<1> SUFFICES ASSUME TypeOK, Roles, [Next]_vars PROVE Roles'
  OBVIOUS
<1>1. CASE UNCHANGED vars
  BY <1>1 DEF vars, Roles, DeciderRole, WriterRole
<1>2. ASSUME NEW p \in Calls, Step(p) \/ Die(p)
      PROVE  Roles'
  <2>1. ASSUME NEW q \in Deciders
        PROVE  DeciderRole(q)'
    <3>1. DeciderRole(q) /\ q \in Calls
      BY Disjoint DEF Roles
    <3>2. CASE q = p
      BY <1>2, <3>1, <3>2, DeciderStep
    <3>3. CASE q # p
      BY <1>2, <3>1, <3>3, OthersStay DEF DeciderRole
    <3>4. QED
      BY <3>2, <3>3
  <2>2. ASSUME NEW q \in Calls \ Deciders
        PROVE  WriterRole(q)'
    <3>1. WriterRole(q)
      BY DEF Roles
    <3>2. CASE q = p
      BY <1>2, <3>1, <3>2, WriterStep
    <3>3. CASE q # p
      BY <1>2, <3>1, <3>3, OthersStay DEF WriterRole
    <3>4. QED
      BY <3>2, <3>3
  <2>3. QED
    BY <2>1, <2>2 DEF Roles
<1>3. QED
  BY <1>1, <1>2 DEF Next

(* Every behaviour keeps the types of SessionCalls (session.py,             *)
(* session_loop.py, runner.py), however the calls interleave.               *)
THEOREM TypeCorrect == Spec => []TypeOK
<1>1. Init => TypeOK /\ Roles
  BY TypeInit, RolesInit
<1>2. TypeOK /\ Roles /\ [Next]_vars => (TypeOK /\ Roles)'
  BY TypeStep, RolesStep
<1>3. QED
  BY <1>1, <1>2, PTL DEF Spec

-----------------------------------------------------------------------------
(* The journal a decision was taken on.                                     *)

(* Every step leaves the file alone or appends one block to it.             *)
LEMMA FileSteps ==
  ASSUME NEW p \in Calls, Step(p) \/ Die(p)
  PROVE  AppendWrite(p) \/ journal' = journal
BY DEF Step, Die, IntegrityViolation, UnknownState, ReachTerminal, StepCap,
       EnterState, ActorFails, ActorWorks, BeginAttempt, RunChecks, Judge, Resume,
       RecordSkill, AppendRead, Continue, Stop

(* The whole file, read as a snapshot, is the file.                         *)
LEMMA SnapshotOfAll ==
  ASSUME TypeOK, NEW p \in Calls, seq[p] = Len(journal)
  PROVE  Snapshot(p) = journal
<1>1. journal \in Seq(StoredBlocks)
  BY DEF TypeOK
<1>2. SubSeq(journal, 1, Len(journal)) = journal
  BY <1>1
<1>3. QED
  BY <1>2 DEF Snapshot

(* The deciding call's own step, when the file stays as it is.              *)
LEMMA OwnershipStay ==
  ASSUME TypeOK, NEW p \in Deciders, DeciderRole(p), NotAhead(p), Affordable(p),
         Step(p) \/ Die(p), journal' = journal
  PROVE  NotAhead(p)' /\ Affordable(p)'
<1> USE DEF TypeOK, NotAhead, Affordable, Goes, Current, Writing, Goto, locals
<1>0. p \in Calls /\ Len(journal) \in Nat \ {0}
  BY Disjoint, JournalReads
<1>1. CASE \/ IntegrityViolation(p) \/ UnknownState(p) \/ ReachTerminal(p)
           \/ StepCap(p) \/ Stop(p) \/ Die(p) \/ EnterState(p) \/ Continue(p)
  BY <1>0, <1>1 DEF IntegrityViolation, UnknownState, ReachTerminal, StepCap, Stop,
                    Die, Return, EnterState, Continue, Stopped
<1>2. Verified(journal) => NextSeq = Len(journal)
  BY VerifiedNextSeq DEF NextSeq
<1>3. CASE ActorFails(p)
  BY <1>0, <1>2, <1>3 DEF ActorFails, Stops, Transition
<1>4. ASSUME NEW n \in 0..MaxArtifacts, ActorWorks(p, n)
      PROVE  NotAhead(p)' /\ Affordable(p)'
  BY <1>0, <1>2, <1>4 DEF ActorWorks, DeciderRole
<1>5. CASE BeginAttempt(p)
  BY <1>0, <1>5 DEF BeginAttempt
<1>6. CASE RunChecks(p)
  BY <1>0, <1>6 DEF RunChecks
<1>7. CASE Judge(p)
  <2>1. PICK v : decision'[p] = Advance(state[p], AttemptCount(Snapshot(p), state[p]),
                                        TransitionsUsed(Snapshot(p)), v)
    BY <1>0, <1>7 DEF Judge
  <2>2. state[p] \in NonTerminal
    BY <1>7 DEF Judge, DeciderRole
  <2>3. BudgetSpent(TransitionsUsed(Snapshot(p))) => Stops(decision'[p])
    BY <2>1, <2>2, SpentBudgetBlocks DEF Stops, Transition
  <2>4. seq'[p] = seq[p] /\ seq[p] <= Len(journal)
    BY <1>0, <1>7 DEF Judge, AttemptSeq
  <2>5. ASSUME Goes(p)', Current(p)'
        PROVE  ~BudgetSpent(TransitionsUsed(journal'))
    <3>1. ~Stops(decision'[p])
      BY <2>5
    <3>2. Snapshot(p) = journal
      BY <1>0, <2>4, <2>5, SnapshotOfAll
    <3>3. QED
      BY <2>3, <3>1, <3>2
  <2>6. QED
    BY <2>4, <2>5
<1>8. ASSUME NEW to \in ResumeTargets, Resume(p, to)
      PROVE  NotAhead(p)' /\ Affordable(p)'
  BY <1>8 DEF Resume, DeciderRole
<1>9. CASE RecordSkill(p)
  BY <1>9 DEF RecordSkill, DeciderRole
<1>10. CASE AppendRead(p)
  BY <1>0, <1>10 DEF AppendRead
<1>11. CASE AppendWrite(p)
  <2>1. Append(journal, Chained(NextBlock(p), tip[p])) # journal
    <3>1. Len(Append(journal, Chained(NextBlock(p), tip[p]))) = Len(journal) + 1
      OBVIOUS
    <3>2. QED
      BY <1>0, <3>1
  <2>2. QED
    BY <1>11, <2>1 DEF AppendWrite
<1>12. QED
  BY <1>1, <1>3, <1>4, <1>5, <1>6, <1>7, <1>8, <1>9, <1>10, <1>11 DEF Step

(* What a write of any call does to the file.                               *)
LEMMA WriteEffect ==
  ASSUME TypeOK, NEW p \in Calls, AppendWrite(p)
  PROVE  /\ Len(journal') = Len(journal) + 1
         /\ Verified(journal') => Verified(journal) /\ seq[p] = Len(journal)
         /\ TransitionsUsed(journal') =
              IF NextBlock(p).type = "transition"
                THEN TransitionsUsed(journal) + 1 ELSE TransitionsUsed(journal)
         /\ TransitionsUsed(journal) \in Nat
<1> DEFINE b == Chained(NextBlock(p), tip[p])
<1>1. journal \in Seq(StoredBlocks) /\ journal # <<>>
  BY DEF TypeOK
<1>2. journal' = Append(journal, b)
  BY DEF AppendWrite
<1>3. b.seq = seq[p] /\ b.type = NextBlock(p).type
  BY DEF Chained, NextBlock, Block
<1> HIDE DEF b
<1>4. Len(journal') = Len(journal) + 1
  BY <1>1, <1>2
<1>5. Verified(journal') => Verified(journal) /\ seq[p] = Len(journal)
  BY <1>1, <1>2, <1>3, VerifiedAppend
<1>6. QED
  BY <1>1, <1>2, <1>3, <1>4, <1>5, UsedAppend

(* The deciding call's own write: an artifact spends nothing, and after the *)
(* transition the call has nothing more to write.                           *)
LEMMA OwnershipWrite ==
  ASSUME TypeOK, NEW p \in Deciders, NotAhead(p), Affordable(p), AppendWrite(p)
  PROVE  NotAhead(p)' /\ Affordable(p)'
<1> USE DEF Writing
<1>1. /\ p \in Calls /\ Len(journal) \in Nat \ {0} /\ seq[p] \in Nat
      /\ left[p] \in Nat
  BY Disjoint, JournalReads DEF TypeOK
<1>2. /\ pc[p] = "write" /\ seq'[p] = seq[p] + 1 /\ pc'[p] = AfterWrite(p)
      /\ decision'[p] = decision[p]
  BY <1>1 DEF TypeOK, AppendWrite, Goto
<1>3. NotAhead(p)'
  BY <1>1, <1>2, WriteEffect DEF NotAhead
<1>4. ASSUME Goes(p)', Current(p)'
      PROVE  ~BudgetSpent(TransitionsUsed(journal'))
  <2>1. Goes(p)
    BY <1>2, <1>4 DEF Goes
  <2>2. Current(p)
    BY <1>1, <1>2, <1>4, WriteEffect DEF Current
  <2>3. left[p] > 0
    BY <1>1, <1>2, <1>4 DEF Goes, AfterWrite
  <2>4. NextBlock(p).type # "transition"
    BY <2>3 DEF NextBlock, Block
  <2>5. TransitionsUsed(journal') = TransitionsUsed(journal)
    BY <1>1, <2>4, WriteEffect
  <2>6. QED
    BY <2>1, <2>2, <2>5 DEF Affordable
<1>5. QED
  BY <1>3, <1>4 DEF Affordable

(* Before any call moves, no call is ahead of the file and each can pay.    *)
LEMMA OwnershipInit ==
  Init => Ownership
<1> SUFFICES ASSUME Init, NEW p \in Deciders
             PROVE  NotAhead(p) /\ Affordable(p)
  BY DEF Ownership
<1>1. pc[p] \in {"loop", "attempt"}
  BY Disjoint DEF Init, Entry, Deciders
<1>2. QED
  BY <1>1 DEF NotAhead, Affordable, Goes, Writing

(* Another call's write leaves a decision behind: the file has grown past   *)
(* the number the decision carries.                                         *)
LEMMA OwnershipStep ==
  TypeOK /\ Roles /\ Ownership /\ [Next]_vars => Ownership'
<1> SUFFICES ASSUME TypeOK, Roles, Ownership, [Next]_vars,
                    NEW q \in Deciders
             PROVE  NotAhead(q)' /\ Affordable(q)'
  BY DEF Ownership
<1>1. /\ NotAhead(q) /\ Affordable(q) /\ DeciderRole(q)
      /\ q \in Calls /\ Len(journal) \in Nat /\ seq[q] \in Nat
  BY Disjoint, JournalReads DEF Ownership, Roles, TypeOK
<1>2. CASE UNCHANGED vars
  BY <1>1, <1>2 DEF vars, NotAhead, Affordable, Goes, Current
<1>3. ASSUME NEW p \in Calls, Step(p) \/ Die(p)
      PROVE  NotAhead(q)' /\ Affordable(q)'
  <2>1. CASE p = q /\ AppendWrite(p)
    BY <1>1, <2>1, OwnershipWrite
  <2>2. CASE p = q /\ journal' = journal
    BY <1>1, <1>3, <2>2, OwnershipStay
  <2>3. CASE p # q /\ journal' = journal
    BY <1>1, <1>3, <2>3, OthersStay DEF NotAhead, Affordable, Goes, Current
  <2>4. CASE p # q /\ AppendWrite(p)
    <3>1. pc'[q] = pc[q] /\ seq'[q] = seq[q]
      BY <1>1, <1>3, <2>4, OthersStay
    <3>2. Len(journal') = Len(journal) + 1
      BY <2>4, WriteEffect
    <3>3. NotAhead(q)'
      BY <1>1, <3>1, <3>2 DEF NotAhead
    <3>4. ~(Goes(q)' /\ Current(q)')
      BY <1>1, <3>1, <3>2 DEF NotAhead, Goes, Current
    <3>5. QED
      BY <3>3, <3>4 DEF Affordable
  <2>5. QED
    BY <1>3, <2>1, <2>2, <2>3, <2>4, FileSteps
<1>4. QED
  BY <1>2, <1>3 DEF Next

-----------------------------------------------------------------------------
(* The budget.                                                              *)

(* A file that load_journal refuses is refused for ever.                    *)
LEMMA RefusedForEver ==
  ASSUME TypeOK, NEW p \in Calls, Step(p) \/ Die(p), Verified(journal')
  PROVE  Verified(journal)
BY FileSteps, WriteEffect

(* A call that will not decide again never does.                            *)
LEMMA SpentStays ==
  ASSUME TypeOK, Roles, NEW p \in Calls, Step(p) \/ Die(p), NEW q \in SpentCalls
  PROVE  q \in SpentCalls'
<1>1. q \in Deciders /\ q \in Calls /\ Spent(q)
  BY Disjoint DEF SpentCalls
<1>2. CASE q # p
  BY <1>1, <1>2, OthersStay, RefusedForEver DEF Spent, SpentCalls
<1>3. CASE q = p
  <2>1. \/ pc[p] = "reload" /\ (Stops(decision[p]) \/ ~Verified(journal))
        \/ pc[p] \in Stopped
    BY <1>1, <1>3 DEF Spent
  <2>2. CASE IntegrityViolation(p) \/ Stop(p) \/ Die(p)
    BY <1>1, <1>3, <2>2
    DEF TypeOK, IntegrityViolation, Stop, Return, Die, Goto, Spent, SpentCalls, Stopped
  <2>3. QED
    BY <1>3, <2>1, <2>2
    DEF Step, UnknownState, ReachTerminal, StepCap, EnterState, ActorFails, ActorWorks,
        BeginAttempt, RunChecks, Judge, Resume, RecordSkill, AppendRead, AppendWrite,
        Continue, Stopped, LoadPoints, Die, InFlight, Stop, IntegrityViolation
<1>4. QED
  BY <1>2, <1>3

(* Sets of deciding calls are finite, and their cardinality is monotone.    *)
LEMMA SpentFinite ==
  ASSUME NEW T \in SUBSET Deciders
  PROVE  /\ IsFiniteSet(T) /\ Cardinality(T) \in Nat
         /\ \A R \in SUBSET T : Cardinality(R) <= Cardinality(T)
<1>1. IsFiniteSet(Calls) /\ T \subseteq Calls
  BY CallsAssumption DEF Calls, Deciders
<1>2. IsFiniteSet(T)
  BY <1>1, FS_Subset
<1>3. QED
  BY <1>2, FS_Subset, FS_CardinalityType

(* The journal new_session writes holds no transition.                      *)
LEMMA AccountingInit ==
  Init => Accounting
<1> SUFFICES ASSUME Init, MaxTransitions \in Nat
             PROVE  TransitionsUsed(journal) <= MaxTransitions + Cardinality(SpentCalls)
  BY DEF Accounting
<1>1. Len(journal) = 1 /\ journal[1].type = "session_opened"
  BY DEF Init, Opened, Chained, Block
<1>2. {i \in 1..Len(journal) : journal[i].type = "transition"} = {}
  BY <1>1
<1>3. TransitionsUsed(journal) = 0
  BY <1>2, FS_EmptySet DEF TransitionsUsed
<1>4. Cardinality(SpentCalls) \in Nat
  BY SpentFinite DEF SpentCalls
<1>5. QED
  BY <1>3, <1>4

(* Only a call that decides writes a transition, and only as its last block *)
(* before it reloads.                                                       *)
LEMMA TransitionWriter ==
  ASSUME TypeOK, Roles, NEW p \in Calls, AppendWrite(p),
         NextBlock(p).type = "transition"
  PROVE  /\ p \in Deciders /\ pc'[p] = "reload" /\ decision'[p] = decision[p]
         /\ decision[p] # NoDecision /\ p \notin SpentCalls
<1>1. pc[p] = "write" /\ left[p] \in Nat /\ pc'[p] = AfterWrite(p)
      /\ decision'[p] = decision[p]
  BY DEF TypeOK, AppendWrite, Goto
<1>2. left[p] = 0 /\ TypeOfKind(decision[p].kind) = "transition"
  BY <1>1 DEF NextBlock, Block
<1>3. decision[p].kind \notin {"resumed", "skill"}
  BY <1>2, Zenon DEF TypeOfKind
<1>4. p \in Deciders
  BY <1>1, <1>3 DEF Roles, WriterRole, Writing
<1>5. decision[p] # NoDecision
  BY <1>1, <1>2, <1>4 DEF Roles, DeciderRole, Writing
<1>6. QED
  BY <1>1, <1>2, <1>4, <1>5 DEF AfterWrite, SpentCalls, Spent, Stopped

(* A transition block is paid by the budget or by the call's last decision. *)
LEMMA AccountingStep ==
  TypeOK /\ Roles /\ Ownership /\ Accounting /\ [Next]_vars => Accounting'
<1> SUFFICES ASSUME TypeOK, Roles, Ownership, Accounting, [Next]_vars,
                    MaxTransitions \in Nat
             PROVE  TransitionsUsed(journal') <= MaxTransitions + Cardinality(SpentCalls')
  BY DEF Accounting
<1> DEFINE used == TransitionsUsed(journal)
<1>1. used <= MaxTransitions + Cardinality(SpentCalls)
  BY DEF Accounting
<1>2. SpentCalls \in SUBSET Deciders /\ SpentCalls' \in SUBSET Deciders
  BY DEF SpentCalls
<1>3. CASE UNCHANGED vars
  <2>1. SpentCalls' = SpentCalls
    BY <1>3 DEF vars, SpentCalls, Spent
  <2>2. QED
    BY <1>1, <1>3, <2>1 DEF vars
<1>4. ASSUME NEW p \in Calls, Step(p) \/ Die(p)
      PROVE  TransitionsUsed(journal') <= MaxTransitions + Cardinality(SpentCalls')
  <2>1. SpentCalls \subseteq SpentCalls'
    BY <1>4, SpentStays
  <2>2. /\ Cardinality(SpentCalls) \in Nat /\ Cardinality(SpentCalls') \in Nat
        /\ Cardinality(SpentCalls) <= Cardinality(SpentCalls')
    BY <1>2, <2>1, SpentFinite
  <2>3. used \in Nat
    BY UsedAppend DEF TypeOK
  <2>4. CASE journal' = journal
    BY <1>1, <2>2, <2>3, <2>4
  <2>5. CASE AppendWrite(p) /\ NextBlock(p).type # "transition"
    BY <1>1, <2>2, <2>3, <2>5, WriteEffect
  <2>6. CASE AppendWrite(p) /\ NextBlock(p).type = "transition"
    <3>1. /\ p \in Deciders /\ pc'[p] = "reload" /\ decision'[p] = decision[p]
          /\ decision[p] # NoDecision /\ p \notin SpentCalls
      BY <2>6, TransitionWriter
    <3>2. TransitionsUsed(journal') = used + 1
      BY <2>6, WriteEffect
    <3>3. CASE p \in SpentCalls'
      <4>1. SpentCalls \cup {p} \in SUBSET SpentCalls'
        BY <2>1, <3>3
      <4>2. Cardinality(SpentCalls \cup {p}) = Cardinality(SpentCalls) + 1
        BY <1>2, <3>1, SpentFinite, FS_AddElement
      <4>3. Cardinality(SpentCalls \cup {p}) <= Cardinality(SpentCalls')
        BY <1>2, <4>1, SpentFinite
      <4>4. QED
        BY <1>1, <2>2, <2>3, <3>2, <4>2, <4>3
    <3>4. CASE p \notin SpentCalls'
      <4>1. ~Stops(decision[p]) /\ Verified(journal')
        BY <3>1, <3>4 DEF SpentCalls, Spent
      <4>2. Goes(p) /\ Current(p)
        BY <2>6, <3>1, <4>1, WriteEffect DEF Goes, Current, Writing, AppendWrite
      <4>3. ~BudgetSpent(used)
        BY <3>1, <4>2 DEF Ownership, Affordable
      <4>4. used < MaxTransitions
        BY <2>3, <4>3 DEF BudgetSpent
      <4>5. QED
        BY <2>2, <2>3, <3>2, <4>4
    <3>5. QED
      BY <3>3, <3>4
  <2>7. QED
    BY <1>4, <2>4, <2>5, <2>6, FileSteps
<1>5. QED
  BY <1>3, <1>4 DEF Next

(* ADR 0003 D6: for every workflow with a budget, every number of calls,    *)
(* every interleaving of them and wherever they die, the session file never *)
(* holds more transitions than max_transitions plus one for each            *)
(* run_session or run_attempt that has taken its last decision.             *)
THEOREM BoundedAutonomy == Spec => []BudgetBound
<1>1. Init => IInv
  BY TypeInit, RolesInit, OwnershipInit, AccountingInit DEF IInv
<1>2. IInv /\ [Next]_vars => IInv'
  BY TypeStep, RolesStep, OwnershipStep, AccountingStep DEF IInv
<1>3. IInv => BudgetBound
  <2> SUFFICES ASSUME IInv, MaxTransitions \in Nat
               PROVE  TransitionsUsed(journal) <= MaxTransitions + Cardinality(Finished)
    BY DEF BudgetBound
  <2>1. SpentCalls \in SUBSET Finished /\ Finished \in SUBSET Deciders
    BY DEF SpentCalls, Spent, Finished
  <2>2. /\ Cardinality(SpentCalls) \in Nat /\ Cardinality(Finished) \in Nat
        /\ Cardinality(SpentCalls) <= Cardinality(Finished)
    BY <2>1, SpentFinite
  <2>3. TransitionsUsed(journal) \in Nat
    BY UsedAppend DEF IInv, TypeOK
  <2>4. QED
    BY <2>2, <2>3 DEF IInv, Accounting
<1>4. QED
  BY <1>1, <1>2, <1>3, PTL DEF Spec

-----------------------------------------------------------------------------
(* The step cap.                                                           *)

(* Each iteration that a run has gone on from has spent a transition, and   *)
(* the last of them was within the budget.                                  *)
Paid(p) ==
  /\ decision[p].kind \notin {"resumed", "skill"}
  /\ pc[p] \in {"loop", "reload"} => steps[p] <= TransitionsUsed(journal)
  /\ pc[p] \notin Stopped => steps[p] <= TransitionsUsed(journal) + 1
  /\ pc[p] = "loop" => steps[p] <= MaxTransitions
  /\ pc[p] = "reload" /\ ~Stops(decision[p]) /\ Verified(journal) =>
       steps[p] <= MaxTransitions

PaidAll == MaxTransitions \in Nat => \A p \in Deciders : Paid(p)

(* No iteration has been entered.                                           *)
LEMMA PaidInit ==
  Init => PaidAll
<1> SUFFICES ASSUME Init, MaxTransitions \in Nat, NEW p \in Deciders
             PROVE  Paid(p)
  BY DEF PaidAll
<1>1. journal \in Seq(StoredBlocks)
  BY TypeInit DEF TypeOK
<1>2. TransitionsUsed(journal) \in Nat
  BY <1>1, UsedAppend
<1>3. pc[p] \in {"loop", "attempt"} /\ steps[p] = 0 /\ decision[p] = NoDecision
  BY Disjoint DEF Init, Entry, Deciders
<1>4. QED
  BY <1>2, <1>3 DEF Paid, NoDecision, Transition

(* The run's own step, when the file stays as it is.                        *)
LEMMA PaidStay ==
  ASSUME TypeOK, MaxTransitions \in Nat, NEW p \in Deciders, DeciderRole(p), Paid(p),
         Step(p) \/ Die(p), journal' = journal
  PROVE  Paid(p)'
<1> USE DEF TypeOK, Paid, Goto, locals, Stopped
<1>0. /\ p \in Calls /\ TransitionsUsed(journal) \in Nat
      /\ TransitionsUsed(journal') = TransitionsUsed(journal)
  BY Disjoint, UsedAppend
<1>1. CASE \/ IntegrityViolation(p) \/ UnknownState(p) \/ ReachTerminal(p)
           \/ StepCap(p) \/ Stop(p) \/ Die(p)
  BY <1>0, <1>1 DEF IntegrityViolation, UnknownState, ReachTerminal, StepCap, Stop,
                    Die, Return
<1>2. CASE EnterState(p)
  BY <1>0, <1>2 DEF EnterState, NoDecision, Transition
<1>3. CASE Continue(p)
  BY <1>0, <1>3 DEF Continue
<1>4. CASE ActorFails(p)
  BY <1>0, <1>4 DEF ActorFails, Transition
<1>5. ASSUME NEW n \in 0..MaxArtifacts, ActorWorks(p, n)
      PROVE  Paid(p)'
  BY <1>0, <1>5 DEF ActorWorks
<1>6. CASE BeginAttempt(p) \/ RunChecks(p) \/ AppendRead(p)
  BY <1>0, <1>6 DEF BeginAttempt, RunChecks, AppendRead
<1>7. CASE Judge(p)
  <2>1. PICK v : decision'[p] = Advance(state[p], AttemptCount(Snapshot(p), state[p]),
                                        TransitionsUsed(Snapshot(p)), v)
    BY <1>0, <1>7 DEF Judge
  <2>2. decision'[p].kind \in Kinds
    BY <2>1, AdvanceType
  <2>3. QED
    BY <1>0, <1>7, <2>2 DEF Judge, Kinds
<1>8. ASSUME NEW to \in ResumeTargets, Resume(p, to)
      PROVE  Paid(p)'
  BY <1>8 DEF Resume, DeciderRole
<1>9. CASE RecordSkill(p)
  BY <1>9 DEF RecordSkill, DeciderRole
<1>10. CASE AppendWrite(p)
  <2>1. Append(journal, Chained(NextBlock(p), tip[p])) # journal
    <3>1. Len(Append(journal, Chained(NextBlock(p), tip[p]))) = Len(journal) + 1
      OBVIOUS
    <3>2. Len(journal) \in Nat
      OBVIOUS
    <3>3. QED
      BY <3>1, <3>2
  <2>2. QED
    BY <1>10, <2>1 DEF AppendWrite
<1>11. QED
  BY <1>1, <1>2, <1>3, <1>4, <1>5, <1>6, <1>7, <1>8, <1>9, <1>10 DEF Step

(* Its own write: the last one of an iteration is a transition.             *)
LEMMA PaidWrite ==
  ASSUME TypeOK, MaxTransitions \in Nat, NEW p \in Deciders, DeciderRole(p),
         Affordable(p), Paid(p), AppendWrite(p)
  PROVE  Paid(p)'
<1>1. /\ p \in Calls /\ steps[p] \in Nat /\ left[p] \in Nat
      /\ TransitionsUsed(journal) \in Nat
  BY Disjoint, UsedAppend DEF TypeOK
<1>2. /\ pc[p] = "write" /\ pc'[p] = AfterWrite(p)
      /\ decision'[p] = decision[p] /\ steps'[p] = steps[p]
  BY <1>1 DEF TypeOK, AppendWrite, Goto
<1>3. steps[p] <= TransitionsUsed(journal) + 1
  BY <1>2 DEF Paid, Stopped
<1>4. CASE left[p] > 0
  <2>1. pc'[p] \in {"append", "attempt"}
    BY <1>1, <1>2, <1>4 DEF AfterWrite
  <2>2. NextBlock(p).type # "transition"
    BY <1>4 DEF NextBlock, Block
  <2>3. TransitionsUsed(journal') = TransitionsUsed(journal)
    BY <1>1, <2>2, WriteEffect
  <2>4. QED
    BY <1>2, <1>3, <2>1, <2>3 DEF Paid
<1>5. CASE left[p] = 0
  <2>1. pc'[p] = "reload" /\ decision[p] # NoDecision
    BY <1>2, <1>5 DEF AfterWrite, DeciderRole, Writing
  <2>2. NextBlock(p).type = "transition"
    BY <1>5 DEF NextBlock, Block, Paid, TypeOfKind
  <2>3. TransitionsUsed(journal') = TransitionsUsed(journal) + 1
    BY <1>1, <2>2, WriteEffect
  <2>4. ASSUME ~Stops(decision[p]), Verified(journal')
        PROVE  steps[p] <= MaxTransitions
    <3>1. Goes(p) /\ Current(p)
      BY <1>1, <1>2, <2>1, <2>4, WriteEffect DEF Goes, Current, Writing
    <3>2. ~BudgetSpent(TransitionsUsed(journal))
      BY <3>1 DEF Affordable
    <3>3. QED
      BY <1>1, <1>3, <3>2 DEF BudgetSpent
  <2>5. QED
    BY <1>1, <1>2, <1>3, <2>1, <2>3, <2>4 DEF Paid
<1>6. QED
  BY <1>1, <1>4, <1>5

(* Other calls only add transitions.                                        *)
LEMMA PaidStep ==
  TypeOK /\ Roles /\ Ownership /\ PaidAll /\ [Next]_vars => PaidAll'
<1> SUFFICES ASSUME TypeOK, Roles, Ownership, PaidAll, [Next]_vars,
                    MaxTransitions \in Nat, NEW q \in Deciders
             PROVE  Paid(q)'
  BY DEF PaidAll
<1>1. /\ Paid(q) /\ Affordable(q) /\ DeciderRole(q) /\ q \in Calls
      /\ steps[q] \in Nat /\ TransitionsUsed(journal) \in Nat
  BY Disjoint, UsedAppend DEF Ownership, Roles, PaidAll, TypeOK
<1>2. CASE UNCHANGED vars
  BY <1>1, <1>2 DEF vars, Paid
<1>3. ASSUME NEW p \in Calls, Step(p) \/ Die(p)
      PROVE  Paid(q)'
  <2>1. CASE p = q /\ AppendWrite(p)
    BY <1>1, <2>1, PaidWrite
  <2>2. CASE p = q /\ journal' = journal
    BY <1>1, <1>3, <2>2, PaidStay
  <2>3. CASE p # q
    <3>1. /\ pc'[q] = pc[q] /\ steps'[q] = steps[q] /\ decision'[q] = decision[q]
      BY <1>1, <1>3, <2>3, OthersStay
    <3>2. TransitionsUsed(journal') \in
            {TransitionsUsed(journal), TransitionsUsed(journal) + 1}
      BY <1>3, FileSteps, WriteEffect
    <3>3. Verified(journal') => Verified(journal)
      BY <1>3, RefusedForEver
    <3>4. QED
      BY <1>1, <3>1, <3>2, <3>3 DEF Paid
  <2>4. QED
    BY <1>3, <2>1, <2>2, <2>3, FileSteps
<1>4. QED
  BY <1>2, <1>3 DEF Next

(* The safety cap of run_session is redundant, as its comment says, once    *)
(* the workflow has a budget below it: no run ever stands before another    *)
(* iteration with max_steps of them behind it, whatever other calls do.     *)
THEOREM CapIsRedundant == Spec => []CapNeverHit
<1> DEFINE Inv == TypeOK /\ Roles /\ Ownership /\ PaidAll
<1>1. Init => Inv
  BY TypeInit, RolesInit, OwnershipInit, PaidInit
<1>2. Inv /\ [Next]_vars => Inv'
  BY TypeStep, RolesStep, OwnershipStep, PaidStep
<1>3. Inv => CapNeverHit
  BY CallsAssumption DEF PaidAll, Paid, CapNeverHit, TypeOK, Deciders, Calls
<1>4. QED
  BY <1>1, <1>2, <1>3, PTL DEF Spec

-----------------------------------------------------------------------------
(* Calls that wait for each other.                                         *)

(* What a call in flight holds when nobody else writes: the number and the  *)
(* predecessor of the next block, and the state of the journal.             *)
InHand(p) ==
  /\ pc[p] \in {"checks", "judge"} \cup Writing => seq[p] = Len(journal)
  /\ pc[p] = "write" => tip[p] = Len(journal)
  /\ p \in Deciders /\ pc[p] \in {"actor", "checks", "judge"} \cup Writing =>
       state[p] = CurrentState(journal)

(* What it has decided, and reports.                                        *)
Reported(p) ==
  /\ steps[p] <= MaxSteps
  /\ decision[p].kind \in {"budget", "escalate"} => decision[p].to = Blocked
  /\ pc[p] = "reload" => decision[p].to = CurrentState(journal)
  /\ pc[p] = "returned" /\ result[p].final # result[p].at =>
       decision[p].kind = "failure" \/ steps[p] = MaxSteps

Alone == \A p, q \in Calls : InFlight(p) /\ InFlight(q) => p = q

SerialInv ==
  /\ TypeOK /\ Roles /\ Alone
  /\ Verified(journal) /\ StateContinuity
  /\ \A p \in Calls : InHand(p)
  /\ \A p \in RunCalls : Reported(p)

(* Where a call starts.                                                     *)
LEMMA EntryLabels ==
  \A p \in Calls : Entry(p) \in {"loop", "attempt", "resume", "skill"}
<1>1. ASSUME NEW p \in Deciders
      PROVE  Entry(p) \in {"loop", "attempt"}
  BY Disjoint DEF Entry, Deciders
<1>2. ASSUME NEW p \in Calls \ Deciders
      PROVE  Entry(p) \in {"resume", "skill"}
  BY Disjoint, CallsAssumption DEF Entry, Deciders, Calls
<1>3. QED
  BY <1>1, <1>2

(* A call that has read what it will write is in flight.                    *)
LEMMA Busy ==
  ASSUME NEW p \in Calls, pc[p] \in {"actor", "checks", "judge", "reload"} \cup Writing
  PROVE  InFlight(p)
BY EntryLabels DEF InFlight, Started, Writing, Stopped

(* A call that waits for the others is the only one.                        *)
LEMMA AloneStep ==
  ASSUME Cardinality({p \in Calls : InFlight(p)'}) <= 1
  PROVE  Alone'
<1> DEFINE T == {p \in Calls : InFlight(p)'}
<1>1. IsFiniteSet(T)
  BY CallsAssumption, FS_Subset
<1>2. ASSUME NEW p \in T, NEW q \in T, p # q
      PROVE  FALSE
  <2>1. IsFiniteSet({p}) /\ Cardinality({p}) = 1
    BY FS_Singleton
  <2>2. Cardinality({p} \cup {q}) = 2
    BY <1>2, <2>1, FS_AddElement
  <2>3. {p} \cup {q} \subseteq T
    BY <1>2
  <2>4. Cardinality({p} \cup {q}) <= Cardinality(T)
    BY <1>1, <2>3, FS_Subset
  <2>5. Cardinality(T) \in Nat
    BY <1>1, FS_CardinalityType
  <2>6. QED
    BY <2>2, <2>4, <2>5
<1>3. QED
  BY <1>2 DEF Alone

(* A block with the right number and predecessor keeps the journal intact.  *)
LEMMA VerifiedWrite ==
  ASSUME NEW S, NEW j \in Seq(S), Verified(j), NEW b,
         b.seq = Len(j), b.prev = Len(j)
  PROVE  Verified(Append(j, b))
<1>1. Len(j) \in Nat /\ Len(j) > 0
  BY DEF Verified
<1>2. /\ Len(Append(j, b)) = Len(j) + 1
      /\ \A i \in 1..Len(j) : Append(j, b)[i] = j[i]
      /\ Append(j, b)[Len(j) + 1] = b
  OBVIOUS
<1>3. \A i \in 1..Len(j) : Linked(Append(j, b), i)
  BY <1>2 DEF Verified, Linked
<1>4. Linked(Append(j, b), Len(j) + 1)
  BY <1>1, <1>2 DEF Linked
<1>5. QED
  BY <1>1, <1>2, <1>3, <1>4 DEF Verified

(* The engine escalates and gives up to nowhere but blocked.                *)
LEMMA GivesUpToBlocked ==
  ASSUME NEW s, NEW attempt, NEW used, NEW v,
         Advance(s, attempt, used, v).kind \in {"budget", "escalate"}
  PROVE  Advance(s, attempt, used, v).to = Blocked
BY DEF Advance, Transition

(* The one journal block, and nobody in flight.                             *)
LEMMA SerialInit ==
  Init => SerialInv
<1> SUFFICES ASSUME Init PROVE SerialInv
  OBVIOUS
<1>1. TypeOK /\ Roles
  BY TypeInit, RolesInit
<1>2. \A p \in Calls : ~InFlight(p) /\ pc[p] \in {"loop", "attempt", "resume", "skill"}
  BY EntryLabels DEF Init, InFlight, Started
<1>3. Verified(journal) /\ StateContinuity
  <2>1. Len(journal) = 1 /\ Linked(journal, 1)
    <3> DEFINE b == Chained(Block(0, "session_opened", "", Initial), 0)
    <3>1. journal = <<b>>
      BY DEF Init, Opened
    <3>2. b.seq = 0 /\ b.prev = 0
      BY DEF Chained, Block
    <3> HIDE DEF b
    <3>3. QED
      BY <3>1, <3>2 DEF Linked
  <2>2. QED
    BY <2>1 DEF Verified, StateContinuity
<1>4. \A p \in RunCalls : Reported(p)
  <2>1. MaxSteps \in Nat
    BY CallsAssumption
  <2>2. ASSUME NEW p \in RunCalls
        PROVE  /\ p \in Calls /\ steps[p] = 0 /\ decision[p].kind = "none"
               /\ pc[p] \in {"loop", "attempt", "resume", "skill"}
    BY <1>2 DEF Init, Calls, NoDecision, Transition
  <2>3. QED
    BY <2>1, <2>2 DEF Reported
<1>5. QED
  BY <1>1, <1>2, <1>3, <1>4 DEF SerialInv, Alone, InHand, Writing

(* A call's own step, when the file stays as it is.                         *)
LEMMA InHandStay ==
  ASSUME TypeOK, Roles, Verified(journal), NEW p \in Calls, InHand(p),
         Step(p) \/ Die(p), ~AppendWrite(p)
  PROVE  InHand(p)'
<1> USE DEF TypeOK, InHand, Writing, Goto, locals, Stopped
<1>1. CASE \/ IntegrityViolation(p) \/ UnknownState(p) \/ ReachTerminal(p)
           \/ StepCap(p) \/ Stop(p) \/ Die(p) \/ EnterState(p) \/ Continue(p)
  BY <1>1 DEF IntegrityViolation, UnknownState, ReachTerminal, StepCap, Stop,
              Die, Return, EnterState, Continue
<1>2. NextSeq = Len(journal)
  BY VerifiedNextSeq DEF NextSeq
<1>3. CASE ActorFails(p)
  BY <1>2, <1>3 DEF ActorFails
<1>4. ASSUME NEW n \in 0..MaxArtifacts, ActorWorks(p, n)
      PROVE  InHand(p)'
  BY <1>2, <1>4 DEF ActorWorks
<1>5. CASE BeginAttempt(p) \/ RunChecks(p)
  BY <1>5 DEF BeginAttempt, RunChecks
<1>6. CASE Judge(p)
  BY <1>6 DEF Judge, AttemptSeq
<1>7. ASSUME NEW to \in ResumeTargets, Resume(p, to)
      PROVE  InHand(p)'
  BY <1>2, <1>7 DEF Resume, Roles, DeciderRole
<1>8. CASE RecordSkill(p)
  BY <1>2, <1>8 DEF RecordSkill, Roles, DeciderRole
<1>9. CASE AppendRead(p)
  BY <1>9 DEF AppendRead
<1>10. QED
  BY <1>1, <1>3, <1>4, <1>5, <1>6, <1>7, <1>8, <1>9 DEF Step

(* A write: the block follows the last one and starts from its state.       *)
LEMMA InHandWrite ==
  ASSUME TypeOK, Roles, Verified(journal), StateContinuity,
         NEW p \in Calls, InHand(p), AppendWrite(p)
  PROVE  InHand(p)' /\ Verified(journal') /\ StateContinuity'
<1> DEFINE b == Chained(NextBlock(p), tip[p])
<1>1. journal \in Seq(StoredBlocks) /\ journal # <<>> /\ Len(journal) \in Nat \ {0}
  BY JournalReads DEF TypeOK
<1>2. journal' = Append(journal, b) /\ pc[p] = "write"
  BY DEF AppendWrite
<1>3. /\ seq[p] = Len(journal) /\ tip[p] = Len(journal)
      /\ p \in Deciders => state[p] = CurrentState(journal)
  BY <1>2 DEF InHand, Writing
<1>4. b.seq = Len(journal) /\ b.prev = Len(journal)
  BY <1>3 DEF Chained, NextBlock, Block
<1>5. b.type \in {"transition", "artifact_produced"} =>
        p \in Deciders /\ b.from = CurrentState(journal)
  <2>1. p \notin Deciders => decision[p].kind \in {"resumed", "skill"} /\ left[p] = 0
    BY <1>2 DEF Roles, WriterRole, Writing
  <2>2. p \notin Deciders => b.type \in {"session_resumed", "skill_invoked"}
    BY <2>1 DEF Chained, NextBlock, Block, TypeOfKind
  <2>3. b.from = state[p]
    BY DEF Chained, NextBlock, Block
  <2>4. QED
    BY <1>3, <2>2, <2>3
<1>6. left[p] > 0 => b.to = state[p]
  BY DEF Chained, NextBlock, Block
<1> HIDE DEF b
<1>7. /\ Len(journal') = Len(journal) + 1
      /\ \A i \in 1..Len(journal) : journal'[i] = journal[i]
      /\ journal'[Len(journal) + 1] = b
  BY <1>1, <1>2
<1>8. Verified(journal')
  BY <1>1, <1>2, <1>4, VerifiedWrite
<1>9. StateContinuity'
  <2>1. ASSUME NEW i \in 2..Len(journal'),
               journal'[i].type \in {"transition", "artifact_produced"}
        PROVE  journal'[i].from = journal'[i - 1].to
    <3>1. CASE i = Len(journal) + 1
      BY <1>1, <1>5, <1>7, <2>1, <3>1 DEF CurrentState
    <3>2. CASE i # Len(journal) + 1
      <4>1. i \in 2..Len(journal) /\ i - 1 \in 1..Len(journal) /\ i \in 1..Len(journal)
        BY <1>1, <1>7, <3>2
      <4>2. QED
        BY <1>7, <2>1, <4>1 DEF StateContinuity
    <3>3. QED
      BY <3>1, <3>2
  <2>2. QED
    BY <2>1 DEF StateContinuity
<1>10. InHand(p)'
  <2>1. /\ seq'[p] = seq[p] + 1 /\ pc'[p] = AfterWrite(p) /\ state'[p] = state[p]
        /\ decision'[p] = decision[p] /\ left[p] \in Nat
    BY DEF AppendWrite, Goto, TypeOK
  <2>2. pc'[p] \in {"append", "attempt", "reload", "returned"}
    BY <2>1 DEF AfterWrite
  <2>3. pc'[p] = "append" => left[p] > 0
    BY <2>1 DEF AfterWrite
  <2>4. CurrentState(journal') = b.to
    BY <1>7 DEF CurrentState
  <2>5. QED
    BY <1>1, <1>3, <1>6, <1>7, <2>1, <2>2, <2>3, <2>4 DEF InHand, Writing
<1>11. QED
  BY <1>8, <1>9, <1>10

(* The reload comes after the last block of an iteration.                   *)
LEMMA LastWrite ==
  ASSUME NEW p, left[p] \in Nat, AfterWrite(p) = "reload"
  PROVE  left[p] = 0
BY DEF AfterWrite

(* A run's own step, and what it then reports.                              *)
LEMMA ReportStep ==
  ASSUME TypeOK, NEW p \in RunCalls, DeciderRole(p), Reported(p), Step(p) \/ Die(p)
  PROVE  Reported(p)'
<1> USE DEF TypeOK, Reported, Goto, locals, Stopped
<1>0. p \in Calls /\ p \in Deciders /\ MaxSteps \in Nat
  BY CallsAssumption DEF Calls, Deciders
<1>1. CASE IntegrityViolation(p) \/ UnknownState(p) \/ Die(p)
  BY <1>0, <1>1 DEF IntegrityViolation, UnknownState, Die
<1>2. CASE ReachTerminal(p)
  BY <1>0, <1>2 DEF ReachTerminal, Return
<1>3. CASE StepCap(p)
  BY <1>0, <1>3 DEF StepCap, Return
<1>4. CASE EnterState(p)
  BY <1>0, <1>4 DEF EnterState, NoDecision, Transition
<1>5. CASE ActorFails(p)
  BY <1>0, <1>5 DEF ActorFails, Transition
<1>6. ASSUME NEW n \in 0..MaxArtifacts, ActorWorks(p, n)
      PROVE  Reported(p)'
  BY <1>0, <1>6 DEF ActorWorks
<1>7. CASE BeginAttempt(p) \/ RunChecks(p) \/ AppendRead(p) \/ Continue(p)
  BY <1>0, <1>7 DEF BeginAttempt, RunChecks, AppendRead, Continue
<1>8. CASE Judge(p)
  <2>1. PICK v : decision'[p] = Advance(state[p], AttemptCount(Snapshot(p), state[p]),
                                        TransitionsUsed(Snapshot(p)), v)
    BY <1>0, <1>8 DEF Judge
  <2>2. decision'[p].kind \in {"budget", "escalate"} => decision'[p].to = Blocked
    BY <2>1, GivesUpToBlocked
  <2>3. QED
    BY <1>0, <1>8, <2>2 DEF Judge
<1>9. ASSUME NEW to \in ResumeTargets, Resume(p, to)
      PROVE  Reported(p)'
  BY <1>9 DEF Resume, DeciderRole
<1>10. CASE RecordSkill(p)
  BY <1>10 DEF RecordSkill, DeciderRole
<1>11. CASE AppendWrite(p)
  <2>1. /\ pc'[p] = AfterWrite(p) /\ decision'[p] = decision[p] /\ steps'[p] = steps[p]
        /\ left[p] \in Nat /\ Len(journal) \in Nat
    BY <1>0, <1>11 DEF AppendWrite
  <2>2. pc'[p] \in {"append", "attempt", "reload"}
    BY <1>0, <2>1 DEF AfterWrite
  <2>3. ASSUME pc'[p] = "reload"
        PROVE  decision[p].to = CurrentState(journal')
    <3>1. left[p] = 0
      BY <1>0, <2>1, <2>3, LastWrite
    <3>2. Chained(NextBlock(p), tip[p]).to = decision[p].to
      BY <3>1 DEF NextBlock, Chained, Block
    <3>3. CurrentState(Append(journal, Chained(NextBlock(p), tip[p])))
            = Chained(NextBlock(p), tip[p]).to
      BY <2>1 DEF CurrentState
    <3>4. QED
      BY <1>11, <3>2, <3>3 DEF AppendWrite
  <2>4. QED
    BY <2>1, <2>2, <2>3
<1>12. CASE Stop(p)
  <2>1. result'[p] = [final |-> Blocked, terminal |-> FALSE, at |-> CurrentState(journal)]
    BY <1>0, <1>12 DEF Stop, Return
  <2>2. Stops(decision[p])
    BY <1>12, CallsAssumption DEF Stop
  <2>3. CurrentState(journal) = Blocked \/ decision[p].kind = "failure"
    BY <1>12, <2>2 DEF Stop, Stops
  <2>4. QED
    BY <1>0, <1>12, <2>1, <2>3 DEF Stop, Return
<1>13. QED
  BY <1>1, <1>2, <1>3, <1>4, <1>5, <1>6, <1>7, <1>8, <1>9, <1>10, <1>11, <1>12 DEF Step

(* While a call is in flight the others wait.                               *)
LEMMA SerialStep ==
  SerialInv /\ [SerialNext]_vars => SerialInv'
<1> SUFFICES ASSUME SerialInv, [SerialNext]_vars PROVE SerialInv'
  OBVIOUS
<1>1. TypeOK' /\ Roles'
  BY TypeStep, RolesStep DEF SerialInv, SerialNext
<1>2. CASE UNCHANGED vars
  BY <1>1, <1>2
  DEF vars, SerialInv, Alone, InFlight, Started, StateContinuity, InHand, Reported
<1>3. ASSUME SerialNext, NEW p \in Calls, Step(p) \/ Die(p)
      PROVE  SerialInv'
  <2>1. Alone'
    BY <1>3, AloneStep DEF SerialNext
  <2>2. Verified(journal') /\ StateContinuity' /\ InHand(p)'
    <3>1. CASE AppendWrite(p)
      BY <3>1, InHandWrite DEF SerialInv
    <3>2. CASE ~AppendWrite(p)
      BY <1>3, <3>2, InHandStay, FileSteps DEF SerialInv, StateContinuity
    <3>3. QED
      BY <3>1, <3>2
  <2>3. ASSUME NEW q \in Calls, q # p
        PROVE  /\ pc'[q] \in {"actor", "checks", "judge", "reload"} \cup Writing =>
                    journal' = journal /\ tip'[q] = tip[q]
               /\ pc'[q] = pc[q] /\ seq'[q] = seq[q] /\ state'[q] = state[q]
    <3>1. pc'[q] = pc[q] /\ seq'[q] = seq[q] /\ state'[q] = state[q] /\ tip'[q] = tip[q]
      BY <1>3, <2>3, OthersStay DEF SerialInv
    <3>2. AppendWrite(p) => InFlight(p)
      BY Busy DEF AppendWrite, Writing
    <3>3. CASE AppendWrite(p)
      BY <2>3, <3>1, <3>2, <3>3, Busy DEF SerialInv, Alone
    <3>4. QED
      BY <1>3, <3>1, <3>3, FileSteps
  <2>4. ASSUME NEW q \in Calls
        PROVE  InHand(q)'
    <3>1. CASE q = p
      BY <2>2, <3>1
    <3>2. CASE q # p
      BY <2>3, <3>2 DEF SerialInv, InHand, Writing
    <3>3. QED
      BY <3>1, <3>2
  <2>5. ASSUME NEW q \in RunCalls
        PROVE  Reported(q)'
    <3>1. q \in Calls /\ q \in Deciders /\ DeciderRole(q) /\ Reported(q)
      BY DEF SerialInv, Roles, Calls, Deciders
    <3>2. CASE q = p
      BY <1>3, <3>1, <3>2, ReportStep DEF SerialInv
    <3>3. CASE q # p
      BY <1>3, <2>3, <3>1, <3>3, OthersStay DEF SerialInv, Reported
    <3>4. QED
      BY <3>2, <3>3
  <2>6. QED
    BY <1>1, <2>1, <2>2, <2>4, <2>5 DEF SerialInv
<1>4. QED
  BY <1>2, <1>3 DEF SerialNext, Next

(* With callers that wait for each other, wherever they die (session.py,    *)
(* session_loop.py, runner.py), ...                                         *)
LEMMA SerialInvariant == SerialSpec => []SerialInv
<1>1. QED
  BY SerialInit, SerialStep, PTL DEF SerialSpec

(* ... load_journal accepts the journal, however many calls died on it; ... *)
THEOREM SerialJournalsVerify == SerialSpec => []AlwaysVerifies
<1>1. SerialInv => AlwaysVerifies
  BY DEF SerialInv, AlwaysVerifies
<1>2. QED
  BY <1>1, SerialInvariant, PTL

(* ... every transition and artifact starts from the state of the block     *)
(* before it; ...                                                           *)
THEOREM SerialStatesConnect == SerialSpec => []StateContinuity
<1>1. SerialInv => StateContinuity
  BY DEF SerialInv
<1>2. QED
  BY <1>1, SerialInvariant, PTL

(* ... and run_session reports the state of its journal, unless a failure   *)
(* rule or the step cap has ended it.                                       *)
THEOREM RunsReportTheirJournal == SerialSpec => []ReportsJournalState
<1>1. SerialInv => ReportsJournalState
  BY DEF SerialInv, Reported, ReportsJournalState
<1>2. QED
  BY <1>1, SerialInvariant, PTL

-----------------------------------------------------------------------------
(* The same engine and the same journal in both specifications.            *)

(* Lifecycle's engine decides as this one does.                             *)
LEMMA SameDecision ==
  ASSUME NEW s, NEW attempt, NEW used, NEW v
  PROVE  Serial!Advance(s, attempt, used, v) = Advance(s, attempt, used, v)
<1>1. Serial!FiredRules(s, v) = FiredRules(s, v)
  BY DEF Serial!FiredRules, FiredRules
<1>2. Serial!FirstFired(s, v) = FirstFired(s, v)
  BY <1>1 DEF Serial!FirstFired, FirstFired
<1>3. Serial!BudgetSpent(used) <=> BudgetSpent(used)
  BY DEF Serial!BudgetSpent, BudgetSpent
<1>4. Serial!Escalated(v) <=> Escalated(v)
  BY DEF Serial!Escalated, Escalated
<1>5. Serial!AllChecksPass(s, v) <=> AllChecksPass(s, v)
  BY DEF Serial!AllChecksPass, AllChecksPass
<1>6. Serial!NominalAssertionsPass(s, v) <=> NominalAssertionsPass(s, v)
  BY DEF Serial!NominalAssertionsPass, Serial!FailureIds,
         NominalAssertionsPass, FailureIds
<1>7. Serial!MayRetry(s, attempt) <=> MayRetry(s, attempt)
  BY DEF Serial!MayRetry, MayRetry
<1>8. \A to, kind : Serial!Transition(to, kind) = Transition(to, kind)
  BY DEF Serial!Transition, Transition
<1>9. QED
  BY <1>1, <1>2, <1>3, <1>4, <1>5, <1>6, <1>7, <1>8
  DEF Serial!Advance, Advance, Serial!Blocked, Serial!None, Blocked, None

(* Numbers of elements are the same in both.                                *)
LEMMA SameCardinality ==
  ASSUME NEW T
  PROVE  Serial!Cardinality(T) = Cardinality(T)
BY Zenon DEF Serial!Cardinality, Cardinality

(* And it reads the journal as this module does.                            *)
LEMMA SameReading ==
  /\ Serial!NonTerminal = NonTerminal
  /\ \A s : Serial!Verdicts(s) = Verdicts(s)
  /\ \A j : Serial!CurrentState(j) = CurrentState(j)
  /\ \A j, s : Serial!AttemptCount(j, s) = AttemptCount(j, s)
  /\ \A j : Serial!TransitionsUsed(j) = TransitionsUsed(j)
<1>1. Serial!NonTerminal = NonTerminal
  BY DEF Serial!NonTerminal, NonTerminal
<1>2. ASSUME NEW s PROVE Serial!Verdicts(s) = Verdicts(s)
  BY DEF Serial!Verdicts, Serial!VerdictValues, Verdicts, VerdictValues
<1>3. ASSUME NEW j PROVE Serial!CurrentState(j) = CurrentState(j)
  BY DEF Serial!CurrentState, CurrentState
<1>4. ASSUME NEW j, NEW s PROVE Serial!AttemptCount(j, s) = AttemptCount(j, s)
  BY SameCardinality DEF Serial!AttemptCount, Serial!EntryTypes, AttemptCount, EntryTypes
<1>5. ASSUME NEW j PROVE Serial!TransitionsUsed(j) = TransitionsUsed(j)
  BY SameCardinality DEF Serial!TransitionsUsed, TransitionsUsed
<1>6. QED
  BY <1>1, <1>2, <1>3, <1>4, <1>5

-----------------------------------------------------------------------------
(* What load_journal accepts of a journal that verifies is all of it.       *)
LEMMA PrefixWhole ==
  ASSUME NEW S, NEW j \in Seq(S), Verified(j)
  PROVE  VerifiedPrefix(j) = j
<1>1. Len(j) \in Nat
  OBVIOUS
<1>2. {i \in 1..Len(j) : \A k \in 1..i : Linked(j, k)} = 1..Len(j)
  BY <1>1 DEF Verified
<1>3. IsFiniteSet(1..Len(j)) /\ Cardinality(1..Len(j)) = Len(j)
  BY <1>1, FS_Interval
<1>4. SubSeq(j, 1, Len(j)) = j
  OBVIOUS
<1>5. QED
  BY <1>2, <1>3, <1>4 DEF VerifiedPrefix

(* A block that load_journal refuses adds nothing to it.                    *)
LEMMA PrefixStays ==
  ASSUME NEW S, NEW j \in Seq(S), NEW b \in S, ~Verified(Append(j, b))
  PROVE  VerifiedPrefix(Append(j, b)) = VerifiedPrefix(j)
<1> DEFINE Links(t) == {i \in 1..Len(t) : \A k \in 1..i : Linked(t, k)}
           c == Cardinality(Links(j))
<1>1. /\ Len(j) \in Nat /\ Len(Append(j, b)) = Len(j) + 1
      /\ \A i \in 1..Len(j) : Append(j, b)[i] = j[i]
  OBVIOUS
<1>2. \A i \in 1..Len(j) : Linked(Append(j, b), i) <=> Linked(j, i)
  BY <1>1 DEF Linked
<1>3. Len(j) + 1 \notin Links(Append(j, b))
  BY <1>1 DEF Verified
<1>4. \A i \in 1..Len(j) : i \in Links(Append(j, b)) <=> i \in Links(j)
  BY <1>1, <1>2
<1>5. Links(Append(j, b)) = Links(j)
  BY <1>1, <1>3, <1>4
<1>6. c \in Nat /\ c <= Len(j)
  <2>1. Links(j) \subseteq 1..Len(j)
    OBVIOUS
  <2>2. IsFiniteSet(1..Len(j)) /\ Cardinality(1..Len(j)) = Len(j)
    BY <1>1, FS_Interval
  <2>3. QED
    BY <2>1, <2>2, FS_Subset, FS_CardinalityType
<1>7. /\ VerifiedPrefix(Append(j, b)) = SubSeq(Append(j, b), 1, c)
      /\ VerifiedPrefix(j) = SubSeq(j, 1, c)
  BY <1>5 DEF VerifiedPrefix
<1> HIDE DEF c, Links
<1>8. SubSeq(Append(j, b), 1, c) = SubSeq(j, 1, c)
  BY <1>1, <1>6
<1>9. QED
  BY <1>7, <1>8

(* An artifact is no entry into a state.                                    *)
LEMMA AttemptsStay ==
  ASSUME NEW S, NEW j \in Seq(S), NEW b, b.type \notin EntryTypes, NEW s
  PROVE  AttemptCount(Append(j, b), s) = AttemptCount(j, s)
<1>1. /\ Len(j) \in Nat /\ Len(Append(j, b)) = Len(j) + 1
      /\ \A i \in 1..Len(j) : Append(j, b)[i] = j[i]
      /\ Append(j, b)[Len(j) + 1] = b
  OBVIOUS
<1>2. {i \in 1..Len(Append(j, b)) : /\ Append(j, b)[i].to = s
                                    /\ Append(j, b)[i].type \in EntryTypes}
        = {i \in 1..Len(j) : j[i].to = s /\ j[i].type \in EntryTypes}
  BY <1>1
<1>3. QED
  BY <1>2 DEF AttemptCount

-----------------------------------------------------------------------------
(* Where the next block of a decider comes from: if the journal is still    *)
(* the one it judged, its decision is one of the engine's on that journal.  *)
DecidedOn(p, j) ==
  /\ state[p] = CurrentState(j)
  /\ \E v \in Verdicts(state[p]) :
       decision[p] = Advance(state[p], AttemptCount(j, state[p]), TransitionsUsed(j), v)

Origin(p) ==
  /\ pc[p] \in {"actor", "checks", "judge"} \cup Writing => state[p] \in NonTerminal
  /\ pc[p] \in {"checks", "judge"} /\ Current(p) => state[p] = CurrentState(journal)
  /\ pc[p] \in Writing /\ decision[p] # NoDecision =>
       \/ decision[p] = Transition(Blocked, "actor")
       \/ decision[p].kind \in Kinds /\ (Current(p) => DecidedOn(p, journal))

(* And of a call that decides nothing.                                      *)
Given(p) ==
  pc[p] \in Writing =>
    \/ /\ state[p] = Blocked
       /\ \E to \in ResumeTargets : decision[p] = Transition(to, "resumed")
    \/ state[p] = None /\ decision[p] = Transition(None, "skill")

Origins ==
  /\ \A p \in Deciders : Origin(p)
  /\ \A p \in Calls \ Deciders : Given(p)

(* Nothing is about to be written.                                          *)
LEMMA OriginsInit ==
  Init => Origins
BY EntryLabels DEF Init, Origins, Origin, Given, Writing, Deciders, Calls

(* The decider's own step, when the file stays as it is.                    *)
LEMMA OriginStay ==
  ASSUME TypeOK, NEW p \in Deciders, DeciderRole(p), NotAhead(p), Origin(p),
         Step(p) \/ Die(p), journal' = journal
  PROVE  Origin(p)'
<1> USE DEF TypeOK, Origin, Current, Writing, Goto, locals, Stopped
<1>0. p \in Calls /\ Len(journal) \in Nat \ {0}
  BY Disjoint, JournalReads
<1>1. CASE \/ IntegrityViolation(p) \/ UnknownState(p) \/ ReachTerminal(p)
           \/ StepCap(p) \/ Stop(p) \/ Die(p) \/ Continue(p)
  BY <1>0, <1>1 DEF IntegrityViolation, UnknownState, ReachTerminal, StepCap, Stop,
                    Die, Return, Continue
<1>2. CASE EnterState(p)
  BY <1>0, <1>2 DEF EnterState
<1>3. CASE ActorFails(p)
  BY <1>0, <1>3 DEF ActorFails
<1>4. ASSUME NEW n \in 0..MaxArtifacts, ActorWorks(p, n)
      PROVE  Origin(p)'
  BY <1>0, <1>4 DEF ActorWorks, DeciderRole
<1>5. CASE BeginAttempt(p)
  BY <1>0, <1>5 DEF BeginAttempt
<1>6. CASE RunChecks(p)
  BY <1>0, <1>6 DEF RunChecks
<1>7. CASE Judge(p)
  <2>1. PICK v \in Verdicts(state[p]) :
          decision'[p] = Advance(state[p], AttemptCount(Snapshot(p), state[p]),
                                 TransitionsUsed(Snapshot(p)), v)
    BY <1>0, <1>7 DEF Judge
  <2>2. decision'[p].kind \in Kinds
    BY <2>1, AdvanceType
  <2>3. /\ pc[p] = "judge" /\ state'[p] = state[p] /\ seq'[p] = seq[p]
        /\ pc'[p] = "append"
    BY <1>0, <1>7 DEF Judge, AttemptSeq
  <2>4. ASSUME Current(p)'
        PROVE  DecidedOn(p, journal)'
    <3>1. seq[p] = Len(journal) /\ Verified(journal)
      BY <2>3, <2>4
    <3>2. Snapshot(p) = journal
      BY <1>0, <3>1, SnapshotOfAll
    <3>3. state[p] = CurrentState(journal)
      BY <2>3, <3>1
    <3>4. QED
      BY <2>1, <2>3, <3>2, <3>3 DEF DecidedOn
  <2>5. QED
    BY <2>2, <2>3, <2>4
<1>8. ASSUME NEW to \in ResumeTargets, Resume(p, to)
      PROVE  Origin(p)'
  BY <1>8 DEF Resume, DeciderRole
<1>9. CASE RecordSkill(p)
  BY <1>9 DEF RecordSkill, DeciderRole
<1>10. CASE AppendRead(p)
  BY <1>0, <1>10 DEF AppendRead, DecidedOn
<1>11. CASE AppendWrite(p)
  BY <1>0, <1>11, WriteEffect
<1>12. QED
  BY <1>1, <1>2, <1>3, <1>4, <1>5, <1>6, <1>7, <1>8, <1>9, <1>10, <1>11 DEF Step

(* Its own write, before the last one: an artifact of the judged state      *)
(* leaves the state, the attempts and the transitions as they are.          *)
LEMMA OriginWrite ==
  ASSUME TypeOK, NEW p \in Deciders, DeciderRole(p), Origin(p), AppendWrite(p)
  PROVE  Origin(p)'
<1> DEFINE b == Chained(NextBlock(p), tip[p])
<1>1. /\ p \in Calls /\ left[p] \in Nat /\ Len(journal) \in Nat \ {0}
      /\ journal \in Seq(StoredBlocks) /\ seq[p] \in Nat
  BY Disjoint, JournalReads DEF TypeOK
<1>2. /\ pc[p] = "write" /\ pc'[p] = AfterWrite(p) /\ seq'[p] = seq[p] + 1
      /\ decision'[p] = decision[p] /\ state'[p] = state[p]
      /\ journal' = Append(journal, b)
  BY <1>1 DEF TypeOK, AppendWrite, Goto
<1>3. pc'[p] \in {"append", "attempt", "reload"} /\ (pc'[p] = "append" => left[p] > 0)
  BY <1>1, <1>2 DEF AfterWrite
<1>4. ASSUME left[p] > 0, Current(p)', Current(p) => DecidedOn(p, journal)
      PROVE  DecidedOn(p, journal)'
  <2>1. b.to = state[p] /\ b.type = "artifact_produced"
    BY <1>4 DEF NextBlock, Block, Chained
  <2> HIDE DEF b
  <2>2. DecidedOn(p, journal)
    BY <1>1, <1>2, <1>4, WriteEffect DEF Current
  <2>3. CurrentState(journal') = state[p]
    BY <1>1, <1>2, <2>1 DEF CurrentState
  <2>4. AttemptCount(journal', state[p]) = AttemptCount(journal, state[p])
    BY <1>1, <1>2, <2>1, AttemptsStay DEF EntryTypes
  <2>5. TransitionsUsed(journal') = TransitionsUsed(journal)
    BY <1>1, <1>2, <2>1, UsedAppend
  <2>6. QED
    BY <1>2, <2>2, <2>3, <2>4, <2>5 DEF DecidedOn
<1>5. QED
  BY <1>2, <1>3, <1>4 DEF Origin, Writing

(* The step of a call that decides nothing.                                 *)
LEMMA GivenStep ==
  ASSUME TypeOK, NEW p \in Calls \ Deciders, WriterRole(p), Given(p), Step(p) \/ Die(p)
  PROVE  Given(p)'
<1> USE DEF TypeOK, WriterRole, Given, Writing, Goto, locals, Stopped
<1>1. CASE IntegrityViolation(p) \/ Die(p)
  BY <1>1 DEF IntegrityViolation, Die
<1>2. ASSUME NEW to \in ResumeTargets, Resume(p, to)
      PROVE  Given(p)'
  BY <1>2 DEF Resume
<1>3. CASE RecordSkill(p)
  BY <1>3 DEF RecordSkill
<1>4. CASE AppendRead(p)
  BY <1>4 DEF AppendRead
<1>5. CASE AppendWrite(p)
  BY <1>5 DEF AppendWrite, AfterWrite
<1>6. QED
  BY <1>1, <1>2, <1>3, <1>4, <1>5
  DEF Step, UnknownState, ReachTerminal, StepCap, EnterState, ActorFails, ActorWorks,
      BeginAttempt, RunChecks, Judge, Continue, Stop

(* Another call's write leaves a decision behind.                           *)
LEMMA OriginsStep ==
  TypeOK /\ Roles /\ Ownership /\ Origins /\ [Next]_vars => Origins'
<1> SUFFICES ASSUME TypeOK, Roles, Ownership, Origins, [Next]_vars PROVE Origins'
  OBVIOUS
<1>1. CASE UNCHANGED vars
  BY <1>1 DEF vars, Origins, Origin, Given, Current, DecidedOn
<1>2. ASSUME NEW p \in Calls, Step(p) \/ Die(p)
      PROVE  Origins'
  <2>1. ASSUME NEW q \in Deciders
        PROVE  Origin(q)'
    <3>1. /\ Origin(q) /\ DeciderRole(q) /\ NotAhead(q)
          /\ q \in Calls /\ Len(journal) \in Nat /\ seq[q] \in Nat
      BY Disjoint, JournalReads DEF Origins, Roles, Ownership, TypeOK
    <3>2. CASE p = q /\ AppendWrite(p)
      BY <3>1, <3>2, OriginWrite
    <3>3. CASE p = q /\ journal' = journal
      BY <1>2, <3>1, <3>3, OriginStay
    <3>4. CASE p # q
      <4>1. /\ pc'[q] = pc[q] /\ seq'[q] = seq[q] /\ state'[q] = state[q]
            /\ decision'[q] = decision[q]
        BY <1>2, <3>1, <3>4, OthersStay
      <4>2. CASE journal' = journal
        BY <3>1, <4>1, <4>2 DEF Origin, Current, DecidedOn
      <4>3. CASE AppendWrite(p)
        <5>1. Len(journal') = Len(journal) + 1
          BY <4>3, WriteEffect
        <5>2. pc[q] \in {"checks", "judge"} \cup Writing => ~Current(q)'
          BY <3>1, <4>1, <5>1 DEF NotAhead, Current
        <5>3. QED
          BY <3>1, <4>1, <5>2 DEF Origin, Writing
      <4>4. QED
        BY <1>2, <4>2, <4>3, FileSteps
    <3>5. QED
      BY <1>2, <3>2, <3>3, <3>4, FileSteps
  <2>2. ASSUME NEW q \in Calls \ Deciders
        PROVE  Given(q)'
    <3>1. Given(q) /\ WriterRole(q)
      BY DEF Origins, Roles
    <3>2. CASE q = p
      BY <1>2, <3>1, <3>2, GivenStep
    <3>3. CASE q # p
      BY <1>2, <3>1, <3>3, OthersStay DEF Given
    <3>4. QED
      BY <3>2, <3>3
  <2>3. QED
    BY <2>1, <2>2 DEF Origins
<1>3. QED
  BY <1>1, <1>2 DEF Next


-----------------------------------------------------------------------------
(* The refinement.                                                          *)

(* What a write that load_journal accepts appends to the log.               *)
LEMMA LogGrows ==
  ASSUME TypeOK, NEW p \in Calls, AppendWrite(p), Verified(journal')
  PROVE  /\ Verified(journal) /\ seq[p] = Len(journal)
         /\ VerifiedPrefix(journal) = journal /\ VerifiedPrefix(journal') = journal'
         /\ \A type, from, to :
              /\ NextBlock(p) = Block(seq[p], type, from, to)
              => Serial!Add(type, from, to)
<1> DEFINE b == Chained(NextBlock(p), tip[p])
<1>1. journal \in Seq(StoredBlocks) /\ journal' = Append(journal, b) /\ b \in StoredBlocks
  BY NextBlockType DEF TypeOK, AppendWrite
<1>2. journal' \in Seq(StoredBlocks)
  BY <1>1, JournalGrows
<1>3. Verified(journal) /\ seq[p] = Len(journal)
  BY WriteEffect
<1>4. VerifiedPrefix(journal) = journal /\ VerifiedPrefix(journal') = journal'
  BY <1>1, <1>2, <1>3, PrefixWhole
<1>5. tip[p] = Len(journal)
  <2>1. /\ Len(journal) \in Nat /\ Len(journal') = Len(journal) + 1
        /\ journal'[Len(journal) + 1] = b
    BY <1>1
  <2>2. b.prev = Len(journal)
    BY <2>1 DEF Verified, Linked
  <2>3. QED
    BY <2>2 DEF Chained
<1>6. ASSUME NEW type, NEW from, NEW to, NextBlock(p) = Block(seq[p], type, from, to)
      PROVE  Serial!Add(type, from, to)
  <2>1. b = Serial!Chained(Serial!Block(Len(journal), type, from, to), Len(journal))
    BY <1>3, <1>5, <1>6 DEF Chained, Block, Serial!Chained, Serial!Block
  <2>2. QED
    BY <1>1, <1>4, <2>1 DEF Serial!Add
<1>7. QED
  BY <1>3, <1>4, <1>6

(* Each write that load_journal accepts is one of Lifecycle's.              *)
LEMMA WriteRefines ==
  ASSUME TypeOK, Roles, Origins, NEW p \in Calls, AppendWrite(p), Verified(journal')
  PROVE  Serial!Next
<1>1. /\ pc[p] = "write" /\ left[p] \in Nat
      /\ Verified(journal) /\ seq[p] = Len(journal)
      /\ VerifiedPrefix(journal) = journal
  BY LogGrows DEF AppendWrite, TypeOK
<1>2. CASE left[p] > 0
  <2>1. p \in Deciders
    BY <1>2 DEF Roles, WriterRole
  <2>2. state[p] \in NonTerminal
    BY <1>1, <2>1 DEF Origins, Origin, Writing
  <2>3. NextBlock(p) = Block(seq[p], "artifact_produced", state[p], state[p])
    BY <1>2 DEF NextBlock
  <2>4. Serial!Produce(state[p])
    BY <2>3, LogGrows DEF Serial!Produce
  <2>5. QED
    BY <2>2, <2>4, SameReading DEF Serial!Next
<1>3. CASE left[p] = 0
  <2>1. NextBlock(p) =
          Block(seq[p], TypeOfKind(decision[p].kind), state[p], decision[p].to)
    BY <1>3 DEF NextBlock
  <2>2. CASE p \in Deciders
    <3>1. decision[p] # NoDecision /\ state[p] \in NonTerminal
      BY <1>1, <1>3, <2>2 DEF Roles, DeciderRole, Origins, Origin, Writing
    <3>2. CASE decision[p] = Transition(Blocked, "actor")
      <4>1. NextBlock(p) = Block(seq[p], "transition", state[p], Serial!Blocked)
        BY <2>1, <3>2 DEF TypeOfKind, Transition, Blocked, Serial!Blocked
      <4>2. Serial!ActorBlocks(state[p])
        BY <4>1, LogGrows DEF Serial!ActorBlocks
      <4>3. QED
        BY <3>1, <4>2, SameReading DEF Serial!Next
    <3>3. CASE decision[p].kind \in Kinds /\ (Current(p) => DecidedOn(p, journal))
      <4>1. DecidedOn(p, journal)
        BY <1>1, <3>3 DEF Current
      <4>2. PICK v \in Verdicts(state[p]) :
              decision[p] = Advance(state[p], AttemptCount(journal, state[p]),
                                    TransitionsUsed(journal), v)
        BY <4>1 DEF DecidedOn
      <4>3. state[p] = CurrentState(journal)
        BY <4>1 DEF DecidedOn
      <4>4. NextBlock(p) = Block(seq[p], "transition", state[p], decision[p].to)
        BY <2>1, <3>3 DEF TypeOfKind, Kinds
      <4>5. Serial!Add("transition", state[p], decision[p].to)
        BY <4>4, LogGrows
      <4>6. Serial!Decide
        BY <1>1, <3>1, <4>2, <4>3, <4>5, SameReading, SameDecision DEF Serial!Decide
      <4>7. QED
        BY <4>6 DEF Serial!Next
    <3>4. QED
      BY <1>1, <2>2, <3>1, <3>2, <3>3 DEF Origins, Origin, Writing
  <2>3. CASE p \notin Deciders
    <3>1. Given(p)
      BY <2>3 DEF Origins
    <3>2. ASSUME state[p] = Blocked, NEW to \in ResumeTargets,
                 decision[p] = Transition(to, "resumed")
          PROVE  Serial!Next
      <4>1. NextBlock(p) = Block(seq[p], "session_resumed", Serial!Blocked, to)
        BY <2>1, <3>2 DEF TypeOfKind, Transition, Blocked, Serial!Blocked
      <4>2. Serial!Resume(to)
        BY <4>1, LogGrows DEF Serial!Resume
      <4>3. QED
        BY <4>2 DEF Serial!Next
    <3>3. CASE state[p] = None /\ decision[p] = Transition(None, "skill")
      <4>0. /\ decision[p].to = None /\ decision[p].kind = "skill"
            /\ TypeOfKind("skill") = "skill_invoked"
        BY <3>3 DEF TypeOfKind, Transition
      <4>1. NextBlock(p) = Block(seq[p], "skill_invoked", Serial!None, Serial!None)
        BY <2>1, <3>3, <4>0 DEF None, Serial!None
      <4>2. Serial!UseSkill
        BY <4>1, LogGrows DEF Serial!UseSkill
      <4>3. QED
        BY <4>2 DEF Serial!Next
    <3>4. QED
      BY <1>1, <3>1, <3>2, <3>3 DEF Given, Writing
  <2>4. QED
    BY <2>2, <2>3
<1>4. QED
  BY <1>1, <1>2, <1>3

(* The journal new_session writes is Lifecycle's first log.                 *)
LEMMA InitRefines ==
  Init => Serial!Init
<1> SUFFICES ASSUME Init PROVE VerifiedPrefix(journal) = Serial!Opened(Initial)
  BY DEF Serial!Init
<1>1. TypeOK /\ Verified(journal)
  BY SerialInit DEF SerialInv
<1>2. VerifiedPrefix(journal) = journal
  BY <1>1, PrefixWhole DEF TypeOK
<1>3. QED
  BY <1>2 DEF Init, Opened, Serial!Opened, Chained, Block, Serial!Chained, Serial!Block

(* session.py, runner.py, session_loop.py: whatever calls there are, and    *)
(* however they interleave and die, the part of the file that load_journal  *)
(* accepts grows as Lifecycle says: a decision of advance that another      *)
(* append has overtaken never becomes part of a journal that verifies.      *)
THEOREM JournalImplementsLifecycle == Spec => RefinesLifecycle
<1> DEFINE Inv == TypeOK /\ Roles /\ Ownership /\ Origins
<1>1. Init => Inv /\ Serial!Init
  BY TypeInit, RolesInit, OwnershipInit, OriginsInit, InitRefines
<1>2. Inv /\ [Next]_vars => Inv'
  BY TypeStep, RolesStep, OwnershipStep, OriginsStep
<1>3. Inv /\ [Next]_vars => [Serial!Next]_(VerifiedPrefix(journal))
  <2> SUFFICES ASSUME Inv, [Next]_vars, VerifiedPrefix(journal') # VerifiedPrefix(journal)
               PROVE  Serial!Next
    OBVIOUS
  <2>1. PICK p \in Calls : Step(p) \/ Die(p)
    BY DEF vars, Next
  <2>2. AppendWrite(p)
    BY <2>1, FileSteps
  <2>3. Verified(journal')
    <3>1. journal \in Seq(StoredBlocks) /\ Chained(NextBlock(p), tip[p]) \in StoredBlocks
      BY NextBlockType DEF TypeOK
    <3>2. journal' = Append(journal, Chained(NextBlock(p), tip[p]))
      BY <2>2 DEF AppendWrite
    <3>3. QED
      BY <3>1, <3>2, PrefixStays
  <2>4. QED
    BY <2>2, <2>3, WriteRefines
<1>4. QED
  BY <1>1, <1>2, <1>3, PTL DEF Spec, RefinesLifecycle, Serial!Spec

-----------------------------------------------------------------------------
(* Every call gets to its end.                                              *)

(* Iterations are entered one at a time, and below the cap.                 *)
LEMMA StepsCounted ==
  ASSUME TypeOK, NEW p \in Calls, Step(p) \/ Die(p)
  PROVE  \/ steps' = steps
         \/ /\ EnterState(p) /\ pc[p] = "loop" /\ steps[p] < MaxSteps
            /\ steps' = [steps EXCEPT ![p] = @ + 1]
BY DEF TypeOK, Step, Die, IntegrityViolation, UnknownState, ReachTerminal, StepCap,
       EnterState, ActorFails, ActorWorks, BeginAttempt, RunChecks, Judge, Resume,
       RecordSkill, AppendRead, AppendWrite, Continue, Stop, locals

(* runner.py:310, engine.py:121: the actor and the evaluator are asked      *)
(* before the budget is looked at, but for every workflow with a budget, and *)
(* whatever other calls write meanwhile, run_session enters at most one     *)
(* iteration more than the budget pays for.                                 *)
THEOREM AtMostOneUnpaid == Spec => []OneIterationPastBudget
<1> DEFINE Inv == TypeOK /\ Roles /\ Ownership /\ PaidAll
<1>1. Init => Inv /\ OneIterationPastBudget
  <2>1. Init => \A p \in RunCalls : steps[p] = 0
    BY DEF Init, Calls
  <2>2. QED
    BY <2>1, TypeInit, RolesInit, OwnershipInit, PaidInit DEF OneIterationPastBudget
<1>2. Inv /\ [Next]_vars => Inv'
  BY TypeStep, RolesStep, OwnershipStep, PaidStep
<1>3. Inv /\ OneIterationPastBudget /\ [Next]_vars => OneIterationPastBudget'
  <2> SUFFICES ASSUME Inv, OneIterationPastBudget, [Next]_vars, MaxTransitions \in Nat,
                      NEW q \in RunCalls
               PROVE  steps'[q] <= MaxTransitions + 1
    BY DEF OneIterationPastBudget
  <2>1. /\ q \in Calls /\ steps \in [Calls -> Nat] /\ Paid(q)
        /\ steps[q] <= MaxTransitions + 1
    BY DEF Calls, Deciders, TypeOK, PaidAll, OneIterationPastBudget
  <2>2. CASE UNCHANGED vars
    BY <2>1, <2>2 DEF vars
  <2>3. ASSUME NEW p \in Calls, Step(p) \/ Die(p)
        PROVE  steps'[q] <= MaxTransitions + 1
    <3>1. CASE steps' = steps
      BY <2>1, <3>1
    <3>2. CASE pc[p] = "loop" /\ steps' = [steps EXCEPT ![p] = @ + 1]
      BY <2>1, <3>2 DEF Paid
    <3>3. QED
      BY <2>3, <3>1, <3>2, StepsCounted
  <2>4. QED
    BY <2>2, <2>3 DEF Next
<1>4. QED
  BY <1>1, <1>2, <1>3, PTL DEF Spec

-----------------------------------------------------------------------------
(* Why every call ends.                                                     *)

(* The cap bounds the iterations entered, those of the run in flight too.   *)
Capped == \A p \in Calls : steps[p] <= MaxSteps

(* No iteration has been entered.                                           *)
LEMMA CappedInit ==
  Init => Capped
<1>1. MaxSteps \in Nat
  BY CallsAssumption
<1>2. QED
  BY <1>1 DEF Init, Capped

(* An iteration is entered only below the cap.                              *)
LEMMA CappedStep ==
  TypeOK /\ Capped /\ [Next]_vars => Capped'
<1> SUFFICES ASSUME TypeOK, Capped, [Next]_vars, NEW q \in Calls
             PROVE  steps'[q] <= MaxSteps
  BY DEF Capped
<1>1. MaxSteps \in Nat /\ steps \in [Calls -> Nat] /\ steps[q] <= MaxSteps
  BY CallsAssumption DEF TypeOK, Capped
<1>2. CASE UNCHANGED vars
  BY <1>1, <1>2 DEF vars
<1>3. ASSUME NEW p \in Calls, Step(p) \/ Die(p)
      PROVE  steps'[q] <= MaxSteps
  <2>1. CASE steps' = steps
    BY <1>1, <2>1
  <2>2. CASE steps[p] < MaxSteps /\ steps' = [steps EXCEPT ![p] = @ + 1]
    BY <1>1, <2>2
  <2>3. QED
    BY <1>3, <2>1, <2>2, StepsCounted
<1>4. QED
  BY <1>2, <1>3 DEF Next

(* What a call still has before it is four numbers.                         *)
LEMMA RemainingType ==
  ASSUME TypeOK, Capped, NEW p \in Calls
  PROVE  Remaining(p) \in [1..4 -> Nat]
<1>1. MaxSteps \in Nat /\ steps[p] \in Nat /\ steps[p] <= MaxSteps /\ left[p] \in Nat
  BY CallsAssumption DEF TypeOK, Capped
<1>2. MaxSteps - steps[p] \in Nat
  BY <1>1
<1>3. Stage(p) \in Nat
  BY DEF TypeOK, Labels, LoadPoints, Stopped, Stage
<1>4. QED
  BY <1>1, <1>2, <1>3 DEF Remaining

(* Less at one place, and equal before it, is less.                         *)
LEMMA BelowAt ==
  ASSUME NEW r, NEW s,
         \/ r[1] < s[1]
         \/ r[1] = s[1] /\ r[2] < s[2]
         \/ r[1] = s[1] /\ r[2] = s[2] /\ r[3] < s[3]
         \/ r[1] = s[1] /\ r[2] = s[2] /\ r[3] = s[3] /\ r[4] < s[4]
  PROVE  Below(r, s)
BY DEF Below

Countdown ==
  {rs \in [1..4 -> Nat] \X [1..4 -> Nat] : Below(rs[1], rs[2])}

(* What a call has before it cannot grow less for ever.                     *)
THEOREM CountdownEnds ==
  IsWellFoundedOn(Countdown, [1..4 -> Nat])
<1> DEFINE Lex == LexProductOrdering(OpToRel(<, Nat), Nat, 4)
           S == [1..4 -> Nat]
<1>1. IsWellFoundedOn(Lex, S)
  BY NatLessThanWellFounded, WFLexProductOrdering, Zenon
<1>2. ASSUME NEW rs \in Countdown
      PROVE  rs \in Lex
  <2>1. rs \in S \X S /\ rs[1] \in S /\ rs[2] \in S
    BY DEF Countdown
  <2>2. PICK i \in 1..4 :
          rs[1][i] < rs[2][i] /\ \A k \in 1..i - 1 : rs[1][k] = rs[2][k]
    BY DEF Countdown, Below
  <2> DEFINE pair == <<rs[1][i], rs[2][i]>>
  <2>3. pair \in Nat \X Nat /\ pair[1] < pair[2]
    BY <2>1, <2>2
  <2> HIDE DEF pair
  <2>4. pair \in OpToRel(<, Nat)
    BY <2>3, Zenon DEF OpToRel
  <2>5. <<rs[1][i], rs[2][i]>> \in OpToRel(<, Nat)
    BY <2>4, Zenon DEF pair
  <2>6. QED
    BY <2>1, <2>2, <2>5, Zenon DEF LexProductOrdering
<1> HIDE DEF Lex, S
<1>3. Countdown \cap (S \X S) \subseteq Lex
  BY <1>2
<1>4. IsWellFoundedOn(Countdown, S)
  BY <1>1, <1>3, IsWellFoundedOnSubrelation, Zenon
<1>5. QED
  BY <1>4 DEF S

(* A step of a call brings it nearer to its end.                            *)
LEMMA StepCountsDown ==
  ASSUME TypeOK, TypeOK', Roles, Roles', Capped, NEW p \in Calls, Step(p) \/ Die(p)
  PROVE  Below(Remaining(p)', Remaining(p))
<1> USE DEF TypeOK, Goto, locals, Stopped
<1>0. MaxSteps \in Nat /\ steps[p] \in Nat /\ left[p] \in Nat
  BY CallsAssumption
<1>1. CASE EnterState(p)
  <2>1. steps'[p] = steps[p] + 1
    BY <1>1 DEF EnterState
  <2>2. Remaining(p)'[1] < Remaining(p)[1]
    BY <1>0, <2>1 DEF Remaining
  <2>3. QED
    BY <2>2, BelowAt
<1>2. ASSUME steps' = steps, Stage(p)' < Stage(p)
      PROVE  Below(Remaining(p)', Remaining(p))
  <2>1. Remaining(p)'[1] = Remaining(p)[1] /\ Remaining(p)'[2] < Remaining(p)[2]
    BY <1>2 DEF Remaining
  <2>2. QED
    BY <2>1, BelowAt
<1>3. CASE \/ IntegrityViolation(p) \/ UnknownState(p) \/ ReachTerminal(p)
           \/ StepCap(p) \/ Stop(p) \/ Die(p)
  <2>1. pc'[p] \in Stopped /\ steps' = steps
    BY <1>3 DEF IntegrityViolation, UnknownState, ReachTerminal, StepCap, Stop, Die,
                Return
  <2>2. pc[p] \notin Stopped
    BY <1>3 DEF IntegrityViolation, UnknownState, ReachTerminal, StepCap, Stop, Die,
                InFlight, LoadPoints
  <2>3. Stage(p)' = 0 /\ Stage(p) > 0
    BY <2>1, <2>2 DEF Stage, Labels, LoadPoints
  <2>4. QED
    BY <1>2, <2>1, <2>3
<1>4. CASE Continue(p)
  BY <1>2, <1>4 DEF Continue, Stage
<1>5. CASE ActorFails(p)
  <2>1. /\ pc[p] = "actor" /\ pc'[p] = "append" /\ steps' = steps
        /\ decision'[p] # NoDecision
    BY <1>5 DEF ActorFails, NoDecision, Transition
  <2>2. QED
    BY <1>2, <2>1 DEF Stage
<1>6. ASSUME NEW n \in 0..MaxArtifacts, ActorWorks(p, n)
      PROVE  Below(Remaining(p)', Remaining(p))
  <2>1. /\ pc[p] = "actor" /\ pc'[p] \in {"attempt", "append"} /\ steps' = steps
        /\ decision' = decision
    BY <1>6 DEF ActorWorks
  <2>2. decision[p] = NoDecision
    BY <2>1 DEF Roles, DeciderRole, WriterRole, Writing
  <2>3. QED
    BY <1>2, <2>1, <2>2 DEF Stage
<1>7. CASE BeginAttempt(p)
  BY <1>2, <1>7 DEF BeginAttempt, Stage
<1>8. CASE RunChecks(p)
  BY <1>2, <1>8 DEF RunChecks, Stage
<1>9. CASE Judge(p)
  <2>1. pc[p] = "judge" /\ pc'[p] = "append" /\ steps' = steps
    BY <1>9 DEF Judge
  <2>2. PICK v : decision'[p] = Advance(state[p], AttemptCount(Snapshot(p), state[p]),
                                        TransitionsUsed(Snapshot(p)), v)
    BY <1>9 DEF Judge
  <2>3. decision'[p].kind \in Kinds
    BY <2>2, AdvanceType
  <2>4. decision'[p] # NoDecision
    BY <2>3 DEF NoDecision, Transition, Kinds
  <2>5. QED
    BY <1>2, <2>1, <2>4 DEF Stage
<1>10. ASSUME NEW to \in ResumeTargets, Resume(p, to)
       PROVE  Below(Remaining(p)', Remaining(p))
  <2>1. /\ pc[p] = "resume" /\ pc'[p] = "append" /\ steps' = steps
        /\ decision'[p] # NoDecision
    BY <1>10 DEF Resume, NoDecision, Transition
  <2>2. QED
    BY <1>2, <2>1 DEF Stage
<1>11. CASE RecordSkill(p)
  <2>1. /\ pc[p] = "skill" /\ pc'[p] = "append" /\ steps' = steps
        /\ decision'[p] # NoDecision
    BY <1>11 DEF RecordSkill, NoDecision, Transition
  <2>2. QED
    BY <1>2, <2>1 DEF Stage
<1>12. CASE AppendRead(p)
  <2>1. /\ pc[p] = "append" /\ pc'[p] = "write" /\ steps' = steps
        /\ left' = left /\ decision' = decision
    BY <1>12 DEF AppendRead
  <2>2. Stage(p)' = Stage(p)
    BY <2>1 DEF Stage
  <2>3. /\ Remaining(p)'[1] = Remaining(p)[1] /\ Remaining(p)'[2] = Remaining(p)[2]
        /\ Remaining(p)'[3] = Remaining(p)[3] /\ Remaining(p)'[4] < Remaining(p)[4]
    BY <2>1, <2>2 DEF Remaining
  <2>4. QED
    BY <2>3, BelowAt
<1>13. CASE AppendWrite(p)
  <2>1. /\ pc[p] = "write" /\ pc'[p] = AfterWrite(p) /\ steps' = steps
        /\ decision' = decision
        /\ left'[p] = IF left[p] > 0 THEN left[p] - 1 ELSE 0
    BY <1>13 DEF AppendWrite
  <2>2. CASE pc'[p] = "append"
    <3>1. left[p] > 0
      BY <1>0, <2>1, <2>2 DEF AfterWrite
    <3>2. Stage(p)' = Stage(p)
      BY <2>1, <2>2 DEF Stage
    <3>3. /\ Remaining(p)'[1] = Remaining(p)[1] /\ Remaining(p)'[2] = Remaining(p)[2]
          /\ Remaining(p)'[3] < Remaining(p)[3]
      BY <1>0, <2>1, <3>1, <3>2 DEF Remaining
    <3>4. QED
      BY <3>3, BelowAt
  <2>3. CASE pc'[p] = "attempt"
    <3>1. decision[p] = NoDecision
      BY <1>0, <2>1, <2>3 DEF AfterWrite
    <3>2. QED
      BY <1>2, <2>1, <2>3, <3>1 DEF Stage
  <2>4. CASE pc'[p] = "reload"
    <3>1. p \in Deciders /\ left[p] = 0
      BY <1>0, <2>1, <2>4 DEF AfterWrite
    <3>2. decision[p] # NoDecision
      BY <1>0, <2>1, <3>1 DEF Roles, DeciderRole, Writing
    <3>3. QED
      BY <1>2, <2>1, <2>4, <3>2 DEF Stage
  <2>5. CASE pc'[p] = "returned"
    BY <1>2, <2>1, <2>5 DEF Stage
  <2>6. QED
    BY <2>1, <2>2, <2>3, <2>4, <2>5 DEF AfterWrite
<1>14. QED
  BY <1>1, <1>3, <1>4, <1>5, <1>6, <1>7, <1>8, <1>9, <1>10, <1>11, <1>12, <1>13
  DEF Step

(* run_session's loop, its retries, the artifacts of an answer and the two  *)
(* file accesses of append_block, for every cap, workflow and set of calls: *)
(* every step brings one call nearer to its end and none further from it.   *)
THEOREM EveryStepCountsDown == Spec => StepsCountDown
<1> DEFINE Inv == TypeOK /\ Roles /\ Capped
<1>1. Init => Inv
  BY TypeInit, RolesInit, CappedInit
<1>2. Inv /\ [Next]_vars => Inv'
  BY TypeStep, RolesStep, CappedStep
<1>3. Inv /\ Inv' /\ [Next]_vars =>
        [\E p \in Calls :
           /\ Below(Remaining(p)', Remaining(p))
           /\ \A q \in Calls \ {p} : Remaining(q)' = Remaining(q)]_vars
  <2> SUFFICES ASSUME Inv, Inv', NEW p \in Calls, Step(p) \/ Die(p)
               PROVE  /\ Below(Remaining(p)', Remaining(p))
                      /\ \A q \in Calls \ {p} : Remaining(q)' = Remaining(q)
    BY DEF Next
  <2>1. Below(Remaining(p)', Remaining(p))
    BY StepCountsDown
  <2>2. ASSUME NEW q \in Calls \ {p}
        PROVE  Remaining(q)' = Remaining(q)
    BY OthersStay DEF Remaining, Stage
  <2>3. QED
    BY <2>1, <2>2
<1>4. QED
  BY <1>1, <1>2, <1>3, PTL DEF Spec, StepsCountDown

-----------------------------------------------------------------------------
(* What a reader finds in the part of the file that load_journal accepts.   *)

(* A transition in it was decided on the blocks before it, or is that of an *)
(* actor that failed.                                                       *)
DecidedAfter(b, j) ==
  \/ b.to = Blocked
  \/ /\ b.from \in NonTerminal
     /\ \E v : b.to = Advance(b.from, AttemptCount(j, b.from), TransitionsUsed(j), v).to

WellDecided == \A i \in Moves : DecidedAfter(Accepted[i], Before(i))

(* So is the one a call writes, if the file still verifies with it.         *)
LEMMA WriteDecided ==
  ASSUME TypeOK, Roles, Origins, NEW p \in Calls, AppendWrite(p), Verified(journal'),
         NextBlock(p).type = "transition"
  PROVE  DecidedAfter(NextBlock(p), journal)
<1>1. /\ p \in Deciders /\ decision[p] # NoDecision
  BY TransitionWriter
<1>2. pc[p] = "write" /\ left[p] \in Nat
  BY DEF AppendWrite, TypeOK
<1>3. left[p] = 0
  BY <1>2 DEF NextBlock, Block
<1>4. NextBlock(p).from = state[p] /\ NextBlock(p).to = decision[p].to
  BY <1>3 DEF NextBlock, Block
<1>5. /\ state[p] \in NonTerminal
      /\ \/ decision[p] = Transition(Blocked, "actor")
         \/ decision[p].kind \in Kinds /\ (Current(p) => DecidedOn(p, journal))
  BY <1>1, <1>2 DEF Origins, Origin, Writing
<1>6. Current(p)
  BY WriteEffect DEF Current
<1>7. CASE decision[p] = Transition(Blocked, "actor")
  BY <1>4, <1>7 DEF DecidedAfter, Transition
<1>8. CASE DecidedOn(p, journal)
  BY <1>4, <1>5, <1>8 DEF DecidedAfter, DecidedOn
<1>9. QED
  BY <1>5, <1>6, <1>7, <1>8

(* The accepted part stays, or it is the file, to which one block was added. *)
LEMMA AcceptedGrows ==
  ASSUME TypeOK, Roles, Origins, [Next]_vars, Accepted' # Accepted
  PROVE  \E p \in Calls :
           /\ AppendWrite(p) /\ Verified(journal')
           /\ Accepted = journal /\ Accepted' = journal'
<1>1. VerifiedPrefix(journal') # VerifiedPrefix(journal)
  BY DEF Accepted
<1>2. PICK p \in Calls : Step(p) \/ Die(p)
  BY <1>1 DEF vars, Next
<1>3. AppendWrite(p)
  BY <1>1, <1>2, FileSteps
<1>4. Verified(journal')
  <2>1. journal \in Seq(StoredBlocks) /\ Chained(NextBlock(p), tip[p]) \in StoredBlocks
    BY NextBlockType DEF TypeOK
  <2>2. journal' = Append(journal, Chained(NextBlock(p), tip[p]))
    BY <1>3 DEF AppendWrite
  <2>3. QED
    BY <1>1, <2>1, <2>2, PrefixStays
<1>5. QED
  BY <1>3, <1>4, LogGrows DEF Accepted

(* new_session makes no decision.                                           *)
LEMMA WellDecidedInit ==
  Init => WellDecided
<1> SUFFICES ASSUME Init PROVE Moves = {}
  BY DEF WellDecided
<1>1. TypeOK /\ Verified(journal)
  BY SerialInit DEF SerialInv
<1>2. Accepted = journal
  BY <1>1, PrefixWhole DEF TypeOK, Accepted
<1>3. Len(journal) = 1 /\ journal[1].type = "session_opened"
  BY DEF Init, Opened, Chained, Block
<1>4. QED
  BY <1>2, <1>3 DEF Moves

(* What was accepted stays where it is, behind the same blocks.             *)
LEMMA WellDecidedStep ==
  TypeOK /\ Roles /\ Origins /\ WellDecided /\ [Next]_vars => WellDecided'
<1> SUFFICES ASSUME TypeOK, Roles, Origins, WellDecided, [Next]_vars,
                    NEW i \in Moves'
             PROVE  DecidedAfter(Accepted'[i], Before(i)')
  BY DEF WellDecided
<1>1. CASE Accepted' = Accepted
  BY <1>1 DEF WellDecided, Moves, Before
<1>2. CASE Accepted' # Accepted
  <2>1. PICK p \in Calls : /\ AppendWrite(p) /\ Verified(journal')
                           /\ Accepted = journal /\ Accepted' = journal'
    BY <1>2, AcceptedGrows
  <2> DEFINE b == Chained(NextBlock(p), tip[p])
             n == Len(journal)
  <2>2. /\ journal' = Append(journal, b)
        /\ journal \in Seq(StoredBlocks) /\ b \in StoredBlocks
    BY <2>1, NextBlockType DEF AppendWrite, TypeOK
  <2>3. /\ b.type = NextBlock(p).type /\ b.from = NextBlock(p).from
        /\ b.to = NextBlock(p).to
    BY DEF Chained
  <2> HIDE DEF b
  <2>4. /\ n \in Nat /\ Len(journal') = n + 1 /\ journal'[n + 1] = b
        /\ \A k \in 1..n : journal'[k] = journal[k]
        /\ \A k \in 1..n + 1 : SubSeq(journal', 1, k - 1) = SubSeq(journal, 1, k - 1)
        /\ SubSeq(journal, 1, n) = journal
    BY <2>2
  <2>5. i \in 1..n + 1 /\ journal'[i].type = "transition"
    BY <2>1, <2>4 DEF Moves
  <2>6. Before(i)' = SubSeq(journal', 1, i - 1)
    BY <2>1 DEF Before
  <2>7. CASE i \in 1..n
    <3>1. i \in Moves /\ Accepted'[i] = Accepted[i]
      BY <2>1, <2>4, <2>5, <2>7 DEF Moves
    <3>2. Before(i)' = Before(i)
      BY <2>1, <2>4, <2>5, <2>6 DEF Before
    <3>3. QED
      BY <3>1, <3>2 DEF WellDecided
  <2>8. CASE i = n + 1
    <3>1. Before(i)' = journal
      BY <2>4, <2>5, <2>6, <2>8
    <3>2. Accepted'[i] = b /\ NextBlock(p).type = "transition"
      BY <2>1, <2>3, <2>4, <2>5, <2>8
    <3>3. DecidedAfter(NextBlock(p), journal)
      BY <2>1, <3>2, WriteDecided
    <3>4. QED
      BY <2>3, <3>1, <3>2, <3>3 DEF DecidedAfter
  <2>9. QED
    BY <2>4, <2>5, <2>7, <2>8
<1>3. QED
  BY <1>1, <1>2

(* Whoever wrote them and however they overlapped, the transitions of a     *)
(* journal were decided one after the other.                                *)
LEMMA AlwaysWellDecided == Spec => []WellDecided
<1> DEFINE Inv == TypeOK /\ Roles /\ Ownership /\ Origins /\ WellDecided
<1>1. Init => Inv
  BY TypeInit, RolesInit, OwnershipInit, OriginsInit, WellDecidedInit
<1>2. Inv /\ [Next]_vars => Inv'
  BY TypeStep, RolesStep, OwnershipStep, OriginsStep, WellDecidedStep
<1>3. QED
  BY <1>1, <1>2, PTL DEF Spec

(* engine.py:121, whatever calls race: once the blocks before it spend the  *)
(* budget, a transition that load_journal accepts leads to blocked.         *)
THEOREM SpentMeansBlocked == Spec => []BudgetIsFinal
<1>1. WellDecided => BudgetIsFinal
  <2> SUFFICES ASSUME WellDecided, MaxTransitions \in Nat, NEW i \in Moves,
                      TransitionsUsed(Before(i)) >= MaxTransitions
               PROVE  Accepted[i].to = Blocked
    BY DEF BudgetIsFinal
  <2>1. BudgetSpent(TransitionsUsed(Before(i)))
    BY DEF BudgetSpent
  <2>2. QED
    BY <2>1, SpentBudgetBlocks DEF WellDecided, DecidedAfter, Transition
<1>2. QED
  BY <1>1, AlwaysWellDecided, PTL

(* engine.py: where advance sends a running state, other than to a state    *)
(* its definition names, is back to itself, with an attempt left.           *)
LEMMA OffTheMap ==
  ASSUME NEW s \in NonTerminal, NEW attempt, NEW used, NEW v,
         Advance(s, attempt, used, v).to \notin Declared(s)
  PROVE  Advance(s, attempt, used, v).to = s /\ attempt < StateDef[s].maxAttempts
<1>1. FiredRules(s, v) # {} =>
        StateDef[s].onFailure[FirstFired(s, v)].to \in Declared(s)
  BY FirstFiredIsFired DEF Declared, NonTerminal
<1>2. {Blocked, StateDef[s].next} \subseteq Declared(s)
  BY DEF Declared
<1>3. QED
  BY <1>1, <1>2 DEF Advance, Transition, NonTerminal, MayRetry

(* ADR 0003 D6, whatever calls race: a retry that load_journal accepts      *)
(* enters its state no more often than max_attempts allow, counting every   *)
(* entry before it, also those written while the attempt was judged.        *)
THEOREM RetriesStop == Spec => []RetriesAreBounded
<1>1. WellDecided => RetriesAreBounded
  <2> SUFFICES ASSUME WellDecided, NEW i \in Moves, NEW s, s = Accepted[i].from,
                      Accepted[i].to \notin Declared(s)
               PROVE  /\ Accepted[i].to = s
                      /\ AttemptCount(Before(i), s) < StateDef[s].maxAttempts
    BY DEF RetriesAreBounded
  <2>1. Accepted[i].to # Blocked
    BY DEF Declared
  <2>2. PICK v : /\ s \in NonTerminal
                 /\ Accepted[i].to = Advance(s, AttemptCount(Before(i), s),
                                             TransitionsUsed(Before(i)), v).to
    BY <2>1 DEF WellDecided, DecidedAfter
  <2>3. QED
    BY <2>2, OffTheMap
<1>2. QED
  BY <1>1, AlwaysWellDecided, PTL

=============================================================================
