--------------------------- MODULE WorkRecordProofs ---------------------------
(***************************************************************************)
(* WorkRecord for every workflow, any number of artifacts, and journals of  *)
(* any length: what is recorded is on disk, and a state is left only on a   *)
(* context that is recorded, and on work that was applied and then tested.  *)
(***************************************************************************)
EXTENDS WorkRecord, FiniteSetTheorems, TLAPS

Works == Seq([id : Artifacts, content : Contents])

\* Between WriteFile and RecordArtifact the first artifact is on disk.
Recording ==
  pc = "record" => work # <<>> /\ file[Head(work).id] # None

OnDisk ==
  \A i \in DOMAIN journal :
    journal[i].hash # None => journal[i].id \in Artifacts /\ file[journal[i].id] # None

IsApplied(i) ==
  Checks[state][i].type = "artifact_applied" /\ facts[i].outcome = "passed"

(* The checks of this attempt, the diffs they applied and the trees the     *)
(* later ones ran on.                                                       *)
Attempt ==
  /\ pc \in {"merge", "persist", "record"} => facts = <<>>
  /\ pc = "check" =>
       \A i \in DOMAIN facts :
         /\ facts[i].check = Checks[state][i]
         /\ IsApplied(i) =>
              /\ file[Checks[state][i].id] \in Range(tree)
              /\ \A k \in DOMAIN facts :
                   i < k => file[Checks[state][i].id] \in Range(facts[k].tree)

(* What the context checks of this attempt found holds of context.json.     *)
Collected ==
  pc = "check" =>
    /\ loaded \in Loadable
    /\ \A i \in DOMAIN facts :
         /\ facts[i].check.type = "context_fields_present"
         /\ facts[i].outcome = "passed"
         => Enough(facts[i].check)

IInv == TypeOK /\ Recording /\ OnDisk /\ Attempt /\ Collected

-----------------------------------------------------------------------------
(* Sequences, and the parts of an action.                                   *)

LEMMA RangeAppend ==
  ASSUME NEW S, NEW t \in Seq(S), NEW d
  PROVE  Range(Append(t, d)) = Range(t) \cup {d}
<1> DEFINE u == Append(t, d)
<1>1. /\ DOMAIN u = DOMAIN t \cup {Len(t) + 1} /\ u[Len(t) + 1] = d
      /\ \A i \in DOMAIN t : u[i] = t[i]
  OBVIOUS
<1>2. {u[i] : i \in DOMAIN u} = {t[i] : i \in DOMAIN t} \cup {d}
  BY <1>1
<1>3. QED
  BY <1>2 DEF Range

(* The first and the other elements of a sequence are of its type.          *)
LEMMA HeadAndTail ==
  ASSUME NEW S, NEW t \in Seq(S), t # <<>>
  PROVE  Head(t) \in S /\ Tail(t) \in Seq(S)
OBVIOUS

(* An actor's answer is a sequence of artifacts.                            *)
LEMMA AnswersType == Answers \subseteq Works
<1>1. Cardinality(Artifacts) \in Nat
  BY RecordAssumption, FS_CardinalityType
<1> DEFINE Item == [id : Artifacts, content : Contents]
<1>2. ASSUME NEW w \in Answers
      PROVE  w \in Seq(Item)
  <2>1. w \in UNION {[1..m -> Item] : m \in 0..Cardinality(Artifacts)}
    BY DEF Answers, BoundedSeq, SeqOf
  <2>2. PICK m \in 0..Cardinality(Artifacts) : w \in [1..m -> Item]
    BY <2>1
  <2>3. m \in Nat
    BY <1>1
  <2> HIDE DEF Item
  <2>4. QED
    BY <2>2, <2>3
<1>3. QED
  BY <1>2 DEF Works

(* The block of an artifact is a block.                                     *)
LEMMA ArtifactType ==
  ASSUME NEW id \in Artifacts \cup STRING, NEW hash \in Contents \cup {None},
         NEW to \in Targets
  PROVE  /\ Artifact(id, hash, to) \in Blocks
         /\ Artifact(id, hash, to).id = id /\ Artifact(id, hash, to).hash = hash
BY DEF Artifact, Blocks

(* A block that names a target state is a block, and of no file.            *)
LEMMA MoveType ==
  ASSUME NEW type \in {"session_opened", "transition", "session_resumed"},
         NEW to \in Targets, NEW e \in SUBSET Artifacts
  PROVE  Move(type, to, e) \in Blocks /\ Move(type, to, e).hash = None
BY DEF Move, Blocks

(* A block whose hash is of no file can be added to any journal; one whose  *)
(* hash is of a file needs that file.                                       *)
LEMMA OnDiskAppend ==
  ASSUME TypeOK, OnDisk, NEW b \in Blocks, journal' = Append(journal, b), file' = file,
         b.hash # None => b.id \in Artifacts /\ file[b.id] # None
  PROVE  journal' \in Seq(Blocks) /\ OnDisk'
BY DEF TypeOK, OnDisk

(* The next check is one of the state's.                                    *)
LEMMA NextCheckType ==
  ASSUME TypeOK, Len(facts) < Len(Checks[state])
  PROVE  NextCheck \in CheckDefs /\ NextCheck.id \in STRING
<1>1. Checks[state] \in Seq(CheckDefs)
  BY RecordAssumption DEF TypeOK
<1>2. Len(facts) + 1 \in 1..Len(Checks[state])
  BY <1>1 DEF TypeOK
<1>3. NextCheck \in CheckDefs
  BY <1>1, <1>2 DEF NextCheck
<1>4. QED
  BY <1>3 DEF CheckDefs

-----------------------------------------------------------------------------
(* One check: a finding is added, the tree grows by at most one diff, and   *)
(* nothing else that matters changes.                                       *)
LEMMA CheckStep ==
  ASSUME IInv, pc = "check", Len(facts) < Len(Checks[state]),
         NEW outcome \in {"passed", "failed", "none", "unresolved"}, Fact(outcome),
         tree' = tree \/ \E d \in Contents : tree' = Append(tree, d),
         outcome = "passed" /\ NextCheck.type = "artifact_applied" =>
           file[NextCheck.id] \in Range(tree'),
         outcome = "passed" /\ NextCheck.type = "context_fields_present" =>
           Enough(NextCheck),
         outputs' \in Seq(STRING),
         UNCHANGED alone
  PROVE  IInv'
<1> USE DEF alone
<1> DEFINE f == [check |-> NextCheck, outcome |-> outcome, tree |-> tree']
           n == Len(facts) + 1
<1>1. /\ facts \in Seq(Findings) /\ tree \in Seq(Contents) /\ state \in States
      /\ NextCheck \in CheckDefs
  BY NextCheckType DEF IInv, TypeOK
<1>2. tree' \in Seq(Contents) /\ Range(tree) \subseteq Range(tree')
  <2>1. CASE tree' = tree
    BY <1>1, <2>1
  <2>2. CASE \E d \in Contents : tree' = Append(tree, d)
    BY <1>1, <2>2, RangeAppend
  <2>3. QED
    BY <2>1, <2>2
<1>3. f \in Findings
  BY <1>1, <1>2 DEF Findings
<1>4. facts' = Append(facts, f)
  BY DEF Fact
<1>5. /\ facts' \in Seq(Findings) /\ Len(facts') = n /\ n \in Nat
      /\ DOMAIN facts' = DOMAIN facts \cup {n} /\ facts'[n] = f
      /\ \A i \in DOMAIN facts : i < n /\ facts'[i] = facts[i]
  BY <1>1, <1>3, <1>4
<1>6. n <= Len(Checks[state])
  <2>1. Checks[state] \in Seq(CheckDefs)
    BY <1>1, RecordAssumption
  <2>2. QED
    BY <1>1, <2>1
<1>7. TypeOK'
  BY <1>2, <1>5, <1>6 DEF IInv, TypeOK, Contexts
<1>8. Recording' /\ OnDisk'
  BY DEF IInv, Recording, OnDisk
<1>9. NextCheck = Checks[state][n]
  BY DEF NextCheck
<1>10. Attempt'
  <2> SUFFICES ASSUME NEW i \in DOMAIN facts'
               PROVE  /\ facts'[i].check = Checks[state][i]
                      /\ IsApplied(i)' =>
                           /\ file[Checks[state][i].id] \in Range(tree')
                           /\ \A k \in DOMAIN facts' :
                                i < k => file[Checks[state][i].id] \in Range(facts'[k].tree)
    BY DEF Attempt
  <2> HIDE DEF f, n
  <2>0. f.check = NextCheck /\ f.outcome = outcome /\ f.tree = tree'
    BY DEF f
  <2>1. CASE i = n
    <3>1. facts'[i].check = Checks[state][i] /\ facts'[i].outcome = outcome
      BY <1>5, <1>9, <2>0, <2>1
    <3>2. \A k \in DOMAIN facts' : ~(i < k)
      BY <1>1, <1>5, <2>1
    <3>3. QED
      BY <1>9, <2>1, <3>1, <3>2 DEF IsApplied
  <2>2. CASE i \in DOMAIN facts
    <3>1. facts'[i] = facts[i] /\ facts[i].check = Checks[state][i]
      BY <1>5, <2>2 DEF IInv, Attempt
    <3>2. ASSUME IsApplied(i)'
          PROVE  /\ file[Checks[state][i].id] \in Range(tree)
                 /\ \A k \in DOMAIN facts :
                      i < k => file[Checks[state][i].id] \in Range(facts[k].tree)
      BY <2>2, <3>1, <3>2 DEF IInv, Attempt, IsApplied
    <3>3. QED
      BY <1>2, <1>5, <2>0, <3>1, <3>2
  <2>3. QED
    BY <1>5, <2>1, <2>2
<1>11. Collected'
  <2> SUFFICES ASSUME NEW i \in DOMAIN facts',
                      facts'[i].check.type = "context_fields_present",
                      facts'[i].outcome = "passed"
               PROVE  Enough(facts'[i].check)
    BY DEF IInv, Collected, Loadable, Enough
  <2> HIDE DEF f, n
  <2>0. f.check = NextCheck /\ f.outcome = outcome
    BY DEF f
  <2>1. CASE i = n
    BY <1>5, <2>0, <2>1
  <2>2. CASE i \in DOMAIN facts
    BY <1>5, <2>2 DEF IInv, Collected
  <2>3. QED
    BY <1>5, <2>1, <2>2
<1>12. QED
  BY <1>7, <1>8, <1>10, <1>11 DEF IInv

(* A check that passes on what it has loaded, of a file that may have been  *)
(* unreadable, passes on the file.                                          *)
LEMMA LoadedIsEnough ==
  ASSUME TypeOK, loaded \in Loadable, NEW c \in CheckDefs,
         \A f \in c.fields : loaded[f] # "unreasoned",
         Cardinality({f \in c.fields : Unknown(f)}) <= c.maxUnknown
  PROVE  Enough(c)
<1> DEFINE U == {f \in c.fields : Unknown(f)}
           K == {f \in c.fields : context[f] # "known"}
<1>1. c.fields \in SUBSET Fields /\ c.maxUnknown \in Nat
  BY DEF CheckDefs
<1>2. K \subseteq U
  <2> SUFFICES ASSUME NEW f \in c.fields, context[f] # "known"
               PROVE  loaded[f] \in {"absent", "unknown"}
    BY DEF Unknown
  <2>1. f \in Fields /\ loaded[f] # "unreasoned"
    BY <1>1
  <2>2. CASE loaded = context
    BY <2>1, <2>2 DEF TypeOK, Contexts
  <2>3. CASE loaded = NoContext
    BY <2>1, <2>3 DEF NoContext
  <2>4. QED
    BY <2>2, <2>3 DEF Loadable
<1>3. IsFiniteSet(U)
  BY <1>1, RecordAssumption, FS_Subset
<1>4. /\ Cardinality(K) <= Cardinality(U)
      /\ Cardinality(K) \in Nat /\ Cardinality(U) \in Nat
  BY <1>2, <1>3, FS_Subset, FS_CardinalityType
<1>5. QED
  BY <1>1, <1>4 DEF Enough

(* Every check keeps the invariant.                                         *)
LEMMA CheckingStep ==
  ASSUME IInv,
         \/ CheckContext \/ CheckExists \/ CheckAppliedFinds
         \/ CheckApplied \/ CheckCommand \/ CheckUnresolved
  PROVE  IInv'
<1> USE DEF Checking, alone
<1>0. outputs \in Seq(STRING) /\ tree \in Seq(Contents)
  BY DEF IInv, TypeOK
<1>1. CASE CheckContext
  <2>2. Len(facts) < Len(Checks[state]) /\ NextCheck \in CheckDefs
    BY <1>1, NextCheckType DEF CheckContext, IInv
  <2>3. loaded \in Loadable
    BY <1>1 DEF CheckContext, IInv, Collected
  <2>4. Fact("failed") \/ (Fact("passed") /\ Enough(NextCheck))
    BY <1>1, <2>2, <2>3, LoadedIsEnough DEF CheckContext, IInv
  <2>5. QED
    BY <1>0, <1>1, <2>4, CheckStep DEF CheckContext
<1>2. CASE CheckExists
  <2>1. Fact("passed") \/ Fact("none")
    BY <1>2 DEF CheckExists
  <2>2. QED
    BY <1>0, <1>2, <2>1, CheckStep DEF CheckExists
<1>3. CASE CheckAppliedFinds
  BY <1>0, <1>3, CheckStep DEF CheckAppliedFinds
<1>4. CASE CheckUnresolved
  BY <1>0, <1>4, CheckStep DEF CheckUnresolved
<1>5. CASE CheckCommand
  <2>1. outputs' \in Seq(STRING)
    BY <1>0, <1>5, NextCheckType DEF CheckCommand, IInv
  <2>2. QED
    BY <1>5, <2>1, CheckStep DEF CheckCommand
<1>6. CASE CheckApplied
  <2> DEFINE diff == file[NextCheck.id]
  <2>1. CASE UNCHANGED tree /\ Fact("failed")
    BY <1>0, <1>6, <2>1, CheckStep DEF CheckApplied
  <2>2. CASE tree' = Append(tree, diff) /\ (Fact("passed") \/ Fact("failed"))
    <3>1. diff \in Contents
      BY <1>6 DEF CheckApplied, Found, IInv, TypeOK
    <3>2. diff \in Range(tree')
      BY <1>0, <2>2, RangeAppend
    <3>3. QED
      BY <1>0, <1>6, <2>2, <3>1, <3>2, CheckStep DEF CheckApplied
  <2>3. QED
    BY <1>6, <2>1, <2>2 DEF CheckApplied
<1>7. QED
  BY <1>1, <1>2, <1>3, <1>4, <1>5, <1>6

-----------------------------------------------------------------------------
(* Nothing is recorded at first.                                            *)
LEMMA InitHolds == Init => IInv
<1> SUFFICES ASSUME Init PROVE IInv
  OBVIOUS
<1>1. Initial \in Targets /\ Initial \in States
  BY RecordAssumption DEF Targets
<1> DEFINE b == Move("session_opened", Initial, {})
<1>2. b \in Blocks /\ b.hash = None
  BY <1>1, MoveType
<1>3. journal = <<b>> /\ journal \in Seq(Blocks)
  BY <1>2 DEF Init
<1>4. Checks[state] \in Seq(CheckDefs)
  BY <1>1, RecordAssumption DEF Init
<1>5. TypeOK
  BY <1>1, <1>3, <1>4 DEF Init, TypeOK, Contexts, NoContext
<1>6. OnDisk
  BY <1>2, <1>3 DEF OnDisk
<1>7. QED
  BY <1>5, <1>6 DEF Init, IInv, Recording, Attempt, Collected

(* A move is added, and a run has ended or has not begun.                   *)
LEMMA MoveStep ==
  ASSUME IInv, NEW type \in {"transition", "session_resumed"}, NEW to \in Targets,
         NEW e \in SUBSET Artifacts,
         journal' = Append(journal, Move(type, to, e)), pc' = "idle",
         UNCHANGED <<context, readable, file, tree, memory>>
  PROVE  IInv'
<1>1. journal' \in Seq(Blocks) /\ OnDisk'
  BY MoveType, OnDiskAppend DEF IInv
<1>2. TypeOK'
  BY <1>1 DEF IInv, TypeOK, memory, Contexts
<1>3. QED
  BY <1>1, <1>2 DEF IInv, Recording, Attempt, Collected

(* An answer of the actor is kept for the merge.                            *)
LEMMA ActStep ==
  ASSUME IInv, Act
  PROVE  IInv'
<1>1. state' \in States /\ work' \in Works /\ facts' = <<>> /\ outputs' = <<>>
  BY AnswersType DEF Act, GoesOn, NoFindings
<1>2. Checks[state'] \in Seq(CheckDefs)
  BY <1>1, RecordAssumption
<1>3. TypeOK'
  BY <1>1, <1>2 DEF IInv, TypeOK, Act, Works, Contexts
<1>4. QED
  BY <1>1, <1>3 DEF IInv, Act, Recording, OnDisk, Attempt, Collected

(* The context keeps its type, also when its file is lost.                  *)
LEMMA MergeStep ==
  ASSUME IInv, MergeContext \/ DiesMerging \/ Crash
  PROVE  IInv'
<1>1. context' \in Contexts /\ given' \in Contexts /\ readable' \in BOOLEAN
  BY DEF IInv, TypeOK, MergeContext, Merged, Loadable, DiesMerging, Crash, Contexts,
         NoContext
<1>2. /\ pc' \in {"idle", "persist"}
      /\ pc' = "persist" => pc = "merge"
      /\ UNCHANGED <<journal, file, tree, state, work, loaded, facts, outputs>>
  BY DEF MergeContext, DiesMerging, Crash
<1>3. TypeOK'
  BY <1>1, <1>2 DEF IInv, TypeOK, Contexts
<1>4. QED
  BY <1>2, <1>3 DEF IInv, Recording, OnDisk, Attempt, Collected

(* What an attempt loads is the file, or nothing.                           *)
LEMMA BeginStep ==
  ASSUME IInv, BeginAttempt
  PROVE  IInv'
<1>1. /\ pc = "persist" /\ pc' = "check" /\ facts' = facts /\ facts = <<>>
      /\ loaded' \in Loadable
      /\ UNCHANGED <<journal, context, readable, file, tree, state, given, work, outputs>>
  BY DEF BeginAttempt, LoadContext, IInv, Attempt
<1>2. loaded' \in Contexts /\ loaded' \in Loadable'
  BY <1>1 DEF Loadable, NoContext, Contexts, IInv, TypeOK
<1>3. TypeOK'
  BY <1>1, <1>2 DEF IInv, TypeOK, Contexts
<1>4. QED
  BY <1>1, <1>2, <1>3 DEF IInv, Recording, OnDisk, Attempt, Collected

(* An artifact's file is there before its block.                            *)
LEMMA WriteFileStep ==
  ASSUME IInv, WriteFile
  PROVE  IInv'
<1>1. /\ pc = "persist" /\ pc' = "record" /\ work # <<>> /\ work \in Works
      /\ file' = [file EXCEPT ![Head(work).id] = Head(work).content]
      /\ UNCHANGED <<journal, context, readable, tree, memory>>
  BY DEF WriteFile, Written, IInv, TypeOK, Works
<1>2. Head(work).id \in Artifacts /\ Head(work).content \in Contents
  <2>1. Head(work) \in [id : Artifacts, content : Contents]
    BY <1>1, HeadAndTail DEF Works
  <2>2. QED
    BY <2>1
<1>3. /\ file' \in [Artifacts -> Contents \cup {None}]
      /\ file'[Head(work).id] # None
      /\ \A id \in Artifacts : file[id] # None => file'[id] # None
  BY <1>1, <1>2, RecordAssumption DEF IInv, TypeOK
<1>4. TypeOK'
  BY <1>1, <1>3 DEF IInv, TypeOK, memory, Contexts
<1>5. QED
  BY <1>1, <1>3, <1>4 DEF IInv, Recording, OnDisk, Attempt, Collected, memory

(* The block is of the artifact whose file was just written.                *)
LEMMA RecordStep ==
  ASSUME IInv, RecordArtifact
  PROVE  IInv'
<1>1. /\ pc = "record" /\ pc' = "persist" /\ work # <<>> /\ work \in Works
      /\ journal' = Append(journal, Artifact(Head(work).id, Head(work).content, state))
      /\ work' = Tail(work) /\ file[Head(work).id] # None
      /\ UNCHANGED <<context, readable, file, tree, state, given, loaded, facts, outputs>>
  BY DEF RecordArtifact, Noted, IInv, TypeOK, Works, Recording
<1>2. /\ Head(work).id \in Artifacts /\ Head(work).content \in Contents
      /\ state \in Targets
  <2>1. Head(work) \in [id : Artifacts, content : Contents]
    BY <1>1, HeadAndTail DEF Works
  <2>2. state \in States
    BY DEF IInv, TypeOK
  <2>3. QED
    BY <2>1, <2>2 DEF Targets
<1>3. journal' \in Seq(Blocks) /\ OnDisk'
  BY <1>1, <1>2, ArtifactType, OnDiskAppend DEF IInv
<1>4. work' \in Works
  BY <1>1 DEF Works
<1>5. TypeOK'
  BY <1>1, <1>3, <1>4 DEF IInv, TypeOK, Works, Contexts
<1>6. QED
  BY <1>1, <1>3, <1>5 DEF IInv, Recording, Attempt, Collected

(* The block of a command's output is of no file.                           *)
LEMMA OutputStep ==
  ASSUME IInv, RecordOutput
  PROVE  IInv'
<1>1. /\ pc = "check" /\ pc' = pc /\ outputs # <<>>
      /\ journal' = Append(journal, Artifact(Head(outputs), None, state))
      /\ outputs' = Tail(outputs)
      /\ UNCHANGED <<context, readable, file, tree, state, given, work, loaded, facts>>
  BY DEF RecordOutput
<1>2. outputs \in Seq(STRING) /\ state \in Targets
  BY DEF IInv, TypeOK, Targets
<1>3. Head(outputs) \in STRING /\ outputs' \in Seq(STRING)
  BY <1>1, <1>2
<1>4. journal' \in Seq(Blocks) /\ OnDisk'
  <2> DEFINE b == Artifact(Head(outputs), None, state)
  <2>1. b \in Blocks /\ b.hash = None
    BY <1>2, <1>3, ArtifactType
  <2>2. QED
    BY <1>1, <2>1, OnDiskAppend DEF IInv
<1>5. TypeOK'
  BY <1>1, <1>3, <1>4 DEF IInv, TypeOK, Contexts
<1>6. QED
  BY <1>1, <1>4, <1>5
  DEF IInv, Recording, Attempt, IsApplied, Collected, Loadable, Enough

(* Every step of a run, a human or a crash keeps the invariant.             *)
LEMMA StepHolds == IInv /\ [Next]_vars => IInv'
<1> SUFFICES ASSUME IInv, [Next]_vars PROVE IInv'
  OBVIOUS
<1>0. state \in States /\ \A s \in States : Exit[s] \in Targets /\ s \in Targets
  BY DEF IInv, TypeOK, Targets
<1>1. CASE UNCHANGED vars
  BY <1>1
  DEF vars, IInv, TypeOK, Contexts, Recording, OnDisk, Attempt, IsApplied, Collected,
      Loadable, Enough
<1>2. CASE Act
  BY <1>2, ActStep
<1>3. CASE ActorFails
  <2>1. Blocked \in Targets
    BY DEF Targets
  <2>2. /\ journal' = Append(journal, Move("transition", Blocked, {})) /\ pc' = "idle"
        /\ UNCHANGED <<context, readable, file, tree, memory>>
    BY <1>3 DEF ActorFails, GoesOn, BlockedByActor
  <2>3. QED
    BY <2>1, <2>2, MoveStep
<1>4. CASE MergeContext \/ DiesMerging \/ Crash
  BY <1>4, MergeStep
<1>5. CASE WriteFile
  BY <1>5, WriteFileStep
<1>6. CASE RecordArtifact
  BY <1>6, RecordStep
<1>7. CASE BeginAttempt
  BY <1>7, BeginStep
<1>8. CASE \/ CheckContext \/ CheckExists \/ CheckAppliedFinds
           \/ CheckApplied \/ CheckCommand \/ CheckUnresolved
  BY <1>8, CheckingStep
<1>9. CASE RecordOutput
  BY <1>9, OutputStep
<1>10. CASE Leave
  <2>1. Cited[state] \in SUBSET Artifacts
    BY <1>0, RecordAssumption
  <2>2. QED
    BY <1>0, <1>10, <2>1, MoveStep DEF Leave, RecordTransition
<1>11. CASE Stay
  <2>1. PICK to \in {state, Blocked} \cup Back[state], e \in SUBSET Cited[state] :
          RecordTransition(to, e)
    BY <1>11 DEF Stay
  <2>2. to \in Targets /\ e \in SUBSET Artifacts
    BY <1>0, RecordAssumption DEF Targets
  <2>3. QED
    BY <2>1, <2>2, MoveStep DEF RecordTransition
<1>12. CASE Resume
  <2>1. PICK s \in States : journal' = Append(journal, Move("session_resumed", s, {}))
    BY <1>12 DEF Resume
  <2>2. QED
    BY <1>0, <1>12, <2>1, MoveStep DEF Resume
<1>13. QED
  BY <1>1, <1>2, <1>3, <1>4, <1>5, <1>6, <1>7, <1>8, <1>9, <1>10, <1>11, <1>12 DEF Next

-----------------------------------------------------------------------------
(* The variables keep their types, for journals of any length.              *)
THEOREM TypeCorrect == Spec => []TypeOK
<1>1. IInv => TypeOK
  BY DEF IInv
<1>2. QED
  BY <1>1, InitHolds, StepHolds, PTL DEF Spec

(* session_loop.py:111-128: whatever is produced, and wherever runs die,    *)
(* every artifact the journal gives a hash of is a file.                    *)
THEOREM NothingRecordedIsMissing == Spec => []RecordedIsOnDisk
<1>1. IInv => RecordedIsOnDisk
  BY DEF IInv, OnDisk, RecordedIsOnDisk
<1>2. QED
  BY <1>1, InitHolds, StepHolds, PTL DEF Spec

(* On the way out, a check whose name does not occur again below it has     *)
(* passed itself: the last finding of its name is its own.                  *)
LEMMA UnhiddenHasPassed ==
  ASSUME IInv, Leave, NEW i \in DOMAIN Checks[state], ~Hidden(i)
  PROVE  i \in DOMAIN facts /\ facts[i].check = Checks[state][i] /\ facts[i].outcome = "passed"
<1>1. Checks[state] \in Seq(CheckDefs) /\ facts \in Seq(Findings)
  BY RecordAssumption DEF IInv, TypeOK
<1>2. pc = "check" /\ Len(facts) = Len(Checks[state]) /\ AllChecksPass
  BY DEF Leave, RecordTransition
<1>3. DOMAIN facts = DOMAIN Checks[state] /\ DOMAIN facts \subseteq Nat
  BY <1>1, <1>2
<1>4. \A k \in DOMAIN facts : facts[k].check = Checks[state][k]
  BY <1>2 DEF IInv, Attempt
<1>5. PICK k \in DOMAIN facts :
        /\ facts[k].check.name = facts[i].check.name /\ facts[k].outcome = "passed"
        /\ \A l \in DOMAIN facts : l > k => facts[l].check.name # facts[i].check.name
  BY <1>2, <1>3 DEF AllChecksPass, Passed
<1>6. k = i
  <2>1. ~(i > k)
    BY <1>3, <1>5
  <2>2. ~(k > i)
    BY <1>3, <1>4, <1>5 DEF Hidden
  <2>3. QED
    BY <1>3, <2>1, <2>2
<1>7. QED
  BY <1>3, <1>4, <1>5, <1>6

(* ADR 0009, for every list of checks, with the exception runner.py:136     *)
(* makes of repeated names: a state is left by "next" only if each command  *)
(* passed on a tree with the artifacts that are applied before it.          *)
THEOREM ExitNeedsAppliedWork == Spec => ExitOnAppliedWork
<1> DEFINE Tested ==
      \A i, j \in DOMAIN Checks[state] :
        /\ i < j
        /\ Checks[state][i].type = "artifact_applied" /\ ~Hidden(i)
        /\ Checks[state][j].type = "command_exit_zero" /\ ~Hidden(j)
        => \E k \in DOMAIN facts :
             /\ facts[k].check = Checks[state][j] /\ facts[k].outcome = "passed"
             /\ file[Checks[state][i].id] \in Range(facts[k].tree)
<1>1. ASSUME IInv, Leave
      PROVE  Tested
  <2>1. pc = "check"
    BY <1>1 DEF Leave, RecordTransition
  <2>2. QED
    BY <1>1, <2>1, UnhiddenHasPassed DEF IInv, Attempt, IsApplied
<1>2. IInv => [Leave => Tested]_vars
  BY <1>1
<1>3. QED
  BY <1>2, InitHolds, StepHolds, PTL DEF Spec, ExitOnAppliedWork

(* session_loop.py:90-104, runner.py:75-81 and :278, for every set of       *)
(* fields and list of checks: whatever has been lost or unset, a state is   *)
(* left only while the file holds the fields its checks ask for.            *)
THEOREM ExitNeedsRecordedContext == Spec => ExitOnRecordedContext
<1> DEFINE Held ==
      \A i \in DOMAIN Checks[state] :
        Checks[state][i].type = "context_fields_present" /\ ~Hidden(i)
        => Enough(Checks[state][i])
<1>1. ASSUME IInv, Leave
      PROVE  Held
  <2>1. pc = "check"
    BY <1>1 DEF Leave, RecordTransition
  <2> SUFFICES ASSUME NEW i \in DOMAIN Checks[state],
                      Checks[state][i].type = "context_fields_present", ~Hidden(i)
               PROVE  Enough(Checks[state][i])
    OBVIOUS
  <2>2. i \in DOMAIN facts /\ facts[i].check = Checks[state][i] /\ facts[i].outcome = "passed"
    BY <1>1, UnhiddenHasPassed
  <2>3. QED
    BY <1>1, <2>1, <2>2 DEF IInv, Collected
<1>2. IInv => [Leave => Held]_vars
  BY <1>1
<1>3. QED
  BY <1>2, InitHolds, StepHolds, PTL DEF Spec, ExitOnRecordedContext

=============================================================================
