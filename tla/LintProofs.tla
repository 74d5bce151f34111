------------------------------ MODULE LintProofs ------------------------------
(***************************************************************************)
(* The promises of LintedRunProperties for every set of workflow files,     *)
(* sound or not, and every step cap.                                        *)
(***************************************************************************)
EXTENDS LintedRunProperties, WellFoundedInduction, TLAPS

(* What holds of every run, and what the conditions on the file add to it.  *)
RunOK ==
  /\ wf \in Files
  /\ report = Reported(wf)
  /\ IsString(wf.initial)
  /\ path \in Seq(STRING) /\ path # <<>>
  /\ last.kind \in Decisions
  /\ outcome \in {"running", "blocked", "terminal", "capped", "raised"}

Running == outcome = "running"

InGraph == Running /\ UniqueIds => At \in Reachable(wf, wf.initial) \cup {""}

Sound == Clean /\ NextDeclared /\ IdsGiven /\ AttemptsGiven

InFile == Running /\ Sound => At \in StateIds(wf)

Budgeted == Clean /\ wf.maxTransitions \notin {Missing, Null}

InBudget == Running /\ Budgeted => Len(path) - 1 <= wf.maxTransitions

IInv ==
  /\ RunOK
  /\ InGraph /\ RunsStayAttainable
  /\ InFile /\ LintedNeverRaises
  /\ InBudget /\ LintedEndsWithinBudget
  /\ ExitIsEarned

-----------------------------------------------------------------------------
(* Indices.                                                                 *)

(* A nonempty set of naturals has a least element.                          *)
LEMMA LeastIndex ==
  ASSUME NEW T \in SUBSET Nat, T # {}
  PROVE  \E m \in T : \A k \in T : m <= k
<1>1. PICK m \in T : \A k \in T : ~(<<k, m>> \in OpToRel(<, Nat))
  BY WFMin, NatLessThanWellFounded, Zenon
<1>2. ASSUME NEW k \in T
      PROVE  ~(k < m)
  <2> DEFINE pair == <<k, m>>
  <2>1. pair \in Nat \X Nat /\ pair[1] = k /\ pair[2] = m
    OBVIOUS
  <2>2. pair \notin OpToRel(<, Nat)
    BY <1>1, Zenon
  <2> HIDE DEF pair
  <2>3. pair \in OpToRel(<, Nat) <=> pair \in Nat \X Nat /\ pair[1] < pair[2]
    BY Zenon DEF OpToRel
  <2>4. QED
    BY <2>1, <2>2, <2>3, Zenon
<1>3. QED
  BY <1>2

(* A nonempty set of indices of a sequence has a greatest one.              *)
LEMMA GreatestIndex ==
  ASSUME NEW n \in Nat, NEW T \in SUBSET (1..n), T # {}
  PROVE  \E m \in T : \A k \in T : k <= m
<1> DEFINE D == {n - k : k \in T}
<1>1. D \in SUBSET Nat /\ D # {}
  <2>1. \A k \in T : n - k \in Nat
    OBVIOUS
  <2>2. QED
    BY <2>1
<1>2. PICK d \in D : \A e \in D : d <= e
  <2> HIDE DEF D
  <2>1. QED
    BY <1>1, LeastIndex
<1>3. PICK m \in T : d = n - m
  OBVIOUS
<1>4. ASSUME NEW k \in T PROVE k <= m
  <2>1. n - m <= n - k
    BY <1>2, <1>3
  <2>2. QED
    BY <2>1
<1>5. QED
  BY <1>4

-----------------------------------------------------------------------------
(* The file.                                                                *)

(* Whichever definition of an id the runtime or a rule takes, it is one of  *)
(* the file's, of that id.                                                  *)
LEMMA FirstOfType ==
  ASSUME NEW w \in Files, NEW id \in StateIds(w)
  PROVE  /\ FirstOf(w, id) \in Declared(w)
         /\ FirstOf(w, id) \in Definitions
         /\ FirstOf(w, id).id = id
<1> DEFINE same == {i \in DOMAIN w.states : w.states[i].id = id}
<1>1. w.states \in Seq(Definitions)
  BY DEF Files
<1>2. same \in SUBSET Nat /\ same # {}
  BY <1>1 DEF StateIds, Declared, Entries
<1>3. PICK m \in same : \A k \in same : m <= k
  <2> HIDE DEF same
  <2>1. QED
    BY <1>2, LeastIndex
<1> DEFINE First(i) ==
      /\ w.states[i].id = id
      /\ \A k \in DOMAIN w.states : w.states[k].id = id => i <= k
           n == CHOOSE i \in DOMAIN w.states : First(i)
<1>4. n \in DOMAIN w.states /\ First(n)
  BY <1>3
<1>5. FirstOf(w, id) = w.states[n]
  BY DEF FirstOf
<1> HIDE DEF n
<1>6. id \in STRING
  BY DEF StateIds, Declared, IsString
<1>7. QED
  BY <1>1, <1>4, <1>5, <1>6 DEF Declared, Entries, IsString

Unique(w) == \A i, k \in DOMAIN w.states : w.states[i].id = w.states[k].id => i = k

(* With unique ids they take the same one.                                  *)
LEMMA FirstIsLast ==
  ASSUME NEW w \in Files, Unique(w), NEW id \in StateIds(w)
  PROVE  FirstOf(w, id) = LastOf(w, id)
<1>1. w.states \in Seq(Definitions)
  BY DEF Files
<1>2. PICK j \in DOMAIN w.states : w.states[j].id = id
  BY DEF StateIds, Declared, Entries
<1>3. \A i \in DOMAIN w.states : w.states[i].id = id <=> i = j
  BY <1>2 DEF Unique
<1>4. j <= j
  BY <1>1
<1>5. FirstOf(w, id) = w.states[j]
  BY <1>3, <1>4 DEF FirstOf
<1>6. LastOf(w, id) = w.states[j]
  BY <1>3, <1>4 DEF LastOf
<1>7. QED
  BY <1>5, <1>6

(* The attainable states are closed under the edges of the file.            *)
LEMMA ReachableClosed ==
  ASSUME NEW w, NEW start, NEW id \in Reachable(w, start), id \in StateIds(w),
         NEW to \in Successors(w, id)
  PROVE  to \in Reachable(w, start)
BY DEF Reachable, Nodes, IsClosed

(* A run starts where it starts.                                            *)
LEMMA StartReachable ==
  ASSUME NEW w, NEW start
  PROVE  start \in Reachable(w, start)
BY DEF Reachable

(* No lint error is a report of no rule but R3.                             *)
LEMMA CleanRules ==
  ASSUME RunOK, Clean
  PROVE  ~R5(wf) /\ ~R9(wf) /\ ~R11(wf) /\ ~R12(wf) /\ ~R20(wf) /\ ~R21(wf)
<1> DEFINE rules == Rules(wf)
<1>1. \A r \in DOMAIN rules : r # "R3" => ~rules[r]
  <2>1. report \ {"R3"} = {}
    BY DEF Clean, LintExit, HasErrors
  <2>2. report = {r \in DOMAIN rules : rules[r]}
    BY DEF RunOK, Reported
  <2>3. QED
    BY <2>1, <2>2
<1>2. /\ {"R5", "R9", "R11", "R12", "R20", "R21"} \subseteq DOMAIN rules
      /\ rules["R5"] = R5(wf) /\ rules["R9"] = R9(wf) /\ rules["R11"] = R11(wf)
      /\ rules["R12"] = R12(wf) /\ rules["R20"] = R20(wf) /\ rules["R21"] = R21(wf)
  BY DEF Rules
<1> HIDE DEF rules
<1>3. QED
  BY <1>1, <1>2

-----------------------------------------------------------------------------
(* One decision.                                                            *)

\* The definition of the state the run is in.
Def == FirstOf(wf, At)

(* A run is always somewhere.                                               *)
LEMMA AtType ==
  ASSUME RunOK
  PROVE  Len(path) \in Nat \ {0} /\ At \in STRING
BY DEF RunOK, At

(* An attempt is of a declared state that does not end the run.             *)
LEMMA AttemptingDef ==
  ASSUME RunOK, Attempting
  PROVE  /\ At \in StateIds(wf) /\ Running
         /\ Def \in Declared(wf) /\ Def \in Definitions /\ Def.id = At /\ ~EndsRun(Def)
BY FirstOfType DEF Attempting, Def, RunOK, Running

(* The first failure rule that fires is one of the state's.                 *)
LEMMA FirstFiredIsRule ==
  ASSUME RunOK, Attempting, NEW v, Eng(wf)!FiredRules(At, v) # {}
  PROVE  Eng(wf)!FirstFired(At, v) \in DOMAIN Def.onFailure
<1> DEFINE T == Eng(wf)!FiredRules(At, v)
<1>1. Def.onFailure \in Seq([when : Names, to : Names])
  BY AttemptingDef DEF Definitions
<1>2. DOMAIN RuntimeDef(Def).onFailure = DOMAIN Def.onFailure
  BY DEF RuntimeDef
<1>3. T \subseteq DOMAIN Def.onFailure
  BY <1>2, AttemptingDef DEF Eng!FiredRules, Def
<1>4. T \in SUBSET Nat
  BY <1>1, <1>3
<1>5. \E i \in T : \A k \in T : i <= k
  <2> HIDE DEF T
  <2>1. T # {}
    BY DEF T
  <2>2. QED
    BY <1>4, <2>1, LeastIndex
<1>6. Eng(wf)!FirstFired(At, v) \in T
  BY <1>5 DEF Eng!FirstFired
<1>7. QED
  BY <1>3, <1>6

(* What advance makes of a definition that need not be well formed.         *)
LEMMA AdvanceResult ==
  ASSUME RunOK, Attempting, NEW v, NEW t,
         t = Eng(wf)!Advance(At, Attempt, Len(path) - 1, v)
  PROVE  /\ t.kind \in {"next", "failure", "escalate", "budget", "retry"}
         /\ t.kind \in {"escalate", "budget"} => t.to = "blocked"
         /\ t.kind = "retry" => t.to = At
         /\ t.kind = "next" =>
              /\ t.to = OrEmpty(Def.next)
              /\ \A name \in {c.name : c \in Entries(Def.checks)} : v.checks[name]
         /\ t.kind = "failure" =>
              \E i \in DOMAIN Def.onFailure : t.to = Target(Def.onFailure[i].to)
         /\ t.kind \in {"next", "retry"} /\ wf.maxTransitions \in Nat =>
              Len(path) - 1 < wf.maxTransitions
<1> DEFINE def == RuntimeDef(Def)
           first == Eng(wf)!FirstFired(At, v)
<1>1. At \in StateIds(wf) /\ ~EndsRun(Def)
  BY AttemptingDef
<1>2. /\ def.terminal = EndsRun(Def) /\ def.next = OrEmpty(Def.next)
      /\ def.checks = {c.name : c \in Entries(Def.checks)}
      /\ \A i \in DOMAIN Def.onFailure :
           def.onFailure[i].to = Target(Def.onFailure[i].to)
  BY DEF RuntimeDef
<1>3. [id \in StateIds(wf) |-> RuntimeDef(FirstOf(wf, id))][At] = def
  BY <1>1 DEF Def
<1> HIDE DEF def
<1>4. Eng(wf)!FiredRules(At, v) # {} => first \in DOMAIN Def.onFailure
  BY FirstFiredIsRule
<1> HIDE DEF first
<1>5. Len(path) - 1 \in Nat
  BY AtType
<1>6. QED
  BY <1>1, <1>2, <1>3, <1>4, <1>5
  DEF Eng!Advance, Eng!Transition, Eng!Blocked, Eng!BudgetSpent, Eng!AllChecksPass, first

-----------------------------------------------------------------------------
(* Steps that leave the session where it is, and end the run.               *)
LEMMA EndStep ==
  ASSUME IInv, NEW how \in {"blocked", "terminal", "capped", "raised"}, Ends(how),
         how = "raised" => ~Sound,
         how = "capped" => ~(Budgeted /\ (wf.maxTransitions \in Int =>
                                            wf.maxTransitions < MaxSteps))
  PROVE  IInv'
<1>1. outcome' = how /\ UNCHANGED <<wf, report, path, last>>
  BY DEF Ends
<1>2. RunOK'
  BY <1>1 DEF IInv, RunOK
<1>3. /\ At' = At /\ Clean' = Clean /\ UniqueIds' = UniqueIds /\ ~Running'
      /\ Sound' = Sound /\ Budgeted' = Budgeted /\ UniqueNames' = UniqueNames
  BY <1>1 DEF At, Clean, UniqueIds, Running, Sound, NextDeclared, IdsGiven,
              AttemptsGiven, Budgeted, UniqueNames
<1>4. RunsStayAttainable' /\ ExitIsEarned'
  BY <1>1, <1>3 DEF IInv, RunsStayAttainable, ExitIsEarned, Eng!Blocked
<1>5. LintedNeverRaises'
  BY <1>1, <1>3 DEF LintedNeverRaises, Sound
<1>6. LintedEndsWithinBudget'
  BY <1>1, <1>3 DEF LintedEndsWithinBudget, Budgeted
<1>7. QED
  BY <1>2, <1>3, <1>4, <1>5, <1>6 DEF IInv, InGraph, InFile, InBudget

(* A step that moves the session: to blocked, or on along an edge of the    *)
(* file, within the budget.                                                 *)
Edge(to) ==
  \/ to = At
  \/ to = ""
  \/ to \in Successors(wf, At)

(* A step that adds a state to the path keeps the invariant if the state is *)
(* one the workflow's edges lead to, and within what is left of the budget. *)
LEMMA MoveStep ==
  ASSUME IInv, Attempting, NEW to \in STRING, path' = Append(path, to),
         UNCHANGED <<wf, report>>,
         \/ outcome' = "blocked" /\ (to = "blocked" \/ (UniqueIds => Edge(to)))
         \/ /\ outcome' = "running" /\ (UniqueIds => Edge(to))
            /\ Sound => to \in StateIds(wf)
            /\ Budgeted => Len(path) - 1 < wf.maxTransitions,
         last'.kind \in Decisions, ExitIsEarned'
  PROVE  IInv'
<1>1. /\ path' \in Seq(STRING) /\ path' # <<>> /\ Len(path') = Len(path) + 1
      /\ At' = to /\ Len(path) \in Nat
  BY DEF IInv, RunOK, At
<1>2. RunOK'
  BY <1>1 DEF IInv, RunOK
<1>3. /\ Clean' = Clean /\ UniqueIds' = UniqueIds /\ Sound' = Sound
      /\ Budgeted' = Budgeted
  BY DEF Clean, UniqueIds, Sound, NextDeclared, IdsGiven, AttemptsGiven, Budgeted
<1>4. At \in StateIds(wf) /\ Running
  BY AttemptingDef DEF IInv
<1>5. UniqueIds => At \in Reachable(wf, wf.initial)
  BY <1>4 DEF IInv, InGraph, UniqueIds
<1>6. UniqueIds /\ Edge(to) => to \in Reachable(wf, wf.initial) \cup {""}
  BY <1>4, <1>5, ReachableClosed DEF Edge
<1>7. InGraph' /\ RunsStayAttainable'
  BY <1>1, <1>3, <1>6 DEF InGraph, Running, RunsStayAttainable, Eng!Blocked
<1>8. InFile' /\ LintedNeverRaises'
  BY <1>1, <1>3 DEF InFile, Running, LintedNeverRaises, Sound
<1>9. InBudget' /\ LintedEndsWithinBudget'
  <2>1. Budgeted => wf.maxTransitions \in Int
    BY CleanRules DEF Budgeted, R12, IsPositiveInt, IInv
  <2>2. QED
    BY <1>1, <1>3, <2>1 DEF InBudget, Running, LintedEndsWithinBudget
<1>10. QED
  BY <1>2, <1>7, <1>8, <1>9 DEF IInv

(* Where next and failure rules lead is in the linter's picture.            *)
LEMMA EdgeType ==
  ASSUME IInv, Attempting, UniqueIds
  PROVE  /\ Edge(OrEmpty(Def.next))
         /\ \A i \in DOMAIN Def.onFailure :
              Target(Def.onFailure[i].to) = "blocked" \/ Edge(Target(Def.onFailure[i].to))
<1>1. wf \in Files /\ At \in StateIds(wf) /\ Def = LastOf(wf, At)
  BY AttemptingDef, FirstIsLast DEF Def, IInv, RunOK, UniqueIds, Unique
<1>2. Successors(wf, At) =
        ({Def.next} \cup {r.to : r \in Entries(Def.onFailure)}) \cap STRING
  BY <1>1 DEF Successors
<1>3. \A i \in DOMAIN Def.onFailure :
        IsString(Def.onFailure[i].to) => Def.onFailure[i].to \in Successors(wf, At)
  BY <1>2 DEF Entries, IsString
<1>4. QED
  BY <1>2, <1>3 DEF Edge, OrEmpty, Target, IsString

(* A target that is no string counts as the empty one.                      *)
LEMMA EmptyOrString ==
  ASSUME NEW x
  PROVE  OrEmpty(x) \in STRING /\ Target(x) \in STRING
BY LintedRunAssumption DEF OrEmpty, Target, IsString

(* A failing actor blocks the session, which ends the run.                  *)
LEMMA ActorFailsStep ==
  ASSUME IInv, ActorFails
  PROVE  IInv'
<1>1. /\ path' = Append(path, "blocked") /\ outcome' = "blocked"
      /\ UNCHANGED <<wf, report, last>>
  BY DEF ActorFails, Eng!Blocked
<1>2. "blocked" \in STRING
  BY LintedRunAssumption
<1>3. ExitIsEarned' /\ last'.kind \in Decisions
  BY <1>1 DEF IInv, RunOK, ExitIsEarned, Clean, UniqueNames
<1>4. QED
  BY <1>1, <1>2, <1>3, MoveStep DEF ActorFails

(* Of checks with different names, all passed by name means all held.       *)
LEMMA AllHeld ==
  ASSUME RunOK, Attempting, UniqueNames,
         NEW holds \in [DOMAIN Def.checks -> BOOLEAN],
         \A name \in {c.name : c \in Entries(Def.checks)} : Passed(Def.checks, holds)[name]
  PROVE  \A i \in DOMAIN Def.checks : holds[i]
<1> SUFFICES ASSUME NEW i \in DOMAIN Def.checks PROVE holds[i]
  OBVIOUS
<1> DEFINE name == Def.checks[i].name
<1>1. name \in {c.name : c \in Entries(Def.checks)}
  BY DEF Entries
<1>2. Passed(Def.checks, holds)[name]
  BY <1>1
<1>3. PICK k \in DOMAIN Def.checks : Def.checks[k].name = name /\ holds[k]
  BY <1>1, <1>2 DEF Passed
<1>4. Def \in Entries(wf.states)
  BY AttemptingDef DEF Declared
<1>5. k = i
  BY <1>3, <1>4 DEF UniqueNames
<1>6. QED
  BY <1>3, <1>5

(* Every decision of advance() on the results of an attempt keeps the       *)
(* invariant.                                                               *)
LEMMA DecideStep ==
  ASSUME IInv, Attempting,
         NEW holds \in [DOMAIN Def.checks -> BOOLEAN], NEW v, Decide(holds, v)
  PROVE  IInv'
<1> DEFINE t == Eng(wf)!Advance(At, Attempt, Len(path) - 1, v)
<1>0. RunOK
  BY DEF IInv
<1>1. /\ v.checks = Passed(Def.checks, holds)
      /\ last' = [kind |-> t.kind, passed |-> holds, checks |-> Def.checks]
      /\ IF t.kind = "retry" /\ Def.maxAttempts \notin Int \cup {Missing}
           THEN outcome' = "raised" /\ UNCHANGED path
           ELSE /\ path' = Append(path, t.to)
                /\ outcome' = IF t.kind \in {"next", "retry"} /\ t.to # "blocked"
                                THEN "running" ELSE "blocked"
      /\ UNCHANGED <<wf, report>>
  BY DEF Decide, Def, Eng!Blocked
<1>2. /\ t.kind \in {"next", "failure", "escalate", "budget", "retry"}
      /\ t.kind \in {"escalate", "budget"} => t.to = "blocked"
      /\ t.kind = "retry" => t.to = At
      /\ t.kind = "next" =>
           /\ t.to = OrEmpty(Def.next)
           /\ \A name \in {c.name : c \in Entries(Def.checks)} : v.checks[name]
      /\ t.kind = "failure" =>
           \E i \in DOMAIN Def.onFailure : t.to = Target(Def.onFailure[i].to)
      /\ t.kind \in {"next", "retry"} /\ wf.maxTransitions \in Nat =>
           Len(path) - 1 < wf.maxTransitions
  BY <1>0, AdvanceResult
<1> HIDE DEF t
<1>3. last'.kind = t.kind /\ last'.passed = holds /\ last'.checks = Def.checks
  BY <1>1
<1>4. Def \in Declared(wf) /\ Def \in Entries(wf.states) /\ ~EndsRun(Def)
  BY <1>0, AttemptingDef DEF Declared
<1>5. ExitIsEarned'
  <2> SUFFICES ASSUME Clean, UniqueNames, t.kind = "next", NEW i \in DOMAIN Def.checks
               PROVE  holds[i] /\ Def.checks[i].type \in CheckTypes
    BY <1>1, <1>3 DEF ExitIsEarned, Clean, UniqueNames
  <2>1. holds[i]
    BY <1>0, <1>1, <1>2, AllHeld
  <2>2. Def.checks[i].type \in CheckTypes
    BY <1>0, <1>4, CleanRules DEF R5, Entries
  <2>3. QED
    BY <2>1, <2>2
<1>6. CASE t.kind = "retry" /\ Def.maxAttempts \notin Int \cup {Missing}
  <2>1. ~Sound
    <3>1. Clean => Def.maxAttempts \in {Missing, Null} \/ IsPositiveInt(Def.maxAttempts)
      BY <1>0, <1>4, CleanRules DEF R11
    <3>2. QED
      BY <1>4, <1>6, <3>1 DEF Sound, AttemptsGiven, IsPositiveInt
  <2>2. outcome' = "raised" /\ UNCHANGED <<wf, report, path>>
    BY <1>1, <1>6
  <2>3. RunOK'
    BY <1>2, <1>3, <2>2 DEF IInv, RunOK, Decisions
  <2>4. /\ At' = At /\ Clean' = Clean /\ UniqueIds' = UniqueIds /\ ~Running'
        /\ Sound' = Sound
    BY <2>2 DEF At, Clean, UniqueIds, Running, Sound, NextDeclared, IdsGiven, AttemptsGiven
  <2>5. RunsStayAttainable'
    BY <2>2, <2>4 DEF IInv, RunsStayAttainable, Eng!Blocked
  <2>6. LintedNeverRaises' /\ LintedEndsWithinBudget'
    BY <2>1, <2>2, <2>4 DEF LintedNeverRaises, LintedEndsWithinBudget, Sound
  <2>7. QED
    BY <1>5, <2>3, <2>4, <2>5, <2>6 DEF IInv, InGraph, InFile, InBudget
<1>7. CASE ~(t.kind = "retry" /\ Def.maxAttempts \notin Int \cup {Missing})
  <2>1. /\ path' = Append(path, t.to)
        /\ outcome' = IF t.kind \in {"next", "retry"} /\ t.to # "blocked"
                        THEN "running" ELSE "blocked"
        /\ UNCHANGED <<wf, report>>
    BY <1>1, <1>7
  <2>2. t.to \in STRING
    BY <1>0, <1>2, AtType, EmptyOrString, LintedRunAssumption
  <2>3. t.to = "blocked" \/ (UniqueIds => Edge(t.to))
    BY <1>2, EdgeType DEF Edge
  <2>4. last'.kind \in Decisions
    BY <1>2, <1>3 DEF Decisions
  <2>5. CASE outcome' = "blocked"
    BY <1>5, <2>1, <2>2, <2>3, <2>4, <2>5, MoveStep
  <2>6. CASE outcome' = "running"
    <3>1. t.kind \in {"next", "retry"} /\ t.to # "blocked"
      BY <2>1, <2>6
    <3>2. Sound => t.to \in StateIds(wf)
      <4>1. At \in StateIds(wf) /\ (Sound => Def.next \in StateIds(wf))
        BY <1>0, <1>4, AttemptingDef DEF Sound, NextDeclared
      <4>2. StateIds(wf) \subseteq STRING
        BY DEF StateIds, Declared, IsString
      <4>3. QED
        BY <1>2, <3>1, <4>1, <4>2 DEF OrEmpty, IsString
    <3>3. Budgeted => Len(path) - 1 < wf.maxTransitions
      <4>1. Budgeted => wf.maxTransitions \in Nat
        BY <1>0, CleanRules DEF Budgeted, R12, IsPositiveInt
      <4>2. QED
        BY <1>2, <3>1, <4>1
    <3>4. QED
      BY <1>5, <2>1, <2>2, <2>3, <2>4, <2>6, <3>1, <3>2, <3>3, MoveStep
  <2>7. QED
    BY <2>1, <2>5, <2>6
<1>8. QED
  BY <1>6, <1>7

-----------------------------------------------------------------------------
(* The file has been linted and the run is in its initial state.            *)
LEMMA InitHolds == Init => IInv
<1> SUFFICES ASSUME Init PROVE IInv
  OBVIOUS
<1>1. /\ wf \in Files /\ report = Reported(wf) /\ IsString(wf.initial)
      /\ path = <<wf.initial>> /\ last = NoDecision /\ outcome = "running"
  BY LintedRunAssumption DEF Init
<1>2. RunOK
  BY <1>1 DEF RunOK, NoDecision, Decisions, IsString
<1>3. At = wf.initial /\ Len(path) = 1
  BY <1>1 DEF At
<1>4. InGraph /\ RunsStayAttainable
  BY <1>3, StartReachable DEF InGraph, RunsStayAttainable
<1>5. InFile
  BY <1>2, <1>3, CleanRules DEF InFile, Sound, R20
<1>6. InBudget
  <2>1. Budgeted => wf.maxTransitions \in Int /\ wf.maxTransitions >= 1
    BY <1>2, CleanRules DEF Budgeted, R12, IsPositiveInt
  <2>2. QED
    BY <1>3, <2>1 DEF InBudget
<1>7. LintedNeverRaises /\ LintedEndsWithinBudget /\ ExitIsEarned
  BY <1>1 DEF LintedNeverRaises, LintedEndsWithinBudget, ExitIsEarned, NoDecision
<1>8. QED
  BY <1>2, <1>4, <1>5, <1>6, <1>7 DEF IInv

(* Every step of a run keeps the invariant.                                 *)
LEMMA StepHolds == IInv /\ [Next]_vars => IInv'
<1> SUFFICES ASSUME IInv, [Next]_vars PROVE IInv'
  OBVIOUS
<1>0. RunOK
  BY DEF IInv
<1>1. CASE UNCHANGED vars
  BY <1>1
  DEF vars, IInv, RunOK, InGraph, Running, UniqueIds, At, RunsStayAttainable, Eng!Blocked,
      InFile, Sound, Clean, NextDeclared, IdsGiven, AttemptsGiven, LintedNeverRaises,
      InBudget, Budgeted, LintedEndsWithinBudget, ExitIsEarned, UniqueNames
<1>2. CASE UnknownState
  <2>1. ~Sound
    BY <1>2 DEF UnknownState, IInv, InFile, Running
  <2>2. QED
    BY <1>2, <2>1, EndStep DEF UnknownState
<1>3. CASE Terminal
  BY <1>3, EndStep DEF Terminal
<1>4. CASE StepCap
  <2>1. ~(Budgeted /\ (wf.maxTransitions \in Int => wf.maxTransitions < MaxSteps))
    <3>1. Budgeted => wf.maxTransitions \in Int
      BY <1>0, CleanRules DEF Budgeted, R12, IsPositiveInt
    <3>2. Budgeted => Len(path) - 1 <= wf.maxTransitions
      BY <1>4 DEF StepCap, IInv, InBudget, Running
    <3>3. ~(Len(path) <= MaxSteps) /\ Len(path) \in Nat /\ MaxSteps \in Nat
      BY <1>0, <1>4, AtType, LintedRunAssumption DEF StepCap, StepsLeft
    <3> SUFFICES ASSUME Budgeted, wf.maxTransitions < MaxSteps PROVE FALSE
      BY <3>1
    <3> DEFINE n == Len(path)
               m == wf.maxTransitions
    <3>4. n \in Nat /\ m \in Int /\ n - 1 <= m /\ m < MaxSteps /\ ~(n <= MaxSteps)
      BY <3>1, <3>2, <3>3
    <3> HIDE DEF n, m
    <3>5. QED
      BY <3>3, <3>4
  <2>2. QED
    BY <1>4, <2>1, EndStep DEF StepCap
<1>5. CASE ActorFails
  BY <1>5, ActorFailsStep
<1>6. CASE MissingId
  <2>1. Attempting /\ \E c \in Criteria(Def) : c.id = Missing
    BY <1>6 DEF MissingId, Def
  <2>2. Def \in Entries(wf.states)
    BY <1>0, <2>1, AttemptingDef DEF Declared
  <2>3. Missing \notin STRING
    BY LintAssumption DEF NoValue
  <2>4. ~Sound
    BY <2>1, <2>2, <2>3 DEF Sound, IdsGiven, Criteria, IsString
  <2>5. QED
    BY <1>6, <2>4, EndStep DEF MissingId
<1>7. CASE RunAttempt
  BY <1>7, DecideStep DEF RunAttempt, Def
<1>8. QED
  BY <1>1, <1>2, <1>3, <1>4, <1>5, <1>6, <1>7 DEF Next

-----------------------------------------------------------------------------
(* The types of every run of every file.                                    *)
THEOREM TypeCorrect == Spec => []TypeOK
<1>1. IInv => TypeOK
  BY DEF IInv, RunOK, TypeOK, Reported, IsString
<1>2. QED
  BY <1>1, InitHolds, StepHolds, PTL DEF Spec

(* rules.py:231-283: a file that lints clean, whose next targets and ids    *)
(* are given, never makes run_session or advance raise.                     *)
THEOREM CleanFilesRun == Spec => []LintedNeverRaises
<1>1. IInv => LintedNeverRaises
  BY DEF IInv
<1>2. QED
  BY <1>1, InitHolds, StepHolds, PTL DEF Spec

(* session_loop.py:218: whatever the graph of a clean file, its budget ends *)
(* the run before the step cap does.                                        *)
THEOREM CleanFilesEnd == Spec => []LintedEndsWithinBudget
<1>1. IInv => LintedEndsWithinBudget
  BY DEF IInv
<1>2. QED
  BY <1>1, InitHolds, StepHolds, PTL DEF Spec

(* rules.py:439: in every graph, of any size, the states R21 leaves out are *)
(* states no run is ever in.                                                *)
THEOREM ReachableIsComplete == Spec => []RunsStayAttainable
<1>1. IInv => RunsStayAttainable
  BY DEF IInv
<1>2. QED
  BY <1>1, InitHolds, StepHolds, PTL DEF Spec

(* ADR 0003 D3: however many checks of whatever type a clean file has, a    *)
(* state is left through next only when each of them held.                  *)
THEOREM CleanExitIsEarned == Spec => []ExitIsEarned
<1>1. IInv => ExitIsEarned
  BY DEF IInv
<1>2. QED
  BY <1>1, InitHolds, StepHolds, PTL DEF Spec

(* producers[f] is a state of the file that declares the field.             *)
LEMMA ProducerDeclares ==
  ASSUME NEW w \in Files, NEW f, \E p \in Declared(w) : f \in Fields(p)
  PROVE  \E p \in Declared(w) : f \in Fields(p) /\ Producer(w, f) = p.id
<1> DEFINE Declares(i) == w.states[i] \in Declared(w) /\ f \in Fields(w.states[i])
           T == {i \in DOMAIN w.states : Declares(i)}
<1>1. w.states \in Seq(Definitions) /\ DOMAIN w.states = 1..Len(w.states)
  BY DEF Files
<1>2. T \in SUBSET (1..Len(w.states)) /\ T # {}
  BY <1>1 DEF Declared, Entries
<1>3. PICK m \in T : \A k \in T : k <= m
  <2>1. Len(w.states) \in Nat
    BY <1>1
  <2> HIDE DEF T
  <2>2. QED
    BY <1>2, <2>1, GreatestIndex
<1> DEFINE n == CHOOSE i \in DOMAIN w.states :
                  /\ w.states[i] \in Declared(w) /\ f \in Fields(w.states[i])
                  /\ \A k \in DOMAIN w.states :
                       w.states[k] \in Declared(w) /\ f \in Fields(w.states[k]) => k <= i
<1>4. n \in DOMAIN w.states /\ Declares(n)
  BY <1>3
<1>5. Producer(w, f) = w.states[n].id
  BY DEF Producer
<1> HIDE DEF n
<1>6. QED
  BY <1>4, <1>5

(* rules.py:478: in every file that passes R21, the fields cited by a state *)
(* a run is in are declared by a state that leads there.                    *)
THEOREM EvidenceIsDeclared == Spec => []EvidenceHasASource
<1>1. IInv => EvidenceHasASource
  <2> SUFFICES ASSUME IInv, Clean, UniqueIds, outcome = "running", At \in StateIds(wf),
                      NEW f \in Cited(Def)
               PROVE  \E d \in Declared(wf) : f \in Fields(d) /\ At \in Reachable(wf, d.id)
    BY DEF EvidenceHasASource, Def
  <2>1. wf \in Files /\ RunOK /\ IsString(wf.initial)
    BY DEF IInv, RunOK
  <2>2. Def \in Declared(wf) /\ Def.id = At
    BY <2>1, FirstOfType DEF Def
  <2>3. Def.id \in Reachable(wf, wf.initial)
    BY <2>2 DEF IInv, InGraph, Running, UniqueIds
  <2>4. /\ \E p \in Declared(wf) : f \in Fields(p)
        /\ At \in Reachable(wf, Producer(wf, f))
    BY <2>1, <2>2, <2>3, CleanRules DEF R21
  <2>5. QED
    BY <2>1, <2>4, ProducerDeclares
<1>2. QED
  BY <1>1, InitHolds, StepHolds, PTL DEF Spec

=============================================================================
