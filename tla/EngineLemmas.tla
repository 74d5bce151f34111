----------------------------- MODULE EngineLemmas -----------------------------
(***************************************************************************)
(* What engine.advance returns, for every workflow.                         *)
(***************************************************************************)
EXTENDS Engine, WellFoundedInduction, TLAPS

(* A nonempty set of naturals has a least element.                          *)
LEMMA LeastNatural ==
  ASSUME NEW T \in SUBSET Nat, T # {}
  PROVE  \E m \in T : \A k \in T : m <= k
<1>1. PICK m \in T : \A k \in T : ~(<<k, m>> \in OpToRel(<, Nat))
  BY WFMin, NatLessThanWellFounded, Zenon
<1>2. ASSUME NEW k \in T
      PROVE  ~(k < m)
  <2> DEFINE pair == <<k, m>>
  <2>1. pair \in Nat \X Nat /\ pair[1] = k /\ pair[2] = m
    OBVIOUS
  <2>2. pair \notin OpToRel(<, Nat)
    BY <1>1, Zenon
  <2> HIDE DEF pair
  <2>3. pair \in OpToRel(<, Nat) <=> pair \in Nat \X Nat /\ pair[1] < pair[2]
    BY Zenon DEF OpToRel
  <2>4. QED
    BY <2>1, <2>2, <2>3, Zenon
<1>3. QED
  BY <1>2

(* When a failure rule fires, the first one that does is a rule of the      *)
(* state and fires.                                                         *)
LEMMA FirstFiredIsFired ==
  ASSUME NEW s \in States, NEW v, FiredRules(s, v) # {}
  PROVE  /\ FirstFired(s, v) \in FiredRules(s, v)
         /\ FirstFired(s, v) \in DOMAIN StateDef[s].onFailure
<1>1. StateDef[s].onFailure \in Seq(OnFailureRules)
  BY WorkflowAssumption DEF StateDefs
<1>2. FiredRules(s, v) \in SUBSET Nat
  BY <1>1 DEF FiredRules
<1>3. \E i \in FiredRules(s, v) : \A k \in FiredRules(s, v) : i <= k
  BY <1>2, LeastNatural
<1>4. FirstFired(s, v) \in FiredRules(s, v)
  BY <1>3 DEF FirstFired
<1>5. QED
  BY <1>4 DEF FiredRules

(* The engine names a state of the workflow file, and one of the six kinds. *)
LEMMA AdvanceType ==
  ASSUME NEW s, NEW attempt, NEW used, NEW v
  PROVE  Advance(s, attempt, used, v) \in [to : Names, kind : Kinds]
<1>1. {Blocked, None} \subseteq Names /\ States \subseteq Names
  BY WorkflowAssumption
<1>2. ASSUME s \in States
      PROVE  StateDef[s].next \in Names
  BY <1>2, WorkflowAssumption DEF StateDefs
<1>3. ASSUME s \in States, FiredRules(s, v) # {}
      PROVE  StateDef[s].onFailure[FirstFired(s, v)].to \in Names
  <2>1. StateDef[s].onFailure \in Seq(OnFailureRules)
    BY <1>3, WorkflowAssumption DEF StateDefs
  <2>2. FirstFired(s, v) \in DOMAIN StateDef[s].onFailure
    BY <1>3, FirstFiredIsFired
  <2>3. StateDef[s].onFailure[FirstFired(s, v)] \in OnFailureRules
    BY <2>1, <2>2
  <2>4. QED
    BY <2>3 DEF OnFailureRules
<1>4. QED
  BY <1>1, <1>2, <1>3 DEF Advance, Transition, Kinds

(* With the budget spent, the only decision about a running state is the    *)
(* one that stops it.                                                       *)
LEMMA SpentBudgetBlocks ==
  ASSUME NEW s \in NonTerminal, NEW attempt, NEW used, NEW v, BudgetSpent(used)
  PROVE  Advance(s, attempt, used, v) = Transition(Blocked, "budget")
BY DEF Advance, NonTerminal

=============================================================================
