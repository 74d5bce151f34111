--------------------------------- MODULE Lint ---------------------------------
(***************************************************************************)
(* lint/rules.py: what "agentic lint" finds in a workflow file.  A rule is  *)
(* TRUE of a workflow when it yields a message; where it points and how it  *)
(* is worded is left out.  Every entry of a list is a mapping: the rules    *)
(* skip the others.                                                         *)
(*                                                                         *)
(* A workflow is a record; see Files.                                       *)
(***************************************************************************)
EXTENDS Integers, Sequences, FiniteSets

CONSTANTS
  Missing,    \* the key is absent
  Null,       \* the key has no value
  Other,      \* a value of another type than the schema's
  SnakeCase,  \* the strings that match [a-z][a-z0-9_]*
  Negations   \* those that match _(is_not|not_|does_not)_

NoValue == {Missing, Null, Other}
Names == STRING \cup NoValue
Numbers == Int \cup NoValue

ASSUME LintAssumption ==
  /\ NoValue \cap (STRING \cup Int \cup BOOLEAN) = {}
  /\ SnakeCase \cup Negations \subseteq STRING

References == [space : {"context", "artifacts", "checks"}, id : STRING]

\* An entry of "states", and a file, with the keys that are read.
Definitions ==
  [ id : Names, terminal : BOOLEAN \cup NoValue, next : Names,
    onFailure   : Seq([when : Names, to : Names]),
    fields      : Seq([id : Names, type : Names, vocabulary : Names]),
    checks      : Seq([name : Names, type : Names, ref : Names]),
    assertions  : Seq([id : Names, evidence : (SUBSET References) \cup NoValue]),
    produces    : Seq([id : Names, kind : Names]),
    skills      : NoValue \cup Seq([id : Names, useWhen : Names]),
    maxAttempts : Numbers, evaluatedBy : Names ]

Files ==
  [ initial : Names, states : Seq(Definitions), maxTransitions : Numbers,
    triggers : Seq([id : Names, nature : Names]),
    escapes : SUBSET STRING, vocabularies : SUBSET STRING ]

IsString(x) == x \in STRING
IsPositiveInt(x) == x \in Int /\ x >= 1

Entries(seq) == {seq[i] : i \in DOMAIN seq}

\* _iter_states: the states that have an id, in the order of the file.
Declared(wf) == {d \in Entries(wf.states) : IsString(d.id)}
StateIds(wf) == {d.id : d \in Declared(wf)}

IsTerminal(d) == d.terminal = TRUE

CheckTypes ==
  {"context_fields_present", "artifact_exists", "command_exit_zero", "artifact_applied"}
ArtifactKinds == {"diagnosis", "repro", "patch", "test_result", "decision", "note"}
Roles == {"actor", "evaluator"}

-----------------------------------------------------------------------------
R1(wf) ==
  \E d \in Declared(wf) : \E f \in Entries(d.fields) :
    f.type = "enum" /\ f.vocabulary \notin wf.vocabularies

R3(wf) ==
  \E d \in Declared(wf) :
    ~IsTerminal(d) /\ d.checks = <<>> /\ d.assertions # <<>>

R4(wf) ==
  \E d \in Declared(wf) : \E c \in Entries(d.checks) :
    c.type = "command_exit_zero" /\ IsString(c.ref) /\ c.ref \notin SnakeCase

\* Mutant: a check without a type is let through.
R5IfTyped(wf) ==
  \E d \in Declared(wf) : \E c \in Entries(d.checks) :
    IsString(c.type) /\ c.type \notin CheckTypes

R5(wf) ==
  \E d \in Declared(wf) : \E c \in Entries(d.checks) : c.type \notin CheckTypes

R6(wf) ==
  \E d \in Declared(wf) : \E a \in Entries(d.assertions) : a.evidence = Missing

R7(wf) ==
  \E d \in Declared(wf) : \E a \in Entries(d.assertions) : a.evidence = {}

R8(wf) ==
  \E d \in Declared(wf) : \E r \in Entries(d.onFailure) :
    IsString(r.when) /\ r.when \notin {a.id : a \in Entries(d.assertions)}

R9(wf) ==
  \E d \in Declared(wf) : \E r \in Entries(d.onFailure) :
    r.to \notin StateIds(wf) \cup wf.escapes

R10(wf) ==
  LET localTerminals == {d.id : d \in {e \in Declared(wf) : IsTerminal(e)}} \ wf.escapes
  IN  /\ IsString(wf.initial)
      /\ \E d \in Declared(wf) : \E r \in Entries(d.onFailure) :
           r.to \in localTerminals /\ d.id # wf.initial

\* Mutant: only values below 1 are refused.
R11IfNumber(wf) ==
  \E d \in Declared(wf) : d.maxAttempts \in Int /\ d.maxAttempts < 1

R11(wf) ==
  \E d \in Declared(wf) :
    d.maxAttempts \notin {Missing, Null} /\ ~IsPositiveInt(d.maxAttempts)

\* Mutant: only values below 1 are refused.
R12IfNumber(wf) == wf.maxTransitions \in Int /\ wf.maxTransitions < 1

R12(wf) ==
  wf.maxTransitions \notin {Missing, Null} /\ ~IsPositiveInt(wf.maxTransitions)

R13(wf) == \E t \in Entries(wf.triggers) : t.nature # "assertion"

R14(wf) ==
  \E i, k \in DOMAIN wf.states :
    /\ {wf.states[i], wf.states[k]} \subseteq Declared(wf)
    /\ \E p \in DOMAIN wf.states[i].produces, q \in DOMAIN wf.states[k].produces :
         /\ <<i, p>> # <<k, q>>
         /\ IsString(wf.states[i].produces[p].id)
         /\ wf.states[i].produces[p].id = wf.states[k].produces[q].id

R15(wf) ==
  \E d \in Declared(wf) : \E p \in Entries(d.produces) : p.kind \notin ArtifactKinds

R16(wf) == \E d \in Declared(wf) : ~IsTerminal(d) /\ d.evaluatedBy \notin Roles

R17(wf) ==
  \E d \in Declared(wf) : \E a \in Entries(d.assertions) : a.id \in Negations

R20(wf) ==
  ~(IsString(wf.initial) /\ wf.initial \in StateIds(wf)) \/ wf.initial \in wf.escapes

\* A list, an id each, no id twice within the state, prose or nothing.
R22(wf) ==
  \E d \in Declared(wf) :
    \/ d.skills = Other
    \/ /\ d.skills \notin NoValue
       /\ \/ \E k \in Entries(d.skills) :
               k.id \notin SnakeCase \/ k.useWhen \notin STRING \cup {Missing, Null}
          \/ \E i, k \in DOMAIN d.skills : i # k /\ d.skills[i].id = d.skills[k].id

-----------------------------------------------------------------------------
(* R21 works on dictionaries by state id, in which the last entry wins.     *)
LastOf(wf, id) ==
  LET n == CHOOSE i \in DOMAIN wf.states :
             /\ wf.states[i].id = id
             /\ \A k \in DOMAIN wf.states : wf.states[k].id = id => k <= i
  IN  wf.states[n]

\* Mutant: on_failure is left out of the graph.
NominalSuccessors(wf, id) ==
  IF id \in StateIds(wf) THEN {LastOf(wf, id).next} \cap STRING ELSE {}

Successors(wf, id) ==
  IF id \in StateIds(wf)
    THEN ({LastOf(wf, id).next} \cup {r.to : r \in Entries(LastOf(wf, id).onFailure)})
           \cap STRING
    ELSE {}

IsClosed(wf, ids) == \A id \in ids : Successors(wf, id) \subseteq ids

Nodes(wf) == StateIds(wf) \cup UNION {Successors(wf, id) : id \in StateIds(wf)}

\* The least set that holds start and the successors of its members.
Reachable(wf, start) ==
  {id \in Nodes(wf) \cup {start} :
     \A ids \in SUBSET (Nodes(wf) \cup {start}) :
       start \in ids /\ IsClosed(wf, ids) => id \in ids}

Fields(d) == {f.id : f \in Entries(d.fields)} \cap STRING

\* producers[f]: the last state in the file that declares the field.
Producer(wf, f) ==
  LET n == CHOOSE i \in DOMAIN wf.states :
             /\ wf.states[i] \in Declared(wf) /\ f \in Fields(wf.states[i])
             /\ \A k \in DOMAIN wf.states :
                  wf.states[k] \in Declared(wf) /\ f \in Fields(wf.states[k]) => k <= i
  IN  wf.states[n].id

\* The fields whose "context.<id>" an assertion of the state cites.
Cited(d) ==
  LET lists == {a.evidence : a \in Entries(d.assertions)} \ NoValue
  IN  {e.id : e \in {ref \in UNION lists : ref.space = "context"}}

\* Mutant: it is enough that some state declares the field.
R21IfUndeclared(wf) ==
  /\ IsString(wf.initial)
  /\ \E d \in Declared(wf) :
       /\ d.id \in Reachable(wf, wf.initial)
       /\ \E f \in Cited(d) : \A p \in Declared(wf) : f \notin Fields(p)

R21(wf) ==
  /\ IsString(wf.initial)
  /\ \E d \in Declared(wf) :
       /\ d.id \in Reachable(wf, wf.initial)
       /\ \E f \in Cited(d) :
            \/ \A p \in Declared(wf) : f \notin Fields(p)
            \/ d.id \notin Reachable(wf, Producer(wf, f))

-----------------------------------------------------------------------------
\* ALL_RULES.  R18, which repeats R8, is not among them.
Rules(wf) ==
  [R1 |-> R1(wf), R3 |-> R3(wf), R4 |-> R4(wf), R5 |-> R5(wf), R6 |-> R6(wf),
   R7 |-> R7(wf), R8 |-> R8(wf), R9 |-> R9(wf), R10 |-> R10(wf), R11 |-> R11(wf),
   R12 |-> R12(wf), R13 |-> R13(wf), R14 |-> R14(wf), R15 |-> R15(wf),
   R16 |-> R16(wf), R17 |-> R17(wf), R20 |-> R20(wf), R21 |-> R21(wf), R22 |-> R22(wf)]

Reported(wf) == LET rules == Rules(wf) IN {r \in DOMAIN rules : rules[r]}

HasErrors(report) == report \ {"R3"} # {}

\* The exit code of "agentic lint".
LintExit(report, strict) ==
  IF HasErrors(report) \/ (strict /\ report # {}) THEN 1 ELSE 0

=============================================================================
