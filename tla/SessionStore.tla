----------------------------- MODULE SessionStore -----------------------------
(***************************************************************************)
(* What a project's session files promise, with no text, no lines and no    *)
(* menu: each session is a log of numbered and chained blocks.  A write     *)
(* adds its block, or damages the log for good; a block its writer was told *)
(* of is never the one taken away.  A writer whose block was lost may have  *)
(* been told that it was written.                                           *)
(***************************************************************************)
EXTENDS Journal

CONSTANTS Sessions, States, Initial, Blocked, None

VARIABLES
  log,      \* by session: what load_journal accepts
  damaged,  \* by session: load_journal refuses what follows
  told      \* by session: the blocks whose append returned

Init ==
  /\ log = [s \in Sessions |-> <<>>]
  /\ damaged = [s \in Sessions |-> FALSE]
  /\ told = [s \in Sessions |-> {}]

Reachable == States \cup {Blocked}

(* What may come after log j.  Only the first block opens the session.  A   *)
(* decision is made in the state the log is in: a decision about another    *)
(* state finds its number taken.  The actor's artifacts and its failure are *)
(* numbered after it has run, and keep the state it was given before.       *)
Following(j) ==
  LET n == Len(j)
      Made(type, from, to) == Chained(Block(n, type, from, to), n)
      s == CurrentState(j)
  IN  IF n = 0 THEN {Made("session_opened", None, Initial)}
      ELSE {Made("session_resumed", Blocked, to) : to \in Reachable}
        \cup {Made("skill_invoked", None, None)}
        \cup {Made("transition", t, to) : t \in States \cap {s}, to \in Reachable}
        \cup {Made("transition", t, Blocked) : t \in States}
        \cup {Made("artifact_produced", t, t) : t \in States}

\* The writer of b learns that it was written, or it is gone before it could.
Answer(s, b) == told' = told \/ told' = [told EXCEPT ![s] = @ \cup {b}]

\* The first conjunct of each follows from the second: TLC looks at it first.
Grow(s) ==
  /\ Len(log'[s]) = Len(log[s]) + 1
  /\ \E b \in Following(log[s]) :
       /\ log' = [log EXCEPT ![s] = Append(@, b)]
       /\ Answer(s, b)
  /\ UNCHANGED damaged

\* Some writer of s, whose block is lost, is told that it was written.
Mistaken(s) == told' = told \/ \E b \in told'[s] : Answer(s, b)

TakesBack(s) ==
  LET n == Len(log[s])
  IN  /\ n > 0
      /\ log[s][n] \notin told[s]
      /\ log' = [log EXCEPT ![s] = SubSeq(@, 1, n - 1)]

Damage(s) ==
  /\ damaged'[s]
  /\ damaged' = [damaged EXCEPT ![s] = TRUE]
  /\ log' = log \/ TakesBack(s)
  /\ Mistaken(s)

\* Whatever is written after the damage.
Waste(s) ==
  /\ Mistaken(s)
  /\ UNCHANGED <<log, damaged>>

Next == \E s \in Sessions : IF damaged[s] THEN Waste(s) ELSE Grow(s) \/ Damage(s)

vars == <<log, damaged, told>>

Spec == Init /\ [][Next]_vars

=============================================================================
