------------------------------- MODULE Terminals --------------------------------
(***************************************************************************)
(* The commands that write session journals (agentic run and resume, and    *)
(* record_skill_invocation), each in a process of its own, on files that    *)
(* nothing locks.  Every access to a file is a step: the load that gives a  *)
(* command its state and its sequence number, the read of the last line in  *)
(* append_block, the write.  So what a command writes may rest on a journal *)
(* that is no longer what it was.  A write may be cut short; its process is *)
(* then gone.                                                               *)
(*                                                                         *)
(* What a run decides is any state, and how many blocks it writes is not    *)
(* limited: SessionCalls says what it decides.  open() and the flush of one *)
(* line are one step.                                                       *)
(***************************************************************************)
EXTENDS JournalFile

CONSTANTS
  Processes,
  Sessions,   \* ids cmd_run may draw
  States,     \* the states of the workflow
  Initial,
  Texts,      \* the kinds of text a block may contain
  MaxLines    \* bound, by session: no append starts on a file of that many lines

Blocked == "blocked"
None == "none"
Names == States \cup {Blocked, None}

ASSUME TerminalsAssumption ==
  /\ Initial \in States
  /\ Blocked \notin States /\ None \notin States
  /\ Texts \subseteq TextKinds
  /\ MaxLines \in [Sessions -> Nat]
  /\ None \notin Sessions

VARIABLES
  files,  \* sessions/<id>/session.jsonl
  acked,  \* blocks whose append returned, by session
  hand    \* by process: where it is, and what it has read and not yet used

(* "seq" numbers the next block; "tip" is the line append_block has read as *)
(* the last one, 0 when it has read none.                                   *)
Idle == [at |-> "idle", session |-> None, state |-> None, seq |-> 0, tip |-> 0]

File(p) == files[hand[p].session]

Opens(at, s, seq) ==
  [at |-> at, session |-> s, state |-> None, seq |-> seq, tip |-> 0]

Goto(p, at, state, seq) ==
  /\ hand' = [hand EXCEPT ![p].at = at, ![p].state = state, ![p].seq = seq]
  /\ UNCHANGED <<files, acked>>

-----------------------------------------------------------------------------
(* Reading.  Wherever load_journal or append_block raises, the command is   *)
(* at its end (Ends).  Two loads with nothing written between them are one. *)

\* The head of the loop.  A terminal or blocked state is the end of the run.
Load(p) ==
  /\ hand[p].at = "loop"
  /\ Loads(File(p))
  /\ StateIn(File(p)) \in States
  /\ Goto(p, "actor", StateIn(File(p)), 0)

(* The actor's work is numbered after the journal as it is now, but is work *)
(* in the state that was read before the actor ran; so is its failure.      *)
ActorReturns(p, at) ==
  /\ hand[p].at = "actor"
  /\ Loads(File(p))
  /\ Goto(p, at, hand[p].state, Len(File(p).lines))

\* run_attempt reads state and number together, before its checks.
BeginAttempt(p) ==
  /\ hand[p].at = "work" /\ hand[p].tip = 0
  /\ Loads(File(p))
  /\ StateIn(File(p)) \in States
  /\ Goto(p, "checks", StateIn(File(p)), Len(File(p).lines))

\* _load_artifacts verifies the journal once more; then checks and evaluator.
Judge(p) ==
  /\ hand[p].at = "checks"
  /\ Loads(File(p))
  /\ Goto(p, "judged", hand[p].state, hand[p].seq)

\* cmd_resume: whatever the session's state.
BeginResume(p, s) ==
  /\ hand[p] = Idle
  /\ Loads(files[s])
  /\ hand' = [hand EXCEPT ![p] = Opens("resume", s, Len(files[s].lines))]
  /\ UNCHANGED <<files, acked>>

\* record_skill_invocation: _last_seq reads nothing but the last line.
BeginSkill(p, s) ==
  /\ hand[p] = Idle
  /\ CanAppend(files[s])
  /\ LET lines == files[s].lines
     IN  hand' = [hand EXCEPT ![p] = Opens("skill", s, lines[Len(lines)][1].seq + 1)]
  /\ UNCHANGED <<files, acked>>

Room(s) == Len(files[s].lines) < MaxLines[s]

Writing == {"work", "failed", "judged", "resume", "skill"}

\* append_block up to the write.
ReadTip(p) ==
  /\ hand[p].at \in Writing /\ hand[p].tip = 0
  /\ Room(hand[p].session)
  /\ CanAppend(File(p))
  /\ hand' = [hand EXCEPT ![p].tip = Len(File(p).lines)]
  /\ UNCHANGED <<files, acked>>

-----------------------------------------------------------------------------
(* Writing.                                                                 *)
Write(s, b, cut) ==
  /\ \E text \in Texts :
       /\ Possible(cut, text)
       /\ files' = [files EXCEPT ![s] = WriteBlock(@, b, text, cut)]
  /\ acked' = IF cut = "complete" THEN [acked EXCEPT ![s] = @ \cup {b}] ELSE acked

(* new_session in the fresh directory of cmd_run.  A missing actor or       *)
(* evaluator is noticed after it: the session then stays as it is.          *)
Create(p, s, cut, goes) ==
  /\ hand[p] = Idle
  /\ ~files[s].exists
  /\ Write(s, Chained(Block(0, "session_opened", None, Initial), 0), cut)
  /\ hand' = [hand EXCEPT ![p] =
                IF cut = "complete" /\ goes THEN Opens("loop", s, 0) ELSE Idle]

\* Mutant: the number read again with the last line.
NumberReread(p) == Len(File(p).lines)

Number(p) == hand[p].seq

Append1(p, type, from, to, cut, next) ==
  /\ hand[p].tip > 0
  /\ Write(hand[p].session, Chained(Block(Number(p), type, from, to), hand[p].tip), cut)
  /\ hand' = [hand EXCEPT ![p] = IF cut = "complete" THEN next ELSE Idle]

\* An artifact of the actor's, or the output of a command check.
Produce(p, cut) ==
  /\ hand[p].at \in {"work", "judged"}
  /\ Append1(p, "artifact_produced", hand[p].state, hand[p].state, cut,
             [hand[p] EXCEPT !.seq = @ + 1, !.tip = 0])

\* A blocked run returns, a run whose actor failed too; any other loads again.
Decide(p, to, cut) ==
  /\ hand[p].at = "judged" \/ (hand[p].at = "failed" /\ to = Blocked)
  /\ Append1(p, "transition", hand[p].state, to, cut,
             IF to = Blocked THEN Idle ELSE Opens("loop", hand[p].session, 0))

Resume(p, to, cut) ==
  /\ hand[p].at = "resume"
  /\ Append1(p, "session_resumed", Blocked, to, cut, Idle)

RecordSkill(p, cut) ==
  /\ hand[p].at = "skill"
  /\ Append1(p, "skill_invoked", None, None, cut, Idle)

-----------------------------------------------------------------------------
(* It is done, or raises, or is killed.                                     *)
Ends(p) ==
  /\ hand[p] # Idle
  /\ hand' = [hand EXCEPT ![p] = Idle]
  /\ UNCHANGED <<files, acked>>

RunReads(p) ==
  \/ Load(p)
  \/ \E at \in {"work", "failed"} : ActorReturns(p, at)
  \/ BeginAttempt(p)
  \/ Judge(p)

RunWrites(p, cut) ==
  \/ Produce(p, cut)
  \/ \E to \in States \cup {Blocked} : Decide(p, to, cut)

=============================================================================
