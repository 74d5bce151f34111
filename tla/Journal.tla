------------------------------- MODULE Journal --------------------------------
(***************************************************************************)
(* The session journal (session.py) as a sequence of stored blocks, and     *)
(* what the runtime reads from it (runner.py).                              *)
(*                                                                         *)
(* A block keeps the fields the control depends on: "seq" and "prev" (the   *)
(* chain), "type", "from_state" and "to_state".  "prev" stands for          *)
(* prev_hash: the position of the block whose hash was read as the          *)
(* predecessor, 0 for the 64 zeros of the first block.  Two blocks with     *)
(* equal contents have equal hashes, but they then carry equal seqs, and    *)
(* load_journal refuses one of them anyway.                                 *)
(***************************************************************************)
EXTENDS Integers, Sequences, FiniteSets

BlockTypes == {"session_opened", "transition", "session_resumed",
               "artifact_produced", "skill_invoked"}

\* The block as its writer composes it, and as _write_block stores it.
Block(seq, type, from, to) ==
  [seq |-> seq, type |-> type, from |-> from, to |-> to]

Chained(b, prev) ==
  [seq |-> b.seq, prev |-> prev, type |-> b.type, from |-> b.from, to |-> b.to]

Opened(initial) == <<Chained(Block(0, "session_opened", "", initial), 0)>>

(* load_journal accepts block i iff it names its predecessor and carries    *)
(* the expected sequence number.                                            *)
Linked(j, i) == j[i].prev = i - 1 /\ j[i].seq = i - 1

Verified(j) == Len(j) > 0 /\ \A i \in 1..Len(j) : Linked(j, i)

\* What load_journal accepts before the first block it refuses.
VerifiedPrefix(j) ==
  SubSeq(j, 1, Cardinality({i \in 1..Len(j) : \A k \in 1..i : Linked(j, k)}))

CurrentState(j) == j[Len(j)].to

EntryTypes == {"session_opened", "transition", "session_resumed"}

AttemptCount(j, s) ==
  Cardinality({i \in 1..Len(j) : j[i].to = s /\ j[i].type \in EntryTypes})

TransitionsUsed(j) == Cardinality({i \in 1..Len(j) : j[i].type = "transition"})

=============================================================================
