---------------------------- MODULE DeskProperties ----------------------------
(***************************************************************************)
(* What becomes of a session whose journal was written only in part, or by  *)
(* several terminals at once, and what the menu shows and does.             *)
(***************************************************************************)
EXTENDS Desk

StoredBlocks ==
  [seq : Nat, prev : Nat, type : BlockTypes, from : Names, to : Names]

IsLine(line) == line = Garbled \/ (Len(line) = 1 /\ line[1] \in StoredBlocks)

Entries == [id : Sessions, valid : BOOLEAN]

Hands ==
  [at : {"idle", "loop", "actor", "work", "failed", "checks", "judged", "resume", "skill"},
   session : Sessions \cup {None}, state : States \cup {None}, seq : Nat, tip : Nat]

(* The type of every variable; a resume from the menu always has a state to *)
(* go to, also when the last block, a skill's, has none.                    *)
TypeOK ==
  /\ \A s \in Sessions :
       /\ files[s].exists \in BOOLEAN /\ files[s].ended \in BOOLEAN
       /\ files[s].utf8 \in BOOLEAN
       /\ \A i \in DOMAIN files[s].lines : IsLine(files[s].lines[i])
       /\ ~files[s].exists => files[s] = NoFile
  /\ \A s \in Sessions : acked[s] \subseteq StoredBlocks
  /\ hand \in [Processes -> Hands]
  /\ versions \subseteq Versions
  /\ at \in {"list", "shown", "submenu", "resume", "resuming", "running", "crashed"}
  /\ \A i \in DOMAIN menu.workflows : menu.workflows[i] \in Versions
  /\ \A i \in DOMAIN menu.sessions : menu.sessions[i] \in Entries
  /\ chosen \in Sessions \cup {None}
  /\ target \in IF at \in {"resume", "resuming"} THEN States \cup {Blocked} ELSE {None}

-----------------------------------------------------------------------------
\* What a load returns, or would if it stopped before the line it refuses.
Readable(s) == Range(Intact(files[s]))

(* Wherever a write is cut and whatever two terminals append over each      *)
(* other, no block whose append returned is ever silently lost: as long as  *)
(* load_journal accepts the journal, it returns them all.                   *)
NothingLostSilently ==
  \A s \in Sessions : Loads(files[s]) => acked[s] \subseteq Readable(s)

(* A block whose append returned and that a load could return, or would     *)
(* before the line it refuses, is never taken away again: not by a stale    *)
(* writer, not by one that is cut short.  (A stale writer's own block may   *)
(* be lost from the start: its append returns although no load accepts it.) *)
ReadableStaysReadable ==
  [][\A s \in Sessions :
       UNCHANGED files[s] \/ acked[s] \cap Readable(s) \subseteq Readable(s)']_vars

(* "Raises ... without attempting repair" (session.py:127): once            *)
(* load_journal refuses a journal it refuses it for good.  append_block,    *)
(* which looks at the last line only, goes on writing there for a skill or  *)
(* for a command that loaded the journal before; but what can be read       *)
(* before the damage stays exactly what it was.                             *)
RefusedForGood ==
  [][\A s \in Sessions :
       \/ UNCHANGED files[s]
       \/ files[s].exists /\ ~Loads(files[s])
            => ~Loads(files[s])' /\ Intact(files[s])' = Intact(files[s])]_vars

(* A menu that was listed before still tells the truth about damage when    *)
(* the user chooses from it: a session it marks as invalid is invalid, and  *)
(* the menu never ends in a traceback unless some session is.               *)
MenuTellsDamage ==
  /\ \A i \in DOMAIN menu.sessions :
       ~menu.sessions[i].valid => ~Loads(files[menu.sessions[i].id])
  /\ at = "crashed" => \E s \in Sessions : files[s].exists /\ ~Loads(files[s])

(* Whichever workflow the user chooses, cmd_run runs no lower version than  *)
(* the one shown at that number whose number has as many digits, also when  *)
(* directories were added since the menu was built.  Across digits nothing  *)
(* of the kind holds: "v10" sorts before "v9", so that choosing the row of  *)
(* v10 runs v9, although ui.py:11 and :36 say "newest version first".       *)
NeverOlderThanShown ==
  at = "shown" =>
    \A number \in 1..Len(menu.workflows) :
      LET shown == menu.workflows[number]
      IN  Digits[Resolved] = Digits[shown] => Resolved >= shown

-----------------------------------------------------------------------------
(* All of it in one: read as what load_journal accepts of it, whether it    *)
(* refuses the rest, and what its writers were told, every session file     *)
(* behaves as SessionStore says, whatever the terminals do at the same      *)
(* time.  Damage happens once and is final, and takes away one block that   *)
(* nobody was told of or none; until then every block carries the number    *)
(* and the hash that come next, and only an artifact and an actor's failure *)
(* may name a state that the session has left meanwhile.                    *)
Logs == [s \in Sessions |-> Intact(files[s])]

Damaged == [s \in Sessions |-> files[s].exists /\ ~Loads(files[s])]

Store == INSTANCE SessionStore WITH log <- Logs, damaged <- Damaged, told <- acked

RefinesStore == Store!Spec

-----------------------------------------------------------------------------
(* What the documentation says and the code does not do.                    *)

(* ADR 0004 D2: "Chaque bloc est un objet JSON sur une seule ligne", so a   *)
(* block whose append returned is a block the next load returns, as long as *)
(* no two commands write on one session.                                    *)
ReadBack ==
  \A s \in Sessions : acked[s] # {} => Loads(files[s])

=============================================================================
