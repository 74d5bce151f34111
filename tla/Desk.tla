--------------------------------- MODULE Desk ---------------------------------
(***************************************************************************)
(* A project's sessions as the person at the keyboard has them: the         *)
(* interactive menu (cmd_menu in cli.py, ui.py), which runs its commands in *)
(* its own process, and other terminals in which the commands run.  status  *)
(* and log only read.                                                       *)
(***************************************************************************)
EXTENDS Terminals, SequencesExt

CONSTANTS
  Menu,       \* the menu's process
  Versions,   \* the N of the directories workflows/v<N>
  SortKey,    \* what sorted() goes by: the position of "v<N>" in lexical order
  Digits      \* how many digits N has

ASSUME DeskAssumption ==
  /\ Menu \in Processes
  /\ Versions \subseteq Nat /\ IsFiniteSet(Versions)
  /\ SortKey \in [Versions -> Nat]
  /\ Digits \in [Versions -> Nat]
  /\ \A v, w \in Versions : SortKey[v] = SortKey[w] => v = w
  /\ \A v, w \in Versions :
       Digits[v] = Digits[w] => (v < w <=> SortKey[v] < SortKey[w])

VARIABLES
  versions,  \* the workflow directories that hold the workflow
  at,        \* where the menu is: in "list" its lists are still to be built
  menu,      \* the lists it shows, read when it was built
  chosen,    \* the session chosen in it
  target     \* the state it resumes the session into

vars == <<files, acked, hand, versions, at, menu, chosen, target>>
fileVars == <<files, acked, hand>>
menuVars == <<at, menu, chosen, target>>

NoMenu == [workflows |-> <<>>, sessions |-> <<>>]

Init ==
  /\ files = [s \in Sessions |-> NoFile]
  /\ acked = [s \in Sessions |-> {}]
  /\ hand = [p \in Processes |-> Idle]
  /\ versions \in SUBSET Versions
  /\ at = "list"
  /\ menu = NoMenu
  /\ chosen = None
  /\ target = None

-----------------------------------------------------------------------------
(* Other terminals.                                                         *)
Elsewhere == Processes \ {Menu}

\* cmd_run.
Run(p, s, cut, goes) ==
  /\ versions # {}
  /\ Create(p, s, cut, goes)
  /\ UNCHANGED <<versions, menuVars>>

Begins(p, s) ==
  /\ BeginResume(p, s) \/ BeginSkill(p, s)
  /\ UNCHANGED <<versions, menuVars>>

\* What a command in a terminal does once it is started.
Reads(p) ==
  /\ RunReads(p) \/ ReadTip(p) \/ Ends(p)
  /\ UNCHANGED <<versions, menuVars>>

Writes(p, cut) ==
  /\ \/ RunWrites(p, cut)
     \/ \E to \in States \cup {Blocked} : Resume(p, to, cut)
     \/ RecordSkill(p, cut)
  /\ UNCHANGED <<versions, menuVars>>

\* A human adds the workflow to another directory.
AddVersion(v) ==
  /\ v \in Versions \ versions
  /\ versions' = versions \cup {v}
  /\ UNCHANGED <<fileVars, menuVars>>

-----------------------------------------------------------------------------
(* The menu.                                                                *)

\* Mutant: directories in ascending order.
ListedAscending ==
  [i \in 1..Cardinality(versions) |->
     CHOOSE v \in versions :
       Cardinality({w \in versions : SortKey[w] < SortKey[v]}) = i - 1]

Newer(v) == {w \in versions : SortKey[w] > SortKey[v]}

\* sorted(vdir.iterdir(), reverse=True): i - 1 directories come before the ith.
Listed ==
  [i \in 1..Cardinality(versions) |->
     CHOOSE v \in versions : Cardinality(Newer(v)) = i - 1]

(* _resolve_workflow_path: the first directory that holds the workflow,     *)
(* whichever row of the menu was chosen: its id is all cmd_run is given.    *)
Resolved == Listed[1]

(* build_menu, when the menu is opened and after every choice.  Sessions    *)
(* come in the order of their directories' mtime, which is not the order of *)
(* their blocks.  Only SessionIntegrityViolation is caught.                 *)
Build ==
  /\ at \in {"list", "crashed"}
  /\ IF \E s \in Sessions : Undecodable(files[s])
       THEN at' = "crashed" /\ UNCHANGED menu
       ELSE /\ \E order \in SetToSeqs({s \in Sessions : files[s].exists}) :
                 menu' = [workflows |-> Listed,
                          sessions |-> [i \in DOMAIN order |->
                                          [id |-> order[i], valid |-> Loads(files[order[i]])]]]
            /\ at' = "shown"
  /\ UNCHANGED <<fileVars, versions, chosen, target>>

(* Another place of the menu; the lists are built anew before they are read *)
(* again.                                                                   *)
Enter(label, session, state) ==
  /\ at' = label
  /\ menu' = NoMenu
  /\ chosen' = session
  /\ target' = state

Leave(label) == Enter(label, None, None)

\* 0, an empty line, the end of the input; it may be opened again.
Quit ==
  /\ at \in {"shown", "submenu"}
  /\ Leave("list")
  /\ UNCHANGED <<fileVars, versions>>

\* action_from_menu: workflows are numbered 1..N, sessions N+1..N+M.
SessionAt(number) == menu.sessions[number - Len(menu.workflows)].id

(* cmd_run from the menu: the menu waits for it.                            *)
ChooseWorkflow(number, s, cut, goes) ==
  /\ at = "shown"
  /\ number \in 1..Len(menu.workflows)
  /\ Create(Menu, s, cut, goes)
  /\ Leave(IF cut = "complete" /\ goes THEN "running" ELSE "list")
  /\ UNCHANGED versions

ChooseSession(number) ==
  /\ at = "shown"
  /\ number \in Len(menu.workflows) + 1 .. Len(menu.workflows) + Len(menu.sessions)
  /\ Enter("submenu", SessionAt(number), None)
  /\ UNCHANGED <<fileVars, versions>>

(* "2": cmd_log catches SessionIntegrityViolation; so does build_menu       *)
(* after it.  "" and anything else go back to the list, too.                *)
ShowLog ==
  /\ at = "submenu"
  /\ Leave(IF Undecodable(files[chosen]) THEN "crashed" ELSE "list")
  /\ UNCHANGED <<fileVars, versions>>

\* Mutant: the last block's state as it is.
LastStateOrNone(s) == StateIn(files[s])

\* last or "blocked": a skill block has no state.
LastState(s) == IF StateIn(files[s]) = None THEN Blocked ELSE StateIn(files[s])

(* "1": the menu loads the journal itself, outside of any handler.          *)
ChooseResume ==
  /\ at = "submenu"
  /\ IF Loads(files[chosen])
       THEN Enter("resume", chosen, LastState(chosen))
       ELSE Leave("crashed")
  /\ UNCHANGED <<fileVars, versions>>

(* cmd_resume loads it again, twice; it reports what the first load refuses *)
(* and raises what the second does.                                         *)
MenuBeginsResume ==
  /\ at = "resume"
  /\ BeginResume(Menu, chosen)
  /\ Enter("resuming", chosen, target)
  /\ UNCHANGED versions

MenuCannotBegin ==
  /\ at = "resume"
  /\ ~Loads(files[chosen])
  /\ \/ Leave("crashed")
     \/ ~Undecodable(files[chosen]) /\ Leave("list")
  /\ UNCHANGED <<fileVars, versions>>

MenuResumes(cut) ==
  /\ at = "resuming"
  /\ Resume(Menu, target, cut)
  /\ Leave("list")
  /\ UNCHANGED versions

MenuCannotResume ==
  /\ at = "resuming"
  /\ hand[Menu].tip = 0 /\ ~CanAppend(files[chosen])
  /\ Ends(Menu)
  /\ Leave("crashed")
  /\ UNCHANGED versions

\* What the menu's own command reads and writes.
MenuReads ==
  /\ RunReads(Menu) \/ ReadTip(Menu)
  /\ UNCHANGED <<versions, menuVars>>

MenuWrites(cut) ==
  /\ RunWrites(Menu, cut)
  /\ IF cut = "complete" THEN UNCHANGED menuVars ELSE Leave("list")
  /\ UNCHANGED versions

(* cmd_run catches every exception of its run; or the terminal is closed    *)
(* while the menu waits.                                                    *)
CommandEnds ==
  /\ at \in {"running", "resuming"}
  /\ Ends(Menu) \/ (hand[Menu] = Idle /\ UNCHANGED fileVars)
  /\ Leave("list")
  /\ UNCHANGED versions

-----------------------------------------------------------------------------
Numbers == 1 .. Len(menu.workflows) + Len(menu.sessions)

Next ==
  \/ \E p \in Elsewhere :
       \/ \E s \in Sessions :
            \/ \E cut \in WriteCuts, goes \in BOOLEAN : Run(p, s, cut, goes)
            \/ Begins(p, s)
       \/ Reads(p)
       \/ \E cut \in WriteCuts : Writes(p, cut)
  \/ \E v \in Versions : AddVersion(v)
  \/ Build \/ Quit
  \/ \E number \in Numbers, s \in Sessions, cut \in WriteCuts, goes \in BOOLEAN :
       ChooseWorkflow(number, s, cut, goes)
  \/ \E number \in Numbers : ChooseSession(number)
  \/ ShowLog \/ ChooseResume
  \/ MenuBeginsResume \/ MenuCannotBegin \/ MenuCannotResume
  \/ \E cut \in WriteCuts : MenuResumes(cut) \/ MenuWrites(cut)
  \/ MenuReads \/ CommandEnds

Spec == Init /\ [][Next]_vars

=============================================================================
