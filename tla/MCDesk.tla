------------------------------- MODULE MCDesk --------------------------------
(***************************************************************************)
(* The menu and one more terminal, and one session of a workflow that is in *)
(* workflows/v8, v9 and v10: "v10" sorts before "v8".                       *)
(***************************************************************************)
EXTENDS DeskProperties

MCProcesses == {"menu", "terminal"}
MCStates == {"fix"}
MCVersions == {8, 9, 10}
MCSortKey == [v \in MCVersions |-> IF v = 10 THEN 1 ELSE v]
MCDigits == [v \in MCVersions |-> IF v = 10 THEN 2 ELSE 1]
MCTexts == {"ascii", "separator"}
MCSessions == {"bugfix-1"}
MCMaxLines == [s \in MCSessions |-> 3]

=============================================================================
