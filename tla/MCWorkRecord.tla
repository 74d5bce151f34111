---------------------------- MODULE MCWorkRecord ----------------------------
(***************************************************************************)
(* WorkRecord on the end of bugfix.yaml: "fix" produces a patch,            *)
(* "validation" requires it, applies it and tests it.  "fix" has a check    *)
(* more, which shares the name of the next: a slip no lint rule reports.    *)
(***************************************************************************)
EXTENDS WorkRecord

Chk(name, type, id) ==
  [name |-> name, type |-> type, id |-> id, fields |-> {}, maxUnknown |-> 0]
Asked(name, fields) ==
  [name |-> name, type |-> "context_fields_present", id |-> "", fields |-> fields,
   maxUnknown |-> 0]

MCStates == {"fix", "validation"}
MCExit == [s \in MCStates |-> IF s = "fix" THEN "validation" ELSE "done"]
MCBack == [s \in MCStates |-> {"fix"}]
MCCited == [s \in MCStates |-> {"patch"}]
MCFields == {"change_rationale"}
\* Of the two checks named "patch_ready" the first is hidden.
MCChecks ==
  [s \in MCStates |->
     IF s = "fix"
       THEN << Asked("rationale_given", MCFields),
               Chk("patch_ready", "artifact_exists", "note"),
               Chk("patch_ready", "artifact_exists", "patch") >>
       ELSE << Chk("patch_applied", "artifact_applied", "patch"),
               Chk("tested", "command_exit_zero", "command_output_tested") >>]

MCArtifacts == {"patch"}
MCTwoArtifacts == {"patch", "note"}

=============================================================================
