---------------------------- MODULE SkillRuntime ----------------------------
(***************************************************************************)
(* The compiled skill: its two files, compile_skill, which replaces the    *)
(* compiled one in place, and the copy that a process keeps, which every   *)
(* readiness check replaces or drops (backend/app/knowledge/skill).        *)
(*                                                                         *)
(* A skill is a value: two files agree when they hold the same one, which  *)
(* is what the comparison of hashes, configurations and metadata decides.  *)
(* A check reads three files one after the other; a change in between can  *)
(* only make it fail, as any reading error can.                            *)
(***************************************************************************)
EXTENDS Naturals

CONSTANTS
    Skill,          \* the contents that skill.yaml may have
    Valid,          \* those that pass the schema and the semantic checks
    Torn,           \* the compiled file while it is being written
    NoSkill,        \* no artifact, nothing being compiled
    MaxEdits        \* bound on edits of skill.yaml

ASSUME SkillAssumption ==
    /\ Valid \subseteq Skill
    /\ Torn \notin Skill /\ NoSkill \notin Skill /\ Torn # NoSkill
ASSUME EditAssumption == MaxEdits \in Nat

VARIABLES
    source,         \* skill.yaml
    compiled,       \* skill.compiled.json
    compiling,      \* what a running compile_skill has read
    artifact,       \* SkillRuntime._artifact of the process
    edits

skillFiles == <<source, compiled, compiling, edits>>

SkillTypeOK ==
    /\ source \in Skill
    /\ compiled \in Skill \cup {Torn}
    /\ compiling \in Skill \cup {NoSkill}
    /\ artifact \in Skill \cup {NoSkill}
    /\ edits \in 0 .. MaxEdits

SkillInit ==
    /\ source \in Valid
    /\ compiled = source
    /\ compiling = NoSkill
    /\ artifact = NoSkill
    /\ edits = 0

EditSource ==
    /\ edits < MaxEdits
    /\ source' \in Skill \ {source}
    /\ edits' = edits + 1
    /\ UNCHANGED <<compiled, compiling, artifact>>

\* compile_skill validates the source, and then opens the compiled file for
\* writing, which empties it; an invalid source raises before that.
CompileTruncates ==
    /\ compiling = NoSkill
    /\ source \in Valid
    /\ source # compiled
    /\ compiling' = source
    /\ compiled' = Torn
    /\ UNCHANGED <<source, artifact, edits>>

CompileWrites ==
    /\ compiling # NoSkill
    /\ compiled' = compiling
    /\ compiling' = NoSkill
    /\ UNCHANGED <<source, artifact, edits>>

\* What readiness asks of the files.
Consistent == compiled \in Valid /\ compiled = source

\* readiness: the process has the artifact that is there now, or none.
CheckSkill ==
    \/ Consistent /\ artifact' = compiled
    \/ artifact' = NoSkill

SkillLoaded == artifact # NoSkill

SkillFilesNext == EditSource \/ CompileTruncates \/ CompileWrites

=============================================================================
