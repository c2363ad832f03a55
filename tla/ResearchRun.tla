------------------------------ MODULE ResearchRun ------------------------------
(***************************************************************************)
(* The offline analysis of backend/app/research.py: one run after another  *)
(* over the Markdown files, each taking up the checkpoint of the last.     *)
(*                                                                         *)
(* A file's content is a number, and its SHA-256 tells numbers apart.  An  *)
(* analysis succeeds, or fails: the model call raises, or its output is    *)
(* rejected.  Files are edited at any time; a run works on the contents it *)
(* read when it began.  A run may be killed at any step.                   *)
(***************************************************************************)
EXTENDS Naturals, Sequences, Functions

CONSTANTS
    Docs,           \* the number of files; they are taken in order of path
    MaxEdits,       \* bound on edits
    MaxRuns,        \* bound on runs
    MaxCrashes      \* bound on the runs that are killed

Doc == 1 .. Docs

ASSUME DocsAssumption == Docs \in Nat \ {0}
ASSUME BoundsAssumption == MaxEdits \in Nat /\ MaxRuns \in Nat /\ MaxCrashes \in Nat

VARIABLES
    disk,           \* disk[d]: the content of file d
    edits, runs, crashes,   \* how often each happened
    pc,             \* idle, scanning, saving (in memory) or replacing (written)
    content,        \* content[d]: what this run read
    completed,      \* completed[d]: the record load_checkpoint has of d, if any
    results,        \* the records of this run
    checkpoint,     \* the records in the checkpoint file
    report,         \* the records in the output file
    paid,           \* history: the successful analyses, as <<file, content>>
    fresh,          \* history: the records this run did not take over
    redone          \* history: files analysed again although nothing changed

vars == <<disk, edits, runs, crashes, pc, content, completed, results,
          checkpoint, report, paid, fresh, redone>>
history == <<paid, fresh, redone>>

Record == [source : Doc, sha : Nat, status : {"ok", "failed"}]

TypeOK ==
    /\ disk \in [Doc -> 0 .. MaxEdits] /\ content \in [Doc -> 0 .. MaxEdits]
    /\ edits \in 0 .. MaxEdits /\ runs \in 0 .. MaxRuns /\ crashes \in 0 .. MaxCrashes
    /\ pc \in {"idle", "scanning", "saving", "replacing"}
    /\ \A d \in Doc : \A r \in completed[d] : r \in Record /\ r.source = d
    /\ \A s \in {results, checkpoint, report} :
        Range(s) \subseteq Record /\ \A i \in DOMAIN s : s[i].source = i
    /\ paid \subseteq Doc \X Nat /\ redone \subseteq Doc
    /\ fresh \subseteq Record

Init ==
    /\ disk = [d \in Doc |-> 0] /\ content = [d \in Doc |-> 0]
    /\ edits = 0 /\ runs = 0 /\ crashes = 0
    /\ pc = "idle"
    /\ completed = [d \in Doc |-> {}]
    /\ results = <<>> /\ checkpoint = <<>> /\ report = <<>>
    /\ paid = {} /\ fresh = {} /\ redone = {}

-----------------------------------------------------------------------------
(* As elsewhere, a slip is a mistake that some property must catch in the      *)
(* definition that follows it, and is used by no action.                       *)

\* Slip: a failed record is taken over as well.
AnyRecord(file, d) == {r \in Range(file) : r.source = d}

\* load_checkpoint: the successful record of each file.
Loaded(file, d) == {r \in Range(file) : r.source = d /\ r.status = "ok"}

\* The record that is taken over for file d: it is of this very content.
Previous(d) == {r \in completed[d] : r.sha = content[d]}

\* Slip: only what this run has analysed is saved.
OnlyFresh(rs) == SelectSeq(rs, LAMBDA r : r \in fresh)

\* What save_checkpoint is given.
Saved(rs) == rs

\* Slip: a file is passed over.
SkippedDoc == Len(results) + 2

\* The file whose record is made next.
NextDoc == Len(results) + 1
RecordOf(d, status) == [source |-> d, sha |-> content[d], status |-> status]

Edit(d) ==
    /\ edits < MaxEdits
    /\ edits' = edits + 1
    /\ disk' = [disk EXCEPT ![d] = edits + 1]
    /\ UNCHANGED <<runs, crashes, pc, content, completed, results, checkpoint, report, history>>

\* A run loads the checkpoint and reads every file.
StartRun ==
    /\ pc = "idle" /\ runs < MaxRuns
    /\ runs' = runs + 1
    /\ completed' = [d \in Doc |-> Loaded(checkpoint, d)]
    /\ content' = disk
    /\ results' = <<>>
    /\ fresh' = {}
    /\ pc' = "scanning"
    /\ UNCHANGED <<disk, edits, crashes, checkpoint, report, paid, redone>>

\* The record of the next file is taken over as it is.  Nothing is saved.
Reuse ==
    /\ pc = "scanning" /\ NextDoc \in Doc
    /\ \E previous \in Previous(NextDoc) : results' = Append(results, previous)
    /\ UNCHANGED <<disk, edits, runs, crashes, pc, content, completed, checkpoint, report, history>>

\* The next file is analysed; a failure is a record too.
Analyze(status) ==
    /\ pc = "scanning" /\ NextDoc \in Doc
    /\ Previous(NextDoc) = {}
    /\ LET d == NextDoc IN
        /\ results' = Append(results, RecordOf(d, status))
        /\ fresh' = fresh \cup {RecordOf(d, status)}
        /\ paid' = IF status = "ok" THEN paid \cup {<<d, content[d]>>} ELSE paid
        /\ redone' = IF <<d, content[d]>> \in paid THEN redone \cup {d} ELSE redone
    /\ pc' = "saving"
    /\ UNCHANGED <<disk, edits, runs, crashes, content, completed, checkpoint, report>>

\* save_checkpoint writes the temporary file; the checkpoint is as it was.
WriteTemporary ==
    /\ pc = "saving"
    /\ pc' = "replacing"
    /\ UNCHANGED <<disk, edits, runs, crashes, content, completed, results, checkpoint, report, history>>

\* save_checkpoint puts the temporary file in the checkpoint's place.
ReplaceCheckpoint ==
    /\ pc = "replacing"
    /\ checkpoint' = Saved(results)
    /\ pc' = "scanning"
    /\ UNCHANGED <<disk, edits, runs, crashes, content, completed, results, report, history>>

\* main writes the report.
Finish ==
    /\ pc = "scanning" /\ NextDoc \notin Doc
    /\ report' = results
    /\ pc' = "idle"
    /\ UNCHANGED <<disk, edits, runs, crashes, content, completed, results, checkpoint, history>>

Crash ==
    /\ pc # "idle" /\ crashes < MaxCrashes
    /\ crashes' = crashes + 1
    /\ pc' = "idle"
    /\ results' = <<>>
    /\ UNCHANGED <<disk, edits, runs, content, completed, checkpoint, report, history>>

Next ==
    \/ \E d \in Doc : Edit(d)
    \/ StartRun \/ Reuse \/ Analyze("ok") \/ Analyze("failed")
    \/ WriteTemporary \/ ReplaceCheckpoint \/ Finish \/ Crash

Spec == Init /\ [][Next]_vars

-----------------------------------------------------------------------------
(* Properties *)

\* A record that says ok stands for an analysis of exactly that content of that
\* file, in whichever run it was made, also after failures, edits and crashes; what a
\* run has of a file is of the content it read, and if it says that the analysis failed,
\* then in this run (load_checkpoint, and the comparison of hashes).
OkIsEarned ==
    /\ \A r \in Range(results) \cup Range(checkpoint) \cup Range(report) :
          r.status = "ok" => <<r.source, r.sha>> \in paid
    /\ \A i \in DOMAIN results :
          /\ results[i].sha = content[i]
          /\ results[i].status = "failed" => results[i] \in fresh

\* What a kill loses.  Of the analyses of this run it is at most the one whose record
\* is being saved.  Of the analyses of earlier runs it is those of files behind the one
\* that this run analysed last, as save_checkpoint puts the records made so far in the
\* place of a longer checkpoint: the others are in it, whether or not the run has come
\* to their files.  And what the run takes over it has, up to where it has come, so that
\* a run that is not killed reports it.
KillLosesTheTail ==
    pc # "idle" =>
        /\ fresh \subseteq Range(checkpoint)
              \cup (IF pc = "scanning" THEN {} ELSE {results[Len(results)]})
        /\ \A d \in Doc :
              /\ Previous(d) \subseteq Range(checkpoint)
                 \/ /\ checkpoint # <<>> /\ checkpoint[Len(checkpoint)] \in fresh
                    /\ Len(checkpoint) < d
              /\ d \in DOMAIN results => Previous(d) \subseteq Range(results)

\* "A successful record of the same path and an unchanged SHA-256 is taken over
\* directly" (summary of the branch, line 78): no file is analysed again on a
\* content it was analysed on successfully.
NothingRedone == redone = {}

=============================================================================
