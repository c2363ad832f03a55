-------------------------- MODULE ResearchRunProofs --------------------------
(***************************************************************************)
(* Proofs about ResearchRun.  Safety is a matter of what stands behind a   *)
(* record: Earned follows it from the analysis into the checkpoint, out of *)
(* it into the next run's `completed', and back into the results.  What a  *)
(* kill loses is a matter of whose checkpoint it is: until this run saves  *)
(* it has the records of earlier runs, from then on the first ones of this *)
(* run's results, up to one that this run has made.                        *)
(***************************************************************************)
EXTENDS ResearchRun, TLAPS

\* The three files of records are sequences, those of a file at its number.
Records == {results, checkpoint, report} \subseteq Seq(Record)

EarnedBy(s) == \A i \in DOMAIN s : s[i].status = "ok" => <<s[i].source, s[i].sha>> \in paid

\* Every record that says ok, and every one a run may take over, is paid for.
Earned ==
    /\ EarnedBy(results) /\ EarnedBy(checkpoint) /\ EarnedBy(report)
    /\ \A d \in Doc : \A r \in completed[d] : r.status = "ok" /\ <<d, r.sha>> \in paid
    /\ paid \subseteq Doc \X (0 .. MaxEdits)

\* What a run has of a file is of the content it read, and failed in this run if at all.
Current ==
    \A i \in DOMAIN results :
        /\ results[i].sha = content[i]
        /\ results[i].status = "failed" => results[i] \in fresh

\* The record that is being saved.
Unsaved == IF pc = "scanning" THEN {} ELSE {results[Len(results)]}

\* The checkpoint is that of earlier runs.
Untouched ==
    /\ \A d \in Doc : completed[d] \subseteq Range(checkpoint)
    /\ fresh = Unsaved

\* The checkpoint is the beginning of this run's results.
Own ==
    /\ checkpoint # <<>> /\ Len(checkpoint) <= Len(results)
    /\ \A i \in DOMAIN checkpoint : checkpoint[i] = results[i]
    /\ checkpoint[Len(checkpoint)] \in fresh
    /\ fresh \subseteq Range(checkpoint) \cup Unsaved

Kept ==
    /\ \A d \in Doc : \A r, s \in completed[d] : r = s
    /\ pc # "idle" =>
          /\ \A d \in DOMAIN results : Previous(d) \subseteq {results[d]}
          /\ pc # "scanning" => results # <<>> /\ results[Len(results)] \in fresh
          /\ Untouched \/ Own

Inv == TypeOK /\ Records /\ Earned /\ Current /\ Kept

-----------------------------------------------------------------------------
(* A record is added *)

\* What appending a record of the next file does to the results.
LEMMA RecordAdded ==
    ASSUME TypeOK, Records, NextDoc \in Doc, NEW r \in Record, r.source = NextDoc,
           results' = Append(results, r)
    PROVE  /\ results' \in Seq(Record) /\ results' # <<>>
           /\ Len(results') = NextDoc
           /\ DOMAIN results' = DOMAIN results \cup {NextDoc}
           /\ results'[NextDoc] = r
           /\ \A i \in DOMAIN results : results'[i] = results[i] /\ i # NextDoc
           /\ \A i \in DOMAIN results' : results'[i].source = i
           /\ Range(results') \subseteq Record
<1>1. results \in Seq(Record)
    BY DEF Records
<1>2. /\ results' \in Seq(Record) /\ DOMAIN results' = DOMAIN results \cup {NextDoc}
      /\ Len(results') = NextDoc /\ results' # <<>>
      /\ results'[NextDoc] = r
      /\ \A i \in DOMAIN results : results'[i] = results[i] /\ i # NextDoc
    BY <1>1 DEF NextDoc
<1>3. \A i \in DOMAIN results' : results'[i].source = i
    BY <1>2 DEF TypeOK
<1>4. Range(results') \subseteq Record
    BY <1>2 DEF Range
<1>5. QED
    BY <1>2, <1>3, <1>4

\* An own checkpoint stays one while records are added behind it.
LEMMA OwnGrows ==
    ASSUME Records, Own, pc = "scanning",
           Len(results') = Len(results) + 1,
           \A i \in DOMAIN results : results'[i] = results[i],
           UNCHANGED checkpoint, fresh \subseteq fresh', fresh' \subseteq fresh \cup Unsaved'
    PROVE  Own'
<1>1. checkpoint \in Seq(Record) /\ results \in Seq(Record)
    BY DEF Records
<1>2. DOMAIN checkpoint \subseteq DOMAIN results /\ Len(checkpoint) <= Len(results')
    BY <1>1 DEF Own
<1>3. Unsaved = {}
    BY DEF Unsaved
<1>4. QED
    BY <1>1, <1>2, <1>3 DEF Own

-----------------------------------------------------------------------------
(* The invariant *)

LEMMA InitInv == Init => Inv
<1> SUFFICES ASSUME Init PROVE Inv
    OBVIOUS
<1>1. <<>> \in Seq(Record) /\ DOMAIN <<>> = {} /\ Range(<<>>) = {}
    BY DEF Range
<1>2. TypeOK
    BY <1>1, BoundsAssumption DEF Init, TypeOK
<1>3. QED
    BY <1>1, <1>2 DEF Init, Inv, Records, Earned, EarnedBy, Current, Kept

\* Editing a file and killing a run take records away, or nothing.
LEMMA EditInv ==
    ASSUME Inv, NEW d \in Doc, Edit(d)
    PROVE  Inv'
<1>1. TypeOK'
    BY BoundsAssumption DEF Inv, Edit, TypeOK, history
<1>2. QED
    BY <1>1 DEF Inv, Edit, Records, Earned, EarnedBy, Current, Kept, Previous, Untouched, Own, Unsaved, history

LEMMA CrashInv ==
    ASSUME Inv, Crash
    PROVE  Inv'
<1>1. <<>> \in Seq(Record) /\ DOMAIN <<>> = {} /\ Range(<<>>) = {}
    BY DEF Range
<1>2. TypeOK'
    BY <1>1, BoundsAssumption DEF Inv, Crash, TypeOK, history
<1>3. QED
    BY <1>1, <1>2 DEF Inv, Crash, Records, Earned, EarnedBy, Current, Kept, history

\* A run trusts the successful records of the checkpoint, of which a file has one at
\* most.
LEMMA StartRunInv ==
    ASSUME Inv, StartRun
    PROVE  Inv'
<1>1. <<>> \in Seq(Record) /\ DOMAIN <<>> = {} /\ Range(<<>>) = {}
    BY DEF Range
<1>2. \A d \in Doc : completed'[d] = Loaded(checkpoint, d)
    BY DEF StartRun
<1>3. checkpoint \in Seq(Record) /\ \A i \in DOMAIN checkpoint : checkpoint[i].source = i
    BY DEF Inv, Records, TypeOK
<1>4. \A d \in Doc : \A r \in Loaded(checkpoint, d) :
          r \in Range(checkpoint) /\ r \in Record /\ r.source = d /\ r.status = "ok"
    BY DEF Loaded, Inv, TypeOK
<1>5. \A d \in Doc : \A r \in Loaded(checkpoint, d) :
          d \in DOMAIN checkpoint /\ checkpoint[d] = r
    BY <1>3, <1>4 DEF Range
<1>6. Earned'
    BY <1>1, <1>2, <1>4, <1>5 DEF Inv, StartRun, Earned, EarnedBy
<1>7. TypeOK'
    BY <1>1, <1>2, <1>4, BoundsAssumption DEF Inv, StartRun, TypeOK
<1>8. Kept'
    <2>1. \A d \in Doc : \A r, s \in completed'[d] : r = s
        BY <1>2, <1>5
    <2>2. Untouched'
        BY <1>2, <1>4 DEF StartRun, Untouched, Unsaved
    <2>3. pc' = "scanning" /\ results' = <<>>
        BY DEF StartRun
    <2>4. QED
        BY <1>1, <2>1, <2>2, <2>3 DEF Kept
<1>9. QED
    BY <1>1, <1>6, <1>7, <1>8 DEF Inv, StartRun, Records, Current

\* A record taken over was paid for by another run.
LEMMA ReuseInv ==
    ASSUME Inv, Reuse
    PROVE  Inv'
<1>1. /\ NextDoc \in Doc /\ pc = "scanning"
      /\ UNCHANGED <<disk, edits, runs, crashes, pc, content, completed, checkpoint, report,
                     paid, fresh, redone>>
    BY DEF Reuse, history
<1>2. PICK r \in Previous(NextDoc) : results' = Append(results, r)
    BY DEF Reuse
<1>3. /\ r \in completed[NextDoc] /\ r \in Record /\ r.source = NextDoc
      /\ r.sha = content[NextDoc] /\ r.status = "ok" /\ <<r.source, r.sha>> \in paid
    BY <1>1, <1>2 DEF Previous, Inv, TypeOK, Earned
<1>4. /\ results' \in Seq(Record) /\ results' # <<>>
      /\ Len(results') = NextDoc
      /\ DOMAIN results' = DOMAIN results \cup {NextDoc}
      /\ results'[NextDoc] = r
      /\ \A i \in DOMAIN results : results'[i] = results[i] /\ i # NextDoc
      /\ \A i \in DOMAIN results' : results'[i].source = i
      /\ Range(results') \subseteq Record
    BY <1>1, <1>2, <1>3, RecordAdded DEF Inv
<1>5. TypeOK'
    BY <1>1, <1>4 DEF Inv, TypeOK
<1>6. Earned'
    BY <1>1, <1>3, <1>4 DEF Inv, Earned, EarnedBy
<1>7. Current'
    BY <1>1, <1>3, <1>4 DEF Inv, Current
<1>8. Kept'
    <2>1. \A d \in Doc : Previous(d)' = Previous(d)
        BY <1>1 DEF Previous
    <2>2. Previous(NextDoc) \subseteq {r}
        BY <1>1, <1>3 DEF Previous, Inv, Kept
    <2>3. \A d \in DOMAIN results' : Previous(d)' \subseteq {results'[d]}
        BY <1>1, <1>4, <2>2 DEF Previous, Inv, Kept
    <2>4. CASE Untouched
        BY <1>1, <2>3, <2>4 DEF Inv, Kept, Untouched, Unsaved
    <2>5. CASE Own
        <3>1. Own'
            BY <1>1, <1>4, <2>5, OwnGrows DEF Inv, NextDoc
        <3>2. QED
            BY <1>1, <2>3, <3>1 DEF Inv, Kept
    <2>6. QED
        BY <1>1, <2>4, <2>5 DEF Inv, Kept
<1>9. QED
    BY <1>1, <1>4, <1>5, <1>6, <1>7, <1>8 DEF Inv, Records

\* A new record that says ok is paid for as it is made.
LEMMA AnalyzeInv ==
    ASSUME Inv, NEW status \in {"ok", "failed"}, Analyze(status)
    PROVE  Inv'
<1> DEFINE d == NextDoc
           r == RecordOf(d, status)
<1>1. /\ d \in Doc /\ pc = "scanning" /\ pc' = "saving"
      /\ content[d] \in 0 .. MaxEdits /\ Previous(d) = {}
      /\ fresh' = fresh \cup {r} /\ results' = Append(results, r)
      /\ paid' = IF status = "ok" THEN paid \cup {<<d, content[d]>>} ELSE paid
      /\ redone' \subseteq redone \cup {d}
      /\ UNCHANGED <<disk, edits, runs, crashes, content, completed, checkpoint, report>>
    BY DEF Inv, TypeOK, Analyze
<1>2. r \in Record /\ r.source = d /\ r.sha = content[d] /\ r.status = status
    BY <1>1, BoundsAssumption DEF RecordOf, Record
<1> HIDE DEF r
<1>3. paid \subseteq paid' /\ paid' \subseteq Doc \X (0 .. MaxEdits)
    BY <1>1 DEF Inv, Earned
<1>4. /\ results' \in Seq(Record) /\ results' # <<>>
      /\ Len(results') = d
      /\ DOMAIN results' = DOMAIN results \cup {d}
      /\ results'[d] = r
      /\ \A i \in DOMAIN results : results'[i] = results[i] /\ i # d
      /\ \A i \in DOMAIN results' : results'[i].source = i
      /\ Range(results') \subseteq Record
    BY <1>1, <1>2, RecordAdded DEF Inv
<1>5. TypeOK'
    <2>1. fresh' \subseteq Record /\ redone' \subseteq Doc /\ paid' \subseteq Doc \X Nat
        BY <1>1, <1>2, <1>3, BoundsAssumption DEF Inv, TypeOK
    <2>2. QED
        BY <1>1, <1>4, <2>1 DEF Inv, TypeOK
<1>6. Earned'
    <2>1. status = "ok" => <<d, content[d]>> \in paid'
        BY <1>1
    <2>2. EarnedBy(results)'
        BY <1>2, <1>3, <1>4, <2>1 DEF Inv, Earned, EarnedBy
    <2>3. QED
        BY <1>1, <1>3, <2>2 DEF Inv, Earned, EarnedBy
<1>7. Current'
    BY <1>1, <1>2, <1>4 DEF Inv, Current
<1>8. Kept'
    <2>1. \A e \in DOMAIN results' : Previous(e)' \subseteq {results'[e]}
        BY <1>1, <1>4 DEF Previous, Inv, Kept
    <2>2. Unsaved' = {r} /\ Unsaved = {} /\ results'[Len(results')] \in fresh'
        BY <1>1, <1>4 DEF Unsaved
    <2>3. CASE Untouched
        <3>1. Untouched'
            BY <1>1, <2>2, <2>3 DEF Untouched
        <3>2. QED
            BY <1>1, <1>4, <2>1, <2>2, <3>1 DEF Inv, Kept
    <2>4. CASE Own
        <3>1. Own'
            BY <1>1, <1>4, <2>2, <2>4, OwnGrows DEF Inv, NextDoc
        <3>2. QED
            BY <1>1, <1>4, <2>1, <2>2, <3>1 DEF Inv, Kept
    <2>5. QED
        BY <1>1, <2>3, <2>4 DEF Inv, Kept
<1>9. QED
    BY <1>1, <1>4, <1>5, <1>6, <1>7, <1>8 DEF Inv, Records

\* With the checkpoint in its place, the run may go on.
LEMMA SaveInv ==
    ASSUME Inv, WriteTemporary \/ ReplaceCheckpoint \/ Finish
    PROVE  Inv'
<1>1. CASE WriteTemporary
    <2>1. TypeOK'
        BY <1>1 DEF Inv, WriteTemporary, TypeOK, history
    <2>2. QED
        BY <1>1, <2>1 DEF Inv, WriteTemporary, Records, Earned, EarnedBy, Current, Kept, Previous,
                            Untouched, Own, Unsaved, history
<1>2. CASE ReplaceCheckpoint
    <2>1. TypeOK'
        BY <1>2 DEF Inv, ReplaceCheckpoint, Saved, TypeOK, history
    <2>2. /\ pc = "replacing" /\ pc' = "scanning" /\ checkpoint' = results
          /\ UNCHANGED <<content, completed, results, report, paid, fresh>>
        BY <1>2 DEF ReplaceCheckpoint, Saved, history
    <2>3. results \in Seq(Record) /\ checkpoint \in Seq(Record)
        BY DEF Inv, Records
    <2>4. fresh \subseteq Range(results)
        <3>1. Unsaved \subseteq Range(results)
            BY <2>2, <2>3 DEF Inv, Kept, Unsaved, Range
        <3>2. CASE Untouched
            BY <3>1, <3>2 DEF Untouched
        <3>3. CASE Own
            <4>1. Range(checkpoint) \subseteq Range(results)
                BY <2>3, <3>3 DEF Own, Range
            <4>2. QED
                BY <3>1, <3>3, <4>1 DEF Own
        <3>4. QED
            BY <2>2, <3>2, <3>3 DEF Inv, Kept
    <2>5. Own'
        BY <2>2, <2>3, <2>4 DEF Inv, Kept, Own
    <2>6. Kept'
        BY <2>2, <2>5 DEF Inv, Kept, Previous
    <2>7. QED
        BY <2>1, <2>2, <2>6 DEF Inv, Records, Earned, EarnedBy, Current
<1>3. CASE Finish
    <2>1. TypeOK'
        BY <1>3 DEF Inv, Finish, TypeOK, history
    <2>2. QED
        BY <1>3, <2>1 DEF Inv, Finish, Records, Earned, EarnedBy, Current, Kept, history
<1>4. QED
    BY <1>1, <1>2, <1>3

LEMMA StepInv == Inv /\ [Next]_vars => Inv'
<1> SUFFICES ASSUME Inv, [Next]_vars PROVE Inv'
    OBVIOUS
<1>1. CASE Next
    BY <1>1, EditInv, StartRunInv, ReuseInv, AnalyzeInv, SaveInv, CrashInv DEF Next
<1>2. CASE UNCHANGED vars
    <2>1. TypeOK'
        BY <1>2 DEF vars, Inv, TypeOK
    <2>2. QED
        BY <1>2, <2>1 DEF vars, Inv, Records, Earned, EarnedBy, Current, Kept, Previous, Untouched, Own, Unsaved
<1>3. QED
    BY <1>1, <1>2

LEMMA Invariant == Spec => []Inv
    BY InitInv, StepInv, PTL DEF Spec

-----------------------------------------------------------------------------
(* The theorems *)

\* Checkpoint, report and results keep their shape over runs, edits and kills.
THEOREM Types == Spec => []TypeOK
<1>1. Inv => TypeOK
    BY DEF Inv
<1>2. QED
    BY <1>1, Invariant, PTL

\* However many runs took a record over, one that says ok stands for a successful
\* analysis of that content of that file, and a run's record of a file is of what the
\* run read, and not of a failure of another run (research.py, 58-68 and 84-98).
THEOREM RecordsAreEarned == Spec => []OkIsEarned
<1>1. Inv => OkIsEarned
    BY DEF Inv, Earned, EarnedBy, Current, OkIsEarned, Range
<1>2. QED
    BY <1>1, Invariant, PTL

\* A kill loses one analysis of the run that is killed, and of earlier ones those of
\* the files behind the one analysed last, which is what save_checkpoint leaves out
\* (research.py, 88-98).
THEOREM OnlyTheTailIsLost == Spec => []KillLosesTheTail
<1>1. ASSUME Inv, pc # "idle" PROVE KillLosesTheTail
    <2>1. checkpoint \in Seq(Record) /\ results \in Seq(Record)
        BY <1>1 DEF Inv, Records
    <2>2. fresh \subseteq Range(checkpoint) \cup Unsaved
        BY <1>1 DEF Inv, Kept, Untouched, Own
    <2>3. ASSUME NEW d \in DOMAIN results PROVE Previous(d) \subseteq Range(results)
        BY <1>1, <2>3 DEF Inv, Kept, Range
    <2>4. ASSUME NEW d \in Doc
          PROVE  \/ Previous(d) \subseteq Range(checkpoint)
                 \/ /\ checkpoint # <<>> /\ checkpoint[Len(checkpoint)] \in fresh
                    /\ Len(checkpoint) < d
        <3>1. CASE Untouched
            BY <3>1 DEF Untouched, Previous
        <3>2. CASE Own
            <4>1. CASE d \in DOMAIN checkpoint
                <5>1. d \in DOMAIN results /\ checkpoint[d] = results[d]
                    BY <2>1, <3>2, <4>1 DEF Own
                <5>2. Previous(d) \subseteq {checkpoint[d]}
                    BY <1>1, <5>1 DEF Inv, Kept
                <5>3. QED
                    BY <4>1, <5>2 DEF Range
            <4>2. CASE d \notin DOMAIN checkpoint
                BY <2>1, <3>2, <4>2, DocsAssumption DEF Own, Doc
            <4>3. QED
                BY <4>1, <4>2
        <3>3. QED
            BY <1>1, <3>1, <3>2 DEF Inv, Kept
    <2>5. QED
        BY <2>2, <2>3, <2>4 DEF KillLosesTheTail, Unsaved
<1>2. Inv => KillLosesTheTail
    BY <1>1 DEF KillLosesTheTail
<1>3. QED
    BY <1>2, Invariant, PTL

=============================================================================
