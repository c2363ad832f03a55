--------------------------- MODULE CorpusLifecycle ---------------------------
(***************************************************************************)
(* How a version of the knowledge corpus is built, published, rolled back  *)
(* and dropped: scripts/publish_corpus.py and scripts/rollback_corpus.py,  *)
(* CorpusPublisher of backend/app/knowledge/repositories/publisher.py and  *)
(* the repository methods they call.                                       *)
(*                                                                         *)
(* Each script run is a job of its own, and jobs may overlap.  A database  *)
(* transaction is one step, at its commit: readers are never shown less,   *)
(* and the rows or the table it changes are locked until then.  Only the   *)
(* swap of the published version is two steps, because PostgreSQL's now()  *)
(* is the time the transaction began, which is before LOCK TABLE waits.    *)
(* A job may die anywhere; its open transaction is then undone.            *)
(* All jobs use one embedding model.                                       *)
(***************************************************************************)
EXTENDS Naturals, FiniteSets

CONSTANTS
    Publisher,      \* the runs of publish_corpus.py
    Rollbacker,     \* the runs of rollback_corpus.py
    Version,        \* the version names
    NoVersion,      \* no version
    Chunk,          \* the chunks; their ids are derived from their content
    Online,         \* the chunks approved and eligible for online use
    NewKb,          \* the chunks of the new collection; the others are original
    Builds          \* the builds of the corpus, each a set of chunks

Job == Publisher \cup Rollbacker

ASSUME OnlineAssumption == Online \subseteq Chunk
ASSUME NewKbAssumption == NewKb \subseteq Chunk
ASSUME BuildsAssumption == Builds \subseteq SUBSET Chunk
ASSUME JobAssumption == Publisher \cap Rollbacker = {}
ASSUME NoVersionAssumption == NoVersion \notin Version

VARIABLES
    corpus,     \* corpus[v]: the row of version v and all that refers to it
    pc,         \* how far each job is
    target,     \* target[j]: the version job j is about
    build,      \* build[j]: the chunks publisher j built
    began,      \* began[j]: now() in j's swap transaction
    clock,      \* the last timestamp given out
    served,     \* history: the version published last and the one before
    alone       \* history: jobs that overlapped with no other so far

vars == <<corpus, pc, target, build, began, clock, served, alone>>

\* A version with no row.
Absent == [status |-> "absent", chunks |-> {}, embedded |-> {},
           linked |-> NoVersion, publishedAt |-> 0]

Ended == {"new", "done", "refused", "crashed"}

TypeOK ==
    /\ corpus \in [Version ->
            [status : {"absent", "staging", "published", "retired"},
             chunks : SUBSET Chunk, embedded : SUBSET Chunk,
             linked : Version \cup {NoVersion}, publishedAt : Nat]]
    /\ \A v \in Version :
        /\ corpus[v].embedded \subseteq corpus[v].chunks
        /\ corpus[v].status = "absent" => corpus[v] = Absent
        /\ corpus[v].publishedAt > 0 <=> corpus[v].status \in {"published", "retired"}
    /\ pc \in [Job -> Ended \cup {"check", "clean", "write", "embed", "link", "swap", "locked"}]
    /\ target \in [Job -> Version \cup {NoVersion}]
    /\ build \in [Job -> SUBSET Chunk]
    /\ began \in [Job -> Nat]
    /\ clock \in Nat
    /\ served \in (Version \cup {NoVersion}) \X (Version \cup {NoVersion})
    /\ alone \subseteq Job

Init ==
    /\ corpus = [v \in Version |-> Absent]
    /\ pc = [j \in Job |-> "new"]
    /\ target = [j \in Job |-> NoVersion]
    /\ build = [j \in Job |-> {}]
    /\ began = [j \in Job |-> 0]
    /\ clock = 0
    /\ served = <<NoVersion, NoVersion>>
    /\ alone = {}

-----------------------------------------------------------------------------
(* The tables.  A definition called a slip is used by no action: it is a       *)
(* mistake the code could make in the definition that follows it.              *)

With(status) == {v \in Version : corpus[v].status = status}

\* Every online chunk of the version, and at least one, has its embedding.
Complete(v) ==
    LET online == corpus[v].chunks \cap Online
    IN  online # {} /\ online \subseteq corpus[v].embedded

\* There are chunks of each collection (--new-kb-root has a default).
HasCollections(v) == corpus[v].chunks \cap NewKb # {} /\ corpus[v].chunks \ NewKb # {}

\* Slip: the embeddings were counted when they were written.
HasStatus(v, status) == corpus[v].status = status

\* _validate
Valid(v, status) == corpus[v].status = status /\ Complete(v)

\* Slip: what an earlier run left is not removed.
NoneRemoved(v) == FALSE

\* DELETE ... WHERE version = v AND status = 'staging'
Leftover(v) == corpus[v].status = "staging"

\* Slip: the row of the version is updated if there is one.
AlwaysWritable(v) == TRUE

\* INSERT of the version's row meets its primary key.
Writable(v) == corpus[v].status = "absent"

\* Slip: the previous version is not kept.
KeepNone(s) == {}

\* _prune: of the retired versions of s the one published last is kept.
KeepLatest(s) ==
    {v \in Version :
        /\ s[v].status = "retired"
        /\ \A w \in Version : s[w].status = "retired" => s[w].publishedAt <= s[v].publishedAt}

\* Slip: the version's row goes, what refers to it stays.
PruneRowOnly(s) ==
    [v \in Version |->
        IF s[v].status = "retired" /\ v \notin KeepLatest(s)
        THEN [s[v] EXCEPT !.status = "absent", !.publishedAt = 0] ELSE s[v]]

Prune(s) ==
    [v \in Version |-> IF s[v].status = "retired" /\ v \notin KeepLatest(s) THEN Absent ELSE s[v]]

\* UPDATE ... SET status = 'retired' WHERE status = 'published'
Retire(s) ==
    [v \in Version |->
        IF s[v].status = "published" THEN [s[v] EXCEPT !.status = "retired"] ELSE s[v]]

\* publish and rollback, from the first UPDATE to the commit.
SwapTo(v, now) ==
    /\ corpus' = Prune([Retire(corpus) EXCEPT ![v].status = "published", ![v].publishedAt = now])
    /\ served' = <<v, served[1]>>

-----------------------------------------------------------------------------
(* The jobs *)

Goto(j, l) == pc' = [pc EXCEPT ![j] = l]

\* The run of a script begins.
Begin(j, v, first) ==
    /\ pc[j] = "new"
    /\ target' = [target EXCEPT ![j] = v]
    /\ Goto(j, first)
    /\ alone' = IF \A k \in Job : pc[k] \in Ended THEN alone \cup {j}
                ELSE {k \in alone : pc[k] \in Ended}
    /\ UNCHANGED <<corpus, began, clock, served>>

BeginPublish(j, v, b) ==
    /\ Begin(j, v, "check")
    /\ build' = [build EXCEPT ![j] = b]

BeginRollback(j, v) ==
    /\ Begin(j, v, "swap")
    /\ UNCHANGED build

\* A step of job j that changes nothing but the tables and how far j is.
Keeping == UNCHANGED <<target, build, began, clock, served, alone>>

\* repository.readiness: is target[j] the published version, and complete?  Then
\* the job has nothing to do, or exits if a collection is missing from it.
Ready(v) == v \in With("published") /\ Complete(v)

CheckReadiness(j) ==
    /\ pc[j] = "check"
    /\ \/ Ready(target[j]) /\ HasCollections(target[j]) /\ Goto(j, "done")
       \/ Ready(target[j]) /\ ~HasCollections(target[j]) /\ Goto(j, "refused")
       \/ ~Ready(target[j]) /\ Goto(j, "clean")
    /\ UNCHANGED corpus /\ Keeping

\* What an earlier run staged under this name goes, with all that refers to it.
CleanStaging(j) ==
    /\ pc[j] = "clean"
    /\ corpus' = IF Leftover(target[j]) THEN [corpus EXCEPT ![target[j]] = Absent] ELSE corpus
    /\ Goto(j, "write")
    /\ Keeping

\* write_staging_build
WriteStagingBuild(j) ==
    /\ pc[j] = "write"
    /\ \/ /\ Writable(target[j])
          /\ corpus' = [corpus EXCEPT ![target[j]] =
                [Absent EXCEPT !.status = "staging", !.chunks = build[j]]]
          /\ Goto(j, "embed")
       \/ /\ ~Writable(target[j])
          /\ Goto(j, "refused")
          /\ UNCHANGED corpus
    /\ Keeping

\* write_embeddings inserts for a staging version only; a chunk that is not
\* there meets the foreign key, an embedding that is there the primary key.
MayEmbed(j) ==
    LET c == corpus[target[j]] IN
    /\ c.status = "staging"
    /\ build[j] \subseteq c.chunks
    /\ build[j] \cap c.embedded = {}

WriteEmbeddings(j) ==
    /\ pc[j] = "embed"
    /\ \/ /\ MayEmbed(j)
          /\ corpus' = [corpus EXCEPT ![target[j]].embedded = @ \cup build[j]]
          /\ Goto(j, "link")
       \/ /\ ~MayEmbed(j)
          /\ Goto(j, "refused")
          /\ UNCHANGED corpus
    /\ Keeping

\* link_supersedes_from_published: the new chunks of the version, whatever its
\* status, name the original chunks, with the same decision key, of the version
\* that is published now.
Published == IF With("published") = {} THEN NoVersion
             ELSE CHOOSE v \in Version : v \in With("published")

LinkSupersedes(j) ==
    /\ pc[j] = "link"
    /\ corpus' = IF corpus[target[j]].status = "absent" THEN corpus
                 ELSE [corpus EXCEPT ![target[j]].linked = Published]
    /\ Goto(j, "swap")
    /\ Keeping

\* publish, rollback: the transaction begins, which fixes now(), and asks for
\* the table lock.
BeginSwap(j) ==
    /\ pc[j] = "swap"
    /\ clock' = clock + 1
    /\ began' = [began EXCEPT ![j] = clock + 1]
    /\ Goto(j, "locked")
    /\ UNCHANGED <<corpus, target, build, served, alone>>

\* publish and rollback under the table lock: the version is validated and
\* swapped in, or everything is undone.
Swap(j, status) ==
    /\ pc[j] = "locked"
    /\ \/ /\ Valid(target[j], status)
          /\ SwapTo(target[j], began[j])
          /\ Goto(j, "done")
       \/ /\ ~Valid(target[j], status)
          /\ Goto(j, "refused")
          /\ UNCHANGED <<corpus, served>>
    /\ UNCHANGED <<target, build, began, clock, alone>>

Publish(j) == j \in Publisher /\ Swap(j, "staging")
Rollback(j) == j \in Rollbacker /\ Swap(j, "retired")

\* The process or its connection dies.
Crash(j) ==
    /\ pc[j] \notin Ended
    /\ Goto(j, "crashed")
    /\ UNCHANGED corpus /\ Keeping

Next ==
    \/ \E j \in Publisher, v \in Version, b \in Builds : BeginPublish(j, v, b)
    \/ \E j \in Rollbacker, v \in Version : BeginRollback(j, v)
    \/ \E j \in Job :
        \/ CheckReadiness(j) \/ CleanStaging(j) \/ WriteStagingBuild(j)
        \/ WriteEmbeddings(j) \/ LinkSupersedes(j)
        \/ BeginSwap(j) \/ Publish(j) \/ Rollback(j)
        \/ Crash(j)

Spec == Init /\ [][Next]_vars

-----------------------------------------------------------------------------
(* Properties *)

\* From the first publication on there is one published version, never two and
\* never none, and every online chunk of it has its embedding: what retrieval
\* reads is switched as a whole (publish, rollback, the delete of staging).
AlwaysServing ==
    served[1] # NoVersion =>
        \E v \in Version : With("published") = {v} /\ Complete(v)

\* From the second publication on one complete version is kept to roll back to,
\* and no more than one (_prune).
RollbackAvailable ==
    /\ Cardinality(With("retired")) <= 1
    /\ served[2] # NoVersion => \E v \in With("retired") : Complete(v)

\* A version that has been published keeps its chunks and embeddings as long as
\* it exists: jobs still at work on a staging version of the same name can no
\* longer touch them.
ContentFrozen ==
    [][\A v \in Version :
        (corpus[v].status \in {"published", "retired"} /\ corpus'[v].status # "absent")
            => /\ corpus'[v].status # "staging"
               /\ corpus'[v].chunks = corpus[v].chunks
               /\ corpus'[v].embedded = corpus[v].embedded]_vars

\* A publish that overlaps with no other run is not stopped by what crashed or
\* refused runs left behind: it is refused only if its version has been published
\* before, or its build has nothing to serve (the DELETE before
\* write_staging_build).
RerunSucceeds ==
    [][\A j \in Publisher \cap alone :
        pc[j] # "refused" /\ pc'[j] = "refused" =>
            \/ corpus[target[j]].status \in {"published", "retired"}
            \/ build[j] \cap Online = {}]_vars

\* "Publishing a corpus keeps the current version and the one published before
\* it" (docs, rollback notes, line 3): after a publish, the version that was
\* published until then is there to roll back to.
PreviousKept == served[2] # NoVersion => corpus[served[2]].status = "retired"

\* "A new collection candidate can suppress an original candidate with the same
\* decision key" (docstring of _resolve_conflicts, lines 355-356): the chunks that
\* a published version names as superseded are among those that searches find,
\* which are the chunks of the published version only.
SupersededAreFound ==
    \A v \in With("published") :
        corpus[v].linked # NoVersion => corpus[v].linked \in With("published")

=============================================================================
