----------------------------- MODULE CorpusBuild -----------------------------
(***************************************************************************)
(* The corpus build (src/app/retrieval/build.py, scripts/build_dataset.py) *)
(* and what the server makes of the files it left (store.py, dense.py).    *)
(*                                                                         *)
(* One command runs at a time.  Every file write is a step, and a command  *)
(* can be killed between any two of them or inside one; the next command   *)
(* starts from the files alone.  A vector file is the sequence of the      *)
(* batches in it, each by what was really embedded: a corpus, with a model.*)
(***************************************************************************)
EXTENDS Integers, Sequences, FiniteSets

CONSTANTS
  Corpora,     \* what parse_squad may return; a corpus stands for its fingerprint
  Models,      \* embedding model and dimensions; the array shape of all is the same
  Size,        \* corpus -> batches of paragraphs
  Cuts,        \* corpus -> what its paragraphs read as when cut at the end of a line
  Commands,    \* the commands that are run, a subset of AllCommands
  Wanted,      \* the build whose operator does not give up, one of Commands
  PerDay,      \* batches one day of embedding quota pays for
  MaxCrashes,  \* bound: commands killed or failed with another error
  None

ASSUME NoneAssumption == None \notin Corpora \cup Models
ASSUME SizeAssumption == Size \in [Corpora -> Nat \ {0}]
ASSUME CutsAssumption == Cuts \in [Corpora -> SUBSET Corpora]
ASSUME PerDayAssumption == PerDay \in Nat \ {0}
ASSUME MaxCrashesAssumption == MaxCrashes \in Nat

\* run_build of a source (without vectors when model is None), run_embed_only.
AllCommands ==
  [mode : {"full"}, corpus : Corpora, model : Models \cup {None}]
    \cup [mode : {"only"}, corpus : {None}, model : Models]

ASSUME CommandsAssumption == Commands \subseteq AllCommands
ASSUME WantedAssumption == Wanted \in Commands /\ Wanted.mode = "full" /\ Wanted.model # None

VARIABLES
  disk,      \* the files of the data directory
  run,       \* the command that runs
  quota,     \* batches today's quota still pays for
  crashes,   \* commands killed so far (bounded)
  cut,       \* the progress files that are there and cannot be read
  torn,      \* one was killed between a vector file and its record (history)
  saved      \* the progress last recorded: whose, how much (history)

vars == <<disk, run, quota, crashes, cut, torn, saved>>

\* EmbeddingsMeta: of the index, and of the progress file.
Metas == [corpus : Corpora \cup {None}, model : Models \cup {None}, count : Nat]
NoMeta == [corpus |-> None, model |-> None, count |-> 0]

\* The rows of a vector file; an absent file has none (a corpus is not empty), nor
\* has one that cannot be read.
Vectors == Seq(Corpora \X Models)

Disks ==
  [paragraphs : Corpora \cup {None}, questions : Corpora \cup {None},
   vectors : Vectors, meta : Metas, partial : Vectors, partialMeta : Metas,
   manifest : [corpus : Corpora \cup {None}, embeddings : Metas]]

Points == {"idle", "paragraphs", "questions", "load", "embed", "save", "saveMeta",
           "writeMeta", "discard", "discardMeta", "manifest"}

Runs ==
  [at : Points, mode : {"full", "only"}, corpus : Corpora \cup {None},
   model : Models \cup {None}, rows : Vectors, stopping : BOOLEAN]

NoRun == [at |-> "idle", mode |-> "full", corpus |-> None, model |-> None, rows |-> <<>>,
          stopping |-> FALSE]
NoManifest == [corpus |-> None, embeddings |-> NoMeta]

\* The types, and that a row is never embedded twice.
TypeOK ==
  /\ disk \in Disks
  /\ run \in Runs
  /\ run.at \in {"load", "embed", "save", "saveMeta", "writeMeta", "discard", "discardMeta"} =>
       run.corpus \in Corpora /\ run.model \in Models /\ Len(run.rows) <= Size[run.corpus]
  /\ quota \in 0..PerDay
  /\ crashes \in 0..MaxCrashes
  /\ cut \subseteq {"partial", "partialMeta"}
  /\ torn \in BOOLEAN
  /\ saved \in Metas

Init ==
  /\ disk = [paragraphs |-> None, questions |-> None, vectors |-> <<>>, meta |-> NoMeta,
             partial |-> <<>>, partialMeta |-> NoMeta, manifest |-> NoManifest]
  /\ run = NoRun
  /\ quota = PerDay
  /\ crashes = 0
  /\ cut = {}
  /\ torn = FALSE
  /\ saved = NoMeta

-----------------------------------------------------------------------------
(***************************************************************************)
(* What the server accepts.                                                *)
(***************************************************************************)
MetaFits_AnyCorpus(meta, corpus, model) ==
  meta.model = model /\ meta.count = Size[corpus]

\* DenseIndex.load on the metadata: fingerprint, count, model and dimensions.
MetaFits(meta, corpus, model) ==
  meta.corpus = corpus /\ meta.model = model /\ meta.count = Size[corpus]

\* VectorStore.load with this model configured: both files there, the metadata
\* fits, the array has the expected shape.  A file that cannot be read ends the
\* load with an error: nothing is searched either.
Searchable(model) ==
  /\ disk.paragraphs # None
  /\ disk.vectors # <<>> /\ disk.meta # NoMeta
  /\ MetaFits(disk.meta, disk.paragraphs, model)
  /\ Len(disk.vectors) = Size[disk.paragraphs]

\* Row by row, the vectors are those of the paragraphs, by that model.
Genuine(rows, corpus, model) == \A i \in 1..Len(rows) : rows[i] = <<corpus, model>>

-----------------------------------------------------------------------------
(***************************************************************************)
(* The commands.                                                           *)
(***************************************************************************)
At(point) == run.at = point
MetaOf(rows) == [corpus |-> run.corpus, model |-> run.model, count |-> Len(rows)]
\* Mutant: the loop runs once more.
Complete_OneMore == Len(run.rows) > Size[run.corpus]
Complete == Len(run.rows) >= Size[run.corpus]

\* run_build fetches and parses; run_embed_only reads the paragraphs there are, and
\* fails where there are none that can be read.
Start(command) ==
  /\ At("idle")
  /\ \/ /\ command.mode = "full"
        /\ run' = [NoRun EXCEPT !.at = "paragraphs", !.corpus = command.corpus,
                                !.model = command.model]
     \/ /\ command.mode = "only" /\ disk.paragraphs # None
        /\ run' = [NoRun EXCEPT !.at = "load", !.mode = "only", !.corpus = disk.paragraphs,
                                !.model = command.model]
  /\ UNCHANGED <<disk, quota, crashes, cut, torn, saved>>

WriteParagraphs ==
  /\ At("paragraphs")
  /\ disk' = [disk EXCEPT !.paragraphs = run.corpus]
  /\ run' = [run EXCEPT !.at = "questions"]
  /\ UNCHANGED <<quota, crashes, cut, torn, saved>>

\* Without an embedder the build goes straight to its manifest.
WriteQuestions ==
  /\ At("questions")
  /\ disk' = [disk EXCEPT !.questions = run.corpus]
  /\ run' = [run EXCEPT !.at = IF run.model = None THEN "manifest" ELSE "load"]
  /\ UNCHANGED <<quota, crashes, cut, torn, saved>>

\* Mutants: progress is never found; that of another corpus is taken up.
Resumable_Never == FALSE
Resumable_AnyCorpus ==
  /\ disk.partial # <<>> /\ disk.partialMeta # NoMeta
  /\ disk.partialMeta.model = run.model
  /\ Len(disk.partial) = disk.partialMeta.count

\* _load_partial takes the progress file up: same corpus, same model, and as
\* many rows as its record says.
Resumable ==
  /\ disk.partial # <<>> /\ disk.partialMeta # NoMeta
  /\ disk.partialMeta.corpus = run.corpus /\ disk.partialMeta.model = run.model
  /\ Len(disk.partial) = disk.partialMeta.count

\* Both progress files are there, and reading them raises: the record, or, where it
\* names this corpus and model, the rows.
Unreadable ==
  /\ disk.partial # <<>> \/ "partial" \in cut
  /\ \/ "partialMeta" \in cut
     \/ /\ "partial" \in cut
        /\ disk.partialMeta.corpus = run.corpus /\ disk.partialMeta.model = run.model

LoadPartial ==
  /\ At("load")
  /\ run' = IF Unreadable THEN NoRun
            ELSE [run EXCEPT !.at = "embed", !.rows = IF Resumable THEN disk.partial ELSE <<>>]
  /\ UNCHANGED <<disk, quota, crashes, cut, torn, saved>>

\* _embed_batch: a per-minute limit is slept over inside it.
EmbedBatch ==
  /\ At("embed") /\ ~Complete /\ quota > 0
  /\ run' = [run EXCEPT !.at = "save", !.rows = Append(@, <<run.corpus, run.model>>)]
  /\ quota' = quota - 1
  /\ UNCHANGED <<disk, crashes, cut, torn, saved>>

\* The daily quota is spent: what there is is saved, and the command ends.
QuotaStop ==
  /\ At("embed") /\ ~Complete /\ quota = 0
  /\ run' = IF run.rows = <<>> THEN NoRun
                               ELSE [run EXCEPT !.at = "save", !.stopping = TRUE]
  /\ UNCHANGED <<disk, quota, crashes, cut, torn, saved>>

\* _save_partial, first file and second.
SavePartial ==
  /\ At("save")
  /\ disk' = [disk EXCEPT !.partial = run.rows]
  /\ cut' = cut \ {"partial"}
  /\ run' = [run EXCEPT !.at = "saveMeta"]
  /\ UNCHANGED <<quota, crashes, torn, saved>>

SavePartialMeta ==
  /\ At("saveMeta")
  /\ disk' = [disk EXCEPT !.partialMeta = MetaOf(run.rows)]
  /\ cut' = cut \ {"partialMeta"}
  /\ saved' = MetaOf(run.rows)
  /\ run' = IF run.stopping THEN NoRun ELSE [run EXCEPT !.at = "embed"]
  /\ UNCHANGED <<quota, crashes, torn>>

\* write_embeddings, first file and second.
WriteVectors ==
  /\ At("embed") /\ Complete
  /\ disk' = [disk EXCEPT !.vectors = run.rows]
  /\ run' = [run EXCEPT !.at = "writeMeta"]
  /\ UNCHANGED <<quota, crashes, cut, torn, saved>>

\* Mutant: the index says nothing new of itself.
WriteMeta_KeepsOld ==
  /\ At("writeMeta")
  /\ disk' = IF disk.meta = NoMeta THEN [disk EXCEPT !.meta = MetaOf(run.rows)] ELSE disk
  /\ run' = [run EXCEPT !.at = "discard"]
  /\ UNCHANGED <<quota, crashes, cut, torn, saved>>

WriteMeta ==
  /\ At("writeMeta")
  /\ disk' = [disk EXCEPT !.meta = MetaOf(run.rows)]
  /\ run' = [run EXCEPT !.at = "discard"]
  /\ UNCHANGED <<quota, crashes, cut, torn, saved>>

\* discard_partial, first file and second.
DiscardPartial ==
  /\ At("discard")
  /\ disk' = [disk EXCEPT !.partial = <<>>]
  /\ cut' = cut \ {"partial"}
  /\ run' = [run EXCEPT !.at = "discardMeta"]
  /\ saved' = NoMeta
  /\ UNCHANGED <<quota, crashes, torn>>

DiscardPartialMeta ==
  /\ At("discardMeta")
  /\ disk' = [disk EXCEPT !.partialMeta = NoMeta]
  /\ cut' = cut \ {"partialMeta"}
  /\ run' = [run EXCEPT !.at = "manifest"]
  /\ UNCHANGED <<quota, crashes, torn, saved>>

\* run_build writes a manifest of its own; run_embed_only updates the vectors
\* in the one there is, and fails where there is none that can be read.
WriteManifest ==
  /\ At("manifest")
  /\ LET embeddings == IF run.model = None THEN NoMeta ELSE MetaOf(run.rows)
     IN  disk' = IF run.mode = "full"
                 THEN [disk EXCEPT !.manifest = [corpus |-> run.corpus,
                                                 embeddings |-> embeddings]]
                 ELSE IF disk.manifest = NoManifest THEN disk
                 ELSE [disk EXCEPT !.manifest.embeddings = embeddings]
  /\ run' = NoRun
  /\ UNCHANGED <<quota, crashes, cut, torn, saved>>

\* The process is killed between two writes, or an error that is not the daily
\* quota ends it there.
Crash ==
  /\ ~At("idle") /\ crashes < MaxCrashes
  /\ torn' = (torn \/ At("saveMeta") \/ At("writeMeta"))
  /\ run' = NoRun
  /\ crashes' = crashes + 1
  /\ UNCHANGED <<disk, quota, cut, saved>>

\* A write that does not end: np.save and write_text overwrite in place, so what
\* there was is gone and what is there cannot be read.  Only _load_partial tells
\* such a file from one that is absent.  Paragraphs, one per line, may also
\* have been cut between two lines.
CutShort ==
  \/ /\ At("paragraphs")
     /\ \E c \in Cuts[run.corpus] \cup {None} : disk' = [disk EXCEPT !.paragraphs = c]
     /\ UNCHANGED cut
  \/ At("questions") /\ disk' = [disk EXCEPT !.questions = None] /\ UNCHANGED cut
  \/ At("save") /\ disk' = [disk EXCEPT !.partial = <<>>] /\ cut' = cut \cup {"partial"}
  \/ /\ At("saveMeta")
     /\ disk' = [disk EXCEPT !.partialMeta = NoMeta] /\ cut' = cut \cup {"partialMeta"}
  \/ At("embed") /\ Complete /\ disk' = [disk EXCEPT !.vectors = <<>>] /\ UNCHANGED cut
  \/ At("writeMeta") /\ disk' = [disk EXCEPT !.meta = NoMeta] /\ UNCHANGED cut
  \/ /\ At("manifest") /\ (run.mode = "full" \/ disk.manifest # NoManifest)
     /\ disk' = [disk EXCEPT !.manifest = NoManifest] /\ UNCHANGED cut

CrashInside ==
  /\ CutShort /\ crashes < MaxCrashes
  /\ run' = NoRun
  /\ crashes' = crashes + 1
  /\ UNCHANGED <<quota, torn, saved>>

NewDay ==
  /\ quota < PerDay
  /\ quota' = PerDay
  /\ UNCHANGED <<disk, run, crashes, cut, torn, saved>>

Builds ==
  \/ WriteParagraphs \/ WriteQuestions \/ LoadPartial
  \/ EmbedBatch \/ QuotaStop \/ SavePartial \/ SavePartialMeta
  \/ WriteVectors \/ WriteMeta \/ DiscardPartial \/ DiscardPartialMeta
  \/ WriteManifest

Next == Builds \/ (\E command \in Commands : Start(command)) \/ Crash \/ CrashInside \/ NewDay

Spec == Init /\ [][Next]_vars

\* A command is run again whenever one stopped, and days pass.
FairSpec ==
  /\ Spec
  /\ WF_vars(Builds)
  /\ WF_vars(\E command \in Commands : Start(command))
  /\ WF_vars(NewDay)

-----------------------------------------------------------------------------
\* Both files of a pair have been written.
Settled == ~torn /\ ~At("saveMeta") /\ ~At("writeMeta")

\* Whatever builds were run, stopped by the quota or killed, inside a write or
\* anywhere but between the two writes of a pair, the vectors the server would
\* accept are those of the paragraphs on disk, by the configured model:
\* DenseIndex.load never lets another corpus's or model's vectors through, not
\* even one resumed row.
AcceptedAreGenuine ==
  Settled => \A model \in Models :
    Searchable(model) => Genuine(disk.vectors, disk.paragraphs, model)

\* A build that takes saved progress up takes up rows of its own corpus and
\* model only (unless a command was killed between the two writes).
ResumesOwnWork ==
  ~torn /\ At("embed") => Genuine(run.rows, run.corpus, run.model)

\* A build of the corpus and the model whose progress was last saved that gets to
\* embed starts with all of it, and embeds no row a second time (unless a command
\* was killed between the two writes; one killed inside a write leaves progress
\* that the next build of the same corpus fails on, see RerunContinues).
Resumes ==
  At("load") /\ run'.at = "embed" /\ saved.corpus = run.corpus /\ saved.model = run.model =>
    Len(run'.rows) >= saved.count
ResumesUnlessTorn == [][~torn => Resumes]_vars

\* The manifest is written last: when a full build writes it, it, the
\* paragraphs and the questions are of one source and the vectors it names are
\* the ones on disk, complete; an embeddings-only build leaves its source alone.
ManifestWrittenLast ==
  [][disk'.manifest \notin {disk.manifest, NoManifest} =>
       /\ disk'.manifest.embeddings \in {NoMeta, disk.meta}
       /\ disk'.manifest.embeddings # NoMeta => Len(disk.vectors) = disk.meta.count
       /\ disk'.manifest.corpus # disk.manifest.corpus =>
            disk'.manifest.corpus = disk.paragraphs /\ disk.questions = disk.paragraphs]_vars

\* Only the wanted command is run any more.
Insists ==
  [][At("idle") /\ run' # run =>
       run'.mode = "full" /\ run'.corpus = Wanted.corpus /\ run'.model = Wanted.model]_vars

\* A corpus larger than a day's quota is embedded in the end by running the same
\* command again every day, whatever builds of other corpora or models were
\* stopped or killed before (build.py:209-249), provided that no unreadable
\* progress file stays: a kill inside the write of one leaves it, and only a
\* build of another corpus or model, or an operator, may remove it.
IsBuilt ==
  /\ disk.paragraphs = Wanted.corpus /\ Searchable(Wanted.model)
  /\ disk.manifest.embeddings = disk.meta
QuotaOutlasted == <>Insists /\ <>[](cut = {}) => <>IsBuilt

-----------------------------------------------------------------------------
\* Said of the code, and not so.

\* dense.py: a stale vector file can never silently return wrong neighbours.
StaleNeverAccepted ==
  At("idle") => \A model \in Models :
    Searchable(model) => Genuine(disk.vectors, disk.paragraphs, model)

\* build_embeddings: a rerun continues where the last one stopped, as long as
\* the corpus and the model are unchanged.
ResumesWhereStopped == [][Resumes]_vars

\* The same, of a build killed inside the write of a progress file: every rerun of
\* it ends in _load_partial with an error (build.py:150, :161).
RerunContinues == [][At("load") /\ crashes' = crashes => ~(run'.at = "idle")]_vars

\* BuildManifest: provenance of everything in data/.  Where a command just
\* ended well, the manifest is of the paragraphs there.
ManifestDescribesData ==
  [][At("manifest") /\ disk'.manifest # NoManifest /\ run'.at = "idle" /\ crashes' = crashes =>
       disk'.manifest.corpus = disk'.paragraphs]_vars
=============================================================================
