------------------------- MODULE CorpusBuildProofs -------------------------
(***************************************************************************)
(* Proofs about CorpusBuild, for any corpora, models, sizes, daily quota,  *)
(* commands and number of kills.                                           *)
(***************************************************************************)
EXTENDS CorpusBuild, TLAPS

USE NoneAssumption, SizeAssumption, PerDayAssumption, MaxCrashesAssumption, CommandsAssumption

-----------------------------------------------------------------------------
(***************************************************************************)
(* Types.                                                                  *)
(***************************************************************************)
Embedding == {"load", "embed", "save", "saveMeta", "writeMeta", "discard", "discardMeta"}

\* A command works on a corpus; recorded progress is no longer than its corpus.
Fits ==
  /\ run.at # "idle" => run.corpus \in Corpora
  /\ run.at \in {"paragraphs", "questions"} => run.rows = <<>>
  /\ disk.partialMeta.corpus # None => disk.partialMeta.count <= Size[disk.partialMeta.corpus]

Typed == TypeOK /\ Fits

LEMMA TypedInit == Init => Typed
<1> SUFFICES ASSUME Init PROVE Typed
  OBVIOUS
<1>1. NoMeta \in Metas /\ NoMeta.corpus = None
  BY DEF NoMeta, Metas
<1>2. <<>> \in Vectors
  BY DEF Vectors
<1>3. NoRun \in Runs /\ NoRun.at = "idle"
  BY <1>2 DEF NoRun, Runs, Points
<1>4. disk \in Disks /\ disk.partialMeta = NoMeta
  BY <1>1, <1>2 DEF Init, Disks, NoManifest
<1>5. quota \in 0..PerDay /\ crashes \in 0..MaxCrashes
  BY DEF Init
<1>6. TypeOK
  BY <1>1, <1>3, <1>4, <1>5 DEF Init, TypeOK
<1> QED
  BY <1>1, <1>3, <1>4, <1>6 DEF Init, Typed, Fits

\* What a command records of its rows is an EmbeddingsMeta.
LEMMA MetaTyped ==
  ASSUME Typed
  PROVE  MetaOf(run.rows) \in Metas
BY DEF Typed, TypeOK, Runs, Metas, Vectors, MetaOf

LEMMA TypedStep == Typed /\ [Next]_vars => Typed'
<1> SUFFICES ASSUME Typed, [Next]_vars PROVE Typed'
  OBVIOUS
<1> USE DEF Typed
<1>m. MetaOf(run.rows) \in Metas
  BY MetaTyped
<1>n. NoRun \in Runs /\ NoMeta \in Metas /\ NoRun.at = "idle"
  BY DEF NoRun, NoMeta, Runs, Metas, Vectors, Points
<1>1. ASSUME NEW command \in Commands, Start(command) PROVE Typed'
  <2>1. command \in AllCommands
    OBVIOUS
  <2>2. run' \in Runs /\ run'.rows = <<>> /\ run'.corpus \in Corpora
          /\ (run'.at = "paragraphs" \/ (run'.at = "load" /\ run'.model \in Models))
    <3>1. CASE command.mode = "full"
      <4>1. /\ run' = [NoRun EXCEPT !.at = "paragraphs", !.corpus = command.corpus,
                                    !.model = command.model]
            /\ command.corpus \in Corpora /\ command.model \in Models \cup {None}
        BY <1>1, <2>1, <3>1 DEF Start, AllCommands
      <4> QED
        BY <1>n, <4>1 DEF Runs, NoRun, Points
    <3>2. CASE command.mode = "only"
      <4>1. disk.paragraphs \in Corpora
        BY <1>1, <3>2 DEF Start, TypeOK, Disks
      <4>2. /\ run' = [NoRun EXCEPT !.at = "load", !.mode = "only", !.corpus = disk.paragraphs,
                                    !.model = command.model]
            /\ command.model \in Models
        BY <1>1, <2>1, <3>2 DEF Start, AllCommands
      <4> QED
        BY <1>n, <4>1, <4>2 DEF Runs, NoRun, Points
    <3> QED
      BY <2>1, <3>1, <3>2 DEF AllCommands
  <2> QED
    BY <1>1, <2>2 DEF Start, TypeOK, Fits
<1>2. CASE WriteParagraphs
  BY <1>2 DEF WriteParagraphs, At, TypeOK, Fits, Disks, Runs, Points
<1>3. CASE WriteQuestions
  <2>1. run.corpus \in Corpora /\ run.rows = <<>> /\ run \in Runs /\ Size[run.corpus] \in Nat
    BY <1>3 DEF WriteQuestions, At, TypeOK, Fits
  <2>2. disk' \in Disks /\ disk'.partialMeta = disk.partialMeta
    BY <1>3, <2>1 DEF WriteQuestions, TypeOK, Disks
  <2>3. /\ run' \in Runs /\ run'.corpus = run.corpus /\ run'.rows = <<>>
        /\ run'.at = "manifest" \/ (run'.at = "load" /\ run'.model \in Models)
    BY <1>3, <2>1 DEF WriteQuestions, Runs, Points
  <2> QED
    BY <1>3, <2>1, <2>2, <2>3 DEF WriteQuestions, TypeOK, Fits
<1>4. CASE LoadPartial
  <2>1. run.corpus \in Corpora /\ run.model \in Models /\ disk.partial \in Vectors /\ run \in Runs
    BY <1>4 DEF LoadPartial, At, TypeOK, Disks
  <2>2. Resumable => Len(disk.partial) <= Size[run.corpus]
    BY <2>1 DEF Resumable, TypeOK, Fits, Disks, Metas
  <2>3. CASE Unreadable
    BY <1>4, <1>n, <2>3 DEF LoadPartial, TypeOK, Fits
  <2>4. CASE ~Unreadable
    <3>1. run'.rows \in Vectors /\ Len(run'.rows) <= Size[run.corpus]
      BY <1>4, <2>1, <2>2, <2>4 DEF LoadPartial, Runs, Vectors
    <3> QED
      BY <1>4, <2>1, <2>4, <3>1 DEF LoadPartial, At, TypeOK, Fits, Runs, Points
  <2> QED
    BY <2>3, <2>4
<1>5. CASE EmbedBatch
  <2>1. run.corpus \in Corpora /\ run.model \in Models /\ run.rows \in Vectors /\ run \in Runs
          /\ Len(run.rows) < Size[run.corpus]
    BY <1>5 DEF EmbedBatch, At, TypeOK, Runs, Complete, Vectors
  <2>2. run'.rows \in Vectors /\ Len(run'.rows) <= Size[run.corpus]
    BY <1>5, <2>1 DEF EmbedBatch, Runs, Vectors
  <2>3. quota' \in 0..PerDay
    BY <1>5 DEF EmbedBatch, TypeOK
  <2> QED
    BY <1>5, <2>1, <2>2, <2>3 DEF EmbedBatch, At, TypeOK, Fits, Runs, Points
<1>6. CASE QuotaStop
  <2>1. run' = NoRun \/ run' = [run EXCEPT !.at = "save", !.stopping = TRUE]
    BY <1>6 DEF QuotaStop
  <2> QED
    BY <1>6, <1>n, <2>1 DEF QuotaStop, At, TypeOK, Fits, Runs, Points, Embedding
<1>7. CASE SavePartial
  BY <1>7 DEF SavePartial, At, TypeOK, Fits, Disks, Runs, Points
<1>8. CASE SavePartialMeta
  <2>1. run.corpus \in Corpora /\ Len(run.rows) <= Size[run.corpus]
    BY <1>8 DEF SavePartialMeta, At, TypeOK
  <2>2. disk' \in Disks /\ disk'.partialMeta = MetaOf(run.rows)
    BY <1>8, <1>m DEF SavePartialMeta, TypeOK, Disks
  <2>3. Fits'
    BY <1>8, <1>n, <2>1, <2>2 DEF SavePartialMeta, At, Fits, MetaOf, TypeOK, Runs
  <2>4. TypeOK'
    BY <1>8, <1>m, <1>n, <2>1, <2>2 DEF SavePartialMeta, At, TypeOK, Runs, Points
  <2> QED
    BY <2>3, <2>4
<1>9. CASE WriteVectors
  BY <1>9 DEF WriteVectors, At, TypeOK, Fits, Disks, Runs, Points
<1>10. CASE WriteMeta
  BY <1>10, <1>m DEF WriteMeta, At, TypeOK, Fits, Disks, Runs, Points
<1>11. CASE DiscardPartial
  <2>1. <<>> \in Vectors
    BY DEF Vectors
  <2>2. disk' \in Disks /\ disk'.partialMeta = disk.partialMeta
    BY <1>11, <2>1 DEF DiscardPartial, TypeOK, Disks
  <2>3. /\ run' \in Runs /\ run'.corpus = run.corpus /\ run'.rows = run.rows
        /\ run'.model = run.model /\ run'.at = "discardMeta" /\ run.at = "discard"
    BY <1>11 DEF DiscardPartial, At, TypeOK, Runs, Points
  <2> QED
    BY <1>11, <1>n, <2>2, <2>3 DEF DiscardPartial, TypeOK, Fits
<1>12. CASE DiscardPartialMeta
  BY <1>12, <1>n DEF DiscardPartialMeta, At, TypeOK, Fits, Disks, Runs, Points, NoMeta
<1>13. CASE WriteManifest
  <2>1. disk' \in Disks /\ disk'.partialMeta = disk.partialMeta
    BY <1>13, <1>m, <1>n DEF WriteManifest, TypeOK, Disks, Runs
  <2> QED
    BY <1>13, <1>n, <2>1 DEF WriteManifest, TypeOK, Fits
<1>14. CASE Crash
  BY <1>14, <1>n DEF Crash, TypeOK, Fits
<1>15. CASE NewDay
  BY <1>15 DEF NewDay, TypeOK, Fits
<1>16. CASE UNCHANGED vars
  BY <1>16 DEF vars, TypeOK, Fits
<1>17. CASE CrashInside
  <2>1. <<>> \in Vectors /\ NoManifest \in [corpus : Corpora \cup {None}, embeddings : Metas]
    BY <1>n DEF Vectors, NoManifest
  <2>2. disk' \in Disks /\ disk'.partialMeta \in {disk.partialMeta, NoMeta}
    <3>1. CASE At("paragraphs")
      <4>1. \E c \in Corpora \cup {None} : disk' = [disk EXCEPT !.paragraphs = c]
        <5>1. run.corpus \in Corpora
          BY <3>1 DEF At, Fits
        <5> QED
          BY <1>17, <3>1, <5>1, CutsAssumption DEF CrashInside, CutShort, At
      <4> QED
        BY <4>1 DEF TypeOK, Disks
    <3>2. CASE ~At("paragraphs")
      <4>1. \/ disk' = [disk EXCEPT !.questions = None]
            \/ disk' = [disk EXCEPT !.partial = <<>>]
            \/ disk' = [disk EXCEPT !.partialMeta = NoMeta]
            \/ disk' = [disk EXCEPT !.vectors = <<>>]
            \/ disk' = [disk EXCEPT !.meta = NoMeta]
            \/ disk' = [disk EXCEPT !.manifest = NoManifest]
        BY <1>17, <3>2 DEF CrashInside, CutShort
      <4>2. disk \in Disks
        BY DEF TypeOK
      <4>3. CASE \/ disk' = [disk EXCEPT !.questions = None]
                 \/ disk' = [disk EXCEPT !.partialMeta = NoMeta]
                 \/ disk' = [disk EXCEPT !.meta = NoMeta]
        BY <1>n, <4>2, <4>3 DEF Disks
      <4>4. CASE disk' = [disk EXCEPT !.partial = <<>>]
        BY <2>1, <4>2, <4>4 DEF Disks
      <4>5. CASE disk' = [disk EXCEPT !.vectors = <<>>]
        BY <2>1, <4>2, <4>5 DEF Disks
      <4>6. CASE disk' = [disk EXCEPT !.manifest = NoManifest]
        BY <2>1, <4>2, <4>6 DEF Disks
      <4> QED
        BY <4>1, <4>3, <4>4, <4>5, <4>6
    <3> QED
      BY <3>1, <3>2
  <2>3. cut' \subseteq {"partial", "partialMeta"}
    BY <1>17 DEF CrashInside, CutShort, TypeOK
  <2>4. run' = NoRun /\ crashes' \in 0..MaxCrashes /\ UNCHANGED <<quota, torn, saved>>
    BY <1>17 DEF CrashInside, TypeOK
  <2> QED
    BY <1>n, <2>2, <2>3, <2>4 DEF TypeOK, Fits, NoMeta
<1> QED
  BY <1>1, <1>2, <1>3, <1>4, <1>5, <1>6, <1>7, <1>8, <1>9, <1>10, <1>11, <1>12, <1>13, <1>14,
     <1>15, <1>16, <1>17 DEF Next, Builds

LEMMA TypedAlways == Spec => []Typed
BY TypedInit, TypedStep, PTL DEF Spec

\* Every reachable state of files, command, quota and history has its type, and
\* no command holds more rows than its corpus has.
THEOREM TypeCorrect == Spec => []TypeOK
BY TypedAlways, PTL DEF Typed

-----------------------------------------------------------------------------
(***************************************************************************)
(* Vectors and the records that vouch for them.                            *)
(***************************************************************************)
\* The rows a command holds are of its corpus and model.  What is on disk is
\* what its record says, where there is one, but between the two writes of a
\* pair, where it is what the command holds.
Vouched ==
  ~torn =>
    /\ Genuine(run.rows, run.corpus, run.model)
    /\ IF run.at = "saveMeta"
       THEN disk.partial = run.rows
       ELSE \/ disk.partialMeta = NoMeta
            \/ Genuine(disk.partial, disk.partialMeta.corpus, disk.partialMeta.model)
    /\ IF run.at = "writeMeta"
       THEN disk.vectors = run.rows
       ELSE disk.meta = NoMeta \/ Genuine(disk.vectors, disk.meta.corpus, disk.meta.model)
    /\ run.at = "discardMeta" => disk.partial = <<>>

LEMMA EmptyGenuine == \A c, m : Genuine(<<>>, c, m)
BY DEF Genuine

\* A batch more of the same corpus and model.
LEMMA AppendGenuine ==
  ASSUME NEW rows \in Vectors, NEW c \in Corpora, NEW m \in Models, Genuine(rows, c, m)
  PROVE  Genuine(Append(rows, <<c, m>>), c, m)
BY DEF Genuine, Vectors

LEMMA VouchedInit == Init => Vouched
BY EmptyGenuine DEF Init, Vouched, NoRun, NoMeta

LEMMA VouchedStep == Typed /\ Vouched /\ [Next]_vars => Vouched'
<1> SUFFICES ASSUME Typed, Vouched, [Next]_vars, ~torn' PROVE Vouched'
  BY DEF Vouched
<1>t. ~torn
  BY DEF Next, Builds, vars, Start, WriteParagraphs, WriteQuestions, LoadPartial, EmbedBatch,
         QuotaStop, SavePartial, SavePartialMeta, WriteVectors, WriteMeta, DiscardPartial,
         DiscardPartialMeta, WriteManifest, Crash, CrashInside, NewDay
<1>n. NoRun.at = "idle" /\ NoRun.rows = <<>>
  BY DEF NoRun
<1>d. disk \in Disks /\ run \in Runs
  BY DEF Typed, TypeOK
<1>1. ASSUME NEW command \in Commands, Start(command) PROVE Vouched'
  <2>1. run'.rows = <<>> /\ run'.at \in {"paragraphs", "load"} /\ run.at = "idle" /\ disk' = disk
    BY <1>1 DEF Start, NoRun, At
  <2> QED
    BY <1>t, <2>1, EmptyGenuine DEF Vouched, Genuine
<1>2. CASE WriteParagraphs
  BY <1>2, <1>t, <1>d DEF WriteParagraphs, At, Vouched, Genuine, Disks, Runs
<1>3. CASE WriteQuestions
  BY <1>3, <1>t, <1>d DEF WriteQuestions, At, Vouched, Genuine, Disks, Runs
<1>4. CASE LoadPartial
  <2>1. Resumable => Genuine(disk.partial, run.corpus, run.model)
    BY <1>4, <1>t DEF LoadPartial, At, Resumable, Vouched
  <2>2. Genuine(run.rows, run.corpus, run.model)'
    <3>1. CASE Unreadable
      BY <1>4, <1>n, <3>1 DEF LoadPartial, Genuine
    <3>2. CASE ~Unreadable
      <4>1. /\ run'.corpus = run.corpus /\ run'.model = run.model
            /\ run'.rows = IF Resumable THEN disk.partial ELSE <<>>
        BY <1>4, <1>d, <3>2 DEF LoadPartial, Runs
      <4>2. Genuine(run'.rows, run'.corpus, run'.model)
        BY <2>1, <4>1, EmptyGenuine
      <4> QED
        BY <4>2 DEF Genuine
    <3> QED
      BY <3>1, <3>2
  <2>3. run.at = "load" /\ run'.at \in {"idle", "embed"} /\ disk' = disk
    BY <1>4, <1>d, <1>n DEF LoadPartial, At, Runs
  <2> QED
    BY <1>t, <2>2, <2>3 DEF Vouched, Genuine
<1>5. CASE EmbedBatch
  <2>1. run.rows \in Vectors /\ run.corpus \in Corpora /\ run.model \in Models
    BY <1>5 DEF EmbedBatch, At, Typed, TypeOK, Runs
  <2>2. Genuine(run.rows, run.corpus, run.model)
    BY <1>t DEF Vouched
  <2>3. Genuine(Append(run.rows, <<run.corpus, run.model>>), run.corpus, run.model)
    BY <2>1, <2>2, AppendGenuine
  <2>4. /\ run'.rows = Append(run.rows, <<run.corpus, run.model>>) /\ run'.corpus = run.corpus
        /\ run'.model = run.model /\ run'.at = "save" /\ disk' = disk /\ run.at = "embed"
    BY <1>5, <1>d DEF EmbedBatch, At, Runs
  <2>5. Genuine(run.rows, run.corpus, run.model)'
    BY <2>3, <2>4 DEF Genuine
  <2> QED
    BY <1>t, <2>4, <2>5 DEF Vouched, Genuine
<1>6. CASE QuotaStop
  <2>1. run' = NoRun \/ run' = [run EXCEPT !.at = "save", !.stopping = TRUE]
    BY <1>6 DEF QuotaStop
  <2>2. run.at = "embed" /\ disk' = disk /\ run'.at \in {"idle", "save"}
    BY <1>6, <1>d, <1>n, <2>1 DEF QuotaStop, At, Runs
  <2>3. Genuine(run.rows, run.corpus, run.model)'
    <3>1. CASE run' = NoRun
      BY <1>n, <3>1 DEF Genuine
    <3>2. CASE run' = [run EXCEPT !.at = "save", !.stopping = TRUE]
      BY <1>d, <1>t, <3>2 DEF Vouched, Genuine, Runs
    <3> QED
      BY <2>1, <3>1, <3>2
  <2> QED
    BY <1>t, <2>2, <2>3 DEF Vouched, Genuine
<1>7. CASE SavePartial
  BY <1>7, <1>t, <1>d DEF SavePartial, At, Vouched, Genuine, Disks, Runs
<1>8. CASE SavePartialMeta
  <2>1. /\ disk'.partial = run.rows /\ disk'.partialMeta.corpus = run.corpus
        /\ disk'.partialMeta.model = run.model
        /\ disk'.vectors = disk.vectors /\ disk'.meta = disk.meta
    BY <1>8, <1>t, <1>d DEF SavePartialMeta, At, Vouched, MetaOf, Disks
  <2>2. run'.at \in {"idle", "embed"} /\ run.at = "saveMeta"
    BY <1>8, <1>d, <1>n DEF SavePartialMeta, At, Runs
  <2>3. Genuine(run.rows, run.corpus, run.model)'
    BY <1>8, <1>d, <1>n, <1>t DEF SavePartialMeta, Vouched, Genuine, Runs
  <2> QED
    BY <1>t, <2>1, <2>2, <2>3 DEF Vouched, Genuine
<1>9. CASE WriteVectors
  BY <1>9, <1>t, <1>d DEF WriteVectors, At, Vouched, Genuine, Disks, Runs
<1>10. CASE WriteMeta
  <2>1. /\ disk'.vectors = run.rows /\ disk'.meta.corpus = run.corpus /\ disk'.meta.model = run.model
        /\ disk'.partial = disk.partial /\ disk'.partialMeta = disk.partialMeta
    BY <1>10, <1>t, <1>d DEF WriteMeta, At, Vouched, MetaOf, Disks
  <2>2. /\ run'.at = "discard" /\ run.at = "writeMeta" /\ run'.rows = run.rows
        /\ run'.corpus = run.corpus /\ run'.model = run.model
    BY <1>10, <1>d DEF WriteMeta, At, Runs
  <2> QED
    BY <1>t, <2>1, <2>2 DEF Vouched, Genuine
<1>11. CASE DiscardPartial
  BY <1>11, <1>t, <1>d, EmptyGenuine DEF DiscardPartial, At, Vouched, Genuine, Disks, Runs
<1>12. CASE DiscardPartialMeta
  BY <1>12, <1>t, <1>d, EmptyGenuine DEF DiscardPartialMeta, At, Vouched, Genuine, Disks, Runs
<1>13. CASE WriteManifest
  <2>1. /\ disk'.vectors = disk.vectors /\ disk'.meta = disk.meta /\ disk'.partial = disk.partial
        /\ disk'.partialMeta = disk.partialMeta
    BY <1>13, <1>d DEF WriteManifest, Disks
  <2> QED
    BY <1>13, <1>n, <1>t, <2>1, EmptyGenuine DEF WriteManifest, At, Vouched, Genuine
<1>14. CASE Crash
  <2>1. run.at # "saveMeta" /\ run.at # "writeMeta"
    BY <1>14 DEF Crash, At
  <2> QED
    BY <1>14, <1>n, <1>t, <2>1, EmptyGenuine DEF Crash, Vouched, Genuine
<1>15. CASE NewDay
  BY <1>15, <1>t DEF NewDay, Vouched, Genuine
<1>16. CASE UNCHANGED vars
  BY <1>16, <1>t DEF vars, Vouched, Genuine
<1>17. CASE CrashInside
  <2>1. /\ run'.at = "idle" /\ run'.rows = <<>>
        /\ disk'.partialMeta = NoMeta \/ disk'.partial = <<>>
             \/ (run.at # "saveMeta" /\ disk'.partial = disk.partial /\ disk'.partialMeta = disk.partialMeta)
        /\ disk'.meta = NoMeta \/ disk'.vectors = <<>>
             \/ (run.at # "writeMeta" /\ disk'.vectors = disk.vectors /\ disk'.meta = disk.meta)
    BY <1>17, <1>d, <1>n DEF CrashInside, CutShort, At, Disks
  <2> QED
    BY <1>t, <2>1, EmptyGenuine DEF Vouched, Genuine
<1> QED
  BY <1>1, <1>2, <1>3, <1>4, <1>5, <1>6, <1>7, <1>8, <1>9, <1>10, <1>11, <1>12, <1>13, <1>14,
     <1>15, <1>16, <1>17 DEF Next, Builds

LEMMA VouchedAlways == Spec => []Vouched
BY TypedAlways, VouchedInit, VouchedStep, PTL DEF Spec

\* The vectors that the server accepts (dense.py:41-68) are those of the
\* paragraphs on disk by the configured model, after any builds, quota stops and
\* kills but between the two writes of a pair, inside a write too.
THEOREM AcceptsOnlyGenuine == Spec => []AcceptedAreGenuine
<1>1. Vouched => AcceptedAreGenuine
  BY DEF Vouched, AcceptedAreGenuine, Settled, At, Searchable, MetaFits
<1> QED
  BY <1>1, VouchedAlways, PTL

\* What _load_partial takes up (build.py:146-167) is work of the same corpus and
\* model, unless a command was killed between the two writes.
THEOREM ResumesOnlyOwnWork == Spec => []ResumesOwnWork
<1>1. Vouched => ResumesOwnWork
  BY DEF Vouched, ResumesOwnWork
<1> QED
  BY <1>1, VouchedAlways, PTL

-----------------------------------------------------------------------------
(***************************************************************************)
(* What a command has written so far, and what was last saved.             *)
(***************************************************************************)

\* A full build has written what comes before the point it is at; the index on disk
\* is complete, and the command's, from its record on.
Written ==
  /\ run.mode = "full" /\ run.at \notin {"idle", "paragraphs"} => disk.paragraphs = run.corpus
  /\ run.mode = "full" /\ run.at \notin {"idle", "paragraphs", "questions"} => disk.questions = run.corpus
  /\ run.at \in {"writeMeta", "discard", "discardMeta"} \/ (run.at = "manifest" /\ run.model # None) =>
       disk.vectors = run.rows
  /\ run.at \in {"discard", "discardMeta"} \/ (run.at = "manifest" /\ run.model # None) =>
       disk.meta = MetaOf(run.rows)

\* Saved progress is what both files say, but between the two writes, unless one of
\* them was cut: the record, and then no command gets past it, or the rows.
SavedInv ==
  /\ run.at \in {"save", "saveMeta"} => Len(run.rows) > 0
  /\ run.at = "discardMeta" => saved = NoMeta
  /\ ~torn /\ "partialMeta" \in cut =>
       /\ run.at \notin {"embed", "save", "saveMeta", "writeMeta", "discard", "discardMeta"}
       /\ disk.partial # <<>> \/ "partial" \in cut
  /\ ~torn /\ "partialMeta" \notin cut /\ saved # NoMeta =>
       /\ disk.partialMeta = saved /\ saved.count > 0
       /\ run.at # "saveMeta" => Len(disk.partial) = saved.count \/ "partial" \in cut

LEMMA WrittenInit == Init => Written /\ SavedInv
BY DEF Init, Written, SavedInv, NoRun

LEMMA WrittenStep == Typed /\ Written /\ [Next]_vars => Written'
<1> SUFFICES ASSUME Typed, Written, [Next]_vars PROVE Written'
  OBVIOUS
<1>d. disk \in Disks /\ run \in Runs
  BY DEF Typed, TypeOK
<1>n. NoRun.at = "idle"
  BY DEF NoRun
<1>1. ASSUME NEW command \in Commands, Start(command) PROVE Written'
  <2>1. /\ run'.at \in {"paragraphs", "load"} /\ (run'.at = "load" => run'.mode = "only")
        /\ disk' = disk
    BY <1>1 DEF Start, NoRun
  <2> QED
    BY <2>1 DEF Written
<1>2. CASE WriteParagraphs
  BY <1>2, <1>d DEF WriteParagraphs, At, Written, Disks, Runs
<1>3. CASE WriteQuestions
  <2>1. run.at = "questions" /\ disk' = [disk EXCEPT !.questions = run.corpus]
    BY <1>3 DEF WriteQuestions, At
  <2>2. /\ run'.at \in {"manifest", "load"} /\ (run'.at = "manifest" => run'.model = None)
        /\ run'.mode = run.mode /\ run'.corpus = run.corpus
    BY <1>3, <1>d DEF WriteQuestions, Runs
  <2> QED
    BY <1>d, <2>1, <2>2 DEF Written, Disks
<1>4. CASE LoadPartial \/ EmbedBatch
  <2>1. /\ run.at \in {"load", "embed"} /\ disk' = disk
        /\ \/ run'.at = "idle"
           \/ run'.at \in {"embed", "save"} /\ run'.mode = run.mode /\ run'.corpus = run.corpus
    BY <1>4, <1>d, <1>n DEF LoadPartial, EmbedBatch, At, Runs
  <2> QED
    BY <2>1 DEF Written
<1>5. CASE QuotaStop
  <2>1. /\ run.at = "embed" /\ disk' = disk
        /\ \/ run'.at = "idle"
           \/ run'.at = "save" /\ run'.mode = run.mode /\ run'.corpus = run.corpus
    BY <1>5, <1>d, <1>n DEF QuotaStop, At, Runs
  <2> QED
    BY <2>1 DEF Written
<1>6. CASE SavePartial \/ SavePartialMeta
  <2>1. /\ run.at \in {"save", "saveMeta"}
        /\ disk'.paragraphs = disk.paragraphs /\ disk'.questions = disk.questions
        /\ disk'.manifest = disk.manifest
        /\ \/ run'.at = "idle"
           \/ run'.at \in {"saveMeta", "embed"} /\ run'.mode = run.mode /\ run'.corpus = run.corpus
    BY <1>6, <1>d, <1>n DEF SavePartial, SavePartialMeta, At, Runs, Disks
  <2> QED
    BY <2>1 DEF Written
<1>7. CASE WriteVectors
  BY <1>7, <1>d DEF WriteVectors, At, Written, Disks, Runs
<1>8. CASE WriteMeta
  <2>1. /\ run.at = "writeMeta" /\ run'.at = "discard" /\ run'.mode = run.mode
        /\ run'.corpus = run.corpus /\ run'.model = run.model /\ run'.rows = run.rows
    BY <1>8, <1>d DEF WriteMeta, At, Runs
  <2>2. disk' = [disk EXCEPT !.meta = MetaOf(run.rows)] /\ MetaOf(run.rows)' = MetaOf(run.rows)
    BY <1>8, <2>1 DEF WriteMeta, MetaOf
  <2> QED
    BY <1>d, <2>1, <2>2 DEF Written, Disks
<1>9. CASE DiscardPartial \/ DiscardPartialMeta
  <2>1. /\ disk'.paragraphs = disk.paragraphs /\ disk'.questions = disk.questions
        /\ disk'.vectors = disk.vectors /\ disk'.meta = disk.meta /\ disk'.manifest = disk.manifest
    BY <1>9, <1>d DEF DiscardPartial, DiscardPartialMeta, Disks
  <2>2. /\ run.at \in {"discard", "discardMeta"} /\ run'.at \in {"discardMeta", "manifest"}
        /\ run'.mode = run.mode /\ run'.corpus = run.corpus /\ run'.model = run.model
        /\ run'.rows = run.rows
    BY <1>9, <1>d DEF DiscardPartial, DiscardPartialMeta, At, Runs
  <2>3. MetaOf(run.rows)' = MetaOf(run.rows)
    BY <2>2 DEF MetaOf
  <2> QED
    BY <2>1, <2>2, <2>3 DEF Written
<1>10. CASE WriteManifest
  BY <1>10, <1>n DEF WriteManifest, Written
<1>11. CASE Crash \/ CrashInside
  BY <1>11, <1>n DEF Crash, CrashInside, Written
<1>12. CASE NewDay \/ UNCHANGED vars
  BY <1>12 DEF NewDay, vars, Written, MetaOf
<1> QED
  BY <1>1, <1>2, <1>3, <1>4, <1>5, <1>6, <1>7, <1>8, <1>9, <1>10, <1>11, <1>12 DEF Next, Builds

LEMMA SavedStep == Typed /\ Vouched /\ SavedInv /\ [Next]_vars => SavedInv'
<1> SUFFICES ASSUME Typed, Vouched, SavedInv, [Next]_vars PROVE SavedInv'
  OBVIOUS
<1>d. disk \in Disks /\ run \in Runs
  BY DEF Typed, TypeOK
<1>n. NoRun.at = "idle"
  BY DEF NoRun
<1>1. ASSUME NEW command \in Commands, Start(command) PROVE SavedInv'
  <2>1. run'.at \in {"paragraphs", "load"} /\ run.at = "idle" /\ UNCHANGED <<disk, saved, torn, cut>>
    BY <1>1 DEF Start, NoRun, At
  <2> QED
    BY <2>1 DEF SavedInv
<1>2. CASE WriteParagraphs \/ WriteQuestions \/ WriteVectors \/ WriteMeta
  <2>1. /\ disk'.partial = disk.partial /\ disk'.partialMeta = disk.partialMeta
        /\ UNCHANGED <<saved, torn, cut>>
    BY <1>2, <1>d DEF WriteParagraphs, WriteQuestions, WriteVectors, WriteMeta, Disks
  <2>2. \/ run.at \in {"paragraphs", "questions"} /\ run'.at \in {"questions", "manifest", "load"}
        \/ run.at \in {"embed", "writeMeta"} /\ run'.at \in {"writeMeta", "discard"}
    BY <1>2, <1>d DEF WriteParagraphs, WriteQuestions, WriteVectors, WriteMeta, At, Runs
  <2> QED
    BY <2>1, <2>2 DEF SavedInv
<1>3. CASE EmbedBatch
  <2>1. run.at = "embed" /\ run'.at = "save" /\ UNCHANGED <<disk, saved, torn, cut>>
    BY <1>3, <1>d DEF EmbedBatch, At, Runs
  <2>2. run'.rows = Append(run.rows, <<run.corpus, run.model>>) /\ run.rows \in Seq(Corpora \X Models)
    BY <1>3, <1>d DEF EmbedBatch, Runs, Vectors
  <2>3. Len(run'.rows) > 0
    BY <2>2
  <2> QED
    BY <2>1, <2>3 DEF SavedInv
<1>4. CASE QuotaStop
  <2>1. run.at = "embed" /\ UNCHANGED <<disk, saved, torn, cut>>
    BY <1>4 DEF QuotaStop, At
  <2>2. run'.at = "idle" \/ (run'.at = "save" /\ run'.rows = run.rows /\ run.rows # <<>>)
    BY <1>4, <1>d, <1>n DEF QuotaStop, Runs
  <2>3. run.rows # <<>> => Len(run.rows) > 0
    BY <1>d DEF Runs, Vectors
  <2> QED
    BY <2>1, <2>2, <2>3 DEF SavedInv
<1>5. CASE SavePartial
  <2>1. /\ run.at = "save" /\ run'.at = "saveMeta" /\ run'.rows = run.rows /\ UNCHANGED <<saved, torn>>
        /\ cut' = cut \ {"partial"}
    BY <1>5, <1>d DEF SavePartial, At, Runs
  <2>2. disk'.partialMeta = disk.partialMeta
    BY <1>5, <1>d DEF SavePartial, Disks
  <2> QED
    BY <2>1, <2>2 DEF SavedInv
<1>6. CASE SavePartialMeta
  <2>1. /\ run.at = "saveMeta" /\ run'.at \in {"idle", "embed"} /\ UNCHANGED torn
        /\ saved' = MetaOf(run.rows) /\ Len(run.rows) > 0 /\ "partialMeta" \notin cut'
    BY <1>6, <1>d, <1>n DEF SavePartialMeta, At, Runs, SavedInv
  <2>2. disk'.partialMeta = MetaOf(run.rows) /\ disk'.partial = disk.partial
    BY <1>6, <1>d DEF SavePartialMeta, Disks
  <2>3. ~torn => disk.partial = run.rows
    BY <2>1 DEF Vouched
  <2>4. MetaOf(run.rows).count = Len(run.rows)
    BY DEF MetaOf
  <2> QED
    BY <2>1, <2>2, <2>3, <2>4 DEF SavedInv
<1>7. CASE DiscardPartial
  <2>1. /\ run.at = "discard" /\ run'.at = "discardMeta" /\ saved' = NoMeta
        /\ UNCHANGED torn /\ cut' = cut \ {"partial"}
    BY <1>7, <1>d DEF DiscardPartial, At, Runs
  <2> QED
    BY <2>1 DEF SavedInv
<1>8. CASE DiscardPartialMeta
  <2>1. /\ run.at = "discardMeta" /\ run'.at = "manifest" /\ saved' = saved
        /\ "partialMeta" \notin cut'
    BY <1>8, <1>d DEF DiscardPartialMeta, At, Runs
  <2> QED
    BY <2>1 DEF SavedInv
<1>9. CASE WriteManifest
  <2>1. /\ disk'.partial = disk.partial /\ disk'.partialMeta = disk.partialMeta
        /\ run.at = "manifest" /\ run'.at = "idle" /\ UNCHANGED <<saved, torn, cut>>
    BY <1>9, <1>d, <1>n DEF WriteManifest, At, Disks
  <2> QED
    BY <2>1 DEF SavedInv
<1>10. CASE Crash
  BY <1>10, <1>n DEF Crash, At, SavedInv
<1>11. CASE NewDay \/ UNCHANGED vars
  BY <1>11 DEF NewDay, vars, SavedInv
<1>12. CASE LoadPartial
  <2>1. /\ UNCHANGED <<disk, saved, torn, cut>> /\ run.at = "load" /\ run'.at \in {"idle", "embed"}
        /\ run'.at = "embed" => ~Unreadable
    BY <1>12, <1>d, <1>n DEF LoadPartial, At, Runs
  <2> QED
    BY <2>1 DEF SavedInv, Unreadable
<1>13. CASE CrashInside
  <2>1. run'.at = "idle" /\ UNCHANGED <<saved, torn>>
    BY <1>13, <1>n DEF CrashInside
  <2>2. CASE run.at = "save"
    <3>1. disk'.partialMeta = disk.partialMeta /\ cut' = cut \cup {"partial"}
      BY <1>13, <1>d, <2>2 DEF CrashInside, CutShort, At, Disks
    <3> QED
      BY <2>1, <2>2, <3>1 DEF SavedInv
  <2>3. CASE run.at = "saveMeta"
    <3>1. disk'.partial = disk.partial /\ cut' = cut \cup {"partialMeta"}
      BY <1>13, <1>d, <2>3 DEF CrashInside, CutShort, At, Disks
    <3>2. ~torn => disk.partial # <<>>
      <4>1. ~torn => disk.partial = run.rows /\ Len(run.rows) > 0
        BY <2>3 DEF Vouched, SavedInv
      <4> QED
        BY <4>1
    <3> QED
      BY <2>1, <2>3, <3>1, <3>2 DEF SavedInv
  <2>4. CASE run.at \notin {"save", "saveMeta"}
    <3>1. disk'.partial = disk.partial /\ disk'.partialMeta = disk.partialMeta /\ cut' = cut
      BY <1>13, <1>d, <2>4 DEF CrashInside, CutShort, At, Disks
    <3> QED
      BY <2>1, <2>4, <3>1 DEF SavedInv
  <2> QED
    BY <2>2, <2>3, <2>4
<1> QED
  BY <1>1, <1>2, <1>3, <1>4, <1>5, <1>6, <1>7, <1>8, <1>9, <1>10, <1>11, <1>12, <1>13
     DEF Next, Builds

LEMMA SavedAlways == Spec => [](Typed /\ Vouched /\ Written /\ SavedInv)
BY TypedAlways, VouchedAlways, WrittenInit, WrittenStep, SavedStep, PTL DEF Spec

\* For any builds, quota stops and kills: when the manifest changes, what it names is
\* on disk, complete, and of one source (build.py:301-347).
THEOREM ManifestComesLast == Spec => ManifestWrittenLast
<1> DEFINE Last ==
      disk'.manifest \notin {disk.manifest, NoManifest} =>
        /\ disk'.manifest.embeddings \in {NoMeta, disk.meta}
        /\ disk'.manifest.embeddings # NoMeta => Len(disk.vectors) = disk.meta.count
        /\ disk'.manifest.corpus # disk.manifest.corpus =>
             disk'.manifest.corpus = disk.paragraphs /\ disk.questions = disk.paragraphs
<1>1. ASSUME Typed, Written, [Next]_vars PROVE Last
  <2>d. disk \in Disks /\ run \in Runs
    BY <1>1 DEF Typed, TypeOK
  <2>1. CASE WriteManifest
    <3> DEFINE embeddings == IF run.model = None THEN NoMeta ELSE MetaOf(run.rows)
    <3>1. run.at = "manifest" /\ run.mode \in {"full", "only"}
      BY <2>1, <2>d DEF WriteManifest, At, Runs
    <3>2. /\ embeddings \in {NoMeta, disk.meta}
          /\ embeddings # NoMeta => Len(disk.vectors) = disk.meta.count
      BY <1>1, <3>1 DEF Written, MetaOf
    <3> HIDE DEF embeddings
    <3>3. CASE run.mode = "full"
      <4>1. disk'.manifest = [corpus |-> run.corpus, embeddings |-> embeddings]
        BY <2>1, <2>d, <3>3 DEF WriteManifest, Disks, embeddings
      <4>2. disk.paragraphs = run.corpus /\ disk.questions = run.corpus
        BY <1>1, <3>1, <3>3 DEF Written
      <4> QED
        BY <3>2, <4>1, <4>2
    <3>4. CASE run.mode = "only"
      <4>1. disk.manifest \in [corpus : Corpora \cup {None}, embeddings : Metas]
        BY <2>d DEF Disks
      <4>2. \/ disk' = disk
            \/ disk'.manifest = [disk.manifest EXCEPT !.embeddings = embeddings]
        BY <2>1, <2>d, <3>4 DEF WriteManifest, Disks, embeddings
      <4>3. disk'.manifest # disk.manifest =>
              disk'.manifest.corpus = disk.manifest.corpus /\ disk'.manifest.embeddings = embeddings
        BY <4>1, <4>2
      <4> QED
        BY <3>2, <4>3
    <3> QED
      BY <3>1, <3>3, <3>4
  <2>2. CASE ~WriteManifest
    <3>1. disk'.manifest \in {disk.manifest, NoManifest}
      BY <1>1, <2>2, <2>d DEF Next, Builds, vars, Start, WriteParagraphs, WriteQuestions, LoadPartial,
         EmbedBatch, QuotaStop, SavePartial, SavePartialMeta, WriteVectors, WriteMeta, DiscardPartial,
         DiscardPartialMeta, Crash, CrashInside, CutShort, NewDay, Disks
    <3> QED
      BY <3>1
  <2> QED
    BY <2>1, <2>2
<1>2. Typed /\ Written /\ [Next]_vars => [Last]_vars
  BY <1>1
<1> QED
  BY <1>2, SavedAlways, PTL DEF Spec, ManifestWrittenLast

\* For any builds, quota stops and kills but between the two writes of a pair: a build
\* starts with all the progress that was saved for its corpus and model
\* (build.py:146-184).
THEOREM ResumesAllSaved == Spec => ResumesUnlessTorn
<1>1. ASSUME Typed, SavedInv, [Next]_vars, ~torn PROVE Resumes
  <2> SUFFICES ASSUME At("load"), run'.at = "embed", saved.corpus = run.corpus, saved.model = run.model
               PROVE  Len(run'.rows) >= saved.count
    BY DEF Resumes
  <2>1. run.corpus \in Corpora /\ run \in Runs /\ disk \in Disks
    BY <1>1 DEF At, Typed, TypeOK
  <2>2. saved # NoMeta
    BY <2>1 DEF NoMeta
  <2>3. LoadPartial
    BY <1>1, <2>1 DEF Next, Builds, vars, Start, WriteParagraphs, WriteQuestions, EmbedBatch,
       QuotaStop, SavePartial, SavePartialMeta, WriteVectors, WriteMeta, DiscardPartial,
       DiscardPartialMeta, WriteManifest, Crash, CrashInside, NewDay, At, NoRun
  <2>4. ~Unreadable
    BY <2>3 DEF LoadPartial, NoRun
  <2>5. "partialMeta" \notin cut
    BY <1>1, <2>4 DEF SavedInv, Unreadable
  <2>6. /\ disk.partialMeta = saved /\ saved.count > 0 /\ saved.count \in Nat
        /\ Len(disk.partial) = saved.count \/ "partial" \in cut
    BY <1>1, <2>2, <2>5 DEF SavedInv, At, Typed, TypeOK, Metas
  <2>7. Len(disk.partial) = saved.count
    BY <2>4, <2>6 DEF Unreadable
  <2>8. disk.partial # <<>>
    BY <2>6, <2>7
  <2>9. Resumable
    BY <2>2, <2>6, <2>7, <2>8 DEF Resumable
  <2>10. run'.rows = disk.partial
    BY <2>1, <2>3, <2>4, <2>9 DEF LoadPartial, Runs
  <2> QED
    BY <2>6, <2>7, <2>10
<1>2. Typed /\ SavedInv /\ [Next]_vars => [~torn => Resumes]_vars
  BY <1>1
<1> QED
  BY <1>2, SavedAlways, PTL DEF Spec, ResumesUnlessTorn
=============================================================================
