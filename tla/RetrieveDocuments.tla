--------------------------- MODULE RetrieveDocuments ---------------------------
(***************************************************************************)
(* The corpus branch for one sub-query (graph/nodes/retrieve_documents.py):*)
(* search, one relevance grade, at most one rewritten query with a second  *)
(* search and a second grade, evidence from what is left; and the search   *)
(* itself (retrieval/store.py): embed the query with retries, take the     *)
(* nearest paragraphs, rerank them.                                        *)
(*                                                                         *)
(* Scores are arbitrary, so a search may rank the corpus in any order; a   *)
(* grader may name any paragraphs.  A model call answers or every provider *)
(* has failed (call_with_failover).                                        *)
(***************************************************************************)
EXTENDS Startup, Naturals, SequencesExt

CONSTANTS
  Paragraphs,           \* what a corpus may hold
  MaxAttempts,          \* max_retries + 1 of the embedder
  RerankCandidates,     \* rerank_candidates, at most dense_top_k
  GradeTopK,            \* grade_top_k
  EvidencePerSubQuery,  \* evidence_per_sub_query
  MaxQueryRewrites      \* max_query_rewrites

ASSUME ParagraphsAssumption == IsFiniteSet(Paragraphs)
ASSUME BoundsAssumption ==
  /\ {MaxAttempts, RerankCandidates, GradeTopK, EvidencePerSubQuery} \subseteq Nat \ {0}
  /\ MaxQueryRewrites \in Nat

VARIABLES
  deps,       \* what startup built, and its readiness (never changes)
  corpus,     \* the paragraphs of the store (never changes)
  at,         \* what the branch waits for; END, or raised out of the node
  attempt,    \* attempts at embedding the query
  hits,       \* the passages of the first search, best first
  pool,       \* with those of the second: what is graded
  relevant,   \* those of them the last grade kept
  ungraded,   \* "grade:none" is among the providers
  rewrote,    \* the query was rewritten
  evidence,   \* the passages returned
  notes, gap, \* the notes and whether a caveat was returned
  judged,     \* what the grade that decided was about, {} without one (history)
  retrieved   \* what the searches found, both together (history)

result == <<evidence, notes, gap>>
found == <<hits, pool, retrieved>>
grading == <<relevant, ungraded, judged>>
vars == <<deps, corpus, at, attempt, found, grading, rewrote, result>>

-----------------------------------------------------------------------------
Places == {"search", "grade", "rewrite", "search_again", "grade_again", "END", "raised"}

Notes == {"not_loaded", "search_failed", "no_model", "rewritten", "ungraded"}

\* Sequences of paragraphs of the corpus, none of them twice.
Rankings(n) == {s \in [1..n -> corpus] : IsInjective(s)}

TypeOK ==
  /\ deps \in [models : BOOLEAN, store : BOOLEAN, searchable : BOOLEAN,
              production : BOOLEAN, ready : BOOLEAN]
  /\ corpus \subseteq Paragraphs
  /\ at \in Places
  /\ attempt \in 1..MaxAttempts
  /\ hits \in Seq(corpus) /\ pool \in Seq(corpus)
  /\ relevant \in Seq(corpus) /\ evidence \in Seq(corpus)
  /\ ungraded \in BOOLEAN /\ rewrote \in BOOLEAN /\ gap \in BOOLEAN
  /\ notes \subseteq Notes
  /\ judged \subseteq corpus /\ retrieved \subseteq corpus

Init ==
  /\ deps \in Servers({"models", "store", "searchable", "production", "ready"})
  /\ corpus \in SUBSET Paragraphs
  /\ at = "search" /\ attempt = 1
  /\ hits = <<>> /\ pool = <<>> /\ relevant = <<>> /\ evidence = <<>>
  /\ ungraded = FALSE /\ rewrote = FALSE
  /\ notes = {} /\ gap = FALSE
  /\ judged = {} /\ retrieved = {}

-----------------------------------------------------------------------------
(***************************************************************************)
(* The end of the branch.                                                  *)
(***************************************************************************)
Least(m, n) == IF m < n THEN m ELSE n

First(n, s) == SubSeq(s, 1, Least(n, Len(s)))

\* The passages of s that are in S, in the order of s.
Only(S, s) ==
  LET places == {i \in DOMAIN s : s[i] \in S}
      Nth(n) == CHOOSE i \in places : Cardinality({j \in places : j < i}) = n - 1
  IN  [n \in 1..Cardinality(places) |-> s[Nth(n)]]

\* The top passages when the grader kept none.
Chosen(kept) == First(EvidencePerSubQuery, IF kept = <<>> THEN First(3, pool) ELSE kept)

Returns(chosen, written, incomplete) ==
  /\ at' = "END"
  /\ evidence' = chosen
  /\ notes' = written
  /\ gap' = incomplete

-----------------------------------------------------------------------------
(***************************************************************************)
(* VectorStore.search and the embedder.                                    *)
(***************************************************************************)
Searching == at \in {"search", "search_again"} /\ deps.store

NoStore ==
  /\ at = "search" /\ ~deps.store
  /\ Returns(<<>>, {"not_loaded"}, TRUE)
  /\ UNCHANGED <<deps, corpus, attempt, found, grading, rewrote>>

\* Mutant: the attempts are never used up.
EmbeddingRetried_NoLimit ==
  /\ Searching /\ deps.searchable
  /\ attempt' = attempt + 1
  /\ UNCHANGED <<deps, corpus, at, found, grading, rewrote, result>>

\* Timeouts and transient statuses are retried.
EmbeddingRetried ==
  /\ Searching /\ deps.searchable
  /\ attempt < MaxAttempts
  /\ attempt' = attempt + 1
  /\ UNCHANGED <<deps, corpus, at, found, grading, rewrote, result>>

\* The nearest of all rows, the candidates of those, the best of these.
HitCount == Least(GradeTopK, Least(RerankCandidates, Cardinality(corpus)))

\* Mutant: the passages of both searches are cut back to those of one.
Merge_TopK(first, second) == First(GradeTopK, first \o Only(corpus \ ToSet(first), second))

Merge(first, second) == first \o Only(corpus \ ToSet(first), second)

\* No usable index, or the embedding failed (for good, or once too often): the
\* first search ends the branch, the second just finds nothing.
SearchFails ==
  /\ Searching
  /\ IF at = "search"
     THEN Returns(<<>>, {"search_failed"}, TRUE)
     ELSE at' = "grade_again" /\ UNCHANGED result
  /\ UNCHANGED <<deps, corpus, attempt, found, grading, rewrote>>

\* (No server that Startup builds can search without a model.)
SearchFinds ==
  /\ Searching /\ deps.searchable
  /\ \E ranking \in Rankings(HitCount) :
       /\ retrieved' = retrieved \cup ToSet(ranking)
       /\ IF at = "search"
          THEN /\ hits' = ranking /\ pool' = ranking
               /\ IF deps.models
                  THEN at' = "grade" /\ UNCHANGED result
                  ELSE Returns(First(EvidencePerSubQuery, ranking), {"no_model"}, FALSE)
          ELSE /\ pool' = Merge(hits, ranking)
               /\ at' = "grade_again"
               /\ UNCHANGED <<hits, result>>
  /\ UNCHANGED <<deps, corpus, attempt, grading, rewrote>>

-----------------------------------------------------------------------------
(***************************************************************************)
(* _grade_with_rewrite.                                                    *)
(***************************************************************************)
Grading == at \in {"grade", "grade_again"}

\* What is kept, and what is said about it, once no model call is left.
Concludes(kept, none) ==
  Returns(Chosen(kept),
          (IF rewrote THEN {"rewritten"} ELSE {}) \cup
          (IF none /\ hits # <<>> THEN {"ungraded"} ELSE {}),
          FALSE)

\* A grade: what it keeps, of which passages, and whether that suffices.
Grades(kept, about, sufficient, none) ==
  /\ relevant' = kept
  /\ judged' = about
  /\ ungraded' = (ungraded \/ none)
  /\ IF at = "grade" /\ ~sufficient /\ MaxQueryRewrites > 0
     THEN at' = "rewrite" /\ UNCHANGED result
     ELSE Concludes(kept, ungraded')
  /\ UNCHANGED <<deps, corpus, attempt, found, rewrote>>

\* No model is asked about no passages.
GradesNothing == Grading /\ pool = <<>> /\ Grades(<<>>, {}, FALSE, TRUE)

\* Ids the grader made up are passed over.
GradeAnswers ==
  /\ Grading /\ pool # <<>>
  /\ \E wanted \in SUBSET corpus, sufficient \in BOOLEAN :
       Grades(Only(wanted, pool), ToSet(pool), sufficient, FALSE)

\* Mutant: without a verdict the query is rewritten.
GradeUnavailable_Insufficient ==
  Grading /\ pool # <<>> /\ Grades(First(3, pool), {}, FALSE, TRUE)

\* Every provider failed: the top passages, and no rewrite for want of a verdict.
GradeUnavailable == Grading /\ pool # <<>> /\ Grades(First(3, pool), {}, TRUE, TRUE)

\* A new query, embedded afresh.
RewriteAnswers ==
  /\ at = "rewrite"
  /\ at' = "search_again" /\ attempt' = 1 /\ rewrote' = TRUE
  /\ UNCHANGED <<deps, corpus, found, grading, result>>

\* No query, the same query, or no provider: the first grade stands.
RewriteInVain ==
  /\ at = "rewrite"
  /\ Concludes(relevant, ungraded)
  /\ UNCHANGED <<deps, corpus, attempt, found, grading, rewrote>>

\* The reranker, or the validation of a grade, raises out of the node.
Raises ==
  /\ \/ Searching /\ deps.searchable
     \/ Grading /\ pool # <<>>
  /\ at' = "raised"
  /\ UNCHANGED <<deps, corpus, attempt, found, grading, rewrote, result>>

Ended == at \in {"END", "raised"} /\ UNCHANGED vars

Next ==
  \/ NoStore \/ EmbeddingRetried \/ SearchFails \/ SearchFinds
  \/ GradesNothing \/ GradeAnswers \/ GradeUnavailable
  \/ RewriteAnswers \/ RewriteInVain
  \/ Raises \/ Ended

Spec == Init /\ [][Next]_vars

-----------------------------------------------------------------------------
(***************************************************************************)
(* Properties.                                                             *)
(***************************************************************************)

\* Passages are said to be ungraded exactly when the grade that decided did not
\* judge them, over every order of failed grades, rewrites and searches
\* (retrieve_documents.py:63-77, :128-148).
UngradedIsSaid ==
  (at = "END" /\ evidence # <<>>) =>
    (notes \cap {"ungraded", "no_model"} # {} <=> ~ToSet(evidence) \subseteq judged)

\* The evidence is taken from the passages of a set, and leaves one of them out only
\* when it holds n others.
FilledFrom(passages, n) ==
  /\ ToSet(evidence) \subseteq passages
  /\ passages \subseteq ToSet(evidence) \/ Len(evidence) >= n

\* A search that worked leaves evidence, and a branch without evidence leaves a
\* caveat (or an empty corpus).  A grade that decided was asked about all that both
\* searches found.  What it kept is returned, each passage once, and is left out only
\* for evidence_per_sub_query others it kept; if it kept none, or no grade decided,
\* what was found is left out only for the top three.  (What the first grade kept and
\* the deciding one did not is not among them: RelevantBecomeEvidence.)
\* (retrieve_documents.py:57-78, :114-126, :134-155.)
FoundIsKept ==
  at = "END" =>
    /\ gap <=> notes \cap {"not_loaded", "search_failed"} # {}
    /\ evidence = <<>> <=> gap \/ corpus = {}
    /\ IsInjective(evidence) /\ Len(evidence) <= EvidencePerSubQuery
    /\ judged \in {{}, retrieved} /\ ToSet(relevant) \subseteq retrieved
    /\ relevant # <<>> => FilledFrom(ToSet(relevant), EvidencePerSubQuery)
    /\ relevant = <<>> \/ judged = {} => FilledFrom(retrieved, Least(3, EvidencePerSubQuery))

\* store.py:106: "A missing or mismatched index leaves the store
\* searchable-in-name-only", :108: "Readiness reports it too, so this never passes
\* silently in production".
IndexIsReported ==
  (deps.production /\ at = "END" /\ "search_failed" \in notes /\ ~deps.searchable) =>
    ~deps.ready

\* retrieve_documents.py:5: "Relevant passages become ``Evidence``": what the first
\* grade found relevant is returned when the second is unavailable.
RelevantBecomeEvidence ==
  [][(at = "grade_again" /\ at' = "END" /\ judged' = {}) =>
       ToSet(First(EvidencePerSubQuery, relevant)) \subseteq ToSet(evidence')]_vars
=============================================================================
