--------------------------- MODULE ResourceSearch ---------------------------
(* One search for resource text, internal/application/resource (search.go,     *)
(* search_refinement.go, search_context.go, search_fusion.go,                  *)
(* vector_retrieval.go, search_citation.go) over PostgreSQL                    *)
(* (resource_search_repository.go, resource_search_context.go), the vector     *)
(* index, the embedding and the rerank providers, and the prompt a chat makes  *)
(* of it (session/knowledge.go). Every query of the search is a step, and the  *)
(* library changes between them.                                               *)
(* A text is the set of its words; a part of a text is a subset. A version     *)
(* names its resource and a chunk its version, so a candidate is a chunk and   *)
(* its generation that of the scope. A generation has its own embedding model. *)
(* The weights of the full text ranking are left out but for the shared words. *)
EXTENDS Naturals, Sequences, FiniteSets, SequencesExt, FiniteSetsExt, Functions

CONSTANTS
  Corpus,          \* the chunks: [version, ordinal, parent, text, video, title] by number
  MaxCandidates,   \* maxSearchCandidates
  MaxScoped,       \* how many resources a vector filter names (1000)
  MaxBatch, MaxBatchSize,   \* what one rerank request holds
  DefaultTopK, MaxTopK, MaxContext,   \* the limits of a request
  Envelope,        \* what the JSON around a source adds to its size in a prompt
  MaxPoints, MaxLibraryChanges,       \* bounds: points of an answer, changes around the search
  SearchRequests   \* the requests: [kind, words, video, topK, budget, chunk, generation]

VARIABLES library, search

searchVars == <<library, search>>

-----------------------------------------------------------------------------
(* The library.                                                               *)
Chunks == DOMAIN Corpus
Generations == {1, 2}
Versions == {Corpus[c].version : c \in Chunks}
Version(c) == Corpus[c].version
ResourceOf(v) == v[1]
Resource(c) == ResourceOf(Version(c))
Shelf == {Resource(c) : c \in Chunks}
FirstVersion(r) == <<r, 1>>
Size(c) == Cardinality(Corpus[c].text) + 1

NewLibrary ==
  [published |-> Shelf, readable |-> Shelf, current |-> [r \in Shelf |-> FirstVersion(r)],
   served |-> [v \in Versions |-> 1], indexed |-> Chunks, active |-> 1, changes |-> 0]

\* resourceSearchResourceVisibleSQL and resourceSearchChunkVisibleSQL, under a scope.
VisibleResource(scope, r) ==
  /\ library.active = scope.generation
  /\ r \in library.published /\ r \in library.readable
  /\ library.served[library.current[r]] = scope.generation
Fits(c, video) == video => Corpus[c].video
Visible(scope, c) ==
  /\ VisibleResource(scope, Resource(c)) /\ Fits(c, scope.video)
  /\ Version(c) = library.current[Resource(c)]
  /\ c \in library.indexed

-----------------------------------------------------------------------------
(* The search at rest, and under a request.                                   *)
NoScope == [generation |-> 0, video |-> FALSE, resources |-> {}, exceeded |-> FALSE]
NoSearch ==
  [phase |-> "idle", request |-> [kind |-> "none"], scope |-> NoScope, lexical |-> "running",
   vector |-> "running", lexicalRanks |-> <<>>, points |-> <<>>, vectorRanks |-> <<>>,
   ranked |-> <<>>, recalled |-> {}, mode |-> "none", reasons |-> {}, items |-> <<>>,
   adjacent |-> <<>>, cited |-> <<>>, told |-> "none"]

Step(from, changes) ==
  /\ search.phase = from
  /\ search' = changes @@ search
  /\ UNCHANGED library

\* normalizeSearchRequest. A citation asks for no more than one chunk.
Normal(q) == [q EXCEPT !.topK = IF @ = 0 THEN DefaultTopK ELSE @,
                       !.budget = IF @ = 0 THEN MaxContext ELSE @]
Acceptable(q) == q.words # {} /\ q.topK <= MaxTopK /\ q.budget <= MaxContext
Start ==
  \E q \in SearchRequests :
     Step("idle", [request |-> Normal(q), phase |-> IF Acceptable(q) THEN "accepted" ELSE "refused"])

\* ResolveSearchScope: the active generation and, when they are few, the resources that
\* have a visible chunk. Two reads; the first names the generation of the second.
ScopeGeneration ==
  Step("accepted", [phase |-> "scoped", scope |->
                      [NoScope EXCEPT !.generation = library.active,
                                      !.video = search.request.video]])
ResolveSearchScope ==
  LET found == {Resource(c) : c \in {d \in Chunks : Visible(search.scope, d)}}
      few == Cardinality(found) <= MaxScoped
  IN Step("scoped",
          [phase |-> IF search.request.kind = "citation" THEN "citing" ELSE "recalling",
           scope |-> [search.scope EXCEPT !.resources = IF few THEN found ELSE {},
                                          !.exceeded = ~few]])

-----------------------------------------------------------------------------
(* Recall from the text: one chunk for each text of a version, ranked by the   *)
(* words it shares with the query, its title's first.                          *)
TitleWords(c, words) == Cardinality(Corpus[c].title \cap words)
BodyWords(c, words) == Cardinality(Corpus[c].text \cap words)
Enough(words) == IF Cardinality(words) > 1 THEN 2 ELSE 1
Matches(c, words) == TitleWords(c, words) > 0 \/ BodyWords(c, words) >= Enough(words)
SameText(c, d) == Version(c) = Version(d) /\ Corpus[c].text = Corpus[d].text
FirstOfItsText(c, S) == \A d \in S : SameText(c, d) => Corpus[c].ordinal <= Corpus[d].ordinal
Relevance(c, words) == 4 * TitleWords(c, words) + BodyWords(c, words)
First(s, n) == SubSeq(s, 1, IF Len(s) < n THEN Len(s) ELSE n)
Recalling == search.phase = "recalling"

SearchLexical ==
  LET words == search.request.words
      touched == {c \in library.indexed : TitleWords(c, words) + BodyWords(c, words) > 0
                                          /\ library.active = search.scope.generation}
      found == {c \in touched : FirstOfItsText(c, touched) /\ Matches(c, words)
                                /\ Visible(search.scope, c)}
  IN /\ Recalling /\ search.lexical = "running"
     /\ Step("recalling",
             [lexical |-> "answered",
              lexicalRanks |-> First(SetToSortSeq(found,
                 LAMBDA c, d : \/ Relevance(c, words) > Relevance(d, words)
                               \/ Relevance(c, words) = Relevance(d, words) /\ c < d),
                 MaxCandidates)])

\* A query that fails, or that the deadline of the recall cuts off; a late answer is
\* not looked at.
LexicalFails == /\ Recalling /\ search.lexical = "running"
                /\ Step("recalling", [lexical |-> "failed"])
VectorFails == /\ Recalling /\ search.vector \in {"running", "verifying"}
               /\ Step("recalling", [vector |-> "failed", points |-> <<>>])

\* RetrieveCandidates: no resource needs no query; too many, or another model than that
\* of the scope (EmbedQuery), answer nothing.
EmbedQuery == library.active = search.scope.generation
NothingToSearch == /\ Recalling /\ search.vector = "running"
                   /\ ~search.scope.exceeded /\ search.scope.resources = {}
                   /\ Step("recalling", [vector |-> "answered"])
\* The index answers with any points: of chunks since deleted, of an older index, of
\* resources outside the filter, one twice. Those of the scope are kept.
Points == Chunks \X Generations
ValidPoint(p) == p[2] = search.scope.generation /\ Resource(p[1]) \in search.scope.resources
Distinct(s) == FoldSeq(LAMBDA x, acc : IF x \in ToSet(acc) THEN acc ELSE Append(acc, x), <<>>, s)
SearchIndex ==
  /\ Recalling /\ search.vector = "running"
  /\ ~search.scope.exceeded /\ search.scope.resources # {} /\ EmbedQuery
  /\ \E answer \in UNION {[1..n -> Points] : n \in 0..MaxPoints} :
        LET kept == Distinct(SelectSeq(answer, ValidPoint))
        IN Step("recalling", [vector |-> IF kept = <<>> THEN "answered" ELSE "verifying",
                              points |-> kept])
\* ResolveVectorManifests: a point counts while its chunk is visible in this generation.
ResolveVectorManifests ==
  LET chunks == [i \in DOMAIN search.points |-> search.points[i][1]]
  IN /\ Recalling /\ search.vector = "verifying"
     /\ Step("recalling", [vector |-> "answered", points |-> <<>>,
                           vectorRanks |-> SelectSeq(chunks, LAMBDA c : Visible(search.scope, c))])

-----------------------------------------------------------------------------
(* Fusion: a rank of 0 says that the source did not name the chunk. Sums of    *)
(* 1/(60+rank) are compared over their common denominator.                     *)
RankIn(s, c) == IF c \in ToSet(s) THEN CHOOSE i \in DOMAIN s : s[i] = c ELSE 0
Common == FoldFunction(LAMBDA x, acc : x * acc, 1, [i \in 1..MaxCandidates |-> 60 + i])
Share(rank) == IF rank = 0 THEN 0 ELSE Common \div (60 + rank)
Hit(c, fts, vector) == [chunk |-> c, fts |-> fts, vector |-> vector, adjacent |-> FALSE]
HitScore(h) == Share(h.fts) + Share(h.vector)
FuseSearchCandidates(lexical, vector) ==
  LET hits == {Hit(c, RankIn(lexical, c), RankIn(vector, c)) : c \in ToSet(lexical) \cup ToSet(vector)}
      before(g, h) == 
        \/ HitScore(g) > HitScore(h)
        \/ HitScore(g) = HitScore(h) /\ g.chunk < h.chunk
  IN First(SetToSortSeq(hits, before), MaxCandidates)

Lost(source, reason) == IF source = "failed" THEN {reason} ELSE {}
Mode(lexical, vector) ==
  IF vector # "failed" THEN IF lexical # "failed" THEN "hybrid" ELSE "vector_only"
  ELSE IF lexical # "failed" THEN "fts_only" ELSE "none"
Fuse ==
  LET fused == FuseSearchCandidates(First(search.lexicalRanks, MaxCandidates),
                                    First(search.vectorRanks, MaxCandidates))
  IN /\ Recalling
     /\ search.lexical \in {"answered", "failed"} /\ search.vector \in {"answered", "failed"}
     /\ Step("recalling",
             [phase |-> IF fused = <<>> THEN "done" ELSE "fused", ranked |-> fused,
              lexicalRanks |-> <<>>, vectorRanks |-> <<>>,
              recalled |-> {fused[i].chunk : i \in DOMAIN fused},
              mode |-> Mode(search.lexical, search.vector),
              reasons |-> Lost(search.lexical, "fts_unavailable")
                          \cup Lost(search.vector, "vector_unavailable")])

-----------------------------------------------------------------------------
(* Authorization, rerank and neighbours.                                      *)
\* authorizedSearchOrder: the readable hits, the first of each text of a version.
AuthorizedSearchOrder(ranked) ==
  FoldSeq(LAMBDA h, acc : IF /\ Visible(search.scope, h.chunk)
                             /\ \A i \in DOMAIN acc : ~SameText(acc[i].chunk, h.chunk)
                          THEN Append(acc, h) ELSE acc, <<>>, ranked)
Authorize ==
  Step("fused", [phase |-> "authorized", ranked |-> AuthorizedSearchOrder(search.ranked)])

\* refineSearch sends the first hits, as long as they fit; Rerank asks the provider.
SizeOf(hits) == FoldSeq(LAMBDA h, acc : Size(h.chunk) + acc, 0, hits)
Batch(ranked) ==
  First(ranked, Max({n \in 0..Len(ranked) :
                       n <= MaxBatch /\ SizeOf(First(ranked, n)) <= MaxBatchSize}))
\* mutant: counts the places and not the hits at them
RightLength(batch, order) == Len(order) = Len(batch)

ValidRerankOrder(batch, order) ==
  Len(order) = Len(batch) /\ ToSet(order) = DOMAIN batch
RerankAnswers(n) == UNION {[1..m -> 1..n] : m \in (n - 1)..n}
Reranked(ranked, order) ==
  [i \in DOMAIN ranked |-> IF i \in DOMAIN order THEN ranked[order[i]] ELSE ranked[i]]
Rerank ==
  LET batch == Batch(search.ranked)
      next(changes) == Step("authorized", [phase |-> "reranked"] @@ changes)
  IN \/ Len(batch) <= 1 /\ next([ranked |-> search.ranked])
     \/ /\ Len(batch) > 1
        /\ \/ next([ranked |-> search.ranked])    \* ErrRerankDisabled
           \/ next([reasons |-> search.reasons \cup {"rerank_unavailable"}])
           \/ \E order \in RerankAnswers(Len(batch)) :
                 IF ValidRerankOrder(batch, order)
                 THEN next([ranked |-> Reranked(search.ranked, order)])
                 ELSE next([reasons |-> search.reasons \cup {"rerank_unavailable"}])

\* SearchNeighbors: the parent and the chunks before and after each of the first hits,
\* two of them at most, of a version that is still the current one.
Distance(c, d) ==
  IF Corpus[c].ordinal > Corpus[d].ordinal THEN Corpus[c].ordinal - Corpus[d].ordinal
  ELSE Corpus[d].ordinal - Corpus[c].ordinal
NearTo(seed) ==
  LET near == {c \in Chunks \ {seed} :
                 /\ Visible(search.scope, c) /\ Version(c) = Version(seed)
                 /\ Distance(c, seed) = 1 \/ c = Corpus[seed].parent}
      closeness(c) == IF c = Corpus[seed].parent THEN 0 ELSE Distance(c, seed)
  IN ToSet(First(SetToSortSeq(near, LAMBDA c, d :
                   \/ closeness(c) < closeness(d)
                   \/ closeness(c) = closeness(d) /\ Corpus[c].ordinal < Corpus[d].ordinal), 2))
Neighbor(c) == [Hit(c, 0, 0) EXCEPT !.adjacent = TRUE]
Expanded(ranked, near) ==
  LET unseen == near \ {ranked[i].chunk : i \in DOMAIN ranked}
      inOrder == SetToSortSeq(unseen, <)
      added == [i \in DOMAIN inOrder |-> Neighbor(inOrder[i])]
  IN First(ranked \o added, IF Len(ranked) > MaxCandidates THEN Len(ranked) ELSE MaxCandidates)
SearchNeighbors ==
  LET seeds == First(search.ranked, search.request.topK)
      near == UNION {NearTo(seeds[i].chunk) : i \in DOMAIN seeds}
  IN \/ Step("reranked", [phase |-> "expanded", ranked |-> Expanded(search.ranked, near)])
     \/ search.ranked # <<>> /\ Step("reranked",
          [phase |-> "expanded", reasons |-> search.reasons \cup {"neighbors_unavailable"}])

\* The second authorization, whose text the answer is made of: appendSearchContext.
SearchContextContains(hits, c) ==
  \E i \in DOMAIN hits :
     Version(hits[i].chunk) = Version(c) /\ Corpus[c].text \subseteq Corpus[hits[i].chunk].text
Takes(items, adjacent, h) ==
  /\ IF h.adjacent
     THEN /\ \E i \in DOMAIN items : Version(items[i].chunk) = Version(h.chunk)
          /\ ~SearchContextContains(items \o adjacent, h.chunk)
     ELSE Len(items) < search.request.topK
  /\ SizeOf(items) + SizeOf(adjacent) + Size(h.chunk) <= search.request.budget
AppendSearchContext(hits) ==
  FoldSeq(LAMBDA h, acc :
            IF ~Takes(acc.items, acc.adjacent, h) THEN acc
            ELSE IF h.adjacent THEN [acc EXCEPT !.adjacent = Append(@, h)]
            ELSE [acc EXCEPT !.items = Append(@, h)],
          [items |-> <<>>, adjacent |-> <<>>], hits)
AuthorizeAgain ==
  LET answer == AppendSearchContext(AuthorizedSearchOrder(search.ranked))
  IN Step("expanded", [phase |-> "done", items |-> answer.items, adjacent |-> answer.adjacent,
                       ranked |-> <<>>])

-----------------------------------------------------------------------------
(* What is made of it.                                                        *)
\* GetCitation: a citation names a chunk and a generation; it is read as a search is.
\* The chunk is found, then authorized once more with its text.
SameGeneration == search.request.generation = search.scope.generation
GetSearchCitation ==
  LET found == SameGeneration /\ Visible(search.scope, search.request.chunk)
  IN Step("citing", [phase |-> IF found THEN "cited" ELSE "notFound"])
ReadCitation ==
  LET found == Visible(search.scope, search.request.chunk)
  IN Step("cited", IF found THEN [phase |-> "done", items |-> <<Hit(search.request.chunk, 0, 0)>>]
                   ELSE [phase |-> "notFound"])

\* prepareChatKnowledge: the sources that fit are numbered and cited, whatever failed.
Prompt(hits, budget) ==
  FoldSeq(LAMBDA h, acc :
            LET size == Size(h.chunk) + Envelope
            IN IF acc.size + size > budget THEN [acc EXCEPT !.reasons = {"context_budget_exceeded"}]
               ELSE [acc EXCEPT !.cited = Append(@, h.chunk), !.size = @ + size],
          [cited |-> <<>>, size |-> 0, reasons |-> {}], hits)
PrepareChatKnowledge ==
  LET prompt == Prompt(search.items \o search.adjacent, search.request.budget)
  IN /\ search.request.kind = "chat" /\ search.told = "none"
     /\ \/ Step("done", [told |-> IF prompt.cited = <<>> THEN "nothing" ELSE search.mode,
                         cited |-> prompt.cited, reasons |-> search.reasons \cup prompt.reasons])
        \/ Step("failed", [told |-> "nothing", reasons |-> {"retrieval_unavailable"}])

\* A query of the scope or of an authorization fails, or the request is cancelled or late.
Over == {"idle", "refused", "done", "failed", "notFound"}
Fail == /\ search.phase \notin Over
        /\ search' = [NoSearch EXCEPT !.phase = "failed", !.request = search.request]
        /\ UNCHANGED library

-----------------------------------------------------------------------------
(* The library changes while the search runs: a resource is hidden or shown,   *)
(* access to it given or taken, a new version replaces the old, a chunk's      *)
(* vector is removed, the next generation is activated.                        *)
Toggled(S, x) == IF x \in S THEN S \ {x} ELSE S \cup {x}
Changed(changes) ==
  /\ search.phase \notin Over
  /\ library.changes < MaxLibraryChanges
  /\ library' = [changes @@ library EXCEPT !.changes = @ + 1]
  /\ UNCHANGED search
Publish == \E r \in Shelf : Changed([published |-> Toggled(library.published, r)])
GrantOrRevoke == \E r \in Shelf : Changed([readable |-> Toggled(library.readable, r)])
ReplaceVersion ==
  \E v \in Versions : /\ v # library.current[ResourceOf(v)]
                      /\ Changed([current |-> [library.current EXCEPT ![ResourceOf(v)] = v]])
RemoveVector == \E c \in library.indexed : Changed([indexed |-> library.indexed \ {c}])
ActivateGeneration ==
  library.active = 1 /\ Changed([active |-> 2, served |-> [v \in Versions |-> 2]])

SearchNext ==
  \/ Start \/ ScopeGeneration \/ ResolveSearchScope
  \/ SearchLexical \/ LexicalFails
  \/ NothingToSearch \/ SearchIndex \/ ResolveVectorManifests \/ VectorFails
  \/ Fuse \/ Authorize \/ Rerank \/ SearchNeighbors \/ AuthorizeAgain
  \/ GetSearchCitation \/ ReadCitation \/ PrepareChatKnowledge \/ Fail
  \/ Publish \/ GrantOrRevoke \/ ReplaceVersion \/ RemoveVector \/ ActivateGeneration

SearchInit == library = NewLibrary /\ search = NoSearch

-----------------------------------------------------------------------------
(* Invariants.                                                                *)
Answered == search.phase = "done"
AllHits == search.items \o search.adjacent
Shown == {AllHits[i].chunk : i \in DOMAIN AllHits}

\* What is shown was readable when its text was read last, in the generation that is
\* active: the recall, the rerank and the neighbours come before (Search, GetCitation).
OnlyReadableIsShown == Answered => \A c \in Shown : Visible(search.scope, c)

\* No text of a version is shown twice, no neighbour tells what a hit before it told,
\* and each belongs to a hit (authorizedSearchOrder, appendSearchContext).
NothingIsToldTwice ==
  \A i, j \in DOMAIN AllHits :
     /\ i < j => ~SameText(AllHits[i].chunk, AllHits[j].chunk)
     /\ i < j /\ AllHits[j].adjacent /\ Version(AllHits[i].chunk) = Version(AllHits[j].chunk) =>
           ~(Corpus[AllHits[j].chunk].text \subseteq Corpus[AllHits[i].chunk].text)
     /\ AllHits[i].adjacent =>
           \E k \in DOMAIN search.items : Version(search.items[k].chunk) = Version(AllHits[i].chunk)

\* In a library that rests a search shows what it recalled, up to the number asked for,
\* but for a text that no longer fits: the rerank loses no hit, and a neighbour takes the
\* room of none (refineSearch, appendSearchContext).
RecallIsShown ==
  Answered /\ search.request.kind # "citation" /\ library.changes = 0 =>
    \/ Len(search.items) = search.request.topK
    \/ \A c \in search.recalled :
         \/ \E i \in DOMAIN search.items : SameText(search.items[i].chunk, c)
         \/ SizeOf(search.items) + Size(c) > search.request.budget

\* The mode names the sources that answered, and every hit comes from one of them or is a
\* neighbour; a source that failed is among the reasons (Search).
ModeIsTrue ==
  Answered /\ search.request.kind # "citation" =>
    /\ (search.mode \in {"none", "vector_only"}) = ("fts_unavailable" \in search.reasons)
    /\ (search.mode \in {"none", "fts_only"}) = ("vector_unavailable" \in search.reasons)
    /\ \A i \in DOMAIN AllHits :
         /\ AllHits[i].fts > 0 => search.mode \in {"hybrid", "fts_only"}
         /\ AllHits[i].vector > 0 => search.mode \in {"hybrid", "vector_only"}
         /\ AllHits[i].adjacent = (AllHits[i].fts = 0 /\ AllHits[i].vector = 0)

\* The sources of a prompt are those the answer cites, in their order; a source that did
\* not fit is told, and a prompt without sources claims no search (prepareChatKnowledge).
PromptIsCited ==
  search.told # "none" =>
    /\ IsInjective(search.cited) /\ ToSet(search.cited) \subseteq Shown
    /\ search.cited # <<>> <=> search.told \notin {"none", "nothing"}
    /\ Cardinality(Shown) > Len(search.cited) => "context_budget_exceeded" \in search.reasons
    /\ search.told = "nothing" /\ search.reasons = {} => search.recalled = {} \/ Shown = {}

SearchHolds ==
  /\ OnlyReadableIsShown /\ NothingIsToldTwice /\ RecallIsShown /\ ModeIsTrue /\ PromptIsCited
=============================================================================
