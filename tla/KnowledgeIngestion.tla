-------------------------- MODULE KnowledgeIngestion --------------------------
(***************************************************************************)
(* The knowledge base: app/knowledge/ingestion.py writes the documents of  *)
(* a catalog to the object storage and their chunks to the vector store,   *)
(* app/knowledge/retrieval.py searches the latter.  Several ingestions may *)
(* be under way, each is a command that ends at the first exception, and   *)
(* nothing it has written is taken back.                                   *)
(*                                                                         *)
(* A catalog gives each document the texts Chunking cuts it into; a later  *)
(* release of the program may come with another catalog.  A chunk is its   *)
(* document, its index and its text, which is what its identifier is made  *)
(* of.                                                                     *)
(***************************************************************************)
EXTENDS Naturals, Sequences, FiniteSetsExt

CONSTANTS
    Ingestions,   \* the operators who run the command
    Documents,    \* the documents, numbered in the order of a catalog
    Catalogs,     \* what releases of the program say of them
    Overlong,     \* the texts too long for a value of a vector's payload
    Filters,      \* the sets of documents a search may be restricted to
    Dimensions,   \* the embedding dimensions a process may be configured with
    BatchSize,    \* EMBEDDING_BATCH_SIZE
    MaxTopK,      \* MAX_SEARCH_TOP_K
    MaxBegins     \* bound: how often the command is run

\* A catalog is not empty, no document of it is blank, and each is cut into at
\* least one chunk: ingest_documents, the schema of a document and
\* chunk_document raise otherwise, before anything is written.
ASSUME CatalogAssumption ==
    /\ Documents \subseteq Nat /\ IsFiniteSet(Documents)
    /\ \A c \in Catalogs :
          /\ DOMAIN c # {} /\ DOMAIN c \subseteq Documents
          /\ \A d \in DOMAIN c : /\ c[d] # <<>>
                                /\ IsFiniteSet(DOMAIN c[d])

\* MAX_SEARCH_TOP_K is positive, so is every dimension, and a request names
\* finitely many documents.
ASSUME SearchAssumption ==
    /\ MaxTopK \in Nat /\ Dimensions \subseteq Nat \ {0}
    /\ \A filter \in Filters : IsFiniteSet(filter)

VARIABLES
    pc,           \* where each ingestion is
    catalog,      \* the catalog it ingests
    dimension,    \* its embedding dimension
    left,         \* the documents it still has to upload
    cause,        \* why it failed
    alone,        \* history: it began last, and ran beside no other
    begins,       \* history: how many have begun
    bucket,       \* whether the bucket exists
    objects,      \* the object of each document
    collection,   \* the collection's vector size, 0 when there is none
    points,       \* the points of the collection
    search        \* the search that was answered last, until the next step

ingestion == <<pc, catalog, dimension, left, cause, alone, begins>>
stores    == <<bucket, objects, collection, points>>
vars      == <<ingestion, stores, search>>

-----------------------------------------------------------------------------
NoObject == <<>>
Chunks(c) ==
    UNION {{<<d, k, c[d][k]>> : k \in DOMAIN c[d]} : d \in DOMAIN c}

Active(i) == pc[i] \notin {"idle", "committed", "failed"}

NoSearch == [phase |-> "idle", top_k |-> 1, documents |-> {}, results |-> {}]

Init ==
    /\ pc         = [i \in Ingestions |-> "idle"]
    /\ catalog    \in [Ingestions -> Catalogs]
    /\ dimension  \in [Ingestions -> Dimensions]
    /\ left       = [i \in Ingestions |-> {}]
    /\ cause      = [i \in Ingestions |-> "none"]
    /\ alone      = [i \in Ingestions |-> FALSE]
    /\ begins     = 0
    /\ bucket     = FALSE
    /\ objects    = [d \in Documents |-> NoObject]
    /\ collection = 0
    /\ points     = {}
    /\ search     = NoSearch

-----------------------------------------------------------------------------
Step(i, from, to) ==
    /\ pc[i] = from
    /\ pc' = [pc EXCEPT ![i] = to]

Fail(i, why) ==
    /\ pc'    = [pc EXCEPT ![i] = "failed"]
    /\ cause' = [cause EXCEPT ![i] = why]

Locals == <<catalog, dimension, alone, begins>>

\* ingest_documents up to its first write: the chunks are computed and the
\* documents' keys are formed.
Begin(i) ==
    /\ ~Active(i) /\ begins < MaxBegins
    /\ pc'     = [pc EXCEPT ![i] = "bucket"]
    /\ left'   = [left EXCEPT ![i] = DOMAIN catalog[i]]
    /\ cause'  = [cause EXCEPT ![i] = "none"]
    /\ alone'  = [j \in Ingestions |->
                     j = i /\ \A k \in Ingestions : ~Active(k)]
    /\ begins' = begins + 1
    /\ UNCHANGED <<catalog, dimension, stores>>

\* create_bucket, called by every upload: it looks for the bucket first.
FindBucket(i) ==
    /\ Step(i, "bucket", IF bucket THEN "put" ELSE "make")
    /\ UNCHANGED <<Locals, left, cause, stores>>

\* make_bucket is refused when the bucket has come to exist since.
MakeBucket(i) ==
    /\ pc[i] = "make"
    /\ IF bucket THEN Fail(i, "conflict")
       ELSE pc' = [pc EXCEPT ![i] = "put"] /\ UNCHANGED cause
    /\ bucket' = TRUE
    /\ UNCHANGED <<Locals, left, objects, collection, points>>

\* Mutant of Upload: an object that exists is reused as it is.
ReusesObject(i, d) ==
    IF objects[d] = NoObject THEN catalog[i][d] ELSE objects[d]

\* upload_bytes: the object is overwritten.
Upload(i, d) == catalog[i][d]

\* The uploads go through the catalog in its order.
Put(i) ==
    /\ pc[i] = "put"
    /\ LET d == Min(left[i]) IN
          /\ objects' = [objects EXCEPT ![d] = Upload(i, d)]
          /\ left'    = [left EXCEPT ![i] = @ \ {d}]
    /\ pc' = [pc EXCEPT ![i] = IF left'[i] = {} THEN "find" ELSE "bucket"]
    /\ UNCHANGED <<Locals, cause, bucket, collection, points>>

\* Mutant of AfterFind: the collection is created without a look.
CreatesAnyway == "create"

\* collection_exists.
AfterFind == IF collection # 0 THEN "embed" ELSE "create"

FindCollection(i) ==
    /\ Step(i, "find", AfterFind)
    /\ UNCHANGED <<Locals, left, cause, stores>>

\* create_collection, refused like make_bucket.
CreateCollection(i) ==
    /\ pc[i] = "create"
    /\ IF collection # 0
       THEN Fail(i, "conflict") /\ UNCHANGED collection
       ELSE /\ collection' = dimension[i]
            /\ pc' = [pc EXCEPT ![i] = "embed"]
            /\ UNCHANGED cause
    /\ UNCHANGED <<Locals, left, bucket, objects, points>>

\* validate_json_metadata bounds a string more narrowly than a chunk is.
PayloadFits(chunk) == chunk[3] \notin Overlong

\* embed_texts takes one batch of bounded size.
Embeddable(c) ==
    /\ Cardinality(Chunks(c)) <= BatchSize
    /\ \A chunk \in Chunks(c) : PayloadFits(chunk)

Embed(i) ==
    /\ pc[i] = "embed"
    /\ IF Embeddable(catalog[i])
       THEN pc' = [pc EXCEPT ![i] = "upsert"] /\ UNCHANGED cause
       ELSE Fail(i, "input")
    /\ UNCHANGED <<Locals, left, stores>>

\* Mutant of PointId: every ingestion has its own identifiers.
OwnPointId(i, chunk) == <<i, chunk>>

\* _point_id_for_chunk over build_chunk_id: a hash of what the chunk is.
PointId(i, chunk) == chunk

\* upsert: all points of the call or none.
Upsert(i) ==
    /\ pc[i] = "upsert"
    /\ IF collection = dimension[i]
       THEN LET new == {[id |-> PointId(i, chunk), chunk |-> chunk] :
                           chunk \in Chunks(catalog[i])}
            IN  /\ points' = {p \in points : \A q \in new : q.id # p.id}
                                \cup new
                /\ pc' = [pc EXCEPT ![i] = "committed"]
                /\ UNCHANGED cause
       ELSE Fail(i, "mismatch") /\ UNCHANGED points
    /\ UNCHANGED <<Locals, left, bucket, objects, collection>>

\* A service does not answer, or the command is interrupted.
Interrupt(i) ==
    /\ Active(i)
    /\ Fail(i, "service")
    /\ UNCHANGED <<Locals, left, stores>>

-----------------------------------------------------------------------------
\* _matches_request_filters: no filter, or one of its documents.
Matches(p, filter) == filter = {} \/ p.chunk[1] \in filter

\* _native_filters: a filter on a single document is the vector store's.
Native(p, filter) == Cardinality(filter) = 1 => Matches(p, filter)

\* Mutant of CandidateLimit: a filter of the service gets no more candidates.
JustTopK(k, filter) == k

\* _candidate_limit: room for what the service filters out itself.
CandidateLimit(k, filter) ==
    IF Cardinality(filter) > 1 THEN Min({MaxTopK, 4 * k}) ELSE k

\* The best of a set by rank, which is open: any so many of it.
Best(n, S) == {T \in SUBSET S : Cardinality(T) = Min({n, Cardinality(S)})}

\* KnowledgeRetrievalService.search.  The searching process has an embedding
\* dimension of its own.  Nothing removes a collection or a point, so that its
\* look for the collection and its query are one step.
Search ==
    /\ \E k \in 1..MaxTopK, filter \in Filters, n \in Dimensions :
       LET answer == [NoSearch EXCEPT !.phase = "done", !.top_k = k,
                                      !.documents = filter]
           native == {p \in points : Native(p, filter)} IN
       CASE collection = 0 -> search' = answer
         [] collection = n ->
              \E candidates \in Best(CandidateLimit(k, filter), native) :
              \E found \in Best(k, {p \in candidates : Matches(p, filter)}) :
                 search' = [answer EXCEPT !.results = found]
         [] OTHER -> search' = [NoSearch EXCEPT !.phase = "unavailable"]
    /\ UNCHANGED <<ingestion, stores>>

Ingest ==
    /\ \E i \in Ingestions :
          \/ Begin(i) \/ FindBucket(i) \/ MakeBucket(i) \/ Put(i)
          \/ FindCollection(i) \/ CreateCollection(i) \/ Embed(i)
          \/ Upsert(i) \/ Interrupt(i)
    /\ search' = NoSearch

Next == Ingest \/ Search

Spec == Init /\ [][Next]_vars

-----------------------------------------------------------------------------
\* The vectors are those of whole catalogs, each chunk once: a rerun upserts
\* what is there under the same identifiers, and a batch is never half there.
VectorsAreWholeCatalogs ==
    /\ \E cs \in SUBSET Catalogs :
          {p.chunk : p \in points} = UNION {Chunks(c) : c \in cs}
    /\ \A p, q \in points : p.chunk = q.chunk => p = q
    /\ points # {} => \A d \in Documents :
          (\E p \in points : p.chunk[1] = d) => objects[d] # NoObject

\* ingest_documents reports a commit: when it had the stores to itself, the
\* objects are the documents of its catalog, whatever was there before, and
\* all of its chunks can be found.
CommitMeansStored ==
    \A i \in Ingestions : pc[i] = "committed" =>
        /\ Chunks(catalog[i]) \subseteq {p.chunk : p \in points}
        /\ alone[i] => \A d \in DOMAIN catalog[i] : objects[d] = catalog[i][d]

\* Whatever interrupted or defeated ingestions have left behind, an ingestion
\* that has the stores to itself fails only for its own input, for a collection
\* of another dimension, or because a service fails: it never trips over what
\* it finds.
RerunsRecover ==
    \A i \in Ingestions : pc[i] = "failed" /\ alone[i] =>
        \/ cause[i] = "service"
        \/ cause[i] = "input" /\ ~Embeddable(catalog[i])
        \/ cause[i] = "mismatch" /\ collection # dimension[i]

\* search: no more than top_k results, all of which match, and no fewer than
\* there are, unless the request has a filter the service applies itself and
\* points that do not match take up the candidates.
SearchIsComplete ==
    search.phase = "done" =>
        LET matching == {p \in points : Matches(p, search.documents)}
            others   == points \ matching
            wanted   == Min({search.top_k, Cardinality(matching)})
        IN  /\ search.results \subseteq matching
            /\ Cardinality(search.results) <= search.top_k
            /\ \/ Cardinality(search.results) = wanted
               \/ /\ Cardinality(search.documents) > 1
                  /\ Cardinality(others) + wanted
                        > Min({MaxTopK, 4 * search.top_k})
=============================================================================
