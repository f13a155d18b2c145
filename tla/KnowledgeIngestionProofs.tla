----------------------- MODULE KnowledgeIngestionProofs -----------------------
(***************************************************************************)
(* What holds of KnowledgeIngestion for any number of operators, documents *)
(* and catalogs, any batch size and any limit of a search.                 *)
(*                                                                         *)
(* The invariant says of an ingestion under way what it has written so far *)
(* (Uploaded), and of one that has the stores to itself that what it has   *)
(* looked up is still true (Undisturbed); of the points, that they are     *)
(* those of whole catalogs (Vectors).                                      *)
(***************************************************************************)
EXTENDS KnowledgeIngestion, FiniteSetTheorems, WellFoundedInduction, TLAPS

-----------------------------------------------------------------------------
(***************************************************************************)
(* Numbers and finite sets.                                                *)
(***************************************************************************)

\* The next document of a catalog is one of those that are left.
LEMMA MinIsThere ==
    ASSUME NEW S, S \subseteq Nat, S # {}
    PROVE  Min(S) \in S
<1>1. PICK x \in S : \A y \in S : ~(<<y, x>> \in OpToRel(<, Nat))
  BY NatLessThanWellFounded, WFMin
<1>2. ASSUME NEW y \in S PROVE x <= y
  <2>1. x \in Nat /\ y \in Nat
    OBVIOUS
  <2>2. ASSUME y < x PROVE FALSE
    <3>1. <<y, x>> \in {ss \in Nat \X Nat : ss[1] < ss[2]}
      BY <2>1, <2>2
    <3> QED
      BY <1>1, <3>1 DEF OpToRel
  <2> QED
    BY <2>1, <2>2
<1> QED
  BY <1>2 DEF Min

LEMMA MinOfTwo ==
    ASSUME NEW a \in Nat, NEW b \in Nat
    PROVE  Min({a, b}) = IF a <= b THEN a ELSE b
<1> DEFINE m == IF a <= b THEN a ELSE b
<1>1. m \in {a, b} /\ \A y \in {a, b} : m <= y
  OBVIOUS
<1>2. ASSUME NEW x \in {a, b}, \A y \in {a, b} : x <= y
      PROVE  x = m
  BY <1>2
<1> QED
  BY <1>1, <1>2 DEF Min

\* The chunks of a catalog, and the points made of them, are finitely many.
LEMMA ChunksAreFinite ==
    ASSUME NEW c \in Catalogs
    PROVE  IsFiniteSet(Chunks(c))
<1> DEFINE Of(d) == {<<d, k, c[d][k]>> : k \in DOMAIN c[d]}
<1> DEFINE All == {Of(d) : d \in DOMAIN c}
<1>1. ASSUME NEW d \in DOMAIN c PROVE IsFiniteSet(Of(d))
  <2> DEFINE f == [k \in DOMAIN c[d] |-> <<d, k, c[d][k]>>]
  <2>1. f \in Surjection(DOMAIN c[d], Of(d))
    BY DEF Surjection
  <2>2. IsFiniteSet(DOMAIN c[d])
    BY CatalogAssumption
  <2> QED
    BY <2>1, <2>2, FS_Surjection
<1>2. IsFiniteSet(DOMAIN c)
  BY CatalogAssumption, FS_Subset
<1>3. IsFiniteSet(All)
  <2> DEFINE f == [d \in DOMAIN c |-> Of(d)]
  <2> HIDE DEF Of
  <2>1. f \in Surjection(DOMAIN c, All)
    BY DEF Surjection
  <2> HIDE DEF f, All
  <2> QED
    BY <1>2, <2>1, FS_Surjection
<1>4. \A T \in All : IsFiniteSet(T)
  BY <1>1
<1>5. Chunks(c) = UNION All
  BY DEF Chunks
<1> HIDE DEF All
<1> QED
  BY <1>3, <1>4, <1>5, FS_UNION

PointsOf(c) == {[id |-> chunk, chunk |-> chunk] : chunk \in Chunks(c)}

LEMMA PointsAreFinite ==
    ASSUME NEW c \in Catalogs
    PROVE  IsFiniteSet(PointsOf(c))
<1> DEFINE f == [chunk \in Chunks(c) |-> [id |-> chunk, chunk |-> chunk]]
<1>1. f \in Surjection(Chunks(c), PointsOf(c))
  BY DEF Surjection, PointsOf
<1> QED
  BY <1>1, ChunksAreFinite, FS_Surjection

-----------------------------------------------------------------------------
(***************************************************************************)
(* A search.                                                               *)
(***************************************************************************)

\* SearchIsComplete, of a given answer.
Complete(k, filter, results) ==
    LET matching == {p \in points : Matches(p, filter)}
        others   == points \ matching
        wanted   == Min({k, Cardinality(matching)})
    IN  /\ results \subseteq matching
        /\ Cardinality(results) <= k
        /\ \/ Cardinality(results) = wanted
           \/ /\ Cardinality(filter) > 1
              /\ Cardinality(others) + wanted > Min({MaxTopK, 4 * k})

LEMMA AnswersAreComplete ==
    ASSUME IsFiniteSet(points), NEW k \in 1..MaxTopK, NEW filter \in Filters,
           NEW candidates \in Best(CandidateLimit(k, filter),
                                   {p \in points : Native(p, filter)}),
           NEW found \in Best(k, {p \in candidates : Matches(p, filter)})
    PROVE  Complete(k, filter, found)
<1> DEFINE native   == {p \in points : Native(p, filter)}
<1> DEFINE limit    == CandidateLimit(k, filter)
<1> DEFINE matching == {p \in points : Matches(p, filter)}
<1> DEFINE hits     == {p \in candidates : Matches(p, filter)}
<1> DEFINE others   == points \ matching
<1> DEFINE wanted   == Min({k, Cardinality(matching)})
<1>1. k \in Nat /\ MaxTopK \in Nat /\ k <= MaxTopK /\ IsFiniteSet(filter)
  BY SearchAssumption
<1>2. /\ candidates \subseteq native
      /\ Cardinality(candidates) = Min({limit, Cardinality(native)})
      /\ found \subseteq hits
      /\ Cardinality(found) = Min({k, Cardinality(hits)})
  BY DEF Best
<1>3. native \subseteq points /\ matching \subseteq points
      /\ hits \subseteq candidates /\ hits \subseteq matching
  BY <1>2
<1>4. /\ IsFiniteSet(native) /\ IsFiniteSet(matching)
      /\ IsFiniteSet(candidates) /\ IsFiniteSet(hits) /\ IsFiniteSet(others)
  <2>1. IsFiniteSet(native) /\ IsFiniteSet(matching) /\ IsFiniteSet(others)
    BY <1>3, FS_Subset
  <2>2. IsFiniteSet(candidates)
    BY <1>2, <2>1, FS_Subset
  <2> QED
    BY <1>3, <2>1, <2>2, FS_Subset
<1>5. /\ Cardinality(native) \in Nat /\ Cardinality(matching) \in Nat
      /\ Cardinality(candidates) \in Nat /\ Cardinality(hits) \in Nat
      /\ Cardinality(others) \in Nat
  BY <1>4, FS_CardinalityType
<1>6. Cardinality(hits) <= Cardinality(matching)
  BY <1>3, <1>4, FS_Subset
<1>7. /\ Min({k, Cardinality(hits)}) =
            IF k <= Cardinality(hits) THEN k ELSE Cardinality(hits)
      /\ wanted = IF k <= Cardinality(matching) THEN k
                  ELSE Cardinality(matching)
  BY <1>1, <1>5, MinOfTwo
<1>8. limit \in Nat
  <2>1. CASE Cardinality(filter) > 1
    <3>1. 4 * k \in Nat
      BY <1>1
    <3>2. Min({MaxTopK, 4 * k}) \in Nat
      BY <1>1, <3>1, MinOfTwo
    <3> QED
      BY <2>1, <3>2 DEF CandidateLimit
  <2>2. CASE ~(Cardinality(filter) > 1)
    BY <1>1, <2>2 DEF CandidateLimit
  <2> QED
    BY <2>1, <2>2
<1>9. Min({limit, Cardinality(native)}) =
         IF limit <= Cardinality(native) THEN limit ELSE Cardinality(native)
  BY <1>5, <1>8, MinOfTwo
<1>10. found \subseteq matching /\ Cardinality(found) <= k
  <2> HIDE DEF hits, matching
  <2> QED
    BY <1>1, <1>2, <1>3, <1>5, <1>7
<1>11. CASE ~(Cardinality(filter) > 1)
  <2>1. Cardinality(filter) \in Nat
    BY <1>1, FS_CardinalityType
  <2>2. native = matching
    <3>1. CASE Cardinality(filter) = 1
      BY <3>1 DEF Native
    <3>2. CASE Cardinality(filter) = 0
      <4>1. filter = {}
        BY <1>1, <3>2, FS_EmptySet
      <4> QED
        BY <4>1, <3>2 DEF Native, Matches
    <3> QED
      BY <1>11, <2>1, <3>1, <3>2
  <2>3. hits = candidates
    BY <1>2, <2>2
  <2>4. limit = k
    BY <1>11 DEF CandidateLimit
  <2>5. Cardinality(found) = wanted
    <3> HIDE DEF hits, matching, native, limit, wanted
    <3> QED
      BY <1>1, <1>2, <1>5, <1>7, <1>9, <2>2, <2>3, <2>4
  <2> QED
    BY <1>10, <2>5 DEF Complete
<1>12. CASE Cardinality(filter) > 1
  <2>1. limit = Min({MaxTopK, 4 * k})
    BY <1>12 DEF CandidateLimit
  <2>2. native = points
    BY <1>12 DEF Native
  <2>3. ASSUME Cardinality(found) # wanted
        PROVE  Cardinality(others) + wanted > limit
    <3>1. Cardinality(hits) < wanted
      <4> HIDE DEF hits, matching, native, limit, wanted
      <4> QED
        BY <1>1, <1>2, <1>5, <1>6, <1>7, <2>3
    <3>2. candidates # points
      <4>1. candidates = points => hits = matching
        OBVIOUS
      <4> HIDE DEF hits, matching, native, limit, wanted
      <4> QED
        BY <1>1, <1>5, <1>7, <3>1, <4>1
    <3>3. Cardinality(candidates) = limit
      <4>1. Cardinality(candidates) # Cardinality(native)
        BY <1>2, <1>4, <2>2, <3>2, FS_Subset
      <4> HIDE DEF hits, matching, native, limit, wanted
      <4> QED
        BY <1>2, <1>9, <4>1
    <3>4. Cardinality(candidates) <= Cardinality(hits) + Cardinality(others)
      <4>1. /\ IsFiniteSet(candidates \ hits)
            /\ Cardinality(candidates \ hits) =
                  Cardinality(candidates) - Cardinality(candidates \cap hits)
        BY <1>4, FS_Difference
      <4>2. candidates \cap hits = hits
        BY <1>3
      <4>3. candidates \ hits \subseteq others
        BY <1>2, <1>3
      <4>4. Cardinality(candidates \ hits) <= Cardinality(others)
        BY <1>4, <4>3, FS_Subset
      <4>5. Cardinality(candidates) - Cardinality(hits)
               <= Cardinality(others)
        BY <4>1, <4>2, <4>4
      <4> HIDE DEF hits, others
      <4> QED
        BY <1>5, <4>5
    <3>5. wanted \in Nat
      BY <1>1, <1>5, <1>7
    <3> HIDE DEF hits, matching, native, limit, wanted, others
    <3> QED
      BY <1>5, <1>8, <3>1, <3>3, <3>4, <3>5
  <2> QED
    BY <1>10, <1>12, <2>1, <2>3 DEF Complete
<1> QED
  BY <1>11, <1>12

-----------------------------------------------------------------------------
(***************************************************************************)
(* The invariant.                                                          *)
(***************************************************************************)

Writing == {"bucket", "make", "put"}
Written == {"find", "create", "embed", "upsert", "committed"}
Places  == Writing \cup Written \cup {"idle", "failed"}

Contents ==
    {NoObject} \cup (UNION {{c[d] : d \in DOMAIN c} : c \in Catalogs})

Typed ==
    /\ pc \in [Ingestions -> Places]
    /\ catalog \in [Ingestions -> Catalogs]
    /\ dimension \in [Ingestions -> Dimensions]
    /\ left \in [Ingestions -> SUBSET Documents]
    /\ cause \in [Ingestions -> {"none", "conflict", "input", "mismatch",
                                 "service"}]
    /\ alone \in [Ingestions -> BOOLEAN]
    /\ bucket \in BOOLEAN
    /\ objects \in [Documents -> Contents]
    /\ collection \in Dimensions \cup {0}

\* What an ingestion has uploaded, and what of it is there as it was.
Uploaded ==
    \A i \in Ingestions :
        /\ left[i] \subseteq DOMAIN catalog[i]
        /\ pc[i] \in Writing => left[i] # {}
        /\ pc[i] \in Written => left[i] = {}
        /\ pc[i] \in Writing \cup Written =>
              \A d \in DOMAIN catalog[i] \ left[i] : objects[d] # NoObject
        /\ alone[i] =>
              \A d \in DOMAIN catalog[i] \ left[i] :
                 objects[d] = catalog[i][d]

\* What an ingestion that runs alone has looked up is still so.
Undisturbed ==
    \A i \in Ingestions : alone[i] =>
        /\ \A j \in Ingestions \ {i} : ~Active(j)
        /\ pc[i] = "make" => ~bucket
        /\ pc[i] = "create" => collection = 0

\* The collection is there for the points and for those who come to it.
CollectionStays ==
    /\ points # {} => collection # 0
    /\ \A i \in Ingestions :
          pc[i] \in {"embed", "upsert", "committed"} => collection # 0

\* A point's identifier says what its chunk is.
Vectors ==
    /\ IsFiniteSet(points)
    /\ \A p \in points : p = [id |-> p.chunk, chunk |-> p.chunk]

StoresInv ==
    /\ Typed /\ Uploaded /\ Undisturbed /\ CollectionStays /\ Vectors
    /\ VectorsAreWholeCatalogs /\ CommitMeansStored /\ RerunsRecover

\* Of the ingestions under way, and beside one under way, none but it is alone.
LEMMA OnlyOneAlone ==
    ASSUME StoresInv, NEW i \in Ingestions, Active(i),
           NEW j \in Ingestions \ {i}
    PROVE  ~alone[j]
BY DEF StoresInv, Undisturbed

\* A step that uploads and upserts nothing: it may make the bucket or the
\* collection, and it may fail.
LEMMA QuietStep ==
    ASSUME StoresInv, NEW i \in Ingestions, Active(i),
           NEW to \in Places \ {"committed"}, pc' = [pc EXCEPT ![i] = to],
           UNCHANGED <<catalog, dimension, left, alone, objects, points>>,
           NEW why \in {"none", "conflict", "input", "mismatch", "service"},
           cause' = [cause EXCEPT ![i] = why],
           bucket' \in BOOLEAN,
           collection' \in Dimensions \cup {0},
           collection # 0 => collection' = collection,
           to \in Writing => pc[i] \in Writing,
           to \in Written => pc[i] \in Written,
           to \in {"embed", "upsert"} => collection' # 0,
           alone[i] => /\ to = "make" => ~bucket'
                       /\ to = "create" => collection' = 0
                       /\ to = "failed" =>
                             \/ why = "service"
                             \/ why = "input" /\ ~Embeddable(catalog[i])
                             \/ why = "mismatch" /\ collection' # dimension[i]
    PROVE  StoresInv'
<1>1. /\ Typed /\ Uploaded /\ Undisturbed /\ CollectionStays /\ Vectors
      /\ VectorsAreWholeCatalogs /\ CommitMeansStored /\ RerunsRecover
  BY DEF StoresInv
<1>2. /\ pc'[i] = to /\ cause'[i] = why
      /\ \A j \in Ingestions \ {i} : /\ pc'[j] = pc[j]
                                     /\ cause'[j] = cause[j]
  BY <1>1 DEF Typed
<1>3. \A j \in Ingestions \ {i} : ~alone[j]
  BY OnlyOneAlone
<1>4. Typed'
  BY <1>1 DEF Typed
<1>5. Uploaded'
  BY <1>1, <1>2 DEF Uploaded, Writing, Written
<1>6. Undisturbed'
  BY <1>1, <1>2, <1>3 DEF Undisturbed, Active
<1>7. CollectionStays'
  <2>1. points' # {} => collection' # 0
    BY <1>1 DEF CollectionStays
  <2>2. ASSUME NEW j \in Ingestions,
               pc'[j] \in {"embed", "upsert", "committed"}
        PROVE  collection' # 0
    <3>1. CASE j = i
      BY <1>2, <2>2, <3>1
    <3>2. CASE j # i
      BY <1>1, <1>2, <2>2, <3>2 DEF CollectionStays
    <3> QED
      BY <3>1, <3>2
  <2> QED
    BY <2>1, <2>2 DEF CollectionStays
<1>8. Vectors' /\ VectorsAreWholeCatalogs'
  BY <1>1 DEF Vectors, VectorsAreWholeCatalogs
<1>9. CommitMeansStored'
  BY <1>1, <1>2 DEF CommitMeansStored
<1>10. RerunsRecover'
  BY <1>1, <1>2, <1>3 DEF RerunsRecover, Embeddable
<1> QED
  BY <1>4, <1>5, <1>6, <1>7, <1>8, <1>9, <1>10 DEF StoresInv

\* create_bucket, create_collection, the embedding, and what ends a command.
LEMMA QuietStepsKeep ==
    ASSUME StoresInv, NEW i \in Ingestions,
           \/ FindBucket(i) \/ MakeBucket(i) \/ FindCollection(i)
           \/ CreateCollection(i) \/ Embed(i) \/ Interrupt(i)
    PROVE  StoresInv'
<1>1. Typed /\ Undisturbed /\ CollectionStays
  BY DEF StoresInv
<1>2. /\ cause = [cause EXCEPT ![i] = cause[i]]
      /\ cause[i] \in {"none", "conflict", "input", "mismatch", "service"}
      /\ bucket \in BOOLEAN /\ collection \in Dimensions \cup {0}
      /\ dimension[i] \in Dimensions /\ dimension[i] # 0
  BY <1>1, SearchAssumption DEF Typed
<1>3. CASE FindBucket(i)
  <2>1. /\ pc[i] = "bucket"
        /\ pc' = [pc EXCEPT ![i] = IF bucket THEN "put" ELSE "make"]
        /\ UNCHANGED <<catalog, dimension, left, alone, objects, points,
                       cause, bucket, collection>>
    BY <1>3 DEF FindBucket, Step, Locals, stores
  <2>2. Active(i)
    BY <2>1 DEF Active
  <2>3. CASE bucket
    <3> DEFINE to == "put"
    <3>1. /\ to \in Places \ {"committed"} /\ to \in Writing
          /\ pc[i] \in Writing /\ to \notin Written
          /\ to \notin {"make", "create", "failed", "embed", "upsert"}
      BY <2>1 DEF Places, Writing, Written
    <3>2. pc' = [pc EXCEPT ![i] = to]
      BY <2>1, <2>3
    <3> HIDE DEF to
    <3> QED
      BY <1>2, <2>1, <2>2, <3>1, <3>2, QuietStep
  <2>4. CASE ~bucket
    <3> DEFINE to == "make"
    <3>1. /\ to \in Places \ {"committed"} /\ to \in Writing
          /\ pc[i] \in Writing /\ to \notin Written
          /\ to \notin {"create", "failed", "embed", "upsert"}
      BY <2>1 DEF Places, Writing, Written
    <3>2. pc' = [pc EXCEPT ![i] = to] /\ ~bucket'
      BY <2>1, <2>4
    <3> HIDE DEF to
    <3> QED
      BY <1>2, <2>1, <2>2, <3>1, <3>2, QuietStep
  <2> QED
    BY <2>3, <2>4
<1>4. CASE MakeBucket(i)
  <2>1. /\ pc[i] = "make" /\ bucket' = TRUE
        /\ UNCHANGED <<catalog, dimension, left, alone, objects, points,
                       collection>>
    BY <1>4 DEF MakeBucket, Locals
  <2>2. Active(i)
    BY <2>1 DEF Active
  <2>3. CASE bucket
    <3> DEFINE to == "failed"
    <3> DEFINE why == "conflict"
    <3>1. /\ to \in Places \ {"committed"} /\ to \notin Writing
          /\ to \notin Written
          /\ to \notin {"make", "create", "embed", "upsert"}
          /\ why \in {"none", "conflict", "input", "mismatch", "service"}
      BY DEF Places, Writing, Written
    <3>2. /\ pc' = [pc EXCEPT ![i] = to]
          /\ cause' = [cause EXCEPT ![i] = why]
      BY <1>4, <2>3 DEF MakeBucket, Fail
    <3>3. ~alone[i]
      BY <1>1, <2>1, <2>3 DEF Undisturbed
    <3> HIDE DEF to, why
    <3> QED
      BY <1>2, <2>1, <2>2, <3>1, <3>2, <3>3, QuietStep
  <2>4. CASE ~bucket
    <3> DEFINE to == "put"
    <3>1. /\ to \in Places \ {"committed"} /\ to \in Writing
          /\ pc[i] \in Writing /\ to \notin Written
          /\ to \notin {"make", "create", "failed", "embed", "upsert"}
      BY <2>1 DEF Places, Writing, Written
    <3>2. pc' = [pc EXCEPT ![i] = to] /\ cause' = cause
      BY <1>4, <2>4 DEF MakeBucket
    <3> HIDE DEF to
    <3> QED
      BY <1>2, <2>1, <2>2, <3>1, <3>2, QuietStep
  <2> QED
    BY <2>3, <2>4
<1>5. CASE FindCollection(i)
  <2>1. /\ pc[i] = "find"
        /\ pc' = [pc EXCEPT ![i] = AfterFind]
        /\ UNCHANGED <<catalog, dimension, left, alone, objects, points,
                       cause, bucket, collection>>
    BY <1>5 DEF FindCollection, Step, Locals, stores
  <2>2. Active(i)
    BY <2>1 DEF Active
  <2> DEFINE to == AfterFind
  <2>3. /\ to \in Places \ {"committed"} /\ to \notin Writing
        /\ pc[i] \in Written
        /\ to \notin {"make", "failed", "upsert"}
        /\ to = "embed" => collection' # 0
        /\ to = "create" => collection' = 0
    BY <2>1 DEF Places, Writing, Written, AfterFind
  <2> HIDE DEF to
  <2>4. pc' = [pc EXCEPT ![i] = to]
    BY <2>1 DEF to
  <2> QED
    BY <1>2, <2>1, <2>2, <2>3, <2>4, QuietStep
<1>6. CASE CreateCollection(i)
  <2>1. /\ pc[i] = "create"
        /\ UNCHANGED <<catalog, dimension, left, alone, objects, points,
                       bucket>>
    BY <1>6 DEF CreateCollection, Locals
  <2>2. Active(i)
    BY <2>1 DEF Active
  <2>3. CASE collection # 0
    <3> DEFINE to == "failed"
    <3> DEFINE why == "conflict"
    <3>1. /\ to \in Places \ {"committed"} /\ to \notin Writing
          /\ to \notin Written
          /\ to \notin {"make", "create", "embed", "upsert"}
          /\ why \in {"none", "conflict", "input", "mismatch", "service"}
      BY DEF Places, Writing, Written
    <3>2. /\ pc' = [pc EXCEPT ![i] = to]
          /\ cause' = [cause EXCEPT ![i] = why]
          /\ collection' = collection
      BY <1>6, <2>3 DEF CreateCollection, Fail
    <3>3. ~alone[i]
      BY <1>1, <2>1, <2>3 DEF Undisturbed
    <3> HIDE DEF to, why
    <3> QED
      BY <1>2, <2>1, <2>2, <3>1, <3>2, <3>3, QuietStep
  <2>4. CASE ~(collection # 0)
    <3> DEFINE to == "embed"
    <3>1. /\ to \in Places \ {"committed"} /\ to \notin Writing
          /\ pc[i] \in Written
          /\ to \notin {"make", "create", "failed"}
      BY <2>1 DEF Places, Writing, Written
    <3>2. /\ pc' = [pc EXCEPT ![i] = to] /\ cause' = cause
          /\ collection' = dimension[i]
      BY <1>6, <2>4 DEF CreateCollection
    <3> HIDE DEF to
    <3> QED
      BY <1>2, <2>1, <2>2, <2>4, <3>1, <3>2, QuietStep
  <2> QED
    BY <2>3, <2>4
<1>7. CASE Embed(i)
  <2>1. /\ pc[i] = "embed"
        /\ UNCHANGED <<catalog, dimension, left, alone, objects, points,
                       bucket, collection>>
    BY <1>7 DEF Embed, Locals, stores
  <2>2. Active(i) /\ collection # 0
    BY <1>1, <2>1 DEF Active, CollectionStays
  <2>3. CASE Embeddable(catalog[i])
    <3> DEFINE to == "upsert"
    <3>1. /\ to \in Places \ {"committed"} /\ to \notin Writing
          /\ pc[i] \in Written
          /\ to \notin {"make", "create", "failed"}
      BY <2>1 DEF Places, Writing, Written
    <3>2. pc' = [pc EXCEPT ![i] = to] /\ cause' = cause
      BY <1>7, <2>3 DEF Embed
    <3> HIDE DEF to
    <3> QED
      BY <1>2, <2>1, <2>2, <3>1, <3>2, QuietStep
  <2>4. CASE ~Embeddable(catalog[i])
    <3> DEFINE to == "failed"
    <3> DEFINE why == "input"
    <3>1. /\ to \in Places \ {"committed"} /\ to \notin Writing
          /\ to \notin Written /\ why = "input"
          /\ to \notin {"make", "create", "embed", "upsert"}
          /\ why \in {"none", "conflict", "input", "mismatch", "service"}
      BY DEF Places, Writing, Written
    <3>2. /\ pc' = [pc EXCEPT ![i] = to]
          /\ cause' = [cause EXCEPT ![i] = why]
      BY <1>7, <2>4 DEF Embed, Fail
    <3> HIDE DEF to, why
    <3> QED
      BY <1>2, <2>1, <2>2, <2>4, <3>1, <3>2, QuietStep
  <2> QED
    BY <2>3, <2>4
<1>8. CASE Interrupt(i)
  <2> DEFINE to == "failed"
  <2> DEFINE why == "service"
  <2>1. /\ Active(i)
        /\ pc' = [pc EXCEPT ![i] = to]
        /\ cause' = [cause EXCEPT ![i] = why]
        /\ UNCHANGED <<catalog, dimension, left, alone, objects, points,
                       bucket, collection>>
    BY <1>8 DEF Interrupt, Fail, Locals, stores
  <2>2. /\ to \in Places \ {"committed"} /\ to \notin Writing
        /\ to \notin Written /\ why = "service"
        /\ to \notin {"make", "create", "embed", "upsert"}
        /\ why \in {"none", "conflict", "input", "mismatch", "service"}
    BY DEF Places, Writing, Written
  <2> HIDE DEF to, why
  <2> QED
    BY <1>2, <2>1, <2>2, QuietStep
<1> QED
  BY <1>3, <1>4, <1>5, <1>6, <1>7, <1>8

\* The command begins, again or for the first time.
LEMMA BeginKeeps ==
    ASSUME StoresInv, NEW i \in Ingestions, Begin(i)
    PROVE  StoresInv'
<1>1. /\ Typed /\ Uploaded /\ Undisturbed /\ CollectionStays /\ Vectors
      /\ VectorsAreWholeCatalogs /\ CommitMeansStored /\ RerunsRecover
  BY DEF StoresInv
<1>2. /\ pc' = [pc EXCEPT ![i] = "bucket"]
      /\ left' = [left EXCEPT ![i] = DOMAIN catalog[i]]
      /\ cause' = [cause EXCEPT ![i] = "none"]
      /\ alone' = [j \in Ingestions |->
                      j = i /\ \A k \in Ingestions : ~Active(k)]
      /\ UNCHANGED <<catalog, dimension, bucket, objects, collection, points>>
  BY DEF Begin, stores
<1>3. /\ pc'[i] = "bucket" /\ left'[i] = DOMAIN catalog[i]
      /\ \A j \in Ingestions \ {i} : /\ pc'[j] = pc[j]
                                     /\ left'[j] = left[j]
  BY <1>1, <1>2 DEF Typed
<1>4. \A j \in Ingestions \ {i} : ~alone'[j]
  BY <1>2
<1>5. alone'[i] => \A j \in Ingestions : ~Active(j)
  BY <1>2
<1>6. DOMAIN catalog[i] # {} /\ DOMAIN catalog[i] \subseteq Documents
  BY <1>1, CatalogAssumption DEF Typed
<1>7. Typed'
  <2>1. pc' \in [Ingestions -> Places]
    BY <1>1, <1>2 DEF Typed, Places, Writing
  <2>2. left' \in [Ingestions -> SUBSET Documents]
    BY <1>1, <1>2, <1>6 DEF Typed
  <2>3. alone' \in [Ingestions -> BOOLEAN]
    <3>1. \A j \in Ingestions :
             (j = i /\ \A k \in Ingestions : ~Active(k)) \in BOOLEAN
      OBVIOUS
    <3> QED
      BY <1>2, <3>1
  <2> QED
    BY <1>1, <1>2, <2>1, <2>2, <2>3 DEF Typed
<1>8. Uploaded'
  <2>1. ASSUME NEW j \in Ingestions
        PROVE  /\ left'[j] \subseteq DOMAIN catalog[j]
               /\ pc'[j] \in Writing => left'[j] # {}
               /\ pc'[j] \in Written => left'[j] = {}
               /\ pc'[j] \in Writing \cup Written =>
                     \A d \in DOMAIN catalog[j] \ left'[j] :
                        objects[d] # NoObject
               /\ alone'[j] => \A d \in DOMAIN catalog[j] \ left'[j] :
                                  objects[d] = catalog[j][d]
    <3>1. CASE j = i
      BY <1>3, <1>6, <3>1 DEF Written
    <3>2. CASE j # i
      BY <1>1, <1>3, <1>4, <3>2 DEF Uploaded
    <3> QED
      BY <3>1, <3>2
  <2> QED
    BY <1>2, <2>1 DEF Uploaded
<1>9. Undisturbed'
  BY <1>3, <1>4, <1>5 DEF Undisturbed, Active
<1>10. CollectionStays'
  BY <1>1, <1>2, <1>3 DEF CollectionStays
<1>11. Vectors' /\ VectorsAreWholeCatalogs'
  BY <1>1, <1>2 DEF Vectors, VectorsAreWholeCatalogs
<1>12. CommitMeansStored'
  BY <1>1, <1>2, <1>3, <1>4 DEF CommitMeansStored
<1>13. RerunsRecover'
  BY <1>3, <1>4 DEF RerunsRecover
<1> QED
  BY <1>7, <1>8, <1>9, <1>10, <1>11, <1>12, <1>13 DEF StoresInv

\* A document is uploaded, whatever its object was.
LEMMA PutKeeps ==
    ASSUME StoresInv, NEW i \in Ingestions, Put(i)
    PROVE  StoresInv'
<1> DEFINE d == Min(left[i])
<1> DEFINE to == IF left'[i] = {} THEN "find" ELSE "bucket"
<1>1. /\ Typed /\ Uploaded /\ Undisturbed /\ CollectionStays /\ Vectors
      /\ VectorsAreWholeCatalogs /\ CommitMeansStored /\ RerunsRecover
  BY DEF StoresInv
<1>2. /\ pc[i] = "put"
      /\ pc' = [pc EXCEPT ![i] = to]
      /\ objects' = [objects EXCEPT ![d] = catalog[i][d]]
      /\ left' = [left EXCEPT ![i] = @ \ {d}]
      /\ UNCHANGED <<catalog, dimension, cause, alone, bucket, collection,
                     points>>
  BY DEF Put, Upload, Locals
<1>3. d \in left[i] /\ d \in DOMAIN catalog[i] /\ d \in Documents
  <2>1. left[i] # {} /\ left[i] \subseteq DOMAIN catalog[i]
    BY <1>1, <1>2 DEF Uploaded, Writing
  <2>2. left[i] \subseteq Documents
    BY <1>1 DEF Typed
  <2>3. left[i] \subseteq Nat
    BY <2>2, CatalogAssumption
  <2>4. d \in left[i]
    BY <2>1, <2>3, MinIsThere
  <2> HIDE DEF d
  <2> QED
    BY <2>1, <2>2, <2>4
<1>4. catalog[i][d] # NoObject /\ catalog[i][d] \in Contents
  <2>1. catalog[i] \in Catalogs
    BY <1>1 DEF Typed
  <2>2. ASSUME NEW c \in Catalogs, NEW e \in DOMAIN c
        PROVE  c[e] # NoObject /\ c[e] \in Contents
    <3>1. c[e] # NoObject
      BY CatalogAssumption DEF NoObject
    <3>2. c[e] \in {c[f] : f \in DOMAIN c}
      OBVIOUS
    <3>3. c[e] \in UNION {{k[f] : f \in DOMAIN k} : k \in Catalogs}
      BY <3>2
    <3> QED
      BY <3>1, <3>3 DEF Contents
  <2> HIDE DEF d
  <2> QED
    BY <1>3, <2>1, <2>2
<1> HIDE DEF d
<1>5. /\ objects'[d] = catalog[i][d]
      /\ \A e \in Documents \ {d} : objects'[e] = objects[e]
      /\ left'[i] = left[i] \ {d}
      /\ \A j \in Ingestions \ {i} : left'[j] = left[j]
  BY <1>1, <1>2, <1>3 DEF Typed
<1>6. /\ pc'[i] = to /\ pc[i] \in Writing
      /\ \A j \in Ingestions \ {i} : pc'[j] = pc[j]
  BY <1>1, <1>2 DEF Typed, Writing
<1>7. /\ to \in {"find", "bucket"} /\ to \in Places
      /\ to \in Writing => left'[i] # {}
      /\ to \in Written => left'[i] = {}
  BY DEF Places, Writing, Written
<1> HIDE DEF to
<1>8. Active(i) /\ \A j \in Ingestions \ {i} : ~alone[j]
  BY <1>2, OnlyOneAlone DEF Active
<1>9. Typed'
  <2>1. pc' \in [Ingestions -> Places]
    BY <1>1, <1>2, <1>7 DEF Typed
  <2>2. left' \in [Ingestions -> SUBSET Documents]
    BY <1>1, <1>2 DEF Typed
  <2>3. objects' \in [Documents -> Contents]
    BY <1>1, <1>2, <1>4 DEF Typed
  <2> QED
    BY <1>1, <1>2, <2>1, <2>2, <2>3 DEF Typed
<1>10. \A e \in Documents : objects[e] # NoObject => objects'[e] # NoObject
  BY <1>4, <1>5
<1>11. Uploaded'
  <2>1. ASSUME NEW j \in Ingestions
        PROVE  /\ left'[j] \subseteq DOMAIN catalog[j]
               /\ pc'[j] \in Writing => left'[j] # {}
               /\ pc'[j] \in Written => left'[j] = {}
               /\ pc'[j] \in Writing \cup Written =>
                     \A e \in DOMAIN catalog[j] \ left'[j] :
                        objects'[e] # NoObject
               /\ alone[j] => \A e \in DOMAIN catalog[j] \ left'[j] :
                                  objects'[e] = catalog[j][e]
    <3>1. DOMAIN catalog[j] \subseteq Documents
      BY <1>1, CatalogAssumption DEF Typed
    <3>2. CASE j = i
      <4>1. left'[i] \subseteq DOMAIN catalog[i]
        BY <1>1, <1>5 DEF Uploaded
      <4>2. ASSUME NEW e \in DOMAIN catalog[i] \ left'[i]
            PROVE  /\ objects'[e] # NoObject
                   /\ alone[i] => objects'[e] = catalog[i][e]
        <5>1. CASE e = d
          BY <1>4, <1>5, <5>1
        <5>2. CASE e # d
          <6>1. e \in DOMAIN catalog[i] \ left[i] /\ e \in Documents \ {d}
            BY <1>5, <3>1, <3>2, <5>2
          <6>2. /\ objects[e] # NoObject
                /\ alone[i] => objects[e] = catalog[i][e]
            BY <1>1, <1>6, <6>1 DEF Uploaded
          <6> QED
            BY <1>5, <6>1, <6>2
        <5> QED
          BY <5>1, <5>2
      <4> QED
        BY <1>6, <1>7, <3>2, <4>1, <4>2
    <3>3. CASE j # i
      BY <1>1, <1>5, <1>6, <1>8, <1>10, <3>1, <3>3 DEF Uploaded
    <3> QED
      BY <3>2, <3>3
  <2> QED
    BY <1>2, <2>1 DEF Uploaded
<1>12. Undisturbed'
  BY <1>1, <1>2, <1>6, <1>7, <1>8 DEF Undisturbed, Active
<1>13. CollectionStays'
  BY <1>1, <1>2, <1>6, <1>7 DEF CollectionStays
<1>14. Vectors' /\ VectorsAreWholeCatalogs'
  BY <1>1, <1>2, <1>10 DEF Vectors, VectorsAreWholeCatalogs
<1>15. CommitMeansStored'
  BY <1>1, <1>2, <1>6, <1>7, <1>8 DEF CommitMeansStored
<1>16. RerunsRecover'
  BY <1>1, <1>2, <1>6, <1>7 DEF RerunsRecover
<1> QED
  BY <1>9, <1>11, <1>12, <1>13, <1>14, <1>15, <1>16 DEF StoresInv

\* The points of a catalog take the place of those of the same chunks, and the
\* others stay.
LEMMA UpsertedPoints ==
    ASSUME Vectors, VectorsAreWholeCatalogs, NEW c \in Catalogs,
           points' = {p \in points : \A q \in PointsOf(c) : q.id # p.id}
                        \cup PointsOf(c)
    PROVE  /\ Vectors'
           /\ {p.chunk : p \in points'} =
                 {p.chunk : p \in points} \cup Chunks(c)
           /\ \E cs \in SUBSET Catalogs :
                 {p.chunk : p \in points'} = UNION {Chunks(k) : k \in cs}
           /\ \A p, q \in points' : p.chunk = q.chunk => p = q
<1> DEFINE kept == {p \in points : \A q \in PointsOf(c) : q.id # p.id}
<1>1. \A p \in points' : p = [id |-> p.chunk, chunk |-> p.chunk]
  <2>1. \A p \in PointsOf(c) : p = [id |-> p.chunk, chunk |-> p.chunk]
    BY DEF PointsOf
  <2>2. \A p \in points : p = [id |-> p.chunk, chunk |-> p.chunk]
    BY DEF Vectors
  <2> QED
    BY <2>1, <2>2
<1>2. Vectors'
  <2>1. IsFiniteSet(kept)
    BY FS_Subset DEF Vectors
  <2>2. IsFiniteSet(kept \cup PointsOf(c))
    BY <2>1, PointsAreFinite, FS_Union
  <2> QED
    BY <1>1, <2>2 DEF Vectors
<1>3. \A p, q \in points' : p.chunk = q.chunk => p = q
  BY <1>1
<1>4. {p.chunk : p \in PointsOf(c)} = Chunks(c)
  <2>1. \A chunk \in Chunks(c) :
           /\ [id |-> chunk, chunk |-> chunk] \in PointsOf(c)
           /\ [id |-> chunk, chunk |-> chunk].chunk = chunk
    BY DEF PointsOf
  <2>2. \A p \in PointsOf(c) : p.chunk \in Chunks(c)
    BY DEF PointsOf
  <2> QED
    BY <2>1, <2>2
<1>5. {p.chunk : p \in points'} = {p.chunk : p \in points} \cup Chunks(c)
  <2>1. ASSUME NEW p \in points, p \notin kept
        PROVE  p.chunk \in Chunks(c)
    <3>1. PICK q \in PointsOf(c) : q.id = p.id
      BY <2>1
    <3>2. p.id = p.chunk
      BY DEF Vectors
    <3>3. q.id \in Chunks(c)
      BY DEF PointsOf
    <3> QED
      BY <3>1, <3>2, <3>3
  <2>2. points' = kept \cup PointsOf(c)
    OBVIOUS
  <2>3. kept \subseteq points
    OBVIOUS
  <2> HIDE DEF kept
  <2>4. \A p \in points' : \/ p \in points
                           \/ p.chunk \in Chunks(c)
    BY <1>4, <2>2, <2>3
  <2>5. \A p \in points : \/ p \in points'
                          \/ p.chunk \in Chunks(c)
    BY <2>1, <2>2
  <2>6. \A chunk \in Chunks(c) : \E p \in points' : p.chunk = chunk
    BY <1>4, <2>2
  <2> QED
    BY <2>4, <2>5, <2>6
<1>6. \E cs \in SUBSET Catalogs :
         {p.chunk : p \in points'} = UNION {Chunks(k) : k \in cs}
  <2>1. PICK cs \in SUBSET Catalogs :
           {p.chunk : p \in points} = UNION {Chunks(k) : k \in cs}
    BY DEF VectorsAreWholeCatalogs
  <2> DEFINE more == cs \cup {c}
  <2> DEFINE All(S) == UNION {Chunks(k) : k \in S}
  <2> DEFINE then == {p.chunk : p \in points'}
  <2> DEFINE now == {p.chunk : p \in points}
  <2>2. more \in SUBSET Catalogs
    OBVIOUS
  <2>3. ASSUME NEW x
        PROVE  x \in All(more) <=> x \in All(cs) \/ x \in Chunks(c)
    <3>1. x \in All(more) <=> \E k \in more : x \in Chunks(k)
      OBVIOUS
    <3>2. x \in All(cs) <=> \E k \in cs : x \in Chunks(k)
      OBVIOUS
    <3> QED
      BY <3>1, <3>2
  <2>4. then = now \cup Chunks(c) /\ now = All(cs)
    BY <1>5, <2>1
  <2> HIDE DEF then, now, All, more
  <2>5. then = All(more)
    BY <2>3, <2>4
  <2>6. {p.chunk : p \in points'} = UNION {Chunks(k) : k \in more}
    BY <2>5 DEF then, All
  <2> QED
    BY <2>2, <2>6
<1> QED
  BY <1>2, <1>3, <1>5, <1>6

\* The ingestion commits, or its collection is of another dimension.
LEMMA UpsertKeeps ==
    ASSUME StoresInv, NEW i \in Ingestions, Upsert(i)
    PROVE  StoresInv'
<1> DEFINE c == catalog[i]
<1>1. /\ Typed /\ Uploaded /\ Undisturbed /\ CollectionStays /\ Vectors
      /\ VectorsAreWholeCatalogs /\ CommitMeansStored /\ RerunsRecover
  BY DEF StoresInv
<1>2. /\ pc[i] = "upsert"
      /\ UNCHANGED <<catalog, dimension, alone, left, bucket, objects,
                     collection>>
  BY DEF Upsert, Locals
<1>3. /\ Active(i) /\ pc[i] \in Written /\ collection # 0
      /\ \A j \in Ingestions \ {i} : ~alone[j]
  BY <1>1, <1>2, OnlyOneAlone DEF Active, Written, CollectionStays
<1>4. c \in Catalogs /\ DOMAIN c \subseteq Documents
  BY <1>1, CatalogAssumption DEF Typed
<1>5. CASE collection # dimension[i]
  <2> DEFINE to == "failed"
  <2> DEFINE why == "mismatch"
  <2>1. /\ to \in Places \ {"committed"} /\ to \notin Writing
        /\ to \notin Written /\ why = "mismatch"
        /\ to \notin {"make", "create", "embed", "upsert"}
        /\ why \in {"none", "conflict", "input", "mismatch", "service"}
    BY DEF Places, Writing, Written
  <2>2. /\ pc' = [pc EXCEPT ![i] = to]
        /\ cause' = [cause EXCEPT ![i] = why]
        /\ points' = points
    BY <1>5 DEF Upsert, Fail
  <2>3. bucket' \in BOOLEAN /\ collection' \in Dimensions \cup {0}
        /\ collection' # dimension[i]
    BY <1>1, <1>2, <1>5 DEF Typed
  <2> HIDE DEF to, why
  <2> QED
    BY <1>2, <1>3, <2>1, <2>2, <2>3, QuietStep
<1>6. CASE collection = dimension[i]
  <2>1. /\ points' = {p \in points : \A q \in PointsOf(c) : q.id # p.id}
                        \cup PointsOf(c)
        /\ pc' = [pc EXCEPT ![i] = "committed"]
        /\ cause' = cause
    BY <1>6 DEF Upsert, PointId, PointsOf
  <2>2. /\ Vectors'
        /\ {p.chunk : p \in points'} = {p.chunk : p \in points} \cup Chunks(c)
        /\ \E cs \in SUBSET Catalogs :
              {p.chunk : p \in points'} = UNION {Chunks(k) : k \in cs}
        /\ \A p, q \in points' : p.chunk = q.chunk => p = q
    <3> HIDE DEF c
    <3> QED
      BY <1>1, <1>4, <2>1, UpsertedPoints
  <2>3. /\ pc'[i] = "committed"
        /\ \A j \in Ingestions \ {i} : pc'[j] = pc[j]
    BY <1>1, <2>1 DEF Typed
  <2>4. Typed'
    BY <1>1, <1>2, <2>1 DEF Typed, Places, Written
  <2>5. Uploaded'
    BY <1>1, <1>2, <1>3, <2>3 DEF Uploaded, Writing, Written
  <2>6. Undisturbed'
    BY <1>1, <1>2, <1>3, <2>3 DEF Undisturbed, Active
  <2>7. CollectionStays'
    BY <1>1, <1>2, <1>3, <2>3 DEF CollectionStays
  <2>8. VectorsAreWholeCatalogs'
    <3>1. ASSUME NEW d \in Documents, NEW p \in points', p.chunk[1] = d
          PROVE  objects[d] # NoObject
      <4>1. p.chunk \in {q.chunk : q \in points} \cup Chunks(c)
        BY <2>2
      <4>2. CASE p.chunk \in {q.chunk : q \in points}
        <5>1. PICK q \in points : q.chunk[1] = d
          BY <3>1, <4>2
        <5> QED
          BY <1>1, <5>1 DEF VectorsAreWholeCatalogs
      <4>3. CASE p.chunk \in Chunks(c)
        <5>1. p.chunk[1] \in DOMAIN c
          BY <4>3 DEF Chunks
        <5>2. left[i] = {}
          BY <1>1, <1>3 DEF Uploaded
        <5>3. d \in DOMAIN catalog[i] \ left[i]
          BY <3>1, <5>1, <5>2
        <5> QED
          BY <1>1, <1>3, <5>3 DEF Uploaded
      <4> QED
        BY <4>1, <4>2, <4>3
    <3>2. \A d \in Documents :
             (\E p \in points' : p.chunk[1] = d) => objects'[d] # NoObject
      BY <1>2, <3>1
    <3> QED
      BY <2>2, <3>2 DEF VectorsAreWholeCatalogs
  <2>9. CommitMeansStored'
    <3>1. ASSUME NEW j \in Ingestions, pc'[j] = "committed"
          PROVE  /\ Chunks(catalog[j]) \subseteq {p.chunk : p \in points'}
                 /\ alone[j] => \A d \in DOMAIN catalog[j] :
                                   objects[d] = catalog[j][d]
      <4>1. CASE j = i
        <5>1. left[i] = {}
          BY <1>1, <1>3 DEF Uploaded
        <5>2. alone[i] => \A d \in DOMAIN catalog[i] :
                             objects[d] = catalog[i][d]
          BY <1>1, <5>1 DEF Uploaded
        <5> QED
          BY <2>2, <4>1, <5>2
      <4>2. CASE j # i
        BY <1>1, <2>2, <2>3, <3>1, <4>2 DEF CommitMeansStored
      <4> QED
        BY <4>1, <4>2
    <3> QED
      BY <1>2, <3>1 DEF CommitMeansStored
  <2>10. RerunsRecover'
    BY <1>1, <1>2, <1>3, <2>3 DEF RerunsRecover
  <2> QED
    BY <2>2, <2>4, <2>5, <2>6, <2>7, <2>8, <2>9, <2>10 DEF StoresInv
<1> QED
  BY <1>5, <1>6

LEMMA StoresInvInit ==
    Init => StoresInv
<1> SUFFICES ASSUME Init PROVE StoresInv
  OBVIOUS
<1>1. /\ pc = [i \in Ingestions |-> "idle"]
      /\ catalog \in [Ingestions -> Catalogs]
      /\ dimension \in [Ingestions -> Dimensions]
      /\ left = [i \in Ingestions |-> {}]
      /\ cause = [i \in Ingestions |-> "none"]
      /\ alone = [i \in Ingestions |-> FALSE]
      /\ bucket = FALSE
      /\ objects = [d \in Documents |-> NoObject]
      /\ collection = 0 /\ points = {}
  BY DEF Init
<1>2. \A i \in Ingestions : pc[i] = "idle" /\ left[i] = {} /\ ~alone[i]
  BY <1>1
<1>3. Typed
  <2>1. NoObject \in Contents
    BY DEF Contents
  <2>2. objects \in [Documents -> Contents]
    BY <1>1, <2>1
  <2>3. pc \in [Ingestions -> Places]
    BY <1>1 DEF Places
  <2> QED
    BY <1>1, <2>2, <2>3 DEF Typed
<1>4. Uploaded
  BY <1>2 DEF Uploaded, Writing, Written
<1>5. Undisturbed /\ CommitMeansStored /\ RerunsRecover
  BY <1>2 DEF Undisturbed, CommitMeansStored, RerunsRecover
<1>6. CollectionStays
  BY <1>1, <1>2 DEF CollectionStays
<1>7. Vectors
  BY <1>1, FS_EmptySet DEF Vectors
<1>8. VectorsAreWholeCatalogs
  <2>1. {p.chunk : p \in points} = UNION {Chunks(k) : k \in {}}
    BY <1>1
  <2>2. \E cs \in SUBSET Catalogs :
           {p.chunk : p \in points} = UNION {Chunks(k) : k \in cs}
    BY <2>1
  <2> QED
    BY <1>1, <2>2 DEF VectorsAreWholeCatalogs
<1> QED
  BY <1>3, <1>4, <1>5, <1>6, <1>7, <1>8 DEF StoresInv

\* A step that writes to no store and moves no ingestion.
LEMMA ReadsKeep ==
    ASSUME StoresInv, UNCHANGED <<ingestion, stores>>
    PROVE  StoresInv'
<1>1. UNCHANGED <<pc, catalog, dimension, left, cause, alone, bucket, objects,
                  collection, points>>
  BY DEF ingestion, stores
<1>2. /\ Typed' /\ Uploaded' /\ Vectors' /\ VectorsAreWholeCatalogs'
      /\ CommitMeansStored' /\ CollectionStays'
  BY <1>1, SMTT(20)
  DEF StoresInv, Typed, Uploaded, Vectors, VectorsAreWholeCatalogs,
      CommitMeansStored, CollectionStays
<1>3. Undisturbed' /\ RerunsRecover'
  BY <1>1 DEF StoresInv, Undisturbed, RerunsRecover, Active, Embeddable
<1> QED
  BY <1>2, <1>3 DEF StoresInv

LEMMA StoresInvNext ==
    ASSUME StoresInv, [Next]_vars
    PROVE  StoresInv'
<1>1. CASE Ingest
  <2>1. PICK i \in Ingestions :
           \/ Begin(i) \/ FindBucket(i) \/ MakeBucket(i) \/ Put(i)
           \/ FindCollection(i) \/ CreateCollection(i) \/ Embed(i)
           \/ Upsert(i) \/ Interrupt(i)
    BY <1>1 DEF Ingest
  <2> QED
    BY <2>1, BeginKeeps, PutKeeps, UpsertKeeps, QuietStepsKeep
<1>2. CASE Search
  BY <1>2, ReadsKeep DEF Search
<1>3. CASE UNCHANGED vars
  BY <1>3, ReadsKeep DEF vars
<1> QED
  BY <1>1, <1>2, <1>3 DEF Next

\* Without a collection there is nothing to be found.
LEMMA NothingIsComplete ==
    ASSUME points = {}, NEW k \in 1..MaxTopK, NEW filter \in Filters
    PROVE  Complete(k, filter, {})
<1>1. {p \in points : Matches(p, filter)} = {}
  OBVIOUS
<1>2. k \in Nat /\ Cardinality({}) = 0
  BY SearchAssumption, FS_EmptySet
<1>3. Min({k, 0}) = 0
  BY <1>2, MinOfTwo
<1> QED
  BY <1>1, <1>2, <1>3 DEF Complete

\* A search is answered from the points that are there.
LEMMA SearchKeeps ==
    ASSUME StoresInv, Search
    PROVE  SearchIsComplete'
<1>1. PICK k \in 1..MaxTopK, filter \in Filters, n \in Dimensions :
         LET answer == [NoSearch EXCEPT !.phase = "done", !.top_k = k,
                                        !.documents = filter]
             native == {p \in points : Native(p, filter)} IN
         CASE collection = 0 -> search' = answer
           [] collection = n ->
                \E candidates \in Best(CandidateLimit(k, filter), native) :
                \E found \in Best(k, {p \in candidates : Matches(p, filter)}) :
                   search' = [answer EXCEPT !.results = found]
           [] OTHER -> search' = [NoSearch EXCEPT !.phase = "unavailable"]
  BY DEF Search
<1>2. points' = points /\ IsFiniteSet(points)
      /\ (collection = 0 => points = {}) /\ n # 0
  BY SearchAssumption
     DEF Search, stores, StoresInv, Vectors, CollectionStays
<1>3. ASSUME NEW found, Complete(k, filter, found),
             search' = [phase |-> "done", top_k |-> k, documents |-> filter,
                        results |-> found]
      PROVE  SearchIsComplete'
  <2>1. /\ search'.top_k = k /\ search'.documents = filter
        /\ search'.results = found
    BY <1>3
  <2> QED
    BY <1>2, <1>3, <2>1 DEF Complete, SearchIsComplete, Matches
<1>4. CASE collection = 0
  <2>1. search' = [phase |-> "done", top_k |-> k, documents |-> filter,
                   results |-> {}]
    BY <1>1, <1>2, <1>4 DEF NoSearch
  <2>2. Complete(k, filter, {})
    BY <1>2, <1>4, NothingIsComplete
  <2> QED
    BY <1>3, <2>1, <2>2
<1>5. CASE collection = n
  <2> DEFINE answer == [NoSearch EXCEPT !.phase = "done", !.top_k = k,
                                        !.documents = filter]
  <2> DEFINE native == {p \in points : Native(p, filter)}
  <2>1. \E candidates \in Best(CandidateLimit(k, filter), native) :
        \E found \in Best(k, {p \in candidates : Matches(p, filter)}) :
           search' = [answer EXCEPT !.results = found]
    <3>1. collection # 0
      BY <1>2, <1>5
    <3> QED
      BY <1>1, <1>5, <3>1, Zenon
  <2>2. PICK candidates \in Best(CandidateLimit(k, filter), native) :
           \E found \in Best(k, {p \in candidates : Matches(p, filter)}) :
              search' = [answer EXCEPT !.results = found]
    BY <2>1
  <2>3. PICK found \in Best(k, {p \in candidates : Matches(p, filter)}) :
           search' = [answer EXCEPT !.results = found]
    BY <2>2
  <2>4. search' = [phase |-> "done", top_k |-> k, documents |-> filter,
                   results |-> found]
    BY <2>3 DEF NoSearch
  <2>5. Complete(k, filter, found)
    BY <1>2, AnswersAreComplete
  <2> QED
    BY <1>3, <2>4, <2>5
<1>6. CASE collection # 0 /\ collection # n
  <2>1. search' = [NoSearch EXCEPT !.phase = "unavailable"]
    BY <1>1, <1>6
  <2> QED
    BY <2>1 DEF SearchIsComplete, NoSearch
<1> QED
  BY <1>4, <1>5, <1>6

-----------------------------------------------------------------------------
(***************************************************************************)
(* The theorems.                                                           *)
(***************************************************************************)

\* The invariant holds of every ingestion and of the stores at every moment.
THEOREM StoresAreConsistent ==
    Spec => []StoresInv
<1>1. Init => StoresInv
  BY StoresInvInit
<1>2. StoresInv /\ [Next]_vars => StoresInv'
  BY StoresInvNext
<1> QED
  BY <1>1, <1>2, PTL DEF Spec

\* The vector store holds the chunks of whole catalogs, each of them once,
\* however many commands have run beside one another and wherever they broke
\* off: upsert writes all points of a call or none, and identifies a point by
\* what its chunk is (_point_id_for_chunk, build_chunk_id).  No document has a
\* vector without an object, since ingest_documents uploads first.
THEOREM VectorsOfWholeCatalogs ==
    Spec => []VectorsAreWholeCatalogs
<1>1. StoresInv => VectorsAreWholeCatalogs
  BY DEF StoresInv
<1> QED
  BY <1>1, StoresAreConsistent, PTL

\* What ingest_documents reports as committed can be found, for as long as the
\* program runs, and the objects are its documents when no other command ran
\* beside it.
THEOREM CommitsAreStored ==
    Spec => []CommitMeansStored
<1>1. StoresInv => CommitMeansStored
  BY DEF StoresInv
<1> QED
  BY <1>1, StoresAreConsistent, PTL

\* A command that has the stores to itself is never defeated by what others
\* have left behind: create_bucket and the vector store's create_collection
\* look before they create.
THEOREM RerunsDoRecover ==
    Spec => []RerunsRecover
<1>1. StoresInv => RerunsRecover
  BY DEF StoresInv
<1> QED
  BY <1>1, StoresAreConsistent, PTL

\* A search returns all there is, up to top_k, unless its filter is the
\* service's own and what does not match takes up the candidates, with
\* _candidate_limit as the only limit (KnowledgeRetrievalService.search).
THEOREM SearchesAreComplete ==
    Spec => []SearchIsComplete
<1>1. Init => SearchIsComplete
  BY DEF Init, NoSearch, SearchIsComplete
<1>2. ASSUME StoresInv, SearchIsComplete, [Next]_vars
      PROVE  SearchIsComplete'
  <2>1. CASE Ingest
    BY <2>1 DEF Ingest, NoSearch, SearchIsComplete
  <2>2. CASE Search
    BY <1>2, <2>2, SearchKeeps
  <2>3. CASE UNCHANGED vars
    <3>1. search' = search /\ points' = points
      BY <2>3 DEF vars, stores
    <3> QED
      BY <1>2, <3>1 DEF SearchIsComplete, Matches
  <2> QED
    BY <1>2, <2>1, <2>2, <2>3 DEF Next
<1> QED
  BY <1>1, <1>2, StoresAreConsistent, PTL DEF Spec
=============================================================================
