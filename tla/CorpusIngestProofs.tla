-------------------------- MODULE CorpusIngestProofs --------------------------
(***************************************************************************)
(* Proofs about CorpusIngest, for any files, versions, settings and faults.*)
(*                                                                         *)
(* The chunk table's identities rest on next_index being above every index *)
(* in use while a run is on (IndexInv); the agreement of the two stores on *)
(* what each writer has already done when it is between them (StoreInv);   *)
(* retries and the flag on what a run has behind it (RetryInv, ApplyInv).  *)
(***************************************************************************)
EXTENDS CorpusIngest, FiniteSetTheorems, WellFoundedInduction, TLAPS

-----------------------------------------------------------------------------
(* The largest of some natural numbers *)

\* What has a bound has a largest element: MAX(original_index) exists.
LEMMA BoundedHasMax ==
  ASSUME NEW S \in SUBSET Nat, S # {},
         NEW b \in Nat, \A i \in S : i < b
  PROVE  \E m \in S : \A i \in S : i <= m
<1> DEFINE R == OpToRel(<, Nat)
           T == {n \in Nat : \A i \in S : i <= n}
<1>1. \A x, y \in Nat : y < x => <<y, x>> \in R
  BY DEF OpToRel
<1>2. IsWellFoundedOn(R, Nat)
  BY NatLessThanWellFounded
<1>3. T \subseteq Nat /\ b \in T
  OBVIOUS
<1>4. PICK m \in T : \A y \in T : ~ (<<y, m>> \in R)
  <2> HIDE DEF R, T
  <2> QED BY <1>2, <1>3, WFMin
<1>5. m \in Nat /\ \A i \in S : i <= m
  <2> HIDE DEF R
  <2> QED OBVIOUS
<1>6. m \in S
  <2> HIDE DEF R
  <2>1. SUFFICES ASSUME m \notin S PROVE FALSE
    OBVIOUS
  <2>2. \A i \in S : i \in Nat /\ i < m
    BY <1>5, <2>1
  <2>3. PICK i \in S : i \in Nat /\ i < m
    BY <2>2
  <2>4. m - 1 \in Nat /\ m - 1 < m /\ \A j \in S : j <= m - 1
    BY <2>2, <2>3, <1>5
  <2>5. m - 1 \in T
    BY <2>4
  <2>6. <<m - 1, m>> \in R
    BY <2>4, <1>5, <1>1
  <2> HIDE DEF T
  <2> QED BY <2>5, <2>6, <1>4
<1> QED BY <1>5, <1>6

\* next_original_index: above every index there is.
LEMMA NextIndexIsFree ==
  ASSUME TypeOK, NEW b \in Nat,
         \A d \in Docs : \A c \in rows[d] : c.index < b
  PROVE  /\ NextIndex \in Nat
         /\ \A d \in Docs : \A c \in rows[d] : c.index < NextIndex
<1>1. /\ Indices \in SUBSET Nat
      /\ \A i \in Indices : i < b
      /\ \A d \in Docs : \A c \in rows[d] : c.index \in Indices
  BY DEF Indices, TypeOK, ChunkType
<1>2. CASE Indices = {}
  BY <1>1, <1>2 DEF NextIndex
<1>3. CASE Indices # {}
  <2>1. \E m \in Indices : \A i \in Indices : i <= m
    BY <1>1, <1>3, BoundedHasMax
  <2> DEFINE M == CHOOSE m \in Indices : \A i \in Indices : i <= m
  <2>2. M \in Indices /\ \A i \in Indices : i <= M
    BY <2>1
  <2>3. NextIndex = 1 + M
    BY <1>3 DEF NextIndex
  <2> HIDE DEF M
  <2> QED BY <1>1, <2>2, <2>3
<1> QED BY <1>2, <1>3

-----------------------------------------------------------------------------
(* The records of a document *)

\* ChunkRecord.create numbers a document's chunks from next_index on, each by
\* its own index, and there are as many as the chunker made.
LEMMA RecordsAreNumbered ==
  ASSUME NEW v \in Versions, NEW g \in Configs, NEW first \in Nat
  PROVE  LET C == Records(v, g, first)
         IN  /\ C \subseteq ChunkType
             /\ Cardinality(C) = Pieces[v][g] /\ Pieces[v][g] \in Nat
             /\ \A c \in C : /\ first <= c.index /\ c.index < first + Cardinality(C)
                             /\ c.config = g /\ c.version = v
             /\ \A a, c \in C : a.index = c.index => a = c
<1> DEFINE n == Pieces[v][g]
           C == Records(v, g, first)
           rec(i) == [pos |-> i, index |-> first + i, version |-> v, config |-> g]
           f == [i \in 1..n |-> rec(i - 1)]
<1>1. n \in Nat
  BY CorpusIngestAssumption
<1>2. C = {rec(i) : i \in {j \in 0..n : j < n}}
  BY DEF Records
<1>3. C \subseteq ChunkType /\ \A c \in C : c.config = g /\ c.version = v
  BY <1>1, <1>2 DEF ChunkType
<1>4. \A c \in C : first <= c.index /\ c.index < first + n
  BY <1>1, <1>2
<1>5. \A a, c \in C : a.index = c.index => a = c
  BY <1>1, <1>2
<1>6. f \in Bijection(1..n, C)
  <2>1. \A i \in 1..n : f[i] \in C
    <3>1. SUFFICES ASSUME NEW i \in 1..n PROVE rec(i - 1) \in C
      OBVIOUS
    <3>2. i - 1 \in {j \in 0..n : j < n}
      BY <1>1
    <3> QED BY <3>2, <1>2
  <2>2. \A i, j \in 1..n : f[i] = f[j] => i = j
    BY <1>1
  <2>3. \A c \in C : \E i \in 1..n : f[i] = c
    <3> TAKE c \in C
    <3>1. PICK j \in 0..n : j < n /\ c = rec(j)
      <4> HIDE DEF C, rec
      <4> QED BY <1>2
    <3>2. j + 1 \in 1..n /\ (j + 1) - 1 = j
      BY <1>1, <3>1
    <3>3. f[j + 1] = rec(j)
      BY <3>2
    <3> QED BY <3>1, <3>2, <3>3
  <2> HIDE DEF f, C
  <2>4. f \in [1..n -> C]
    BY <2>1 DEF f
  <2> QED BY <2>2, <2>3, <2>4 DEF Bijection, Injection, Surjection, IsInjective
<1>7. IsFiniteSet(1..n) /\ Cardinality(1..n) = n
  <2> HIDE DEF n, f, C
  <2>1. 1 \in Int /\ n \in Int /\ (IF 1 > n THEN 0 ELSE n - 1 + 1) = n
    BY <1>1
  <2> QED BY <2>1, FS_Interval
<1>8. Cardinality(C) = n
  <2> HIDE DEF f, C, n
  <2>1. ExistsBijection(1..n, C)
    BY <1>6 DEF ExistsBijection
  <2> QED BY <2>1, <1>7, FS_Bijection
<1> QED BY <1>1, <1>3, <1>4, <1>5, <1>8

-----------------------------------------------------------------------------
(* Types, and indices *)

\* The phases in which a run writes its document.
Writing == {"parse", "es_store", "pg_store"}
Storing == {"es_store", "pg_store"}

\* A document without its marker has no chunk rows; a run writes only such a
\* document; the indices it is about to use are free, and are from next_index
\* on; and no two rows share an index.
IndexInv ==
  /\ \A d \in Docs : d \notin marked => rows[d] = {}
  /\ pc \in Writing => doc \notin marked
  /\ pc \in Storing => \E v \in Versions, g \in Configs : chunks = Records(v, g, next)
  /\ Running => \A d \in Docs : \A c \in rows[d] : c.index < next
  /\ \E b \in Nat : \A d \in Docs : \A c \in rows[d] : c.index < b
  /\ IndexUnique

\* What the steps below leave alone.
LEMMA IndexFrame ==
  ASSUME IndexInv, UNCHANGED <<marked, rows, pc, doc, chunks, next>>
  PROVE  IndexInv'
BY DEF IndexInv, Writing, Storing, Running, IndexUnique

\* Deleting a document's rows, with its marker, wherever the run is.
LEMMA IndexDelete ==
  ASSUME TypeOK, IndexInv, NEW D \in SUBSET Docs,
         marked' = marked \ D,
         rows' = [d \in Docs |-> IF d \in D THEN {} ELSE rows[d]],
         UNCHANGED <<pc, doc, chunks, next>>
  PROVE  IndexInv'
<1>1. \A d \in Docs : rows'[d] \subseteq rows[d]
  OBVIOUS
<1>2. \A d \in Docs : d \notin marked' => rows'[d] = {}
  BY DEF IndexInv
<1>3. IndexUnique'
  BY <1>1 DEF IndexInv, IndexUnique
<1>4. /\ pc' \in Writing => doc' \notin marked'
      /\ pc' \in Storing => \E v \in Versions, g \in Configs : chunks' = Records(v, g, next')
  BY DEF IndexInv
<1>5. /\ Running' => \A d \in Docs : \A c \in rows'[d] : c.index < next'
      /\ \E b \in Nat : \A d \in Docs : \A c \in rows'[d] : c.index < b
  BY <1>1 DEF IndexInv, Running
<1> QED BY <1>2, <1>3, <1>4, <1>5 DEF IndexInv

\* A run starts above every index there is.
LEMMA IndexStart ==
  ASSUME TypeOK, IndexInv, NEW k \in Kinds, StartRun(k)
  PROVE  IndexInv' /\ next' \in Nat
<1>1. PICK b \in Nat : \A d \in Docs : \A c \in rows[d] : c.index < b
  BY DEF IndexInv
<1>2. next' \in Nat /\ \A d \in Docs : \A c \in rows[d] : c.index < next'
  BY <1>1, NextIndexIsFree DEF StartRun
<1>3. pc' = "next_file" /\ UNCHANGED <<marked, rows>>
  BY DEF StartRun, store
<1> QED BY <1>2, <1>3 DEF IndexInv, Writing, Storing, Running, IndexUnique

\* The records are numbered from next_index, or the marker has no chunks.
LEMMA IndexParse ==
  ASSUME TypeOK, IndexInv, Parse PROVE IndexInv'
<1> DEFINE C == Records(disk[doc.file], config, next)
<1>1. /\ doc \in Docs /\ pc = "parse" /\ doc \notin marked /\ rows[doc] = {}
      /\ disk[doc.file] \in Versions /\ config \in Configs
      /\ UNCHANGED <<doc, next>>
  BY DEF Parse, TypeOK, IndexInv, Writing, Docs
<1>2. CASE C = {}
  <2>1. /\ marked' = marked \cup {doc} /\ rows' = [rows EXCEPT ![doc] = {}]
        /\ pc' = "next_file"
    BY <1>2 DEF Parse
  <2>2. rows' = rows
    BY <1>1, <2>1 DEF TypeOK
  <2> QED BY <1>1, <2>1, <2>2
          DEF IndexInv, Writing, Storing, Running, IndexUnique
<1>3. CASE C # {}
  <2>1. chunks' = C /\ pc' = "es_store" /\ UNCHANGED <<marked, rows>>
    BY <1>3 DEF Parse
  <2>2. \E v \in Versions, g \in Configs : chunks' = Records(v, g, next')
    BY <1>1, <2>1
  <2> HIDE DEF C
  <2> QED BY <1>1, <2>1, <2>2 DEF IndexInv, Writing, Storing, Running, IndexUnique
<1> QED BY <1>2, <1>3

\* The transaction adds records with free indices and moves next_index past them.
LEMMA IndexPgStore ==
  ASSUME TypeOK, IndexInv, PgStore
  PROVE  /\ IndexInv' /\ next' \in Nat
         /\ rows' = [rows EXCEPT ![doc] = chunks] /\ rows' \in [Docs -> SUBSET ChunkType]
<1>1. /\ doc \in Docs /\ pc = "pg_store" /\ doc \notin marked /\ rows[doc] = {}
      /\ next \in Nat
      /\ marked' = marked \cup {doc} /\ pc' = "next_file"
      /\ rows' = [rows EXCEPT ![doc] = Overwrite(rows[doc], chunks)]
      /\ next' = next + Cardinality(chunks)
  BY DEF PgStore, TypeOK, IndexInv, Writing
<1>2. PICK v \in Versions, g \in Configs : chunks = Records(v, g, next)
  BY <1>1 DEF IndexInv, Storing
<1>3. /\ chunks \subseteq ChunkType /\ Cardinality(chunks) \in Nat
      /\ \A c \in chunks : next <= c.index /\ c.index < next'
      /\ \A a, c \in chunks : a.index = c.index => a = c
  BY <1>1, <1>2, RecordsAreNumbered
<1>4. rows' = [rows EXCEPT ![doc] = chunks] /\ rows' \in [Docs -> SUBSET ChunkType]
  BY <1>1, <1>3 DEF Overwrite, TypeOK
<1>5. next' \in Nat /\ next <= next'
  BY <1>1, <1>3
<1>6. \A d \in Docs : \A c \in rows[d] : c.index \in Nat /\ c.index < next
  BY <1>1 DEF IndexInv, Running, TypeOK, ChunkType
<1>7. \A c \in chunks : c.index \in Nat
  BY <1>3 DEF ChunkType
<1>8. \A d \in Docs : \A c \in rows'[d] : c.index < next'
  BY <1>1, <1>3, <1>4, <1>5, <1>6 DEF TypeOK
<1>9. IndexUnique'
  <2>1. SUFFICES ASSUME NEW d \in Docs, NEW e \in Docs, NEW a \in rows'[d],
                        NEW c \in rows'[e], a.index = c.index
                 PROVE  d = e /\ a = c
    BY DEF IndexUnique
  <2>2. CASE d = doc /\ e = doc
    BY <2>1, <2>2, <1>3, <1>4 DEF TypeOK
  <2>3. CASE d # doc /\ e # doc
    BY <2>1, <2>3, <1>4 DEF IndexInv, IndexUnique, TypeOK
  <2>4. CASE d = doc /\ e # doc
    BY <2>1, <2>4, <1>1, <1>3, <1>4, <1>6, <1>7 DEF TypeOK
  <2>5. CASE d # doc /\ e = doc
    BY <2>1, <2>5, <1>1, <1>3, <1>4, <1>6, <1>7 DEF TypeOK
  <2> QED BY <2>2, <2>3, <2>4, <2>5
<1>10. \A d \in Docs : d \notin marked' => rows'[d] = {}
  BY <1>1, <1>4 DEF IndexInv, TypeOK
<1>11. IndexInv'
  BY <1>1, <1>5, <1>8, <1>9, <1>10 DEF IndexInv, Writing, Storing
<1> QED BY <1>4, <1>5, <1>11

\* The steps' own typing, but for the records (Parse), next_index (StartRun,
\* PgStore) and the chunk rows (PgStore), which IndexInv speaks for.
LEMMA TypeStep ==
  ASSUME TypeOK, IndexInv, Next PROVE TypeOK'
<1> USE CorpusIngestAssumption
    DEF TypeOK, Docs, Kinds, store, settings, run, delete, patch, bounds, Fault,
        Fail, Request
<1>1. ASSUME NEW k \in Kinds, StartRun(k) PROVE TypeOK'
  <2>1. next' \in Nat
    BY <1>1, IndexStart
  <2> QED BY <1>1, <2>1 DEF StartRun
<1>2. ASSUME NEW f \in Files, Take(f) PROVE TypeOK'
  BY <1>2 DEF Take, Taken
<1>26. ASSUME NEW f \in Files, TakeFails(f) PROVE TypeOK'
  BY <1>26 DEF TakeFails, Taken
<1>3. CASE EsDelete
  BY <1>3 DEF EsDelete
<1>4. CASE EsDeleteFails
  <2>1. PICK left \in SUBSET es[doc] : es' = [es EXCEPT ![doc] = left]
    BY <1>4 DEF EsDeleteFails
  <2>3. es' \in [Docs -> SUBSET ChunkType] /\ torn' \subseteq Docs
    BY <1>4, <2>1 DEF EsDeleteFails
  <2>2. faults' \in 0..MaxFaults
    BY <1>4 DEF EsDeleteFails
  <2> QED BY <1>4, <2>2, <2>3 DEF EsDeleteFails
<1>5. CASE PgDelete
  BY <1>5 DEF PgDelete
<1>6. CASE PgDeleteFails
  BY <1>6 DEF PgDeleteFails
<1>7. CASE Parse
  <2>1. /\ doc \in Docs /\ disk[doc.file] \in Versions /\ config \in Configs
        /\ next \in Nat
    BY <1>7 DEF Parse
  <2>2. Records(disk[doc.file], config, next) \subseteq ChunkType
    BY <2>1, RecordsAreNumbered
  <2> QED BY <1>7, <2>1, <2>2 DEF Parse
<1>8. CASE StageFails
  BY <1>8 DEF StageFails
<1>9. CASE EsStore
  BY <1>9 DEF EsStore, Overwrite
<1>10. CASE EsStoreFails
  <2>1. PICK part \in SUBSET chunks : es' = [es EXCEPT ![doc] = Overwrite(@, part)]
    BY <1>10 DEF EsStoreFails
  <2>2. es' \in [Docs -> SUBSET ChunkType]
    BY <2>1 DEF Overwrite
  <2>3. faults' \in 0..MaxFaults
    BY <1>10 DEF EsStoreFails
  <2> QED BY <1>10, <2>2, <2>3 DEF EsStoreFails
<1>11. CASE PgStore
  <2>1. next' \in Nat /\ rows' \in [Docs -> SUBSET ChunkType]
    BY <1>11, IndexPgStore
  <2> QED BY <1>11, <2>1 DEF PgStore
<1>12. CASE PgStoreFails
  BY <1>12 DEF PgStoreFails
<1>13. CASE EndRun
  BY <1>13 DEF EndRun
<1>14. CASE ClearStale
  <2>1. faults' = faults \/ (faults < MaxFaults /\ faults' = faults + 1)
    BY <1>14 DEF ClearStale
  <2>2. faults' \in 0..MaxFaults
    BY <2>1
  <2>3. stale' \in BOOLEAN
    BY <1>14 DEF ClearStale
  <2> QED BY <1>14, <2>2, <2>3 DEF ClearStale
<1>15. ASSUME NEW f \in Files, NEW v \in Versions, Upload(f, v) PROVE TypeOK'
  BY <1>15 DEF Upload
<1>16. ASSUME NEW D \in SUBSET marked, NEW remove \in BOOLEAN, DeleteList(D, remove)
       PROVE  TypeOK'
  BY <1>16 DEF DeleteList
<1>17. CASE DeleteEs
  <2>1. es' \in [Docs -> SUBSET ChunkType]
    BY <1>17 DEF DeleteEs
  <2> QED BY <1>17, <2>1 DEF DeleteEs
<1>27. CASE DeleteEsFails
  <2>1. faults' \in 0..MaxFaults
    BY <1>27 DEF DeleteEsFails
  <2>2. es' \in [Docs -> SUBSET ChunkType]
    <3>1. PICK lost \in SUBSET UNION {{<<d, c>> : c \in es[d]} : d \in delDocs} :
            LET left == [d \in Docs |-> {c \in es[d] : <<d, c>> \notin lost}]
            IN  /\ es' = left
                /\ torn' = torn \cup {d \in delDocs \cap marked : left[d] # es[d]}
      BY <1>27 DEF DeleteEsFails
    <3> QED BY <3>1
  <2>3. torn' \subseteq Docs
    BY <1>27 DEF DeleteEsFails
  <2> QED BY <1>27, <2>1, <2>2, <2>3 DEF DeleteEsFails
<1>18. CASE DeletePg
  BY <1>18 DEF DeletePg
<1>19. CASE DeletePgFails
  BY <1>19 DEF DeletePgFails
<1>20. CASE Unlink
  BY <1>20 DEF Unlink
<1>21. CASE PatchPersist
  BY <1>21 DEF PatchPersist
<1>22. CASE PatchFlag
  BY <1>22 DEF PatchFlag
<1>23. CASE PatchFails
  BY <1>23 DEF PatchFails
<1>24. ASSUME NEW g \in Configs, PatchApply(g) PROVE TypeOK'
  BY <1>24 DEF PatchApply
<1>25. CASE Kill
  <2>1. faults' \in 0..MaxFaults /\ torn' \subseteq Docs
    BY <1>25 DEF Kill
  <2> QED BY <1>25, <2>1 DEF Kill
<1> HIDE DEF TypeOK, Docs, Kinds, store, settings, run, delete, patch, bounds, Fault,
             Fail, Request
<1> QED
  BY <1>1, <1>2, <1>3, <1>4, <1>5, <1>6, <1>7, <1>8, <1>9, <1>10,
     <1>11, <1>12, <1>13, <1>14, <1>15, <1>16, <1>17, <1>18, <1>19,
     <1>20, <1>21, <1>22, <1>23, <1>24, <1>25, <1>26, <1>27
     DEF Next, RunStep, RequestStep

\* Every step keeps the indices unique and next_index above them.
LEMMA IndexStep ==
  ASSUME TypeOK, IndexInv, Next PROVE IndexInv'
<1> USE DEF store, run, Fail
<1>1. ASSUME NEW k \in Kinds, StartRun(k) PROVE IndexInv'
  BY <1>1, IndexStart
<1>2. ASSUME NEW f \in Files, Take(f) PROVE IndexInv'
  BY <1>2 DEF Take, Taken, IndexInv, Writing, Storing, Running, IndexUnique
<1>3. CASE PgDelete
  <2>1. /\ {doc} \in SUBSET Docs /\ marked' = marked \ {doc}
        /\ rows' = [d \in Docs |-> IF d \in {doc} THEN {} ELSE rows[d]]
        /\ pc' = "parse" /\ UNCHANGED <<doc, chunks, next>>
    BY <1>3 DEF PgDelete, TypeOK
  <2>2. \A d \in Docs : rows'[d] \subseteq rows[d]
    BY <2>1
  <2>3. /\ \A d \in Docs : d \notin marked' => rows'[d] = {}
        /\ pc' \in Writing => doc' \notin marked'
        /\ Running' => \A d \in Docs : \A c \in rows'[d] : c.index < next'
    BY <1>3, <2>1, <2>2 DEF IndexInv, Running, PgDelete
  <2>4. IndexUnique'
    BY <2>2 DEF IndexInv, IndexUnique
  <2> QED BY <2>1, <2>2, <2>3, <2>4 DEF IndexInv, Storing
<1>4. CASE Parse
  BY <1>4, IndexParse
<1>5. CASE PgStore
  BY <1>5, IndexPgStore
<1>6. CASE EsStore \/ EsStoreFails \/ PgStoreFails
  BY <1>6 DEF EsStore, EsStoreFails, PgStoreFails, IndexInv, Writing, Storing,
          Running, IndexUnique
<1>7. CASE EsDelete \/ EsDeleteFails \/ PgDeleteFails \/ StageFails \/ EndRun
  BY <1>7 DEF EsDelete, EsDeleteFails, PgDeleteFails, StageFails, EndRun, IndexInv,
          Writing, Storing, Running, IndexUnique
<1>8. CASE DeletePg
  <2>1. delDocs \in SUBSET Docs
    BY DEF TypeOK
  <2> QED BY <1>8, <2>1, IndexDelete DEF DeletePg
<1>11. ASSUME NEW f \in Files, TakeFails(f) PROVE IndexInv'
  BY <1>11 DEF TakeFails, Taken, IndexInv, Writing, Storing, Running, IndexUnique
<1>9. CASE Kill
  BY <1>9 DEF Kill, IndexInv, Writing, Storing, Running, IndexUnique
<1>10. CASE \/ ClearStale \/ DeleteEs \/ DeletePgFails \/ Unlink
            \/ DeleteEsFails \/ PatchPersist \/ PatchFlag \/ PatchFails
            \/ \E f \in Files, v \in Versions : Upload(f, v)
            \/ \E D \in SUBSET marked, remove \in BOOLEAN : DeleteList(D, remove)
            \/ \E g \in Configs : PatchApply(g)
  <2>1. UNCHANGED <<marked, rows, pc, doc, chunks, next>>
    BY <1>10 DEF ClearStale, DeleteEs, DeleteEsFails, DeletePgFails, Unlink,
                 PatchPersist, PatchFlag, PatchFails, Upload, DeleteList, PatchApply
  <2> QED BY <2>1, IndexFrame
<1> QED
  BY <1>1, <1>2, <1>3, <1>4, <1>5, <1>6, <1>7, <1>8, <1>9, <1>10,
     <1>11
     DEF Next, RunStep, RequestStep

\* Types and indices together are an invariant.
LEMMA IndexInductive == Spec => [](TypeOK /\ IndexInv)
<1>1. Init => TypeOK /\ IndexInv
  <2> SUFFICES ASSUME Init PROVE TypeOK /\ IndexInv
    OBVIOUS
  <2>1. TypeOK
    <3> USE DEF Init
    <3>1. rows \in [Docs -> SUBSET ChunkType] /\ es \in [Docs -> SUBSET ChunkType]
      OBVIOUS
    <3>2. runs \in 0..MaxRuns /\ requests \in 0..MaxRequests /\ faults \in 0..MaxFaults
      BY CorpusIngestAssumption
    <3> QED BY <3>1, <3>2 DEF TypeOK, Kinds
  <2>2. \A d \in Docs : \A c \in rows[d] : c.index < 0
    BY DEF Init
  <2>3. IndexInv
    BY <2>2 DEF Init, IndexInv, Writing, Storing, Running, IndexUnique
  <2> QED BY <2>1, <2>3
<1>2. TypeOK /\ IndexInv /\ [Next]_vars => (TypeOK /\ IndexInv)'
  <2>1. CASE Next
    BY <2>1, TypeStep, IndexStep
  <2>2. CASE UNCHANGED vars
    <3> USE <2>2 DEF vars, store, settings, run, delete, patch, bounds
    <3>1. TypeOK => TypeOK'
      BY DEF TypeOK
    <3>2. IndexInv => IndexInv'
      BY IndexFrame
    <3> QED BY <3>1, <3>2
  <2> QED BY <2>1, <2>2
<1> QED BY <1>1, <1>2, PTL DEF Spec

\* Every step of a run or a request leaves the stores, the settings and the
\* threads in the states the model gives them.
THEOREM CorpusTypes == Spec => []TypeOK
BY IndexInductive, PTL

\* No two chunk rows ever share an original_index, for any corpus and faults.
THEOREM IndicesAreUnique == Spec => []IndexUnique
<1>1. IndexInv => IndexUnique
  BY DEF IndexInv
<1> QED BY <1>1, IndexInductive, PTL

-----------------------------------------------------------------------------
(* The two stores agree *)

\* A delete request and a reingest are not at work together.
DeletesApart == DeletesDuring \subseteq {"plain"}

\* Between its two writes a run's chunks are in Elasticsearch; between its two
\* deletions a request's documents are still marked, so that neither works on
\* the other's document.
StoreInv ==
  /\ MarkedIsSearchable
  /\ pc = "pg_store" => chunks \subseteq es[doc]
  /\ pc \in {"es_delete", "pg_delete"} => kind = "reingest"
  /\ delPc \in {"es", "pg"} => delDocs \subseteq marked /\ (Running => kind = "plain")

\* What leaves the stores and the threads' places in them alone.
LEMMA StoreFrame ==
  ASSUME StoreInv,
         UNCHANGED <<marked, rows, es, torn, kind, pc, doc, chunks, delPc, delDocs>>
  PROVE  StoreInv'
BY DEF StoreInv, MarkedIsSearchable, Deleting, Running

\* Every step keeps the stores in agreement.
LEMMA StoreStep ==
  ASSUME DeletesApart, TypeOK, IndexInv, StoreInv, Next PROVE StoreInv'
<1> USE DEF store, run, delete, Fail, StoreInv, MarkedIsSearchable, Deleting, Running
<1>1. ASSUME NEW k \in Kinds, StartRun(k) PROVE StoreInv'
  BY <1>1 DEF StartRun, DeletesApart, Kinds
<1>2. ASSUME NEW f \in Files, Take(f) \/ TakeFails(f) PROVE StoreInv'
  BY <1>2 DEF Take, TakeFails
<1>3. CASE EsDelete
  <2>1. /\ doc \in Docs /\ pc' = "pg_delete"
        /\ \A d \in Docs : d # doc => es'[d] = es[d]
        /\ UNCHANGED <<marked, rows, torn, kind, doc, chunks, delPc, delDocs>>
    BY <1>3 DEF EsDelete, TypeOK
  <2> QED BY <1>3, <2>1 DEF EsDelete, TypeOK
<1>4. CASE EsDeleteFails
  <2>1. /\ doc \in Docs /\ kind = "reingest" /\ pc' = "next_file"
        /\ \A d \in Docs : d # doc => es'[d] = es[d]
        /\ UNCHANGED <<marked, rows, kind, doc, chunks, delPc, delDocs>>
    BY <1>4 DEF EsDeleteFails, TypeOK
  <2>2. torn \subseteq torn' /\ (es'[doc] = es[doc] \/ {doc} \cap marked \subseteq torn')
    BY <1>4 DEF EsDeleteFails, TypeOK
  <2>3. marked \subseteq Docs /\ Running
    BY <1>4, <2>1 DEF EsDeleteFails, TypeOK
  <2> QED BY <1>4, <2>1, <2>2, <2>3 DEF EsDeleteFails
<1>5. CASE PgDelete
  <2>1. /\ doc \in Docs /\ kind = "reingest" /\ delPc \notin {"es", "pg"}
        /\ marked' = marked \ {doc} /\ torn' = torn \ {doc} /\ pc' = "parse"
        /\ \A d \in Docs : d # doc => rows'[d] = rows[d]
        /\ UNCHANGED <<es, kind, doc, chunks, delPc, delDocs>>
    BY <1>5 DEF PgDelete, TypeOK
  <2> QED BY <1>5, <2>1 DEF PgDelete, TypeOK
<1>6. CASE PgDeleteFails
  BY <1>6 DEF PgDeleteFails
<1>7. CASE Parse
  <2>1. /\ doc \in Docs /\ rows[doc] = {} /\ pc = "parse"
        /\ pc' \in {"next_file", "es_store"}
        /\ marked' \in {marked, marked \cup {doc}} /\ rows' = rows
        /\ UNCHANGED <<es, torn, kind, doc, delPc, delDocs>>
    BY <1>7 DEF Parse, IndexInv, Writing, TypeOK
  <2> QED BY <2>1
<1>8. CASE StageFails
  BY <1>8 DEF StageFails
<1>9. CASE EsStore
  <2>1. /\ doc \in Docs /\ doc \notin marked /\ pc' = "pg_store"
        /\ es' = [es EXCEPT ![doc] = Overwrite(es[doc], chunks)]
        /\ UNCHANGED <<marked, rows, torn, kind, doc, chunks, delPc, delDocs>>
    BY <1>9 DEF EsStore, IndexInv, Writing, TypeOK
  <2>2. chunks \subseteq es'[doc] /\ \A d \in marked : es'[d] = es[d]
    BY <2>1 DEF Overwrite, TypeOK
  <2> QED BY <1>9, <2>1, <2>2 DEF EsStore
<1>10. CASE EsStoreFails
  <2>1. /\ doc \in Docs /\ doc \notin marked /\ pc' \in {"next_file", "es_store"}
        /\ \E new : es' = [es EXCEPT ![doc] = new]
        /\ UNCHANGED <<marked, rows, torn, kind, doc, chunks, delPc, delDocs>>
    BY <1>10 DEF EsStoreFails, IndexInv, Writing, TypeOK
  <2>2. \A d \in marked : es'[d] = es[d]
    BY <2>1 DEF TypeOK
  <2> QED BY <1>10, <2>1, <2>2 DEF EsStoreFails
<1>11. CASE PgStore
  <2>1. /\ doc \in Docs /\ chunks \subseteq es[doc] /\ pc' = "next_file"
        /\ marked' = marked \cup {doc}
        /\ rows' = [rows EXCEPT ![doc] = chunks]
        /\ UNCHANGED <<es, torn, kind, doc, chunks, delPc, delDocs>>
    BY <1>11, IndexPgStore DEF PgStore, TypeOK
  <2> QED BY <1>11, <2>1 DEF PgStore, TypeOK
<1>12. CASE PgStoreFails
  BY <1>12 DEF PgStoreFails
<1>13. CASE EndRun
  BY <1>13 DEF EndRun
<1>14. ASSUME NEW D \in SUBSET marked, NEW remove \in BOOLEAN, DeleteList(D, remove)
       PROVE  StoreInv'
  BY <1>14 DEF DeleteList, DeletesApart
<1>15. CASE DeleteEs
  <2>1. delPc = "es" /\ delDocs \subseteq marked /\ (Running => kind = "plain")
    BY <1>15 DEF DeleteEs
  <2>2. UNCHANGED <<marked, rows, torn, kind, pc, doc, chunks, delDocs>>
    BY <1>15 DEF DeleteEs
  <2>3. delPc' = "pg" /\ es' = [d \in Docs |-> IF d \in delDocs THEN {} ELSE es[d]]
    BY <1>15 DEF DeleteEs
  <2>4. pc = "pg_store" => doc \in Docs /\ doc \notin delDocs
    BY <2>1 DEF IndexInv, Writing, TypeOK
  <2>5. \A d \in Docs : d \notin delDocs => es'[d] = es[d]
    BY <2>3
  <2>6. marked \subseteq Docs
    BY DEF TypeOK
  <2> QED BY <2>1, <2>2, <2>3, <2>4, <2>5, <2>6
<1>21. CASE DeleteEsFails
  <2>1. delPc = "es" /\ delDocs \subseteq marked /\ delPc' = "idle"
    BY <1>21 DEF DeleteEsFails
  <2>2. UNCHANGED <<marked, rows, kind, pc, doc, chunks, delDocs>>
    BY <1>21 DEF DeleteEsFails
  <2>3. /\ torn \subseteq torn' /\ marked \subseteq Docs
        /\ \A d \in Docs : es'[d] = es[d] \/ d \in torn'
        /\ \A d \in Docs : d \notin delDocs => es'[d] = es[d]
    <3>1. PICK lost \in SUBSET UNION {{<<d, c>> : c \in es[d]} : d \in delDocs} :
            LET left == [d \in Docs |-> {c \in es[d] : <<d, c>> \notin lost}]
            IN  /\ es' = left
                /\ torn' = torn \cup {d \in delDocs \cap marked : left[d] # es[d]}
      BY <1>21 DEF DeleteEsFails
    <3>2. \A d \in Docs : es'[d] = {c \in es[d] : <<d, c>> \notin lost}
      BY <3>1
    <3>3. ASSUME NEW d \in Docs, d \notin delDocs PROVE es'[d] = es[d]
      <4>1. \A c : <<d, c>> \notin lost
        BY <3>1, <3>3
      <4> QED BY <3>2, <4>1
    <3>4. \A d \in delDocs : es'[d] = es[d] \/ d \in torn'
      BY <2>1, <3>1, <3>2 DEF TypeOK
    <3> QED BY <3>1, <3>3, <3>4 DEF TypeOK
  <2>4. pc = "pg_store" => doc \in Docs /\ doc \notin delDocs
    BY <2>1 DEF IndexInv, Writing, TypeOK
  <2> QED BY <2>1, <2>2, <2>3, <2>4
<1>16. CASE DeletePg
  <2>1. /\ marked' = marked \ delDocs /\ torn' = torn \ delDocs
        /\ \A d \in Docs : d \notin delDocs => rows'[d] = rows[d]
        /\ marked \subseteq Docs /\ delPc' \in {"unlink", "idle"}
        /\ UNCHANGED <<es, kind, pc, doc, chunks, delDocs>>
    BY <1>16 DEF DeletePg, TypeOK
  <2> QED BY <1>16, <2>1
<1>17. CASE DeletePgFails
  BY <1>17 DEF DeletePgFails
<1>18. CASE Unlink
  BY <1>18 DEF Unlink
<1>19. CASE Kill
  BY <1>19 DEF Kill
<1>20. CASE \/ ClearStale \/ PatchPersist \/ PatchFlag \/ PatchFails
            \/ \E f \in Files, v \in Versions : Upload(f, v)
            \/ \E g \in Configs : PatchApply(g)
  <2>1. UNCHANGED <<marked, rows, es, torn, kind, pc, doc, chunks, delPc, delDocs>>
    BY <1>20 DEF ClearStale, PatchPersist, PatchFlag, PatchFails, Upload, PatchApply
  <2> QED BY <2>1, StoreFrame
<1> HIDE DEF store, run, delete, Fail, StoreInv, MarkedIsSearchable, Deleting, Running
<1> QED
  BY <1>1, <1>2, <1>3, <1>4, <1>5, <1>6, <1>7, <1>8, <1>9, <1>10,
     <1>11, <1>12, <1>13, <1>14, <1>15, <1>16, <1>17, <1>18, <1>19,
     <1>20, <1>21
     DEF Next, RunStep, RequestStep

\* If deletes keep apart from reingests, a document that lists has all of its
\* chunks in both stores, whichever calls fail and wherever the process dies,
\* unless a deletion that did not come to its end took some of them.
THEOREM StoresAgree ==
  ASSUME DeletesApart PROVE Spec => []MarkedIsSearchable
<1>1. Init => StoreInv
  BY DEF Init, StoreInv, MarkedIsSearchable
<1>2. TypeOK /\ IndexInv /\ StoreInv /\ [Next]_vars => StoreInv'
  <2>1. CASE Next
    BY <2>1, StoreStep
  <2>2. CASE UNCHANGED vars
    BY <2>2, StoreFrame DEF vars, store, run, delete
  <2> QED BY <2>1, <2>2
<1>3. StoreInv => MarkedIsSearchable
  BY DEF StoreInv
<1> QED BY <1>1, <1>2, <1>3, IndexInductive, PTL DEF Spec

-----------------------------------------------------------------------------
(* What a plain run failed, the next one takes again *)

\* The phases in which a run is at a document.
AtDocument == {"es_delete", "pg_delete", "parse", "es_store", "pg_store"}

\* A run is past the files it failed and at none that it has still to take: it
\* never comes back to a file it failed and marks it after all.
RetryInv ==
  /\ FailedIsRetried
  /\ pc \in {"es_delete", "pg_delete"} => kind = "reingest"
  /\ \A d \in failed : d.file \notin work
  /\ pc \in AtDocument => doc.file \notin work /\ doc \notin failed

\* What leaves the run and the documents table alone, or empties that.
LEMMA RetryFrame ==
  ASSUME RetryInv, marked' \subseteq marked,
         UNCHANGED <<kind, pc, work, doc, known, failed>>
  PROVE  RetryInv'
BY DEF RetryInv, FailedIsRetried

\* Every step keeps failed files unmarked in a plain run.
LEMMA RetryStep ==
  ASSUME TypeOK, IndexInv, RetryInv, Next PROVE RetryInv'
<1> USE DEF store, run, Fail, RetryInv, FailedIsRetried, AtDocument
<1>1. ASSUME NEW k \in Kinds, StartRun(k) PROVE RetryInv'
  BY <1>1 DEF StartRun
<1>2. ASSUME NEW f \in Files, Take(f) PROVE RetryInv'
  <2>1. pc = "next_file" /\ work' = work \ {f} /\ f \in work
        /\ known \subseteq known' /\ UNCHANGED <<marked, kind, failed>>
    BY <1>2 DEF Take, Taken
  <2>2. CASE disk[f] = None
    BY <1>2, <2>1, <2>2 DEF Take
  <2>3. CASE disk[f] # None
    <3>1. /\ doc'.file = f
          /\ pc' = IF kind = "reingest" THEN "es_delete"
                   ELSE IF doc' \in marked THEN "next_file" ELSE "parse"
      BY <1>2, <2>3 DEF Take, Taken
    <3>2. doc' \notin failed
      BY <2>1, <3>1
    <3> QED BY <2>1, <3>1, <3>2
  <2> QED BY <2>2, <2>3
<1>10. ASSUME NEW f \in Files, TakeFails(f) PROVE RetryInv'
  <2> DEFINE d == [file |-> f, version |-> disk[f]]
  <2>1. /\ pc' = "next_file" /\ work' = work \ {f} /\ d.file = f
        /\ known' = known \cup ({d} \cap marked) /\ failed' = failed \cup {d}
        /\ UNCHANGED <<marked, kind>>
    BY <1>10 DEF TakeFails, Taken
  <2> HIDE DEF d
  <2> QED BY <2>1
<1>3. CASE PgDelete \/ EsDelete
  BY <1>3 DEF PgDelete, EsDelete
<1>4. CASE EsDeleteFails \/ PgDeleteFails
  BY <1>4 DEF EsDeleteFails, PgDeleteFails
<1>5. CASE Parse
  BY <1>5 DEF Parse
<1>6. CASE StageFails \/ EsStoreFails \/ PgStoreFails
  <2>1. doc \notin marked
    BY <1>6 DEF StageFails, EsStoreFails, PgStoreFails, IndexInv, Writing
  <2> QED BY <1>6, <2>1 DEF StageFails, EsStoreFails, PgStoreFails
<1>7. CASE EsStore \/ PgStore \/ EndRun
  BY <1>7 DEF EsStore, PgStore, EndRun
<1>8. CASE Kill
  BY <1>8 DEF Kill
<1>9. CASE \/ ClearStale \/ DeletePg \/ DeletePgFails \/ Unlink
           \/ DeleteEs \/ DeleteEsFails
           \/ \E f \in Files, v \in Versions : Upload(f, v)
           \/ \E D \in SUBSET marked, remove \in BOOLEAN : DeleteList(D, remove)
           \/ PatchPersist \/ PatchFlag \/ PatchFails
           \/ \E g \in Configs : PatchApply(g)
  <2>1. marked' \subseteq marked /\ UNCHANGED <<kind, pc, work, doc, known, failed>>
    BY <1>9 DEF ClearStale, DeletePg, DeletePgFails, Unlink, DeleteEs, DeleteEsFails,
                Upload, DeleteList, PatchPersist, PatchFlag, PatchFails, PatchApply
  <2> QED BY <2>1, RetryFrame
<1> HIDE DEF store, run, Fail, RetryInv, FailedIsRetried, AtDocument
<1> QED
  BY <1>1, <1>2, <1>3, <1>4, <1>5, <1>6, <1>7, <1>8, <1>9, <1>10
     DEF Next, RunStep, RequestStep

\* Whatever call a plain run failed a file at, no marker hides that file from
\* the run after it, but the one it had when this run came to it.
THEOREM FailuresAreRetried == Spec => []FailedIsRetried
<1>1. Init => RetryInv
  BY DEF Init, RetryInv, FailedIsRetried, AtDocument
<1>2. TypeOK /\ IndexInv /\ RetryInv /\ [Next]_vars => RetryInv'
  <2>1. CASE Next
    BY <2>1, RetryStep
  <2>2. CASE UNCHANGED vars
    BY <2>2, RetryFrame DEF vars, store, run
  <2> QED BY <2>1, <2>2
<1>3. RetryInv => FailedIsRetried
  BY DEF RetryInv
<1> QED BY <1>1, <1>2, <1>3, IndexInductive, PTL DEF Spec

-----------------------------------------------------------------------------
(* A reingest applies the settings *)

\* What a reingest has behind it: the documents it took and did not fail, but
\* for the one at hand.
Behind == {d \in handled \ failed : pc = "next_file" \/ pc = "done" \/ d # doc}

\* Nobody changes the settings under a run, or while its hook is pending; so
\* what is behind a reingest is chunked under those in force, or under those a
\* PATCH is replacing, until the flag is up.
ApplyInv ==
  /\ patchPc \in {"idle", "persist", "flag"}
  /\ Running \/ hook => patchPc = "idle"
  /\ pc \in Storing => \A c \in chunks : c.config = config
  /\ kind = "reingest" /\ (Running \/ (pc = "done" /\ (hook \/ ~stale))) =>
       \A d \in Behind : \A c \in rows[d] :
         c.config = IF patchPc = "idle" THEN config ELSE before

\* What leaves the run and the settings alone, or deletes rows.
LEMMA ApplyFrame ==
  ASSUME ApplyInv, \A d \in Docs : rows'[d] \subseteq rows[d], TypeOK,
         UNCHANGED <<settings, run, patch>>
  PROVE  ApplyInv'
BY DEF ApplyInv, Behind, Running, Storing, settings, run, patch, TypeOK

\* Every step keeps what a reingest has behind it under the settings in force.
LEMMA ApplyStep ==
  ASSUME ~PatchesDuringRuns, TypeOK, IndexInv, ApplyInv, Next PROVE ApplyInv'
<1> USE DEF store, run, settings, patch, Fail, ApplyInv, Behind, Running, Storing
<1>1. ASSUME NEW k \in Kinds, StartRun(k) PROVE ApplyInv'
  BY <1>1 DEF StartRun
<1>2. ASSUME NEW f \in Files, Take(f) PROVE ApplyInv'
  BY <1>2 DEF Take, Taken
<1>17. ASSUME NEW f \in Files, TakeFails(f) PROVE ApplyInv'
  BY <1>17 DEF TakeFails, Taken
<1>3. CASE EsDelete \/ EsStore
  BY <1>3 DEF EsDelete, EsStore
<1>4. CASE EsDeleteFails \/ PgDeleteFails \/ StageFails
  BY <1>4 DEF EsDeleteFails, PgDeleteFails, StageFails
<1>5. CASE EsStoreFails \/ PgStoreFails
  BY <1>5 DEF EsStoreFails, PgStoreFails
<1>6. CASE PgDelete
  <2>1. \A d \in Docs : rows'[d] \subseteq rows[d]
    BY <1>6 DEF PgDelete, TypeOK
  <2> QED BY <1>6, <2>1 DEF PgDelete, TypeOK
<1>7. CASE Parse
  <2> DEFINE C == Records(disk[doc.file], config, next)
  <2>1. /\ doc \in Docs /\ pc = "parse" /\ disk[doc.file] \in Versions
        /\ config \in Configs /\ next \in Nat /\ patchPc = "idle" /\ rows[doc] = {}
        /\ UNCHANGED <<kind, doc, handled, failed, hook, stale, config, patchPc, before>>
    BY <1>7 DEF Parse, TypeOK, Docs, IndexInv, Writing
  <2>2. \A c \in C : c.config = config
    BY <2>1, RecordsAreNumbered
  <2>3. rows' = rows
    BY <1>7, <2>1 DEF Parse, TypeOK
  <2>4. (pc' = "es_store" /\ chunks' = C) \/ pc' = "next_file"
    BY <1>7 DEF Parse
  <2> HIDE DEF C
  <2> QED BY <2>1, <2>2, <2>3, <2>4
<1>8. CASE PgStore
  <2>1. /\ doc \in Docs /\ patchPc = "idle" /\ pc' = "next_file"
        /\ rows' = [rows EXCEPT ![doc] = chunks]
        /\ \A c \in chunks : c.config = config
        /\ UNCHANGED <<kind, doc, handled, failed, hook, stale, config, patchPc, before>>
    BY <1>8, IndexPgStore DEF PgStore, TypeOK
  <2> QED BY <1>8, <2>1 DEF PgStore, TypeOK
<1>9. CASE EndRun
  BY <1>9 DEF EndRun
<1>10. CASE ClearStale
  BY <1>10 DEF ClearStale
<1>11. ASSUME NEW g \in Configs, PatchApply(g) PROVE ApplyInv'
  BY <1>11 DEF PatchApply
<1>12. CASE PatchPersist
  BY <1>12 DEF PatchPersist
<1>13. CASE PatchFlag
  <2>1. /\ patchPc = "flag" /\ ~Running /\ ~hook /\ patchPc' = "idle"
        /\ stale' = (stale \/ (config # before /\ marked # {}))
        /\ UNCHANGED <<rows, config, before, kind, pc, doc, chunks, handled, failed, hook>>
    BY <1>13 DEF PatchFlag
  <2>2. CASE marked = {}
    <3>1. \A d \in handled : rows[d] = {}
      BY <2>2 DEF TypeOK, IndexInv
    <3> QED BY <2>1, <3>1
  <2>3. CASE marked # {}
    BY <2>1, <2>3
  <2> QED BY <2>2, <2>3
<1>14. CASE PatchFails
  BY <1>14 DEF PatchFails
<1>15. CASE Kill
  BY <1>15 DEF Kill
<1>16. CASE \/ DeletePg \/ DeletePgFails \/ Unlink \/ DeleteEs
            \/ DeleteEsFails
            \/ \E f \in Files, v \in Versions : Upload(f, v)
            \/ \E D \in SUBSET marked, remove \in BOOLEAN : DeleteList(D, remove)
  <2>1. /\ \A d \in Docs : rows'[d] \subseteq rows[d]
        /\ UNCHANGED <<settings, run, patch>>
    BY <1>16 DEF DeletePg, DeletePgFails, Unlink, DeleteEs, DeleteEsFails,
                Upload, DeleteList
  <2> QED BY <2>1, ApplyFrame
<1> HIDE DEF store, run, settings, patch, Fail, ApplyInv, Behind, Running, Storing
<1> QED
  BY <1>1, <1>2, <1>3, <1>4, <1>5, <1>6, <1>7, <1>8, <1>9, <1>10,
     <1>11, <1>12, <1>13, <1>14, <1>15, <1>16, <1>17
     DEF Next, RunStep, RequestStep

\* If no settings PATCH overlaps a run, a finished reingest has applied the
\* settings in force to every document it did not fail, or the flag is up.
THEOREM ReingestsApplySettings ==
  ASSUME ~PatchesDuringRuns PROVE Spec => []ReingestApplies
<1>1. Init => ApplyInv
  BY DEF Init, ApplyInv, Running, Storing, Behind
<1>2. TypeOK /\ IndexInv /\ ApplyInv /\ [Next]_vars => ApplyInv'
  <2>1. CASE Next
    BY <2>1, ApplyStep
  <2>2. CASE UNCHANGED vars
    BY <2>2, ApplyFrame DEF vars, store
  <2> QED BY <2>1, <2>2
<1>3. ApplyInv => ReingestApplies
  BY DEF ApplyInv, ReingestApplies, Applied, Behind, Running
<1> QED BY <1>1, <1>2, <1>3, IndexInductive, PTL DEF Spec
=============================================================================
