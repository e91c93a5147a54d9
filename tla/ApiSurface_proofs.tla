-------------------------- MODULE ApiSurface_proofs --------------------------
(***************************************************************************)
(* Proofs about what documents yield (ApiSurface) and about the two        *)
(* components that live on it, the local backend and test generation.      *)
(* Their state is separate, and so are their invariants: BackendInv and    *)
(* GenInv, each inductive.                                                 *)
(***************************************************************************)
EXTENDS LocalBackend, Generation, FiniteSetTheorems, FunctionTheorems, TLAPS

-----------------------------------------------------------------------------
(* Positions of a sequence *)

\* The place of a position among those of P grows with it.
LEMMA RankGrows ==
    ASSUME NEW P \in SUBSET Int, IsFiniteSet(P)
    PROVE  /\ \A i \in P : Cardinality({j \in P : j <= i}) \in 1 .. Cardinality(P)
           /\ \A i, k \in P : i < k =>
                Cardinality({j \in P : j <= i}) < Cardinality({j \in P : j <= k})
<1> DEFINE Upto(i) == {j \in P : j <= i}
<1>1. \A i : Upto(i) \in SUBSET P
    OBVIOUS
<1>2. \A i : /\ IsFiniteSet(Upto(i)) /\ Cardinality(Upto(i)) \in Nat
             /\ Cardinality(Upto(i)) <= Cardinality(P) /\ Cardinality(P) \in Nat
    BY <1>1, FS_Subset, FS_CardinalityType
<1>3. \A i \in P : Cardinality(Upto(i)) # 0
    <2>1. \A i \in P : i \in Upto(i)
        OBVIOUS
    <2> HIDE DEF Upto
    <2> QED
        BY <1>2, <2>1, FS_EmptySet
<1>4. ASSUME NEW i \in P, NEW k \in P, i < k
      PROVE  Cardinality(Upto(i)) < Cardinality(Upto(k))
    <2>0. \A j \in P : j <= i => j <= k
        BY <1>4
    <2>a. Upto(i) \subseteq Upto(k)
        BY <2>0
    <2>b. k <= k /\ ~(k <= i)
        BY <1>4
    <2>1. Upto(i) \in SUBSET Upto(k) /\ k \in Upto(k) /\ k \notin Upto(i)
        BY <2>a, <2>b
    <2> HIDE DEF Upto
    <2>2. Cardinality(Upto(i)) <= Cardinality(Upto(k)) /\ Cardinality(Upto(k)) # Cardinality(Upto(i))
        BY <1>2, <2>1, FS_Subset
    <2> QED
        BY <1>2, <2>2
<1> HIDE DEF Upto
<1>5. \A i \in P : Cardinality(Upto(i)) \in 1 .. Cardinality(P)
    BY <1>2, <1>3
<1> QED
    BY <1>4, <1>5 DEF Upto

\* Nth picks the k-th position of P, and every position of P is picked.
LEMMA NthPicks ==
    ASSUME NEW P \in SUBSET Int, IsFiniteSet(P)
    PROVE  /\ Cardinality(P) \in Nat
           /\ \A k \in 1 .. Cardinality(P) : Nth(P, k) \in P
           /\ \A j, k \in 1 .. Cardinality(P) : j < k => Nth(P, j) < Nth(P, k)
           /\ \A i \in P : \E k \in 1 .. Cardinality(P) : Nth(P, k) = i
<1> DEFINE rank == [i \in P |-> Cardinality({j \in P : j <= i})]
           n == Cardinality(P)
<1>1. n \in Nat
    BY FS_CardinalityType
<1>2. /\ \A i \in P : rank[i] \in 1 .. n
      /\ \A i, k \in P : i < k => rank[i] < rank[k]
    BY RankGrows
<1>3. rank \in [P -> 1 .. n]
    BY <1>2
<1>d. \A i \in P : rank[i] = Cardinality({j \in P : j <= i})
    OBVIOUS
<1> HIDE DEF rank
<1>4. \A i, k \in P : rank[i] = rank[k] => i = k
    <2> SUFFICES ASSUME NEW i \in P, NEW k \in P, rank[i] = rank[k], i # k PROVE FALSE
        OBVIOUS
    <2>1. i < k \/ k < i
        OBVIOUS
    <2> QED
        BY <1>1, <1>2, <2>1
<1>5. rank \in Injection(P, 1 .. n)
    BY <1>3, <1>4, Zenon DEF Injection, IsInjective
<1>6. IsFiniteSet(1 .. n) /\ Cardinality(1 .. n) = n
    BY <1>1, FS_Interval
<1>7. rank \in Surjection(P, 1 .. n)
    BY <1>5, <1>6, FS_Injection
<1>8. \A k \in 1 .. n : \E i \in P : rank[i] = k
    BY <1>7, Zenon DEF Surjection
<1>9. \A k \in 1 .. n : Nth(P, k) \in P /\ rank[Nth(P, k)] = k
    <2> SUFFICES ASSUME NEW k \in 1 .. n PROVE Nth(P, k) \in P /\ rank[Nth(P, k)] = k
        OBVIOUS
    <2>1. \E i \in P : Cardinality({j \in P : j <= i}) = k
        BY <1>8, <1>d
    <2>2. Nth(P, k) \in P /\ Cardinality({j \in P : j <= Nth(P, k)}) = k
        BY <2>1 DEF Nth
    <2> QED
        BY <2>2, <1>d
<1>10. ASSUME NEW j \in 1 .. n, NEW k \in 1 .. n, j < k PROVE Nth(P, j) < Nth(P, k)
    <2>1. Nth(P, j) \in P /\ Nth(P, k) \in P /\ rank[Nth(P, j)] = j /\ rank[Nth(P, k)] = k
        BY <1>9
    <2> DEFINE a == Nth(P, j)  b == Nth(P, k)
    <2>2. a \in P /\ b \in P /\ rank[a] = j /\ rank[b] = k
        BY <2>1
    <2> HIDE DEF a, b
    <2>3. ~(b < a) /\ b # a
        BY <1>2, <1>10, <2>2
    <2>4. a < b
        BY <2>2, <2>3
    <2> QED
        BY <2>4 DEF a, b
<1>11. ASSUME NEW i \in P PROVE \E k \in 1 .. n : Nth(P, k) = i
    <2>1. rank[i] \in 1 .. n
        BY <1>2
    <2> QED
        BY <1>4, <1>9, <2>1
<1> QED
    BY <1>1, <1>9, <1>10, <1>11

\* Keep(s, P) is a sequence of the elements of s at P: each of its elements
\* comes from a position of its own, in order, and each position contributes.
LEMMA KeepPicks ==
    ASSUME NEW T, NEW s \in Seq(T), NEW P \in SUBSET DOMAIN s
    PROVE  /\ Keep(s, P) \in Seq(T)
           /\ \A k \in DOMAIN Keep(s, P) : Nth(P, k) \in P /\ Keep(s, P)[k] = s[Nth(P, k)]
           /\ \A j, k \in DOMAIN Keep(s, P) : j < k => Nth(P, j) < Nth(P, k)
           /\ \A i \in P : \E k \in DOMAIN Keep(s, P) : Nth(P, k) = i
<1>1. DOMAIN s = 1 .. Len(s) /\ Len(s) \in Nat /\ \A i \in DOMAIN s : s[i] \in T
    OBVIOUS
<1>2. P \in SUBSET Int /\ IsFiniteSet(P)
    <2>1. IsFiniteSet(1 .. Len(s))
        BY <1>1, FS_Interval
    <2>2. P \in SUBSET (1 .. Len(s))
        BY <1>1
    <2> QED
        BY <2>1, <2>2, FS_Subset
<1>3. /\ Cardinality(P) \in Nat
      /\ \A k \in 1 .. Cardinality(P) : Nth(P, k) \in P
      /\ \A j, k \in 1 .. Cardinality(P) : j < k => Nth(P, j) < Nth(P, k)
      /\ \A i \in P : \E k \in 1 .. Cardinality(P) : Nth(P, k) = i
    BY <1>2, NthPicks
<1>4. Keep(s, P) \in Seq(T) /\ DOMAIN Keep(s, P) = 1 .. Cardinality(P)
      /\ \A k \in 1 .. Cardinality(P) : Keep(s, P)[k] = s[Nth(P, k)]
    BY <1>1, <1>3 DEF Keep
<1> QED
    BY <1>3, <1>4

-----------------------------------------------------------------------------
(* Lists of endpoints *)

LEMMA NamedIsEntry ==
    ASSUME NEW e \in Entry
    PROVE  Named(e) \in Entry /\ Named(e).path = e.path
BY DEF Named, Entry, Methods

LEMMA KeepIsSeq ==
    ASSUME NEW T, NEW s \in Seq(T), NEW P, P \subseteq DOMAIN s
    PROVE  Keep(s, P) \in Seq(T)
BY KeepPicks

LEMMA FirstOfEachIsSeq ==
    ASSUME NEW s \in Seq(Entry)
    PROVE  FirstOfEach(s) \in Seq(Entry)
<1> DEFINE P == {i \in DOMAIN s : \A j \in 1 .. i - 1 : ~SameOp(s[j], s[i])}
<1>1. P \subseteq DOMAIN s
    OBVIOUS
<1> QED
    BY <1>1, KeepIsSeq DEF FirstOfEach

LEMMA WithPathIsSeq ==
    ASSUME NEW s \in Seq(Entry)
    PROVE  WithPath(s) \in Seq(Entry)
<1>1. {i \in DOMAIN s : s[i].path # ""} \subseteq DOMAIN s
    OBVIOUS
<1> QED
    BY <1>1, KeepIsSeq DEF WithPath

LEMMA ReadIsSeq ==
    ASSUME NEW s \in Seq(Entry)
    PROVE  ReadEndpoints(s) \in Seq(Entry)
<1>1. {i \in DOMAIN s : s[i].method # "" /\ s[i].path # ""} \subseteq DOMAIN s
    OBVIOUS
<1> QED
    BY <1>1, KeepIsSeq DEF ReadEndpoints

LEMMA PostmanIsSeq ==
    ASSUME NEW doc \in Document
    PROVE  PostmanOps(doc) \in Seq(Entry)
<1> DEFINE s == WithPath(doc.ops)
<1>1. s \in Seq(Entry)
    BY WithPathIsSeq DEF Document
<1> HIDE DEF s
<1>2. DOMAIN s = 1 .. Len(s) /\ Len(s) \in Nat /\ \A i \in DOMAIN s : s[i] \in Entry
    BY <1>1
<1>3. [i \in DOMAIN s |-> Named(s[i])] \in Seq(Entry)
    BY <1>2, NamedIsEntry
<1> QED
    BY <1>3 DEF PostmanOps, s

LEMMA OperationsAreSeq ==
    ASSUME NEW doc \in Document
    PROVE  Operations(doc) \in Seq(Entry)
<1>1. doc.ops \in Seq(Entry)
    BY DEF Document
<1>2. {i \in DOMAIN doc.ops : doc.ops[i].method \in Methods} \subseteq DOMAIN doc.ops
    OBVIOUS
<1>3. {i \in DOMAIN doc.ops : ~doc.ops[i].closed} \subseteq DOMAIN doc.ops
    OBVIOUS
<1>4. OpenapiOps(doc) \in Seq(Entry)
    BY <1>1, <1>2, KeepIsSeq DEF OpenapiOps
<1>5. GraphqlOps(doc) \in Seq(Entry)
    BY <1>1, <1>3, KeepIsSeq DEF GraphqlOps
<1>6. PostmanOps(doc) \in Seq(Entry) /\ HarOps(doc) \in Seq(Entry)
    BY PostmanIsSeq, FirstOfEachIsSeq DEF HarOps
<1>7. <<>> \in Seq(Entry)
    OBVIOUS
<1> QED
    BY <1>4, <1>5, <1>6, <1>7 DEF Operations

LEMMA EffectiveIsSeq ==
    ASSUME NEW doc \in Document
    PROVE  Effective(doc) \in Seq(Entry)
<1>1. doc.ops \in Seq(Entry) /\ doc.nested \in Seq(Entry) /\ doc.guarded \in Seq(Paths)
    BY DEF Document
<1> DEFINE stated  == WithPath(doc.nested)
           unsaid  == [i \in DOMAIN stated |-> [Named(stated[i]) EXCEPT !.says = {}]]
           guarded == [i \in DOMAIN doc.guarded |->
                         [method |-> "GET", path |-> doc.guarded[i], says |-> {}, closed |-> FALSE]]
<1>2. stated \in Seq(Entry)
    BY <1>1, WithPathIsSeq
<1>3. unsaid \in Seq(Entry)
    <2> HIDE DEF stated
    <2>1. DOMAIN stated = 1 .. Len(stated) /\ Len(stated) \in Nat
          /\ \A i \in DOMAIN stated : stated[i] \in Entry
        BY <1>2
    <2>2. \A e \in Entry : [Named(e) EXCEPT !.says = {}] \in Entry
        BY NamedIsEntry DEF Entry
    <2> QED
        BY <2>1, <2>2
<1>4. guarded \in Seq(Entry)
    <2>1. DOMAIN doc.guarded = 1 .. Len(doc.guarded) /\ Len(doc.guarded) \in Nat
          /\ \A i \in DOMAIN doc.guarded : doc.guarded[i] \in Paths
        BY <1>1
    <2>2. \A p \in Paths : [method |-> "GET", path |-> p, says |-> {}, closed |-> FALSE] \in Entry
        BY DEF Entry, Methods
    <2> QED
        BY <2>1, <2>2
<1>5. FirstOfEach(unsaid \o guarded) \in Seq(Entry)
    <2> HIDE DEF unsaid, guarded
    <2>1. unsaid \o guarded \in Seq(Entry)
        BY <1>3, <1>4
    <2> QED
        BY <2>1, FirstOfEachIsSeq
<1>6. Recovered(doc) \in Seq(Entry)
    BY <1>5 DEF Recovered
<1> QED
    BY <1>1, <1>6 DEF Effective

-----------------------------------------------------------------------------
(* Cases *)

PlannedCase ==
    [id : {"TC", "BND", "GQL"} \X (Nat \ {0}), method : Methods \cup {"", "other"},
     path : Paths \cup {""}, accepts : SUBSET Statuses, origin : Origins]

\* A case as it is derived; one that was imported does not pass on an endpoint
\* that is walled off, missing or broken.
DerivedCase ==
    {c \in PlannedCase : c.origin = "import" => c.accepts \cap {401, 404, 500} = {}}

LEMMA LeastIsIn ==
    ASSUME NEW S \in SUBSET {200, 201, 302}, S # {}
    PROVE  Least(S) \in S
<1>1. \E s \in S : \A t \in S : s <= t
    <2>1. CASE 200 \in S
        BY <2>1
    <2>2. CASE 200 \notin S /\ 201 \in S
        BY <2>2
    <2>3. CASE 200 \notin S /\ 201 \notin S
        <3>1. \A t \in S : t = 302
            BY <2>3
        <3>a. \E t : t \in S
            OBVIOUS
        <3>b. 302 \in S
            BY <3>a, <3>1
        <3>2. 302 \in S /\ \A t \in S : 302 <= t
            BY <3>b, <3>1
        <3> QED
            BY <3>2
    <2> QED
        BY <2>1, <2>2, <2>3
<1> QED
    BY <1>1 DEF Least

LEMMA SuccessIs == Success = {200, 201, 302} /\ Accepted = {200, 201, 302, 400, 422}
BY DEF Success, Accepted, Statuses

\* Whatever a document declares or a capture recorded, an imported operation is
\* expected to succeed, or to refuse a guessed body.
LEMMA OracleJudges ==
    ASSUME NEW form, NEW e \in Entry
    PROVE  Oracle(form, e) \subseteq Accepted
<1> DEFINE declared == {s \in e.says : 200 <= s /\ s < 300}
           recorded == e.says \cap Success
<1>1. e.says \subseteq Statuses
    BY DEF Entry
<1>2. declared \in SUBSET {200, 201, 302} /\ recorded \in SUBSET {200, 201, 302}
    BY <1>1, SuccessIs DEF Statuses
<1>3. ExpectFor(e.method) \subseteq Accepted /\ Success \subseteq Accepted
    BY SuccessIs DEF ExpectFor
<1>i. {200, 201, 302} \subseteq Accepted
    BY SuccessIs
<1>4. declared # {} => Least(declared) \in Accepted
    <2> HIDE DEF declared
    <2>0. declared \in SUBSET {200, 201, 302}
        BY <1>2
    <2>1. declared # {} => Least(declared) \in declared
        BY <2>0, LeastIsIn
    <2>2. declared \subseteq Accepted
        BY <2>0, <1>i
    <2> QED
        BY <2>1, <2>2
<1>5. recorded # {} => Least(recorded) \in Accepted
    <2> HIDE DEF recorded
    <2>0. recorded \in SUBSET {200, 201, 302}
        BY <1>2
    <2>1. recorded # {} => Least(recorded) \in recorded
        BY <2>0, LeastIsIn
    <2>2. recorded \subseteq Accepted
        BY <2>0, <1>i
    <2> QED
        BY <2>1, <2>2
<1>6. \/ Oracle(form, e) = Success
      \/ Oracle(form, e) = ExpectFor(e.method)
      \/ declared # {} /\ Oracle(form, e) = {Least(declared)}
      \/ recorded # {} /\ Oracle(form, e) = {Least(recorded)}
    BY DEF Oracle
<1> HIDE DEF declared, recorded
<1> QED
    BY <1>3, <1>4, <1>5, <1>6

LEMMA ExtractDerives ==
    ASSUME NEW doc \in Document
    PROVE  Extract(doc) \in Seq(DerivedCase)
<1> DEFINE ops == Operations(doc)
           label == IF doc.form = "graphql" THEN "GQL" ELSE "TC"
           case(i) == ApiCase(label, i, ops[i], Oracle(doc.form, ops[i]), "import")
<1>1. ops \in Seq(Entry)
    BY OperationsAreSeq
<1>2. label \in {"TC", "GQL"}
    OBVIOUS
<1> HIDE DEF ops, label
<1>3. DOMAIN ops = 1 .. Len(ops) /\ Len(ops) \in Nat /\ \A i \in DOMAIN ops : ops[i] \in Entry
    BY <1>1
<1>4. ASSUME NEW i \in DOMAIN ops PROVE case(i) \in DerivedCase
    <2>1. Oracle(doc.form, ops[i]) \subseteq Accepted
        BY <1>3, OracleJudges
    <2> DEFINE o == Oracle(doc.form, ops[i])
               e == ops[i]
    <2>2. o \subseteq {200, 201, 302, 400, 422} /\ e \in Entry /\ i \in Nat \ {0}
        BY <1>3, <2>1, SuccessIs
    <2> HIDE DEF o, e
    <2>3. o \in SUBSET Statuses /\ o \cap {401, 404, 500} = {}
        BY <2>2 DEF Statuses
    <2>4. ApiCase(label, i, e, o, "import") \in DerivedCase
        BY <1>2, <2>2, <2>3 DEF ApiCase, DerivedCase, PlannedCase, Entry, Origins
    <2> QED
        BY <2>4 DEF o, e
<1> HIDE DEF case
<1>5. [i \in DOMAIN ops |-> case(i)] \in Seq(DerivedCase)
    BY <1>3, <1>4
<1>6. Extract(doc) = [i \in DOMAIN ops |-> case(i)]
    BY Zenon DEF Extract, case, ops, label
<1> QED
    BY <1>5, <1>6

\* A plan has a case for each endpoint that is read, and no other.
LEMMA PlanDerives ==
    ASSUME NEW entries \in Seq(Entry)
    PROVE  /\ PlanOf(entries) \in Seq(DerivedCase)
           /\ \A k \in DOMAIN PlanOf(entries) : \E i \in DOMAIN entries :
                /\ PlanOf(entries)[k].method = entries[i].method
                /\ PlanOf(entries)[k].path = entries[i].path
<1> DEFINE read == ReadEndpoints(entries)
           P == {i \in DOMAIN entries : entries[i].method # "" /\ entries[i].path # ""}
           case(i) == ApiCase("TC", i, read[i],
                              IF read[i].says = {} THEN Success ELSE read[i].says, "summary")
<1>1. P \in SUBSET DOMAIN entries /\ read = Keep(entries, P)
    BY DEF ReadEndpoints
<1> HIDE DEF P, read
<1>2. /\ read \in Seq(Entry)
      /\ \A k \in DOMAIN read : \E i \in DOMAIN entries : read[k] = entries[i]
    BY <1>1, KeepPicks
<1>3. DOMAIN read = 1 .. Len(read) /\ Len(read) \in Nat /\ \A i \in DOMAIN read : read[i] \in Entry
    BY <1>2
<1>4. ASSUME NEW i \in DOMAIN read
      PROVE  /\ case(i) \in DerivedCase
             /\ case(i).method = read[i].method /\ case(i).path = read[i].path
    <2> DEFINE o == IF read[i].says = {} THEN Success ELSE read[i].says
               e == read[i]
    <2>1. e \in Entry /\ i \in Nat \ {0}
        BY <1>3
    <2>a. e.says \in SUBSET Statuses
        BY <2>1 DEF Entry
    <2>b. Success \in SUBSET Statuses
        BY SuccessIs DEF Statuses
    <2>2. o \in SUBSET Statuses
        BY <2>a, <2>b
    <2> HIDE DEF o, e
    <2>3. /\ ApiCase("TC", i, e, o, "summary") \in DerivedCase
          /\ ApiCase("TC", i, e, o, "summary").method = e.method
          /\ ApiCase("TC", i, e, o, "summary").path = e.path
        BY <2>1, <2>2 DEF ApiCase, DerivedCase, PlannedCase, Entry, Origins
    <2> QED
        BY <2>3 DEF o, e
<1> HIDE DEF case
<1>5. /\ [i \in DOMAIN read |-> case(i)] \in Seq(DerivedCase)
      /\ \A k \in DOMAIN [i \in DOMAIN read |-> case(i)] : \E i \in DOMAIN entries :
            /\ [j \in DOMAIN read |-> case(j)][k].method = entries[i].method
            /\ [j \in DOMAIN read |-> case(j)][k].path = entries[i].path
    BY <1>2, <1>3, <1>4
<1>6. PlanOf(entries) = [i \in DOMAIN read |-> case(i)]
    BY Zenon DEF PlanOf, case, read
<1> QED
    BY <1>5, <1>6

\* Boundary probes accept anything but a server error.
LEMMA BoundaryDerives ==
    ASSUME NEW entries \in Seq(Entry)
    PROVE  Boundary(entries) \in Seq(DerivedCase)
<1> DEFINE read   == ReadEndpoints(entries)
           twice  == [n \in 1 .. 2 * Len(read) |-> read[(n + 1) \div 2]]
           P      == {n \in DOMAIN twice :
                        IF n % 2 = 1 THEN twice[n].path \in Templated ELSE twice[n].method = "POST"}
           probes == Keep(twice, P)
           case(n) == ApiCase("BND", n, probes[n], AnyBand, "probe")
<1>1. read \in Seq(Entry)
    BY ReadIsSeq
<1>2. twice \in Seq(Entry)
    <2> HIDE DEF read
    <2>1. Len(read) \in Nat /\ \A i \in 1 .. Len(read) : read[i] \in Entry
        BY <1>1
    <2>2. \A n \in 1 .. 2 * Len(read) : (n + 1) \div 2 \in 1 .. Len(read)
        BY <2>1
    <2>3. 2 * Len(read) \in Nat
        BY <2>1
    <2> QED
        BY <2>1, <2>2, <2>3
<1>3. P \subseteq DOMAIN twice
    OBVIOUS
<1> HIDE DEF P, twice
<1>4. probes \in Seq(Entry)
    BY <1>2, <1>3, KeepIsSeq
<1> HIDE DEF probes
<1>5. DOMAIN probes = 1 .. Len(probes) /\ Len(probes) \in Nat
      /\ \A n \in DOMAIN probes : probes[n] \in Entry
    BY <1>4
<1>6. AnyBand \subseteq Statuses
    BY DEF AnyBand
<1>7. ASSUME NEW n \in DOMAIN probes PROVE case(n) \in DerivedCase
    <2> DEFINE e == probes[n]
               o == AnyBand
    <2>1. e \in Entry /\ n \in Nat \ {0} /\ o \in SUBSET Statuses
        BY <1>5, <1>6
    <2> HIDE DEF e, o
    <2>2. ApiCase("BND", n, e, o, "probe") \in DerivedCase
        BY <2>1 DEF ApiCase, DerivedCase, PlannedCase, Entry, Origins
    <2> QED
        BY <2>2 DEF e, o
<1> HIDE DEF case
<1>8. [n \in DOMAIN probes |-> case(n)] \in Seq(DerivedCase)
    BY <1>5, <1>7
<1>9. Boundary(entries) = [n \in DOMAIN probes |-> case(n)]
    BY Zenon DEF Boundary, case, probes, P, twice, read
<1> QED
    BY <1>8, <1>9

LEMMA DerivedDerives ==
    ASSUME NEW doc \in Document, NEW boundary
    PROVE  Derived(doc, boundary) \in Seq(DerivedCase)
<1> DEFINE more == IF boundary THEN Boundary(Effective(doc)) ELSE <<>>
<1>1. Extract(doc) \in Seq(DerivedCase)
    BY ExtractDerives
<1>2. PlanOf(Effective(doc)) \in Seq(DerivedCase)
    BY EffectiveIsSeq, PlanDerives
<1>3. more \in Seq(DerivedCase)
    BY EffectiveIsSeq, BoundaryDerives
<1> HIDE DEF more
<1>4. PlanOf(Effective(doc)) \o more \in Seq(DerivedCase)
    BY <1>2, <1>3
<1> QED
    BY <1>1, <1>4 DEF Derived, more

-----------------------------------------------------------------------------
(* The local backend *)

\* A plan of c: cases of operations of c's own document.
OwnPlan(c) ==
    {plan \in Seq(PlannedCase) :
        \A i \in DOMAIN plan : \E e \in ToSet(Effective(Doc[c])) :
            plan[i].method = e.method /\ plan[i].path = e.path}

Disk == [config : {"none", "frontend", "backend"}, prd : BOOLEAN, plan : Seq(PlannedCase)]

Entity ==
    [by : Clients, of : Clients, case : PlannedCase,
     status : {"RUNNING", "PASSED", "FAILED", "unrunnable"}]

\* The inductive invariant: the types, plans that are their clients' own, runs
\* of a client's own cases, and a PRD that is of some client.
BackendInv ==
    /\ saved \in [Clients -> Disk]
    /\ \A c \in Clients : saved[c].plan \in OwnPlan(c)
    /\ tests \in Seq(Entity)
    /\ \A t \in DOMAIN tests : tests[t].of = tests[t].by
    /\ prd = NoPrd \/ prd \in [of : Clients, attached : BOOLEAN]

LEMMA DerivedIsPlanned == Seq(DerivedCase) \subseteq Seq(PlannedCase)
<1>1. DerivedCase \subseteq PlannedCase
    BY DEF DerivedCase
<1> QED
    BY <1>1

LEMMA PlansAreOwn ==
    ASSUME NEW c \in Clients, NEW plan \in Plans(c)
    PROVE  Kept(plan) \in OwnPlan(c)
<1> DEFINE entries == Effective(Doc[c])
           planned == PlanOf(entries)
           kept(p) == [i \in DOMAIN p |-> [p[i] EXCEPT !.accepts = NoSpec]]
<1>1. Doc[c] \in Document
    BY LocalBackendAssumption
<1>2. entries \in Seq(Entry)
    BY <1>1, EffectiveIsSeq
<1> HIDE DEF entries
<1>3. /\ planned \in Seq(PlannedCase)
      /\ \A k \in DOMAIN planned : \E i \in DOMAIN entries :
            planned[k].method = entries[i].method /\ planned[k].path = entries[i].path
    BY <1>2, PlanDerives, DerivedIsPlanned
<1> HIDE DEF planned
<1>4. ASSUME NEW p \in Seq(PlannedCase),
             \A k \in DOMAIN p : \E i \in DOMAIN entries :
                p[k].method = entries[i].method /\ p[k].path = entries[i].path
      PROVE  /\ kept(p) \in Seq(PlannedCase)
             /\ \A k \in DOMAIN kept(p) : \E i \in DOMAIN entries :
                  kept(p)[k].method = entries[i].method /\ kept(p)[k].path = entries[i].path
    <2>1. DOMAIN p = 1 .. Len(p) /\ Len(p) \in Nat /\ \A k \in DOMAIN p : p[k] \in PlannedCase
        BY <1>4
    <2>2. ASSUME NEW a \in PlannedCase
          PROVE  /\ [a EXCEPT !.accepts = NoSpec] \in PlannedCase
                 /\ [a EXCEPT !.accepts = NoSpec].method = a.method
                 /\ [a EXCEPT !.accepts = NoSpec].path = a.path
        BY DEF PlannedCase, NoSpec
    <2>3. DOMAIN kept(p) = 1 .. Len(p)
          /\ \A k \in 1 .. Len(p) : kept(p)[k] = [p[k] EXCEPT !.accepts = NoSpec]
        BY <2>1
    <2>4. kept(p) = [k \in 1 .. Len(p) |-> kept(p)[k]]
        BY <2>1
    <2> HIDE DEF kept
    <2>5. \A k \in 1 .. Len(p) : /\ kept(p)[k] \in PlannedCase
                                 /\ kept(p)[k].method = p[k].method
                                 /\ kept(p)[k].path = p[k].path
        BY <2>1, <2>2, <2>3
    <2>6. kept(p) \in Seq(PlannedCase)
        BY <2>1, <2>4, <2>5
    <2>7. \A k \in DOMAIN kept(p) : \E i \in DOMAIN entries :
             kept(p)[k].method = entries[i].method /\ kept(p)[k].path = entries[i].path
        BY <1>4, <2>1, <2>3, <2>5
    <2> QED
        BY <2>6, <2>7
<1>5. plan = planned \/ plan = kept(planned)
    BY DEF Plans, Kept, planned, entries
<1> HIDE DEF kept
<1>6. /\ kept(plan) \in Seq(PlannedCase)
      /\ \A k \in DOMAIN kept(plan) : \E i \in DOMAIN entries :
            kept(plan)[k].method = entries[i].method /\ kept(plan)[k].path = entries[i].path
    BY <1>3, <1>4, <1>5
<1>7. Kept(plan) = kept(plan)
    BY DEF Kept, kept
<1> QED
    BY <1>6, <1>7 DEF OwnPlan, ToSet, entries

LEMMA SelectedIsSeq ==
    ASSUME NEW c \in Clients, saved[c].plan \in Seq(PlannedCase), NEW ids
    PROVE  Selected(c, ids) \in Seq(PlannedCase)
<1> DEFINE plan   == saved[c].plan
           P      == {i \in DOMAIN plan : plan[i].id \in ids}
           chosen == IF ids = {} THEN plan ELSE Keep(plan, P)
<1>1. P \subseteq DOMAIN plan
    OBVIOUS
<1>2. Keep(plan, P) \in Seq(PlannedCase)
    <2> HIDE DEF P
    <2> QED
        BY <1>1, KeepIsSeq
<1>3. chosen \in Seq(PlannedCase)
    <2> HIDE DEF P
    <2> QED
        BY <1>2
<1> HIDE DEF chosen
<1>4. Len(chosen) > Cap => SubSeq(chosen, 1, Cap) \in Seq(PlannedCase)
    BY <1>3, LocalBackendAssumption
<1> QED
    BY <1>3, <1>4 DEF Selected, chosen, P, plan

\* A run that is not empty is of the client's own cases.
LEMMA RunsOwnCases ==
    ASSUME NEW c \in Clients, NEW plan \in Seq(PlannedCase), plan # <<>>
    PROVE  LET new == Entities(c, ToRun(c, plan))
           IN  /\ new \in Seq(Entity)
               /\ \A t \in DOMAIN new : new[t].of = new[t].by
<1> DEFINE run == PlannedCases(c, plan)
           new == Entities(c, run)
<1>1. ToRun(c, plan) = run
    BY DEF ToRun
<1>2. DOMAIN plan = 1 .. Len(plan) /\ Len(plan) \in Nat
      /\ \A i \in DOMAIN plan : plan[i] \in PlannedCase
    OBVIOUS
<1>3. DOMAIN run = 1 .. Len(plan)
      /\ \A i \in 1 .. Len(plan) : run[i].case = plan[i] /\ run[i].of = c
    BY <1>2 DEF PlannedCases
<1> HIDE DEF run
<1>4. DOMAIN new = 1 .. Len(plan)
      /\ \A i \in 1 .. Len(plan) : new[i] \in Entity /\ new[i].of = new[i].by
    BY <1>2, <1>3 DEF Entities, RunningEntity, Entity
<1>5. new = [i \in 1 .. Len(plan) |-> new[i]]
    BY <1>3 DEF Entities
<1> HIDE DEF new
<1>6. new \in Seq(Entity)
    BY <1>2, <1>4, <1>5
<1> QED
    BY <1>1, <1>4, <1>6 DEF new

LEMMA BackendInitInv == BackendInit => BackendInv
<1> SUFFICES ASSUME BackendInit PROVE BackendInv
    OBVIOUS
<1>1. <<>> \in Seq(PlannedCase) /\ <<>> \in Seq(Entity) /\ DOMAIN <<>> = {}
    OBVIOUS
<1>2. \A c \in Clients : saved[c] = [config |-> "none", prd |-> FALSE, plan |-> <<>>]
    BY DEF BackendInit
<1>3. \A c \in Clients : saved[c] \in Disk /\ saved[c].plan \in OwnPlan(c)
    <2>1. \A c : <<>> \in OwnPlan(c)
        BY <1>1, Zenon DEF OwnPlan
    <2>2. [config |-> "none", prd |-> FALSE, plan |-> <<>>] \in Disk
        BY <1>1 DEF Disk
    <2> QED
        BY <1>2, <2>1, <2>2
<1>4. saved \in [Clients -> Disk]
    BY <1>3 DEF BackendInit
<1>5. tests \in Seq(Entity) /\ \A t \in DOMAIN tests : tests[t].of = tests[t].by
    BY <1>1 DEF BackendInit
<1> QED
    BY <1>3, <1>4, <1>5 DEF BackendInit, BackendInv

\* The parts of the invariant, each kept by what leaves its variables alone.
LEMMA DiskKept ==
    ASSUME BackendInv, NEW c \in Clients, NEW d \in Disk, d.plan \in OwnPlan(c),
           saved' = [saved EXCEPT ![c] = d]
    PROVE  saved' \in [Clients -> Disk] /\ \A b \in Clients : saved'[b].plan \in OwnPlan(b)
<1>1. \A b \in Clients : saved'[b] = IF b = c THEN d ELSE saved[b]
    BY DEF BackendInv
<1>2. \A b \in Clients : saved'[b] \in Disk /\ saved'[b].plan \in OwnPlan(b)
    BY <1>1 DEF BackendInv
<1> QED
    BY <1>2 DEF BackendInv

LEMMA BackendStep == BackendInv /\ [BackendNext]_backendVars => BackendInv'
<1> SUFFICES ASSUME BackendInv, [BackendNext]_backendVars PROVE BackendInv'
    OBVIOUS
<1> USE DEF BackendInv
<1> DEFINE DiskInv == saved \in [Clients -> Disk] /\ \A c \in Clients : saved[c].plan \in OwnPlan(c)
           TestsInv == tests \in Seq(Entity) /\ \A t \in DOMAIN tests : tests[t].of = tests[t].by
           PrdInv == prd = NoPrd \/ prd \in [of : Clients, attached : BOOLEAN]
<1>0. /\ UNCHANGED saved => DiskInv'
      /\ UNCHANGED tests => TestsInv'
      /\ UNCHANGED prd => PrdInv'
    BY DEF OwnPlan
<1> SUFFICES DiskInv' /\ TestsInv' /\ PrdInv'
    OBVIOUS
<1>1. ASSUME NEW c \in Clients, Bootstrap(c) PROVE DiskInv' /\ TestsInv' /\ PrdInv'
    <2>1. saved' = [saved EXCEPT ![c] = [saved[c] EXCEPT !.config = TypeOf(c)]]
        BY <1>1 DEF Bootstrap
    <2>2. /\ [saved[c] EXCEPT !.config = TypeOf(c)] \in Disk
          /\ [saved[c] EXCEPT !.config = TypeOf(c)].plan = saved[c].plan
        BY DEF Disk, TypeOf
    <2>3. DiskInv'
        BY <2>1, <2>2, DiskKept
    <2> QED
        BY <1>0, <1>1, <2>3 DEF Bootstrap
<1>2. ASSUME NEW c \in Clients, PrdBegin(c) PROVE DiskInv' /\ TestsInv' /\ PrdInv'
    BY <1>0, <1>2 DEF PrdBegin
<1>3. ASSUME NEW c \in Clients, PrdEnd(c) PROVE DiskInv' /\ TestsInv' /\ PrdInv'
    <2>1. saved' = [saved EXCEPT ![c] = [saved[c] EXCEPT !.prd = TRUE]]
        BY <1>3 DEF PrdEnd
    <2>2. /\ [saved[c] EXCEPT !.prd = TRUE] \in Disk
          /\ [saved[c] EXCEPT !.prd = TRUE].plan = saved[c].plan
        BY DEF Disk
    <2>3. DiskInv'
        BY <2>1, <2>2, DiskKept
    <2> QED
        BY <1>0, <1>3, <2>3 DEF PrdEnd
<1>4. ASSUME NEW c \in Clients, PlanBegin(c) PROVE DiskInv' /\ TestsInv' /\ PrdInv'
    BY <1>0, <1>4 DEF PlanBegin
<1>5. ASSUME NEW c \in Clients, PlanEnd(c) PROVE DiskInv' /\ TestsInv' /\ PrdInv'
    <2>1. PICK plan \in Plans(c) : saved' = [saved EXCEPT ![c].plan = Kept(plan)]
        BY <1>5 DEF PlanEnd
    <2>2. Kept(plan) \in OwnPlan(c)
        BY PlansAreOwn
    <2>3. saved' = [saved EXCEPT ![c] = [saved[c] EXCEPT !.plan = Kept(plan)]]
        BY <2>1
    <2>4. /\ [saved[c] EXCEPT !.plan = Kept(plan)] \in Disk
          /\ [saved[c] EXCEPT !.plan = Kept(plan)].plan = Kept(plan)
        BY <2>2 DEF Disk, OwnPlan
    <2>5. DiskInv'
        BY <2>2, <2>3, <2>4, DiskKept
    <2> QED
        BY <1>0, <1>5, <2>5 DEF PlanEnd
<1>6. ASSUME NEW c \in Clients, RequestFails(c) PROVE DiskInv' /\ TestsInv' /\ PrdInv'
    BY <1>0, <1>6 DEF RequestFails
<1>7. ASSUME NEW c \in Clients, Dispatch(c) PROVE DiskInv' /\ TestsInv' /\ PrdInv'
    <2>1. PICK ids \in Asked : /\ Selected(c, ids) # <<>>
                               /\ tests' = tests \o Entities(c, ToRun(c, Selected(c, ids)))
        BY <1>7 DEF Dispatch
    <2>2. saved[c].plan \in Seq(PlannedCase)
        BY DEF OwnPlan
    <2>3. Selected(c, ids) \in Seq(PlannedCase)
        BY <2>2, SelectedIsSeq
    <2> DEFINE new == Entities(c, ToRun(c, Selected(c, ids)))
    <2>4. new \in Seq(Entity) /\ \A t \in DOMAIN new : new[t].of = new[t].by
        BY <2>1, <2>3, RunsOwnCases
    <2> HIDE DEF new
    <2>5. tests' = tests \o new
        BY <2>1 DEF new
    <2>6. TestsInv'
        BY <2>4, <2>5
    <2> QED
        BY <1>0, <1>7, <2>6 DEF Dispatch
<1>8. ASSUME NEW c \in Clients, Execute(c) PROVE DiskInv' /\ TestsInv' /\ PrdInv'
    <2>1. PICK t \in Pending(c) : \E o \in Outcomes(tests[t].case) : SetStatus(t, o)
        BY <1>8 DEF Execute
    <2>2. PICK o \in Outcomes(tests[t].case) : tests' = [tests EXCEPT ![t].status = o]
        BY <2>1 DEF SetStatus
    <2>3. t \in DOMAIN tests /\ o \in {"PASSED", "FAILED", "unrunnable"}
        BY <2>2 DEF Pending, Outcomes
    <2>a. tests[t] \in Entity
        BY <2>3
    <2>b. \A x \in Entity : /\ [x EXCEPT !.status = o] \in Entity
                            /\ [x EXCEPT !.status = o].of = x.of
                            /\ [x EXCEPT !.status = o].by = x.by
        BY <2>3 DEF Entity
    <2>4. [tests[t] EXCEPT !.status = o] \in Entity
          /\ [tests[t] EXCEPT !.status = o].of = tests[t].of
          /\ [tests[t] EXCEPT !.status = o].by = tests[t].by
        BY <2>a, <2>b
    <2>5. tests' = [tests EXCEPT ![t] = [tests[t] EXCEPT !.status = o]]
        BY <2>2
    <2>6. TestsInv'
        BY <2>3, <2>4, <2>5
    <2> QED
        BY <1>0, <1>8, <2>6 DEF Execute
<1>9. ASSUME NEW c \in Clients, Collect(c) PROVE DiskInv' /\ TestsInv' /\ PrdInv'
    BY <1>0, <1>9 DEF Collect
<1>10. ASSUME Restart PROVE DiskInv' /\ TestsInv' /\ PrdInv'
    BY <1>0, <1>10 DEF Restart
<1>11. ASSUME UNCHANGED backendVars PROVE DiskInv' /\ TestsInv' /\ PrdInv'
    BY <1>0, <1>11 DEF backendVars
<1> QED
    BY <1>1, <1>2, <1>3, <1>4, <1>5, <1>6, <1>7, <1>8, <1>9, <1>10, <1>11 DEF BackendNext

\* What every client, every row of the server and every entity is of, for any
\* projects: plans and runs stay with the project that asked (LocalBackend).
THEOREM BackendInvariance == BackendSpec => []BackendInv
BY BackendInitInv, BackendStep, PTL DEF BackendSpec

\* For any projects and documents: the plan a client has saved is of operations
\* of its own document, whoever else plans meanwhile (build_plan, api.rs:227).
THEOREM PlansAreTheClients == BackendSpec => []PlanIsOwn
<1>1. BackendInv => PlanIsOwn
    BY DEF BackendInv, PlanIsOwn, OwnPlan, OwnOperations, Operation
<1> QED
    BY <1>1, BackendInvariance, PTL

\* For any projects and requests: a run is of its client's own cases only
\* (backend_run, api.rs:275; load_test_plan, execute.rs:39).
THEOREM RunsAreTheClients == BackendSpec => []RunIsOwn
<1>1. BackendInv => RunIsOwn
    BY DEF BackendInv, RunIsOwn
<1> QED
    BY <1>1, BackendInvariance, PTL

\* A guard without findings means that every endpoint a summary plans has a
\* test that passed (evaluate, coverage.rs:153).
THEOREM CleanReportsArePassed == BackendSpec => []CleanMeansPassed
<1>1. BackendInv => CleanMeansPassed
    <2> SUFFICES ASSUME BackendInv, prd.attached, Findings = {},
                        NEW e \in ToSet(ReadEndpoints(Doc[prd.of].ops))
                 PROVE  \E case \in Passed : Operation(case) = Operation(e)
        BY DEF CleanMeansPassed
    <2> DEFINE doc == Doc[prd.of]
               P == {i \in DOMAIN doc.ops : doc.ops[i].method # "" /\ doc.ops[i].path # ""}
               Q == {i \in DOMAIN doc.ops : doc.ops[i].path # ""}
    <2>1. prd # NoPrd /\ prd.of \in Clients
        BY DEF BackendInv, NoPrd
    <2>2. Findings = Gaps(DeclaredSurface(doc), Passed)
        BY <2>1 DEF Findings, Declared, SummaryOf
    <2>3. doc \in Document
        BY <2>1, LocalBackendAssumption
    <2>4. doc.ops \in Seq(Entry)
        BY <2>3 DEF Document
    <2>5. e \in ToSet(Keep(doc.ops, P))
        BY DEF ReadEndpoints
    <2>6. P \subseteq DOMAIN doc.ops /\ Q \subseteq DOMAIN doc.ops /\ P \subseteq Q
        OBVIOUS
    <2>7. \A i \in P : doc.ops[i].method # ""
        OBVIOUS
    <2>8. WithPath(doc.ops) = Keep(doc.ops, Q)
        BY DEF WithPath
    <2> HIDE DEF P, Q, doc
    <2>9. PICK i \in P : e = doc.ops[i]
        BY <2>4, <2>5, <2>6, KeepPicks DEF ToSet
    <2>10. e \in ToSet(Keep(doc.ops, Q))
        BY <2>4, <2>6, <2>9, KeepPicks DEF ToSet
    <2>11. <<e.method, e.path>> \in DeclaredSurface(doc)
        BY <2>7, <2>8, <2>9, <2>10 DEF DeclaredSurface, Named
    <2>12. \E case \in Passed : Touches(case, <<e.method, e.path>>)
        BY <2>2, <2>11 DEF Gaps
    <2> QED
        BY <2>12 DEF Touches, Operation
<1> QED
    BY <1>1, BackendInvariance, PTL

\* or_insert adds to the variables and changes none of them (api.rs:177).
LEMMA SeedKeeps ==
    ASSUME NEW c \in Clients, Seed(c), NEW r \in DOMAIN variables
    PROVE  r \in DOMAIN variables' /\ variables'[r] = variables[r]
  BY DEF Seed

\* Every step but a restart keeps what has been seeded.
LEMMA StepKeeps ==
    ASSUME [BackendNext]_backendVars, restarts' = restarts, restarts \in Nat,
           NEW r \in DOMAIN variables
    PROVE  r \in DOMAIN variables' /\ variables'[r] = variables[r]
<1> DEFINE Stays == r \in DOMAIN variables' /\ variables'[r] = variables[r]
<1>1. ASSUME UNCHANGED variables PROVE Stays
  BY <1>1
<1>2. ASSUME NEW c \in Clients, PrdBegin(c) \/ PlanBegin(c) PROVE Stays
  BY <1>2, SeedKeeps DEF PrdBegin, PlanBegin
<1>3. ASSUME NEW c \in Clients, Bootstrap(c) \/ PrdEnd(c) \/ PlanEnd(c) \/ RequestFails(c)
      PROVE  Stays
  BY <1>1, <1>3 DEF Bootstrap, PrdEnd, PlanEnd, RequestFails
<1>4. ASSUME NEW c \in Clients, Dispatch(c) \/ Execute(c) \/ Collect(c) PROVE Stays
  BY <1>1, <1>4 DEF Dispatch, Execute, Collect
<1>5. ASSUME Restart PROVE FALSE
  BY <1>5 DEF Restart
<1>6. ASSUME UNCHANGED backendVars PROVE Stays
  BY <1>1, <1>6 DEF backendVars
<1> QED
  BY <1>2, <1>3, <1>4, <1>5, <1>6 DEF BackendNext

\* The restarts are counted.
LEMMA RestartsCounted == BackendSpec => [](restarts \in Nat)
<1>1. BackendInit => restarts \in Nat
  BY DEF BackendInit
<1>2. restarts \in Nat /\ [BackendNext]_backendVars => (restarts \in Nat)'
  BY DEF BackendNext, backendVars, Bootstrap, PrdBegin, PrdEnd, PlanBegin, PlanEnd, RequestFails,
         Dispatch, Execute, Collect, Restart
<1> QED
  BY <1>1, <1>2, PTL DEF BackendSpec

\* For any projects, documents and number of roles: what a project has seeded
\* stays until the server is restarted, whoever asks for PRDs and plans later
\* (seed_variables, api.rs:177).
THEOREM SeededVariablesStay == BackendSpec => SeedsStay
<1>1. restarts \in Nat /\ [BackendNext]_backendVars
        => [restarts' = restarts =>
              \A r \in DOMAIN variables :
                  r \in DOMAIN variables' /\ variables'[r] = variables[r]]_backendVars
  BY StepKeeps
<1> QED
  BY <1>1, RestartsCounted, PTL DEF BackendSpec, SeedsStay

-----------------------------------------------------------------------------
(* Generation: the invariant *)

Summary == [ok : BOOLEAN, ids : SUBSET Ids, quarantined : SUBSET Ids]

TypeInv ==
    /\ Stored \subseteq Ids /\ store \in [Stored -> Test]
    /\ uuids \in Nat
    /\ prds \subseteq 1 .. Commands
    /\ ended \in 0 .. Commands
    /\ cmd \in Command
    /\ answer \in Summary

\* Which kinds of command are where, and what they have done by then.
CommandInv ==
    /\ cmd.at # "idle" => ended < Commands /\ ~answer.ok
    /\ cmd.at \in {"propose", "persist"} => cmd.kind \notin MergedKinds
    /\ cmd.at \in {"measure", "ask", "faultcheck"} => cmd.kind \in MergedKinds
    /\ cmd.at = "screen" => cmd.kind # "structured"
    /\ cmd.at \in {"propose", "persist", "ask"} => cmd.ids = <<>>
    /\ cmd.at \notin {"screen", "faultcheck"} => cmd.left = <<>>
    /\ cmd.kind \notin MergedKinds => cmd.all = {}

\* A command that stamps its tests has saved its PRD before it writes.
PrdInv ==
    /\ cmd.at = "write" /\ cmd.kind \notin MergedKinds => ended + 1 \in prds
    /\ StampedTestsHavePrd

Unscreened(i) == store[i].gate = "unscreened"

Mine == cmd.all \cup ToSet(cmd.ids)

\* What a command has written and not screened is still in its hands.
ScreenInv ==
    /\ Mine \subseteq Stored /\ answer.ids \subseteq Stored
    /\ ToSet(cmd.left) \subseteq ToSet(cmd.ids)
    /\ Gate => 
        /\ answer.ok => \A i \in answer.ids : ~Unscreened(i)
        /\ \A i \in Mine : Unscreened(i) =>
              \/ cmd.at = "write" /\ i \in ToSet(cmd.ids) /\ cmd.kind # "structured"
              \/ cmd.at = "screen" /\ i \in ToSet(cmd.left)

\* What is about to be written has titles of its own.
TitlesInv ==
    /\ MergedTitlesAreNew
    /\ cmd.at = "write" /\ cmd.kind \in MergedKinds =>
         /\ \A k \in DOMAIN cmd.cases : \A i \in Stored : cmd.cases[k].title # store[i].title
         /\ \A j, k \in DOMAIN cmd.cases : j # k => cmd.cases[j].title # cmd.cases[k].title

Judged(x) == x.origin = "import" => x.accepts \cap {401, 404, 500} = {}

ImportInv ==
    /\ \A k \in DOMAIN cmd.cases : Judged(cmd.cases[k])
    /\ \A i \in Stored : Judged(store[i])

GenInv == TypeInv /\ CommandInv /\ PrdInv /\ ScreenInv /\ TitlesInv /\ ImportInv

-----------------------------------------------------------------------------
(* Sequences *)

LEMMA ToSetAppended ==
    ASSUME NEW T, NEW s \in Seq(T), NEW x \in T
    PROVE  Append(s, x) \in Seq(T) /\ ToSet(Append(s, x)) = ToSet(s) \cup {x}
<1>1. /\ Append(s, x) \in Seq(T) /\ DOMAIN s = 1 .. Len(s) /\ Len(s) \in Nat
      /\ DOMAIN Append(s, x) = 1 .. Len(s) + 1
      /\ Append(s, x)[Len(s) + 1] = x /\ \A k \in 1 .. Len(s) : Append(s, x)[k] = s[k]
    OBVIOUS
<1> DEFINE a == Append(s, x)
<1> HIDE DEF a
<1>2. \A k \in 1 .. Len(s) + 1 : k \in 1 .. Len(s) \/ k = Len(s) + 1
    BY <1>1
<1>3. Len(s) + 1 \in 1 .. Len(s) + 1 /\ \A k \in 1 .. Len(s) : k \in 1 .. Len(s) + 1
    BY <1>1
<1>4. {a[k] : k \in 1 .. Len(s) + 1} = {s[k] : k \in 1 .. Len(s)} \cup {x}
    BY <1>1, <1>2, <1>3 DEF a
<1> QED
    BY <1>1, <1>4 DEF ToSet, a

LEMMA HeadAndTail ==
    ASSUME NEW T, NEW s \in Seq(T), s # <<>>
    PROVE  /\ Head(s) \in T /\ Tail(s) \in Seq(T)
           /\ ToSet(s) = ToSet(Tail(s)) \cup {Head(s)}
           /\ DOMAIN s = 1 .. Len(s) /\ Len(s) \in Nat \ {0} /\ Head(s) = s[1]
           /\ DOMAIN Tail(s) = 1 .. Len(s) - 1
           /\ \A k \in DOMAIN Tail(s) : Tail(s)[k] = s[k + 1]
<1>1. /\ Head(s) \in T /\ Tail(s) \in Seq(T)
      /\ DOMAIN s = 1 .. Len(s) /\ Len(s) \in Nat \ {0} /\ Head(s) = s[1]
      /\ DOMAIN Tail(s) = 1 .. Len(s) - 1
      /\ \A k \in DOMAIN Tail(s) : Tail(s)[k] = s[k + 1]
    OBVIOUS
<1> DEFINE t == Tail(s)
<1> HIDE DEF t
<1>2. \A k \in 1 .. Len(s) : k = 1 \/ k - 1 \in 1 .. Len(s) - 1
    BY <1>1
<1>3. \A k \in 1 .. Len(s) - 1 : k + 1 \in 1 .. Len(s)
    BY <1>1
<1>4. \A k \in 1 .. Len(s) : k # 1 => s[k] = t[k - 1]
    BY <1>1, <1>2 DEF t
<1>5. {s[k] : k \in 1 .. Len(s)} = {t[k] : k \in 1 .. Len(s) - 1} \cup {s[1]}
    BY <1>1, <1>2, <1>3, <1>4 DEF t
<1> QED
    BY <1>1, <1>5 DEF ToSet, t

-----------------------------------------------------------------------------
(* Cases *)

AllJudged(s) == \A k \in DOMAIN s : Judged(s[k])
Distinct(s)  == \A j, k \in DOMAIN s : j # k => s[j].title # s[k].title

LEMMA DedupeMakesDistinct ==
    ASSUME NEW s \in Seq(Case), AllJudged(s)
    PROVE  /\ DedupeCases(s) \in Seq(Case) /\ AllJudged(DedupeCases(s))
           /\ Distinct(DedupeCases(s))
<1> DEFINE P == {i \in DOMAIN s : \A j \in 1 .. i - 1 : s[j].title # s[i].title}
           d == Keep(s, P)
<1>1. P \in SUBSET DOMAIN s /\ DOMAIN s = 1 .. Len(s) /\ Len(s) \in Nat
    OBVIOUS
<1>p. \A i \in P : \A j \in 1 .. i - 1 : s[j].title # s[i].title
    OBVIOUS
<1> HIDE DEF P
<1>2. /\ d \in Seq(Case)
      /\ \A k \in DOMAIN d : Nth(P, k) \in P /\ d[k] = s[Nth(P, k)]
      /\ \A j, k \in DOMAIN d : j < k => Nth(P, j) < Nth(P, k)
    BY <1>1, KeepPicks
<1> HIDE DEF d
<1>3. AllJudged(d)
    BY <1>1, <1>2 DEF AllJudged
<1>4. ASSUME NEW j \in DOMAIN d, NEW k \in DOMAIN d, j < k
      PROVE  d[j].title # d[k].title
    <2>1. Nth(P, j) \in P /\ Nth(P, k) \in P /\ Nth(P, j) < Nth(P, k)
        BY <1>2, <1>4
    <2>2. Nth(P, j) \in 1 .. Nth(P, k) - 1
        BY <1>1, <2>1
    <2>3. s[Nth(P, j)].title # s[Nth(P, k)].title
        BY <1>p, <2>1, <2>2
    <2> QED
        BY <1>2, <2>3
<1>5. Distinct(d)
    <2>1. DOMAIN d = 1 .. Len(d)
        BY <1>2
    <2>2. \A j, k \in DOMAIN d : j # k => j < k \/ k < j
        BY <2>1
    <2> QED
        BY <1>4, <2>2 DEF Distinct
<1> QED
    BY <1>2, <1>3, <1>5 DEF DedupeCases, d, P

LEMMA ClearKeepsDistinct ==
    ASSUME NEW s \in Seq(Case), AllJudged(s), Distinct(s)
    PROVE  /\ ClearDuplicateIds(s) \in Seq(Case) /\ AllJudged(ClearDuplicateIds(s))
           /\ Distinct(ClearDuplicateIds(s))
<1> DEFINE c == ClearDuplicateIds(s)
<1>1. DOMAIN s = 1 .. Len(s) /\ Len(s) \in Nat /\ \A k \in DOMAIN s : s[k] \in Case
    OBVIOUS
<1>2. DOMAIN c = 1 .. Len(s) /\ c = [k \in 1 .. Len(s) |-> c[k]]
      /\ \A k \in 1 .. Len(s) : c[k] = s[k] \/ c[k] = [s[k] EXCEPT !.id = NoId]
    BY <1>1 DEF ClearDuplicateIds
<1> HIDE DEF c
<1>3. \A a \in Case : /\ [a EXCEPT !.id = NoId] \in Case
                      /\ [a EXCEPT !.id = NoId].title = a.title
                      /\ [a EXCEPT !.id = NoId].origin = a.origin
                      /\ [a EXCEPT !.id = NoId].accepts = a.accepts
    BY DEF Case
<1>4. \A k \in 1 .. Len(s) : /\ c[k] \in Case /\ c[k].title = s[k].title
                             /\ c[k].origin = s[k].origin /\ c[k].accepts = s[k].accepts
    BY <1>1, <1>2, <1>3
<1>5. c \in Seq(Case)
    BY <1>1, <1>2, <1>4
<1>6. AllJudged(c)
    BY <1>1, <1>2, <1>4 DEF AllJudged, Judged
<1>7. Distinct(c)
    BY <1>1, <1>2, <1>4 DEF Distinct
<1> QED
    BY <1>5, <1>6, <1>7 DEF c

LEMMA DropKeepsDistinct ==
    ASSUME NEW s \in Seq(Case), AllJudged(s), Distinct(s)
    PROVE  /\ DropKnown(s) \in Seq(Case) /\ AllJudged(DropKnown(s)) /\ Distinct(DropKnown(s))
           /\ \A k \in DOMAIN DropKnown(s) : \A i \in Stored :
                DropKnown(s)[k].title # store[i].title
<1> DEFINE P == {i \in DOMAIN s : ~\E j \in Stored : Near(s[i].title, store[j].title)}
           d == Keep(s, P)
<1>1. P \in SUBSET DOMAIN s /\ DOMAIN s = 1 .. Len(s) /\ Len(s) \in Nat
    OBVIOUS
<1>p. \A i \in P : \A j \in Stored : s[i].title # store[j].title
    BY DEF Near
<1> HIDE DEF P
<1>2. /\ d \in Seq(Case)
      /\ \A k \in DOMAIN d : Nth(P, k) \in P /\ d[k] = s[Nth(P, k)]
      /\ \A j, k \in DOMAIN d : j < k => Nth(P, j) < Nth(P, k)
    BY <1>1, KeepPicks
<1> HIDE DEF d
<1>3. AllJudged(d)
    BY <1>1, <1>2 DEF AllJudged
<1>4. \A k \in DOMAIN d : \A i \in Stored : d[k].title # store[i].title
    BY <1>2, <1>p
<1>5. ASSUME NEW j \in DOMAIN d, NEW k \in DOMAIN d, j # k
      PROVE  d[j].title # d[k].title
    <2>1. DOMAIN d = 1 .. Len(d)
        BY <1>2
    <2>2. j < k \/ k < j
        BY <1>5, <2>1
    <2>3. Nth(P, j) \in DOMAIN s /\ Nth(P, k) \in DOMAIN s /\ Nth(P, j) # Nth(P, k)
        BY <1>1, <1>2, <2>2
    <2> QED
        BY <1>2, <2>3 DEF Distinct
<1> QED
    BY <1>2, <1>3, <1>4, <1>5 DEF DropKnown, d, P, Distinct

\* What a model writes and what a document yields are cases.
LEMMA AnswersAreCases ==
    ASSUME NEW s \in Answers
    PROVE  s \in Seq(Case) /\ AllJudged(s)
<1>1. MaxCases \in Nat /\ NIds \in Nat
    BY GenerationAssumption
<1>2. PICK n \in 0 .. MaxCases : s \in [1 .. n -> ModelCases]
    BY DEF Answers
<1>3. ASSUME NEW a \in ModelCases PROVE a \in Case /\ Judged(a)
    <2>1. PICK id \in {NoId} \cup {<<"TC", k>> : k \in 1 .. NIds}, title \in Titles :
             a = Written(id, title)
        BY DEF ModelCases
    <2>2. \A k \in 1 .. NIds : <<"TC", k>> \in Ids
        BY <1>1 DEF Ids
    <2>3. id \in Ids \cup {NoId} /\ title \in AllTitles
        BY <2>1, <2>2 DEF AllTitles
    <2> QED
        BY <2>1, <2>3 DEF Written, Case, Judged, Origins
<1>4. n \in Nat /\ DOMAIN s = 1 .. n /\ \A k \in 1 .. n : s[k] \in Case /\ Judged(s[k])
    BY <1>1, <1>2, <1>3
<1>5. s \in [1 .. n -> Case]
    BY <1>2, <1>4
<1> QED
    BY <1>4, <1>5 DEF AllJudged

LEMMA StructuredAreCases ==
    ASSUME NEW s \in Structured
    PROVE  s \in Seq(Case) /\ AllJudged(s)
<1>1. PICK doc \in Usable, boundary \in BOOLEAN : s = TitledCases(doc, boundary)
    BY DEF Structured
<1> DEFINE d == Derived(doc, boundary)
<1>2. d \in Seq(DerivedCase)
    BY GenerationAssumption, DerivedDerives DEF Usable
<1>3. s = [i \in DOMAIN d |-> Titled(d[i])]
    BY <1>1, Zenon DEF TitledCases
<1> HIDE DEF d
<1>4. DOMAIN d = 1 .. Len(d) /\ Len(d) \in Nat /\ \A i \in DOMAIN d : d[i] \in DerivedCase
    BY <1>2
<1>5. ASSUME NEW c \in DerivedCase PROVE Titled(c) \in Case /\ Judged(Titled(c))
    <2>1. c \in PlannedCase /\ (c.origin = "import" => c.accepts \cap {401, 404, 500} = {})
        BY DEF DerivedCase
    <2>2. /\ c.id \in {"TC", "BND", "GQL"} \X (Nat \ {0})
          /\ c.method \in Methods \cup {"", "other"} /\ c.path \in Paths \cup {""}
          /\ c.accepts \in SUBSET Statuses /\ c.origin \in Origins
        BY <2>1 DEF PlannedCase
    <2>3. c.id \in Ids /\ c.id[1] \in {"TC", "BND", "GQL"}
        BY <2>2 DEF Ids
    <2>4. <<c.method, c.path, c.id[1]>> \in AllTitles
        BY <2>2, <2>3 DEF AllTitles
    <2> QED
        BY <2>1, <2>2, <2>3, <2>4 DEF Titled, Case, Judged
<1>6. s \in Seq(Case)
    BY <1>3, <1>4, <1>5
<1> QED
    BY <1>3, <1>4, <1>5, <1>6 DEF AllJudged

\* What there is to write tests for is a finite set.
LEMMA TargetsAreFinite ==
    ASSUME NEW left \in Targets
    PROVE  Cardinality(left) \in Nat
<1>1. IsFiniteSet(Code) /\ \A tree \in Trees : IsFiniteSet(tree.code)
    BY GenerationAssumption
<1>2. \A code : Surface(code) \subseteq code
    BY DEF Surface
<1>3. ASSUME NEW tree \in Trees, left = UncoveredChanged(tree, Texts)
      PROVE  left \subseteq tree.code
    <2>1. ChangedUnits(tree) \subseteq Surface(tree.code)
        BY DEF ChangedUnits, Touched, InFile, NewUnits
    <2>2. left \subseteq ChangedUnits(tree)
        BY <1>3 DEF UncoveredChanged
    <2> QED
        BY <1>2, <2>1, <2>2
<1>4. \/ \E tree \in Trees : left = UncoveredChanged(tree, Texts)
      \/ left = Surface(Code)
      \/ \E profile \in Profiles : left = Uncovered(Surface(Code), Texts, profile)
    BY DEF Targets
<1>5. left \subseteq Code \/ \E tree \in Trees : left \subseteq tree.code
    BY <1>2, <1>3, <1>4 DEF Uncovered
<1> QED
    BY <1>1, <1>5, FS_Subset, FS_CardinalityType

-----------------------------------------------------------------------------
(* Steps that leave the store, the PRDs and the answer alone *)

\* What the rest of the invariant says of a command that has changed.
LEMMA OnlyTheCommand ==
    ASSUME GenInv, UNCHANGED <<store, uuids, prds, ended>>, cmd' \in Command, answer' \in Summary,
           answer'.ok => answer' = answer,
           answer'.ids \subseteq answer.ids,
           CommandInv',
           cmd'.at = "write" /\ cmd'.kind \notin MergedKinds => ended + 1 \in prds,
           Mine' \subseteq Mine,
           ToSet(cmd'.left) \subseteq ToSet(cmd'.ids),
           Gate => \A i \in Mine' : Unscreened(i) =>
              \/ cmd'.at = "write" /\ i \in ToSet(cmd'.ids) /\ cmd'.kind # "structured"
              \/ cmd'.at = "screen" /\ i \in ToSet(cmd'.left),
           cmd'.at = "write" /\ cmd'.kind \in MergedKinds =>
             /\ \A k \in DOMAIN cmd'.cases : \A i \in Stored : cmd'.cases[k].title # store[i].title
             /\ Distinct(cmd'.cases),
           AllJudged(cmd'.cases)
    PROVE  GenInv'
<1>1. TypeInv'
    BY DEF GenInv, TypeInv, Stored
<1>2. PrdInv'
    BY DEF GenInv, PrdInv, StampedTestsHavePrd, Stored
<1>3. ScreenInv'
    BY DEF GenInv, ScreenInv, Unscreened, Stored
<1>4. TitlesInv'
    BY DEF GenInv, TitlesInv, MergedTitlesAreNew, Stored, Distinct
<1>5. ImportInv'
    BY DEF GenInv, ImportInv, AllJudged, Judged, Stored
<1> QED
    BY <1>1, <1>2, <1>3, <1>4, <1>5 DEF GenInv

\* The lists of an empty command.
LEMMA EmptyLists == ToSet(<<>>) = {} /\ AllJudged(<<>>) /\ <<>> \in Seq(Case) /\ <<>> \in Seq(Ids)
BY DEF ToSet, AllJudged

LEMMA IdleIsCommand == Idle \in Command /\ Error \in Summary
<1>1. Cardinality(Code) + 1 \in Nat /\ NViews \in Nat
    BY GenerationAssumption, FS_CardinalityType
<1> QED
    BY <1>1, EmptyLists DEF Idle, Command, Steps, AllKinds, Error, Summary

LEMMA GenInitInv == Init => GenInv
<1> SUFFICES ASSUME Init PROVE GenInv
    OBVIOUS
<1>1. /\ Stored = {} /\ store \in [Stored -> Test] /\ uuids = 0 /\ prds = {} /\ ended = 0
      /\ cmd = Idle /\ answer = Error
    BY DEF Init, Stored
<1>2. cmd \in Command /\ answer \in Summary /\ Commands \in Nat
    BY <1>1, IdleIsCommand, GenerationAssumption
<1>3. /\ cmd.at = "idle" /\ cmd.kind = "plan" /\ cmd.ids = <<>> /\ cmd.left = <<>>
      /\ cmd.all = {} /\ cmd.cases = <<>> /\ ~answer.ok /\ answer.ids = {}
    BY <1>1 DEF Idle, Error
<1>4. TypeInv
    BY <1>1, <1>2 DEF TypeInv
<1>5. CommandInv
    BY <1>3 DEF CommandInv, MergedKinds
<1>6. PrdInv
    BY <1>1, <1>3 DEF PrdInv, StampedTestsHavePrd
<1>7. ScreenInv
    BY <1>3, EmptyLists DEF ScreenInv, Mine
<1>8. TitlesInv
    BY <1>1, <1>3 DEF TitlesInv, MergedTitlesAreNew
<1>9. ImportInv
    BY <1>1, <1>3, EmptyLists DEF ImportInv, AllJudged
<1> QED
    BY <1>4, <1>5, <1>6, <1>7, <1>8, <1>9 DEF GenInv

LEMMA StartKeeps ==
    ASSUME GenInv, NEW kind \in Kinds, Start(kind)
    PROVE  GenInv'
<1> DEFINE at == CASE kind \in {"structured", "plan"} -> "propose"
                   [] kind \in UnitKinds -> "measure"
                   [] kind = "audit" -> "ask"
<1>1. kind \in AllKinds /\ at \in {"propose", "measure", "ask"}
      /\ (at = "propose" <=> kind \notin MergedKinds)
    BY GenerationAssumption DEF AllKinds, UnitKinds, MergedKinds
<1>2. cmd' = [Idle EXCEPT !.kind = kind, !.at = at] /\ ended < Commands /\ answer' = Error
      /\ UNCHANGED <<store, uuids, prds, ended>>
    BY DEF Start
<1> HIDE DEF at
<1>3. /\ cmd' \in Command /\ cmd'.at = at /\ cmd'.kind = kind /\ cmd'.ids = <<>>
      /\ cmd'.left = <<>> /\ cmd'.all = {} /\ cmd'.cases = <<>>
    <2>1. at \in Steps
        BY <1>1 DEF Steps
    <2>2. cmd' \in Command
        BY <1>1, <1>2, <2>1, IdleIsCommand DEF Command
    <2> QED
        BY <1>2, <2>2 DEF Idle
<1>4. answer' \in Summary /\ ~answer'.ok /\ answer'.ids = {}
    BY <1>2, IdleIsCommand DEF Error
<1>5. CommandInv'
    BY <1>1, <1>2, <1>3, <1>4 DEF CommandInv, MergedKinds
<1>6. Mine' = {}
    BY <1>3, EmptyLists DEF Mine
<1> QED
    BY <1>1, <1>2, <1>3, <1>4, <1>5, <1>6, EmptyLists, OnlyTheCommand

LEMMA ProposeKeeps ==
    ASSUME GenInv, Propose
    PROVE  GenInv'
<1>1. PICK s \in (IF cmd.kind = "structured" THEN Structured ELSE Answers) :
         cmd' = [cmd EXCEPT !.cases = s, !.at = "persist"]
    BY DEF Propose
<1>2. s \in Seq(Case) /\ AllJudged(s)
    BY StructuredAreCases, AnswersAreCases
<1>3. cmd.at = "propose" /\ UNCHANGED <<store, uuids, prds, ended, answer>>
    BY DEF Propose, At
<1>4. cmd \in Command /\ answer \in Summary
    BY DEF GenInv, TypeInv
<1>5. /\ cmd' \in Command /\ cmd'.at = "persist" /\ cmd'.kind = cmd.kind
      /\ cmd'.cases = s /\ cmd'.ids = cmd.ids /\ cmd'.left = cmd.left /\ cmd'.all = cmd.all
    BY <1>1, <1>2, <1>4 DEF Command, Steps
<1>6. CommandInv' /\ Mine' = Mine
    BY <1>3, <1>5 DEF GenInv, CommandInv, Mine
<1>7. ToSet(cmd.left) \subseteq ToSet(cmd.ids) /\ (Gate => \A i \in Mine : ~Unscreened(i))
    BY <1>3 DEF GenInv, ScreenInv
<1> QED
    BY <1>2, <1>3, <1>4, <1>5, <1>6, <1>7, OnlyTheCommand

LEMMA PersistKeeps ==
    ASSUME GenInv, Persist
    PROVE  GenInv'
<1>1. /\ cmd.at = "persist" /\ cmd' = [cmd EXCEPT !.at = "write"]
      /\ prds' = prds \cup {ended + 1} /\ UNCHANGED <<store, uuids, ended, answer>>
    BY DEF Persist, At
<1>2. cmd \in Command /\ cmd.kind \notin MergedKinds /\ ended < Commands /\ ~answer.ok
      /\ cmd.ids = <<>> /\ cmd.left = <<>> /\ cmd.all = {}
    BY <1>1 DEF GenInv, TypeInv, CommandInv
<1>3. /\ cmd' \in Command /\ cmd'.at = "write" /\ cmd'.kind = cmd.kind
      /\ cmd'.cases = cmd.cases /\ cmd'.ids = <<>> /\ cmd'.left = cmd.left /\ cmd'.all = {}
    BY <1>1, <1>2 DEF Command, Steps
<1>4. TypeInv'
    <2>1. Commands \in Nat /\ ended \in 0 .. Commands /\ prds \subseteq 1 .. Commands
        BY GenerationAssumption DEF GenInv, TypeInv
    <2>2. prds' \subseteq 1 .. Commands
        BY <1>1, <1>2, <2>1
    <2> QED
        BY <1>1, <1>3, <2>2 DEF GenInv, TypeInv, Stored
<1>5. CommandInv'
    BY <1>1, <1>2, <1>3 DEF CommandInv
<1>6. PrdInv'
    BY <1>1, <1>3 DEF GenInv, PrdInv, StampedTestsHavePrd, Stored
<1>7. ScreenInv'
    BY <1>1, <1>2, <1>3, EmptyLists DEF GenInv, ScreenInv, Mine, Unscreened, Stored
<1>8. TitlesInv'
    BY <1>1, <1>2, <1>3 DEF GenInv, TitlesInv, MergedTitlesAreNew, Stored
<1>9. ImportInv'
    BY <1>1, <1>3 DEF GenInv, ImportInv, Judged, Stored
<1> QED
    BY <1>4, <1>5, <1>6, <1>7, <1>8, <1>9 DEF GenInv

LEMMA MeasureKeeps ==
    ASSUME GenInv, Measure
    PROVE  GenInv'
<1>1. PICK left \in Targets : NewPass(Cardinality(left))
    BY DEF Measure
<1>2. PICK n \in Nat : cmd' = [cmd EXCEPT !.at = "ask", !.round = @ + 1, !.prev = n, !.asked = 0,
                       !.failed = FALSE, !.cases = <<>>, !.ids = <<>>, !.pass = 0,
                       !.all = @ \cup ToSet(cmd.ids)]
    BY <1>1, TargetsAreFinite DEF NewPass
<1>3. cmd.at = "measure" /\ UNCHANGED <<store, uuids, prds, ended, answer>>
    BY DEF Measure, At
<1>4. cmd \in Command /\ answer \in Summary /\ NViews \in Nat
    BY GenerationAssumption DEF GenInv, TypeInv
<1>5. ToSet(cmd.ids) \subseteq Ids
    BY <1>4 DEF Command, ToSet
<1>6. /\ cmd' \in Command /\ cmd'.at = "ask" /\ cmd'.kind = cmd.kind
      /\ cmd'.cases = <<>> /\ cmd'.ids = <<>> /\ cmd'.left = cmd.left
      /\ cmd'.all = cmd.all \cup ToSet(cmd.ids)
    <2> DEFINE round == cmd.round + 1
               all   == cmd.all \cup ToSet(cmd.ids)
    <2>1. round \in Nat /\ all \in SUBSET Ids /\ 0 \in 0 .. NViews /\ "ask" \in Steps
        BY <1>4, <1>5 DEF Command, Steps
    <2>2. cmd' = [cmd EXCEPT !.at = "ask", !.round = round, !.prev = n, !.asked = 0,
                     !.failed = FALSE, !.cases = <<>>, !.ids = <<>>, !.pass = 0, !.all = all]
        BY <1>2
    <2> HIDE DEF round, all
    <2>3. /\ cmd' \in Command /\ cmd'.at = "ask" /\ cmd'.kind = cmd.kind
          /\ cmd'.cases = <<>> /\ cmd'.ids = <<>> /\ cmd'.left = cmd.left /\ cmd'.all = all
        BY <1>4, <2>1, <2>2, EmptyLists DEF Command
    <2> QED
        BY <2>3 DEF all
<1>7. CommandInv' /\ Mine' = Mine /\ cmd.left = <<>>
    BY <1>3, <1>6, EmptyLists DEF GenInv, CommandInv, Mine
<1>8. Gate => \A i \in Mine : ~Unscreened(i)
    BY <1>3 DEF GenInv, ScreenInv
<1> QED
    BY <1>3, <1>4, <1>6, <1>7, <1>8, EmptyLists, OnlyTheCommand

\* The command ends, with an error or with tests that have been screened.
LEMMA EndKeeps ==
    ASSUME GenInv, cmd.at # "idle", NEW a \in Summary, End(a), UNCHANGED <<store, uuids, prds>>,
           a.ids \subseteq Stored, Gate /\ a.ok => \A i \in a.ids : ~Unscreened(i)
    PROVE  GenInv'
<1>1. cmd' = Idle /\ ended' = ended + 1 /\ answer' = a
    BY DEF End
<1>2. /\ cmd' \in Command /\ cmd'.at = "idle" /\ cmd'.kind = "plan" /\ cmd'.ids = <<>>
      /\ cmd'.left = <<>> /\ cmd'.all = {} /\ cmd'.cases = <<>>
    BY <1>1, IdleIsCommand DEF Idle
<1>3. ended' \in 0 .. Commands
    BY <1>1, GenerationAssumption DEF GenInv, TypeInv, CommandInv
<1>4. TypeInv'
    BY <1>1, <1>2, <1>3 DEF GenInv, TypeInv, Stored
<1>5. CommandInv'
    BY <1>2 DEF CommandInv, MergedKinds
<1>6. PrdInv'
    BY <1>2 DEF GenInv, PrdInv, StampedTestsHavePrd, Stored
<1>7. ScreenInv'
    BY <1>1, <1>2, EmptyLists DEF ScreenInv, Mine, Unscreened, Stored
<1>8. TitlesInv'
    BY <1>2 DEF GenInv, TitlesInv, MergedTitlesAreNew, Stored
<1>9. ImportInv'
    BY <1>2, EmptyLists DEF GenInv, ImportInv, AllJudged, Judged, Stored
<1> QED
    BY <1>4, <1>5, <1>6, <1>7, <1>8, <1>9 DEF GenInv

LEMMA ReplyKeeps ==
    ASSUME GenInv, cmd.at # "idle", NEW ids, NEW quarantined, Reply(ids, quarantined),
           UNCHANGED <<store, uuids, prds>>, quarantined \subseteq Ids,
           ids \subseteq Stored, Gate => \A i \in ids : ~Unscreened(i)
    PROVE  GenInv'
<1> DEFINE a == [ok |-> TRUE, ids |-> ids, quarantined |-> quarantined]
<1>1. a \in Summary /\ a.ids = ids
    BY DEF GenInv, TypeInv, Summary
<1>2. End(a)
    BY DEF Reply
<1> HIDE DEF a
<1> QED
    BY <1>1, <1>2, EndKeeps

LEMMA FailKeeps ==
    ASSUME GenInv, Fail
    PROVE  GenInv'
<1>1. cmd.at # "idle" /\ End(Error) /\ UNCHANGED <<store, uuids, prds>>
    BY DEF Fail, At
<1>2. Error \in Summary /\ Error.ids = {} /\ ~Error.ok
    BY IdleIsCommand DEF Error
<1> QED
    BY <1>1, <1>2, EndKeeps

LEMMA MeasureDoneKeeps ==
    ASSUME GenInv, MeasureDone
    PROVE  GenInv'
<1>1. cmd.at = "measure" /\ UNCHANGED <<store, uuids, prds>>
      /\ Reply(cmd.all \cup ToSet(cmd.ids), cmd.quarantined)
    BY DEF MeasureDone, At
<1>2. cmd.quarantined \subseteq Ids
    BY DEF GenInv, TypeInv, Command
<1>3. Mine \subseteq Stored /\ (Gate => \A i \in Mine : ~Unscreened(i))
    BY <1>1 DEF GenInv, ScreenInv
<1> QED
    BY <1>1, <1>2, <1>3, ReplyKeeps DEF Mine

LEMMA AuditOnlyKeeps ==
    ASSUME GenInv, AuditOnly
    PROVE  GenInv'
BY ReplyKeeps DEF AuditOnly, AskedEnough, At

LEMMA AskKeeps ==
    ASSUME GenInv, AskView
    PROVE  GenInv'
<1>1. PICK s \in Answers, cost \in 0 .. MaxCost, failed \in BOOLEAN :
         cmd' = [cmd EXCEPT !.asked = @ + 1, !.cases = @ \o s,
                            !.failed = @ \/ failed, !.pass = @ + cost,
                            !.spent = IF cmd.kind = "cover" THEN @ + cost ELSE @]
    BY DEF AskView, Ask
<1>2. cmd.at = "ask" /\ cmd.asked < NViews /\ UNCHANGED <<store, uuids, prds, ended, answer>>
    BY DEF AskView, Ask, At
<1>3. cmd \in Command /\ answer \in Summary /\ NViews \in Nat /\ MaxCost \in Nat
    BY GenerationAssumption DEF GenInv, TypeInv
<1> DEFINE proposed == cmd.cases \o s
           asked == cmd.asked + 1
           fail  == cmd.failed \/ failed
           pass  == cmd.pass + cost
           spent == IF cmd.kind = "cover" THEN cmd.spent + cost ELSE cmd.spent
<1>4. proposed \in Seq(Case) /\ AllJudged(proposed)
    <2>1. s \in Seq(Case) /\ AllJudged(s)
        BY AnswersAreCases
    <2>2. cmd.cases \in Seq(Case) /\ AllJudged(cmd.cases)
        BY <1>3 DEF Command, GenInv, ImportInv, AllJudged
    <2> QED
        BY <2>1, <2>2 DEF AllJudged
<1>5. asked \in 0 .. NViews /\ fail \in BOOLEAN /\ pass \in Nat /\ spent \in Nat
    BY <1>2, <1>3 DEF Command
<1>6. cmd' = [cmd EXCEPT !.asked = asked, !.cases = proposed, !.failed = fail, !.pass = pass,
                         !.spent = spent]
    BY <1>1
<1> HIDE DEF proposed, asked, fail, pass, spent
<1>7. /\ cmd' \in Command /\ cmd'.at = cmd.at /\ cmd'.kind = cmd.kind
      /\ cmd'.cases = proposed /\ cmd'.ids = cmd.ids /\ cmd'.left = cmd.left /\ cmd'.all = cmd.all
    BY <1>3, <1>4, <1>5, <1>6 DEF Command
<1>8. CommandInv' /\ Mine' = Mine
    BY <1>2, <1>7 DEF GenInv, CommandInv, Mine
<1>9. ToSet(cmd.left) \subseteq ToSet(cmd.ids) /\ (Gate => \A i \in Mine : ~Unscreened(i))
    BY <1>2 DEF GenInv, ScreenInv
<1> QED
    BY <1>2, <1>3, <1>4, <1>7, <1>8, <1>9, OnlyTheCommand

\* Merged cases have titles of their own, and new ones.
LEMMA MergeKeeps ==
    ASSUME GenInv, Merge
    PROVE  GenInv'
<1> DEFINE merged == DedupeCases(cmd.cases)
           cleared == IF cmd.kind = "audit" THEN merged ELSE ClearDuplicateIds(merged)
           fresh == DropKnown(cleared)
<1>1. cmd.at = "ask" /\ UNCHANGED <<store, uuids, prds, ended, answer>>
      /\ cmd' = [cmd EXCEPT !.at = "write", !.cases = fresh]
    BY DEF Merge, AskedEnough, At
<1>2. cmd \in Command /\ answer \in Summary
    BY DEF GenInv, TypeInv
<1>3. cmd.cases \in Seq(Case) /\ AllJudged(cmd.cases)
    BY <1>2 DEF Command, GenInv, ImportInv, AllJudged
<1>4. merged \in Seq(Case) /\ AllJudged(merged) /\ Distinct(merged)
    BY <1>3, DedupeMakesDistinct
<1> HIDE DEF merged
<1>5. cleared \in Seq(Case) /\ AllJudged(cleared) /\ Distinct(cleared)
    BY <1>4, ClearKeepsDistinct
<1> HIDE DEF cleared
<1>6. /\ fresh \in Seq(Case) /\ AllJudged(fresh) /\ Distinct(fresh)
      /\ \A k \in DOMAIN fresh : \A i \in Stored : fresh[k].title # store[i].title
    BY <1>5, DropKeepsDistinct
<1> HIDE DEF fresh
<1>7. /\ cmd' \in Command /\ cmd'.at = "write" /\ cmd'.kind = cmd.kind
      /\ cmd'.cases = fresh /\ cmd'.ids = cmd.ids /\ cmd'.left = cmd.left /\ cmd'.all = cmd.all
    BY <1>1, <1>2, <1>6 DEF Command, Steps
<1>8. CommandInv' /\ Mine' = Mine /\ cmd.kind \in MergedKinds
    BY <1>1, <1>7 DEF GenInv, CommandInv, Mine
<1>9. ToSet(cmd.left) \subseteq ToSet(cmd.ids) /\ (Gate => \A i \in Mine : ~Unscreened(i))
    BY <1>1 DEF GenInv, ScreenInv
<1> QED
    BY <1>1, <1>2, <1>6, <1>7, <1>8, <1>9, OnlyTheCommand

-----------------------------------------------------------------------------
(* Steps that write *)

LEMMA StoreCaseKeeps ==
    ASSUME GenInv, StoreCase
    PROVE  GenInv'
<1> DEFINE c   == Head(cmd.cases)
           id  == IF c.id = NoId THEN <<"uuid", uuids + 1>> ELSE c.id
           new == [title |-> c.title,
                   prd   |-> IF cmd.kind \in MergedKinds THEN 0 ELSE ended + 1,
                   gate  |-> IF cmd.kind = "structured" THEN "exempt" ELSE "unscreened",
                   accepts |-> c.accepts, origin |-> c.origin]
           rest == Tail(cmd.cases)
           ids  == Append(cmd.ids, id)
<1>1. /\ cmd.at = "write" /\ cmd.cases # <<>>
      /\ store' = [i \in Stored \cup {id} |-> IF i = id THEN new ELSE store[i]]
      /\ uuids' = (IF c.id = NoId THEN uuids + 1 ELSE uuids)
      /\ cmd' = [cmd EXCEPT !.cases = rest, !.ids = ids]
      /\ UNCHANGED <<prds, ended, answer>>
    BY DEF StoreCase, At
<1>2. cmd \in Command /\ cmd.left = <<>> /\ ended < Commands /\ ~answer.ok
      /\ uuids \in Nat /\ ended \in 0 .. Commands /\ Commands \in Nat
    BY <1>1, GenerationAssumption DEF GenInv, TypeInv, CommandInv
<1>3. cmd.cases \in Seq(Case) /\ AllJudged(cmd.cases) /\ cmd.ids \in Seq(Ids)
    BY <1>2 DEF Command, GenInv, ImportInv, AllJudged
<1>4. /\ c \in Case /\ rest \in Seq(Case) /\ c = cmd.cases[1]
      /\ DOMAIN cmd.cases = 1 .. Len(cmd.cases) /\ Len(cmd.cases) \in Nat \ {0}
      /\ DOMAIN rest = 1 .. Len(cmd.cases) - 1
      /\ \A k \in DOMAIN rest : rest[k] = cmd.cases[k + 1]
    BY <1>1, <1>3, HeadAndTail
<1> HIDE DEF c, rest
<1>5. 1 \in DOMAIN cmd.cases /\ \A k \in DOMAIN rest : k + 1 \in DOMAIN cmd.cases /\ k + 1 # 1
    BY <1>4
<1>6. Judged(c) /\ AllJudged(rest)
    BY <1>3, <1>4, <1>5 DEF AllJudged
<1>7. id \in Ids /\ uuids' \in Nat
    BY <1>1, <1>2, <1>4 DEF Case, Ids
<1>8. /\ new \in Test /\ Judged(new) /\ new.title = c.title
      /\ new.prd = (IF cmd.kind \in MergedKinds THEN 0 ELSE ended + 1)
      /\ new.gate = (IF cmd.kind = "structured" THEN "exempt" ELSE "unscreened")
    <2> DEFINE stamp == IF cmd.kind \in MergedKinds THEN 0 ELSE ended + 1
               gate  == IF cmd.kind = "structured" THEN "exempt" ELSE "unscreened"
    <2>1. stamp \in 0 .. Commands /\ gate \in Screened \cup {"unscreened", "exempt"}
        BY <1>2
    <2>2. new = [title |-> c.title, prd |-> stamp, gate |-> gate,
                 accepts |-> c.accepts, origin |-> c.origin]
        OBVIOUS
    <2> HIDE DEF stamp, gate, new
    <2>3. c.title \in AllTitles /\ c.accepts \in SUBSET Statuses /\ c.origin \in Origins
        BY <1>4 DEF Case
    <2>4. /\ new \in Test /\ new.title = c.title /\ new.prd = stamp /\ new.gate = gate
          /\ new.accepts = c.accepts /\ new.origin = c.origin
        BY <2>1, <2>2, <2>3 DEF Test
    <2> QED
        BY <1>6, <2>4 DEF Judged, stamp, gate
<1> HIDE DEF new, id
<1>9. /\ Stored' = Stored \cup {id}
      /\ \A i \in Stored' : store'[i] = IF i = id THEN new ELSE store[i]
    BY <1>1 DEF Stored
<1>10. ids \in Seq(Ids) /\ ToSet(ids) = ToSet(cmd.ids) \cup {id}
    BY <1>3, <1>7, ToSetAppended
<1> HIDE DEF ids
<1>11. /\ cmd' \in Command /\ cmd'.at = "write" /\ cmd'.kind = cmd.kind
       /\ cmd'.cases = rest /\ cmd'.ids = ids /\ cmd'.left = <<>> /\ cmd'.all = cmd.all
    BY <1>1, <1>2, <1>4, <1>10 DEF Command
<1>12. TypeInv'
    <2>1. \A i \in Stored' : store'[i] \in Test /\ i \in Ids
        BY <1>7, <1>8, <1>9 DEF GenInv, TypeInv
    <2>2. store' \in [Stored' -> Test]
        BY <1>1, <1>9, <2>1
    <2> QED
        BY <1>1, <1>7, <1>11, <2>1, <2>2 DEF GenInv, TypeInv
<1>13. CommandInv'
    BY <1>1, <1>11 DEF GenInv, CommandInv
<1>14. PrdInv'
    <2>1. cmd.kind \notin MergedKinds => ended + 1 \in prds
        BY <1>1 DEF GenInv, PrdInv
    <2>2. \A i \in Stored' : store'[i].prd # 0 => store'[i].prd \in prds
        BY <1>8, <1>9, <2>1 DEF GenInv, PrdInv, StampedTestsHavePrd
    <2> QED
        BY <1>1, <1>11, <2>1, <2>2 DEF PrdInv, StampedTestsHavePrd
<1>15. ScreenInv'
    <2>1. Mine' = Mine \cup {id}
        BY <1>10, <1>11 DEF Mine
    <2>2. Mine' \subseteq Stored' /\ answer'.ids \subseteq Stored'
        BY <1>1, <1>9, <2>1 DEF GenInv, ScreenInv
    <2>3. ASSUME Gate, NEW i \in Mine', Unscreened(i)'
          PROVE  i \in ToSet(ids) /\ cmd.kind # "structured"
        <3>1. CASE i = id
            BY <1>8, <1>9, <1>10, <2>2, <2>3, <3>1 DEF Unscreened
        <3>2. CASE i # id
            <4>1. i \in Mine /\ Unscreened(i)
                BY <1>9, <2>1, <2>2, <2>3, <3>2 DEF Unscreened
            <4> QED
                BY <1>1, <1>10, <2>3, <4>1 DEF GenInv, ScreenInv
        <3> QED
            BY <3>1, <3>2
    <2> QED
        BY <1>1, <1>2, <1>11, <2>2, <2>3, EmptyLists DEF ScreenInv
<1>16. TitlesInv'
    <2>1. ASSUME cmd.kind \in MergedKinds
          PROVE  /\ \A i \in Stored : c.title # store[i].title
                 /\ \A k \in DOMAIN rest : /\ rest[k].title # c.title
                                           /\ \A i \in Stored : rest[k].title # store[i].title
                 /\ \A j, k \in DOMAIN rest : j # k => rest[j].title # rest[k].title
        <3>1. /\ \A k \in DOMAIN cmd.cases : \A i \in Stored : cmd.cases[k].title # store[i].title
              /\ \A j, k \in DOMAIN cmd.cases : j # k => cmd.cases[j].title # cmd.cases[k].title
            BY <1>1, <2>1 DEF GenInv, TitlesInv
        <3>2. \A j, k \in DOMAIN rest : j # k => j + 1 # k + 1
            BY <1>4
        <3> QED
            BY <1>4, <1>5, <3>1, <3>2
    <2>2. ASSUME NEW i \in Stored', NEW j \in Stored', i # j, store'[i].title = store'[j].title,
                 store'[i].prd = 0, store'[j].prd = 0
          PROVE  FALSE
        <3>1. CASE i # id /\ j # id
            BY <1>9, <2>2, <3>1 DEF GenInv, TitlesInv, MergedTitlesAreNew
        <3>2. CASE i = id \/ j = id
            <4>1. new.prd = 0
                BY <1>9, <2>2, <3>2
            <4>2. cmd.kind \in MergedKinds
                BY <1>2, <1>8, <4>1
            <4> QED
                BY <1>8, <1>9, <2>1, <2>2, <3>2, <4>2
        <3> QED
            BY <3>1, <3>2
    <2>3. MergedTitlesAreNew'
        BY <2>2 DEF MergedTitlesAreNew
    <2>4. cmd.kind \in MergedKinds =>
             \A k \in DOMAIN rest : \A i \in Stored' : rest[k].title # store'[i].title
        BY <1>8, <1>9, <2>1
    <2> QED
        BY <1>11, <2>1, <2>3, <2>4 DEF TitlesInv
<1>17. ImportInv'
    <2>1. \A i \in Stored' : Judged(store'[i])
        BY <1>8, <1>9 DEF GenInv, ImportInv
    <2> QED
        BY <1>6, <1>11, <2>1 DEF ImportInv, AllJudged, Judged
<1> QED
    BY <1>12, <1>13, <1>14, <1>15, <1>16, <1>17 DEF GenInv

LEMMA StoreDoneKeeps ==
    ASSUME GenInv, StoreDone
    PROVE  GenInv'
<1>1. cmd.at = "write" /\ cmd.cases = <<>>
    BY DEF StoreDone, At
<1>2. Mine \subseteq Stored /\ ToSet(cmd.ids) \subseteq Mine
    BY DEF GenInv, ScreenInv, Mine
<1>3. CASE cmd.kind = "structured"
    <2>1. Reply(ToSet(cmd.ids), {}) /\ UNCHANGED <<store, uuids, prds>>
        BY <1>3 DEF StoreDone
    <2>2. Gate => \A i \in ToSet(cmd.ids) : ~Unscreened(i)
        BY <1>1, <1>2, <1>3 DEF GenInv, ScreenInv
    <2> QED
        BY <1>1, <1>2, <2>1, <2>2, ReplyKeeps
<1>4. CASE cmd.kind # "structured"
    <2> DEFINE left == IF Gate THEN cmd.ids ELSE <<>>
    <2>1. cmd' = [cmd EXCEPT !.at = "screen", !.left = left]
          /\ UNCHANGED <<store, uuids, prds, ended, answer>>
        BY <1>4 DEF StoreDone, ToScreen
    <2>2. cmd \in Command /\ answer \in Summary
        BY DEF GenInv, TypeInv
    <2>3. left \in Seq(Ids) /\ ToSet(left) \subseteq ToSet(cmd.ids)
        BY <2>2, EmptyLists DEF Command
    <2>4. Gate => left = cmd.ids
        OBVIOUS
    <2> HIDE DEF left
    <2>5. /\ cmd' \in Command /\ cmd'.at = "screen" /\ cmd'.kind = cmd.kind
          /\ cmd'.cases = <<>> /\ cmd'.ids = cmd.ids /\ cmd'.left = left /\ cmd'.all = cmd.all
        BY <1>1, <2>1, <2>2, <2>3 DEF Command, Steps
    <2>6. CommandInv' /\ Mine' = Mine
        BY <1>1, <1>4, <2>1, <2>5 DEF GenInv, CommandInv, Mine
    <2>7. Gate => \A i \in Mine : Unscreened(i) => i \in ToSet(left)
        BY <1>1, <2>4 DEF GenInv, ScreenInv
    <2> QED
        BY <2>1, <2>2, <2>3, <2>5, <2>6, <2>7, EmptyLists, OnlyTheCommand
<1> QED
    BY <1>3, <1>4

\* A test that is judged keeps all but its mark.
LEMMA Marked ==
    ASSUME GenInv, NEW id \in Stored, NEW g \in Screened \cup {"exempt"},
           store' = [store EXCEPT ![id].gate = g]
    PROVE  /\ Stored' = Stored /\ store' \in [Stored -> Test]
           /\ \A i \in Stored : /\ store'[i].title = store[i].title
                                /\ store'[i].prd = store[i].prd
                                /\ store'[i].origin = store[i].origin
                                /\ store'[i].accepts = store[i].accepts
                                /\ store'[i].gate = IF i = id THEN g ELSE store[i].gate
<1>1. store \in [Stored -> Test]
    BY DEF GenInv, TypeInv
<1> DEFINE new == [store[id] EXCEPT !.gate = g]
<1>2. new \in Test /\ new.gate = g /\ new.title = store[id].title /\ new.prd = store[id].prd
      /\ new.origin = store[id].origin /\ new.accepts = store[id].accepts
    <2>1. store[id] \in Test
        BY <1>1
    <2> QED
        BY <2>1 DEF Test
<1>3. store' = [store EXCEPT ![id] = new]
    OBVIOUS
<1> HIDE DEF new
<1>4. Stored' = Stored /\ \A i \in Stored : store'[i] = IF i = id THEN new ELSE store[i]
    BY <1>1, <1>3 DEF Stored
<1>5. store' \in [Stored -> Test]
    BY <1>1, <1>2, <1>3
<1> QED
    BY <1>2, <1>4, <1>5

\* ... and so the rest of the invariant.
LEMMA MarkedKeeps ==
    ASSUME GenInv, NEW id \in Stored, NEW g \in Screened \cup {"exempt"},
           store' = [store EXCEPT ![id].gate = g],
           UNCHANGED <<uuids, prds, ended, answer>>,
           cmd' \in Command, cmd'.at = cmd.at, cmd'.kind = cmd.kind, cmd'.all = cmd.all,
           cmd'.ids = cmd.ids, cmd'.cases = cmd.cases, cmd.at \in {"screen", "faultcheck"},
           cmd.left # <<>>, id = Head(cmd.left), cmd'.left = Tail(cmd.left)
    PROVE  GenInv'
<1>1. /\ Stored' = Stored /\ store' \in [Stored -> Test]
      /\ \A i \in Stored : /\ store'[i].title = store[i].title
                           /\ store'[i].prd = store[i].prd
                           /\ store'[i].origin = store[i].origin
                           /\ store'[i].accepts = store[i].accepts
                           /\ store'[i].gate = IF i = id THEN g ELSE store[i].gate
    BY Marked
<1>2. cmd.left \in Seq(Ids)
    BY DEF GenInv, TypeInv, Command
<1>3. ToSet(cmd.left) = ToSet(Tail(cmd.left)) \cup {id}
    BY <1>2, HeadAndTail
<1>4. TypeInv'
    BY <1>1 DEF GenInv, TypeInv
<1>5. CommandInv'
    BY DEF GenInv, CommandInv
<1>6. PrdInv'
    BY <1>1 DEF GenInv, PrdInv, StampedTestsHavePrd
<1>7. ScreenInv'
    <2>1. Mine' = Mine /\ Mine \subseteq Stored /\ g # "unscreened" /\ ~answer.ok
        BY DEF Mine, GenInv, ScreenInv, CommandInv, Screened
    <2>2. \A i \in Mine : Unscreened(i)' => Unscreened(i) /\ i # id
        BY <1>1, <2>1 DEF Unscreened
    <2> QED
        BY <1>1, <1>3, <2>1, <2>2 DEF GenInv, ScreenInv
<1>8. TitlesInv'
    BY <1>1 DEF GenInv, TitlesInv, MergedTitlesAreNew
<1>9. ImportInv'
    BY <1>1 DEF GenInv, ImportInv, Judged
<1> QED
    BY <1>4, <1>5, <1>6, <1>7, <1>8, <1>9 DEF GenInv

LEMMA NextToJudge ==
    ASSUME GenInv, cmd.left # <<>>
    PROVE  /\ cmd.left \in Seq(Ids) /\ Head(cmd.left) \in Ids /\ Tail(cmd.left) \in Seq(Ids)
           /\ Head(cmd.left) \in Stored
           /\ ToSet(Tail(cmd.left)) \subseteq ToSet(cmd.left)
<1>1. cmd.left \in Seq(Ids)
    BY DEF GenInv, TypeInv, Command
<1>2. /\ Head(cmd.left) \in Ids /\ Tail(cmd.left) \in Seq(Ids)
      /\ ToSet(cmd.left) = ToSet(Tail(cmd.left)) \cup {Head(cmd.left)}
    BY <1>1, HeadAndTail
<1> QED
    BY <1>1, <1>2 DEF GenInv, ScreenInv, Mine

LEMMA ScreenCaseKeeps ==
    ASSUME GenInv, ScreenCase
    PROVE  GenInv'
<1> DEFINE id == Head(cmd.left)
           left == Tail(cmd.left)
<1>1. PICK g \in Screened :
         /\ store' = [store EXCEPT ![id].gate = IF @ = "quarantined" THEN @ ELSE g]
         /\ cmd' = [cmd EXCEPT !.left = left,
                       !.quarantined = IF g = "quarantined" THEN @ \cup {id} ELSE @]
    BY DEF ScreenCase
<1>2. cmd.at = "screen" /\ cmd.left # <<>> /\ UNCHANGED <<uuids, prds, ended, answer>>
    BY DEF ScreenCase, At
<1>3. id \in Stored /\ id \in Ids /\ left \in Seq(Ids) /\ cmd \in Command
    BY <1>2, NextToJudge DEF GenInv, TypeInv
<1> DEFINE h == IF store[id].gate = "quarantined" THEN store[id].gate ELSE g
           q == IF g = "quarantined" THEN cmd.quarantined \cup {id} ELSE cmd.quarantined
<1>4. h \in Screened /\ q \in SUBSET Ids
    BY <1>3 DEF Screened, Command
<1>5. store' = [store EXCEPT ![id].gate = h] /\ cmd' = [cmd EXCEPT !.left = left, !.quarantined = q]
    BY <1>1
<1>i. id = Head(cmd.left) /\ left = Tail(cmd.left)
    OBVIOUS
<1> HIDE DEF h, q, id, left
<1>6. /\ cmd' \in Command /\ cmd'.at = cmd.at /\ cmd'.kind = cmd.kind
      /\ cmd'.cases = cmd.cases /\ cmd'.ids = cmd.ids /\ cmd'.left = left /\ cmd'.all = cmd.all
    BY <1>3, <1>4, <1>5 DEF Command
<1> QED
    BY <1>2, <1>3, <1>4, <1>5, <1>6, <1>i, MarkedKeeps

LEMMA ScreenDoneKeeps ==
    ASSUME GenInv, ScreenDone
    PROVE  GenInv'
<1>1. cmd.at = "screen" /\ cmd.left = <<>> /\ UNCHANGED <<store, uuids, prds>>
    BY DEF ScreenDone, At
<1>2. cmd \in Command /\ answer \in Summary /\ cmd.kind # "structured"
    BY <1>1 DEF GenInv, TypeInv, CommandInv
<1>3. Mine \subseteq Stored /\ ToSet(cmd.ids) \subseteq Mine
      /\ (Gate => \A i \in Mine : ~Unscreened(i))
    BY <1>1, EmptyLists DEF GenInv, ScreenInv, Mine
<1>4. CASE cmd.kind = "cover"
    <2>1. cmd' = [cmd EXCEPT !.at = "measure"] /\ UNCHANGED <<ended, answer>>
        BY <1>4 DEF ScreenDone
    <2>2. /\ cmd' \in Command /\ cmd'.at = "measure" /\ cmd'.kind = cmd.kind
          /\ cmd'.cases = cmd.cases /\ cmd'.ids = cmd.ids /\ cmd'.left = <<>> /\ cmd'.all = cmd.all
        BY <1>1, <1>2, <2>1 DEF Command, Steps
    <2>3. CommandInv' /\ Mine' = Mine
        BY <1>1, <1>4, <2>1, <2>2 DEF GenInv, CommandInv, Mine, MergedKinds
    <2>4. AllJudged(cmd.cases)
        BY DEF GenInv, ImportInv, AllJudged
    <2> QED
        BY <1>1, <1>2, <1>3, <2>1, <2>2, <2>3, <2>4, EmptyLists, OnlyTheCommand
<1>5. CASE cmd.kind = "checked"
    <2>1. cmd' = [cmd EXCEPT !.at = "faultcheck", !.left = cmd.ids, !.quarantined = {}]
          /\ UNCHANGED <<ended, answer>>
        BY <1>5 DEF ScreenDone
    <2>2. /\ cmd' \in Command /\ cmd'.at = "faultcheck" /\ cmd'.kind = cmd.kind
          /\ cmd'.cases = cmd.cases /\ cmd'.ids = cmd.ids /\ cmd'.left = cmd.ids
          /\ cmd'.all = cmd.all
        BY <1>1, <1>2, <2>1 DEF Command, Steps
    <2>3. CommandInv' /\ Mine' = Mine
        BY <1>1, <1>5, <2>1, <2>2 DEF GenInv, CommandInv, Mine, MergedKinds
    <2>4. AllJudged(cmd.cases)
        BY DEF GenInv, ImportInv, AllJudged
    <2> QED
        BY <1>1, <1>2, <1>3, <2>1, <2>2, <2>3, <2>4, OnlyTheCommand
<1>6. CASE cmd.kind \notin {"cover", "checked"}
    <2> DEFINE q == IF cmd.kind = "audit" THEN {} ELSE cmd.quarantined
    <2>1. Reply(ToSet(cmd.ids), q)
        BY <1>6 DEF ScreenDone
    <2>2. q \subseteq Ids
        BY <1>2 DEF Command
    <2> HIDE DEF q
    <2> QED
        BY <1>1, <1>3, <2>1, <2>2, ReplyKeeps
<1> QED
    BY <1>4, <1>5, <1>6

LEMMA FaultCheckCaseKeeps ==
    ASSUME GenInv, FaultCheckCase
    PROVE  GenInv'
<1> DEFINE id == Head(cmd.left)
           left == Tail(cmd.left)
<1>1. cmd.at = "faultcheck" /\ cmd.left # <<>> /\ UNCHANGED <<uuids, prds, ended, answer>>
    BY DEF FaultCheckCase, At
<1>2. id \in Stored /\ id \in Ids /\ left \in Seq(Ids) /\ cmd \in Command /\ answer \in Summary
      /\ ToSet(left) \subseteq ToSet(cmd.left)
    BY <1>1, NextToJudge DEF GenInv, TypeInv
<1>i. id = Head(cmd.left) /\ left = Tail(cmd.left)
    OBVIOUS
<1>3. CASE store' = [store EXCEPT ![id].gate = "quarantined"]
           /\ cmd' = [cmd EXCEPT !.left = left, !.quarantined = @ \cup {id}]
    <2> HIDE DEF id, left
    <2>1. /\ cmd' \in Command /\ cmd'.at = cmd.at /\ cmd'.kind = cmd.kind
          /\ cmd'.cases = cmd.cases /\ cmd'.ids = cmd.ids /\ cmd'.left = left
          /\ cmd'.all = cmd.all
        BY <1>2, <1>3 DEF Command
    <2>2. "quarantined" \in Screened \cup {"exempt"}
        BY DEF Screened
    <2> QED
        BY <1>1, <1>2, <1>3, <1>i, <2>1, <2>2, MarkedKeeps
<1>4. CASE UNCHANGED store /\ cmd' = [cmd EXCEPT !.left = left]
    <2> HIDE DEF id, left
    <2>1. /\ cmd' \in Command /\ cmd'.at = "faultcheck" /\ cmd'.kind = cmd.kind
          /\ cmd'.cases = cmd.cases /\ cmd'.ids = cmd.ids /\ cmd'.left = left
          /\ cmd'.all = cmd.all
        BY <1>1, <1>2, <1>4 DEF Command
    <2>2. CommandInv' /\ Mine' = Mine
        BY <1>1, <2>1 DEF GenInv, CommandInv, Mine
    <2>3. AllJudged(cmd.cases) /\ ToSet(left) \subseteq ToSet(cmd.ids)
        BY <1>2 DEF GenInv, ImportInv, ScreenInv, AllJudged
    <2>4. Gate => \A i \in Mine : ~Unscreened(i)
        BY <1>1 DEF GenInv, ScreenInv
    <2> QED
        BY <1>1, <1>2, <1>4, <2>1, <2>2, <2>3, <2>4, OnlyTheCommand
<1> QED
    BY <1>3, <1>4 DEF FaultCheckCase

LEMMA FaultCheckDoneKeeps ==
    ASSUME GenInv, FaultCheckDone
    PROVE  GenInv'
<1>1. cmd.at = "faultcheck" /\ UNCHANGED <<store, uuids, prds>>
      /\ Reply(ToSet(cmd.ids), cmd.quarantined)
    BY DEF FaultCheckDone, At
<1>2. cmd.quarantined \subseteq Ids
    BY DEF GenInv, TypeInv, Command
<1>3. ToSet(cmd.ids) \subseteq Stored /\ (Gate => \A i \in ToSet(cmd.ids) : ~Unscreened(i))
    BY <1>1 DEF GenInv, ScreenInv, Mine
<1> QED
    BY <1>1, <1>2, <1>3, ReplyKeeps

\* What a command at work has promised of its cases, and what the store holds
\* of the cases of earlier ones, for any documents and models (Generation).
THEOREM GenInvariance == Spec => []GenInv
<1>1. GenInv /\ [Next]_vars => GenInv'
    <2> SUFFICES ASSUME GenInv, [Next]_vars PROVE GenInv'
        OBVIOUS
    <2>1. CASE UNCHANGED vars
        BY <2>1 DEF vars, GenInv, TypeInv, CommandInv, PrdInv, StampedTestsHavePrd, ScreenInv, Mine,
                    Unscreened, TitlesInv, MergedTitlesAreNew, ImportInv, Judged, Stored
    <2>2. CASE Next
        BY <2>2, StartKeeps, ProposeKeeps, PersistKeeps, MeasureKeeps, MeasureDoneKeeps, AskKeeps,
           MergeKeeps, AuditOnlyKeeps, StoreCaseKeeps, StoreDoneKeeps, ScreenCaseKeeps,
           ScreenDoneKeeps, FaultCheckCaseKeeps, FaultCheckDoneKeeps, FailKeeps DEF Next
    <2> QED
        BY <2>1, <2>2
<1> QED
    BY <1>1, GenInitInv, PTL DEF Spec

\* For any documents, models and failures: a stored test that names a PRD names
\* a stored one (persist_prd before store_cases, generate.rs:156).
THEOREM StampedPrdsAreStored == Spec => []StampedTestsHavePrd
<1>1. GenInv => StampedTestsHavePrd
    BY DEF GenInv, PrdInv
<1> QED
    BY <1>1, GenInvariance, PTL

\* For any number of commands, views and rounds: what units passes and audits
\* add never has the title of a test that one of them added before
\* (dedupe_cases, drop_known_duplicates).
THEOREM AddedTitlesDiffer == Spec => []MergedTitlesAreNew
<1>1. GenInv => MergedTitlesAreNew
    BY DEF GenInv, TitlesInv
<1> QED
    BY <1>1, GenInvariance, PTL

\* For any number of commands, views and rounds: a test a command answers with
\* has been screened, unless a document yields it (screen_if, generate.rs:249).
THEOREM AnsweredTestsAreScreened == Spec => []AnswersAreScreened
<1>1. GenInv => AnswersAreScreened
    BY DEF GenInv, ScreenInv, AnswersAreScreened, Unscreened
<1> QED
    BY <1>1, GenInvariance, PTL

\* For any documents: a test imported from an API document does not pass on an
\* endpoint that is walled off, missing or broken (expect_for, apidoc.rs:20).
THEOREM ImportedTestsJudge == Spec => []ImportsJudgeMissing
<1>1. GenInv => ImportsJudgeMissing
    BY DEF GenInv, ImportInv, Judged, ImportsJudgeMissing
<1> QED
    BY <1>1, GenInvariance, PTL

=============================================================================
