----------------------- MODULE EvaluationContractProofs -----------------------
(* Proofs about what an evaluation is held to. ChallengeContract, for any      *)
(* challenge directories and any results: what is published can be run, its    *)
(* public bundle shows nothing private, and stored results are compared by one *)
(* order. ContractInv follows what a bundle was checked for into the job the   *)
(* runner reads. SolutionSession, for any limits, any output trees and any     *)
(* number of runs: what an attempt lets out is bounded and redacted, and a     *)
(* session the worker accepts was accepted by its evaluator. SessionInv        *)
(* follows pumps and verdict through the select loop and its aftermath.        *)
EXTENDS ChallengeContract, SolutionSession, FiniteSetTheorems, WellFoundedInduction, TLAPS

-----------------------------------------------------------------------------
(* The comparison of two payloads.                                            *)

\* A payload a result was accepted with: finite values, each metric at most once.
Payload(m) ==
    /\ \A i \in DOMAIN m : m[i].value \in Int \ {NotFinite}
    /\ \A i, k \in DOMAIN m : m[i].name = m[k].name => i = k

\* What such a payload may have for a metric.
Readings == {{}} \cup {{v} : v \in Int \ {NotFinite}}

LEMMA ValueIsAReading ==
    ASSUME NEW m, Payload(m), NEW name
    PROVE  ValueOf(m, name) \in Readings
<1>1. CASE \A i \in DOMAIN m : m[i].name # name
  BY <1>1 DEF ValueOf, Readings
<1>2. CASE \E i \in DOMAIN m : m[i].name = name
  <2>1. PICK i \in DOMAIN m : m[i].name = name
    BY <1>2
  <2>2. {k \in DOMAIN m : m[k].name = name} = {i}
    BY <2>1 DEF Payload
  <2>3. ValueOf(m, name) = {m[i].value}
    BY <2>2 DEF ValueOf
  <2> QED
    BY <2>3 DEF Payload, Readings
<1> QED
  BY <1>1, <1>2

\* How two readings compare, with the cases named.
LEMMA CompareReadings ==
    ASSUME NEW d
    PROVE  /\ CompareByDirection(d, {}, {}) = 0
           /\ \A v : /\ CompareByDirection(d, {v}, {}) = -1
                     /\ CompareByDirection(d, {}, {v}) = 1
           /\ \A v, w \in Int \ {NotFinite} :
                 CompareByDirection(d, {v}, {w}) =
                   IF v = w THEN 0
                   ELSE IF (v < w) <=> (d = "minimize") THEN -1 ELSE 1
<1>1. Cardinality({}) = 0
  BY FS_EmptySet
<1>2. \A v : Cardinality({v}) = 1
  BY FS_Singleton
<1>3. \A v : {v} # {} /\ (CHOOSE x \in {v} : TRUE) = v
  OBVIOUS
<1>4. \A v, w \in Int \ {NotFinite} :
        CompareNumbers(v, w) = IF v = w THEN 0 ELSE IF v < w THEN -1 ELSE 1
  BY DEF CompareNumbers
<1>5. ASSUME NEW v \in Int \ {NotFinite}, NEW w \in Int \ {NotFinite}
      PROVE  CompareByDirection(d, {v}, {w}) =
               IF d = "minimize" THEN CompareNumbers(v, w) ELSE CompareNumbers(w, v)
  BY <1>3 DEF CompareByDirection
<1>6. CompareByDirection(d, {}, {}) = 0
  BY <1>1 DEF CompareByDirection
<1>7. ASSUME NEW v
      PROVE  CompareByDirection(d, {v}, {}) = -1 /\ CompareByDirection(d, {}, {v}) = 1
  BY <1>1, <1>2 DEF CompareByDirection
<1>8. ASSUME NEW v \in Int \ {NotFinite}, NEW w \in Int \ {NotFinite}
      PROVE  CompareByDirection(d, {v}, {w}) =
               IF v = w THEN 0
               ELSE IF (v < w) <=> (d = "minimize") THEN -1 ELSE 1
  <2>1. CASE d = "minimize"
    BY <1>4, <1>5, <2>1
  <2>2. CASE d # "minimize"
    BY <1>4, <1>5, <2>2
  <2> QED
    BY <2>1, <2>2
<1> QED
  BY <1>6, <1>7, <1>8

\* On readings the comparison is an order: antisymmetric, transitive, and
\* indifferent between the ends only if it is between every two.
LEMMA ReadingsAreOrdered ==
    ASSUME NEW d, NEW a \in Readings, NEW b \in Readings, NEW c \in Readings
    PROVE  /\ CompareByDirection(d, a, b) \in Int
           /\ CompareByDirection(d, a, b) = - CompareByDirection(d, b, a)
           /\ CompareByDirection(d, a, b) <= 0 /\ CompareByDirection(d, b, c) <= 0 =>
                /\ CompareByDirection(d, a, c) <= 0
                /\ CompareByDirection(d, a, c) = 0 =>
                     CompareByDirection(d, a, b) = 0 /\ CompareByDirection(d, b, c) = 0
<1>1. \A r \in Readings : r = {} \/ \E v \in Int \ {NotFinite} : r = {v}
  BY DEF Readings
<1> DEFINE Cmp(x, y) == CompareByDirection(d, x, y)
           Ordered(x, y, z) ==
             /\ Cmp(x, y) \in Int /\ Cmp(x, y) = - Cmp(y, x)
             /\ Cmp(x, y) <= 0 /\ Cmp(y, z) <= 0 =>
                  Cmp(x, z) <= 0 /\ (Cmp(x, z) = 0 => Cmp(x, y) = 0 /\ Cmp(y, z) = 0)
<1>2. /\ Cmp({}, {}) = 0
      /\ \A v : Cmp({v}, {}) = -1 /\ Cmp({}, {v}) = 1
      /\ \A v, w \in Int \ {NotFinite} :
            Cmp({v}, {w}) = IF v = w THEN 0
                            ELSE IF (v < w) <=> (d = "minimize") THEN -1 ELSE 1
  BY CompareReadings
<1> HIDE DEF Cmp
<1>3. Ordered({}, {}, {})
  BY <1>2
<1>4. ASSUME NEW v \in Int \ {NotFinite}
      PROVE  /\ Ordered({v}, {}, {}) /\ Ordered({}, {v}, {}) /\ Ordered({}, {}, {v})
  <2>1. Cmp({v}, {}) = -1 /\ Cmp({}, {v}) = 1 /\ Cmp({}, {}) = 0
    BY <1>2, Zenon
  <2> QED
    BY <2>1
<1>5. ASSUME NEW v \in Int \ {NotFinite}, NEW w \in Int \ {NotFinite}
      PROVE  Ordered({v}, {w}, {}) /\ Ordered({v}, {}, {w}) /\ Ordered({}, {v}, {w})
  <2>1. /\ Cmp({v}, {}) = -1 /\ Cmp({}, {v}) = 1
        /\ Cmp({w}, {}) = -1 /\ Cmp({}, {w}) = 1
    BY <1>2, Zenon
  <2>2. Cmp({v}, {w}) \in {-1, 0, 1} /\ Cmp({v}, {w}) = - Cmp({w}, {v})
    BY <1>2
  <2> QED
    BY <2>1, <2>2
<1>6. ASSUME NEW u \in Int \ {NotFinite}, NEW v \in Int \ {NotFinite},
             NEW w \in Int \ {NotFinite}
      PROVE  Ordered({u}, {v}, {w})
  <2>0. \A x, y \in {u, v, w} :
          Cmp({x}, {y}) = IF x = y THEN 0
                          ELSE IF (x < y) <=> (d = "minimize") THEN -1 ELSE 1
    BY <1>2
  <2> DEFINE uv == Cmp({u}, {v})  vu == Cmp({v}, {u})
             vw == Cmp({v}, {w})  uw == Cmp({u}, {w})
  <2>1. /\ uv = IF u = v THEN 0 ELSE IF (u < v) <=> (d = "minimize") THEN -1 ELSE 1
        /\ vu = IF v = u THEN 0 ELSE IF (v < u) <=> (d = "minimize") THEN -1 ELSE 1
        /\ vw = IF v = w THEN 0 ELSE IF (v < w) <=> (d = "minimize") THEN -1 ELSE 1
        /\ uw = IF u = w THEN 0 ELSE IF (u < w) <=> (d = "minimize") THEN -1 ELSE 1
    BY <2>0
  <2>2. /\ uv \in Int /\ uv = - vu
        /\ uv <= 0 /\ vw <= 0 => uw <= 0 /\ (uw = 0 => uv = 0 /\ vw = 0)
    <3> HIDE DEF uv, vu, vw, uw
    <3> QED
      BY <2>1
  <2> QED
    BY <2>2
<1> HIDE DEF Ordered
<1>7. Ordered(a, b, c)
  <2>0. /\ a = {} \/ \E v \in Int \ {NotFinite} : a = {v}
        /\ b = {} \/ \E v \in Int \ {NotFinite} : b = {v}
        /\ c = {} \/ \E v \in Int \ {NotFinite} : c = {v}
    BY <1>1
  <2>1. CASE a = {} /\ b = {}
    BY <1>3, <1>4, <2>0, <2>1, Zenon
  <2>2. CASE a = {} /\ b # {}
    BY <1>4, <1>5, <2>0, <2>2, Zenon
  <2>3. CASE a # {} /\ b = {}
    BY <1>4, <1>5, <2>0, <2>3, Zenon
  <2>4. CASE a # {} /\ b # {}
    <3>1. PICK u, v \in Int \ {NotFinite} : a = {u} /\ b = {v}
      BY <2>0, <2>4
    <3>2. CASE c = {}
      BY <1>5, <3>1, <3>2
    <3>3. CASE c # {}
      <4>1. PICK w \in Int \ {NotFinite} : c = {w}
        BY <2>0, <3>3
      <4> QED
        BY <1>6, <3>1, <4>1
    <3> QED
      BY <3>2, <3>3
  <2> QED
    BY <2>1, <2>2, <2>3, <2>4
<1> QED
  BY <1>7 DEF Ordered, Cmp

-----------------------------------------------------------------------------
(* The ranking.                                                               *)

\* The metrics of a ranking in their order, and how metric i of it compares.
RankOrder(schema) == <<schema.primary>> \o schema.ties
RankDirection(schema, name) == (CHOOSE d \in Range(schema.metrics) : d.name = name).direction
RankKey(schema, i, a, b) ==
    CompareByDirection(RankDirection(schema, RankOrder(schema)[i]),
                       ValueOf(a, RankOrder(schema)[i]), ValueOf(b, RankOrder(schema)[i]))
RankKeys(schema) == DOMAIN RankOrder(schema)

LEMMA KeysAreOrdered ==
    ASSUME NEW schema, NEW a, NEW b, NEW c, Payload(a), Payload(b), Payload(c), NEW i
    PROVE  /\ RankKey(schema, i, a, b) \in Int
           /\ RankKey(schema, i, a, b) = - RankKey(schema, i, b, a)
           /\ RankKey(schema, i, a, b) <= 0 /\ RankKey(schema, i, b, c) <= 0 =>
                /\ RankKey(schema, i, a, c) <= 0
                /\ RankKey(schema, i, a, c) = 0 =>
                     RankKey(schema, i, a, b) = 0 /\ RankKey(schema, i, b, c) = 0
  BY ValueIsAReading, ReadingsAreOrdered DEF RankKey

\* A set of positions has a least one.
LEMMA LeastPosition ==
    ASSUME NEW S \in SUBSET Nat, S # {}
    PROVE  \E i \in S : \A k \in S : i <= k
<1>1. PICK n \in S : \A m \in S : <<m, n>> \notin OpToRel(<, Nat)
  BY NatLessThanWellFounded, WFMin, Zenon
<1>2. \A m \in S : m \in Nat /\ n \in Nat /\ <<m, n>> \in Nat \X Nat
  OBVIOUS
<1>3. \A m \in S : ~ (m < n)
  BY <1>1, <1>2 DEF OpToRel
<1> QED
  BY <1>2, <1>3

\* The first metric that tells two payloads apart decides between them.
LEMMA RankingDecides ==
    ASSUME NEW schema, schema.ties \in Seq(STRING), NEW a, NEW b
    PROVE  /\ RankKeys(schema) \subseteq Nat
           /\ \/ /\ \A i \in RankKeys(schema) : RankKey(schema, i, a, b) = 0
                 /\ CompareByRanking(schema, a, b) = 0
              \/ \E i \in RankKeys(schema) :
                   /\ RankKey(schema, i, a, b) # 0
                   /\ \A k \in RankKeys(schema) : k < i => RankKey(schema, k, a, b) = 0
                   /\ CompareByRanking(schema, a, b) = RankKey(schema, i, a, b)
<1> DEFINE deciding == {i \in RankKeys(schema) : RankKey(schema, i, a, b) # 0}
<1>1. RankKeys(schema) \subseteq Nat
  BY DEF RankKeys, RankOrder
<1>2. CompareByRanking(schema, a, b) =
        IF deciding = {} THEN 0
        ELSE RankKey(schema, CHOOSE i \in deciding : \A k \in deciding : i <= k, a, b)
  BY DEF CompareByRanking, RankKey, RankKeys, RankOrder, RankDirection
<1>3. CASE deciding = {}
  BY <1>1, <1>2, <1>3
<1>4. CASE deciding # {}
  <2>1. PICK i \in deciding : /\ \A k \in deciding : i <= k
                              /\ i = CHOOSE j \in deciding : \A k \in deciding : j <= k
    BY <1>1, <1>4, LeastPosition
  <2>2. CompareByRanking(schema, a, b) = RankKey(schema, i, a, b)
    BY <1>2, <1>4, <2>1
  <2>3. \A k \in RankKeys(schema) : k < i => RankKey(schema, k, a, b) = 0
    BY <1>1, <2>1
  <2> QED
    BY <1>1, <2>1, <2>2, <2>3
<1> QED
  BY <1>3, <1>4

LEMMA Opposites ==
    ASSUME NEW x, NEW y, x = 0, y = 0
    PROVE  x = - y
<1>1. \A m, n \in Int : m + n = 0 => m = - n
  OBVIOUS
<1>2. x \in Int /\ y \in Int /\ x + y = 0
  OBVIOUS
<1> QED
  BY <1>1, <1>2

LEMMA RankingIsAntisymmetric ==
    ASSUME NEW schema, schema.ties \in Seq(STRING), NEW a, NEW b, Payload(a), Payload(b)
    PROVE  CompareByRanking(schema, a, b) = - CompareByRanking(schema, b, a)
<1> DEFINE ab(i) == RankKey(schema, i, a, b)
           ba(i) == RankKey(schema, i, b, a)
<1>1. \A i : ab(i) \in Int /\ ba(i) \in Int /\ ab(i) = - ba(i)
  BY KeysAreOrdered
<1>2. RankKeys(schema) \subseteq Nat
  BY RankingDecides
<1>3. CASE \A i \in RankKeys(schema) : ab(i) = 0
  <2>1. CompareByRanking(schema, a, b) = 0
    BY <1>3, RankingDecides
  <2>2. \A i \in RankKeys(schema) : ba(i) = 0
    BY <1>1, <1>3
  <2>3. CompareByRanking(schema, b, a) = 0
    BY <2>2, RankingDecides
  <2> QED
    BY <2>1, <2>3, Opposites
<1>4. CASE \E i \in RankKeys(schema) : ab(i) # 0
  <2>1. PICK i \in RankKeys(schema) :
               /\ ab(i) # 0
               /\ \A k \in RankKeys(schema) : k < i => ab(k) = 0
               /\ CompareByRanking(schema, a, b) = ab(i)
    BY <1>4, RankingDecides
  <2>2. \E k \in RankKeys(schema) : ba(k) # 0
    BY <1>1, <2>1
  <2>3. PICK j \in RankKeys(schema) :
               /\ ba(j) # 0
               /\ \A k \in RankKeys(schema) : k < j => ba(k) = 0
               /\ CompareByRanking(schema, b, a) = ba(j)
    BY <2>2, RankingDecides
  <2> HIDE DEF ab, ba
  <2>4. i = j
    BY <1>1, <1>2, <2>1, <2>3
  <2> QED
    BY <1>1, <2>1, <2>3, <2>4
<1> QED
  BY <1>3, <1>4

LEMMA RankingIsTransitive ==
    ASSUME NEW schema, schema.ties \in Seq(STRING),
           NEW a, NEW b, NEW c, Payload(a), Payload(b), Payload(c),
           CompareByRanking(schema, a, b) <= 0, CompareByRanking(schema, b, c) <= 0
    PROVE  CompareByRanking(schema, a, c) <= 0
<1> DEFINE ab(i) == RankKey(schema, i, a, b)
           bc(i) == RankKey(schema, i, b, c)
           ac(i) == RankKey(schema, i, a, c)
           Keys == RankKeys(schema)
           Apart == {i \in Keys : ab(i) # 0 \/ bc(i) # 0}
<1>1. Keys \subseteq Nat
  BY RankingDecides
<1>2. \A i : /\ ab(i) \in Int /\ bc(i) \in Int /\ ac(i) \in Int
             /\ ab(i) <= 0 /\ bc(i) <= 0 =>
                  ac(i) <= 0 /\ (ac(i) = 0 => ab(i) = 0 /\ bc(i) = 0)
  BY KeysAreOrdered
<1>3. \/ \A i \in Keys : ab(i) = 0
      \/ \E i \in Keys : ab(i) < 0 /\ \A k \in Keys : k < i => ab(k) = 0
  <2>1. \/ \A i \in Keys : ab(i) = 0
        \/ \E i \in Keys : /\ ab(i) # 0
                           /\ \A k \in Keys : k < i => ab(k) = 0
                           /\ CompareByRanking(schema, a, b) = ab(i)
    BY RankingDecides
  <2> HIDE DEF Keys, ab, bc, ac
  <2>2. CompareByRanking(schema, a, b) <= 0
    OBVIOUS
  <2> QED
    BY <1>2, <2>1, <2>2
<1>4. \/ \A i \in Keys : bc(i) = 0
      \/ \E i \in Keys : bc(i) < 0 /\ \A k \in Keys : k < i => bc(k) = 0
  <2>1. \/ \A i \in Keys : bc(i) = 0
        \/ \E i \in Keys : /\ bc(i) # 0
                           /\ \A k \in Keys : k < i => bc(k) = 0
                           /\ CompareByRanking(schema, b, c) = bc(i)
    BY RankingDecides
  <2> HIDE DEF Keys, ab, bc, ac
  <2>2. CompareByRanking(schema, b, c) <= 0
    OBVIOUS
  <2> QED
    BY <1>2, <2>1, <2>2
<1>5. \/ /\ \A i \in Keys : ac(i) = 0
         /\ CompareByRanking(schema, a, c) = 0
      \/ \E i \in Keys : /\ ac(i) # 0
                         /\ \A k \in Keys : k < i => ac(k) = 0
                         /\ CompareByRanking(schema, a, c) = ac(i)
  BY RankingDecides
<1> HIDE DEF ab, bc, ac, Keys
<1>6. CASE Apart = {}
  <2>1. \A i \in Keys : ab(i) = 0 /\ bc(i) = 0
    BY <1>6
  <2>2. \A i \in Keys : ac(i) <= 0
    BY <1>2, <2>1
  <2> QED
    BY <1>2, <1>5, <2>2
<1>7. CASE Apart # {}
  <2>1. PICK i \in Apart : \A k \in Apart : i <= k
    <3>1. Apart \in SUBSET Nat
      BY <1>1
    <3> HIDE DEF Apart
    <3> QED
      BY <1>7, <3>1, LeastPosition
  <2>2. i \in Keys /\ (ab(i) # 0 \/ bc(i) # 0) /\ i \in Nat
    BY <1>1, <2>1
  <2>3. \A k \in Keys : k < i => ab(k) = 0 /\ bc(k) = 0
    BY <1>1, <2>1, <2>2
  <2>4. ab(i) <= 0 /\ bc(i) <= 0
    <3>1. \A k \in Keys : k = i \/ k < i \/ i < k
      BY <1>1, <2>2
    <3>2. ab(i) \in Int /\ bc(i) \in Int
      BY <1>2
    <3>3. ab(i) <= 0
      BY <1>3, <2>2, <2>3, <3>1, <3>2
    <3>4. bc(i) <= 0
      BY <1>4, <2>2, <2>3, <3>1, <3>2
    <3> QED
      BY <3>3, <3>4
  <2>5. ac(i) < 0
    BY <1>2, <2>2, <2>4
  <2>6. \A k \in Keys : k < i => ac(k) <= 0
    BY <1>2, <2>3
  <2>7. ASSUME NEW j \in Keys, ac(j) # 0, \A k \in Keys : k < j => ac(k) = 0
        PROVE  ac(j) < 0
    <3>1. j <= i
      BY <1>1, <2>2, <2>5, <2>7
    <3>2. CASE j = i
      BY <2>5, <3>2
    <3>3. CASE j < i
      BY <1>2, <2>6, <2>7, <3>3
    <3> QED
      BY <1>1, <2>2, <3>1, <3>2, <3>3
  <2>8. ~ \A j \in Keys : ac(j) = 0
    BY <2>2, <2>5
  <2>9. \E j \in Keys : /\ ac(j) < 0
                        /\ CompareByRanking(schema, a, c) = ac(j)
    BY <1>5, <2>7, <2>8
  <2> QED
    BY <1>2, <2>9
<1> QED
  BY <1>6, <1>7

-----------------------------------------------------------------------------
(* Publication: what the review or a startup lets through.                    *)

LEMMA PublishedFields ==
    ASSUME NEW p, NEW runtime, NEW public, NEW overlaid
    PROVE  LET c == Published(p, runtime, public, overlaid)
           IN /\ c.published
              /\ c.runtime = runtime /\ c.public = public /\ c.overlaid = overlaid
              /\ c.spec = p.spec /\ c.origin = p.origin
  BY DEF Published

LEMMA PrefixOfItself ==
    ASSUME NEW path \in Seq(STRING)
    PROVE  IsPrefix(path, path)
  BY DEF IsPrefix

\* A path of a tree is there, whatever is at it.
LEMMA PathsOfATreeExist ==
    ASSUME NEW tree, IsTree(tree), NEW path \in DOMAIN tree
    PROVE  PathExists(tree, path)
<1>1. path \in Seq(STRING) /\ (tree[path].kind = "file" \/ tree[path].kind = "dir")
  BY DEF IsTree
<1>2. IsPrefix(path, path)
  BY <1>1, PrefixOfItself
<1> QED
  BY <1>1, <1>2 DEF PathExists, IsFile, IsDirectory

\* Overlays that fit a tree bring no file at one of its paths.
LEMMA OverlaysReplaceNothing ==
    ASSUME NEW tree, IsTree(tree), NEW names, NEW uploads, OverlaysFit(tree, names, uploads)
    PROVE  DOMAIN tree \cap OverlayFiles(names, uploads) = {}
<1>1. ASSUME NEW path \in DOMAIN tree, path \in OverlayFiles(names, uploads)
      PROVE  FALSE
  <2>1. PICK i \in DOMAIN names : path \in FilesOf(uploads[names[i]].files)
    BY <1>1 DEF OverlayFiles
  <2>2. ~PathExists(tree, path)
    BY <2>1 DEF OverlaysFit, OverlayFits
  <2> QED
    BY <2>2, PathsOfATreeExist
<1> QED
  BY <1>1

\* The runtime bundle has all that was there and every file of every overlay: the
\* overlays that fit are the same in any order.
THEOREM RuntimeBundleHasEveryOverlay ==
    ASSUME NEW tree, IsTree(tree), NEW uploads, NEW names, DOMAIN names \subseteq Int,
           \A i \in DOMAIN names : IsTree(uploads[names[i]].files),
           OverlaysFit(tree, names, uploads)
    PROVE  /\ \A path \in DOMAIN tree : OverlayAll(tree, names, uploads)[path] = tree[path]
           /\ \A i \in DOMAIN names : \A path \in FilesOf(uploads[names[i]].files) :
                 OverlayAll(tree, names, uploads)[path] = uploads[names[i]].files[path]
<1> DEFINE Added(i) == uploads[names[i]].files
<1>1. ASSUME NEW path \in DOMAIN tree
      PROVE  OverlayAll(tree, names, uploads)[path] = tree[path]
  BY DEF OverlayAll
<1>2. ASSUME NEW i \in DOMAIN names, NEW path \in FilesOf(Added(i))
      PROVE  OverlayAll(tree, names, uploads)[path] = Added(i)[path]
  <2>1. path \in DOMAIN Added(i) /\ IsPrefix(path, path)
    BY PrefixOfItself DEF FilesOf, IsTree
  <2>2. path \notin DOMAIN tree
    BY OverlaysReplaceNothing DEF OverlayFiles
  <2>3. ASSUME NEW k \in DOMAIN names, path \in DOMAIN Added(k)
        PROVE  k = i
    <3>1. CASE k < i
      <4>1. ~PathExists(Added(k), path)
        BY <3>1 DEF OverlaysFit, OverlayFits
      <4> QED
        BY <2>3, <4>1, PathsOfATreeExist
    <3>2. CASE i < k
      BY <2>1, <2>3, <3>2 DEF OverlaysFit, OverlayFits
    <3> QED
      BY <3>1, <3>2
  <2>4. (CHOOSE k \in DOMAIN names : path \in DOMAIN Added(k)) = i
    BY <2>1, <2>3
  <2> HIDE DEF Added
  <2>5. OverlayAll(tree, names, uploads)[path] = Added(i)[path]
    BY <2>1, <2>2, <2>4 DEF OverlayAll, Added
  <2> QED
    BY <2>5
<1> QED
  BY <1>1, <1>2

\* The public bundle of a published challenge without its private part.
PublicOnly(c) ==
    /\ DOMAIN c.public \cap c.overlaid = {}
    /\ c.spec.privateEnabled /\ c.spec.privateDir # NoPath =>
          \A path \in DOMAIN c.public : ~IsPrefix(c.spec.privateDir, path)

\* What a bundle was checked for before its challenge was published.
ContractChecked(c) ==
    /\ c.spec.metrics.ties \in Seq(STRING)
    /\ c.spec.mode \in Topologies
    /\ c.origin \in {"review", "seed"}
    /\ SpecIsValid(c.spec)
    /\ DeclaredInputsAreValid(c.runtime, c.spec)
    /\ c.origin = "review" =>
          /\ PinsRequired => ImagesArePinned(c.spec)
          /\ ValidationEnabled(c.spec) => LocatorIsValid(c.public, c.spec, c.spec.validationLocator)

LEMMA ReviewPublishesPublicOnly ==
    ASSUME NEW p \in Reviewable
    PROVE  PublicOnly(Published(p, RuntimeBundle(p), PublicBundle(p), OverlayFiles(p.uploaded, p.uploads)))
<1> DEFINE c == Published(p, RuntimeBundle(p), PublicBundle(p), OverlayFiles(p.uploaded, p.uploads))
<1>1. p \in Proposals /\ ReviewAccepts(p)
  BY DEF Reviewable
<1>2. IsTree(p.files)
  BY <1>1, ProposalsAssumption
<1>3. c.public = p.files /\ c.overlaid = OverlayFiles(p.uploaded, p.uploads) /\ c.spec = p.spec
  BY PublishedFields DEF PublicBundle
<1>4. DOMAIN p.files \cap OverlayFiles(p.uploaded, p.uploads) = {}
  BY <1>1, <1>2, OverlaysReplaceNothing DEF ReviewAccepts, RuntimeBundleAssembles
<1>5. ASSUME p.spec.privateDir # NoPath, NEW path \in DOMAIN p.files, IsPrefix(p.spec.privateDir, path)
      PROVE  FALSE
  <2>1. ~PathExists(p.files, p.spec.privateDir)
    BY <1>1, <1>5 DEF ReviewAccepts, RepositoryIsValid, ManifestIsValid, PublicBundleIsValid
  <2>2. CASE path = p.spec.privateDir
    BY <1>2, <2>1, <2>2, PathsOfATreeExist
  <2>3. CASE path # p.spec.privateDir
    BY <1>5, <2>1, <2>3 DEF PathExists, IsDirectory
  <2> QED
    BY <2>2, <2>3
<1> QED
  BY <1>3, <1>4, <1>5 DEF PublicOnly

LEMMA SeedingPublishesPublicOnly ==
    ASSUME NEW p \in FirstSeeds \cup LaterSeeds
    PROVE  PublicOnly(Published(p, SeededBundle(p), SeededPublicBundle(p), OverlayFiles(SeedOverlays(p), p.uploads)))
<1> DEFINE overlaid == OverlayFiles(SeedOverlays(p), p.uploads)
           c == Published(p, SeededBundle(p), SeededPublicBundle(p), overlaid)
<1>1. p \in Proposals \cup Updates /\ SeedAccepts(p)
  BY DEF FirstSeeds, LaterSeeds, Seedable
<1>2. IsTree(p.files)
  BY <1>1, ProposalsAssumption
<1>3. c.public = SeededPublicBundle(p) /\ c.overlaid = overlaid /\ c.spec = p.spec
  BY PublishedFields
<1>4. DOMAIN p.files \cap overlaid = {}
  BY <1>1, <1>2, OverlaysReplaceNothing DEF SeedAccepts, SeededBundleAssembles
<1>5. DOMAIN SeededPublicBundle(p) \subseteq DOMAIN p.files
  BY DEF SeededPublicBundle, CopyExcluding
<1>6. p.spec.privateEnabled /\ p.spec.privateDir # NoPath =>
         \A path \in DOMAIN SeededPublicBundle(p) : ~IsPrefix(p.spec.privateDir, path)
  BY DEF SeededPublicBundle, CopyExcluding
<1> QED
  BY <1>3, <1>4, <1>5, <1>6 DEF PublicOnly

LEMMA ReviewChecksTheContract ==
    ASSUME NEW p \in Reviewable
    PROVE  ContractChecked(Published(p, RuntimeBundle(p), PublicBundle(p), OverlayFiles(p.uploaded, p.uploads)))
<1> DEFINE c == Published(p, RuntimeBundle(p), PublicBundle(p), OverlayFiles(p.uploaded, p.uploads))
<1>1. p \in Proposals /\ p.origin = "review" /\ ReviewAccepts(p)
  BY DEF Reviewable
<1>2. p.spec.metrics.ties \in Seq(STRING) /\ p.spec.mode \in Topologies
  BY <1>1, ProposalsAssumption
<1>3. /\ c.runtime = RuntimeBundle(p) /\ c.public = p.files
      /\ c.spec = p.spec /\ c.origin = p.origin
  BY PublishedFields DEF PublicBundle
<1>4. SpecIsValid(p.spec) /\ DeclaredInputsAreValid(RuntimeBundle(p), p.spec)
  BY <1>1 DEF ReviewAccepts, BundleIsValid
<1>5. PinsRequired => ImagesArePinned(p.spec)
  BY <1>1 DEF ReviewAccepts
<1>6. ValidationEnabled(p.spec) => LocatorIsValid(p.files, p.spec, p.spec.validationLocator)
  BY <1>1 DEF ReviewAccepts, RepositoryIsValid, ManifestIsValid, PublicBundleIsValid
<1> QED
  BY <1>1, <1>2, <1>3, <1>4, <1>5, <1>6 DEF ContractChecked

LEMMA SeedingChecksTheContract ==
    ASSUME NEW p \in FirstSeeds \cup LaterSeeds
    PROVE  ContractChecked(Published(p, SeededBundle(p), SeededPublicBundle(p), OverlayFiles(SeedOverlays(p), p.uploads)))
<1> DEFINE c == Published(p, SeededBundle(p), SeededPublicBundle(p), OverlayFiles(SeedOverlays(p), p.uploads))
<1>1. p \in Proposals \cup Updates /\ p.origin = "seed" /\ SeedAccepts(p)
  BY DEF FirstSeeds, LaterSeeds, Seedable
<1>2. p.spec.metrics.ties \in Seq(STRING) /\ p.spec.mode \in Topologies
  BY <1>1, ProposalsAssumption
<1>3. c.runtime = SeededBundle(p) /\ c.spec = p.spec /\ c.origin = p.origin
  BY PublishedFields
<1>4. SpecIsValid(p.spec) /\ DeclaredInputsAreValid(SeededBundle(p), p.spec)
  BY <1>1 DEF SeedAccepts, BundleIsValid
<1> QED
  BY <1>1, <1>2, <1>3, <1>4 DEF ContractChecked

-----------------------------------------------------------------------------
(* What was checked then is what the runner reads now.                        *)

\* A locator that was validated, or a setup command, resolves to a plan.
LEMMA ValidLocatorsResolve ==
    ASSUME NEW spec, NEW mode, NEW tree, spec.mode \in Topologies,
           LocatorIsValid(tree, spec, Locator(spec, mode)),
           spec.mode # "coexecuted_benchmark" =>
               Locator(spec, mode) # NoPath \/ Setup(spec, mode).declared
    PROVE  CASE spec.mode = "separated_evaluator" -> RunPlanResolves(spec, mode, tree)
             [] spec.mode = "piped_stdio" -> SessionPlanResolves(spec, mode, tree)
             [] spec.mode = "coexecuted_benchmark" -> TRUE
<1> DEFINE path == Locator(spec, mode)
<1>1. CASE spec.mode = "separated_evaluator"
  <2>1. ASSUME path # NoPath
        PROVE  RunPlanResolves(spec, mode, tree)
    <3>1. StaticRunManifestIsValid(tree, path)
      BY <1>1, <2>1 DEF LocatorIsValid
    <3> QED
      BY <2>1, <3>1
      DEF StaticRunManifestIsValid, RunManifestIsReadable, RunManifestIsValid, RunCountIsAllowed, RunPlanResolves
  <2>2. ASSUME path = NoPath
        PROVE  RunPlanResolves(spec, mode, tree)
    BY <1>1, <2>2 DEF RunPlanResolves
  <2>3. RunPlanResolves(spec, mode, tree)
    BY <2>1, <2>2
  <2> QED
    BY <1>1, <2>3
<1>2. CASE spec.mode = "piped_stdio"
  <2>1. ASSUME path # NoPath
        PROVE  SessionPlanResolves(spec, mode, tree)
    <3>1. StaticSessionManifestIsValid(tree, path)
      BY <1>2, <2>1 DEF LocatorIsValid
    <3> QED
      BY <2>1, <3>1 DEF StaticSessionManifestIsValid, SessionPlanResolves
  <2>2. ASSUME path = NoPath
        PROVE  SessionPlanResolves(spec, mode, tree)
    BY <1>2, <2>2 DEF SessionPlanResolves
  <2>3. SessionPlanResolves(spec, mode, tree)
    BY <2>1, <2>2
  <2> QED
    BY <1>2, <2>3
<1>3. CASE spec.mode = "coexecuted_benchmark"
  BY <1>3
<1> QED
  BY <1>1, <1>2, <1>3 DEF Topologies

\* The job that Admit makes of a challenge.
JobOf(c, mode, target) ==
    [admitted |-> TRUE, mode |-> mode, target |-> target, spec |-> c.spec,
     origin |-> c.origin, runtime |-> c.runtime, tree |-> JobBundle(c, mode)]

LEMMA AdmittedJobsRun ==
    ASSUME NEW c, ContractChecked(c), NEW mode \in Modes, NEW target,
           TargetSupports(c.spec, target, mode),
           ~UncheckedBeforeTheRunner(JobOf(c, mode, target))
    PROVE  RunnerAccepts(JobOf(c, mode, target))
<1> DEFINE j == JobOf(c, mode, target)
<1>1. /\ j.spec = c.spec /\ j.mode = mode /\ j.target = target /\ j.origin = c.origin
      /\ j.runtime = c.runtime /\ j.tree = JobBundle(c, mode)
  BY DEF JobOf
<1>2. SpecIsValid(c.spec) /\ c.spec.mode \in Topologies /\ c.origin \in {"review", "seed"}
  BY DEF ContractChecked
<1>3. PICK t \in TargetOf(c.spec, target) : mode = "validation" => t.validation
  BY DEF TargetSupports
<1>4. PinsRequired => ImagesArePinned(c.spec)
  <2>1. CASE c.origin = "review"
    BY <2>1 DEF ContractChecked
  <2>2. CASE c.origin = "seed"
    BY <1>1, <2>2 DEF UncheckedBeforeTheRunner
  <2> QED
    BY <1>2, <2>1, <2>2
<1>5. c.spec.mode # "coexecuted_benchmark" => RunInputsAreDeclared(c.spec)
  BY <1>2 DEF SpecIsValid, ExecutionIsValid, SeparatedIsValid, PipedStdioIsValid, Topologies
<1>6. /\ LocatorIsValid(j.tree, c.spec, Locator(c.spec, mode))
      /\ c.spec.mode # "coexecuted_benchmark" =>
             Locator(c.spec, mode) # NoPath \/ Setup(c.spec, mode).declared
  <2>1. CASE mode = "validation"
    <3>1. ValidationEnabled(c.spec)
      BY <1>3, <2>1 DEF ValidationEnabled, TargetOf, Range
    <3>2. j.tree = c.public
      BY <1>1, <2>1 DEF JobBundle
    <3>3. LocatorIsValid(c.public, c.spec, c.spec.validationLocator)
      <4>1. CASE c.origin = "review"
        BY <3>1, <4>1 DEF ContractChecked
      <4>2. CASE c.origin = "seed"
        <5>1. c.public = c.runtime
          BY <1>1, <2>1, <3>2, <4>2 DEF UncheckedBeforeTheRunner
        <5> QED
          BY <3>1, <5>1 DEF ContractChecked, DeclaredInputsAreValid
      <4> QED
        BY <1>2, <4>1, <4>2
    <3> QED
      BY <1>5, <2>1, <3>1, <3>2, <3>3 DEF Locator, Setup, RunInputsAreDeclared
  <2>2. CASE mode = "official"
    <3>1. c.spec.privateEnabled
      BY <1>1, <2>2 DEF UncheckedBeforeTheRunner
    <3>2. j.tree = c.runtime
      BY <1>1, <2>2 DEF JobBundle
    <3>3. LocatorIsValid(c.runtime, c.spec, c.spec.officialLocator)
      BY <3>1 DEF ContractChecked, DeclaredInputsAreValid
    <3> QED
      BY <1>5, <2>2, <3>1, <3>2, <3>3 DEF Locator, Setup, RunInputsAreDeclared
  <2> QED
    BY <2>1, <2>2 DEF Modes
<1>7. CASE c.spec.mode = "separated_evaluator"
  <2>1. RunPlanResolves(c.spec, mode, j.tree)
    BY <1>2, <1>6, <1>7, ValidLocatorsResolve
  <2> QED
    BY <1>1, <1>2, <1>3, <1>4, <1>7, <2>1 DEF RunnerAccepts
<1>8. CASE c.spec.mode = "piped_stdio"
  <2>1. SessionPlanResolves(c.spec, mode, j.tree)
    BY <1>2, <1>6, <1>8, ValidLocatorsResolve
  <2> QED
    BY <1>1, <1>2, <1>3, <1>4, <1>8, <2>1 DEF RunnerAccepts
<1>9. CASE c.spec.mode = "coexecuted_benchmark"
  BY <1>1, <1>2, <1>3, <1>4, <1>9 DEF RunnerAccepts
<1> QED
  BY <1>2, <1>7, <1>8, <1>9 DEF Topologies

-----------------------------------------------------------------------------
(* The invariant.                                                             *)

ChallengeIsSound == challenge.published => ContractChecked(challenge) /\ PublicOnly(challenge)

JobIsSound ==
    /\ outcome = "queued" => RunnerAccepts(job) \/ UncheckedBeforeTheRunner(job)
    /\ outcome = "contract_error" => UncheckedBeforeTheRunner(job)

KeptArePayloads == \A m \in kept : Payload(m)

ContractInv == ChallengeIsSound /\ JobIsSound /\ KeptArePayloads

LEMMA ContractInit == Init => ContractInv
  BY DEF Init, NoChallenge, NoJob, ContractInv, ChallengeIsSound, JobIsSound, KeptArePayloads

LEMMA ContractStep ==
    ASSUME ContractInv, [Next]_vars
    PROVE  ContractInv'
<1> USE DEF ContractInv
<1>1. ASSUME NEW p \in Reviewable, PublishReviewed(p)
      PROVE  ContractInv'
  <2>1. ChallengeIsSound'
    BY <1>1, ReviewChecksTheContract, ReviewPublishesPublicOnly DEF PublishReviewed, ChallengeIsSound
  <2> QED
    BY <1>1, <2>1 DEF PublishReviewed, JobIsSound, KeptArePayloads
<1>2. ASSUME NEW p \in FirstSeeds \cup LaterSeeds, SeedChallenge(p)
      PROVE  ContractInv'
  <2>1. ChallengeIsSound'
    BY <1>2, SeedingChecksTheContract, SeedingPublishesPublicOnly DEF SeedChallenge, ChallengeIsSound
  <2> QED
    BY <1>2, <2>1 DEF SeedChallenge, JobIsSound, KeptArePayloads
<1>3. ASSUME NEW mode \in Modes, NEW target, Admit(mode, target)
      PROVE  ContractInv'
  <2>1. job' = JobOf(challenge, mode, target) /\ outcome' = "queued"
    BY <1>3 DEF Admit, JobOf
  <2>2. ContractChecked(challenge) /\ TargetSupports(challenge.spec, target, mode)
    BY <1>3 DEF Admit, ChallengeIsSound
  <2>3. RunnerAccepts(job') \/ UncheckedBeforeTheRunner(job')
    BY <2>1, <2>2, AdmittedJobsRun
  <2>4. JobIsSound'
    BY <2>1, <2>3 DEF JobIsSound
  <2> QED
    BY <1>3, <2>4 DEF Admit, ChallengeIsSound, KeptArePayloads
<1>4. CASE PlanRun
  <2>1. JobIsSound'
    BY <1>4 DEF PlanRun, JobIsSound
  <2> QED
    BY <1>4, <2>1 DEF PlanRun, ChallengeIsSound, KeptArePayloads
<1>5. ASSUME NEW r \in Results, Evaluate(r)
      PROVE  ContractInv'
  <2>1. CASE ResultIsValid(r, job.mode, job.spec.metrics)
    <3>1. Payload(r.metrics)
      BY <2>1, ResultsAssumption DEF ResultIsValid, ResultFitsMode, MetricsAreValid, IsInjective, Payload
    <3>2. kept' \subseteq kept \cup {r.metrics} /\ outcome' = "completed"
      BY <1>5, <2>1 DEF Evaluate
    <3>3. KeptArePayloads'
      BY <3>1, <3>2 DEF KeptArePayloads
    <3> QED
      BY <1>5, <3>2, <3>3 DEF Evaluate, ChallengeIsSound, JobIsSound
  <2>2. CASE ~ResultIsValid(r, job.mode, job.spec.metrics)
    BY <1>5, <2>2 DEF Evaluate, ChallengeIsSound, JobIsSound, KeptArePayloads
  <2> QED
    BY <2>1, <2>2
<1>6. CASE NextJob
  BY <1>6 DEF NextJob, ChallengeIsSound, JobIsSound, KeptArePayloads
<1>7. CASE Tick
  BY <1>7 DEF Tick, ChallengeIsSound, JobIsSound, KeptArePayloads
<1>8. CASE UNCHANGED vars
  BY <1>8 DEF vars, ChallengeIsSound, JobIsSound, KeptArePayloads
<1> QED
  BY <1>1, <1>2, <1>3, <1>4, <1>5, <1>6, <1>7, <1>8 DEF Next

LEMMA ContractInvariant == Spec => []ContractInv
  BY ContractInit, ContractStep, PTL DEF Spec

\* What review, seeding and admission let through has what the runner reads,
\* except what UncheckedBeforeTheRunner names: every topology, every directory.
THEOREM AdmittedEvaluationsRun == Spec => []AdmittedEvaluationRuns
<1>1. ContractInv => AdmittedEvaluationRuns
  BY DEF ContractInv, JobIsSound, AdmittedEvaluationRuns
<1> QED
  BY <1>1, ContractInvariant, PTL

\* The bundle validation runs see has no file an overlay brought and, with a
\* private benchmark enabled, nothing of its directory.
THEOREM PublicBundleStaysPublic == Spec => []PublicBundleHidesOverlays
<1>1. ContractInv => PublicBundleHidesOverlays
  BY DEF ContractInv, ChallengeIsSound, PublicOnly, PublicBundleHidesOverlays
<1> QED
  BY <1>1, ContractInvariant, PTL

\* Stored results are sorted by one order, whatever schema is published when
\* they are compared and whichever of its metrics they lack.
THEOREM RankingIsAnOrder == Spec => []RankingIsConsistent
<1>1. ASSUME ContractInv, challenge.published,
             NEW a \in kept, NEW b \in kept, NEW c \in kept
      PROVE  LET schema == challenge.spec.metrics IN
             /\ CompareByRanking(schema, a, b) = - CompareByRanking(schema, b, a)
             /\ CompareByRanking(schema, a, b) <= 0 /\ CompareByRanking(schema, b, c) <= 0 =>
                  CompareByRanking(schema, a, c) <= 0
  <2>1. Payload(a) /\ Payload(b) /\ Payload(c) /\ challenge.spec.metrics.ties \in Seq(STRING)
    BY <1>1 DEF ContractInv, KeptArePayloads, ChallengeIsSound, ContractChecked
  <2> QED
    BY <2>1, RankingIsAntisymmetric, RankingIsTransitive
<1>2. ContractInv => RankingIsConsistent
  <2> SUFFICES ASSUME ContractInv, challenge.published
               PROVE  LET cmp == [a \in kept |-> [b \in kept |-> CompareByRanking(challenge.spec.metrics, a, b)]]
                      IN \A a, b \in kept :
                           /\ cmp[a][b] = - cmp[b][a]
                           /\ cmp[a][b] <= 0 => \A c \in kept : cmp[b][c] <= 0 => cmp[a][c] <= 0
    BY DEF RankingIsConsistent
  <2> DEFINE cmp == [a \in kept |-> [b \in kept |-> CompareByRanking(challenge.spec.metrics, a, b)]]
  <2>1. \A a, b \in kept : cmp[a][b] = CompareByRanking(challenge.spec.metrics, a, b)
    OBVIOUS
  <2>2. \A a, b \in kept : cmp[a][b] = - cmp[b][a]
    BY <1>1, <2>1
  <2>3. \A a, b, c \in kept : cmp[a][b] <= 0 /\ cmp[b][c] <= 0 => cmp[a][c] <= 0
    BY <1>1, <2>1
  <2> HIDE DEF cmp
  <2>4. \A a, b \in kept :
           /\ cmp[a][b] = - cmp[b][a]
           /\ cmp[a][b] <= 0 => \A c \in kept : cmp[b][c] <= 0 => cmp[a][c] <= 0
    BY <2>2, <2>3
  <2> USE DEF cmp
  <2> QED
    BY <2>4
<1> QED
  BY <1>2, ContractInvariant, PTL


-----------------------------------------------------------------------------
(* The log operators.                                                         *)

LogType == [len : Nat, limit : Nat, truncated : BOOLEAN, output : BOOLEAN]

\* A log within its limit, without container output if redacted.
Bounded(l) == l \in LogType /\ l.len <= l.limit
Contained(l) == Bounded(l) /\ (plan.redacted => ~l.output)

LEMMA MarkTruncatedBounds ==
    ASSUME NEW l \in LogType
    PROVE  /\ MarkTruncated(l) \in LogType
           /\ MarkTruncated(l).limit = l.limit /\ MarkTruncated(l).output = l.output
           /\ l.len <= l.limit => MarkTruncated(l).len <= l.limit
<1>0. NoticeSize \in Nat
  BY LimitsAssumption
<1>1. CASE l.truncated
  BY <1>1 DEF MarkTruncated, LogType
<1>2. CASE ~l.truncated /\ NoticeSize >= l.limit
  <2>1. PICK n \in Nat : n = Smaller(l.len, l.limit) /\ n <= l.limit
    BY DEF Smaller, LogType
  <2>2. MarkTruncated(l) = [l EXCEPT !.truncated = TRUE, !.len = n]
    BY <1>2, <2>1 DEF MarkTruncated
  <2> QED
    BY <1>2, <2>1, <2>2 DEF LogType
<1>3. CASE ~l.truncated /\ ~(NoticeSize >= l.limit)
  <2>1. PICK n \in Nat : /\ n = Smaller(l.len, l.limit - NoticeSize) + NoticeSize
                         /\ n <= l.limit
    BY <1>0, <1>3 DEF Smaller, LogType
  <2>2. MarkTruncated(l) = [l EXCEPT !.truncated = TRUE, !.len = n]
    BY <1>3, <2>1 DEF MarkTruncated
  <2> QED
    BY <1>3, <2>1, <2>2 DEF LogType
<1> QED
  BY <1>1, <1>2, <1>3

\* set_limit may be called on a log that is longer than the new limit.
LEMMA SetLimitBounds ==
    ASSUME NEW l \in LogType, NEW limit \in Nat
    PROVE  Bounded(SetLimit(l, limit)) /\ SetLimit(l, limit).output = l.output
<1> DEFINE s == [l EXCEPT !.limit = limit]
<1>1. s \in LogType /\ s.limit = limit /\ s.len = l.len /\ s.output = l.output
  BY DEF LogType
<1>2. CASE l.len > limit
  <2> DEFINE t == [s EXCEPT !.len = limit]
  <2>1. t \in LogType /\ t.limit = limit /\ t.len = limit /\ t.output = l.output
    BY DEF LogType
  <2>2. SetLimit(l, limit) = MarkTruncated(t)
    BY <1>1, <1>2 DEF SetLimit
  <2> HIDE DEF t
  <2>3. /\ MarkTruncated(t) \in LogType /\ MarkTruncated(t).limit = limit
        /\ MarkTruncated(t).output = l.output /\ MarkTruncated(t).len <= limit
    BY <2>1, MarkTruncatedBounds
  <2> QED
    BY <2>2, <2>3 DEF Bounded
<1>3. CASE ~(l.len > limit)
  <2>1. SetLimit(l, limit) = s
    BY <1>1, <1>3 DEF SetLimit
  <2>2. l.len <= limit
    BY <1>3 DEF LogType
  <2> HIDE DEF s
  <2> QED
    BY <1>1, <2>1, <2>2 DEF Bounded
<1> QED
  BY <1>2, <1>3

LEMMA AppendBytesBounds ==
    ASSUME NEW l, Bounded(l), NEW n \in Nat, NEW output \in BOOLEAN
    PROVE  /\ Bounded(AppendBytes(l, n, output))
           /\ AppendBytes(l, n, output).output => l.output \/ output
<1>0. l \in LogType /\ l.len \in Nat /\ l.limit \in Nat /\ l.len <= l.limit /\ l.output \in BOOLEAN
  BY DEF Bounded, LogType
<1>1. PICK room \in Nat : /\ room = IF l.limit > l.len THEN l.limit - l.len ELSE 0
                          /\ l.len + room = l.limit
  BY <1>0
<1>2. PICK o \in BOOLEAN : /\ o = (l.output \/ (output /\ n > 0 /\ room > 0))
                           /\ o => l.output \/ output
  BY <1>0
<1>3. CASE l.truncated \/ n = 0
  BY <1>0, <1>3 DEF AppendBytes, Bounded
<1>4. CASE ~(l.truncated \/ n = 0) /\ n <= room
  <2>1. AppendBytes(l, n, output) = [l EXCEPT !.len = l.len + n, !.output = o]
    BY <1>1, <1>2, <1>4 DEF AppendBytes
  <2>2. l.len + n \in Nat /\ l.len + n <= l.limit
    BY <1>0, <1>1, <1>4
  <2> QED
    BY <1>0, <1>2, <2>1, <2>2 DEF Bounded, LogType
<1>5. CASE ~(l.truncated \/ n = 0) /\ ~(n <= room)
  <2> DEFINE t == [l EXCEPT !.len = l.limit, !.output = o]
  <2>1. AppendBytes(l, n, output) = MarkTruncated(t)
    BY <1>1, <1>2, <1>5 DEF AppendBytes
  <2>2. t \in LogType /\ t.len <= t.limit /\ t.output = o
    <3>1. t.len = l.limit /\ t.limit = l.limit /\ t.output = o
      BY <1>0 DEF LogType
    <3>2. t \in LogType
      BY <1>0, o \in BOOLEAN DEF LogType
    <3> QED
      BY <1>0, <3>1, <3>2
  <2> HIDE DEF t
  <2>3. Bounded(MarkTruncated(t)) /\ MarkTruncated(t).output = o
    BY <2>2, MarkTruncatedBounds DEF Bounded
  <2> QED
    BY <1>2, <2>1, <2>3
<1> QED
  BY <1>3, <1>4, <1>5

LEMMA AppendNamedLogsBounds ==
    ASSUME NEW l, Bounded(l), NEW n \in Nat, NEW output \in BOOLEAN
    PROVE  /\ Bounded(AppendNamedLogs(l, n, output))
           /\ AppendNamedLogs(l, n, output).output => l.output \/ output
<1>1. Bounded(AppendBytes(l, 1, FALSE)) /\ (AppendBytes(l, 1, FALSE).output => l.output)
  BY AppendBytesBounds
<1> QED
  BY <1>1, AppendBytesBounds DEF AppendNamedLogs

\* Every phase logs through this.
LEMMA AppendVisibleContained ==
    ASSUME NEW l, Contained(l), NEW n \in Nat
    PROVE  Contained(AppendVisible(l, n))
<1>1. CASE plan.redacted
  BY <1>1, AppendNamedLogsBounds DEF AppendVisible, Contained
<1>2. CASE ~plan.redacted
  BY <1>2, AppendNamedLogsBounds DEF AppendVisible, Contained
<1> QED
  BY <1>1, <1>2

\* A tree that passed the limits is within them with the worker's own entries.
TreeIsPlain(t) == t.odd = {} /\ t.files <= MaxFiles /\ t.dirs <= MaxDirs

LEMMA VisibleTreeIsPlain ==
    ASSUME NEW t \in OutputTrees, OutputTreeFits(t, 1)
    PROVE  TreeIsPlain(VisibleRunTree(t))
<1>1. t \in OutputTreeType /\ {MaxFiles, MaxDirs} \subseteq Nat
  BY TreesAssumption, LimitsAssumption
<1>2. /\ VisibleRunTree(t).odd = t.odd
      /\ VisibleRunTree(t).files = BaseFiles + t.files + 1
      /\ VisibleRunTree(t).dirs = BaseDirs + t.dirs
  BY <1>1 DEF VisibleRunTree, OutputTreeType
<1> QED
  BY <1>1, <1>2 DEF OutputTreeFits, OutputTreeType, TreeIsPlain, BaseFiles, BaseDirs

-----------------------------------------------------------------------------
(* The invariant.                                                             *)

Steps == {"setup", "run", "evaluate", "create", "loop", "finish", "cleanup", "judge", "done", "failed"}
PlanType == [topology : {"separated", "piped"}, runs : Nat, redacted : BOOLEAN]
ContainerType == [state : {"none", "created", "running", "exited"}, code : Nat, own : BOOLEAN]
PumpType == [state : {"pending", "stopping", "stopped", "completed", "failed"},
             relayed : Nat, logs : Nat, cut : BOOLEAN]
LoopType == [exits : [Sides -> Nat], grace : BOOLEAN, terminal : {"none", "timeout", "error"}]
ResultType == [ok : BOOLEAN, timedOut : BOOLEAN, codes : [Sides -> Nat]]

SessionTypeOK ==
    /\ plan \in PlanType
    /\ step \in Steps
    /\ pair \in [Sides -> ContainerType]
    /\ out \in [Sides -> Seq({"stdout", "stderr"})]
    /\ written \in [Sides -> Nat]
    /\ pump \in [Sides -> PumpType]
    /\ loop \in LoopType
    /\ result \in ResultType

OutputsInv ==
    /\ Contained(captured)
    /\ \A r \in DOMAIN visible : TreeIsPlain(visible[r])

\* A pump that has not failed is within its limit, and one that has completed
\* has drained a container that does not run any more.
PumpsAreSound ==
    \A s \in Sides :
        /\ step \in {"setup", "create"} => pump[s].state = "pending"
        /\ pump[s].state \in {"pending", "completed"} => pump[s].relayed <= ByteLimit
        /\ pump[s].state = "completed" => out[s] = <<>> /\ ~Running(s)

\* A result is only ever good after the loop, and says what the loop saw.
ResultIsSound ==
    /\ step \in {"run", "evaluate"} => plan.topology = "separated"
    /\ step \in {"setup", "run", "evaluate", "create", "loop", "finish"} => ~result.ok
    /\ result.ok =>
           /\ PumpsFinish
           /\ loop.terminal # "error"
           /\ loop.terminal = "timeout" => result.timedOut
           /\ loop.terminal = "none" => result.codes["evaluator"] = loop.exits["evaluator"]
           /\ step \in {"judge", "done"} => \A s \in Sides : pair[s].state = "none"
    /\ step = "done" =>
           \/ plan.topology = "separated"
           \/ result.ok /\ ~result.timedOut /\ result.codes["evaluator"] = 0

SessionInv == SessionTypeOK /\ OutputsInv /\ PumpsAreSound /\ ResultIsSound

-----------------------------------------------------------------------------
(* The attempt around the session.                                            *)

LEMMA InitSound == SessionInit => SessionInv
<1> SUFFICES ASSUME SessionInit PROVE SessionInv
  OBVIOUS
<1>1. PICK official \in BOOLEAN, always \in BOOLEAN, exposes \in BOOLEAN,
           t \in [topology : {"separated"}, runs : 0..(MaxSessionRuns + 1)]
                 \cup {[topology |-> "piped", runs |-> 1]} :
           plan = [topology |-> t.topology, runs |-> t.runs,
                   redacted |-> LogPolicyRedacts(official, always, exposes)]
  BY DEF SessionInit
<1>2. LogPolicyRedacts(official, always, exposes) \in BOOLEAN
  BY DEF LogPolicyRedacts
<1>3. t.topology \in {"separated", "piped"} /\ t.runs \in Nat
  BY LimitsAssumption
<1>4. plan \in PlanType
  BY <1>1, <1>2, <1>3 DEF PlanType
<1>5. captured = EmptyLog /\ LogPerRun * MaxSessionRuns \in Nat
  BY LimitsAssumption DEF SessionInit
<1>6. OutputsInv
  BY <1>5 DEF SessionInit, OutputsInv, Contained, Bounded, EmptyLog, LogType
<1>7. SessionTypeOK
  BY <1>4 DEF SessionInit, SessionTypeOK, Steps, NoContainers, ContainerType, PumpType, LoopType,
      ResultType, NoLoop, NoResult, Unknown
<1>8. PumpsAreSound
  BY LimitsAssumption DEF SessionInit, PumpsAreSound
<1>9. ResultIsSound
  BY DEF SessionInit, ResultIsSound, NoResult
<1> QED
  BY <1>6, <1>7, <1>8, <1>9 DEF SessionInv

\* Pumps and verdict do not see the steps of the attempt around the session.
LEMMA AttemptFrame ==
    ASSUME SessionInv, UNCHANGED <<plan, sessionVars>>, step' \in Steps,
           step' # "create" \/ step = "setup",
           step' \notin {"setup", "loop", "finish", "judge"},
           step' \in {"run", "evaluate", "done"} => plan.topology = "separated",
           step \in {"setup", "run", "evaluate"}
    PROVE  SessionTypeOK' /\ PumpsAreSound' /\ ResultIsSound'
<1>1. /\ plan' = plan /\ pair' = pair /\ out' = out /\ written' = written
      /\ pump' = pump /\ loop' = loop /\ result' = result
  BY DEF sessionVars
<1>2. SessionTypeOK'
  BY <1>1 DEF SessionInv, SessionTypeOK
<1>3. PumpsAreSound'
  BY <1>1 DEF SessionInv, PumpsAreSound, Running
<1>4. ResultIsSound'
  BY <1>1 DEF SessionInv, ResultIsSound, PumpsFinish
<1> QED
  BY <1>2, <1>3, <1>4

LEMMA ConfigureLimitsSound ==
    ASSUME SessionInv, ConfigureLimits
    PROVE  SessionInv'
<1>1. PICK n \in LogSizes :
          LET l == AppendVisible(captured, n)
          IN \/ /\ plan.topology = "piped"
                /\ captured' = SetLimit(l, LogPerRun)
                /\ step' = "create"
             \/ /\ plan.topology = "separated"
                /\ plan.runs \in 1..MaxSessionRuns
                /\ captured' = SetLimit(l, plan.runs * LogPerRun)
                /\ step' = "run"
             \/ /\ plan.topology = "separated"
                /\ plan.runs \notin 1..MaxSessionRuns
                /\ captured' = l
                /\ step' = "failed"
  BY DEF ConfigureLimits
<1>2. Contained(AppendVisible(captured, n))
  BY AppendVisibleContained, LimitsAssumption DEF SessionInv, OutputsInv
<1>3. LogPerRun \in Nat /\ plan.runs * LogPerRun \in Nat
  BY LimitsAssumption DEF SessionInv, SessionTypeOK, PlanType
<1>4. \A limit \in Nat : /\ Bounded(SetLimit(AppendVisible(captured, n), limit))
                         /\ SetLimit(AppendVisible(captured, n), limit).output
                               = AppendVisible(captured, n).output
  BY <1>2, SetLimitBounds DEF Contained, Bounded
<1>5. Bounded(captured') /\ (plan.redacted => ~captured'.output)
  BY <1>1, <1>2, <1>3, <1>4 DEF Contained
<1>6. OutputsInv'
  BY <1>5 DEF ConfigureLimits, SessionInv, OutputsInv, Contained, Bounded
<1>7. SessionTypeOK' /\ PumpsAreSound' /\ ResultIsSound'
  BY <1>1, AttemptFrame DEF ConfigureLimits, Steps
<1> QED
  BY <1>6, <1>7 DEF SessionInv

LEMMA MaterializeFailsSound ==
    ASSUME SessionInv, MaterializeFails
    PROVE  SessionInv'
<1>1. OutputsInv'
  BY DEF MaterializeFails, SessionInv, OutputsInv, Contained, Bounded
<1>2. SessionTypeOK' /\ PumpsAreSound' /\ ResultIsSound'
  BY AttemptFrame DEF MaterializeFails, Steps
<1> QED
  BY <1>1, <1>2 DEF SessionInv

LEMMA SolutionRunSound ==
    ASSUME SessionInv, SolutionRun
    PROVE  SessionInv'
<1>1. PICK t \in OutputTrees, n \in LogSizes, failed \in BOOLEAN :
          /\ captured' = LET l == AppendVisible(captured, n)
                        IN IF failed /\ MetadataIsWritten(t) THEN AppendNamedLogs(l, 1, FALSE) ELSE l
          /\ \/ /\ ~(MetadataIsWritten(t) /\ WithinDiskLimit(t) /\ OutputTreeFits(t, 1))
                /\ step' = "failed"
                /\ UNCHANGED visible
             \/ /\ MetadataIsWritten(t) /\ WithinDiskLimit(t) /\ OutputTreeFits(t, 1)
                /\ visible' = [r \in DOMAIN visible \cup {NextRun} |->
                                  IF r = NextRun THEN VisibleRunTree(t) ELSE visible[r]]
                /\ step' = IF NextRun = plan.runs THEN "evaluate" ELSE "run"
  BY DEF SolutionRun
<1>2. plan' = plan
  BY DEF SolutionRun
<1>3. Contained(AppendVisible(captured, n))
  BY AppendVisibleContained, LimitsAssumption DEF SessionInv, OutputsInv
<1>4. Contained(AppendNamedLogs(AppendVisible(captured, n), 1, FALSE))
  BY <1>3, AppendNamedLogsBounds DEF Contained
<1>5. Contained(captured)'
  BY <1>1, <1>2, <1>3, <1>4 DEF Contained, Bounded
<1>6. \A r \in DOMAIN visible' : TreeIsPlain(visible'[r])
  <2>1. CASE UNCHANGED visible
    BY <2>1 DEF SessionInv, OutputsInv
  <2>2. CASE OutputTreeFits(t, 1)
             /\ visible' = [r \in DOMAIN visible \cup {NextRun} |->
                               IF r = NextRun THEN VisibleRunTree(t) ELSE visible[r]]
    BY <2>2, VisibleTreeIsPlain DEF SessionInv, OutputsInv
  <2> QED
    BY <1>1, <2>1, <2>2
<1>7. OutputsInv'
  BY <1>5, <1>6 DEF OutputsInv, TreeIsPlain
<1>8. step' \in {"failed", "evaluate", "run"} /\ step = "run" /\ plan.topology = "separated"
  BY <1>1 DEF SolutionRun, SessionInv, ResultIsSound
<1>9. SessionTypeOK' /\ PumpsAreSound' /\ ResultIsSound'
  BY <1>8, AttemptFrame DEF SolutionRun, Steps
<1> QED
  BY <1>7, <1>9 DEF SessionInv

LEMMA EvaluateRunsSound ==
    ASSUME SessionInv, EvaluateRuns
    PROVE  SessionInv'
<1>1. PICK n \in LogSizes : captured' = AppendVisible(captured, n)
  BY DEF EvaluateRuns
<1>2. Contained(AppendVisible(captured, n))
  BY AppendVisibleContained, LimitsAssumption DEF SessionInv, OutputsInv
<1>3. OutputsInv'
  BY <1>1, <1>2 DEF EvaluateRuns, SessionInv, OutputsInv, Contained, Bounded
<1>4. SessionTypeOK' /\ PumpsAreSound' /\ ResultIsSound'
  BY AttemptFrame DEF EvaluateRuns, SessionInv, ResultIsSound, Steps
<1> QED
  BY <1>3, <1>4 DEF SessionInv

-----------------------------------------------------------------------------
(* The session.                                                               *)

LEMMA OutputsFrame ==
    ASSUME OutputsInv, UNCHANGED <<plan, captured, visible>>
    PROVE  OutputsInv'
BY DEF OutputsInv, Contained, Bounded

LEMMA ContainerWritesSound ==
    ASSUME SessionInv, NEW s \in Sides, ContainerWrites(s)
    PROVE  SessionInv'
<1>1. PICK c \in {"stdout", "stderr"} : out' = [out EXCEPT ![s] = Append(@, c)]
  BY DEF ContainerWrites
<1>2. SessionTypeOK'
  BY <1>1 DEF ContainerWrites, SessionInv, SessionTypeOK
<1>3. PumpsAreSound'
  BY <1>1 DEF ContainerWrites, SessionInv, SessionTypeOK, PumpsAreSound, Running
<1>4. ResultIsSound'
  BY DEF ContainerWrites, SessionInv, ResultIsSound, PumpsFinish
<1> QED
  BY <1>2, <1>3, <1>4, OutputsFrame DEF ContainerWrites, SessionInv

LEMMA SideExitsSound ==
    ASSUME SessionInv, NEW s \in Sides, SideExits(s)
    PROVE  SessionInv'
<1>1. PICK c \in ExitCodes :
          pair' = [pair EXCEPT ![s] = [state |-> "exited", code |-> c, own |-> TRUE]]
  BY DEF SideExits
<1>2. SessionTypeOK'
  BY <1>1 DEF SideExits, SessionInv, SessionTypeOK, ContainerType, ExitCodes
<1>3. PumpsAreSound'
  BY <1>1 DEF SideExits, SessionInv, SessionTypeOK, PumpsAreSound, Running
<1>4. ResultIsSound'
  BY <1>1 DEF SideExits, SessionInv, ResultIsSound, PumpsFinish, Running
<1> QED
  BY <1>2, <1>3, <1>4, OutputsFrame DEF SideExits, SessionInv

\* A kill stops containers and starts none.
LEMMA KillsOnly ==
    ASSUME SessionTypeOK, NEW reached \in SUBSET Sides
    PROVE  /\ AfterKill(reached) \in [Sides -> ContainerType]
           /\ \A s \in Sides : AfterKill(reached)[s].state = "running" => Running(s)
BY DEF AfterKill, SessionTypeOK, ContainerType, Running, Killed

LEMMA CreatePairSound ==
    ASSUME SessionInv, CreatePair
    PROVE  SessionInv'
<1>1. \A ss \in SUBSET Sides : Started(ss) \in [Sides -> ContainerType]
  BY DEF Started, SessionInv, SessionTypeOK, ContainerType
<1>2. NoContainers \in [Sides -> ContainerType]
  BY DEF NoContainers, ContainerType, Unknown
<1>3. pair' \in [Sides -> ContainerType] /\ step' \in {"failed", "cleanup", "loop"} /\ step = "create"
  BY <1>1, <1>2 DEF CreatePair, Sides
<1>4. SessionTypeOK'
  BY <1>3 DEF CreatePair, SessionInv, SessionTypeOK, Steps
<1>5. PumpsAreSound'
  BY <1>3 DEF CreatePair, SessionInv, PumpsAreSound
<1>6. ResultIsSound'
  BY <1>3 DEF CreatePair, SessionInv, ResultIsSound
<1> QED
  BY <1>4, <1>5, <1>6, OutputsFrame DEF CreatePair, SessionInv

\* While a pump can move the session has no good result.
LEMMA PollingIsEarly ==
    ASSUME SessionInv, NEW s \in Sides, NEW state, Polled(s, state)
    PROVE  step \in {"loop", "finish"} /\ ~result.ok /\ pump[s].state = state
BY DEF Polled, LoopGoesOn, SessionInv, ResultIsSound

LEMMA PumpResolvesTypes ==
    ASSUME SessionTypeOK, NEW s \in Sides, NEW state \in {"completed", "failed"}, PumpResolves(s, state)
    PROVE  /\ pump' \in [Sides -> PumpType] /\ loop' \in LoopType
           /\ pump'[s].state = state /\ pump'[s].relayed = pump[s].relayed
           /\ \A t \in Sides : t # s => pump'[t] = pump[t]
BY DEF PumpResolves, SessionTypeOK, PumpType, LoopType

\* append_bounded_log_bytes neither relays nor ends the pump.
LEMMA AppendBoundedKeeps ==
    ASSUME NEW p \in PumpType
    PROVE  /\ AppendBounded(p) \in PumpType
           /\ AppendBounded(p).state = p.state /\ AppendBounded(p).relayed = p.relayed
<1>1. CASE p.logs >= StderrCap
  <2>1. AppendBounded(p) = [p EXCEPT !.cut = TRUE]
    BY <1>1 DEF AppendBounded
  <2> QED
    BY <2>1 DEF PumpType
<1>2. CASE ~(p.logs >= StderrCap)
  <2>1. AppendBounded(p) = [p EXCEPT !.logs = p.logs + 1]
    BY <1>2 DEF AppendBounded
  <2>2. p.logs + 1 \in Nat
    BY DEF PumpType
  <2> QED
    BY <2>1, <2>2 DEF PumpType
<1> QED
  BY <1>1, <1>2

LEMMA PumpChunkSound ==
    ASSUME SessionInv, NEW s \in Sides, PumpChunk(s)
    PROVE  SessionInv'
<1>1. step \in {"loop", "finish"} /\ ~result.ok /\ pump[s].state = "pending"
  BY PollingIsEarly DEF PumpChunk
<1>2. /\ out[s] # <<>> /\ out' = [out EXCEPT ![s] = Tail(@)]
      /\ UNCHANGED <<plan, step, captured, visible, pair, written, result>>
  BY DEF PumpChunk
<1>3. out' \in [Sides -> Seq({"stdout", "stderr"})]
  BY <1>2 DEF SessionInv, SessionTypeOK
<1>4. pump[s] \in PumpType /\ pump[s].relayed <= ByteLimit
  BY <1>1 DEF SessionInv, SessionTypeOK, PumpsAreSound
<1>5. \E p \in PumpType :
          /\ pump' = [pump EXCEPT ![s] = p]
          /\ p.state \in {"pending", "stopping", "failed"}
          /\ p.state = "pending" => p.relayed <= ByteLimit
          /\ loop' \in LoopType
  <2>1. CASE Head(out[s]) # "stdout"
    <3>1. pump' = [pump EXCEPT ![s] = AppendBounded(pump[s])] /\ loop' = loop
      BY <2>1 DEF PumpChunk
    <3>3. /\ AppendBounded(pump[s]) \in PumpType
          /\ AppendBounded(pump[s]).state = "pending"
          /\ AppendBounded(pump[s]).relayed = pump[s].relayed
      BY <1>1, <1>4, AppendBoundedKeeps
    <3> QED
      BY <1>4, <3>1, <3>3 DEF SessionInv, SessionTypeOK
  <2>2. CASE Head(out[s]) = "stdout"
    <3> DEFINE more == [pump[s] EXCEPT !.relayed = pump[s].relayed + 1]
    <3>1. /\ more \in PumpType /\ more.state = "pending"
          /\ [more EXCEPT !.state = "stopping"] \in PumpType
      <4>1. more \in PumpType /\ more.state = "pending"
        BY <1>1, <1>4 DEF PumpType
      <4> HIDE DEF more
      <4> QED
        BY <4>1 DEF PumpType
    <3>2. CASE more.relayed > ByteLimit
               /\ pump' = [pump EXCEPT ![s] = [more EXCEPT !.state = "stopping"]] /\ loop' = loop
      <4>1. [more EXCEPT !.state = "stopping"].state = "stopping"
        BY <3>1 DEF PumpType
      <4> HIDE DEF more
      <4> QED
        BY <3>1, <3>2, <4>1 DEF SessionInv, SessionTypeOK
    <3>3. CASE more.relayed <= ByteLimit /\ pump' = [pump EXCEPT ![s] = more] /\ loop' = loop
      <4> HIDE DEF more
      <4> QED
        BY <3>1, <3>3 DEF SessionInv, SessionTypeOK
    <3>4. CASE PumpResolves(s, "failed")
      <4>1. loop' \in LoopType
        BY <3>4, PumpResolvesTypes DEF SessionInv
      <4>2. pump' = [pump EXCEPT ![s] = [pump[s] EXCEPT !.state = "failed"]]
        BY <3>4 DEF PumpResolves
      <4>3. /\ [pump[s] EXCEPT !.state = "failed"] \in PumpType
            /\ [pump[s] EXCEPT !.state = "failed"].state = "failed"
        BY <1>4 DEF PumpType
      <4> QED
        BY <4>1, <4>2, <4>3
    <3> QED
      BY <2>2, <3>2, <3>3, <3>4 DEF PumpChunk
  <2> QED
    BY <2>1, <2>2
<1>6. PICK p \in PumpType :
          /\ pump' = [pump EXCEPT ![s] = p]
          /\ p.state \in {"pending", "stopping", "failed"}
          /\ p.state = "pending" => p.relayed <= ByteLimit
          /\ loop' \in LoopType
  BY <1>5
<1>7. SessionTypeOK'
  BY <1>2, <1>3, <1>6 DEF SessionInv, SessionTypeOK
<1>8. PumpsAreSound'
  BY <1>1, <1>2, <1>6 DEF SessionInv, SessionTypeOK, PumpsAreSound, Running
<1>9. ResultIsSound'
  BY <1>1, <1>2 DEF SessionInv, ResultIsSound
<1> QED
  BY <1>2, <1>7, <1>8, <1>9, OutputsFrame DEF SessionInv

\* A step of the session in which one pump takes a state that needs nothing.
LEMMA PumpStops ==
    ASSUME SessionInv, NEW s \in Sides, NEW state \in {"stopped", "failed"}, ~result.ok,
           step \notin {"setup", "create"},
           pump' = [pump EXCEPT ![s].state = state], loop' \in LoopType,
           UNCHANGED <<plan, step, captured, visible, out, written, result>>,
           pair' \in [Sides -> ContainerType],
           \A t \in Sides : pair'[t].state = "running" => Running(t)
    PROVE  SessionInv'
<1>1. /\ pump' \in [Sides -> PumpType] /\ pump'[s].state = state
      /\ \A t \in Sides : t # s => pump'[t] = pump[t]
  BY DEF SessionInv, SessionTypeOK, PumpType
<1>2. SessionTypeOK'
  BY <1>1 DEF SessionInv, SessionTypeOK
<1>3. PumpsAreSound'
  BY <1>1 DEF SessionInv, PumpsAreSound, Running
<1>4. ResultIsSound'
  BY DEF SessionInv, ResultIsSound
<1> QED
  BY <1>2, <1>3, <1>4, OutputsFrame DEF SessionInv

LEMMA KillSwitchSound ==
    ASSUME SessionInv, NEW s \in Sides, KillSwitch(s)
    PROVE  SessionInv'
<1>1. step \in {"loop", "finish"} /\ ~result.ok
  BY PollingIsEarly DEF KillSwitch
<1>2. PICK reached \in SUBSET Sides : pair' = AfterKill(reached)
  BY DEF KillSwitch
<1>3. pair' \in [Sides -> ContainerType] /\ \A t \in Sides : pair'[t].state = "running" => Running(t)
  BY <1>2, KillsOnly DEF SessionInv
<1> QED
  BY <1>1, <1>3, PumpStops DEF KillSwitch, SessionInv, SessionTypeOK

LEMMA LimitExceededSound ==
    ASSUME SessionInv, NEW s \in Sides, LimitExceeded(s)
    PROVE  SessionInv'
<1>1. step \in {"loop", "finish"} /\ ~result.ok
  BY PollingIsEarly DEF LimitExceeded
<1>2. loop' \in LoopType
  BY PumpResolvesTypes DEF LimitExceeded, SessionInv
<1> QED
  BY <1>1, <1>2, PumpStops DEF LimitExceeded, PumpResolves, SessionInv, SessionTypeOK, Running

LEMMA PumpEndsSound ==
    ASSUME SessionInv, NEW s \in Sides, PumpEnds(s)
    PROVE  SessionInv'
<1>1. step \in {"loop", "finish"} /\ ~result.ok /\ pump[s].state = "pending"
  BY PollingIsEarly DEF PumpEnds
<1>2. CASE PumpResolves(s, "failed")
  <2>1. loop' \in LoopType
    BY <1>2, PumpResolvesTypes DEF SessionInv
  <2> QED
    BY <1>1, <1>2, <2>1, PumpStops DEF PumpEnds, PumpResolves, SessionInv, SessionTypeOK, Running
<1>3. CASE Exited(s) /\ out[s] = <<>> /\ PumpResolves(s, "completed")
  <2>1. /\ pump' \in [Sides -> PumpType] /\ loop' \in LoopType
        /\ pump'[s].state = "completed" /\ pump'[s].relayed = pump[s].relayed
        /\ \A t \in Sides : t # s => pump'[t] = pump[t]
    BY <1>3, PumpResolvesTypes DEF SessionInv
  <2>2. UNCHANGED <<plan, step, captured, visible, pair, out, written, result>>
    BY DEF PumpEnds
  <2>3. SessionTypeOK'
    BY <2>1, <2>2 DEF SessionInv, SessionTypeOK
  <2>4. PumpsAreSound'
    BY <1>1, <1>3, <2>1, <2>2 DEF SessionInv, PumpsAreSound, Running, Exited
  <2>5. ResultIsSound'
    BY <1>1, <2>2 DEF SessionInv, ResultIsSound
  <2> QED
    BY <2>2, <2>3, <2>4, <2>5, OutputsFrame DEF SessionInv
<1> QED
  BY <1>2, <1>3 DEF PumpEnds

\* A step of the select loop: no pump moves, no container starts, no result.
LEMMA LoopSteps ==
    ASSUME SessionInv, step \in {"loop", "finish"}, step' \in {"loop", "finish", "cleanup"},
           loop' \in LoopType, pair' \in [Sides -> ContainerType],
           \A t \in Sides : pair'[t].state = "running" => Running(t),
           UNCHANGED <<plan, captured, visible, out, written, pump, result>>
    PROVE  SessionInv'
<1>1. SessionTypeOK'
  BY DEF SessionInv, SessionTypeOK, Steps
<1>2. PumpsAreSound'
  BY DEF SessionInv, PumpsAreSound, Running
<1>3. ResultIsSound'
  BY DEF SessionInv, ResultIsSound
<1> QED
  BY <1>1, <1>2, <1>3, OutputsFrame DEF SessionInv

LEMMA ExitArrivesSound ==
    ASSUME SessionInv, NEW s \in Sides, ExitArrives(s)
    PROVE  SessionInv'
<1>1. pair[s].code \in Nat /\ loop \in LoopType /\ pair \in [Sides -> ContainerType]
  BY DEF SessionInv, SessionTypeOK, ContainerType
<1>2. PICK g \in BOOLEAN : g = (loop.grace \/ (s = "evaluator" /\ pair[s].code = 0
                                            /\ loop.exits["participant"] = Unknown))
  BY <1>1 DEF LoopType
<1>3. loop' = [loop EXCEPT !.exits[s] = pair[s].code, !.grace = g]
  BY <1>2 DEF ExitArrives
<1>4. loop' \in LoopType
  BY <1>1, <1>3 DEF LoopType
<1> QED
  BY <1>1, <1>4, LoopSteps DEF ExitArrives, LoopGoesOn, Running

LEMMA LoopTerminalSound ==
    ASSUME SessionInv, (\E s \in Sides : WaitBreaks(s)) \/ SessionTimeout
    PROVE  SessionInv'
<1>1. /\ step = "loop" /\ UNCHANGED <<plan, step, captured, visible, pair, out, written, pump, result>>
      /\ \E t \in {"timeout", "error"} : loop' = [loop EXCEPT !.terminal = t]
  BY DEF WaitBreaks, SessionTimeout, LoopGoesOn
<1>2. loop' \in LoopType
  BY <1>1 DEF SessionInv, SessionTypeOK, LoopType
<1> QED
  BY <1>1, <1>2, LoopSteps DEF SessionInv, SessionTypeOK, Running

LEMMA GraceEndsSound ==
    ASSUME SessionInv, GraceEnds
    PROVE  SessionInv'
<1>1. /\ pair' \in [Sides -> ContainerType]
      /\ \A t \in Sides : pair'[t].state = "running" => Running(t)
  BY KillsOnly DEF GraceEnds, SessionInv, SessionTypeOK, Running, Sides
<1>2. loop' \in LoopType
  BY DEF GraceEnds, SessionInv, SessionTypeOK, LoopType, Sides
<1> QED
  BY <1>1, <1>2, LoopSteps DEF GraceEnds, LoopGoesOn

LEMMA LeaveLoopSound ==
    ASSUME SessionInv, LeaveLoop
    PROVE  SessionInv'
<1>1. /\ pair' \in [Sides -> ContainerType]
      /\ \A t \in Sides : pair'[t].state = "running" => Running(t)
  BY KillsOnly DEF LeaveLoop, SessionInv, SessionTypeOK, Running
<1> QED
  BY <1>1, LoopSteps DEF LeaveLoop, SessionInv, SessionTypeOK

LEMMA PumpTimesOutSound ==
    ASSUME SessionInv, NEW s \in Sides, PumpTimesOut(s)
    PROVE  SessionInv'
<1>1. step = "finish" /\ ~result.ok
  BY DEF PumpTimesOut, SessionInv, ResultIsSound
<1> QED
  BY <1>1, PumpStops DEF PumpTimesOut, SessionInv, SessionTypeOK, Running

\* The verdict is the evaluator's own exit, unless the session timed out.
LEMMA FinishSessionSound ==
    ASSUME SessionInv, FinishSession
    PROVE  SessionInv'
<1>1. /\ step = "finish" /\ step' = "cleanup" /\ ~result.ok
      /\ UNCHANGED <<plan, captured, visible, pair, out, written, pump, loop>>
  BY DEF FinishSession, SessionInv, ResultIsSound
<1>2. loop \in LoopType
  BY DEF SessionInv, SessionTypeOK
<1>3. CASE PumpsFinish /\ loop.terminal # "error" /\ result' = Outcome
  <2>1. /\ result' \in ResultType
        /\ loop.terminal = "timeout" => result'.timedOut
        /\ loop.terminal = "none" => result'.codes["evaluator"] = loop.exits["evaluator"]
    <3>1. PICK b \in BOOLEAN : b = (loop.terminal = "timeout")
      OBVIOUS
    <3> DEFINE codes == [s \in Sides |-> IF loop.terminal = "timeout" THEN TimedOutCode
                                        ELSE IF loop.exits["evaluator"] = 0 THEN 0 ELSE loop.exits[s]]
    <3>2. /\ codes \in [Sides -> Nat]
          /\ loop.terminal = "none" => codes["evaluator"] = loop.exits["evaluator"]
      BY <1>2 DEF LoopType, TimedOutCode, Sides
    <3>3. Outcome = [ok |-> TRUE, timedOut |-> loop.terminal = "timeout", codes |-> codes]
      BY DEF Outcome
    <3> HIDE DEF codes
    <3>4. result' = [ok |-> TRUE, timedOut |-> b, codes |-> codes]
      BY <1>3, <3>1, <3>3
    <3> QED
      BY <3>1, <3>2, <3>4 DEF ResultType
  <2>2. SessionTypeOK'
    BY <1>1, <2>1 DEF SessionInv, SessionTypeOK, Steps
  <2>3. ResultIsSound'
    BY <1>1, <1>3, <2>1 DEF ResultIsSound, PumpsFinish
  <2>4. PumpsAreSound'
    BY <1>1 DEF SessionInv, PumpsAreSound, Running
  <2> QED
    BY <1>1, <2>2, <2>3, <2>4, OutputsFrame DEF SessionInv
<1>4. CASE UNCHANGED result
  <2>1. SessionTypeOK'
    BY <1>1, <1>4 DEF SessionInv, SessionTypeOK, Steps
  <2>2. PumpsAreSound' /\ ResultIsSound'
    BY <1>1, <1>4 DEF SessionInv, PumpsAreSound, ResultIsSound, Running
  <2> QED
    BY <1>1, <2>1, <2>2, OutputsFrame DEF SessionInv
<1> QED
  BY <1>3, <1>4 DEF FinishSession

LEMMA CleanUpPairSound ==
    ASSUME SessionInv, CleanUpPair
    PROVE  SessionInv'
<1>1. PICK removed \in SUBSET Sides, repaired \in BOOLEAN :
          /\ pair' = [s \in Sides |-> IF s \in removed THEN NoContainers[s] ELSE pair[s]]
          /\ result' = [result EXCEPT !.ok = @ /\ removed = Sides /\ repaired]
  BY DEF CleanUpPair
<1>2. /\ step = "cleanup" /\ step' = "judge"
      /\ UNCHANGED <<plan, captured, visible, out, written, pump, loop>>
  BY DEF CleanUpPair
<1>3. result \in ResultType
  BY DEF SessionInv, SessionTypeOK
<1>4. PICK ok \in BOOLEAN : /\ ok = (result.ok /\ removed = Sides /\ repaired)
                            /\ ok => result.ok /\ removed = Sides
  BY <1>3 DEF ResultType
<1>5. result' = [result EXCEPT !.ok = ok]
  BY <1>1, <1>4
<1>6. /\ result' \in ResultType /\ (result'.ok => result.ok /\ removed = Sides)
      /\ result'.timedOut = result.timedOut /\ result'.codes = result.codes
  BY <1>3, <1>4, <1>5 DEF ResultType
<1>7. /\ pair' \in [Sides -> ContainerType]
      /\ \A s \in Sides : pair'[s].state = "running" => Running(s)
      /\ removed = Sides => \A s \in Sides : pair'[s].state = "none"
  BY <1>1 DEF SessionInv, SessionTypeOK, NoContainers, ContainerType, Unknown, Running
<1>8. SessionTypeOK'
  BY <1>2, <1>6, <1>7 DEF SessionInv, SessionTypeOK, Steps
<1>9. PumpsAreSound'
  BY <1>2, <1>7 DEF SessionInv, PumpsAreSound, Running
<1>10. ResultIsSound'
  BY <1>2, <1>6, <1>7 DEF SessionInv, ResultIsSound, PumpsFinish
<1> QED
  BY <1>2, <1>8, <1>9, <1>10, OutputsFrame DEF SessionInv

LEMMA JudgeSessionSound ==
    ASSUME SessionInv, JudgeSession
    PROVE  SessionInv'
<1>1. step = "judge" /\ step' \in {"done", "failed"} /\ UNCHANGED <<plan, visible, sessionVars>>
  BY DEF JudgeSession
<1>2. pump["participant"].logs \in Nat /\ pump["evaluator"].logs \in Nat
  BY DEF SessionInv, SessionTypeOK, PumpType, Sides
<1>3. Contained(AppendVisible(captured, pump["participant"].logs))
  BY <1>2, AppendVisibleContained DEF SessionInv, OutputsInv
<1>4. Contained(AppendVisible(AppendVisible(captured, pump["participant"].logs),
                              pump["evaluator"].logs))
  BY <1>2, <1>3, AppendVisibleContained
<1>5. OutputsInv'
  BY <1>1, <1>4 DEF JudgeSession, SessionInv, OutputsInv, Contained, Bounded
<1>6. SessionTypeOK'
  BY <1>1 DEF SessionInv, SessionTypeOK, sessionVars, Steps
<1>7. PumpsAreSound'
  BY <1>1 DEF SessionInv, PumpsAreSound, sessionVars, Running
<1>8. step' = "done" => result.ok /\ ~result.timedOut /\ result.codes["evaluator"] = 0
  BY DEF JudgeSession, Sides
<1>9. ResultIsSound'
  BY <1>1, <1>8 DEF SessionInv, ResultIsSound, sessionVars, PumpsFinish
<1> QED
  BY <1>5, <1>6, <1>7, <1>9 DEF SessionInv

-----------------------------------------------------------------------------
(* The theorems.                                                              *)

\* The invariant is inductive, whatever the containers write, when they exit,
\* and whichever Docker calls fail.
THEOREM SessionInvariance == SessionSpec => []SessionInv
<1>1. SessionInit => SessionInv
  BY InitSound
<1>2. SessionInv /\ [SessionNext]_executionVars => SessionInv'
  <2> SUFFICES ASSUME SessionInv, [SessionNext]_executionVars PROVE SessionInv'
    OBVIOUS
  <2>1. CASE UNCHANGED executionVars
    BY <2>1 DEF executionVars, SessionInv, SessionTypeOK, OutputsInv, Contained, Bounded,
        PumpsAreSound, ResultIsSound, PumpsFinish, Running
  <2>2. CASE ConfigureLimits \/ MaterializeFails \/ SolutionRun \/ EvaluateRuns
    BY <2>2, ConfigureLimitsSound, MaterializeFailsSound, SolutionRunSound, EvaluateRunsSound
  <2>3. CASE CreatePair \/ GraceEnds \/ LeaveLoop \/ FinishSession \/ CleanUpPair \/ JudgeSession
    BY <2>3, CreatePairSound, GraceEndsSound, LeaveLoopSound, FinishSessionSound, CleanUpPairSound,
        JudgeSessionSound
  <2>4. CASE SessionTimeout \/ \E s \in Sides : WaitBreaks(s)
    BY <2>4, LoopTerminalSound
  <2>5. CASE \E s \in Sides : ContainerWrites(s) \/ SideExits(s) \/ PumpChunk(s) \/ KillSwitch(s)
    BY <2>5, ContainerWritesSound, SideExitsSound, PumpChunkSound, KillSwitchSound
  <2>6. CASE \E s \in Sides : LimitExceeded(s) \/ PumpEnds(s) \/ ExitArrives(s) \/ PumpTimesOut(s)
    BY <2>6, LimitExceededSound, PumpEndsSound, ExitArrivesSound, PumpTimesOutSound
  <2> QED
    BY <2>1, <2>2, <2>3, <2>4, <2>5, <2>6 DEF SessionNext, Session, Finished
<1> QED
  BY <1>1, <1>2, PTL DEF SessionSpec

\* A session the worker accepts was accepted by its evaluator, within the byte
\* limit, drained and cleaned up (run_attached_interactive_pair and its end).
THEOREM AcceptanceSafety == SessionSpec => []AcceptedSession
<1>1. SessionInv => AcceptedSession
  BY DEF SessionInv, SessionTypeOK, LoopType, PumpsAreSound, ResultIsSound, PumpsFinish,
      AcceptedSession
<1> QED
  BY <1>1, SessionInvariance, PTL

\* Output trees and logs stay within their limits, and a redacted log holds no
\* container output (inspect_tree, EvaluationLogs).
THEOREM ContainmentSafety == SessionSpec => []OutputsAreContained
<1>1. SessionInv => OutputsAreContained
  BY DEF SessionInv, OutputsInv, Contained, Bounded, TreeIsPlain, OutputsAreContained
<1> QED
  BY <1>1, SessionInvariance, PTL

=============================================================================
