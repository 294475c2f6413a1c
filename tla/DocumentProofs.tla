--------------------------- MODULE DocumentProofs ---------------------------
(***************************************************************************)
(* For every entry, whatever fields an application or a request gives it:  *)
(* enrichment loses no field, leaves a JSON document, is done once for     *)
(* all, and tells the times, ids, headers and target calls as they were.   *)
(*                                                                         *)
(* Enrichment is a recursive function over the list of its fields.  What   *)
(* holds of every document on the way is proved by induction on that list, *)
(* with the set of the steps it holds after in place of a predicate.       *)
(***************************************************************************)
EXTENDS Document, SequenceTheorems, WellFoundedInduction, TLAPS

-----------------------------------------------------------------------------
(* Induction *)

\* Induction on numbers, for a set of them.
LEMMA SetInduction ==
    ASSUME NEW S \in SUBSET Nat, 0 \in S, \A n \in S : n + 1 \in S
    PROVE  S = Nat
<1> SUFFICES ASSUME S # Nat PROVE FALSE
  OBVIOUS
<1> DEFINE T == Nat \ S
<1>1. T \subseteq Nat /\ T # {}
  OBVIOUS
<1>2. IsWellFoundedOn(OpToRel(<, Nat), Nat)
  BY NatLessThanWellFounded
<1>3. PICK x \in T : \A y \in T : <<y, x>> \notin OpToRel(<, Nat)
  BY <1>1, <1>2, WFMin
<1>4. \A y \in T : ~(y < x)
  BY <1>3 DEF OpToRel
<1>5. x - 1 \in T
  OBVIOUS
<1> QED BY <1>4, <1>5

\* The documents on the way, after each of the first m fields.
OnTheWay(after, d, fields, m) ==
    after = [n \in 0..m |-> IF n = 0 THEN d ELSE InsertField(after[n - 1], fields[n])]

\* They exist: each is made from the one before.
LEMMA DocumentsExist ==
    ASSUME NEW d, NEW fields, NEW m \in Nat PROVE \E after : OnTheWay(after, d, fields, m)
<1> DEFINE Is(f, k) == f = [n \in 0..k |-> IF n = 0 THEN d ELSE InsertField(f[n - 1], fields[n])]
           S == {k \in Nat : \E f : Is(f, k)}
<1>1. 0 \in S
  <2> DEFINE f == [n \in 0..0 |-> d]
  <2>1. Is(f, 0)
    OBVIOUS
  <2> QED BY <2>1
<1>2. ASSUME NEW k \in S PROVE k + 1 \in S
  <2>1. PICK f : Is(f, k)
    OBVIOUS
  <2> DEFINE g == [n \in 0..(k + 1) |->
                      IF n = k + 1 THEN InsertField(f[k], fields[n]) ELSE f[n]]
  <2>2. \A n \in 0..k : f[n] = IF n = 0 THEN d ELSE InsertField(f[n - 1], fields[n])
    BY <2>1
  <2>3. \A n \in 0..k : g[n] = f[n]
    OBVIOUS
  <2>4. g[k + 1] = InsertField(f[k], fields[k + 1])
    OBVIOUS
  <2>5. \A n \in 0..(k + 1) : g[n] = IF n = 0 THEN d ELSE InsertField(g[n - 1], fields[n])
    <3> SUFFICES ASSUME NEW n \in 0..(k + 1)
                 PROVE  g[n] = IF n = 0 THEN d ELSE InsertField(g[n - 1], fields[n])
      OBVIOUS
    <3>1. CASE n = k + 1
      BY <2>3, <2>4, <3>1
    <3>2. CASE n \in 0..k
      BY <2>2, <2>3, <3>2
    <3> QED BY <3>1, <3>2
  <2>6. Is(g, k + 1)
    BY <2>5
  <2> HIDE DEF g
  <2> QED BY <2>6
<1> HIDE DEF S
<1>3. S = Nat
  <2>1. S \in SUBSET Nat
    BY DEF S
  <2> QED BY <1>1, <1>2, <2>1, SetInduction
<1>4. m \in S
  BY <1>3
<1> QED BY <1>4 DEF S, OnTheWay

\* The paths of the fields, F, that enrichment inserts.
HasPaths(F) ==
    /\ F[1][1] = <<"@timestamp">> /\ F[2][1] = <<"ecs", "version">>
    /\ F[3][1] = <<"log", "level">> /\ F[4][1] = <<"event", "dataset">>
    /\ F[5][1] = <<"event", "module">> /\ F[6][1] = <<"event", "start">>
    /\ F[7][1] = <<"event", "end">> /\ F[8][1] = <<"event", "duration">>
    /\ F[9][1] = <<"http", "request", "method">>
    /\ F[10][1] = <<"http", "request", "mime_type">>
    /\ F[11][1] = <<"http", "request", "body", "content">>
    /\ F[12][1] = <<"http", "request", "headers">>
    /\ F[13][1] = <<"http", "version">> /\ F[14][1] = <<"url", "full">>
    /\ F[15][1] = <<"url", "domain">> /\ F[16][1] = <<"client", "ip">>
    /\ F[17][1] = <<"user_agent", "original">>
    /\ F[18][1] = <<"http", "request", "id">> /\ F[19][1] = <<"labels">>
    /\ F[20][1] = <<"labels", "request_id">>
    /\ F[21][1] = <<"http", "response", "status_code">>
    /\ F[22][1] = <<"http", "response", "body", "content">>
    /\ F[23][1] = <<"http", "response", "headers">> /\ F[24][1] = <<"user", "name">>

LEMMA EcsPaths ==
    ASSUME NEW d, NEW now PROVE Len(EcsFields(d, now)) = 24 /\ HasPaths(EcsFields(d, now))
BY DEF EcsFields, HasPaths

\* Enrichment inserts the fields, F, one after the other.
LEMMA Insertions ==
    ASSUME NEW d, NEW now, NEW F, F = EcsFields(d, now)
    PROVE  \E after : /\ after[0] = d
                      /\ \A n \in 1..24 : after[n] = InsertField(after[n - 1], F[n])
                      /\ EnrichWithEcs(d, now) = after[24]
<1>1. Len(F) = 24
  BY EcsPaths
<1> DEFINE run == CHOOSE f : OnTheWay(f, d, F, 24)
<1>2. EnrichWithEcs(d, now) = run[24]
  BY <1>1 DEF EnrichWithEcs, OnTheWay
<1>3. \E f : OnTheWay(f, d, F, 24)
  BY DocumentsExist
<1>4. OnTheWay(run, d, F, 24)
  BY <1>3
<1> HIDE DEF run
<1>5. \A n \in 0..24 : run[n] = IF n = 0 THEN d ELSE InsertField(run[n - 1], F[n])
  BY <1>4 DEF OnTheWay
<1>6. run[0] = d
  BY <1>5
<1>7. \A n \in 1..24 : run[n] = InsertField(run[n - 1], F[n])
  BY <1>5
<1> QED BY <1>2, <1>6, <1>7

\* What is above a path of up to four keys.
LEMMA AboveShort ==
    /\ \A a : Above(<<a>>) = {}
    /\ \A a, b : Above(<<a, b>>) = {<<a>>}
    /\ \A a, b, c : Above(<<a, b, c>>) = {<<a>>, <<a, b>>}
    /\ \A a, b, c, e : Above(<<a, b, c, e>>) = {<<a>>, <<a, b>>, <<a, b, c>>}
<1>1. ASSUME NEW a PROVE Above(<<a>>) = {}
  BY DEF Above
<1>2. ASSUME NEW a, NEW b PROVE Above(<<a, b>>) = {<<a>>}
  BY DEF Above
<1>3. ASSUME NEW a, NEW b, NEW c PROVE Above(<<a, b, c>>) = {<<a>>, <<a, b>>}
  BY DEF Above
<1>4. ASSUME NEW a, NEW b, NEW c, NEW e
      PROVE  Above(<<a, b, c, e>>) = {<<a>>, <<a, b>>, <<a, b, c>>}
  BY DEF Above
<1> QED BY <1>1, <1>2, <1>3, <1>4

\* A path is not above itself, what is above a path above it is above it, and all
\* of them begin alike.
WellFormed(path) ==
    /\ path \notin Above(path)
    /\ \A p \in Above(path) : Above(p) \subseteq Above(path) /\ p[1] = path[1]

LEMMA WellFormedShort ==
    /\ \A a : WellFormed(<<a>>)
    /\ \A a, b : WellFormed(<<a, b>>)
    /\ \A a, b, c : WellFormed(<<a, b, c>>)
    /\ \A a, b, c, e : WellFormed(<<a, b, c, e>>)
<1>1. ASSUME NEW a PROVE WellFormed(<<a>>)
  BY AboveShort DEF WellFormed
<1>2. ASSUME NEW a, NEW b PROVE WellFormed(<<a, b>>)
  BY AboveShort DEF WellFormed
<1>3. ASSUME NEW a, NEW b, NEW c PROVE WellFormed(<<a, b, c>>)
  BY AboveShort DEF WellFormed
<1>4. ASSUME NEW a, NEW b, NEW c, NEW e PROVE WellFormed(<<a, b, c, e>>)
  BY AboveShort DEF WellFormed
<1> QED BY <1>1, <1>2, <1>3, <1>4

LEMMA EcsWellFormed ==
    ASSUME NEW d, NEW now, NEW n \in 1..24 PROVE WellFormed(EcsFields(d, now)[n][1])
<1>1. PICK F : F = EcsFields(d, now) /\ HasPaths(F)
  BY EcsPaths
<1>2. WellFormed(F[1][1]) /\ WellFormed(F[19][1])
  BY <1>1, WellFormedShort DEF HasPaths
<1>3. /\ WellFormed(F[2][1]) /\ WellFormed(F[3][1]) /\ WellFormed(F[4][1])
      /\ WellFormed(F[5][1]) /\ WellFormed(F[6][1]) /\ WellFormed(F[7][1])
      /\ WellFormed(F[8][1]) /\ WellFormed(F[13][1]) /\ WellFormed(F[14][1])
      /\ WellFormed(F[15][1]) /\ WellFormed(F[16][1]) /\ WellFormed(F[17][1])
      /\ WellFormed(F[20][1]) /\ WellFormed(F[24][1])
  BY <1>1, WellFormedShort DEF HasPaths
<1>4. /\ WellFormed(F[9][1]) /\ WellFormed(F[10][1]) /\ WellFormed(F[12][1])
      /\ WellFormed(F[18][1]) /\ WellFormed(F[21][1]) /\ WellFormed(F[23][1])
  BY <1>1, WellFormedShort DEF HasPaths
<1>5. WellFormed(F[11][1]) /\ WellFormed(F[22][1])
  BY <1>1, WellFormedShort DEF HasPaths
<1>6. n \in {1, 2, 3, 4, 5, 6, 7, 8, 9, 10, 11, 12, 13, 14, 15, 16, 17, 18, 19, 20, 21, 22, 23, 24}
  OBVIOUS
<1>7. WellFormed(F[n][1])
  BY ONLY <1>2, <1>3, <1>4, <1>5, <1>6
<1> QED BY <1>1, <1>7

-----------------------------------------------------------------------------
(* One insertion *)

\* What InsertNested makes of a document.
IsInserted(e, d, path, v) ==
    /\ DOMAIN e = Above(path) \cup DOMAIN d \cup {path}
    /\ \A p \in Above(path) :
          e[p] = IF p \in DOMAIN d /\ IsObject(d[p]) THEN d[p] ELSE Object
    /\ \A p \in DOMAIN d \ Above(path) : e[p] = d[p]
    /\ path \notin Above(path) \cup DOMAIN d => e[path] = v

LEMMA Inserted ==
    ASSUME NEW d, NEW path, NEW v PROVE IsInserted(InsertNested(d, path, v), d, path, v)
BY DEF IsInserted, InsertNested, OrElse, At

LEMMA ObjectIsObject == IsObject(Object)
BY DEF Object, Obj, IsObject

\* A JSON document stays one.
LEMMA InsertedTree ==
    ASSUME NEW d, NEW path, NEW v, IsTree(d), WellFormed(path)
    PROVE  IsTree(InsertNested(d, path, v))
<1> DEFINE e == InsertNested(d, path, v)
<1>1. IsInserted(e, d, path, v)
  BY Inserted
<1> HIDE DEF e
<1>2. \A p \in Above(path) : IsObject(e[p])
  BY <1>1, ObjectIsObject DEF IsInserted
<1>3. ASSUME NEW q \in DOMAIN e, NEW p \in Above(q) PROVE p \in DOMAIN e /\ IsObject(e[p])
  <2>1. CASE q \in Above(path) \cup {path}
    BY <1>1, <1>2, <1>3, <2>1 DEF WellFormed, IsInserted
  <2>2. CASE q \in DOMAIN d
    BY <1>1, <1>2, <1>3, <2>2 DEF IsTree, IsInserted
  <2> QED BY <1>1, <1>3, <2>1, <2>2 DEF IsInserted
<1> QED BY <1>3 DEF IsTree, e

\* e has what d has, but for values that were in the way of a field of its own.
Keeps(d, e) ==
    \A p \in DOMAIN d :
        /\ p \in DOMAIN e
        /\ \/ e[p] = d[p]
           \/ ~IsObject(d[p]) /\ e[p] = Object /\ \E q \in DOMAIN e \ DOMAIN d : p \in Above(q)

LEMMA InsertedKeeps ==
    ASSUME NEW d, NEW path, NEW v, IsTree(d), WellFormed(path)
    PROVE  Keeps(d, InsertNested(d, path, v))
<1> DEFINE e == InsertNested(d, path, v)
<1>1. IsInserted(e, d, path, v)
  BY Inserted
<1> HIDE DEF e
<1>2. ASSUME NEW p \in DOMAIN d, e[p] # d[p]
      PROVE  /\ ~IsObject(d[p]) /\ e[p] = Object
             /\ path \in DOMAIN e \ DOMAIN d /\ p \in Above(path)
  BY <1>1, <1>2 DEF IsTree, IsInserted
<1>3. DOMAIN d \subseteq DOMAIN e
  BY <1>1 DEF IsInserted
<1>4. Keeps(d, e)
  BY <1>2, <1>3 DEF Keeps
<1> QED BY <1>4 DEF e

LEMMA KeepsOn ==
    ASSUME NEW d, NEW e, NEW f, Keeps(d, e), Keeps(e, f) PROVE Keeps(d, f)
<1> SUFFICES ASSUME NEW p \in DOMAIN d
             PROVE  /\ p \in DOMAIN f
                    /\ \/ f[p] = d[p]
                       \/ /\ ~IsObject(d[p]) /\ f[p] = Object
                          /\ \E q \in DOMAIN f \ DOMAIN d : p \in Above(q)
  BY DEF Keeps
<1>1. DOMAIN d \subseteq DOMAIN e /\ DOMAIN e \subseteq DOMAIN f
  BY DEF Keeps
<1>2. CASE e[p] = d[p]
  BY <1>1, <1>2 DEF Keeps
<1>3. CASE ~IsObject(d[p]) /\ e[p] = Object /\ \E q \in DOMAIN e \ DOMAIN d : p \in Above(q)
  <2>1. f[p] = e[p]
    BY <1>1, <1>3, ObjectIsObject DEF Keeps
  <2> QED BY <1>1, <1>3, <2>1
<1> QED BY <1>2, <1>3 DEF Keeps

-----------------------------------------------------------------------------
(* Enrichment *)

\* Enrichment leaves a JSON document that has what it was given.
LEMMA Enriched ==
    ASSUME NEW d, NEW now, IsTree(d)
    PROVE  IsTree(EnrichWithEcs(d, now)) /\ Keeps(d, EnrichWithEcs(d, now))
<1>1. PICK F : F = EcsFields(d, now)
  OBVIOUS
<1>2. PICK after : /\ after[0] = d
                   /\ \A n \in 1..24 : after[n] = InsertField(after[n - 1], F[n])
                   /\ EnrichWithEcs(d, now) = after[24]
  BY <1>1, Insertions
<1> DEFINE S == {n \in Nat : n <= 24 => IsTree(after[n]) /\ Keeps(d, after[n])}
<1>3. 0 \in S
  BY <1>2 DEF Keeps
<1>4. ASSUME NEW n \in S PROVE n + 1 \in S
  <2> SUFFICES ASSUME n + 1 <= 24 PROVE IsTree(after[n + 1]) /\ Keeps(d, after[n + 1])
    OBVIOUS
  <2>1. IsTree(after[n]) /\ Keeps(d, after[n])
    OBVIOUS
  <2>2. n + 1 \in 1..24 /\ n + 1 - 1 = n
    OBVIOUS
  <2>3. WellFormed(F[n + 1][1])
    BY <1>1, <2>2, EcsWellFormed
  <2>4. after[n + 1] = InsertField(after[n], F[n + 1])
    BY <1>2, <2>2
  <2>5. CASE F[n + 1][2] = {}
    BY <2>1, <2>4, <2>5 DEF InsertField
  <2>6. CASE F[n + 1][2] # {}
    <3>1. PICK v : after[n + 1] = InsertNested(after[n], F[n + 1][1], v)
      BY <2>4, <2>6 DEF InsertField
    <3>2. IsTree(after[n + 1]) /\ Keeps(after[n], after[n + 1])
      BY <2>1, <2>3, <3>1, InsertedTree, InsertedKeeps
    <3> QED BY <2>1, <3>2, KeepsOn
  <2> QED BY <2>5, <2>6
<1>5. S = Nat
  <2> HIDE DEF S
  <2>1. S \in SUBSET Nat
    BY DEF S
  <2> QED BY <1>3, <1>4, <2>1, SetInduction
<1>6. IsTree(after[24]) /\ Keeps(d, after[24])
  BY <1>5
<1> QED BY <1>2, <1>6

\* e and d have the same at p.
SameAt(p, e, d) == (p \in DOMAIN e <=> p \in DOMAIN d) /\ (p \in DOMAIN d => e[p] = d[p])

\* What no field with a value needs as an object, or has set, is as it was.
LEMMA Untouched ==
    ASSUME NEW d, NEW now, NEW F, F = EcsFields(d, now), NEW p,
           \A n \in 1..24 : F[n][2] # {} =>
               p \notin Above(F[n][1]) /\ (p = F[n][1] => p \in DOMAIN d)
    PROVE  SameAt(p, EnrichWithEcs(d, now), d)
<1>1. PICK after : /\ after[0] = d
                   /\ \A n \in 1..24 : after[n] = InsertField(after[n - 1], F[n])
                   /\ EnrichWithEcs(d, now) = after[24]
  BY Insertions
<1> DEFINE S == {n \in Nat : n <= 24 => SameAt(p, after[n], d)}
<1>2. 0 \in S
  BY <1>1 DEF SameAt
<1>3. ASSUME NEW n \in S PROVE n + 1 \in S
  <2> SUFFICES ASSUME n + 1 <= 24 PROVE SameAt(p, after[n + 1], d)
    OBVIOUS
  <2>1. SameAt(p, after[n], d)
    OBVIOUS
  <2>2. n + 1 \in 1..24 /\ n + 1 - 1 = n
    OBVIOUS
  <2>3. after[n + 1] = InsertField(after[n], F[n + 1])
    BY <1>1, <2>2
  <2>4. CASE F[n + 1][2] = {}
    BY <2>1, <2>3, <2>4 DEF InsertField
  <2>5. CASE F[n + 1][2] # {}
    <3>1. PICK v : after[n + 1] = InsertNested(after[n], F[n + 1][1], v)
      BY <2>3, <2>5 DEF InsertField
    <3>2. IsInserted(after[n + 1], after[n], F[n + 1][1], v)
      BY <3>1, Inserted
    <3>3. p \notin Above(F[n + 1][1]) /\ (p = F[n + 1][1] => p \in DOMAIN d)
      BY <2>2, <2>5
    <3> QED BY <2>1, <3>2, <3>3 DEF IsInserted, SameAt
  <2> QED BY <2>4, <2>5
<1>4. S = Nat
  <2> HIDE DEF S
  <2>1. S \in SUBSET Nat
    BY DEF S
  <2> QED BY <1>2, <1>3, <2>1, SetInduction
<1>5. SameAt(p, after[24], d)
  BY <1>4
<1> QED BY <1>1, <1>5

\* A field with a value is there afterwards.
LEMMA AllInserted ==
    ASSUME NEW d, NEW now, NEW F, F = EcsFields(d, now), NEW i \in 1..24, F[i][2] # {}
    PROVE  F[i][1] \in DOMAIN EnrichWithEcs(d, now)
<1>1. PICK after : /\ after[0] = d
                   /\ \A n \in 1..24 : after[n] = InsertField(after[n - 1], F[n])
                   /\ EnrichWithEcs(d, now) = after[24]
  BY Insertions
<1> DEFINE S == {n \in Nat : n <= 24 /\ i <= n => F[i][1] \in DOMAIN after[n]}
<1>2. 0 \in S
  OBVIOUS
<1>3. ASSUME NEW n \in S PROVE n + 1 \in S
  <2> SUFFICES ASSUME n + 1 <= 24, i <= n + 1 PROVE F[i][1] \in DOMAIN after[n + 1]
    OBVIOUS
  <2>1. i <= n => F[i][1] \in DOMAIN after[n]
    OBVIOUS
  <2>2. n + 1 \in 1..24 /\ n + 1 - 1 = n /\ (i <= n \/ i = n + 1)
    OBVIOUS
  <2>3. after[n + 1] = InsertField(after[n], F[n + 1])
    BY <1>1, <2>2
  <2>4. CASE F[n + 1][2] = {}
    BY <2>1, <2>2, <2>3, <2>4 DEF InsertField
  <2>5. CASE F[n + 1][2] # {}
    <3>1. PICK v : after[n + 1] = InsertNested(after[n], F[n + 1][1], v)
      BY <2>3, <2>5 DEF InsertField
    <3>2. IsInserted(after[n + 1], after[n], F[n + 1][1], v)
      BY <3>1, Inserted
    <3> QED BY <2>1, <2>2, <3>2 DEF IsInserted
  <2> QED BY <2>4, <2>5
<1>4. S = Nat
  <2> HIDE DEF S
  <2>1. S \in SUBSET Nat
    BY DEF S
  <2> QED BY <1>2, <1>3, <2>1, SetInduction
<1>5. F[i][1] \in DOMAIN after[24]
  BY <1>4
<1> QED BY <1>1, <1>5

\* No other field needs the path of the field i.
IsLeaf(F, i) ==
    \A n \in 1..24 : F[i][1] \notin Above(F[n][1]) /\ (n # i => F[n][1] # F[i][1])

\* A field that is new, and has a path of its own, has one of its values.
LEMMA LeafInserted ==
    ASSUME NEW d, NEW now, NEW F, F = EcsFields(d, now), NEW i \in 1..24, IsLeaf(F, i),
           F[i][2] # {}, F[i][1] \notin DOMAIN d
    PROVE  EnrichWithEcs(d, now)[F[i][1]] \in F[i][2]
<1>1. PICK after : /\ after[0] = d
                   /\ \A n \in 1..24 : after[n] = InsertField(after[n - 1], F[n])
                   /\ EnrichWithEcs(d, now) = after[24]
  BY Insertions
<1> DEFINE p == F[i][1]
           Right(n) == IF n < i THEN p \notin DOMAIN after[n]
                       ELSE p \in DOMAIN after[n] /\ after[n][p] \in F[i][2]
           S == {n \in Nat : n <= 24 => Right(n)}
<1>2. 0 \in S
  BY <1>1
<1>3. ASSUME NEW n \in S PROVE n + 1 \in S
  <2> SUFFICES ASSUME n + 1 <= 24 PROVE Right(n + 1)
    OBVIOUS
  <2>1. Right(n)
    OBVIOUS
  <2>2. n + 1 \in 1..24 /\ n + 1 - 1 = n
    OBVIOUS
  <2>3. after[n + 1] = InsertField(after[n], F[n + 1])
    BY <1>1, <2>2
  <2>4. p \notin Above(F[n + 1][1]) /\ (n + 1 # i => F[n + 1][1] # p)
    BY <2>2 DEF IsLeaf
  <2> HIDE DEF p
  <2>5. CASE F[n + 1][2] = {}
    <3>1. n + 1 # i
      BY <2>5
    <3> QED BY <2>1, <2>3, <2>5, <3>1 DEF InsertField
  <2>6. CASE F[n + 1][2] # {}
    <3>1. PICK v \in F[n + 1][2] : after[n + 1] = InsertNested(after[n], F[n + 1][1], v)
      BY <2>3, <2>6 DEF InsertField
    <3>2. IsInserted(after[n + 1], after[n], F[n + 1][1], v)
      BY <3>1, Inserted
    <3>3. CASE n + 1 = i
      BY <2>1, <2>4, <3>1, <3>2, <3>3 DEF IsInserted, p
    <3>4. CASE n + 1 # i
      BY <2>1, <2>4, <3>2, <3>4 DEF IsInserted
    <3> QED BY <3>3, <3>4
  <2> QED BY <2>5, <2>6
<1>4. S = Nat
  <2> HIDE DEF S
  <2>1. S \in SUBSET Nat
    BY DEF S
  <2> QED BY <1>2, <1>3, <2>1, SetInduction
<1>5. Right(24)
  BY <1>4
<1> QED BY <1>1, <1>5

IsFunction(d) == d = [p \in DOMAIN d |-> d[p]]

\* A document that has every field that would get a value stays as it is.
LEMMA Complete ==
    ASSUME NEW d, NEW now, NEW F, F = EcsFields(d, now), IsFunction(d),
           \A n \in 1..24 : F[n][2] # {} =>
               /\ F[n][1] \in DOMAIN d
               /\ \A p \in Above(F[n][1]) : p \in DOMAIN d /\ IsObject(d[p])
    PROVE  EnrichWithEcs(d, now) = d
<1>1. PICK after : /\ after[0] = d
                   /\ \A n \in 1..24 : after[n] = InsertField(after[n - 1], F[n])
                   /\ EnrichWithEcs(d, now) = after[24]
  BY Insertions
<1> DEFINE S == {n \in Nat : n <= 24 => after[n] = d}
<1>2. 0 \in S
  BY <1>1
<1>3. ASSUME NEW n \in S PROVE n + 1 \in S
  <2> SUFFICES ASSUME n + 1 <= 24 PROVE after[n + 1] = d
    OBVIOUS
  <2>1. after[n] = d
    OBVIOUS
  <2>2. n + 1 \in 1..24 /\ n + 1 - 1 = n
    OBVIOUS
  <2>3. after[n + 1] = InsertField(d, F[n + 1])
    BY <1>1, <2>1, <2>2
  <2>4. CASE F[n + 1][2] = {}
    BY <2>3, <2>4 DEF InsertField
  <2>5. CASE F[n + 1][2] # {}
    <3>1. PICK v : after[n + 1] = InsertNested(d, F[n + 1][1], v)
      BY <2>3, <2>5 DEF InsertField
    <3> DEFINE e == InsertNested(d, F[n + 1][1], v)
    <3>2. IsInserted(e, d, F[n + 1][1], v)
      BY Inserted
    <3>3. e = [p \in DOMAIN e |-> e[p]]
      BY DEF InsertNested, OrElse
    <3> HIDE DEF e
    <3>4. /\ F[n + 1][1] \in DOMAIN d
          /\ \A p \in Above(F[n + 1][1]) : p \in DOMAIN d /\ IsObject(d[p])
      BY <2>2, <2>5
    <3>5. DOMAIN e = DOMAIN d /\ \A p \in DOMAIN d : e[p] = d[p]
      BY <3>2, <3>4 DEF IsInserted
    <3>6. e = d
      BY ONLY <3>3, <3>5, IsFunction(d) DEF IsFunction
    <3> QED BY <3>1, <3>6 DEF e
  <2> QED BY <2>4, <2>5
<1>4. S = Nat
  <2> HIDE DEF S
  <2>1. S \in SUBSET Nat
    BY DEF S
  <2> QED BY <1>2, <1>3, <2>1, SetInduction
<1>5. after[24] = d
  BY <1>4
<1> QED BY <1>1, <1>5

\* The first keys of the paths, and the fields that enrichment reads.
Roots == {"@timestamp", "ecs", "log", "event", "http", "url", "client", "user_agent",
          "labels", "user"}
Sources == {"requestTimestamp", "responseTimestamp", "requestId", "requestMethod",
            "requestContentType", "requestBodyString", "requestHeader", "requestProtocol",
            "requestUrl", "requestHostName", "requestIp", "requestAgent", "responseStatus",
            "responseBodyString", "responseHeader", "responseUser"}

LEMMA EcsRoots ==
    ASSUME NEW d, NEW now, NEW n \in 1..24 PROVE EcsFields(d, now)[n][1][1] \in Roots
<1>1. PICK F : F = EcsFields(d, now) /\ HasPaths(F)
  BY EcsPaths
<1>2. /\ F[1][1][1] \in Roots /\ F[2][1][1] \in Roots /\ F[3][1][1] \in Roots
      /\ F[4][1][1] \in Roots /\ F[5][1][1] \in Roots /\ F[6][1][1] \in Roots
      /\ F[7][1][1] \in Roots /\ F[8][1][1] \in Roots /\ F[9][1][1] \in Roots
      /\ F[10][1][1] \in Roots /\ F[11][1][1] \in Roots /\ F[12][1][1] \in Roots
  BY <1>1 DEF HasPaths, Roots
<1>3. /\ F[13][1][1] \in Roots /\ F[14][1][1] \in Roots /\ F[15][1][1] \in Roots
      /\ F[16][1][1] \in Roots /\ F[17][1][1] \in Roots /\ F[18][1][1] \in Roots
      /\ F[19][1][1] \in Roots /\ F[20][1][1] \in Roots /\ F[21][1][1] \in Roots
      /\ F[22][1][1] \in Roots /\ F[23][1][1] \in Roots /\ F[24][1][1] \in Roots
  BY <1>1 DEF HasPaths, Roots
<1>4. n \in {1, 2, 3, 4, 5, 6, 7, 8, 9, 10, 11, 12, 13, 14, 15, 16, 17, 18, 19, 20, 21, 22, 23, 24}
  OBVIOUS
<1>5. F[n][1][1] \in Roots
  BY ONLY <1>2, <1>3, <1>4
<1> QED BY <1>1, <1>5

\* A field of another name is as it was.
LEMMA OthersKept ==
    ASSUME NEW d, NEW now, NEW f, f \notin Roots
    PROVE  SameAt(<<f>>, EnrichWithEcs(d, now), d)
<1>1. PICK F : F = EcsFields(d, now)
  OBVIOUS
<1>2. ASSUME NEW n \in 1..24 PROVE <<f>> \notin Above(F[n][1]) /\ <<f>> # F[n][1]
  <2>1. WellFormed(F[n][1]) /\ F[n][1][1] \in Roots
    BY <1>1, EcsWellFormed, EcsRoots
  <2>2. <<f>>[1] = f
    OBVIOUS
  <2> QED BY <2>1, <2>2 DEF WellFormed
<1> QED BY <1>1, <1>2, Untouched

LEMMA SourcesKept ==
    ASSUME NEW d, NEW now, NEW f \in Sources, NEW kinds
    PROVE  Field(EnrichWithEcs(d, now), f, kinds) = Field(d, f, kinds)
<1>1. f \notin Roots
  BY DEF Sources, Roots
<1> QED BY <1>1, OthersKept DEF SameAt, Field

\* Every document gets a time.
LEMMA StampThere ==
    ASSUME NEW d, NEW now
    PROVE  /\ EcsFields(d, now)[1][2] # {} /\ EcsFields(d, now)[6][2] = EcsFields(d, now)[1][2]
           /\ EcsFields(d, now)[1][2] =
                 {Time(n) : n \in IF Instant(d, "requestTimestamp") = {} THEN {now}
                                  ELSE Instant(d, "requestTimestamp")}
<1> DEFINE start == Instant(d, "requestTimestamp")
           stamp == {Time(n) : n \in IF start = {} THEN {now} ELSE start}
<1>1. EcsFields(d, now)[1][2] = stamp /\ EcsFields(d, now)[6][2] = stamp
  BY DEF EcsFields
<1> HIDE DEF start
<1>2. CASE start = {}
  BY <1>1, <1>2 DEF start
<1>3. CASE start # {}
  BY <1>1, <1>3 DEF start
<1> QED BY <1>2, <1>3

LEMMA SamePaths ==
    ASSUME NEW d, NEW now, NEW e, NEW later, NEW n \in 1..24
    PROVE  EcsFields(d, now)[n][1] = EcsFields(e, later)[n][1]
<1>1. PICK D, E : /\ D = EcsFields(d, now) /\ HasPaths(D)
                  /\ E = EcsFields(e, later) /\ HasPaths(E)
  BY EcsPaths
<1>2. /\ D[1][1] = E[1][1] /\ D[2][1] = E[2][1] /\ D[3][1] = E[3][1] /\ D[4][1] = E[4][1]
      /\ D[5][1] = E[5][1] /\ D[6][1] = E[6][1] /\ D[7][1] = E[7][1] /\ D[8][1] = E[8][1]
      /\ D[9][1] = E[9][1] /\ D[10][1] = E[10][1] /\ D[11][1] = E[11][1]
      /\ D[12][1] = E[12][1] /\ D[13][1] = E[13][1] /\ D[14][1] = E[14][1]
      /\ D[15][1] = E[15][1] /\ D[16][1] = E[16][1] /\ D[17][1] = E[17][1]
      /\ D[18][1] = E[18][1] /\ D[19][1] = E[19][1] /\ D[20][1] = E[20][1]
      /\ D[21][1] = E[21][1] /\ D[22][1] = E[22][1] /\ D[23][1] = E[23][1]
      /\ D[24][1] = E[24][1]
  BY <1>1 DEF HasPaths
<1>3. n \in {1, 2, 3, 4, 5, 6, 7, 8, 9, 10, 11, 12, 13, 14, 15, 16, 17, 18, 19, 20, 21, 22, 23, 24}
  OBVIOUS
<1>4. D[n][1] = E[n][1]
  BY ONLY <1>2, <1>3
<1> QED BY <1>1, <1>4

\* The values that fields get from other fields.
HasValues(F, d) ==
    /\ F[7][2] = {Time(n) : n \in Instant(d, "responseTimestamp")}
    /\ F[8][2] = {Num(n) : n \in Duration(Instant(d, "requestTimestamp"),
                                          Instant(d, "responseTimestamp"))}
    /\ F[9][2] = Strings(d, "requestMethod")
    /\ F[10][2] = Strings(d, "requestContentType")
    /\ F[11][2] = Strings(d, "requestBodyString")
    /\ F[12][2] = Objects(d, "requestHeader")
    /\ F[13][2] = Strings(d, "requestProtocol")
    /\ F[14][2] = Strings(d, "requestUrl")
    /\ F[15][2] = {v \in Strings(d, "requestHostName") : v # Str("")}
    /\ F[16][2] = {v \in Strings(d, "requestIp") : v # Str("")}
    /\ F[17][2] = Strings(d, "requestAgent")
    /\ F[18][2] = Strings(d, "requestId")
    /\ F[19][2] = {Object : v \in Strings(d, "requestId")}
    /\ F[20][2] = IF <<"labels">> \in DOMAIN d /\ ~IsObject(d[<<"labels">>]) THEN {}
                  ELSE Strings(d, "requestId")
    /\ F[21][2] = Field(d, "responseStatus", {"number"})
    /\ F[22][2] = Strings(d, "responseBodyString")
    /\ F[23][2] = Objects(d, "responseHeader")
    /\ F[24][2] = Strings(d, "responseUser")

LEMMA EcsValues == ASSUME NEW d, NEW now PROVE HasValues(EcsFields(d, now), d)
<1> PICK F : F = EcsFields(d, now)
  OBVIOUS
<1>1. /\ F[7][2] = {Time(n) : n \in Instant(d, "responseTimestamp")}
      /\ F[8][2] = {Num(n) : n \in Duration(Instant(d, "requestTimestamp"),
                                            Instant(d, "responseTimestamp"))}
  BY DEF EcsFields
<1>2. /\ F[9][2] = Strings(d, "requestMethod") /\ F[10][2] = Strings(d, "requestContentType")
      /\ F[11][2] = Strings(d, "requestBodyString") /\ F[12][2] = Objects(d, "requestHeader")
      /\ F[13][2] = Strings(d, "requestProtocol") /\ F[14][2] = Strings(d, "requestUrl")
  BY DEF EcsFields
<1>3. /\ F[15][2] = {v \in Strings(d, "requestHostName") : v # Str("")}
      /\ F[16][2] = {v \in Strings(d, "requestIp") : v # Str("")}
  BY DEF EcsFields
<1>4. /\ F[17][2] = Strings(d, "requestAgent") /\ F[18][2] = Strings(d, "requestId")
      /\ F[19][2] = {Object : v \in Strings(d, "requestId")}
      /\ F[20][2] = IF <<"labels">> \in DOMAIN d /\ ~IsObject(d[<<"labels">>]) THEN {}
                    ELSE Strings(d, "requestId")
  BY DEF EcsFields
<1>5. /\ F[21][2] = Field(d, "responseStatus", {"number"})
      /\ F[22][2] = Strings(d, "responseBodyString") /\ F[23][2] = Objects(d, "responseHeader")
      /\ F[24][2] = Strings(d, "responseUser")
  BY DEF EcsFields
<1> QED BY <1>1, <1>2, <1>3, <1>4, <1>5 DEF HasValues

\* Two documents with the same source fields get the same fields, at any time, but
\* for the label, which depends on what the labels are.
LEMMA SameSources ==
    ASSUME NEW d, NEW now, NEW e, NEW later, NEW n \in 1..24, n # 20,
           \A f \in Sources : \A kinds : Field(e, f, kinds) = Field(d, f, kinds),
           EcsFields(e, later)[n][2] # {}
    PROVE  EcsFields(d, now)[n][2] # {}
<1>1. PICK D, E : /\ D = EcsFields(d, now) /\ HasValues(D, d)
                  /\ E = EcsFields(e, later) /\ HasValues(E, e)
  BY EcsValues
<1>2. \A f \in Sources : /\ Strings(e, f) = Strings(d, f) /\ Objects(e, f) = Objects(d, f)
                         /\ Instant(e, f) = Instant(d, f)
  BY DEF Strings, Objects, Instant
<1>3. n \in 1..6 => D[n][2] # {}
  <2>1. D[1][2] # {} /\ D[6][2] # {}
    BY <1>1, StampThere
  <2>2. D[2][2] # {} /\ D[3][2] # {} /\ D[4][2] # {} /\ D[5][2] # {}
    BY <1>1 DEF EcsFields
  <2>3. n \in 1..6 => n \in {1, 2, 3, 4, 5, 6}
    OBVIOUS
  <2> QED BY ONLY <2>1, <2>2, <2>3
<1>4. E[7][2] = D[7][2] /\ E[8][2] = D[8][2]
  <2>1. /\ Instant(e, "requestTimestamp") = Instant(d, "requestTimestamp")
        /\ Instant(e, "responseTimestamp") = Instant(d, "responseTimestamp")
    BY <1>2 DEF Sources
  <2> QED BY <1>1, <2>1 DEF HasValues
<1>5. /\ E[9][2] = D[9][2] /\ E[10][2] = D[10][2] /\ E[11][2] = D[11][2]
      /\ E[13][2] = D[13][2] /\ E[14][2] = D[14][2]
  <2>1. /\ Strings(e, "requestMethod") = Strings(d, "requestMethod")
        /\ Strings(e, "requestContentType") = Strings(d, "requestContentType")
        /\ Strings(e, "requestBodyString") = Strings(d, "requestBodyString")
        /\ Strings(e, "requestProtocol") = Strings(d, "requestProtocol")
        /\ Strings(e, "requestUrl") = Strings(d, "requestUrl")
    BY <1>2 DEF Sources
  <2>2. /\ D[9][2] = Strings(d, "requestMethod")
        /\ D[10][2] = Strings(d, "requestContentType")
        /\ D[11][2] = Strings(d, "requestBodyString")
        /\ D[13][2] = Strings(d, "requestProtocol")
        /\ D[14][2] = Strings(d, "requestUrl")
        /\ E[9][2] = Strings(e, "requestMethod")
        /\ E[10][2] = Strings(e, "requestContentType")
        /\ E[11][2] = Strings(e, "requestBodyString")
        /\ E[13][2] = Strings(e, "requestProtocol")
        /\ E[14][2] = Strings(e, "requestUrl")
    BY <1>1 DEF HasValues
  <2> QED BY ONLY <2>1, <2>2
<1>6. /\ E[15][2] = D[15][2] /\ E[16][2] = D[16][2]
  <2>1. /\ Strings(e, "requestHostName") = Strings(d, "requestHostName")
        /\ Strings(e, "requestIp") = Strings(d, "requestIp")
    BY <1>2 DEF Sources
  <2> QED BY <1>1, <2>1 DEF HasValues
<1>7. /\ E[17][2] = D[17][2] /\ E[18][2] = D[18][2] /\ E[22][2] = D[22][2]
      /\ E[24][2] = D[24][2]
  <2>1. /\ Strings(e, "requestAgent") = Strings(d, "requestAgent")
        /\ Strings(e, "requestId") = Strings(d, "requestId")
        /\ Strings(e, "responseBodyString") = Strings(d, "responseBodyString")
        /\ Strings(e, "responseUser") = Strings(d, "responseUser")
    BY <1>2 DEF Sources
  <2>2. /\ D[17][2] = Strings(d, "requestAgent")
        /\ D[18][2] = Strings(d, "requestId")
        /\ D[22][2] = Strings(d, "responseBodyString")
        /\ D[24][2] = Strings(d, "responseUser")
        /\ E[17][2] = Strings(e, "requestAgent")
        /\ E[18][2] = Strings(e, "requestId")
        /\ E[22][2] = Strings(e, "responseBodyString")
        /\ E[24][2] = Strings(e, "responseUser")
    BY <1>1 DEF HasValues
  <2> QED BY ONLY <2>1, <2>2
<1>8. E[19][2] = D[19][2]
  <2>1. Strings(e, "requestId") = Strings(d, "requestId")
    BY <1>2 DEF Sources
  <2> QED BY <1>1, <2>1 DEF HasValues
<1>9. E[12][2] = D[12][2] /\ E[21][2] = D[21][2] /\ E[23][2] = D[23][2]
  <2>1. /\ Objects(e, "requestHeader") = Objects(d, "requestHeader")
        /\ Objects(e, "responseHeader") = Objects(d, "responseHeader")
    BY <1>2 DEF Sources
  <2>2. "responseStatus" \in Sources
    BY DEF Sources
  <2>3. Field(e, "responseStatus", {"number"}) = Field(d, "responseStatus", {"number"})
    BY <2>2
  <2>4. /\ D[12][2] = Objects(d, "requestHeader")
        /\ D[21][2] = Field(d, "responseStatus", {"number"})
        /\ D[23][2] = Objects(d, "responseHeader")
        /\ E[12][2] = Objects(e, "requestHeader")
        /\ E[21][2] = Field(e, "responseStatus", {"number"})
        /\ E[23][2] = Objects(e, "responseHeader")
    BY <1>1 DEF HasValues
  <2> QED BY ONLY <2>1, <2>3, <2>4
<1>10. n \in {7, 8, 9, 10, 11, 12, 13, 14, 15, 16, 17, 18, 19, 21, 22, 23, 24} => E[n][2] = D[n][2]
  BY ONLY <1>4, <1>5, <1>6, <1>7, <1>8, <1>9
<1>11. \/ n \in 1..6
       \/ n \in {7, 8, 9, 10, 11, 12, 13, 14, 15, 16, 17, 18, 19, 21, 22, 23, 24}
  OBVIOUS
<1> QED BY <1>1, <1>3, <1>10, <1>11

\* Only two fields are labels or below.
LEMMA LabelPaths ==
    ASSUME NEW d, NEW now, NEW n \in 1..24
    PROVE  /\ <<"labels">> \in Above(EcsFields(d, now)[n][1]) => n = 20
           /\ <<"labels">> = EcsFields(d, now)[n][1] => n = 19
<1>1. PICK F : F = EcsFields(d, now) /\ HasPaths(F)
  BY EcsPaths
<1>2. F[20][1] = <<"labels", "request_id">> /\ F[19][1] = <<"labels">>
  BY <1>1 DEF HasPaths
<1>3. /\ F[1][1][1] # "labels" /\ F[2][1][1] # "labels" /\ F[3][1][1] # "labels"
      /\ F[4][1][1] # "labels" /\ F[5][1][1] # "labels" /\ F[6][1][1] # "labels"
      /\ F[7][1][1] # "labels" /\ F[8][1][1] # "labels" /\ F[9][1][1] # "labels"
      /\ F[10][1][1] # "labels" /\ F[11][1][1] # "labels" /\ F[12][1][1] # "labels"
  BY <1>1 DEF HasPaths
<1>4. /\ F[13][1][1] # "labels" /\ F[14][1][1] # "labels" /\ F[15][1][1] # "labels"
      /\ F[16][1][1] # "labels" /\ F[17][1][1] # "labels" /\ F[18][1][1] # "labels"
      /\ F[21][1][1] # "labels" /\ F[22][1][1] # "labels" /\ F[23][1][1] # "labels"
      /\ F[24][1][1] # "labels"
  BY <1>1 DEF HasPaths
<1>5. n \in {1, 2, 3, 4, 5, 6, 7, 8, 9, 10, 11, 12, 13, 14, 15, 16, 17, 18, 19, 20, 21, 22, 23, 24}
  OBVIOUS
<1>6. n \in {19, 20} \/ F[n][1][1] # "labels"
  BY ONLY <1>3, <1>4, <1>5
<1>7. WellFormed(F[n][1]) /\ <<"labels">>[1] = "labels"
  BY <1>1, EcsWellFormed
<1>8. n \notin {19, 20} => <<"labels">> \notin Above(F[n][1]) /\ <<"labels">> # F[n][1]
  BY <1>6, <1>7 DEF WellFormed
<1>9. <<"labels">> \notin Above(F[19][1]) /\ <<"labels">> # F[20][1]
  BY <1>2, AboveShort
<1> QED BY <1>1, <1>8, <1>9

\* If the label has no value the labels are as they were.
LEMMA LabelsKept ==
    ASSUME NEW d, NEW now, EcsFields(d, now)[20][2] = {}, <<"labels">> \in DOMAIN d
    PROVE  SameAt(<<"labels">>, EnrichWithEcs(d, now), d)
<1>1. PICK F : F = EcsFields(d, now)
  OBVIOUS
<1>2. ASSUME NEW n \in 1..24, F[n][2] # {}
      PROVE  <<"labels">> \notin Above(F[n][1])
  BY <1>1, <1>2, LabelPaths
<1> QED BY <1>1, <1>2, Untouched

\* What enrichment returns, and what build_fallback_bytes makes of it, is complete.
LEMMA EnrichedComplete ==
    ASSUME NEW d, NEW now, IsTree(d), NEW o, o = EnrichWithEcs(d, now), NEW later,
           NEW e, IsFunction(e),
           \A p : p # <<"hook_error">> => SameAt(p, e, o)
    PROVE  EnrichWithEcs(e, later) = e
<1>1. PICK D : D = EcsFields(d, now) /\ HasValues(D, d)
  BY EcsValues
<1>2. PICK E : E = EcsFields(e, later) /\ HasPaths(E) /\ HasValues(E, e)
  BY EcsPaths, EcsValues
<1>3. IsTree(o)
  BY Enriched
<1>4. \A f \in Sources : \A kinds : Field(e, f, kinds) = Field(d, f, kinds)
  <2> SUFFICES ASSUME NEW f \in Sources, NEW kinds PROVE Field(e, f, kinds) = Field(d, f, kinds)
    OBVIOUS
  <2>1. f # "hook_error"
    BY DEF Sources
  <2>2. SameAt(<<f>>, e, o)
    BY <2>1
  <2>3. Field(e, f, kinds) = Field(o, f, kinds)
    BY <2>2 DEF SameAt, Field
  <2> QED BY <2>3, SourcesKept
<1>5. ASSUME NEW n \in 1..24, E[n][2] # {} PROVE D[n][2] # {}
  <2>1. CASE n # 20
    BY <1>1, <1>2, <1>4, <1>5, <2>1, SameSources
  <2>2. CASE n = 20
    <3> SUFFICES ASSUME D[20][2] = {} PROVE FALSE
      BY <2>2
    <3>1. E[20][2] = IF <<"labels">> \in DOMAIN e /\ ~IsObject(e[<<"labels">>]) THEN {}
                     ELSE Strings(e, "requestId")
      BY <1>2 DEF HasValues
    <3>2. D[20][2] = IF <<"labels">> \in DOMAIN d /\ ~IsObject(d[<<"labels">>]) THEN {}
                     ELSE Strings(d, "requestId")
      BY <1>1 DEF HasValues
    <3>3. Strings(e, "requestId") = Strings(d, "requestId")
      BY <1>4 DEF Strings, Sources
    <3>4. <<"labels">> \in DOMAIN d /\ ~IsObject(d[<<"labels">>])
      BY <1>5, <2>2, <3>1, <3>2, <3>3
    <3>5. SameAt(<<"labels">>, o, d)
      BY <1>1, <3>4, LabelsKept
    <3>6. SameAt(<<"labels">>, e, o)
      OBVIOUS
    <3> QED BY <1>5, <2>2, <3>1, <3>4, <3>5, <3>6 DEF SameAt
  <2> QED BY <2>1, <2>2
<1>6. ASSUME NEW n \in 1..24, E[n][2] # {}
      PROVE  /\ E[n][1] \in DOMAIN e
             /\ \A p \in Above(E[n][1]) : p \in DOMAIN e /\ IsObject(e[p])
  <2>1. D[n][1] = E[n][1]
    BY <1>1, <1>2, SamePaths
  <2>2. D[n][1] \in DOMAIN o
    BY <1>1, <1>5, <1>6, AllInserted
  <2>3. WellFormed(E[n][1]) /\ E[n][1][1] \in Roots
    BY <1>2, EcsWellFormed, EcsRoots
  <2>4. \A p \in Above(E[n][1]) \cup {E[n][1]} : p # <<"hook_error">>
    BY <2>3 DEF WellFormed, Roots
  <2>5. \A p \in Above(E[n][1]) : p \in DOMAIN o /\ IsObject(o[p])
    BY <1>3, <2>1, <2>2 DEF IsTree
  <2>6. \A p \in Above(E[n][1]) \cup {E[n][1]} : SameAt(p, e, o)
    BY <2>4
  <2> QED BY <2>1, <2>2, <2>5, <2>6 DEF SameAt
<1> QED BY <1>2, <1>6, Complete

\* Enrichment returns a function.
LEMMA EnrichedFunction ==
    ASSUME NEW d, NEW now, IsFunction(d) PROVE IsFunction(EnrichWithEcs(d, now))
<1>1. PICK F : F = EcsFields(d, now)
  OBVIOUS
<1>2. PICK after : /\ after[0] = d
                   /\ \A n \in 1..24 : after[n] = InsertField(after[n - 1], F[n])
                   /\ EnrichWithEcs(d, now) = after[24]
  BY <1>1, Insertions
<1> DEFINE S == {n \in Nat : n <= 24 => IsFunction(after[n])}
<1>3. 0 \in S
  BY <1>2
<1>4. ASSUME NEW n \in S PROVE n + 1 \in S
  <2> SUFFICES ASSUME n + 1 <= 24 PROVE IsFunction(after[n + 1])
    OBVIOUS
  <2>1. IsFunction(after[n])
    OBVIOUS
  <2>2. n + 1 \in 1..24 /\ n + 1 - 1 = n
    OBVIOUS
  <2>3. after[n + 1] = InsertField(after[n], F[n + 1])
    BY <1>2, <2>2
  <2>4. \A e, path, v : IsFunction(InsertNested(e, path, v))
    BY DEF IsFunction, InsertNested, OrElse
  <2> QED BY <2>1, <2>3, <2>4 DEF InsertField
<1>5. S = Nat
  <2> HIDE DEF S
  <2>1. S \in SUBSET Nat
    BY DEF S
  <2> QED BY <1>3, <1>4, <2>1, SetInduction
<1>6. IsFunction(after[24])
  BY <1>5
<1> QED BY <1>2, <1>6

\* What enrichment may need as an object.
Inner == {<<"ecs">>, <<"log">>, <<"event">>, <<"http">>, <<"url">>, <<"client">>,
          <<"user_agent">>, <<"labels">>, <<"user">>, <<"http", "request">>,
          <<"http", "response">>, <<"http", "request", "body">>,
          <<"http", "response", "body">>}

LEMMA EcsAbove ==
    ASSUME NEW d, NEW now, NEW n \in 1..24 PROVE Above(EcsFields(d, now)[n][1]) \subseteq Inner
<1>1. PICK F : F = EcsFields(d, now) /\ HasPaths(F)
  BY EcsPaths
<1> DEFINE Fits(k) == Above(F[k][1]) \subseteq Inner
<1>2. Fits(1) /\ Fits(2) /\ Fits(3) /\ Fits(4) /\ Fits(5) /\ Fits(6) /\ Fits(7) /\ Fits(8)
  BY <1>1, AboveShort DEF HasPaths, Inner
<1>3. Fits(9) /\ Fits(10) /\ Fits(11) /\ Fits(12) /\ Fits(13) /\ Fits(14) /\ Fits(15) /\ Fits(16)
  BY <1>1, AboveShort DEF HasPaths, Inner
<1>4. Fits(17) /\ Fits(18) /\ Fits(19) /\ Fits(20) /\ Fits(21) /\ Fits(22) /\ Fits(23) /\ Fits(24)
  BY <1>1, AboveShort DEF HasPaths, Inner
<1> HIDE DEF Fits
<1>5. n \in {1, 2, 3, 4, 5, 6, 7, 8, 9, 10, 11, 12, 13, 14, 15, 16, 17, 18, 19, 20, 21, 22, 23, 24}
  OBVIOUS
<1>6. Fits(n)
  BY ONLY <1>2, <1>3, <1>4, <1>5
<1> QED BY <1>1, <1>6 DEF Fits

\* The time stamp, the times and the duration of the event, the client's address, the
\* id and its label have paths of their own.
LEMMA Leaves ==
    ASSUME NEW d, NEW now, NEW F, F = EcsFields(d, now), NEW i \in {1, 6, 7, 8, 16, 18, 20}
    PROVE  IsLeaf(F, i)
<1>1. HasPaths(F)
  BY EcsPaths
<1>2. /\ F[1][1] = <<"@timestamp">> /\ F[6][1] = <<"event", "start">>
      /\ F[7][1] = <<"event", "end">> /\ F[8][1] = <<"event", "duration">>
      /\ F[16][1] = <<"client", "ip">>
      /\ F[18][1] = <<"http", "request", "id">> /\ F[20][1] = <<"labels", "request_id">>
  BY <1>1 DEF HasPaths
<1>3. F[i][1] \notin Inner
  BY <1>2 DEF Inner
<1> DEFINE Apart(k) == k # i => F[k][1] # F[i][1]
<1>4. /\ Apart(1) /\ Apart(2) /\ Apart(3) /\ Apart(4) /\ Apart(5) /\ Apart(6) /\ Apart(7)
      /\ Apart(8)
  BY <1>1, <1>2 DEF HasPaths
<1>5. /\ Apart(9) /\ Apart(10) /\ Apart(11) /\ Apart(12) /\ Apart(13) /\ Apart(14)
      /\ Apart(15) /\ Apart(16)
  BY <1>1, <1>2 DEF HasPaths
<1>6. /\ Apart(17) /\ Apart(18) /\ Apart(19) /\ Apart(20) /\ Apart(21) /\ Apart(22)
      /\ Apart(23) /\ Apart(24)
  BY <1>1, <1>2 DEF HasPaths
<1> HIDE DEF Apart
<1>7. ASSUME NEW n \in 1..24 PROVE Apart(n) /\ F[i][1] \notin Above(F[n][1])
  <2>1. n \in {1, 2, 3, 4, 5, 6, 7, 8, 9, 10, 11, 12, 13, 14, 15, 16, 17, 18, 19, 20, 21, 22, 23, 24}
    OBVIOUS
  <2>2. Apart(n)
    BY ONLY <1>4, <1>5, <1>6, <2>1
  <2> QED BY <1>3, <2>2, EcsAbove
<1> QED BY <1>7 DEF IsLeaf, Apart

\* What becomes of a field with a path of its own.
LEMMA LeafResult ==
    ASSUME NEW d, NEW now, NEW F, F = EcsFields(d, now), NEW i \in {1, 6, 7, 8, 16, 18, 20},
           NEW o, o = EnrichWithEcs(d, now), F[i][1] \notin DOMAIN d
    PROVE  /\ F[i][1] \in DOMAIN o <=> F[i][2] # {}
           /\ F[i][2] # {} => o[F[i][1]] \in F[i][2]
<1>1. IsLeaf(F, i) /\ i \in 1..24
  BY Leaves
<1>2. CASE F[i][2] # {}
  BY <1>1, <1>2, AllInserted, LeafInserted
<1>3. CASE F[i][2] = {}
  <2>1. ASSUME NEW n \in 1..24, F[n][2] # {}
        PROVE  F[i][1] \notin Above(F[n][1]) /\ F[i][1] # F[n][1]
    BY <1>1, <1>3, <2>1 DEF IsLeaf
  <2>2. SameAt(F[i][1], o, d)
    BY <2>1, Untouched
  <2> QED BY <1>3, <2>2 DEF SameAt
<1> QED BY <1>2, <1>3

-----------------------------------------------------------------------------
(* Every entry *)

\* The document logged is the enrichment of the one given, which is a JSON document.
DocInv == IsTree(doc) /\ IsFunction(doc) /\ out \in {{}, {EnrichWithEcs(doc, Now)}}

LEMMA DocInvHolds == Spec => []DocInv
<1>1. Init => DocInv
  <2>1. IsFunction(<<>>) /\ IsTree(<<>>)
    BY DEF IsFunction, IsTree
  <2> QED BY <2>1 DEF Init, DocInv
<1>2. DocInv /\ [Next]_vars => DocInv'
  <2> SUFFICES ASSUME DocInv, [Next]_vars PROVE DocInv'
    OBVIOUS
  <2>1. ASSUME NEW f \in UserFields, AddField(f[1], f[2]) PROVE DocInv'
    <3> DEFINE e == OrElse(doc, At(f[1], f[2]))
    <3>1. /\ doc' = e /\ out' = {}
          /\ \A p \in Above(f[1]) : p \in DOMAIN doc /\ IsObject(doc[p])
      BY <2>1 DEF AddField
    <3>2. DOMAIN e = DOMAIN doc \cup {f[1]} /\ \A p \in DOMAIN doc : e[p] = doc[p]
      BY DEF OrElse, At
    <3>3. IsFunction(e)
      BY DEF IsFunction, OrElse
    <3> HIDE DEF e
    <3>4. IsTree(e)
      BY <3>1, <3>2 DEF DocInv, IsTree
    <3> QED BY <3>1, <3>3, <3>4 DEF DocInv
  <2>2. ASSUME NEW q \in Calls, BuildEntry(q) PROVE DocInv'
    <3>1. PICK r : EntryOf(q) = Fields(r)
      BY DEF EntryOf
    <3>2. \A p \in DOMAIN Fields(r) : Above(p) = {}
      BY AboveShort DEF Fields
    <3>3. IsTree(EntryOf(q)) /\ IsFunction(EntryOf(q))
      BY <3>1, <3>2 DEF IsTree, IsFunction, Fields
    <3> QED BY <2>2, <3>3 DEF BuildEntry, DocInv
  <2>3. ASSUME NEW t \in TargetCalls, RecordTarget(t) PROVE DocInv'
    BY <2>3 DEF RecordTarget, DocInv, IsTree
  <2>4. CASE Log
    BY <2>4 DEF Log, DocInv, IsTree
  <2>5. CASE UNCHANGED vars
    BY <2>5 DEF vars, DocInv, IsTree
  <2> QED BY <2>1, <2>2, <2>3, <2>4, <2>5 DEF Next
<1> QED BY <1>1, <1>2, PTL DEF Spec

\* What an application gives and what is logged are JSON documents: whatever has
\* members is an object, also where enrichment met something else.
THEOREM DocumentTypeCorrect == Spec => []TypeOK
<1>1. DocInv => TypeOK
  BY Enriched DEF DocInv, TypeOK
<1> QED BY <1>1, DocInvHolds, PTL

\* enrich_with_ecs loses no field of an entry, whatever its name, type and depth,
\* except what is not an object where a field of the schema needs one.
THEOREM FieldsNeverLost == Spec => []FieldsKept
<1>1. DocInv => FieldsKept
  <2> SUFFICES ASSUME DocInv, NEW o \in out, NEW p \in DOMAIN doc
               PROVE  \/ p \in DOMAIN o /\ o[p] = doc[p]
                      \/ /\ ~IsObject(doc[p]) /\ o[p] = Object
                         /\ \E q \in DOMAIN o \ DOMAIN doc : p \in Above(q)
    BY DEF FieldsKept
  <2>1. Keeps(doc, o)
    BY Enriched DEF DocInv
  <2> QED BY <2>1 DEF Keeps
<1> QED BY <1>1, DocInvHolds, PTL

\* A document that Logger::log has enriched stays as it is when it is logged again
\* at another time, also in the form that build_fallback_bytes gives logs.txt.
THEOREM EnrichedOnce == Spec => []Idempotent
<1>1. DocInv => Idempotent
  <2> SUFFICES ASSUME DocInv, NEW o \in out, NEW d \in {o, BuildFallback(o)}
               PROVE  EnrichWithEcs(d, Now + 1) = d
    BY DEF Idempotent
  <2>1. o = EnrichWithEcs(doc, Now) /\ IsTree(doc) /\ IsFunction(doc)
    BY DEF DocInv
  <2>2. IsFunction(o)
    BY <2>1, EnrichedFunction
  <2>3. IsFunction(BuildFallback(o))
    BY DEF IsFunction, BuildFallback, OrElse
  <2>4. \A p : p # <<"hook_error">> => SameAt(p, BuildFallback(o), o)
    BY DEF SameAt, BuildFallback, OrElse, At
  <2>5. \A p : SameAt(p, o, o)
    BY DEF SameAt
  <2>6. IsFunction(d) /\ \A p : p # <<"hook_error">> => SameAt(p, d, o)
    BY <2>2, <2>3, <2>4, <2>5
  <2> HIDE DEF Idempotent
  <2> QED BY <2>1, <2>6, EnrichedComplete
<1> QED BY <1>1, DocInvHolds, PTL

-----------------------------------------------------------------------------
(* Target calls *)

\* Each call is logged from what was measured, but for those that found the list full
\* and for one that panics.
TargetInv ==
    /\ calls \in Seq(TargetCalls)
    /\ targets \in Seq({BuildTargetLogFields(t) : t \in TargetCalls})
    /\ \A i \in 1..Len(targets) : targets[i] = BuildTargetLogFields(calls[i])
    /\ Len(targets) <= Len(calls) /\ (~panicked => Len(targets) = Logged)
    /\ panicked => Len(calls) >= 1 /\ ResponseTime(calls[Len(calls)]) > MaxTime

LEMMA TargetInvHolds == Spec => []TargetInv
<1>1. Init => TargetInv
  BY DocumentAssumption DEF Init, TargetInv, Logged
<1>2. TargetInv /\ [Next]_vars => TargetInv'
  <2> SUFFICES ASSUME TargetInv, [Next]_vars PROVE TargetInv'
    OBVIOUS
  <2>1. ASSUME UNCHANGED <<calls, targets, panicked>> PROVE TargetInv'
    BY <2>1 DEF TargetInv, ResponseTime, Logged
  <2>2. ASSUME NEW t \in TargetCalls, RecordTarget(t) PROVE TargetInv'
    <3>1. /\ calls' \in Seq(TargetCalls) /\ Len(calls') = Len(calls) + 1
          /\ \A i \in 1..Len(calls) : calls'[i] = calls[i]
          /\ calls'[Len(calls) + 1] = t
      BY <2>2 DEF RecordTarget, TargetInv
    <3>2. /\ ~panicked /\ Len(targets) = Logged /\ Len(targets) <= Len(calls)
          /\ Len(targets) \in Nat /\ Len(calls) \in Nat
      BY <2>2 DEF RecordTarget, TargetInv
    <3>3. CASE ResponseTime(t) <= MaxTime /\ panicked' = panicked /\ Len(targets) < MaxTargets
               /\ targets' = Append(targets, BuildTargetLogFields(t))
      <4> DEFINE log == BuildTargetLogFields(t)
      <4>1. targets' = Append(targets, log) /\ panicked' = panicked
        BY <3>3
      <4>2. log \in {BuildTargetLogFields(u) : u \in TargetCalls}
        OBVIOUS
      <4> HIDE DEF log
      <4>3. /\ targets' \in Seq({BuildTargetLogFields(u) : u \in TargetCalls})
            /\ Len(targets') = Len(targets) + 1
            /\ \A i \in 1..Len(targets) : targets'[i] = targets[i]
            /\ targets'[Len(targets) + 1] = log
        BY <4>1, <4>2 DEF TargetInv
      <4>4. Len(calls) = Len(targets) /\ Logged' = Len(calls')
        BY <3>1, <3>2, <3>3, DocumentAssumption DEF Logged
      <4>5. \A i \in 1..Len(targets') : targets'[i] = BuildTargetLogFields(calls'[i])
        BY <3>1, <3>2, <4>3, <4>4 DEF TargetInv, log
      <4> QED BY <3>1, <3>2, <4>1, <4>3, <4>4, <4>5 DEF TargetInv
    <3>4. CASE ResponseTime(t) <= MaxTime /\ panicked' = panicked /\ ~(Len(targets) < MaxTargets)
               /\ targets' = targets
      <4>1. Len(targets) = MaxTargets /\ Logged' = MaxTargets
        BY <3>1, <3>2, <3>4, DocumentAssumption DEF Logged
      <4>2. \A i \in 1..Len(targets') : targets'[i] = BuildTargetLogFields(calls'[i])
        BY <3>1, <3>2, <3>4 DEF TargetInv
      <4> QED BY <3>1, <3>2, <3>4, <4>1, <4>2 DEF TargetInv
    <3>5. CASE ResponseTime(t) > MaxTime /\ panicked' = TRUE /\ targets' = targets
      <4>1. \A i \in 1..Len(targets') : targets'[i] = BuildTargetLogFields(calls'[i])
        BY <3>1, <3>2, <3>5 DEF TargetInv
      <4>2. calls'[Len(calls')] = t
        BY <3>1
      <4>3. ResponseTime(calls'[Len(calls')]) > MaxTime
        BY <3>5, <4>2
      <4> QED BY <3>1, <3>2, <3>5, <4>1, <4>3 DEF TargetInv, ResponseTime
    <3>6. \/ ResponseTime(t) > MaxTime /\ panicked' = TRUE /\ targets' = targets
          \/ /\ ResponseTime(t) <= MaxTime /\ panicked' = panicked
             /\ targets' = IF Len(targets) < MaxTargets
                           THEN Append(targets, BuildTargetLogFields(t)) ELSE targets
      BY <2>2, ZenonT(60) DEF RecordTarget
    <3> QED BY <3>3, <3>4, <3>5, <3>6
  <2> QED BY <2>1, <2>2 DEF Next, AddField, BuildEntry, Log, vars
<1> QED BY <1>1, <1>2, PTL DEF Spec

\* Whatever a target call measured, the response time that log_axum_client and
\* log_grpc_client give is its latency after its request, or no later if a
\* TimeDelta cannot hold the latency; the first calls are logged, up to the limit, and
\* only a response time that is no DateTime, of a latency that a TimeDelta can hold,
\* panics.
THEOREM TargetsToldTruly == Spec => []TargetsTold
<1>1. TargetInv => TargetsTold
  <2> SUFFICES ASSUME TargetInv PROVE TargetsTold
    OBVIOUS
  <2>1. ASSUME NEW i \in DOMAIN targets
        PROVE  /\ targets[i].targetResponseLatency[2] = calls[i].latency
               /\ targets[i].targetResponseTimestamp[2] - targets[i].targetRequestTimestamp[2] =
                     IF calls[i].latency <= MaxDelta THEN calls[i].latency ELSE 0
    <3>1. i \in 1..Len(targets) /\ calls[i] \in TargetCalls
      BY DEF TargetInv
    <3>2. PICK t \in TargetCalls : t = calls[i]
      BY <3>1
    <3>3. targets[i] = BuildTargetLogFields(t)
      BY <3>1, <3>2 DEF TargetInv
    <3>4. /\ targets[i].targetResponseLatency[2] = t.latency
          /\ targets[i].targetResponseTimestamp[2] = t.timestamp + FromStd(t.latency)
          /\ targets[i].targetRequestTimestamp[2] = t.timestamp
      BY <3>3 DEF BuildTargetLogFields, Time, ResponseTime
    <3>5. t.timestamp \in Int /\ FromStd(t.latency) \in Nat
      BY DocumentAssumption DEF FromStd
    <3>6. (t.timestamp + FromStd(t.latency)) - t.timestamp = FromStd(t.latency)
      BY <3>5
    <3> QED BY <3>2, <3>4, <3>6 DEF FromStd
  <2>2. ASSUME panicked
        PROVE  LET t == Last(calls) IN t.latency <= MaxDelta /\ t.timestamp + t.latency > MaxTime
    <3>1. PICK t \in TargetCalls : t = calls[Len(calls)] /\ t = Last(calls)
      BY <2>2 DEF TargetInv, Last
    <3>2. t.timestamp + FromStd(t.latency) > MaxTime
      BY <2>2, <3>1 DEF TargetInv, ResponseTime
    <3>3. t.latency \in Nat /\ t.timestamp \in Int /\ t.timestamp <= MaxTime /\ MaxTime \in Nat
      BY DocumentAssumption
    <3>4. t.latency <= MaxDelta /\ t.timestamp + t.latency > MaxTime
      BY <3>2, <3>3 DEF FromStd
    <3> QED BY <3>1, <3>4
  <2>3. ~panicked => Len(targets) = Logged
    BY DEF TargetInv
  <2> QED BY <2>1, <2>2, <2>3 DEF TargetsTold
<1> QED BY <1>1, TargetInvHolds, PTL

-----------------------------------------------------------------------------
(* The times of an event *)

\* A document has at most one instant in a field.
LEMMA OneInstant ==
    ASSUME NEW d, NEW f, NEW m \in Instant(d, f), NEW n \in Instant(d, f) PROVE m = n
BY DEF Instant, Field

\* What entries built from a request have in common.
IsEntry(r, q) ==
    /\ EntryOf(q) = Fields(r)
    /\ "labels" \notin DOMAIN r /\ "@timestamp" \notin DOMAIN r
    /\ {"requestId", "requestTimestamp", "responseTimestamp", "target"} \subseteq DOMAIN r
    /\ r["requestId"] = Str(q.id)
    /\ r["requestTimestamp"] = Time(q.time)
    /\ r["responseTimestamp"] = Time(q.time + q.latency)
    /\ r["target"] = Arr(targets)

LEMMA EntryForm == ASSUME NEW q \in Calls PROVE \E r : IsEntry(r, q)
<1>1. q.kind \in {"axum", "unary", "stream"} /\ FromStd(q.latency) = q.latency
  BY DocumentAssumption DEF FromStd
<1>2. CASE q.kind = "axum"
  <2>1. EntryOf(q) = Fields(AxumEntry(q))
    BY <1>2 DEF EntryOf
  <2>2. /\ "labels" \notin DOMAIN AxumEntry(q) /\ "@timestamp" \notin DOMAIN AxumEntry(q)
        /\ {"requestId", "requestTimestamp", "responseTimestamp", "target"}
              \subseteq DOMAIN AxumEntry(q)
    BY DEF AxumEntry
  <2>3. /\ AxumEntry(q)["requestId"] = Str(q.id)
        /\ AxumEntry(q)["requestTimestamp"] = Time(q.time)
        /\ AxumEntry(q)["responseTimestamp"] = Time(q.time + q.latency)
        /\ AxumEntry(q)["target"] = Arr(targets)
    BY <1>1 DEF AxumEntry
  <2> QED BY <2>1, <2>2, <2>3 DEF IsEntry
<1>3. CASE q.kind \in {"unary", "stream"}
  <2>1. PICK s : /\ EntryOf(q) = Fields(OrElse(GrpcCommon(q), s))
                 /\ "labels" \notin DOMAIN s /\ "@timestamp" \notin DOMAIN s
    <3>1. CASE q.kind = "unary"
      <4> DEFINE s == [grpcResponse |-> IF q.error = "" THEN BodyFields(q.reply) ELSE Object,
                       grpcResponseString |->
                           IF q.error = "" THEN BodyString(q.reply) ELSE Str("")]
      <4>1. EntryOf(q) = Fields(OrElse(GrpcCommon(q), s))
        BY <3>1 DEF EntryOf, UnaryEntry
      <4>2. "labels" \notin DOMAIN s /\ "@timestamp" \notin DOMAIN s
        OBVIOUS
      <4> HIDE DEF s
      <4> QED BY <4>1, <4>2
    <3>2. CASE q.kind = "stream"
      <4> DEFINE s == [grpcIsClientStream |-> <<"bool", q.clientStream>>,
                       grpcIsServerStream |-> <<"bool", q.serverStream>>]
      <4>1. EntryOf(q) = Fields(OrElse(GrpcCommon(q), s))
        BY <3>2 DEF EntryOf, StreamEntry
      <4>2. "labels" \notin DOMAIN s /\ "@timestamp" \notin DOMAIN s
        OBVIOUS
      <4> HIDE DEF s
      <4> QED BY <4>1, <4>2
    <3> QED BY <1>3, <3>1, <3>2
  <2>2. /\ "labels" \notin DOMAIN GrpcCommon(q) /\ "@timestamp" \notin DOMAIN GrpcCommon(q)
        /\ {"requestId", "requestTimestamp", "responseTimestamp", "target"}
              \subseteq DOMAIN GrpcCommon(q)
    BY DEF GrpcCommon
  <2>3. /\ GrpcCommon(q)["requestId"] = Str(q.id)
        /\ GrpcCommon(q)["requestTimestamp"] = Time(q.time)
        /\ GrpcCommon(q)["responseTimestamp"] = Time(q.time + q.latency)
        /\ GrpcCommon(q)["target"] = Arr(targets)
    BY <1>1 DEF GrpcCommon
  <2> DEFINE r == OrElse(GrpcCommon(q), s)
  <2>4. /\ DOMAIN r = DOMAIN GrpcCommon(q) \cup DOMAIN s
        /\ \A f \in DOMAIN GrpcCommon(q) : r[f] = GrpcCommon(q)[f]
    BY DEF OrElse
  <2> HIDE DEF r
  <2>5. IsEntry(r, q)
    BY <2>1, <2>2, <2>3, <2>4 DEF IsEntry, r
  <2> QED BY <2>5
<1> QED BY <1>1, <1>2, <1>3

\* The value of a field of an entry.
LEMMA EntryField ==
    ASSUME NEW r, NEW f \in DOMAIN r
    PROVE  /\ <<f>> \in DOMAIN Fields(r) /\ Fields(r)[<<f>>] = r[f]
           /\ \A kinds : r[f][1] \in kinds => Field(Fields(r), f, kinds) = {r[f]}
BY DEF Fields, Field

\* Its times.
LEMMA EntryTimes ==
    ASSUME NEW q \in Calls
    PROVE  /\ Instant(EntryOf(q), "requestTimestamp") = {q.time}
           /\ Instant(EntryOf(q), "responseTimestamp") = {q.time + q.latency}
<1>1. PICK r : IsEntry(r, q)
  BY EntryForm
<1>2. ASSUME NEW f \in DOMAIN r, NEW n, r[f] = Time(n) PROVE Instant(Fields(r), f) = {n}
  <2>1. Time(n)[1] \in {"time"} /\ Time(n)[2] = n
    BY DEF Time
  <2>2. Field(Fields(r), f, {"time"}) = {Time(n)}
    BY <1>2, <2>1, EntryField, ZenonT(60)
  <2>3. {v[2] : v \in {Time(n)}} = {n}
    BY <2>1
  <2> QED BY <2>2, <2>3 DEF Instant
<1> QED BY <1>1, <1>2 DEF IsEntry

\* Whatever fields an application sets, and whichever of these it sets itself: the time
\* stamp and the start it gets are the request's time, or now if there is none; the end
\* is the response's time, if there is one; and the duration, if there are both and it
\* can be told, is what is between them.
THEOREM TimesAlwaysAgree == Spec => []TimesAgree
<1>1. DocInv => TimesAgree
  <2> SUFFICES ASSUME DocInv, NEW o \in out
               PROVE  LET start  == Instant(doc, "requestTimestamp")
                          end    == Instant(doc, "responseTimestamp")
                          End    == <<"event", "end">>
                          Length == <<"event", "duration">>
                      IN  /\ \A p \in {<<"@timestamp">>, <<"event", "start">>} \ DOMAIN doc :
                                /\ p \in DOMAIN o /\ \A s \in start : o[p] = Time(s)
                                /\ start = {} => o[p] = Time(Now)
                          /\ End \notin DOMAIN doc =>
                                /\ End \in DOMAIN o <=> end # {}
                                /\ \A e \in end : o[End] = Time(e)
                          /\ Length \notin DOMAIN doc =>
                                /\ Length \in DOMAIN o <=>
                                      \E s \in start, e \in end : e - s \in 0..MaxNanos
                                /\ \A s \in start, e \in end :
                                      Length \in DOMAIN o => o[Length] = Num(e - s)
    BY DEF TimesAgree
  <2> DEFINE start == Instant(doc, "requestTimestamp")
             end == Instant(doc, "responseTimestamp")
             End == <<"event", "end">>
             Length == <<"event", "duration">>
  <2>1. PICK F : F = EcsFields(doc, Now) /\ HasPaths(F) /\ HasValues(F, doc)
    BY EcsPaths, EcsValues
  <2>2. o = EnrichWithEcs(doc, Now)
    BY DEF DocInv
  <2>3. /\ F[1][1] = <<"@timestamp">> /\ F[6][1] = <<"event", "start">>
        /\ F[7][1] = End /\ F[8][1] = Length
    BY <2>1 DEF HasPaths
  <2>4. /\ F[1][2] = {Time(n) : n \in IF start = {} THEN {Now} ELSE start} /\ F[1][2] # {}
        /\ F[6][2] = F[1][2]
    BY <2>1, StampThere
  <2>5. /\ F[7][2] = {Time(n) : n \in end}
        /\ F[8][2] = {Num(n) : n \in Duration(start, end)}
    BY <2>1 DEF HasValues
  <2>6. ASSUME NEW i \in {1, 6, 7, 8}, F[i][1] \notin DOMAIN doc
        PROVE  /\ F[i][1] \in DOMAIN o <=> F[i][2] # {}
               /\ F[i][2] # {} => o[F[i][1]] \in F[i][2]
    BY <2>1, <2>2, <2>6, LeafResult
  <2>7. \A m, n : (m \in start /\ n \in start) \/ (m \in end /\ n \in end) => m = n
    BY OneInstant
  <2> HIDE DEF End, Length, start, end
  <2>8. ASSUME NEW i \in {1, 6}, F[i][1] \notin DOMAIN doc
        PROVE  /\ F[i][1] \in DOMAIN o /\ \A s \in start : o[F[i][1]] = Time(s)
               /\ start = {} => o[F[i][1]] = Time(Now)
    <3>1. F[i][1] \in DOMAIN o /\ o[F[i][1]] \in F[1][2]
      BY <2>4, <2>6, <2>8
    <3>2. ASSUME NEW s \in start PROVE F[1][2] = {Time(s)}
      BY <2>4, <2>7
    <3>3. start = {} => F[1][2] = {Time(Now)}
      BY <2>4
    <3> QED BY <3>1, <3>2, <3>3
  <2>9. ASSUME End \notin DOMAIN doc
        PROVE  /\ End \in DOMAIN o <=> end # {}
               /\ \A e \in end : o[End] = Time(e)
    <3>1. /\ End \in DOMAIN o <=> F[7][2] # {}
          /\ F[7][2] # {} => o[End] \in F[7][2]
      BY <2>3, <2>6, <2>9
    <3>2. ASSUME NEW e \in end PROVE F[7][2] = {Time(e)}
      BY <2>5, <2>7
    <3>3. F[7][2] # {} <=> end # {}
      BY <2>5
    <3> QED BY <3>1, <3>2, <3>3
  <2>10. ASSUME Length \notin DOMAIN doc
         PROVE  /\ Length \in DOMAIN o <=>
                      \E s \in start, e \in end : e - s \in 0..MaxNanos
                /\ \A s \in start, e \in end :
                      Length \in DOMAIN o => o[Length] = Num(e - s)
    <3>1. /\ Length \in DOMAIN o <=> F[8][2] # {}
          /\ F[8][2] # {} => o[Length] \in F[8][2]
      BY <2>3, <2>6, <2>10
    <3>2. F[8][2] # {} <=> Duration(start, end) # {}
      BY <2>5
    <3>3. Duration(start, end) # {} <=> \E s \in start, e \in end : e - s \in 0..MaxNanos
      BY DEF Duration
    <3>4. ASSUME NEW s \in start, NEW e \in end, Length \in DOMAIN o
          PROVE  o[Length] = Num(e - s)
      <4>1. PICK n \in Duration(start, end) : o[Length] = Num(n)
        BY <2>5, <3>1, <3>4
      <4>2. PICK t \in start, f \in end : n = f - t
        BY DEF Duration
      <4>3. t = s /\ f = e
        BY <2>7
      <4> QED BY <4>1, <4>2, <4>3
    <3> QED BY <3>1, <3>2, <3>3, <3>4
  <2> QED BY <2>3, <2>8, <2>9, <2>10 DEF start, end, End, Length
<1> QED BY <1>1, DocInvHolds, PTL

-----------------------------------------------------------------------------
(* Entries of requests *)

\* The entry of a request is built from it and from the target calls in its list.
CallInv == \A q \in call : q \in Calls /\ doc = EntryOf(q) /\ ~panicked

LEMMA CallInvHolds == Spec => []CallInv
<1>1. Init => CallInv
  BY DEF Init, CallInv
<1>2. CallInv /\ [Next]_vars => CallInv'
  <2> SUFFICES ASSUME CallInv, [Next]_vars PROVE CallInv'
    OBVIOUS
  <2>1. ASSUME UNCHANGED targets, NEW q PROVE EntryOf(q)' = EntryOf(q)
    BY <2>1 DEF EntryOf, AxumEntry, UnaryEntry, StreamEntry, GrpcCommon
  <2>2. ASSUME NEW q \in Calls, BuildEntry(q) PROVE CallInv'
    <3>1. call' = {q} /\ doc' = EntryOf(q)' /\ ~panicked'
      BY <2>1, <2>2 DEF BuildEntry
    <3> QED BY <3>1 DEF CallInv
  <2>3. ASSUME call = {}, call' = {} PROVE CallInv'
    BY <2>3 DEF CallInv
  <2>4. ASSUME UNCHANGED <<call, doc, targets, panicked>> PROVE CallInv'
    <3>1. ASSUME NEW q \in call PROVE q \in Calls /\ doc' = EntryOf(q)' /\ ~panicked'
      BY <2>1, <2>4, <3>1 DEF CallInv
    <3> QED BY <2>4, <3>1 DEF CallInv
  <2>5. ASSUME NEW f \in UserFields, AddField(f[1], f[2]) PROVE CallInv'
    BY <2>3, <2>5 DEF AddField
  <2>6. ASSUME NEW t \in TargetCalls, RecordTarget(t) PROVE CallInv'
    BY <2>3, <2>6 DEF RecordTarget
  <2>7. CASE Log
    BY <2>4, <2>7 DEF Log
  <2>8. CASE UNCHANGED vars
    BY <2>4, <2>8 DEF vars
  <2> QED BY <2>2, <2>5, <2>6, <2>7, <2>8 DEF Next
<1> QED BY <1>1, <1>2, PTL DEF Spec

\* The entry of every request, from the handler's values to the document that is
\* sent: its id and its label are the request's, its duration is the latency that was
\* measured, its time stamp the request's time, and its target calls are listed, up to
\* the limit.
THEOREM RequestsToldTruly == Spec => []RequestTold
<1>1. DocInv /\ TargetInv /\ CallInv => RequestTold
  <2> SUFFICES ASSUME DocInv, TargetInv, CallInv, NEW o \in out, NEW q \in call
               PROVE  /\ o[<<"http", "request", "id">>] = Str(q.id)
                      /\ o[<<"labels", "request_id">>] = Str(q.id)
                      /\ <<"event", "duration">> \in DOMAIN o
                      /\ o[<<"event", "duration">>] = Num(q.latency)
                      /\ o[<<"@timestamp">>] = Time(q.time)
                      /\ Len(o[<<"target">>][2]) = Logged
    BY DEF RequestTold
  <2>1. /\ q \in Calls /\ doc = EntryOf(q) /\ ~panicked
        /\ o = EnrichWithEcs(doc, Now)
    BY DEF CallInv, DocInv
  <2>2. PICK r : IsEntry(r, q)
    BY <2>1, EntryForm
  <2>3. PICK F : F = EcsFields(doc, Now) /\ HasPaths(F) /\ HasValues(F, doc)
    BY EcsPaths, EcsValues
  <2>4. \A p \in DOMAIN doc : p = <<p[1]>> /\ p[1] \in DOMAIN r
    BY <2>1, <2>2 DEF IsEntry, Fields
  <2>5. /\ F[1][1] = <<"@timestamp">> /\ F[8][1] = <<"event", "duration">>
        /\ F[18][1] = <<"http", "request", "id">> /\ F[20][1] = <<"labels", "request_id">>
    BY <2>3 DEF HasPaths
  <2>6. F[1][1] \notin DOMAIN doc
    BY <2>2, <2>4, <2>5 DEF IsEntry
  <2>7. /\ F[8][1] \notin DOMAIN doc /\ F[18][1] \notin DOMAIN doc
        /\ F[20][1] \notin DOMAIN doc /\ <<"labels">> \notin DOMAIN doc
    BY <2>2, <2>4, <2>5 DEF IsEntry
  <2>8. Strings(doc, "requestId") = {Str(q.id)}
    <3>1. r["requestId"][1] \in {"string", "time"}
      BY <2>2 DEF IsEntry, Str
    <3>2. "requestId" \in DOMAIN r /\ r["requestId"] = Str(q.id) /\ doc = Fields(r)
      BY <2>1, <2>2 DEF IsEntry
    <3>3. Field(Fields(r), "requestId", {"string", "time"}) = {r["requestId"]}
      BY <3>1, <3>2, EntryField
    <3> QED BY <3>2, <3>3 DEF Strings
  <2>9. F[18][2] = {Str(q.id)} /\ F[20][2] = {Str(q.id)}
    BY <2>3, <2>7, <2>8 DEF HasValues
  <2>10. F[1][2] = {Time(q.time)}
    BY <2>1, <2>3, EntryTimes, StampThere
  <2>11. F[8][2] = {Num(q.latency)}
    <3>1. q.latency \in 0..MaxNanos /\ q.time \in Int /\ MaxNanos \in Nat
      BY <2>1, DocumentAssumption
    <3>2. Duration({q.time}, {q.time + q.latency}) = {q.latency}
      BY <3>1 DEF Duration
    <3>3. /\ Instant(doc, "requestTimestamp") = {q.time}
          /\ Instant(doc, "responseTimestamp") = {q.time + q.latency}
      BY <2>1, EntryTimes
    <3>4. F[8][2] = {Num(n) : n \in Duration({q.time}, {q.time + q.latency})}
      BY <2>3, <3>3 DEF HasValues
    <3> QED BY <3>2, <3>4
  <2>12. ASSUME NEW i \in {1, 8, 18, 20}, NEW v, F[i][2] = {v}
         PROVE  F[i][1] \in DOMAIN o /\ o[F[i][1]] = v
    BY <2>1, <2>3, <2>6, <2>7, <2>12, LeafResult, SMTT(30)
  <2>13. o[<<"target">>] = Arr(targets)
    <3>1. "target" \notin Roots
      BY DEF Roots
    <3>2. <<"target">> \in DOMAIN doc /\ doc[<<"target">>] = Arr(targets)
      BY <2>1, <2>2, EntryField DEF IsEntry
    <3> QED BY <2>1, <3>1, <3>2, OthersKept DEF SameAt
  <2>14. Len(o[<<"target">>][2]) = Logged
    BY <2>1, <2>13 DEF Arr, TargetInv
  <2> QED BY <2>5, <2>9, <2>10, <2>11, <2>12, <2>14
<1> QED BY <1>1, DocInvHolds, TargetInvHolds, CallInvHolds, PTL

-----------------------------------------------------------------------------
(* Headers *)

\* The headers of a name among the first n, for all n.
NamedUpTo(upTo, hs, name, m) ==
    upTo = [n \in 0..m |->
               IF n = 0 THEN <<>>
               ELSE IF hs[n][1] = name THEN Append(upTo[n - 1], hs[n]) ELSE upTo[n - 1]]

LEMMA NamedUpToExists ==
    ASSUME NEW hs, NEW name, NEW m \in Nat PROVE \E upTo : NamedUpTo(upTo, hs, name, m)
<1> DEFINE S == {k \in Nat : \E f : NamedUpTo(f, hs, name, k)}
<1>1. 0 \in S
  <2> DEFINE f == [n \in 0..0 |-> <<>>]
  <2>1. NamedUpTo(f, hs, name, 0)
    BY DEF NamedUpTo
  <2> QED BY <2>1
<1>2. ASSUME NEW k \in S PROVE k + 1 \in S
  <2>1. PICK f : NamedUpTo(f, hs, name, k)
    OBVIOUS
  <2> DEFINE Step(g, n) == IF n = 0 THEN <<>>
                           ELSE IF hs[n][1] = name THEN Append(g[n - 1], hs[n]) ELSE g[n - 1]
             g == [n \in 0..(k + 1) |-> IF n = k + 1 THEN Step(f, k + 1) ELSE f[n]]
  <2>2. \A n \in 0..k : f[n] = Step(f, n)
    BY <2>1 DEF NamedUpTo
  <2>3. \A n \in 0..k : g[n] = f[n]
    OBVIOUS
  <2>4. g[k + 1] = Step(f, k + 1)
    OBVIOUS
  <2>5. ASSUME NEW n \in 0..(k + 1) PROVE g[n] = Step(g, n)
    <3>1. CASE n = k + 1
      <4>1. f[n - 1] = g[n - 1]
        BY <2>3, <3>1
      <4> QED BY <2>4, <3>1, <4>1
    <3>2. CASE n \in 0..k
      <4>1. n # 0 => f[n - 1] = g[n - 1]
        BY <2>3, <3>2
      <4> QED BY <2>2, <2>3, <3>2, <4>1
    <3> QED BY <3>1, <3>2
  <2>6. g = [n \in 0..(k + 1) |-> Step(g, n)]
    <3>1. DOMAIN g = 0..(k + 1) /\ g = [n \in 0..(k + 1) |-> g[n]]
      OBVIOUS
    <3> HIDE DEF g
    <3> QED BY <2>5, <3>1
  <2>7. NamedUpTo(g, hs, name, k + 1)
    BY <2>6 DEF NamedUpTo
  <2> HIDE DEF g
  <2> QED BY <2>7
<1>3. S = Nat
  <2> HIDE DEF S
  <2>1. S \in SUBSET Nat
    BY DEF S
  <2> QED BY <1>1, <1>2, <2>1, SetInduction
<1> QED BY <1>3

\* The sequence s of headers of a name starts with the first of the first m headers
\* that have it, and ends with the last.
NamedEnds(s, hs, name, m) ==
    IF \E i \in 1..m : hs[i][1] = name
    THEN /\ Len(s) >= 1
         /\ \E i \in 1..m : /\ hs[i][1] = name /\ s[1] = hs[i]
                            /\ \A j \in 1..(i - 1) : hs[j][1] # name
         /\ \E i \in 1..m : /\ hs[i][1] = name /\ s[Len(s)] = hs[i]
                            /\ \A j \in (i + 1)..m : hs[j][1] # name
    ELSE s = <<>>

LEMMA NamedEndsGrow ==
    ASSUME NEW hs, NEW name, NEW m \in Nat, NEW H, NEW s \in Seq(H), NamedEnds(s, hs, name, m)
    PROVE  /\ hs[m + 1][1] # name => NamedEnds(s, hs, name, m + 1)
           /\ hs[m + 1][1] = name /\ hs[m + 1] \in H =>
                 NamedEnds(Append(s, hs[m + 1]), hs, name, m + 1)
<1> DEFINE Some(n) == \E i \in 1..n : hs[i][1] = name
           Starts(t, n) == \E i \in 1..n : /\ hs[i][1] = name /\ t[1] = hs[i]
                                           /\ \A j \in 1..(i - 1) : hs[j][1] # name
           Ends(t, n) == \E i \in 1..n : /\ hs[i][1] = name /\ t[Len(t)] = hs[i]
                                         /\ \A j \in (i + 1)..n : hs[j][1] # name
<1>1. /\ Some(m) => Len(s) >= 1 /\ Starts(s, m) /\ Ends(s, m)
      /\ ~Some(m) => s = <<>>
  BY DEF NamedEnds
<1>2. ASSUME hs[m + 1][1] # name PROVE NamedEnds(s, hs, name, m + 1)
  <2>1. Some(m + 1) <=> Some(m)
    BY <1>2
  <2>2. Starts(s, m) => Starts(s, m + 1)
    OBVIOUS
  <2>3. Ends(s, m) => Ends(s, m + 1)
    <3> SUFFICES ASSUME NEW i \in 1..m, hs[i][1] = name, s[Len(s)] = hs[i],
                        \A j \in (i + 1)..m : hs[j][1] # name
                 PROVE  Ends(s, m + 1)
      OBVIOUS
    <3>1. i \in 1..(m + 1) /\ \A j \in (i + 1)..(m + 1) : hs[j][1] # name
      BY <1>2
    <3> QED BY <3>1
  <2> HIDE DEF Some, Starts, Ends
  <2>4. /\ Some(m + 1) => Len(s) >= 1 /\ Starts(s, m + 1) /\ Ends(s, m + 1)
        /\ ~Some(m + 1) => s = <<>>
    BY <1>1, <2>1, <2>2, <2>3
  <2> QED BY <2>4 DEF NamedEnds, Some, Starts, Ends
<1>3. ASSUME hs[m + 1][1] = name, hs[m + 1] \in H
      PROVE  NamedEnds(Append(s, hs[m + 1]), hs, name, m + 1)
  <2>1. PICK t : t = Append(s, hs[m + 1])
    OBVIOUS
  <2>2. /\ Len(s) \in Nat /\ Len(t) = Len(s) + 1 /\ t[Len(s) + 1] = hs[m + 1]
        /\ \A i \in 1..Len(s) : t[i] = s[i]
    BY <1>3, <2>1, AppendProperties, LenProperties
  <2>3. Some(m + 1) /\ Len(t) >= 1
    BY <1>3, <2>2
  <2>4. Ends(t, m + 1)
    <3>1. m + 1 \in 1..(m + 1) /\ t[Len(t)] = hs[m + 1]
      BY <2>2
    <3>2. \A j \in (m + 1 + 1)..(m + 1) : FALSE
      OBVIOUS
    <3> QED BY <1>3, <3>1, <3>2
  <2>5. Starts(t, m + 1)
    <3>1. CASE Some(m)
      <4>1. t[1] = s[1]
        BY <1>1, <2>2, <3>1
      <4>2. PICK i \in 1..m : /\ hs[i][1] = name /\ s[1] = hs[i]
                              /\ \A j \in 1..(i - 1) : hs[j][1] # name
        BY <1>1, <3>1
      <4> QED BY <4>1, <4>2
    <3>2. CASE ~Some(m)
      <4>1. Len(s) = 0
        BY <1>1, <3>2
      <4>2. t[1] = hs[m + 1] /\ m + 1 \in 1..(m + 1)
        BY <2>2, <4>1
      <4>3. \A j \in 1..(m + 1 - 1) : hs[j][1] # name
        BY <3>2
      <4> QED BY <1>3, <4>2, <4>3
    <3> QED BY <3>1, <3>2
  <2> QED BY <2>1, <2>3, <2>4, <2>5 DEF NamedEnds
<1> QED BY <1>2, <1>3

LEMMA NamedFacts ==
    ASSUME NEW hs, NEW name, DOMAIN hs = 1..Len(hs), Len(hs) \in Nat
    PROVE  /\ Named(hs, name) \in Seq({hs[i] : i \in DOMAIN hs})
           /\ NamedEnds(Named(hs, name), hs, name, Len(hs))
<1> DEFINE upTo == CHOOSE f : NamedUpTo(f, hs, name, Len(hs))
           H == {hs[i] : i \in DOMAIN hs}
<1>1. Named(hs, name) = upTo[Len(hs)]
  BY DEF Named, NamedUpTo
<1>2. NamedUpTo(upTo, hs, name, Len(hs))
  BY NamedUpToExists
<1> HIDE DEF upTo
<1>3. \A n \in 0..Len(hs) :
         upTo[n] = IF n = 0 THEN <<>>
                   ELSE IF hs[n][1] = name THEN Append(upTo[n - 1], hs[n]) ELSE upTo[n - 1]
  BY <1>2 DEF NamedUpTo
<1> DEFINE S == {n \in Nat : n <= Len(hs) => upTo[n] \in Seq(H) /\ NamedEnds(upTo[n], hs, name, n)}
<1>4. 0 \in S
  <2>1. upTo[0] = <<>>
    BY <1>3
  <2>2. <<>> \in Seq(H)
    OBVIOUS
  <2>3. NamedEnds(<<>>, hs, name, 0)
    BY DEF NamedEnds
  <2> HIDE DEF H
  <2> QED BY <2>1, <2>2, <2>3
<1>5. ASSUME NEW n \in S PROVE n + 1 \in S
  <2> SUFFICES ASSUME n + 1 <= Len(hs)
               PROVE  upTo[n + 1] \in Seq(H) /\ NamedEnds(upTo[n + 1], hs, name, n + 1)
    OBVIOUS
  <2>1. upTo[n] \in Seq(H) /\ NamedEnds(upTo[n], hs, name, n) /\ n \in Nat
    OBVIOUS
  <2>2. n + 1 \in DOMAIN hs /\ n + 1 # 0 /\ n + 1 - 1 = n
    OBVIOUS
  <2>3. upTo[n + 1] = IF hs[n + 1][1] = name THEN Append(upTo[n], hs[n + 1]) ELSE upTo[n]
    BY <1>3, <2>2
  <2>4. hs[n + 1] \in H
    BY <2>2
  <2> HIDE DEF S, H
  <2>5. upTo[n + 1] \in Seq(H)
    BY <2>1, <2>3, <2>4, AppendProperties
  <2>6. NamedEnds(upTo[n + 1], hs, name, n + 1)
    BY <2>1, <2>3, <2>4, NamedEndsGrow
  <2> QED BY <2>5, <2>6
<1>6. S = Nat
  <2> HIDE DEF S
  <2>1. S \in SUBSET Nat
    BY DEF S
  <2> QED BY <1>4, <1>5, <2>1, SetInduction
<1>7. upTo[Len(hs)] \in Seq(H) /\ NamedEnds(upTo[Len(hs)], hs, name, Len(hs))
  <2> HIDE DEF S
  <2>1. Len(hs) \in S
    BY <1>6
  <2> HIDE DEF H
  <2> QED BY <2>1 DEF S
<1> QED BY <1>1, <1>7

\* The number of headers of a name is what it seems.
LEMMA NamedThere ==
    ASSUME NEW hs, NEW name \in Names(hs), DOMAIN hs = 1..Len(hs), Len(hs) \in Nat
    PROVE  /\ Len(Named(hs, name)) \in Nat /\ Len(Named(hs, name)) >= 1
           /\ DOMAIN Named(hs, name) = 1..Len(Named(hs, name))
<1> DEFINE H == {hs[i] : i \in DOMAIN hs}
<1>1. PICK s : s = Named(hs, name)
  OBVIOUS
<1>2. s \in Seq(H) /\ NamedEnds(s, hs, name, Len(hs))
  BY <1>1, NamedFacts
<1>3. \E i \in 1..Len(hs) : hs[i][1] = name
  BY DEF Names
<1>4. Len(s) >= 1
  BY <1>2, <1>3 DEF NamedEnds
<1>5. Len(s) \in Nat /\ DOMAIN s = 1..Len(s)
  <2> HIDE DEF H
  <2> QED BY <1>2
<1> QED BY <1>1, <1>4, <1>5

IsFirst(hs, i) == \A j \in 1..(i - 1) : hs[j][1] # hs[i][1]
IsFinal(hs, i) == \A j \in (i + 1)..Len(hs) : hs[j][1] # hs[i][1]

\* The first and the last header of a name are the ends of Named.
LEMMA FirstAndLast ==
    ASSUME NEW hs, DOMAIN hs = 1..Len(hs), Len(hs) \in Nat, NEW i \in DOMAIN hs
    PROVE  /\ IsFirst(hs, i) => Named(hs, hs[i][1])[1] = hs[i]
           /\ IsFinal(hs, i) => Last(Named(hs, hs[i][1])) = hs[i]
<1>1. PICK name, s : name = hs[i][1] /\ s = Named(hs, name)
  OBVIOUS
<1>2. NamedEnds(s, hs, name, Len(hs)) /\ i \in 1..Len(hs)
  BY <1>1, NamedFacts
<1>3. /\ \E k \in 1..Len(hs) : /\ hs[k][1] = name /\ s[1] = hs[k]
                               /\ \A j \in 1..(k - 1) : hs[j][1] # name
      /\ \E k \in 1..Len(hs) : /\ hs[k][1] = name /\ s[Len(s)] = hs[k]
                               /\ \A j \in (k + 1)..Len(hs) : hs[j][1] # name
  BY <1>1, <1>2 DEF NamedEnds
<1>4. ASSUME IsFirst(hs, i) PROVE s[1] = hs[i]
  <2>1. PICK k \in 1..Len(hs) : /\ hs[k][1] = name /\ s[1] = hs[k]
                                /\ \A j \in 1..(k - 1) : hs[j][1] # name
    BY <1>3
  <2>2. ~(k < i) /\ ~(i < k)
    BY <1>1, <1>2, <1>4, <2>1 DEF IsFirst
  <2>3. k = i
    BY <1>2, <2>2
  <2> QED BY <2>1, <2>3
<1>5. ASSUME IsFinal(hs, i) PROVE s[Len(s)] = hs[i]
  <2>1. PICK k \in 1..Len(hs) : /\ hs[k][1] = name /\ s[Len(s)] = hs[k]
                                /\ \A j \in (k + 1)..Len(hs) : hs[j][1] # name
    BY <1>3
  <2>2. ~(k < i) /\ ~(i < k)
    BY <1>1, <1>2, <1>5, <2>1 DEF IsFinal
  <2>3. k = i
    BY <1>2, <2>2
  <2> QED BY <2>1, <2>3
<1> QED BY <1>1, <1>4, <1>5 DEF Last

\* A name is readable if its first header is.
LEMMA FirstReadable ==
    ASSUME NEW hs, DOMAIN hs = 1..Len(hs), Len(hs) \in Nat, NEW name
    PROVE  Readable(hs, name) <=>
              \E i \in DOMAIN hs : hs[i][1] = name /\ IsFirst(hs, i) /\ hs[i][2] # Opaque
<1>1. ASSUME Readable(hs, name)
      PROVE  \E i \in DOMAIN hs : hs[i][1] = name /\ IsFirst(hs, i) /\ hs[i][2] # Opaque
  <2>1. \E i \in 1..Len(hs) : hs[i][1] = name
    BY <1>1 DEF Readable, Names
  <2>2. PICK i \in 1..Len(hs) : /\ hs[i][1] = name /\ Named(hs, name)[1] = hs[i]
                                /\ \A j \in 1..(i - 1) : hs[j][1] # name
    BY <2>1, NamedFacts DEF NamedEnds
  <2> QED BY <1>1, <2>2 DEF Readable, IsFirst
<1>2. ASSUME NEW i \in DOMAIN hs, hs[i][1] = name, IsFirst(hs, i), hs[i][2] # Opaque
      PROVE  Readable(hs, name)
  <2>1. Named(hs, name)[1] = hs[i]
    BY <1>2, FirstAndLast
  <2> QED BY <1>2, <2>1 DEF Readable, Names
<1> QED BY <1>1, <1>2

\* metadata_to_map and collect_metadata_value: every value that a client sent for a
\* key, one or many, has its place in the document of the call, in the order it was
\* sent, readable text as it is and binary values encoded; what is lost is text that
\* cannot be read, of which only the place is left.
THEOREM MetadataNeverLost == Spec => []MetadataTold
<1>1. DocInv /\ CallInv => MetadataTold
  <2> SUFFICES ASSUME DocInv, CallInv, NEW o \in out, NEW q \in call, q.kind # "axum"
               PROVE  LET told == o[<<"grpcRequestMeta">>][2]
                      IN  /\ DOMAIN told = Names(q.headers)
                          /\ \A n \in Names(q.headers) :
                                LET values == Named(q.headers, n)
                                    Place(i) == IF Len(values) > 1 THEN told[n][2][i] ELSE told[n][2]
                                IN  /\ told[n][1] = IF Len(values) > 1 THEN "array" ELSE "string"
                                    /\ \A i \in DOMAIN values :
                                          /\ n \in BinaryNames => Place(i) = Base64[values[i][2]]
                                          /\ n \notin BinaryNames =>
                                                Place(i) = IF values[i][2] = Opaque THEN ""
                                                           ELSE values[i][2]
    BY DEF MetadataTold
  <2>1. q \in Calls /\ doc = EntryOf(q) /\ o = EnrichWithEcs(doc, Now)
    BY DEF CallInv, DocInv
  <2>2. /\ q.kind \in {"unary", "stream"} /\ Len(q.headers) \in Nat
        /\ DOMAIN q.headers = 1..Len(q.headers)
    BY <2>1, DocumentAssumption
  <2>3. PICK s : doc = Fields(OrElse(GrpcCommon(q), s))
    BY <2>1, <2>2 DEF EntryOf, UnaryEntry, StreamEntry
  <2>4. /\ "grpcRequestMeta" \in DOMAIN OrElse(GrpcCommon(q), s)
        /\ OrElse(GrpcCommon(q), s)["grpcRequestMeta"] = Obj(MetadataToMap(q.headers))
    <3>1. /\ "grpcRequestMeta" \in DOMAIN GrpcCommon(q)
          /\ GrpcCommon(q)["grpcRequestMeta"] = Obj(MetadataToMap(q.headers))
      BY DEF GrpcCommon
    <3> QED BY <3>1 DEF OrElse
  <2>5. /\ <<"grpcRequestMeta">> \in DOMAIN doc
        /\ doc[<<"grpcRequestMeta">>] = Obj(MetadataToMap(q.headers))
    BY <2>3, <2>4, EntryField
  <2>6. "grpcRequestMeta" \notin Roots
    BY DEF Roots
  <2>7. o[<<"grpcRequestMeta">>][2] = MetadataToMap(q.headers)
    BY <2>1, <2>5, <2>6, OthersKept DEF SameAt, Obj
  <2>8. DOMAIN MetadataToMap(q.headers) = Names(q.headers)
    BY DEF MetadataToMap
  <2> DEFINE told == o[<<"grpcRequestMeta">>][2]
  <2>9. ASSUME NEW n \in Names(q.headers), NEW values, values = Named(q.headers, n)
        PROVE  /\ told[n][1] = IF Len(values) > 1 THEN "array" ELSE "string"
               /\ \A i \in DOMAIN values :
                     (IF Len(values) > 1 THEN told[n][2][i] ELSE told[n][2]) =
                        MetadataValue(n, values[i][2])
    <3>1. Len(values) \in Nat /\ Len(values) >= 1 /\ DOMAIN values = 1..Len(values)
      BY <2>2, <2>9, NamedThere
    <3> DEFINE shown == [i \in DOMAIN values |-> MetadataValue(n, values[i][2])]
    <3>2. MetadataToMap(q.headers)[n] = IF Len(shown) = 1 THEN Str(shown[1]) ELSE Arr(shown)
      BY <2>9 DEF MetadataToMap
    <3>3. /\ Len(shown) = Len(values)
          /\ \A i \in 1..Len(values) : shown[i] = MetadataValue(n, values[i][2])
      BY <3>1
    <3> HIDE DEF shown
    <3>4. CASE Len(values) = 1
      <4>1. told[n] = Str(shown[1])
        BY <2>7, <3>2, <3>3, <3>4
      <4>2. told[n][1] = "string" /\ told[n][2] = shown[1]
        BY <4>1 DEF Str
      <4> HIDE DEF told
      <4> QED BY <3>1, <3>3, <3>4, <4>2
    <3>5. CASE Len(values) > 1
      <4>1. told[n] = Arr(shown)
        BY <2>7, <3>2, <3>3, <3>5
      <4>2. told[n][1] = "array" /\ told[n][2] = shown
        BY <4>1 DEF Arr
      <4> HIDE DEF told
      <4> QED BY <3>1, <3>3, <3>5, <4>2
    <3> QED BY <3>1, <3>4, <3>5
  <2> HIDE DEF told
  <2>10. \A n \in Names(q.headers) :
            LET values == Named(q.headers, n)
                Place(i) == IF Len(values) > 1 THEN told[n][2][i] ELSE told[n][2]
            IN  /\ told[n][1] = IF Len(values) > 1 THEN "array" ELSE "string"
                /\ \A i \in DOMAIN values :
                      /\ n \in BinaryNames => Place(i) = Base64[values[i][2]]
                      /\ n \notin BinaryNames =>
                            Place(i) = IF values[i][2] = Opaque THEN "" ELSE values[i][2]
    BY <2>9, ZenonT(60) DEF MetadataValue, ToStr
  <2> QED BY <2>7, <2>8, <2>10 DEF told
<1> QED BY <1>1, DocInvHolds, CallInvHolds, PTL

\* A field of an Axum entry that is read from one header has the first value of that
\* header and the map of all headers the last; the client's address is that of the first
\* header that can tell it, and the event has it if there is one.
THEOREM HeadersAlwaysAgree == Spec => []HeadersAgree
<1>1. DocInv /\ CallInv => HeadersAgree
  <2> SUFFICES ASSUME DocInv, CallInv, NEW o \in out, NEW q \in call, q.kind = "axum"
               PROVE  LET hs  == q.headers
                          map == o[<<"requestHeader">>][2]
                          First(i) == \A j \in 1..(i - 1) : hs[j][1] # hs[i][1]
                          Final(i) == \A j \in (i + 1)..Len(hs) : hs[j][1] # hs[i][1]
                          Tells(k, i) == hs[i][1] = IpHeaders[k] /\ First(i) /\ hs[i][2] # Opaque
                          found == {k \in 1..3 : \E i \in DOMAIN hs : Tells(k, i)}
                      IN  /\ DOMAIN map = Names(hs)
                          /\ \A i \in DOMAIN hs :
                                /\ Final(i) => map[hs[i][1]] = Str(ToStr(hs[i][2]))
                                /\ First(i) /\ hs[i][1] = "user-agent" =>
                                      o[<<"requestAgent">>] = Str(ToStr(hs[i][2]))
                                /\ First(i) /\ hs[i][1] = "host" =>
                                      o[<<"requestHostName">>] = Str(ToStr(hs[i][2]))
                                /\ \A k \in found : Tells(k, i) /\ (\A m \in found : k <= m) =>
                                      o[<<"requestIp">>] = Str(hs[i][2])
                          /\ found = {} => o[<<"requestIp">>] = Str("")
                          /\ <<"client", "ip">> \in DOMAIN o <=> o[<<"requestIp">>] # Str("")
    BY DEF HeadersAgree
  <2> DEFINE hs == q.headers
             map == o[<<"requestHeader">>][2]
             Tells(k, i) == hs[i][1] = IpHeaders[k] /\ IsFirst(hs, i) /\ hs[i][2] # Opaque
             found == {k \in 1..3 : \E i \in DOMAIN hs : Tells(k, i)}
  <2>1. q \in Calls /\ doc = Fields(AxumEntry(q)) /\ o = EnrichWithEcs(doc, Now)
    BY DEF CallInv, DocInv, EntryOf
  <2>2. Len(hs) \in Nat /\ DOMAIN hs = 1..Len(hs)
    BY <2>1, DocumentAssumption
  <2>3. ASSUME NEW f \in DOMAIN AxumEntry(q), f \notin Roots
        PROVE  o[<<f>>] = AxumEntry(q)[f]
    BY <2>1, <2>3, EntryField, OthersKept DEF SameAt
  <2>4. /\ o[<<"requestHeader">>] = Obj(HeaderToMap(hs))
        /\ o[<<"requestAgent">>] = Str(HeaderToString(hs, "user-agent"))
        /\ o[<<"requestHostName">>] = Str(HeaderToString(hs, "host"))
        /\ o[<<"requestIp">>] = Str(ClientIp(hs))
    <3>1. /\ "requestHeader" \in DOMAIN AxumEntry(q) /\ "requestHeader" \notin Roots
          /\ "requestAgent" \in DOMAIN AxumEntry(q) /\ "requestAgent" \notin Roots
          /\ "requestHostName" \in DOMAIN AxumEntry(q) /\ "requestHostName" \notin Roots
          /\ "requestIp" \in DOMAIN AxumEntry(q) /\ "requestIp" \notin Roots
      BY DEF AxumEntry, Roots
    <3>2. /\ AxumEntry(q)["requestHeader"] = Obj(HeaderToMap(hs))
          /\ AxumEntry(q)["requestAgent"] = Str(HeaderToString(hs, "user-agent"))
          /\ AxumEntry(q)["requestHostName"] = Str(HeaderToString(hs, "host"))
          /\ AxumEntry(q)["requestIp"] = Str(ClientIp(hs))
      BY DEF AxumEntry
    <3> QED BY <2>3, <3>1, <3>2
  <2>5. map = HeaderToMap(hs) /\ DOMAIN map = Names(hs)
    BY <2>4 DEF Obj, HeaderToMap
  <2>6. ASSUME NEW i \in DOMAIN hs
        PROVE  /\ hs[i][1] \in Names(hs)
               /\ IsFirst(hs, i) => Named(hs, hs[i][1])[1] = hs[i]
               /\ IsFinal(hs, i) => Last(Named(hs, hs[i][1])) = hs[i]
    BY <2>2, FirstAndLast DEF Names
  <2> HIDE DEF hs
  <2>7. ASSUME NEW i \in DOMAIN hs, IsFinal(hs, i) PROVE map[hs[i][1]] = Str(ToStr(hs[i][2]))
    BY <2>5, <2>6, <2>7 DEF HeaderToMap
  <2>8. ASSUME NEW i \in DOMAIN hs, IsFirst(hs, i)
        PROVE  HeaderToString(hs, hs[i][1]) = ToStr(hs[i][2])
    BY <2>6, <2>8 DEF HeaderToString
  <2>9. ASSUME NEW k \in 1..3 PROVE Readable(hs, IpHeaders[k]) <=> k \in found
    BY <2>2, FirstReadable
  <2>10. ASSUME NEW k \in found, NEW i \in DOMAIN hs, Tells(k, i), \A m \in found : k <= m
         PROVE  ClientIp(hs) = hs[i][2]
    <3>1. Named(hs, IpHeaders[k])[1] = hs[i] /\ Readable(hs, IpHeaders[k])
      BY <2>6, <2>9, <2>10
    <3> HIDE DEF found, Tells
    <3>2. k \in 1..3 /\ \A m \in 1..3 : m < k => ~Readable(hs, IpHeaders[m])
      BY <2>9, <2>10 DEF found
    <3>3. CASE k = 1
      BY <3>1, <3>3 DEF ClientIp
    <3>4. CASE k = 2
      BY <3>1, <3>2, <3>4 DEF ClientIp
    <3>5. CASE k = 3
      BY <3>1, <3>2, <3>5 DEF ClientIp
    <3> QED BY <3>2, <3>3, <3>4, <3>5
  <2>11. found = {} => ClientIp(hs) = ""
    <3>1. 1 \in 1..3 /\ 2 \in 1..3 /\ 3 \in 1..3
      OBVIOUS
    <3> HIDE DEF found
    <3>2. found = {} => /\ ~Readable(hs, IpHeaders[1]) /\ ~Readable(hs, IpHeaders[2])
                        /\ ~Readable(hs, IpHeaders[3])
      BY <2>9, <3>1
    <3> QED BY <3>2 DEF ClientIp
  <2>12. <<"client", "ip">> \in DOMAIN o <=> o[<<"requestIp">>] # Str("")
    <3>1. PICK F : F = EcsFields(doc, Now) /\ HasPaths(F) /\ HasValues(F, doc)
      BY EcsPaths, EcsValues
    <3>2. F[16][1] = <<"client", "ip">> /\ F[16][2] = {v \in Strings(doc, "requestIp") : v # Str("")}
      BY <3>1 DEF HasPaths, HasValues
    <3>3. Strings(doc, "requestIp") = {Str(ClientIp(hs))}
      <4>1. PICK r : r = AxumEntry(q)
        OBVIOUS
      <4>2. "requestIp" \in DOMAIN r /\ r["requestIp"] = Str(ClientIp(hs))
        BY <4>1 DEF AxumEntry, hs
      <4>3. r["requestIp"][1] \in {"string", "time"}
        BY <4>2 DEF Str
      <4>4. Field(Fields(r), "requestIp", {"string", "time"}) = {r["requestIp"]}
        BY ONLY <4>2, <4>3, EntryField, ZenonT(60)
      <4> QED BY <2>1, <4>1, <4>2, <4>4 DEF Strings
    <3>4. <<"client", "ip">> \notin DOMAIN doc
      BY <2>1 DEF Fields, AxumEntry
    <3>5. F[16][1] \in DOMAIN o <=> F[16][2] # {}
      <4>1. F = EcsFields(doc, Now) /\ F[16][1] \notin DOMAIN doc
        BY <3>1, <3>2, <3>4
      <4>2. o = EnrichWithEcs(doc, Now) /\ 16 \in {1, 6, 7, 8, 16, 18, 20}
        BY <2>1
      <4> QED BY ONLY <4>1, <4>2, LeafResult
    <3> QED BY <2>4, <3>2, <3>3, <3>5
  <2>13. ASSUME NEW i \in DOMAIN hs, IsFirst(hs, i)
         PROVE  /\ hs[i][1] = "user-agent" => o[<<"requestAgent">>] = Str(ToStr(hs[i][2]))
                /\ hs[i][1] = "host" => o[<<"requestHostName">>] = Str(ToStr(hs[i][2]))
    BY <2>4, <2>8, <2>13
  <2>14. ASSUME NEW i \in DOMAIN hs, NEW k \in found, Tells(k, i), \A m \in found : k <= m
         PROVE  o[<<"requestIp">>] = Str(hs[i][2])
    BY <2>4, <2>10, <2>14
  <2>15. found = {} => o[<<"requestIp">>] = Str("")
    BY <2>4, <2>11
  <2> HIDE DEF map, Tells, found
  <2>16. /\ DOMAIN map = Names(hs)
         /\ \A i \in DOMAIN hs :
               /\ IsFinal(hs, i) => map[hs[i][1]] = Str(ToStr(hs[i][2]))
               /\ IsFirst(hs, i) /\ hs[i][1] = "user-agent" =>
                     o[<<"requestAgent">>] = Str(ToStr(hs[i][2]))
               /\ IsFirst(hs, i) /\ hs[i][1] = "host" =>
                     o[<<"requestHostName">>] = Str(ToStr(hs[i][2]))
               /\ \A k \in found : Tells(k, i) /\ (\A m \in found : k <= m) =>
                     o[<<"requestIp">>] = Str(hs[i][2])
         /\ found = {} => o[<<"requestIp">>] = Str("")
         /\ <<"client", "ip">> \in DOMAIN o <=> o[<<"requestIp">>] # Str("")
    BY <2>5, <2>7, <2>12, <2>13, <2>14, <2>15
  <2> QED BY <2>16 DEF hs, map, Tells, found, IsFirst, IsFinal
<1> QED BY <1>1, DocInvHolds, CallInvHolds, PTL
=============================================================================
