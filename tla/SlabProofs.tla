----------------------------- MODULE SlabProofs -----------------------------
(* The slab allocator for any number of pages and objects: its free lists  *)
(* and its lists of slabs are exact, and it is a client of the page        *)
(* allocator.  A free list enters the invariant as the way along its links *)
(* (Walks): a sequence that is given, so that no walk has to be computed.  *)
EXTENDS Slab, FiniteSetTheorems, SequenceTheorems, WellFoundedInduction, TLAPS

-----------------------------------------------------------------------------
(* Lists without repetition.                                               *)

\* A list of pages that holds the elements of S, each once.
Lists(q, S) == q \in Seq(Page) /\ IsInjective(q) /\ ToSet(q) = S

LEMMA RemovedAt ==
    ASSUME NEW q \in Seq(Page), NEW k \in 1 .. Len(q)
    PROVE  /\ RemoveAt(q, k) \in Seq(Page)
           /\ Len(RemoveAt(q, k)) = Len(q) - 1
           /\ \A i \in 1 .. Len(q) - 1 :
                RemoveAt(q, k)[i] = IF i < k THEN q[i] ELSE q[i + 1]
  <1> DEFINE a == SubSeq(q, 1, k - 1)
             b == SubSeq(q, k + 1, Len(q))
             r == a \o b
  <1>1. Len(q) \in Nat /\ k \in Int
    OBVIOUS
  <1>2. /\ a \in Seq(Page) /\ Len(a) = k - 1
        /\ \A i \in 1 .. k - 1 : a[i] = q[i]
    OBVIOUS
  <1>3. /\ b \in Seq(Page) /\ Len(b) = Len(q) - k
        /\ \A i \in 1 .. Len(q) - k : b[i] = q[k + i]
    OBVIOUS
  <1> HIDE DEF a, b
  <1>4. /\ r \in Seq(Page) /\ Len(r) = Len(a) + Len(b)
        /\ \A i \in 1 .. Len(a) + Len(b) :
               r[i] = IF i <= Len(a) THEN a[i] ELSE b[i - Len(a)]
    BY <1>2, <1>3, ConcatProperties
  <1> HIDE DEF r
  <1>5. Len(a) + Len(b) = Len(q) - 1
    BY <1>1, <1>2, <1>3
  <1>6. ASSUME NEW i \in 1 .. Len(q) - 1
        PROVE  r[i] = IF i < k THEN q[i] ELSE q[i + 1]
    <2>1. CASE i < k
      BY <1>1, <1>2, <1>4, <1>5, <2>1
    <2>2. CASE ~(i < k)
      <3>1. /\ ~(i <= Len(a)) /\ i - Len(a) \in 1 .. Len(q) - k
            /\ k + (i - Len(a)) = i + 1
        BY <1>1, <1>2, <2>2
      <3>2. b[i - Len(a)] = q[i + 1]
        BY <1>3, <3>1
      <3>3. QED
        BY <1>4, <1>5, <2>2, <3>1, <3>2
    <2>3. QED
      BY <2>1, <2>2
  <1>7. QED
    BY <1>4, <1>5, <1>6 DEF RemoveAt, r, a, b

\* list_del takes its entry out and leaves the others.
LEMMA Deleted ==
    ASSUME NEW q, NEW S, Lists(q, S), NEW p
    PROVE  Lists(list_del(q, p), S \ {p})
  <1> DEFINE at == {i \in DOMAIN q : q[i] = p}
  <1>1. /\ q \in Seq(Page) /\ Len(q) \in Nat /\ DOMAIN q = 1 .. Len(q)
        /\ \A i \in 1 .. Len(q) : q[i] \in Page
        /\ \A i, j \in 1 .. Len(q) : q[i] = q[j] => i = j
        /\ S = {q[i] : i \in 1 .. Len(q)}
    BY LenProperties DEF Lists, ToSet, IsInjective
  <1>2. CASE at = {}
    <2>1. list_del(q, p) = q /\ p \notin S
      BY <1>1, <1>2 DEF list_del
    <2>2. S \ {p} = S
      BY <2>1
    <2>3. QED
      BY <2>1, <2>2
  <1>3. CASE at # {}
    <2> PICK k : k = CHOOSE i \in at : TRUE
      OBVIOUS
    <2>1. k \in 1 .. Len(q) /\ q[k] = p /\ list_del(q, p) = RemoveAt(q, k)
      BY <1>1, <1>3 DEF list_del
    <2> PICK r : r = RemoveAt(q, k)
      OBVIOUS
    <2>4. /\ r \in Seq(Page) /\ Len(r) = Len(q) - 1
          /\ \A i \in 1 .. Len(q) - 1 : r[i] = IF i < k THEN q[i] ELSE q[i + 1]
      BY <1>1, <2>1, RemovedAt
    <2>5. DOMAIN r = 1 .. Len(q) - 1
      BY <2>4, LenProperties
    <2>6. IsInjective(r)
      <3> SUFFICES ASSUME NEW i \in 1 .. Len(q) - 1, NEW j \in 1 .. Len(q) - 1, r[i] = r[j]
                   PROVE  i = j
        BY <2>5 DEF IsInjective
      <3> DEFINE up(n) == IF n < k THEN n ELSE n + 1
      <3>1. r[i] = q[up(i)] /\ r[j] = q[up(j)]
        BY <2>4
      <3>2. up(i) \in 1 .. Len(q) /\ up(j) \in 1 .. Len(q)
        BY <1>1, <2>1
      <3>3. up(i) = up(j)
        BY <1>1, <3>1, <3>2
      <3>4. QED
        BY <1>1, <2>1, <3>3
    <2>7. ToSet(r) = S \ {p}
      <3>1. ASSUME NEW i \in 1 .. Len(q) - 1 PROVE r[i] \in S \ {p}
        <4>1. PICK n \in 1 .. Len(q) : r[i] = q[n] /\ n # k
          <5>1. CASE i < k
            BY <1>1, <2>1, <2>4, <5>1
          <5>2. CASE ~(i < k)
            <6>1. i + 1 \in 1 .. Len(q) /\ i + 1 # k /\ r[i] = q[i + 1]
              BY <1>1, <2>1, <2>4, <5>2
            <6>2. QED
              BY <6>1
          <5>3. QED
            BY <5>1, <5>2
        <4>2. QED
          BY <1>1, <2>1, <4>1
      <3>2. ASSUME NEW x \in S \ {p} PROVE \E i \in 1 .. Len(q) - 1 : r[i] = x
        <4>1. PICK n \in 1 .. Len(q) : q[n] = x /\ n # k
          BY <1>1, <2>1
        <4>2. CASE n < k
          <5>1. n \in 1 .. Len(q) - 1 /\ r[n] = x
            BY <1>1, <2>1, <2>4, <4>1, <4>2
          <5>2. QED
            BY <5>1
        <4>3. CASE ~(n < k)
          <5>1. n - 1 \in 1 .. Len(q) - 1 /\ ~(n - 1 < k) /\ (n - 1) + 1 = n
            BY <1>1, <2>1, <4>1, <4>3
          <5>2. r[n - 1] = x
            BY <2>4, <4>1, <5>1
          <5>3. QED
            BY <5>1, <5>2
        <4>4. QED
          BY <4>2, <4>3
      <3>3. QED
        BY <2>5, <3>1, <3>2 DEF ToSet
    <2>8. list_del(q, p) = r
      BY <2>1
    <2>9. QED
      BY <2>4, <2>6, <2>7, <2>8 DEF Lists
  <1>4. QED
    BY <1>2, <1>3

\* list_add puts a new entry in front.
LEMMA Added ==
    ASSUME NEW q, NEW S, Lists(q, S), NEW p \in Page, p \notin S
    PROVE  Lists(<<p>> \o q, S \cup {p})
  <1> DEFINE r == <<p>> \o q
  <1>1. /\ q \in Seq(Page) /\ Len(q) \in Nat /\ DOMAIN q = 1 .. Len(q)
        /\ \A i, j \in 1 .. Len(q) : q[i] = q[j] => i = j
        /\ S = {q[i] : i \in 1 .. Len(q)}
    BY LenProperties DEF Lists, ToSet, IsInjective
  <1>2. <<p>> \in Seq(Page) /\ Len(<<p>>) = 1 /\ <<p>>[1] = p
    OBVIOUS
  <1>3. /\ r \in Seq(Page) /\ Len(r) = 1 + Len(q)
        /\ \A i \in 1 .. 1 + Len(q) : r[i] = IF i <= 1 THEN <<p>>[i] ELSE q[i - 1]
    BY <1>1, <1>2, ConcatProperties
  <1> HIDE DEF r
  <1>4. /\ DOMAIN r = 1 .. 1 + Len(q) /\ r[1] = p
        /\ \A i \in 2 .. 1 + Len(q) : i - 1 \in 1 .. Len(q) /\ r[i] = q[i - 1]
        /\ \A i \in 1 .. Len(q) : i + 1 \in 2 .. 1 + Len(q) /\ r[i + 1] = q[i]
    <2>1. DOMAIN r = 1 .. 1 + Len(q)
      BY <1>3, LenProperties
    <2>2. r[1] = p
      BY <1>1, <1>2, <1>3
    <2>3. \A i \in 2 .. 1 + Len(q) : i - 1 \in 1 .. Len(q) /\ r[i] = q[i - 1]
      BY <1>1, <1>3
    <2>4. ASSUME NEW i \in 1 .. Len(q) PROVE i + 1 \in 2 .. 1 + Len(q) /\ r[i + 1] = q[i]
      <3>1. i + 1 \in 2 .. 1 + Len(q) /\ (i + 1) - 1 = i
        BY <1>1
      <3>2. QED
        BY <2>3, <3>1
    <2>5. QED
      BY <2>1, <2>2, <2>3, <2>4
  <1>5. IsInjective(r)
    <2> SUFFICES ASSUME NEW i \in 1 .. 1 + Len(q), NEW j \in 1 .. 1 + Len(q), r[i] = r[j]
                 PROVE  i = j
      BY <1>4 DEF IsInjective
    <2>1. \A n \in 2 .. 1 + Len(q) : r[n] # p
      BY <1>1, <1>4
    <2>2. CASE i = 1 \/ j = 1
      BY <1>1, <1>4, <2>1, <2>2
    <2>3. CASE i \in 2 .. 1 + Len(q) /\ j \in 2 .. 1 + Len(q)
      <3>1. i - 1 = j - 1
        BY <1>1, <1>4, <2>3
      <3>2. QED
        BY <3>1
    <2>4. QED
      BY <1>1, <2>2, <2>3
  <1>6. ToSet(r) = S \cup {p}
    <2>1. ASSUME NEW i \in 1 .. 1 + Len(q) PROVE r[i] \in S \cup {p}
      <3>1. i = 1 \/ i \in 2 .. 1 + Len(q)
        BY <1>1
      <3>2. QED
        BY <1>1, <1>4, <3>1
    <2>2. ASSUME NEW x \in S \cup {p} PROVE \E i \in 1 .. 1 + Len(q) : r[i] = x
      <3>1. CASE x = p
        BY <1>1, <1>4, <3>1
      <3>2. CASE x \in S
        <4>1. PICK i \in 1 .. Len(q) : q[i] = x
          BY <1>1, <3>2
        <4>2. i + 1 \in 1 .. 1 + Len(q) /\ r[i + 1] = x
          BY <1>1, <1>4, <4>1
        <4>3. QED
          BY <4>2
      <3>3. QED
        BY <3>1, <3>2
    <2>3. ToSet(r) = {r[i] : i \in 1 .. 1 + Len(q)}
      BY <1>4 DEF ToSet
    <2>4. QED
      BY <2>1, <2>2, <2>3
  <1>7. QED
    BY <1>3, <1>5, <1>6 DEF Lists, r

LEMMA ListFacts ==
    ASSUME NEW q, NEW S, Lists(q, S)
    PROVE  /\ IsFiniteSet(S) /\ Cardinality(S) = Len(q) /\ Len(q) \in Nat
           /\ S \subseteq Page
           /\ q = <<>> <=> S = {}
           /\ q # <<>> => Head(q) \in S
  <1>1. /\ q \in Seq(Page) /\ Len(q) \in Nat /\ DOMAIN q = 1 .. Len(q)
        /\ q \in [1 .. Len(q) -> Page]
        /\ \A i, j \in 1 .. Len(q) : q[i] = q[j] => i = j
        /\ S = {q[i] : i \in 1 .. Len(q)}
    BY LenProperties DEF Lists, ToSet, IsInjective
  <1>2. S \subseteq Page
    BY <1>1
  <1>3. IsFiniteSet(1 .. Len(q)) /\ Cardinality(1 .. Len(q)) = Len(q)
    BY <1>1, FS_Interval
  <1>4. ExistsBijection(1 .. Len(q), S)
    <2>1. q \in [1 .. Len(q) -> S]
      BY <1>1
    <2>2. q \in Surjection(1 .. Len(q), S)
      BY <1>1, <2>1 DEF Surjection
    <2>3. q \in Injection(1 .. Len(q), S)
      BY <1>1, <2>1 DEF Injection, IsInjective
    <2>4. QED
      BY <2>2, <2>3 DEF ExistsBijection, Bijection
  <1>5. IsFiniteSet(S) /\ Cardinality(S) = Len(q)
    BY <1>3, <1>4, FS_Bijection
  <1>6. q = <<>> <=> Len(q) = 0
    BY <1>1, EmptySeq
  <1>7. Len(q) = 0 <=> S = {}
    BY <1>5, FS_EmptySet
  <1>8. ASSUME q # <<>> PROVE Head(q) \in S
    <2>1. 1 \in 1 .. Len(q) /\ Head(q) = q[1]
      BY <1>1, <1>6, <1>8
    <2>2. QED
      BY <1>1, <2>1
  <1>9. QED
    BY <1>1, <1>2, <1>5, <1>6, <1>7, <1>8

-----------------------------------------------------------------------------
(* The free list of a slab.                                                *)

\* w is the way along the links from slab->free: through every object of F
\* once, and then to the end.
Walks(s, F, w) ==
    LET m == Cardinality(F) IN
    /\ w \in [0 .. m -> Int]
    /\ w[0] = s.free /\ w[m] = BUFCTL_END
    /\ \A k \in 0 .. m - 1 : w[k] \in F /\ w[k + 1] = s.bufctl[w[k]]
    /\ \A k, l \in 0 .. m - 1 : w[k] = w[l] => k = l
    /\ \A x \in F : \E k \in 0 .. m - 1 : w[k] = x

\* A slab of n objects, of which those in U are handed out.
Exact(s, n, U) ==
    /\ s \in SlabRec /\ n \in Counts \cup {RootCnt} /\ U \subseteq 0 .. n - 1
    /\ s.bufctl \in [0 .. n - 1 -> ObjNr \cup {BUFCTL_END}]
    /\ s.inuse = Cardinality(U)
    /\ \E w : Walks(s, (0 .. n - 1) \ U, w)

LEMMA Sizes ==
    ASSUME NEW n \in Counts \cup {RootCnt}
    PROVE  /\ n \in Nat \ {0} /\ 0 .. n - 1 \subseteq ObjNr
           /\ [0 .. n - 1 -> ObjNr \cup {BUFCTL_END}] \subseteq
                UNION {[0 .. k - 1 -> ObjNr \cup {BUFCTL_END}]
                            : k \in Counts \cup {RootCnt}}
           /\ IsFiniteSet(0 .. n - 1) /\ Cardinality(0 .. n - 1) = n
  <1>1. n \in Nat \ {0}
    BY SlabAssumption
  <1>2. IsFiniteSet(0 .. n - 1) /\ Cardinality(0 .. n - 1) = n
    BY <1>1, FS_Interval
  <1>3. 0 .. n - 1 \subseteq ObjNr
    BY DEF ObjNr
  <1>4. QED
    BY <1>1, <1>2, <1>3

\* What inuse says of a slab.
LEMMA Counted ==
    ASSUME NEW s, NEW n, NEW U, Exact(s, n, U)
    PROVE  /\ IsFiniteSet(U) /\ IsFiniteSet((0 .. n - 1) \ U)
           /\ Cardinality((0 .. n - 1) \ U) = n - s.inuse
           /\ s.inuse \in 0 .. n /\ n \in Nat \ {0}
           /\ s.inuse = 0 <=> U = {}
           /\ s.inuse = n <=> U = 0 .. n - 1
           /\ s.free = BUFCTL_END <=> U = 0 .. n - 1
           /\ s.free # BUFCTL_END => s.free \in (0 .. n - 1) \ U
  <1> DEFINE N == 0 .. n - 1
             F == N \ U
  <1>1. /\ n \in Nat \ {0} /\ IsFiniteSet(N) /\ Cardinality(N) = n
        /\ U \subseteq N /\ s.inuse = Cardinality(U)
    BY Sizes DEF Exact
  <1>2. PICK w : Walks(s, F, w)
    BY DEF Exact
  <1> HIDE DEF N
  <1>3. IsFiniteSet(U) /\ Cardinality(U) \in Nat /\ Cardinality(U) <= n
        /\ (Cardinality(U) = n => U = N)
    BY <1>1, FS_Subset, FS_CardinalityType
  <1>4. IsFiniteSet(F) /\ Cardinality(F) = n - s.inuse
    <2>1. N \cap U = U
      BY <1>1
    <2>2. /\ IsFiniteSet(N \ U)
          /\ Cardinality(N \ U) = Cardinality(N) - Cardinality(N \cap U)
      BY <1>1, FS_Difference
    <2>3. QED
      BY <1>1, <2>1, <2>2
  <1>5. U = {} <=> s.inuse = 0
    BY <1>1, <1>3, FS_EmptySet
  <1>6. U = N <=> s.inuse = n
    BY <1>1, <1>3
  <1> HIDE DEF F
  <1>7. s.free = BUFCTL_END <=> U = N
    <2>1. CASE U = N
      <3>1. Cardinality(F) = 0
        BY <1>1, <1>4, <1>6, <2>1
      <3>2. QED
        BY <1>2, <2>1, <3>1 DEF Walks
    <2>2. CASE U # N
      <3>1. 0 \in 0 .. Cardinality(F) - 1
        BY <1>1, <1>3, <1>4, <1>6, <2>2
      <3>2. s.free \in F
        BY <1>2, <3>1 DEF Walks
      <3>3. QED
        BY <2>2, <3>2 DEF F, N, BUFCTL_END
    <2>3. QED
      BY <2>1, <2>2
  <1>8. ASSUME s.free # BUFCTL_END PROVE s.free \in F
    <2>1. 0 \in 0 .. Cardinality(F) - 1
      BY <1>1, <1>3, <1>4, <1>6, <1>7, <1>8
    <2>2. QED
      BY <1>2, <2>1 DEF Walks
  <1>9. QED
    BY <1>1, <1>3, <1>4, <1>5, <1>6, <1>7, <1>8 DEF F, N

\* _slab_alloc takes the first object of the way.
LEMMA TakenExact ==
    ASSUME NEW s, NEW n, NEW U, Exact(s, n, U), s.inuse # n
    PROVE  /\ s.free \in (0 .. n - 1) \ U
           /\ Exact(Taken(s), n, U \cup {s.free})
           /\ Taken(s).cache = s.cache
  <1> DEFINE F == (0 .. n - 1) \ U
             x == s.free
             t == Taken(s)
             m == Cardinality(F)
  <1>1. /\ n \in Nat \ {0} /\ IsFiniteSet(U) /\ IsFiniteSet(F) /\ m = n - s.inuse
        /\ s.inuse \in 0 .. n /\ s.inuse = Cardinality(U)
        /\ U \subseteq 0 .. n - 1
        /\ x \in F
    BY Counted DEF Exact
  <1>2. PICK w : Walks(s, F, w)
    BY DEF Exact
  <1>3. /\ s \in SlabRec /\ n \in Counts \cup {RootCnt}
        /\ s.bufctl \in [0 .. n - 1 -> ObjNr \cup {BUFCTL_END}]
    BY DEF Exact
  <1>4. x \in 0 .. n - 1 /\ s.bufctl[x] \in ObjNr \cup {BUFCTL_END}
    BY <1>1, <1>3
  <1>5. /\ t \in SlabRec /\ t.cache = s.cache /\ t.bufctl = s.bufctl
        /\ t.free = s.bufctl[x] /\ t.inuse = s.inuse + 1
    <2> PICK B : SlabRec = [cache : Cache, inuse : Nat,
                            free : ObjNr \cup {BUFCTL_END}, bufctl : B]
      BY DEF SlabRec
    <2> PICK y, u : y = s.bufctl[x] /\ u = s.inuse + 1
      OBVIOUS
    <2>1. t = [s EXCEPT !.free = y, !.inuse = u]
      BY <1>3 DEF Taken
    <2>2. y \in ObjNr \cup {BUFCTL_END} /\ u \in Nat
      BY <1>3, <1>4
    <2> HIDE DEF t, x
    <2>3. t \in SlabRec /\ t.cache = s.cache /\ t.bufctl = s.bufctl
          /\ t.free = y /\ t.inuse = u
      BY <1>3, <2>1, <2>2
    <2>4. QED
      BY <2>3
  <1>6. Cardinality(U \cup {x}) = s.inuse + 1
    BY <1>1, FS_AddElement
  <1>7. /\ IsFiniteSet(F \ {x}) /\ Cardinality(F \ {x}) = m - 1
    BY <1>1, FS_RemoveElement
  <1>8. (0 .. n - 1) \ (U \cup {x}) = F \ {x}
    OBVIOUS
  <1> DEFINE v == [k \in 0 .. m - 1 |-> w[k + 1]]
  <1>9. m \in Nat \ {0}
    BY <1>1
  <1> HIDE DEF F, x, t, m
  <1>10. /\ w \in [0 .. m -> Int] /\ w[0] = x /\ w[m] = BUFCTL_END
         /\ \A k \in 0 .. m - 1 : w[k] \in F /\ w[k + 1] = s.bufctl[w[k]]
         /\ \A k, l \in 0 .. m - 1 : w[k] = w[l] => k = l
         /\ \A y \in F : \E k \in 0 .. m - 1 : w[k] = y
    BY <1>2 DEF Walks, x, m
  <1>11. Walks(t, F \ {x}, v)
    <2>1. v \in [0 .. m - 1 -> Int] /\ v[0] = s.bufctl[x] /\ v[m - 1] = BUFCTL_END
      <3>1. \A k \in 0 .. m - 1 : k + 1 \in 0 .. m
        BY <1>9
      <3>2. v[0] = w[0 + 1] /\ v[m - 1] = w[(m - 1) + 1] /\ 0 \in 0 .. m - 1
        BY <1>9
      <3>3. w[0 + 1] = s.bufctl[w[0]] /\ (m - 1) + 1 = m
        BY <1>9, <1>10
      <3>4. QED
        BY <1>10, <3>1, <3>2, <3>3
    <2>2. ASSUME NEW k \in 0 .. (m - 1) - 1
          PROVE  v[k] \in F \ {x} /\ v[k + 1] = s.bufctl[v[k]]
      <3>1. k + 1 \in 0 .. m - 1 /\ k \in 0 .. m - 1 /\ k + 1 # 0
        BY <1>9
      <3>2. v[k] = w[k + 1] /\ v[k + 1] = w[(k + 1) + 1]
        BY <3>1
      <3>3. w[k + 1] \in F /\ w[(k + 1) + 1] = s.bufctl[w[k + 1]] /\ w[k + 1] # w[0]
        BY <1>9, <1>10, <3>1
      <3>4. QED
        BY <1>10, <3>2, <3>3
    <2>3. ASSUME NEW k \in 0 .. (m - 1) - 1, NEW l \in 0 .. (m - 1) - 1, v[k] = v[l]
          PROVE  k = l
      <3>1. k + 1 \in 0 .. m - 1 /\ l + 1 \in 0 .. m - 1 /\ w[k + 1] = w[l + 1]
        BY <1>9, <2>3
      <3>2. k + 1 = l + 1
        BY <1>10, <3>1
      <3>3. QED
        BY <3>2
    <2>4. ASSUME NEW y \in F \ {x} PROVE \E k \in 0 .. (m - 1) - 1 : v[k] = y
      <3>1. PICK k \in 0 .. m - 1 : w[k] = y
        BY <1>10
      <3>2. k # 0
        BY <1>10, <3>1
      <3>3. k - 1 \in 0 .. (m - 1) - 1 /\ k - 1 \in 0 .. m - 1 /\ (k - 1) + 1 = k
        BY <1>9, <3>2
      <3>4. v[k - 1] = y
        BY <3>1, <3>3
      <3>5. QED
        BY <3>3, <3>4
    <2> HIDE DEF v
    <2>5. QED
      BY <1>5, <1>7, <2>1, <2>2, <2>3, <2>4 DEF Walks
  <1>12. Exact(t, n, U \cup {x})
    <2>1. Walks(t, (0 .. n - 1) \ (U \cup {x}), v)
      BY <1>8, <1>11
    <2>2. QED
      BY <1>1, <1>3, <1>4, <1>5, <1>6, <2>1 DEF Exact
  <1>13. QED
    BY <1>1, <1>5, <1>12 DEF F, x, t

\* _slab_free puts an object that was handed out in front of the way.
LEMMA ReturnedExact ==
    ASSUME NEW s, NEW n, NEW U, Exact(s, n, U), NEW i \in U
    PROVE  /\ Exact(Returned(s, i), n, U \ {i})
           /\ Returned(s, i).cache = s.cache
  <1> DEFINE F == (0 .. n - 1) \ U
             t == Returned(s, i)
             m == Cardinality(F)
  <1>1. /\ n \in Nat \ {0} /\ IsFiniteSet(U) /\ IsFiniteSet(F) /\ m = n - s.inuse
        /\ s.inuse \in 1 .. n /\ s.inuse = Cardinality(U)
        /\ U \subseteq 0 .. n - 1 /\ i \in 0 .. n - 1 /\ i \notin F
    <2>1. U # {} /\ U \subseteq 0 .. n - 1 /\ s.inuse = Cardinality(U)
      BY DEF Exact
    <2>2. /\ n \in Nat \ {0} /\ IsFiniteSet(U) /\ IsFiniteSet(F) /\ m = n - s.inuse
          /\ s.inuse \in 0 .. n /\ (s.inuse = 0 <=> U = {})
      BY Counted
    <2> HIDE DEF m
    <2>3. QED
      BY <2>1, <2>2
  <1>2. PICK w : Walks(s, F, w)
    BY DEF Exact
  <1>3. /\ s \in SlabRec /\ n \in Counts \cup {RootCnt}
        /\ s.bufctl \in [0 .. n - 1 -> ObjNr \cup {BUFCTL_END}]
        /\ s.free \in ObjNr \cup {BUFCTL_END} /\ i \in ObjNr
    BY <1>1, Sizes DEF Exact, SlabRec
  <1>4. /\ t.cache = s.cache /\ t.bufctl = [s.bufctl EXCEPT ![i] = s.free]
        /\ t.free = i /\ t.inuse = s.inuse - 1
    BY <1>3 DEF Returned, SlabRec
  <1>5. t.bufctl \in [0 .. n - 1 -> ObjNr \cup {BUFCTL_END}]
    BY <1>1, <1>3, <1>4
  <1>6. t \in SlabRec
    <2> PICK B : SlabRec = [cache : Cache, inuse : Nat,
                            free : ObjNr \cup {BUFCTL_END}, bufctl : B]
                 /\ [0 .. n - 1 -> ObjNr \cup {BUFCTL_END}] \subseteq B
      BY <1>3, Sizes DEF SlabRec
    <2>1. t.bufctl \in B /\ t.inuse \in Nat /\ t.free \in ObjNr
      BY <1>1, <1>3, <1>4, <1>5
    <2> PICK b : b = t.bufctl
      OBVIOUS
    <2>2. t = [s EXCEPT !.bufctl = b, !.free = i, !.inuse = s.inuse - 1]
      BY <1>3, <1>4 DEF Returned
    <2> HIDE DEF t
    <2>3. QED
      BY <1>3, <1>4, <2>1, <2>2
  <1>7. Cardinality(U \ {i}) = s.inuse - 1
    BY <1>1, FS_RemoveElement
  <1>8. IsFiniteSet(F \cup {i}) /\ Cardinality(F \cup {i}) = m + 1
    BY <1>1, FS_AddElement
  <1>9. (0 .. n - 1) \ (U \ {i}) = F \cup {i}
    BY <1>1
  <1>10. m \in Nat
    BY <1>1
  <1> DEFINE v == [k \in 0 .. m + 1 |-> IF k = 0 THEN i ELSE w[k - 1]]
  <1>11. /\ \A y \in F : t.bufctl[y] = s.bufctl[y]
         /\ t.bufctl[i] = s.free
    BY <1>1, <1>3, <1>4
  <1>12. i \in Int
    BY <1>1
  <1> HIDE DEF F, t, m
  <1>13. /\ w \in [0 .. m -> Int] /\ w[0] = s.free /\ w[m] = BUFCTL_END
         /\ \A k \in 0 .. m - 1 : w[k] \in F /\ w[k + 1] = s.bufctl[w[k]]
         /\ \A k, l \in 0 .. m - 1 : w[k] = w[l] => k = l
         /\ \A y \in F : \E k \in 0 .. m - 1 : w[k] = y
    BY <1>2 DEF Walks, m
  <1>14. Walks(t, F \cup {i}, v)
    <2>1. /\ v[0] = i /\ \A k \in 0 .. m : k + 1 \in 0 .. m + 1 /\ v[k + 1] = w[k]
          /\ \A k \in 0 .. (m + 1) - 1 : k \in 0 .. m /\ (k # 0 => k - 1 \in 0 .. m - 1)
      <3>1. v[0] = i
        BY <1>10
      <3>2. ASSUME NEW k \in 0 .. m PROVE k + 1 \in 0 .. m + 1 /\ v[k + 1] = w[k]
        <4>1. k + 1 \in 0 .. m + 1 /\ k + 1 # 0 /\ (k + 1) - 1 = k
          BY <1>10
        <4>2. QED
          BY <4>1
      <3>3. QED
        BY <1>10, <3>1, <3>2
    <2>2. v \in [0 .. m + 1 -> Int] /\ v[m + 1] = BUFCTL_END
      <3>1. \A k \in 0 .. m + 1 : k = 0 \/ k - 1 \in 0 .. m
        BY <1>10
      <3>2. v \in [0 .. m + 1 -> Int]
        BY <1>12, <1>13, <3>1
      <3>3. m \in 0 .. m
        BY <1>10
      <3>4. QED
        BY <1>13, <2>1, <3>2, <3>3
    <2> HIDE DEF v
    <2>3. \A k \in 0 .. (m + 1) - 1 : k # 0 => v[k] = w[k - 1]
      <3> TAKE k \in 0 .. (m + 1) - 1
      <3>1. k # 0 => k - 1 \in 0 .. m /\ (k - 1) + 1 = k
        BY <1>10
      <3>2. QED
        BY <2>1, <3>1
    <2>4. ASSUME NEW k \in 0 .. (m + 1) - 1
          PROVE  v[k] \in F \cup {i} /\ v[k + 1] = t.bufctl[v[k]]
      <3>1. CASE k = 0
        <4>1. v[0 + 1] = w[0] /\ v[0] = i
          BY <1>10, <2>1
        <4>2. QED
          BY <1>11, <1>13, <3>1, <4>1
      <3>2. CASE k # 0
        <4>1. k - 1 \in 0 .. m - 1 /\ (k - 1) + 1 = k /\ k \in 0 .. m
          BY <1>10, <3>2
        <4>2. v[k] = w[k - 1] /\ v[k + 1] = w[k]
          BY <2>1, <2>3, <3>2, <4>1
        <4>3. w[k - 1] \in F /\ w[(k - 1) + 1] = s.bufctl[w[k - 1]]
          BY <1>13, <4>1
        <4>4. QED
          BY <1>11, <4>1, <4>2, <4>3
      <3>3. QED
        BY <3>1, <3>2
    <2>5. ASSUME NEW k \in 0 .. (m + 1) - 1, NEW l \in 0 .. (m + 1) - 1, v[k] = v[l]
          PROVE  k = l
      <3>1. \A j \in 0 .. (m + 1) - 1 : j # 0 => v[j] # i
        <4> SUFFICES ASSUME NEW j \in 0 .. (m + 1) - 1, j # 0 PROVE v[j] # i
          OBVIOUS
        <4>1. j - 1 \in 0 .. m - 1 /\ v[j] = w[j - 1]
          BY <2>1, <2>3
        <4>2. w[j - 1] \in F
          BY <1>13, <4>1
        <4>3. QED
          BY <1>1, <4>1, <4>2
      <3>2. CASE k = 0 \/ l = 0
        BY <2>1, <2>5, <3>1, <3>2
      <3>3. CASE k # 0 /\ l # 0
        <4>1. k - 1 \in 0 .. m - 1 /\ l - 1 \in 0 .. m - 1 /\ w[k - 1] = w[l - 1]
          BY <2>1, <2>3, <2>5, <3>3
        <4>2. k - 1 = l - 1
          BY <1>13, <4>1
        <4>3. QED
          BY <4>2
      <3>4. QED
        BY <3>2, <3>3
    <2>6. ASSUME NEW y \in F \cup {i} PROVE \E k \in 0 .. (m + 1) - 1 : v[k] = y
      <3>1. CASE y = i
        BY <1>10, <2>1, <3>1
      <3>2. CASE y \in F
        <4>1. PICK k \in 0 .. m - 1 : w[k] = y
          BY <1>13, <3>2
        <4>2. k \in 0 .. m /\ k + 1 \in 0 .. (m + 1) - 1
          BY <1>10
        <4>3. v[k + 1] = y
          BY <2>1, <4>1, <4>2
        <4>4. QED
          BY <4>2, <4>3
      <3>3. QED
        BY <3>1, <3>2
    <2>7. QED
      BY <1>4, <1>8, <2>1, <2>2, <2>4, <2>5, <2>6 DEF Walks
  <1>15. Exact(t, n, U \ {i})
    <2>1. Walks(t, (0 .. n - 1) \ (U \ {i}), v)
      BY <1>9, <1>14
    <2>2. U \ {i} \subseteq 0 .. n - 1
      BY <1>1
    <2>3. QED
      BY <1>3, <1>4, <1>5, <1>6, <1>7, <2>1, <2>2 DEF Exact
  <1>16. QED
    BY <1>4, <1>15 DEF t

\* _create_slab links the objects in their order.
LEMMA FreshExact ==
    ASSUME NEW c \in Cache, cache[c].objcnt \in Counts \cup {RootCnt}
    PROVE  /\ Exact(FreshSlab(c), cache[c].objcnt, {})
           /\ FreshSlab(c).cache = c
  <1> PICK n : n = cache[c].objcnt
    OBVIOUS
  <1> DEFINE s == FreshSlab(c)
             b == [i \in 0 .. n - 1 |-> IF i = n - 1 THEN BUFCTL_END ELSE i + 1]
             w == [k \in 0 .. n |-> IF k = n THEN BUFCTL_END ELSE k]
  <1>1. /\ n \in Nat \ {0} /\ 0 .. n - 1 \subseteq ObjNr
        /\ IsFiniteSet(0 .. n - 1) /\ Cardinality(0 .. n - 1) = n
        /\ n \in Counts \cup {RootCnt}
    BY Sizes
  <1>2. s = [cache |-> c, inuse |-> 0, free |-> 0, bufctl |-> b]
    BY DEF FreshSlab
  <1>3. b \in [0 .. n - 1 -> ObjNr \cup {BUFCTL_END}]
    <2>1. \A i \in 0 .. n - 1 : i # n - 1 => i + 1 \in 0 .. n - 1
      BY <1>1
    <2>2. QED
      BY <1>1, <2>1
  <1>4. s \in SlabRec
    <2>1. b \in UNION {[0 .. k - 1 -> ObjNr \cup {BUFCTL_END}]
                            : k \in Counts \cup {RootCnt}}
      BY <1>1, <1>3, Sizes
    <2>2. 0 \in ObjNr /\ 0 \in Nat
      BY <1>1
    <2> HIDE DEF b
    <2>3. QED
      BY <1>2, <2>1, <2>2 DEF SlabRec
  <1>5. Walks(s, 0 .. n - 1, w)
    <2>1. \A k \in 0 .. n - 1 : w[k] = k /\ w[k + 1] = b[k]
      <3> TAKE k \in 0 .. n - 1
      <3>1. k \in 0 .. n /\ k + 1 \in 0 .. n /\ k # n /\ (k + 1 = n <=> k = n - 1)
        BY <1>1
      <3>2. QED
        BY <3>1
    <2>2. w \in [0 .. n -> Int] /\ w[0] = 0 /\ w[n] = BUFCTL_END
      BY <1>1 DEF BUFCTL_END
    <2> HIDE DEF b, w
    <2>3. QED
      BY <1>1, <1>2, <2>1, <2>2 DEF Walks
  <1>6. QED
    <2>1. (0 .. n - 1) \ {} = 0 .. n - 1 /\ Cardinality({}) = 0
      BY FS_EmptySet
    <2> HIDE DEF b, w
    <2>2. Exact(s, n, {})
      BY <1>1, <1>2, <1>3, <1>4, <1>5, <2>1 DEF Exact
    <2>3. QED
      BY <1>2, <2>2

\* The least number principle.
LEMMA Smallest ==
    ASSUME NEW S \in SUBSET Nat, S # {}
    PROVE  \E m \in S : \A k \in S : m <= k
  <1> DEFINE R == OpToRel(<, Nat)
  <1>1. IsWellFoundedOn(R, Nat)
    BY NatLessThanWellFounded
  <1>2. \A x, y \in Nat : x < y => <<x, y>> \in R
    BY DEF OpToRel
  <1> HIDE DEF R
  <1>3. PICK m \in S : \A k \in S : <<k, m>> \notin R
    BY <1>1, WFMin
  <1>4. \A k \in S : ~(k < m)
    BY <1>2, <1>3
  <1>5. QED
    BY <1>4

\* Following the links is the way.
LEMMA LinkIs ==
    ASSUME NEW p \in Page, NEW F \in SUBSET Nat, NEW w, Walks(slab[p], F, w),
           Cardinality(F) \in Nat, NEW n \in 0 .. Cardinality(F)
    PROVE  Link(p, n) = w[n]
  <1> PICK s, m : s = slab[p] /\ m = Cardinality(F)
    OBVIOUS
  <1>1. /\ w[0] = s.free /\ m \in Nat /\ n \in 0 .. m
        /\ \A k \in 0 .. m - 1 : w[k] # BUFCTL_END /\ w[k + 1] = s.bufctl[w[k]]
    BY DEF Walks, BUFCTL_END
  <1> DEFINE Rec(f) == [k \in 0 .. n |-> IF k = 0 THEN s.free
                                ELSE IF f[k - 1] = BUFCTL_END THEN BUFCTL_END
                                ELSE s.bufctl[f[k - 1]]]
             g == [k \in 0 .. n |-> w[k]]
             walk == CHOOSE f : f = Rec(f)
  <1>2. Link(p, n) = walk[n]
    BY DEF Link
  <1>3. ASSUME NEW k \in 0 .. n, k # 0
        PROVE  k - 1 \in 0 .. n /\ k - 1 \in 0 .. m - 1 /\ (k - 1) + 1 = k
    BY <1>1, <1>3
  <1>4. g = Rec(g)
    <2> SUFFICES ASSUME NEW k \in 0 .. n
                 PROVE  g[k] = IF k = 0 THEN s.free
                                ELSE IF g[k - 1] = BUFCTL_END THEN BUFCTL_END
                                ELSE s.bufctl[g[k - 1]]
      OBVIOUS
    <2>1. CASE k = 0
      BY <1>1, <2>1
    <2>2. CASE k # 0
      <3>1. g[k - 1] = w[k - 1] /\ w[k - 1] # BUFCTL_END /\ w[k] = s.bufctl[w[k - 1]]
        BY <1>1, <1>3, <2>2
      <3>2. QED
        BY <2>2, <3>1
    <2>3. QED
      BY <2>1, <2>2
  <1>5. walk = Rec(walk)
    BY <1>4
  <1> HIDE DEF walk
  <1>6. SUFFICES ASSUME walk[n] # w[n] PROVE FALSE
    BY <1>2
  <1> DEFINE S == {k \in 0 .. n : walk[k] # w[k]}
  <1>7. S \in SUBSET Nat /\ n \in S
    BY <1>1, <1>6
  <1>8. PICK k \in S : \A l \in S : k <= l
    BY <1>7, Smallest
  <1>9. k \in 0 .. n /\ walk[k] # w[k]
    OBVIOUS
  <1>10. walk[k] = IF k = 0 THEN s.free
                   ELSE IF walk[k - 1] = BUFCTL_END THEN BUFCTL_END
                   ELSE s.bufctl[walk[k - 1]]
    BY <1>5, <1>9
  <1>11. k # 0
    BY <1>1, <1>9, <1>10
  <1>12. k - 1 \in 0 .. n /\ k - 1 \in 0 .. m - 1 /\ (k - 1) + 1 = k
    BY <1>3, <1>9, <1>11
  <1>13. k - 1 \notin S
    BY <1>7, <1>8, <1>12
  <1>14. walk[k - 1] = w[k - 1]
    BY <1>12, <1>13
  <1>15. QED
    BY <1>1, <1>9, <1>10, <1>11, <1>12, <1>14

-----------------------------------------------------------------------------
(* The inductive invariant.                                                *)

UsedIn(p, n, h) == {i \in 0 .. n - 1 : <<p, i>> \in h}

\* The slab of page p belongs to a cache on the chain, and its free list and
\* its count say what callers hold.
SlabRight(p, sl, ca, ch, h) ==
    /\ sl[p].cache \in ch
    /\ Exact(sl[p], ca[sl[p].cache].objcnt, UsedIn(p, ca[sl[p].cache].objcnt, h))

MineIn(c, sl) == {q \in Page : sl[q] # NoSlab /\ sl[q].cache = c}

\* The three lists of the cache c, which is r.
ListsIn(c, sl, r) ==
    /\ Lists(r.free, {q \in MineIn(c, sl) : sl[q].inuse = 0})
    /\ Lists(r.full, {q \in MineIn(c, sl) : sl[q].inuse = r.objcnt})
    /\ Lists(r.partial, {q \in MineIn(c, sl) : sl[q].inuse \notin {0, r.objcnt}})

SlabsRight ==
    \A p \in Page : slab[p] # NoSlab => SlabRight(p, slab, cache, cache_chain, held)

ListsRight == \A c \in cache_chain : ListsIn(c, slab, cache[c])

\* An object in use lies in a slab, and the caches on the chain are objects in
\* use of slabs of Root.
HeldExist ==
    \A o \in held : \E p \in Page : \E i \in Nat :
        /\ o = <<p, i>> /\ slab[p] # NoSlab
        /\ i < cache[slab[p].cache].objcnt

Chained ==
    /\ cache_chain \subseteq Cache /\ Root \in cache_chain
    /\ cache[Root].objcnt = RootCnt
    /\ \A c \in cache_chain : cache[c].objcnt \in Counts \cup {RootCnt}
    /\ \A c \in cache_chain \ {Root} : c \in held /\ slab[PageOf(c)].cache = Root

\* The loop of kmem_cache_destroy runs on a cache without objects in use.
Destroying ==
    destroying # NoCache =>
        /\ destroying \in cache_chain \ {Root}
        /\ cache[destroying].partial = <<>> /\ cache[destroying].full = <<>>

Owned == halted = "no" => runs = {Whole(p) : p \in {q \in Page : slab[q] # NoSlab}}

IInv ==
    /\ TypeOK /\ SlabsRight /\ ListsRight /\ HeldExist /\ Chained
    /\ Destroying /\ Owned

LEMMA IInvFreeList == IInv => FreeListExact
  <1> SUFFICES ASSUME IInv, NEW p \in Page, slab[p] # NoSlab
               PROVE  LET n == cache[slab[p].cache].objcnt
                          inUse == {i \in 0 .. n - 1 : <<p, i>> \in held}
                      IN /\ slab[p].inuse = Cardinality(inUse)
                         /\ {Link(p, k) : k \in 0 .. n - slab[p].inuse - 1}
                                = (0 .. n - 1) \ inUse
                         /\ Link(p, n - slab[p].inuse) = BUFCTL_END
    BY DEF FreeListExact
  <1> PICK n, U : n = cache[slab[p].cache].objcnt /\ U = UsedIn(p, n, held)
    OBVIOUS
  <1>1. Exact(slab[p], n, U) /\ U = {i \in 0 .. n - 1 : <<p, i>> \in held}
    BY DEF IInv, SlabsRight, SlabRight, UsedIn
  <1> PICK F, m : F = (0 .. n - 1) \ U /\ m = n - slab[p].inuse
    OBVIOUS
  <1>2. /\ slab[p].inuse = Cardinality(U) /\ Cardinality(F) = m /\ m \in Nat
        /\ F \in SUBSET Nat /\ n \in Nat
    <2> PICK s : s = slab[p]
      OBVIOUS
    <2>1. Exact(s, n, U)
      BY <1>1
    <2>2. /\ Cardinality((0 .. n - 1) \ U) = n - s.inuse
          /\ s.inuse \in 0 .. n /\ n \in Nat \ {0}
      BY ONLY <2>1, Counted
    <2>3. s.inuse = Cardinality(U)
      BY <2>1 DEF Exact
    <2>4. QED
      BY <2>2, <2>3
  <1>3. PICK w : Walks(slab[p], F, w)
    BY <1>1 DEF Exact
  <1>4. \A k \in 0 .. m : Link(p, k) = w[k]
    BY <1>2, <1>3, LinkIs
  <1>5. /\ w[m] = BUFCTL_END
        /\ \A k \in 0 .. m - 1 : w[k] \in F
        /\ \A x \in F : \E k \in 0 .. m - 1 : w[k] = x
    BY <1>2, <1>3 DEF Walks
  <1>6. {Link(p, k) : k \in 0 .. m - 1} = F
    <2>1. \A k \in 0 .. m - 1 : Link(p, k) = w[k]
      BY <1>2, <1>4
    <2>2. QED
      BY <1>5, <2>1
  <1>7. Link(p, m) = BUFCTL_END
    BY <1>2, <1>4, <1>5
  <1>8. QED
    BY <1>1, <1>2, <1>6, <1>7

LEMMA IInvOnRightList == IInv => OnRightList
  <1> SUFFICES ASSUME IInv, NEW c \in cache_chain
               PROVE  LET r == cache[c]
                          mine == {p \in Page : slab[p] # NoSlab /\ slab[p].cache = c}
                          empty == {p \in mine : slab[p].inuse = 0}
                          fullUp == {p \in mine : slab[p].inuse = r.objcnt}
                      IN /\ ToSet(r.free) = empty
                         /\ ToSet(r.full) = fullUp
                         /\ ToSet(r.partial) = mine \ (empty \cup fullUp)
                         /\ Len(r.free) + Len(r.full) + Len(r.partial)
                                = Cardinality(mine)
    BY DEF OnRightList
  <1> DEFINE r == cache[c]
             M == MineIn(c, slab)
             E == {q \in M : slab[q].inuse = 0}
             U == {q \in M : slab[q].inuse = r.objcnt}
             P == {q \in M : slab[q].inuse \notin {0, r.objcnt}}
  <1>1. Lists(r.free, E) /\ Lists(r.full, U) /\ Lists(r.partial, P)
    BY DEF IInv, ListsRight, ListsIn
  <1>2. r.objcnt # 0
    BY SlabAssumption DEF IInv, Chained
  <1>3. /\ IsFiniteSet(E) /\ IsFiniteSet(U) /\ IsFiniteSet(P)
        /\ Cardinality(E) = Len(r.free) /\ Cardinality(U) = Len(r.full)
        /\ Cardinality(P) = Len(r.partial)
        /\ Len(r.free) \in Nat /\ Len(r.full) \in Nat /\ Len(r.partial) \in Nat
    BY <1>1, ListFacts
  <1>4. /\ E \cap U = {} /\ (E \cup U) \cap P = {} /\ M = (E \cup U) \cup P
        /\ P = M \ (E \cup U)
    BY <1>2
  <1>5. M = {p \in Page : slab[p] # NoSlab /\ slab[p].cache = c}
    BY DEF MineIn
  <1> PICK e, u, x : e = Len(r.free) /\ u = Len(r.full) /\ x = Len(r.partial)
    OBVIOUS
  <1> HIDE DEF E, U, P, M
  <1>6. IsFiniteSet(E \cup U) /\ Cardinality(E \cup U) = e + u
    <2>1. /\ IsFiniteSet(E \cup U)
          /\ Cardinality(E \cup U) = Cardinality(E) + Cardinality(U) - Cardinality(E \cap U)
      BY <1>3, FS_Union
    <2>2. Cardinality(E \cap U) = 0 /\ Cardinality(E) = e /\ Cardinality(U) = u
          /\ e \in Nat /\ u \in Nat
      BY <1>3, <1>4, FS_EmptySet
    <2>3. QED
      BY ONLY <2>1, <2>2
  <1>7. Cardinality(M) = Len(r.free) + Len(r.full) + Len(r.partial)
    <2>1. Cardinality((E \cup U) \cup P)
            = Cardinality(E \cup U) + Cardinality(P) - Cardinality((E \cup U) \cap P)
      BY <1>3, <1>6, FS_Union
    <2>2. Cardinality((E \cup U) \cap P) = 0 /\ Cardinality(P) = x
          /\ e \in Nat /\ u \in Nat /\ x \in Nat
      BY <1>3, <1>4, FS_EmptySet
    <2>3. Cardinality((E \cup U) \cup P) = e + u + x
      BY ONLY <1>6, <2>1, <2>2
    <2>4. QED
      BY <1>4, <2>3
  <1>8. ToSet(r.free) = E /\ ToSet(r.full) = U /\ ToSet(r.partial) = P
    BY <1>1 DEF Lists
  <1>9. QED
    BY <1>4, <1>5, <1>7, <1>8 DEF E, U

LEMMA IInvPagesOwned == IInv => PagesOwned
  <1> SUFFICES ASSUME IInv, halted = "no"
               PROVE  /\ runs = {Whole(p) : p \in {q \in Page : slab[q] # NoSlab}}
                      /\ \A o \in held : slab[PageOf(o)] # NoSlab
                      /\ \A p \in Page : slab[p] # NoSlab => slab[p].cache \in cache_chain
    BY DEF PagesOwned
  <1>1. \A o \in held : slab[PageOf(o)] # NoSlab
    BY DEF IInv, HeldExist, PageOf
  <1>2. QED
    BY <1>1 DEF IInv, Owned, SlabsRight, SlabRight

-----------------------------------------------------------------------------
(* The lists after a slab has changed.                                     *)

\* The slab of another cache.
LEMMA MineElsewhere ==
    ASSUME NEW sl \in [Page -> SlabRec \cup {NoSlab}], NEW c, NEW d, c # d,
           NEW p \in Page, NEW t \in SlabRec \cup {NoSlab},
           t # NoSlab => t.cache = c,
           sl[p] # NoSlab => sl[p].cache = c,
           NEW r, ListsIn(d, sl, r)
    PROVE  ListsIn(d, [sl EXCEPT ![p] = t], r)
  <1> DEFINE sm == [sl EXCEPT ![p] = t]
  <1>1. \A q \in Page : q # p => sm[q] = sl[q]
    OBVIOUS
  <1>2. sm[p] = t
    OBVIOUS
  <1> HIDE DEF sm
  <1>3. \A q \in MineIn(d, sl) : q # p /\ sm[q] = sl[q]
    BY <1>1 DEF MineIn
  <1>4. MineIn(d, sm) = MineIn(d, sl)
    BY <1>1, <1>2 DEF MineIn
  <1>5. /\ {q \in MineIn(d, sm) : sm[q].inuse = 0} = {q \in MineIn(d, sl) : sl[q].inuse = 0}
        /\ {q \in MineIn(d, sm) : sm[q].inuse = r.objcnt}
             = {q \in MineIn(d, sl) : sl[q].inuse = r.objcnt}
        /\ {q \in MineIn(d, sm) : sm[q].inuse \notin {0, r.objcnt}}
             = {q \in MineIn(d, sl) : sl[q].inuse \notin {0, r.objcnt}}
    BY <1>3, <1>4
  <1>6. ListsIn(d, sm, r)
    BY <1>5 DEF ListsIn
  <1>7. QED
    BY <1>6 DEF sm

LEMMA UnlinkedFields ==
    ASSUME NEW r \in CacheRec, NEW p
    PROVE  /\ Unlinked(r, p).objcnt = r.objcnt
           /\ Unlinked(r, p).partial = list_del(r.partial, p)
           /\ Unlinked(r, p).full = list_del(r.full, p)
           /\ Unlinked(r, p).free = list_del(r.free, p)
           /\ Unlinked(r, p) = [objcnt |-> r.objcnt, partial |-> list_del(r.partial, p),
                                full |-> list_del(r.full, p), free |-> list_del(r.free, p)]
  <1> PICK a, b, d : /\ a = list_del(r.partial, p) /\ b = list_del(r.full, p)
                     /\ d = list_del(r.free, p)
    OBVIOUS
  <1>1. Unlinked(r, p) = [r EXCEPT !.partial = a, !.full = b, !.free = d]
    BY DEF Unlinked
  <1> PICK S : S = Seq(Page)
    OBVIOUS
  <1>2. r \in [objcnt : Nat, partial : S, full : S, free : S]
    BY DEF CacheRec
  <1>3. [r EXCEPT !.partial = a, !.full = b, !.free = d]
            = [objcnt |-> r.objcnt, partial |-> a, full |-> b, free |-> d]
    <2>1. PICK o, x, y, z : r = [objcnt |-> o, partial |-> x, full |-> y, free |-> z]
      BY ONLY <1>2
    <2>2. PICK v : v = [r EXCEPT !.partial = a, !.full = b, !.free = d]
      OBVIOUS
    <2>3. /\ v.objcnt = o /\ v.partial = a /\ v.full = b /\ v.free = d
          /\ DOMAIN v = {"objcnt", "partial", "full", "free"}
      BY ONLY <2>1, <2>2
    <2>4. v = [objcnt |-> r.objcnt, partial |-> a, full |-> b, free |-> d]
      BY ONLY <2>1, <2>2, <2>3
    <2>5. QED
      BY <2>2, <2>4
  <1>4. QED
    BY <1>1, <1>3

\* A slab is taken out of its cache.
LEMMA UnlinkedRight ==
    ASSUME NEW sl \in [Page -> SlabRec \cup {NoSlab}], NEW c, NEW p \in Page,
           sl[p] # NoSlab => sl[p].cache = c,
           NEW r \in CacheRec, ListsIn(c, sl, r)
    PROVE  /\ Unlinked(r, p) \in CacheRec
           /\ ListsIn(c, [sl EXCEPT ![p] = NoSlab], Unlinked(r, p))
  <1> DEFINE sm == [sl EXCEPT ![p] = NoSlab]
             n == r.objcnt
             u == Unlinked(r, p)
             E == {q \in MineIn(c, sl) : sl[q].inuse = 0}
             U == {q \in MineIn(c, sl) : sl[q].inuse = n}
             P == {q \in MineIn(c, sl) : sl[q].inuse \notin {0, n}}
  <1>1. /\ u.objcnt = n /\ u.partial = list_del(r.partial, p)
        /\ u.full = list_del(r.full, p) /\ u.free = list_del(r.free, p)
        /\ u = [objcnt |-> r.objcnt, partial |-> list_del(r.partial, p),
                full |-> list_del(r.full, p), free |-> list_del(r.free, p)]
    BY UnlinkedFields
  <1>2. Lists(r.free, E) /\ Lists(r.full, U) /\ Lists(r.partial, P)
    BY DEF ListsIn
  <1>3. /\ {q \in MineIn(c, sm) : sm[q].inuse = 0} = E \ {p}
        /\ {q \in MineIn(c, sm) : sm[q].inuse = n} = U \ {p}
        /\ {q \in MineIn(c, sm) : sm[q].inuse \notin {0, n}} = P \ {p}
    BY DEF MineIn
  <1> HIDE DEF u, E, U, P, sm
  <1>4. Lists(u.free, E \ {p}) /\ Lists(u.full, U \ {p}) /\ Lists(u.partial, P \ {p})
    BY <1>1, <1>2, Deleted
  <1>5. n \in Nat
    BY DEF CacheRec
  <1>6. u \in CacheRec
    <2>1. u.free \in Seq(Page) /\ u.full \in Seq(Page) /\ u.partial \in Seq(Page)
      BY <1>4 DEF Lists
    <2>2. QED
      BY <1>1, <1>5, <2>1 DEF CacheRec
  <1>7. ListsIn(c, sm, u)
    BY <1>1, <1>3, <1>4 DEF ListsIn
  <1>8. QED
    BY <1>6, <1>7 DEF u, sm

\* A slab that has changed, or is new, is put in front of the list that its
\* count demands.
PutInFront(r, p, t) ==
    IF t.inuse = r.objcnt THEN [Unlinked(r, p) EXCEPT !.full = <<p>> \o @]
    ELSE IF t.inuse = 0 THEN [Unlinked(r, p) EXCEPT !.free = <<p>> \o @]
    ELSE [Unlinked(r, p) EXCEPT !.partial = <<p>> \o @]

\* The slab of page p, of the cache c or new, becomes t.
Replaced(c, p, t, sl, sm) ==
    /\ sl \in [Page -> SlabRec \cup {NoSlab}] /\ p \in Page
    /\ t \in SlabRec /\ t.cache = c /\ (sl[p] # NoSlab => sl[p].cache = c)
    /\ sm = [sl EXCEPT ![p] = t]

LEMMA RelistedRight ==
    ASSUME NEW c, NEW p, NEW t, NEW sl, NEW sm, Replaced(c, p, t, sl, sm),
           NEW r, r \in CacheRec, r.objcnt # 0, ListsIn(c, sl, r)
    PROVE  /\ PutInFront(r, p, t) \in CacheRec
           /\ PutInFront(r, p, t).objcnt = r.objcnt
           /\ ListsIn(c, sm, PutInFront(r, p, t))
  <1> PICK v : v = PutInFront(r, p, t)
    OBVIOUS
  <1>0. /\ sl \in [Page -> SlabRec \cup {NoSlab}] /\ p \in Page
        /\ t \in SlabRec /\ t.cache = c /\ (sl[p] # NoSlab => sl[p].cache = c)
        /\ sm = [sl EXCEPT ![p] = t]
    BY DEF Replaced
  <1> DEFINE n == r.objcnt
             u == Unlinked(r, p)
             E == {q \in MineIn(c, sl) : sl[q].inuse = 0}
             U == {q \in MineIn(c, sl) : sl[q].inuse = n}
             P == {q \in MineIn(c, sl) : sl[q].inuse \notin {0, n}}
             F == list_del(r.free, p)
             G == list_del(r.full, p)
             H == list_del(r.partial, p)
  <1>1. u = [objcnt |-> n, partial |-> H, full |-> G, free |-> F]
    BY UnlinkedFields
  <1>2. Lists(r.free, E) /\ Lists(r.full, U) /\ Lists(r.partial, P)
    BY DEF ListsIn
  <1>3. t # NoSlab /\ n \in Nat
    BY <1>0, NoSlabAssumption DEF CacheRec
  <1>4. /\ {q \in MineIn(c, sm) : sm[q].inuse = 0} =
                IF t.inuse = 0 THEN (E \ {p}) \cup {p} ELSE E \ {p}
        /\ {q \in MineIn(c, sm) : sm[q].inuse = n} =
                IF t.inuse = n THEN (U \ {p}) \cup {p} ELSE U \ {p}
        /\ {q \in MineIn(c, sm) : sm[q].inuse \notin {0, n}} =
                IF t.inuse \notin {0, n} THEN (P \ {p}) \cup {p} ELSE P \ {p}
    <2>1. \A k : {q \in MineIn(c, sm) : sm[q].inuse = k} =
                    LET A == {q \in MineIn(c, sl) : sl[q].inuse = k}
                    IN IF t.inuse = k THEN (A \ {p}) \cup {p} ELSE A \ {p}
      BY <1>0, <1>3 DEF MineIn
    <2>2. {q \in MineIn(c, sm) : sm[q].inuse \notin {0, n}} =
                IF t.inuse \notin {0, n} THEN (P \ {p}) \cup {p} ELSE P \ {p}
      BY <1>0, <1>3 DEF MineIn
    <2>3. QED
      BY <2>1, <2>2
  <1> HIDE DEF u, E, U, P, F, G, H
  <1>5. Lists(F, E \ {p}) /\ Lists(G, U \ {p}) /\ Lists(H, P \ {p})
    BY <1>2, Deleted DEF F, G, H
  <1>6. /\ Lists(<<p>> \o F, (E \ {p}) \cup {p})
        /\ Lists(<<p>> \o G, (U \ {p}) \cup {p})
        /\ Lists(<<p>> \o H, (P \ {p}) \cup {p})
    BY <1>0, <1>5, Added
  <1>7. /\ v.objcnt = n
        /\ v.full = IF t.inuse = n THEN <<p>> \o G ELSE G
        /\ v.free = IF t.inuse = 0 THEN <<p>> \o F ELSE F
        /\ v.partial = IF t.inuse \notin {0, n} THEN <<p>> \o H ELSE H
        /\ v = [objcnt |-> v.objcnt, partial |-> v.partial, full |-> v.full, free |-> v.free]
    <2>1. v = IF t.inuse = n THEN [u EXCEPT !.full = <<p>> \o @]
              ELSE IF t.inuse = 0 THEN [u EXCEPT !.free = <<p>> \o @]
              ELSE [u EXCEPT !.partial = <<p>> \o @]
      BY DEF u, PutInFront
    <2> PICK f, g, h, ff, gg, hh :
            /\ f = F /\ g = G /\ h = H
            /\ ff = <<p>> \o F /\ gg = <<p>> \o G /\ hh = <<p>> \o H
      OBVIOUS
    <2>2. u = [objcnt |-> n, partial |-> h, full |-> g, free |-> f]
      BY <1>1
    <2>3. v = IF t.inuse = n THEN [u EXCEPT !.full = gg]
              ELSE IF t.inuse = 0 THEN [u EXCEPT !.free = ff]
              ELSE [u EXCEPT !.partial = hh]
      BY <2>1, <2>2
    <2>4. v = IF t.inuse = n
              THEN [objcnt |-> n, partial |-> h, full |-> gg, free |-> f]
              ELSE IF t.inuse = 0
              THEN [objcnt |-> n, partial |-> h, full |-> g, free |-> ff]
              ELSE [objcnt |-> n, partial |-> hh, full |-> g, free |-> f]
      BY ONLY <2>2, <2>3
    <2>5. n # 0
      OBVIOUS
    <2>6. /\ v.objcnt = n
          /\ v.full = IF t.inuse = n THEN gg ELSE g
          /\ v.free = IF t.inuse = 0 THEN ff ELSE f
          /\ v.partial = IF t.inuse \notin {0, n} THEN hh ELSE h
          /\ v = [objcnt |-> v.objcnt, partial |-> v.partial, full |-> v.full,
                  free |-> v.free]
      BY ONLY <2>4, <2>5
    <2>7. QED
      BY <2>6
  <1>8. /\ Lists(v.free, {q \in MineIn(c, sm) : sm[q].inuse = 0})
        /\ Lists(v.full, {q \in MineIn(c, sm) : sm[q].inuse = n})
        /\ Lists(v.partial, {q \in MineIn(c, sm) : sm[q].inuse \notin {0, n}})
    BY <1>4, <1>5, <1>6, <1>7
  <1>9. v \in CacheRec
    BY <1>3, <1>7, <1>8 DEF CacheRec, Lists
  <1>10. ListsIn(c, sm, v)
    BY <1>7, <1>8 DEF ListsIn
  <1>11. QED
    BY <1>7, <1>9, <1>10

-----------------------------------------------------------------------------
(* Every step keeps the invariant.                                         *)

LEMMA EmptyList == Lists(<<>>, {})
  BY EmptySeq DEF Lists, IsInjective, ToSet

LEMMA NewCacheFields ==
    ASSUME NEW n \in Nat
    PROVE  /\ NewCache(n) \in CacheRec /\ NewCache(n).objcnt = n
           /\ NewCache(n).partial = <<>> /\ NewCache(n).full = <<>>
           /\ NewCache(n).free = <<>>
  <1>1. <<>> \in Seq(Page)
    BY EmptySeq
  <1>2. QED
    BY <1>1 DEF NewCache, CacheRec

\* A cache without slabs.
LEMMA NoSlabsRight ==
    ASSUME NEW c, NEW sl, MineIn(c, sl) = {}, NEW n \in Nat
    PROVE  ListsIn(c, sl, NewCache(n))
  BY EmptyList, NewCacheFields DEF ListsIn

LEMMA InitIInv == Init => IInv
  <1> SUFFICES ASSUME Init PROVE IInv
    OBVIOUS
  <1>1. /\ slab = [p \in Page |-> NoSlab] /\ cache_chain = {Root} /\ held = {}
        /\ cache = [c \in Cache |-> NewCache(IF c = Root THEN RootCnt ELSE 0)]
        /\ destroying = NoCache /\ panicked = FALSE
    BY DEF Init
  <1>2. Root \in Cache
    BY DEF Cache
  <1>3. \A n \in Nat : NewCache(n) \in CacheRec /\ NewCache(n).objcnt = n
    BY NewCacheFields
  <1>4. TypeOK
    <2>1. cache \in [Cache -> CacheRec]
      BY <1>1, <1>3, SlabAssumption
    <2>2. QED
      BY <1>1, <1>2, <2>1 DEF TypeOK
  <1>5. SlabsRight /\ HeldExist /\ Destroying
    BY <1>1 DEF SlabsRight, HeldExist, Destroying
  <1>6. cache[Root] = NewCache(RootCnt)
    BY <1>1, <1>2
  <1>7. ListsRight
    <2>1. MineIn(Root, slab) = {}
      BY <1>1 DEF MineIn
    <2>2. QED
      BY <1>1, <1>6, <2>1, NoSlabsRight, SlabAssumption DEF ListsRight
  <1>8. Chained
    BY <1>1, <1>2, <1>3, <1>6, SlabAssumption DEF Chained
  <1>9. Owned
    BY <1>1 DEF Init, PageLevel!Init, Owned
  <1>10. QED
    BY <1>4, <1>5, <1>7, <1>8, <1>9 DEF IInv

\* What Pick finds: a slab of the cache with an object that nobody holds, on a
\* page that belongs to the allocator from then on.
LEMMA Picked ==
    ASSUME IInv, Running, NEW c \in cache_chain, NEW p \in Page, NEW s,
           Pick(c, p, s)
    PROVE  /\ s.cache = c /\ (slab[p] # NoSlab => slab[p] = s)
           /\ Exact(s, cache[c].objcnt, UsedIn(p, cache[c].objcnt, held))
           /\ s.inuse # cache[c].objcnt
           /\ halted' = "no" /\ runs' = runs \cup {Whole(p)}
  <1> PICK n : n = cache[c].objcnt
    OBVIOUS
  <1>1. /\ n \in Counts \cup {RootCnt} /\ n # 0 /\ c \in Cache
        /\ halted = "no" /\ runs = {Whole(q) : q \in {q \in Page : slab[q] # NoSlab}}
    BY SlabAssumption DEF IInv, Chained, Running, Owned
  <1>2. ListsIn(c, slab, cache[c])
    BY DEF IInv, ListsRight
  <1>3. \A q, S : Lists(q, S) /\ q # <<>> => Head(q) \in S
    BY ListFacts
  <1>4. ASSUME p \in MineIn(c, slab), s = slab[p], s.inuse # n, UNCHANGED pages
        PROVE  /\ s.cache = c /\ s = slab[p] /\ s.inuse # n
               /\ Exact(s, n, UsedIn(p, n, held))
               /\ halted' = "no" /\ runs' = runs \cup {Whole(p)}
    <2>1. slab[p] # NoSlab /\ s.cache = c
      BY <1>4 DEF MineIn
    <2>2. Exact(s, n, UsedIn(p, n, held))
      BY <1>4, <2>1 DEF IInv, SlabsRight, SlabRight
    <2>3. Whole(p) \in runs
      BY <1>1, <2>1
    <2>4. QED
      BY <1>1, <1>4, <2>1, <2>2, <2>3 DEF pages
  <1>5. CASE /\ cache[c].partial # <<>>
             /\ p = Head(cache[c].partial) /\ s = slab[p]
             /\ UNCHANGED pages
    <2>1. p \in {q \in MineIn(c, slab) : slab[q].inuse \notin {0, cache[c].objcnt}}
      BY <1>2, <1>3, <1>5 DEF ListsIn
    <2>2. QED
      BY <1>4, <1>5, <2>1
  <1>6. CASE /\ cache[c].partial = <<>> /\ cache[c].free # <<>>
             /\ p = Head(cache[c].free) /\ s = slab[p]
             /\ UNCHANGED pages
    <2>1. p \in {q \in MineIn(c, slab) : slab[q].inuse = 0}
      BY <1>2, <1>3, <1>6 DEF ListsIn
    <2>2. QED
      BY <1>1, <1>4, <1>6, <2>1
  <1>7. CASE /\ cache[c].partial = <<>> /\ cache[c].free = <<>>
             /\ PageLevel!AllocPages(0) /\ halted' = "no"
             /\ runs' = runs \cup {Whole(p)} /\ Whole(p) \notin runs
             /\ s = FreshSlab(c)
    <2>1. slab[p] = NoSlab
      BY <1>1, <1>7
    <2>2. UsedIn(p, n, held) = {}
      BY <2>1 DEF IInv, HeldExist, UsedIn
    <2>3. Exact(s, n, {}) /\ s.cache = c
      BY <1>1, <1>7, FreshExact
    <2>4. s.inuse = 0
      BY <1>7 DEF FreshSlab
    <2>5. QED
      BY <1>1, <1>7, <2>1, <2>2, <2>3, <2>4
  <1>8. QED
    BY <1>5, <1>6, <1>7 DEF Pick

\* An object is taken from a slab of c: everything but the chain and the caches
\* that are not on it.
LEMMA TakeKeeps ==
    ASSUME IInv, Running, NEW c \in cache_chain, NEW p \in Page, NEW s,
           Pick(c, p, s),
           slab' = [slab EXCEPT ![p] = Taken(s)],
           cache'[c] = Relisted(c, p, Taken(s)),
           \A d \in cache_chain \ {c} : cache'[d] = cache[d],
           held' = held \cup {<<p, s.free>>},
           cache_chain \subseteq cache_chain'
    PROVE  /\ s.free \in 0 .. cache[c].objcnt - 1 /\ <<p, s.free>> \notin held
           /\ slab' \in [Page -> SlabRec \cup {NoSlab}] /\ held' \in SUBSET Object
           /\ slab'[p] # NoSlab /\ slab'[p].cache = c
           /\ slab[p] # NoSlab => slab[p].cache = c
           /\ cache'[c] \in CacheRec
           /\ \A d \in cache_chain : cache'[d].objcnt = cache[d].objcnt
           /\ \A d \in cache_chain : ListsIn(d, slab', cache'[d])
           /\ SlabsRight' /\ HeldExist' /\ Owned'
  <1> PICK n, U : n = cache[c].objcnt /\ U = UsedIn(p, n, held)
    OBVIOUS
  <1> PICK t, x : t = Taken(s) /\ x = s.free
    OBVIOUS
  <1>1. /\ n \in Counts \cup {RootCnt} /\ n \in Nat \ {0} /\ c \in Cache
        /\ slab \in [Page -> SlabRec \cup {NoSlab}] /\ held \in SUBSET Object
        /\ cache \in [Cache -> CacheRec] /\ 0 .. n - 1 \subseteq ObjNr
        /\ \A d \in cache_chain : cache[d] \in CacheRec
    BY Sizes DEF IInv, TypeOK, Chained
  <1>2. /\ s.cache = c /\ (slab[p] # NoSlab => slab[p] = s)
        /\ Exact(s, n, U) /\ s.inuse # n
        /\ halted' = "no" /\ runs' = runs \cup {Whole(p)}
    BY Picked
  <1>3. x \in (0 .. n - 1) \ U /\ Exact(t, n, U \cup {x}) /\ t.cache = c
    BY <1>2, TakenExact
  <1>4. <<p, x>> \notin held /\ <<p, x>> \in Object
    BY <1>1, <1>3 DEF UsedIn, Object
  <1>5. t \in SlabRec /\ t # NoSlab
    BY <1>3, NoSlabAssumption DEF Exact
  <1>6. /\ slab' \in [Page -> SlabRec \cup {NoSlab}] /\ slab'[p] = t
        /\ \A q \in Page \ {p} : slab'[q] = slab[q]
    BY <1>1, <1>5
  <1>7. slab[p] # NoSlab => slab[p].cache = c
    BY <1>2
  <1>8. /\ cache'[c] \in CacheRec /\ cache'[c].objcnt = n
        /\ ListsIn(c, slab', cache'[c])
    <2> PICK V : V = U \cup {x}
      OBVIOUS
    <2>0. Exact(t, n, V)
      BY <1>3
    <2>9. /\ t.inuse = 0 <=> V = {}
          /\ t.inuse = n <=> V = 0 .. n - 1
          /\ t.free = BUFCTL_END <=> V = 0 .. n - 1
      BY ONLY <2>0, Counted
    <2>1. t.inuse # 0 /\ (t.free = BUFCTL_END <=> t.inuse = n)
      BY <2>9
    <2>2. Relisted(c, p, t) = PutInFront(cache[c], p, t)
      BY <2>1 DEF Relisted, PutInFront
    <2>3. ListsIn(c, slab, cache[c])
      BY DEF IInv, ListsRight
    <2> PICK r, v : r = cache[c] /\ v = cache'[c]
      OBVIOUS
    <2>4. Replaced(c, p, t, slab, slab')
      BY <1>1, <1>3, <1>5, <1>7 DEF Replaced
    <2>5. v = PutInFront(r, p, t) /\ r \in CacheRec /\ r.objcnt # 0 /\ ListsIn(c, slab, r)
      BY <1>1, <2>2, <2>3
    <2>6. v \in CacheRec /\ v.objcnt = r.objcnt /\ ListsIn(c, slab', v)
      BY <2>4, <2>5, RelistedRight
    <2>7. QED
      BY <2>6
  <1>9. \A d \in cache_chain : cache'[d].objcnt = cache[d].objcnt
    BY <1>8
  <1>10. ASSUME NEW d \in cache_chain
         PROVE  ListsIn(d, slab', cache'[d])
    <2>1. CASE d = c
      BY <1>8, <2>1
    <2>2. CASE d # c
      <3>1. ListsIn(d, slab, cache[d])
        BY DEF IInv, ListsRight
      <3>2. ListsIn(d, [slab EXCEPT ![p] = t], cache[d])
        BY <1>1, <1>3, <1>5, <1>7, <2>2, <3>1, MineElsewhere
      <3>3. QED
        BY <2>2, <3>2
    <2>3. QED
      BY <2>1, <2>2
  <1>11. ASSUME NEW q \in Page, slab'[q] # NoSlab
         PROVE  SlabRight(q, slab', cache', cache_chain', held')
    <2>1. CASE q = p
      <3>1. UsedIn(p, n, held') = U \cup {x}
        BY <1>3 DEF UsedIn
      <3>2. QED
        BY <1>3, <1>6, <1>8, <2>1, <3>1 DEF SlabRight
    <2>2. CASE q # p
      <3>1. slab'[q] = slab[q]
        BY <1>6, <2>2
      <3>2. SlabRight(q, slab, cache, cache_chain, held)
        BY <1>11, <3>1 DEF IInv, SlabsRight
      <3> PICK d, k : d = slab[q].cache /\ k = cache[d].objcnt
        OBVIOUS
      <3>3. d \in cache_chain /\ cache'[d].objcnt = k
        BY <1>9, <3>2 DEF SlabRight
      <3>4. UsedIn(q, k, held') = UsedIn(q, k, held)
        BY <2>2 DEF UsedIn
      <3>5. QED
        BY <3>1, <3>2, <3>3, <3>4 DEF SlabRight
    <2>3. QED
      BY <2>1, <2>2
  <1>12. HeldExist'
    <2> SUFFICES ASSUME NEW o \in held'
                 PROVE  \E q \in Page : \E i \in Nat :
                            /\ o = <<q, i>> /\ slab'[q] # NoSlab
                            /\ i < cache'[slab'[q].cache].objcnt
      BY DEF HeldExist
    <2>1. CASE o = <<p, x>>
      <3>1. x \in Nat /\ x < n
        BY <1>1, <1>3
      <3>2. QED
        BY <1>3, <1>5, <1>6, <1>8, <2>1, <3>1
    <2>2. CASE o \in held
      <3>1. PICK q \in Page, i \in Nat :
                /\ o = <<q, i>> /\ slab[q] # NoSlab
                /\ i < cache[slab[q].cache].objcnt
        BY <2>2 DEF IInv, HeldExist
      <3>2. slab[q].cache \in cache_chain
        BY <3>1 DEF IInv, SlabsRight, SlabRight
      <3>3. slab'[q] # NoSlab /\ slab'[q].cache = slab[q].cache
        BY <1>3, <1>5, <1>6, <1>7, <3>1
      <3>4. QED
        BY <1>9, <3>1, <3>2, <3>3
    <2>3. QED
      BY <2>1, <2>2
  <1>13. Owned'
    <2>1. runs = {Whole(q) : q \in {q \in Page : slab[q] # NoSlab}}
      BY DEF IInv, Owned, Running
    <2>2. runs' = {Whole(q) : q \in {q \in Page : slab'[q] # NoSlab}}
      BY <1>2, <1>5, <1>6, <2>1
    <2>3. QED
      BY <2>2 DEF Owned
  <1>14. QED
    BY <1>1, <1>3, <1>4, <1>5, <1>6, <1>7, <1>8, <1>9, <1>10, <1>11, <1>12, <1>13
       DEF SlabsRight

LEMMA AllocKeeps ==
    ASSUME IInv, NEW c \in cache_chain, Alloc(c)
    PROVE  IInv'
  <1>1. /\ Running /\ c # Root /\ cache_chain' = cache_chain
        /\ destroying' = destroying /\ panicked' = panicked
    BY DEF Alloc
  <1> DEFINE Takes(p, s) ==
            /\ Pick(c, p, s)
            /\ slab' = [slab EXCEPT ![p] = Taken(s)]
            /\ cache' = [cache EXCEPT ![c] = Relisted(c, p, Taken(s))]
            /\ held' = held \cup {<<p, s.free>>}
  <1>0. \E p \in Page : \E s : Takes(p, s)
    BY DEF Alloc
  <1> PICK p \in Page : \E s : Takes(p, s)
    BY <1>0
  <1> PICK s : Takes(p, s)
    OBVIOUS
  <1>2. /\ Pick(c, p, s)
        /\ slab' = [slab EXCEPT ![p] = Taken(s)]
        /\ cache' = [cache EXCEPT ![c] = Relisted(c, p, Taken(s))]
        /\ held' = held \cup {<<p, s.free>>}
    OBVIOUS
  <1> HIDE DEF Takes
  <1>3. /\ TypeOK /\ cache \in [Cache -> CacheRec] /\ cache_chain \subseteq Cache
        /\ slab \in [Page -> SlabRec \cup {NoSlab}]
    BY DEF IInv, Chained, TypeOK
  <1>4. /\ cache'[c] = Relisted(c, p, Taken(s))
        /\ \A d \in Cache \ {c} : cache'[d] = cache[d]
    BY <1>2, <1>3
  <1>5. /\ slab' \in [Page -> SlabRec \cup {NoSlab}] /\ held' \in SUBSET Object
        /\ slab'[p] # NoSlab /\ slab'[p].cache = c
        /\ slab[p] # NoSlab => slab[p].cache = c
        /\ cache'[c] \in CacheRec
        /\ \A d \in cache_chain : cache'[d].objcnt = cache[d].objcnt
        /\ \A d \in cache_chain : ListsIn(d, slab', cache'[d])
        /\ SlabsRight' /\ HeldExist' /\ Owned'
    BY <1>1, <1>2, <1>3, <1>4, TakeKeeps
  <1>6. TypeOK'
    <2>1. cache' \in [Cache -> CacheRec]
      BY <1>2, <1>3, <1>4, <1>5
    <2>2. QED
      BY <1>1, <1>3, <1>5, <2>1 DEF TypeOK
  <1>7. ListsRight'
    BY <1>1, <1>5 DEF ListsRight
  <1>8. Chained'
    <2>1. \A q \in Page : slab[q] # NoSlab => slab'[q].cache = slab[q].cache
      BY <1>2, <1>3, <1>5
    <2>2. ASSUME NEW d \in cache_chain \ {Root}
          PROVE  d \in held' /\ slab'[PageOf(d)].cache = Root
      <3>1. d \in held /\ slab[PageOf(d)].cache = Root
        BY DEF IInv, Chained
      <3>2. PageOf(d) \in Page /\ slab[PageOf(d)] # NoSlab
        BY <3>1 DEF IInv, HeldExist, PageOf
      <3>3. QED
        BY <1>2, <2>1, <3>1, <3>2
    <2>3. QED
      BY <1>1, <1>5, <2>2 DEF IInv, Chained
  <1>9. Destroying'
    BY <1>1 DEF Running, Destroying
  <1>10. QED
    BY <1>5, <1>6, <1>7, <1>8, <1>9 DEF IInv

LEMMA CreateKeeps ==
    ASSUME IInv, NEW n \in Counts, Create(n)
    PROVE  IInv'
  <1>1. Running /\ destroying' = destroying /\ panicked' = panicked
    BY DEF Create
  <1> DEFINE Takes(p, s) ==
            /\ Pick(Root, p, s)
            /\ slab' = [slab EXCEPT ![p] = Taken(s)]
            /\ cache' = [cache EXCEPT ![Root] = Relisted(Root, p, Taken(s)),
                                      ![<<p, s.free>>] = NewCache(n)]
            /\ cache_chain' = cache_chain \cup {<<p, s.free>>}
            /\ held' = held \cup {<<p, s.free>>}
  <1>0. \E p \in Page : \E s : Takes(p, s)
    BY DEF Create
  <1> PICK p \in Page : \E s : Takes(p, s)
    BY <1>0
  <1> PICK s : Takes(p, s)
    OBVIOUS
  <1>2. /\ Pick(Root, p, s)
        /\ slab' = [slab EXCEPT ![p] = Taken(s)]
        /\ cache' = [cache EXCEPT ![Root] = Relisted(Root, p, Taken(s)),
                                  ![<<p, s.free>>] = NewCache(n)]
        /\ cache_chain' = cache_chain \cup {<<p, s.free>>}
        /\ held' = held \cup {<<p, s.free>>}
    OBVIOUS
  <1> HIDE DEF Takes
  <1> PICK e : e = <<p, s.free>>
    OBVIOUS
  <1> HIDE DEF Takes
  <1>3. /\ TypeOK /\ cache \in [Cache -> CacheRec] /\ cache_chain \subseteq Cache
        /\ slab \in [Page -> SlabRec \cup {NoSlab}]
        /\ Root \in cache_chain /\ cache[Root].objcnt = RootCnt
        /\ \A d \in cache_chain \ {Root} : d \in held
    BY DEF IInv, Chained, TypeOK
  <1>4. /\ e \in Cache /\ e # Root /\ e \notin cache_chain
    <2>1. /\ Exact(s, RootCnt, UsedIn(p, RootCnt, held)) /\ s.inuse # RootCnt
      BY <1>1, <1>2, <1>3, Picked
    <2>2. s.free \in (0 .. RootCnt - 1) \ UsedIn(p, RootCnt, held)
      BY <2>1, TakenExact
    <2>3. e \notin held
      BY <2>2 DEF UsedIn
    <2>4. e \in Cache /\ e \in Page \X Nat
      BY <2>2, SlabAssumption DEF Cache
    <2>5. QED
      BY <1>3, <2>3, <2>4, SlabAssumption
  <1>5. /\ cache'[Root] = Relisted(Root, p, Taken(s)) /\ cache'[e] = NewCache(n)
        /\ \A d \in Cache \ {Root, e} : cache'[d] = cache[d]
    BY <1>2, <1>3, <1>4
  <1>6. /\ slab' \in [Page -> SlabRec \cup {NoSlab}] /\ held' \in SUBSET Object
        /\ slab'[p] # NoSlab /\ slab'[p].cache = Root
        /\ slab[p] # NoSlab => slab[p].cache = Root
        /\ cache'[Root] \in CacheRec
        /\ \A d \in cache_chain : cache'[d].objcnt = cache[d].objcnt
        /\ \A d \in cache_chain : ListsIn(d, slab', cache'[d])
        /\ SlabsRight' /\ HeldExist' /\ Owned'
    <2>1. \A d \in cache_chain \ {Root} : cache'[d] = cache[d]
      BY <1>3, <1>4, <1>5
    <2>2. QED
      BY <1>1, <1>2, <1>3, <1>5, <2>1, TakeKeeps
  <1>7. /\ NewCache(n) \in CacheRec /\ NewCache(n).objcnt = n /\ n \in Nat
    BY NewCacheFields, SlabAssumption
  <1>8. TypeOK'
    <2>1. cache' \in [Cache -> CacheRec]
      BY <1>2, <1>3, <1>5, <1>6, <1>7
    <2>2. QED
      BY <1>1, <1>2, <1>3, <1>4, <1>6, <2>1 DEF TypeOK
  <1>9. ListsRight'
    <2>1. MineIn(e, slab') = {}
      <3>1. ASSUME NEW q \in Page, slab'[q] # NoSlab, slab'[q].cache = e
            PROVE  FALSE
        <4>1. q # p
          BY <1>4, <1>6, <3>1
        <4>2. slab[q] # NoSlab /\ slab[q].cache = e
          BY <1>2, <1>3, <3>1, <4>1
        <4>3. QED
          BY <1>4, <4>2 DEF IInv, SlabsRight, SlabRight
      <3>2. QED
        BY <3>1 DEF MineIn
    <2>2. ListsIn(e, slab', cache'[e])
      <3> PICK sl : sl = slab'
        OBVIOUS
      <3>1. ListsIn(e, sl, NewCache(n))
        BY <1>7, <2>1, NoSlabsRight
      <3>2. QED
        BY <1>5, <3>1
    <2>3. QED
      BY <1>2, <1>6, <2>2 DEF ListsRight
  <1>10. Chained'
    <2>1. \A q \in Page : slab[q] # NoSlab => slab'[q].cache = slab[q].cache
      BY <1>2, <1>3, <1>6
    <2>2. ASSUME NEW d \in cache_chain \ {Root}
          PROVE  d \in held' /\ slab'[PageOf(d)].cache = Root
      <3>1. d \in held /\ slab[PageOf(d)].cache = Root
        BY DEF IInv, Chained
      <3>2. PageOf(d) \in Page /\ slab[PageOf(d)] # NoSlab
        BY <3>1 DEF IInv, HeldExist, PageOf
      <3>3. QED
        BY <1>2, <2>1, <3>1, <3>2
    <2>3. e \in held' /\ slab'[PageOf(e)].cache = Root
      BY <1>2, <1>6 DEF PageOf
    <2>4. cache'[e].objcnt \in Counts
      BY <1>5, <1>7
    <2>5. QED
      BY <1>2, <1>3, <1>4, <1>6, <2>2, <2>3, <2>4 DEF IInv, Chained
  <1>11. Destroying'
    BY <1>1 DEF Running, Destroying
  <1>12. QED
    BY <1>6, <1>8, <1>9, <1>10, <1>11 DEF IInv

LEMMA NoPageKeeps ==
    ASSUME IInv, NEW c \in cache_chain, NoPage(c)
    PROVE  IInv'
  <1>1. /\ slab' = slab /\ cache' = cache /\ cache_chain' = cache_chain
        /\ held' = held /\ destroying' = destroying /\ panicked' = panicked
        /\ halted' # "no"
    BY DEF NoPage
  <1>2. QED
    BY <1>1 DEF IInv, TypeOK, SlabsRight, SlabRight, ListsRight, HeldExist, Chained,
                Destroying, Owned

LEMMA FreeKeeps ==
    ASSUME IInv, NEW o \in held, Free(o)
    PROVE  IInv'
  <1>1. PICK p \in Page, i \in Nat :
            /\ o = <<p, i>> /\ slab[p] # NoSlab
            /\ i < cache[slab[p].cache].objcnt
    BY DEF IInv, HeldExist
  <1> PICK s, c, t : s = slab[p] /\ c = s.cache /\ t = Returned(s, i)
    OBVIOUS
  <1> PICK n, U : n = cache[c].objcnt /\ U = UsedIn(p, n, held)
    OBVIOUS
  <1>2. c \in cache_chain /\ Exact(s, n, U) /\ i \in U
    <2>1. c \in cache_chain /\ Exact(s, n, U)
      BY <1>1 DEF IInv, SlabsRight, SlabRight
    <2>2. n \in Nat
      BY <2>1, Sizes DEF Exact
    <2>3. i \in 0 .. n - 1
      BY <1>1, <2>2
    <2>4. QED
      BY <1>1, <2>1, <2>3 DEF UsedIn
  <1>3. Exact(t, n, U \ {i}) /\ t.cache = c
    BY <1>2, ReturnedExact
  <1>4. PageOf(o) = p /\ o[2] = i
    BY <1>1 DEF PageOf
  <1>5. /\ Running /\ c # Root /\ slab' = [slab EXCEPT ![p] = t]
        /\ held' = held \ {o} /\ cache_chain' = cache_chain
        /\ destroying' = destroying /\ panicked' = panicked
        /\ mem_map' = mem_map /\ runs' = runs /\ halted' = halted
        /\ cache' = [cache EXCEPT ![c] =
                        IF t.inuse = 0
                        THEN [Unlinked(cache[c], p) EXCEPT !.free = <<p>> \o @]
                        ELSE [Unlinked(cache[c], p) EXCEPT !.partial = <<p>> \o @]]
    BY <1>3, <1>4 DEF Free, pages
  <1>6. /\ n \in Counts \cup {RootCnt} /\ n \in Nat \ {0} /\ c \in Cache
        /\ slab \in [Page -> SlabRec \cup {NoSlab}] /\ held \in SUBSET Object
        /\ cache \in [Cache -> CacheRec] /\ cache_chain \subseteq Cache /\ TypeOK
    BY <1>2, Sizes DEF IInv, TypeOK, Chained
  <1>7. t \in SlabRec /\ t # NoSlab
    BY <1>3, NoSlabAssumption DEF Exact
  <1>8. /\ slab' \in [Page -> SlabRec \cup {NoSlab}] /\ slab'[p] = t
        /\ \A q \in Page \ {p} : slab'[q] = slab[q]
    BY <1>5, <1>6, <1>7
  <1>9. cache'[c] = PutInFront(cache[c], p, t)
    <2>1. t.inuse # n
      <3> PICK V : V = U \ {i}
        OBVIOUS
      <3>1. Exact(t, n, V) /\ V # 0 .. n - 1
        BY <1>2, <1>3 DEF UsedIn
      <3>2. t.inuse = n <=> V = 0 .. n - 1
        BY ONLY <3>1, Counted
      <3>3. QED
        BY <3>1, <3>2
    <2>2. QED
      BY <1>5, <1>6, <2>1 DEF PutInFront
  <1>10. /\ cache'[c] \in CacheRec /\ cache'[c].objcnt = n
         /\ ListsIn(c, slab', cache'[c])
    <2>1. Replaced(c, p, t, slab, slab')
      BY <1>3, <1>5, <1>6, <1>7 DEF Replaced
    <2> PICK r : r = cache[c]
      OBVIOUS
    <2>2. r \in CacheRec /\ r.objcnt # 0 /\ ListsIn(c, slab, r)
      BY <1>2, <1>6 DEF IInv, ListsRight
    <2>3. /\ PutInFront(r, p, t) \in CacheRec
          /\ PutInFront(r, p, t).objcnt = r.objcnt
          /\ ListsIn(c, slab', PutInFront(r, p, t))
      BY <2>1, <2>2, RelistedRight
    <2>4. QED
      BY <1>9, <2>3
  <1>11. \A d \in Cache \ {c} : cache'[d] = cache[d]
    BY <1>5, <1>6
  <1>12. \A d \in cache_chain : cache'[d].objcnt = cache[d].objcnt
    BY <1>6, <1>10, <1>11
  <1>13. TypeOK'
    <2>1. cache' \in [Cache -> CacheRec]
      BY <1>5, <1>6, <1>10, <1>11
    <2>2. QED
      BY <1>5, <1>6, <1>8, <2>1 DEF TypeOK
  <1>14. ListsRight'
    <2> SUFFICES ASSUME NEW d \in cache_chain
                 PROVE  ListsIn(d, slab', cache'[d])
      BY <1>5 DEF ListsRight
    <2>1. CASE d = c
      BY <1>10, <2>1
    <2>2. CASE d # c
      <3>1. ListsIn(d, slab, cache[d])
        BY DEF IInv, ListsRight
      <3>2. ListsIn(d, [slab EXCEPT ![p] = t], cache[d])
        BY <1>3, <1>6, <1>7, <2>2, <3>1, MineElsewhere
      <3>3. QED
        BY <1>5, <1>6, <1>11, <2>2, <3>2
    <2>3. QED
      BY <2>1, <2>2
  <1>15. SlabsRight'
    <2> SUFFICES ASSUME NEW q \in Page, slab'[q] # NoSlab
                 PROVE  SlabRight(q, slab', cache', cache_chain', held')
      BY DEF SlabsRight
    <2>1. CASE q = p
      <3>1. UsedIn(p, n, held') = U \ {i}
        BY <1>1, <1>5 DEF UsedIn
      <3>2. QED
        BY <1>2, <1>3, <1>5, <1>8, <1>10, <2>1, <3>1 DEF SlabRight
    <2>2. CASE q # p
      <3>1. slab'[q] = slab[q]
        BY <1>8, <2>2
      <3>2. SlabRight(q, slab, cache, cache_chain, held)
        BY <3>1 DEF IInv, SlabsRight
      <3> PICK d, k : d = slab[q].cache /\ k = cache[d].objcnt
        OBVIOUS
      <3>3. d \in cache_chain /\ cache'[d].objcnt = k
        BY <1>12, <3>2 DEF SlabRight
      <3>4. UsedIn(q, k, held') = UsedIn(q, k, held)
        BY <1>1, <1>5, <2>2 DEF UsedIn
      <3>5. QED
        BY <1>5, <3>1, <3>2, <3>3, <3>4 DEF SlabRight
    <2>3. QED
      BY <2>1, <2>2
  <1>16. /\ \A q \in Page : slab[q] # NoSlab <=> slab'[q] # NoSlab
         /\ \A q \in Page : slab[q] # NoSlab => slab'[q].cache = slab[q].cache
    BY <1>1, <1>3, <1>7, <1>8
  <1>17. HeldExist'
    <2> SUFFICES ASSUME NEW h \in held'
                 PROVE  \E q \in Page : \E j \in Nat :
                            /\ h = <<q, j>> /\ slab'[q] # NoSlab
                            /\ j < cache'[slab'[q].cache].objcnt
      BY DEF HeldExist
    <2>1. PICK q \in Page, j \in Nat :
              /\ h = <<q, j>> /\ slab[q] # NoSlab
              /\ j < cache[slab[q].cache].objcnt
      BY <1>5 DEF IInv, HeldExist
    <2>2. slab[q].cache \in cache_chain
      BY <2>1 DEF IInv, SlabsRight, SlabRight
    <2>3. QED
      BY <1>12, <1>16, <2>1, <2>2
  <1>18. Chained'
    <2>1. ASSUME NEW d \in cache_chain \ {Root}
          PROVE  d \in held' /\ slab'[PageOf(d)].cache = Root
      <3>1. d \in held /\ slab[PageOf(d)].cache = Root
        BY DEF IInv, Chained
      <3>2. PageOf(d) \in Page /\ slab[PageOf(d)] # NoSlab
        BY <3>1 DEF IInv, HeldExist, PageOf
      <3>3. d # o
        BY <1>4, <1>5, <3>1
      <3>4. QED
        BY <1>5, <1>16, <3>1, <3>2, <3>3
    <2>2. QED
      BY <1>5, <1>12, <2>1 DEF IInv, Chained
  <1>19. Destroying' /\ Owned'
    BY <1>5, <1>16 DEF IInv, Running, Destroying, Owned
  <1>20. QED
    BY <1>13, <1>14, <1>15, <1>17, <1>18, <1>19 DEF IInv

LEMMA DestroyStartKeeps ==
    ASSUME IInv, NEW c \in cache_chain, DestroyStart(c)
    PROVE  IInv'
  <1>1. /\ slab' = slab /\ cache' = cache /\ cache_chain' = cache_chain
        /\ held' = held /\ runs' = runs /\ halted' = halted
        /\ panicked' \in BOOLEAN /\ c # Root /\ destroying = NoCache
        /\ \/ destroying' = NoCache
           \/ /\ destroying' = c
              /\ cache[c].partial = <<>> /\ cache[c].full = <<>>
    BY DEF DestroyStart, pages, Running, IInv, TypeOK
  <1>2. TypeOK'
    BY <1>1 DEF IInv, TypeOK, Chained
  <1>3. Destroying'
    BY <1>1 DEF Destroying
  <1>4. QED
    BY <1>1, <1>2, <1>3 DEF IInv, SlabsRight, SlabRight, ListsRight, HeldExist,
                            Chained, Owned

LEMMA DestroyEndKeeps ==
    ASSUME IInv, DestroyEnd
    PROVE  IInv'
  <1> PICK d : d = destroying
    OBVIOUS
  <1>1. /\ slab' = slab /\ cache' = cache /\ cache_chain' = cache_chain \ {d}
        /\ held' = held /\ runs' = runs /\ halted' = halted
        /\ panicked' = panicked /\ destroying' = NoCache
        /\ d # NoCache /\ cache[d].free = <<>>
    BY DEF DestroyEnd, pages
  <1>2. /\ d \in cache_chain /\ d # Root
        /\ cache[d].partial = <<>> /\ cache[d].full = <<>>
    BY <1>1 DEF IInv, Destroying
  <1>3. MineIn(d, slab) = {}
    <2>1. ListsIn(d, slab, cache[d])
      BY <1>2 DEF IInv, ListsRight
    <2>2. \A q, S : Lists(q, S) /\ q = <<>> => S = {}
      BY ListFacts
    <2>3. /\ {q \in MineIn(d, slab) : slab[q].inuse = 0} = {}
          /\ {q \in MineIn(d, slab) : slab[q].inuse = cache[d].objcnt} = {}
          /\ {q \in MineIn(d, slab) : slab[q].inuse \notin {0, cache[d].objcnt}} = {}
      BY <1>1, <1>2, <2>1, <2>2 DEF ListsIn
    <2>4. QED
      BY <2>3
  <1>4. SlabsRight'
    BY <1>1, <1>3 DEF IInv, SlabsRight, SlabRight, MineIn
  <1>5. TypeOK' /\ ListsRight' /\ HeldExist' /\ Owned' /\ Destroying'
    BY <1>1 DEF IInv, TypeOK, ListsRight, HeldExist, Owned, Destroying
  <1>6. Chained'
    BY <1>1, <1>2 DEF IInv, Chained
  <1>7. QED
    BY <1>4, <1>5, <1>6 DEF IInv

LEMMA DestroySlabKeeps ==
    ASSUME IInv, DestroySlab
    PROVE  IInv'
  <1> PICK d, p : d = destroying /\ p = Head(cache[destroying].free)
    OBVIOUS
  <1>1. /\ halted = "no" /\ d # NoCache /\ cache[d].free # <<>>
        /\ PageLevel!FreePages(Whole(p))
        /\ slab' = [slab EXCEPT ![p] = NoSlab]
        /\ cache' = [cache EXCEPT ![d] = Unlinked(@, p)]
        /\ cache_chain' = cache_chain /\ held' = held
        /\ destroying' = d /\ panicked' = panicked
    BY DEF DestroySlab
  <1>2. /\ d \in cache_chain \ {Root}
        /\ cache[d].partial = <<>> /\ cache[d].full = <<>>
    BY <1>1 DEF IInv, Destroying
  <1>3. /\ d \in Cache /\ cache_chain \subseteq Cache
        /\ slab \in [Page -> SlabRec \cup {NoSlab}] /\ held \in SUBSET Object
        /\ cache \in [Cache -> CacheRec] /\ TypeOK
    BY <1>2 DEF IInv, TypeOK, Chained
  <1>4. ListsIn(d, slab, cache[d])
    BY <1>2 DEF IInv, ListsRight
  <1>5. p \in Page /\ slab[p] # NoSlab /\ slab[p].cache = d /\ slab[p].inuse = 0
    <2>1. \A q, S : Lists(q, S) /\ q # <<>> => Head(q) \in S
      BY ListFacts
    <2>2. p \in {q \in MineIn(d, slab) : slab[q].inuse = 0}
      BY <1>1, <1>4, <2>1 DEF ListsIn
    <2>3. QED
      BY <2>2 DEF MineIn
  <1>6. /\ slab' \in [Page -> SlabRec \cup {NoSlab}] /\ slab'[p] = NoSlab
        /\ \A q \in Page \ {p} : slab'[q] = slab[q]
    BY <1>1, <1>3, <1>5
  <1>7. /\ cache'[d] = Unlinked(cache[d], p)
        /\ \A e \in Cache \ {d} : cache'[e] = cache[e]
    BY <1>1, <1>3
  <1>8. /\ cache'[d] \in CacheRec /\ ListsIn(d, slab', cache'[d])
        /\ cache'[d].objcnt = cache[d].objcnt
        /\ cache'[d].partial = <<>> /\ cache'[d].full = <<>>
    <2> PICK r : r = cache[d]
      OBVIOUS
    <2>1. r \in CacheRec /\ ListsIn(d, slab, r) /\ r.partial = <<>> /\ r.full = <<>>
      BY <1>2, <1>3, <1>4
    <2>2. /\ Unlinked(r, p) \in CacheRec
          /\ ListsIn(d, [slab EXCEPT ![p] = NoSlab], Unlinked(r, p))
      BY <1>3, <1>5, <2>1, UnlinkedRight
    <2>3. /\ Unlinked(r, p).objcnt = r.objcnt
          /\ Unlinked(r, p).partial = list_del(r.partial, p)
          /\ Unlinked(r, p).full = list_del(r.full, p)
      BY <2>1, UnlinkedFields
    <2>4. list_del(<<>>, p) = <<>>
      <3>1. {k \in DOMAIN <<>> : <<>>[k] = p} = {}
        OBVIOUS
      <3>2. QED
        BY <3>1 DEF list_del
    <2>5. QED
      BY <1>1, <1>7, <2>1, <2>2, <2>3, <2>4
  <1>9. \A e \in cache_chain : cache'[e].objcnt = cache[e].objcnt
    BY <1>3, <1>7, <1>8
  <1>10. ASSUME NEW o \in held
         PROVE  PageOf(o) \in Page \ {p}
    <2>1. PICK q \in Page, j \in Nat :
              /\ o = <<q, j>> /\ slab[q] # NoSlab
              /\ j < cache[slab[q].cache].objcnt
      BY DEF IInv, HeldExist
    <2>2. q # p
      <3>1. SUFFICES ASSUME q = p PROVE FALSE
        OBVIOUS
      <3> PICK s, n, U : /\ s = slab[p] /\ n = cache[d].objcnt
                         /\ U = UsedIn(p, n, held)
        OBVIOUS
      <3>2. Exact(s, n, U) /\ s.inuse = 0
        BY <1>5 DEF IInv, SlabsRight, SlabRight
      <3>3. s.inuse = 0 <=> U = {}
        BY ONLY <3>2, Counted
      <3>4. n \in Nat
        BY <3>2, Sizes DEF Exact
      <3>5. j \in 0 .. n - 1
        BY <1>5, <2>1, <3>1, <3>4
      <3>6. QED
        BY <2>1, <3>1, <3>2, <3>3, <3>5 DEF UsedIn
    <2>3. QED
      BY <2>1, <2>2 DEF PageOf
  <1>11. TypeOK'
    <2>1. cache' \in [Cache -> CacheRec]
      BY <1>1, <1>3, <1>7, <1>8
    <2>2. QED
      BY <1>1, <1>3, <1>6, <2>1 DEF TypeOK
  <1>12. ListsRight'
    <2> SUFFICES ASSUME NEW e \in cache_chain
                 PROVE  ListsIn(e, slab', cache'[e])
      BY <1>1 DEF ListsRight
    <2>1. CASE e = d
      BY <1>8, <2>1
    <2>2. CASE e # d
      <3>1. ListsIn(e, slab, cache[e])
        BY DEF IInv, ListsRight
      <3>2. ListsIn(e, [slab EXCEPT ![p] = NoSlab], cache[e])
        BY <1>3, <1>5, <2>2, <3>1, MineElsewhere
      <3>3. QED
        BY <1>1, <1>3, <1>7, <2>2, <3>2
    <2>3. QED
      BY <2>1, <2>2
  <1>13. SlabsRight'
    <2> SUFFICES ASSUME NEW q \in Page, slab'[q] # NoSlab
                 PROVE  SlabRight(q, slab', cache', cache_chain', held')
      BY DEF SlabsRight
    <2>1. q # p /\ slab'[q] = slab[q]
      BY <1>6
    <2>2. SlabRight(q, slab, cache, cache_chain, held)
      BY <2>1 DEF IInv, SlabsRight
    <2>3. QED
      BY <1>1, <1>9, <2>1, <2>2 DEF SlabRight
  <1>14. HeldExist'
    <2> SUFFICES ASSUME NEW o \in held
                 PROVE  \E q \in Page : \E j \in Nat :
                            /\ o = <<q, j>> /\ slab'[q] # NoSlab
                            /\ j < cache'[slab'[q].cache].objcnt
      BY <1>1 DEF HeldExist
    <2>1. PICK q \in Page, j \in Nat :
              /\ o = <<q, j>> /\ slab[q] # NoSlab
              /\ j < cache[slab[q].cache].objcnt
      BY DEF IInv, HeldExist
    <2>2. q # p
      BY <1>10, <2>1 DEF PageOf
    <2>3. slab[q].cache \in cache_chain
      BY <2>1 DEF IInv, SlabsRight, SlabRight
    <2>4. QED
      BY <1>6, <1>9, <2>1, <2>2, <2>3
  <1>15. Chained'
    <2>1. ASSUME NEW e \in cache_chain \ {Root}
          PROVE  e \in held' /\ slab'[PageOf(e)].cache = Root
      <3>1. e \in held /\ slab[PageOf(e)].cache = Root
        BY DEF IInv, Chained
      <3>2. QED
        BY <1>1, <1>6, <1>10, <3>1
    <2>2. QED
      BY <1>1, <1>9, <2>1 DEF IInv, Chained
  <1>16. Destroying'
    BY <1>1, <1>2, <1>8 DEF Destroying
  <1>17. Owned'
    <2>1. SUFFICES ASSUME halted' = "no"
                   PROVE  runs' = {Whole(q) : q \in {q \in Page : slab'[q] # NoSlab}}
      BY DEF Owned
    <2>2. runs' = runs \ {Whole(p)}
      BY <1>1, <2>1 DEF PageLevel!FreePages
    <2>3. runs = {Whole(q) : q \in {q \in Page : slab[q] # NoSlab}}
      BY <1>1 DEF IInv, Owned
    <2>4. \A q \in Page : Whole(q) = Whole(p) => q = p
      BY DEF Whole
    <2>5. QED
      BY <1>6, <2>2, <2>3, <2>4
  <1>18. QED
    BY <1>11, <1>12, <1>13, <1>14, <1>15, <1>16, <1>17 DEF IInv

LEMMA NextKeepsIInv == IInv /\ [Next]_vars => IInv'
  <1> SUFFICES ASSUME IInv, [Next]_vars PROVE IInv'
    OBVIOUS
  <1>1. ASSUME NEW c \in cache_chain, Alloc(c) \/ NoPage(c) \/ DestroyStart(c)
        PROVE  IInv'
    BY <1>1, AllocKeeps, NoPageKeeps, DestroyStartKeeps
  <1>2. ASSUME NEW n \in Counts, Create(n) PROVE IInv'
    BY <1>2, CreateKeeps
  <1>3. ASSUME NEW o \in held, Free(o) PROVE IInv'
    BY <1>3, FreeKeeps
  <1>4. CASE DestroySlab
    BY <1>4, DestroySlabKeeps
  <1>5. CASE DestroyEnd
    BY <1>5, DestroyEndKeeps
  <1>6. CASE Stopped \/ UNCHANGED vars
    BY <1>6 DEF Stopped, vars, pages, IInv, TypeOK, SlabsRight, SlabRight, ListsRight,
                HeldExist, Chained, Destroying, Owned
  <1>7. QED
    BY <1>1, <1>2, <1>3, <1>4, <1>5, <1>6 DEF Next

LEMMA AlwaysIInv == Spec => []IInv
  BY InitIInv, NextKeepsIInv, PTL DEF Spec

-----------------------------------------------------------------------------
(* The theorems.                                                           *)

\* mm/slab.c, every operation: each field keeps its type; the links of a slab
\* and the objects that are handed out lie inside the slab.
THEOREM TypeCorrect == Spec => []TypeOK
  <1>1. IInv => TypeOK
    BY DEF IInv
  <1>2. QED
    BY <1>1, AlwaysIInv, PTL

\* _slab_alloc, _slab_free and _create_slab, in any order: the links from
\* slab->free visit the objects nobody holds, each once, and end, and inuse is
\* the number of the others.
THEOREM FreeListsExact == Spec => []FreeListExact
  BY AlwaysIInv, IInvFreeList, PTL

\* kmem_cache_alloc, kmem_cache_free and kmem_cache_destroy: every slab of a
\* cache is on one of its lists, once, and on the one that its count demands.
THEOREM SlabsOnRightList == Spec => []OnRightList
  BY AlwaysIInv, IInvOnRightList, PTL

\* The pages the slab allocator has got and not given back are those of its
\* slabs, and an object in use lies in one of them.
THEOREM PagesAreOwned == Spec => []PagesOwned
  BY AlwaysIInv, IInvPagesOwned, PTL

\* A step of the slab allocator is a step of the page allocator or none: it
\* asks alloc_pages for one page, and gives back a page that it got, once.
THEOREM IsAPageAllocClient == Spec => UsesPageAlloc
  <1>1. Init => PageLevel!Init
    BY DEF Init
  <1>2. 0 \in PageLevel!Order
    BY SlabAssumption DEF PageLevel!Order
  <1>3. IInv /\ [Next]_vars => [PageLevel!Next]_PageLevel!vars
    <2> SUFFICES ASSUME IInv, [Next]_vars PROVE [PageLevel!Next]_PageLevel!vars
      OBVIOUS
    <2>1. UNCHANGED pages => UNCHANGED PageLevel!vars
      BY DEF pages, PageLevel!vars
    <2>2. ASSUME NEW c, NEW p \in Page, NEW s, Pick(c, p, s)
          PROVE  PageLevel!AllocPages(0) \/ UNCHANGED pages
      BY <2>2 DEF Pick
    <2>3. PageLevel!AllocPages(0) => PageLevel!Next
      BY <1>2 DEF PageLevel!Next
    <2>4. ASSUME NEW c \in cache_chain, Alloc(c) \/ NoPage(c) \/ DestroyStart(c)
          PROVE  [PageLevel!Next]_PageLevel!vars
      BY <2>1, <2>2, <2>3, <2>4 DEF Alloc, NoPage, DestroyStart
    <2>5. ASSUME NEW n \in Counts, Create(n) PROVE [PageLevel!Next]_PageLevel!vars
      BY <2>1, <2>2, <2>3, <2>5 DEF Create
    <2>6. ASSUME NEW o \in held, Free(o) PROVE [PageLevel!Next]_PageLevel!vars
      BY <2>1, <2>6 DEF Free
    <2>7. CASE DestroySlab
      <3> PICK d, p : d = destroying /\ p = Head(cache[destroying].free)
        OBVIOUS
      <3>1. /\ PageLevel!FreePages(Whole(p)) /\ halted = "no"
            /\ d # NoCache /\ cache[d].free # <<>>
        BY <2>7 DEF DestroySlab
      <3>2. ListsIn(d, slab, cache[d])
        BY <3>1 DEF IInv, Destroying, ListsRight
      <3>3. \A q, S : Lists(q, S) /\ q # <<>> => Head(q) \in S
        BY ListFacts
      <3>4. p \in {q \in MineIn(d, slab) : slab[q].inuse = 0}
        BY <3>1, <3>2, <3>3 DEF ListsIn
      <3>5. Whole(p) \in runs
        BY <3>1, <3>4 DEF IInv, Owned, MineIn
      <3>6. QED
        BY <3>1, <3>5 DEF PageLevel!Next
    <2>8. CASE DestroyEnd \/ Stopped \/ UNCHANGED vars
      BY <2>1, <2>8 DEF DestroyEnd, Stopped, vars
    <2>9. QED
      BY <2>4, <2>5, <2>6, <2>7, <2>8 DEF Next
  <1>4. QED
    BY <1>1, <1>3, AlwaysIInv, PTL DEF Spec, UsesPageAlloc, PageLevel!Spec
=============================================================================
