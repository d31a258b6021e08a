------------------------ MODULE ShortestChain_proofs ------------------------
(* Proofs about ShortestChain, for any graph and any number of pages: what *)
(* a search has scanned never changes again and is the shortest distance,  *)
(* as far as the search looks; the answer is a walk from one end to the    *)
(* other; and the link limit bounds what it says it bounds.                *)
(*                                                                         *)
(* Nothing is proved twice about the queues: BucketQueue_proofs is         *)
(* instantiated for either of them, and a page a search takes or brings    *)
(* nearer is what its lemmas say.  The middle part is about one search,    *)
(* its tables and its graph as parameters, and holds for both; the steps   *)
(* of the two searches then differ in names, in the order of their tests   *)
(* and in the meetings.                                                    *)
EXTENDS ShortestChain, FiniteSetTheorems, TLAPS

FP == INSTANCE BucketQueue_proofs WITH
        Page <- Vertex, Links <- Nat, buckets <- fBuckets,
        distance <- fDistance, links <- fLinks, minBucket <- fMin,
        size <- fSize, deleted <- fPage
RP == INSTANCE BucketQueue_proofs WITH
        Page <- Vertex, Links <- Nat, buckets <- rBuckets,
        distance <- rDistance, links <- rLinks, minBucket <- rMin,
        size <- rSize, deleted <- rPage

LEMMA QueueConstants ==
  /\ MaxBucket \in Nat /\ Nat \subseteq Nat /\ None \notin Vertex /\ None \notin Nat
  /\ Infinity \in Nat /\ MaxBucket < Infinity
BY ChainAssumption DEF ChainAssumption, Vertex

LEMMA Least ==
  ASSUME NEW T, T \subseteq Nat, T # {}
  PROVE  \E x \in T : \A y \in T : x <= y
BY QueueConstants, FP!LeastNatural

(* A set that holds 0, and with each number the next, holds them all.      *)
LEMMA Induction ==
  ASSUME NEW T, T \subseteq Nat, 0 \in T, \A n \in T : n + 1 \in T
  PROVE  T = Nat
<1>1. SUFFICES ASSUME Nat \ T # {} PROVE FALSE
  OBVIOUS
<1>2. PICK x \in Nat \ T : \A y \in Nat \ T : x <= y
  BY <1>1, Least
<1>3. x # 0 /\ x - 1 \in Nat
  BY <1>2
<1>4. x - 1 \in T
  BY <1>2, <1>3
<1>5. x - 1 + 1 \in T
  BY <1>4
<1>6. QED
  BY <1>2, <1>3, <1>5

(* Every step function can be iterated from every start.                   *)
LEMMA Iteration ==
  ASSUME NEW S, NEW b \in S, NEW step \in [S -> S]
  PROVE  \E f \in [Nat -> S] :
           f = [n \in Nat |-> IF n = 0 THEN b ELSE step[f[n - 1]]]
<1> DEFINE Partial(n) == {g \in [0..n -> S] : g[0] = b /\ \A k \in 1..n : g[k] = step[g[k - 1]]}
           T == {n \in Nat : Partial(n) # {}}
<1>1. T = Nat
  <2>1. 0 \in T
    <3>1. [k \in 0..0 |-> b] \in Partial(0)
      OBVIOUS
    <3>2. QED
      BY <3>1
  <2>2. ASSUME NEW n \in T PROVE n + 1 \in T
    <3>1. PICK g \in Partial(n) : TRUE
      BY <2>2
    <3> DEFINE h == [k \in 0..n + 1 |-> IF k = n + 1 THEN step[g[n]] ELSE g[k]]
    <3>2. g \in [0..n -> S] /\ n \in Nat
      BY <3>1
    <3>3. h \in [0..n + 1 -> S]
      BY <3>2
    <3>4. h[0] = b
      BY <3>1, <3>2
    <3>5. ASSUME NEW k \in 1..n + 1 PROVE h[k] = step[h[k - 1]]
      <4>1. CASE k = n + 1
        BY <3>2, <4>1
      <4>2. CASE k # n + 1
        <5>1. k \in 1..n /\ k \in 0..n /\ k - 1 \in 0..n /\ k - 1 # n + 1
          BY <3>2, <4>2
        <5>2. QED
          BY <3>1, <5>1
      <4>3. QED
        BY <4>1, <4>2
    <3>6. h \in Partial(n + 1)
      BY <3>3, <3>4, <3>5
    <3>7. QED
      BY <3>2, <3>6
  <2>3. QED
    BY <2>1, <2>2, Induction
<1>2. PICK G : \A n \in Nat : G[n] \in Partial(n)
  <2>1. \A n \in Nat : \E g : g \in Partial(n)
    BY <1>1
  <2> HIDE DEF Partial
  <2>2. \A n \in Nat : [m \in Nat |-> CHOOSE g : g \in Partial(m)][n] \in Partial(n)
    BY <2>1
  <2>3. QED
    BY <2>2
<1> DEFINE f == [n \in Nat |-> G[n][n]]
<1>3. ASSUME NEW m \in Nat PROVE G[m + 1][m] = G[m][m]
  <2> DEFINE U == {k \in Nat : k <= m => G[m + 1][k] = G[m][k]}
  <2>1. G[m] \in Partial(m) /\ G[m + 1] \in Partial(m + 1)
    BY <1>2
  <2>2. 0 \in U
    BY <2>1
  <2>3. ASSUME NEW k \in U PROVE k + 1 \in U
    <3>1. CASE k + 1 <= m
      <4>1. k + 1 \in 1..m /\ k + 1 \in 1..m + 1 /\ k + 1 - 1 = k
        BY <3>1
      <4>2. G[m + 1][k] = G[m][k]
        BY <3>1
      <4>3. G[m][k + 1] = step[G[m][k + 1 - 1]] /\ G[m + 1][k + 1] = step[G[m + 1][k + 1 - 1]]
        BY <2>1, <4>1
      <4>4. QED
        BY <4>1, <4>2, <4>3
    <3>2. QED
      BY <3>1
  <2>4. U = Nat
    BY <2>2, <2>3, Induction
  <2>5. m \in U
    BY <2>4
  <2>6. QED
    BY <2>5
<1>4. f \in [Nat -> S]
  <2>1. ASSUME NEW n \in Nat PROVE G[n][n] \in S
    <3>1. G[n] \in Partial(n)
      BY <1>2
    <3>2. QED
      BY <3>1
  <2>2. QED
    BY <2>1
<1>5. ASSUME NEW n \in Nat PROVE f[n] = IF n = 0 THEN b ELSE step[f[n - 1]]
  <2>1. G[n] \in Partial(n)
    BY <1>2
  <2>2. CASE n = 0
    BY <2>1, <2>2
  <2>3. CASE n # 0
    <3>1. n \in 1..n /\ n - 1 \in Nat /\ n - 1 + 1 = n
      BY <2>3
    <3>2. G[n][n] = step[G[n][n - 1]]
      BY <2>1, <3>1
    <3>3. G[n - 1 + 1][n - 1] = G[n - 1][n - 1]
      BY <1>3, <3>1
    <3>4. QED
      BY <2>3, <3>1, <3>2, <3>3
  <2>4. QED
    BY <2>2, <2>3
<1>6. f = [n \in Nat |-> IF n = 0 THEN b ELSE step[f[n - 1]]]
  <2> DEFINE h == [n \in Nat |-> IF n = 0 THEN b ELSE step[f[n - 1]]]
  <2>1. \A n \in Nat : f[n] = h[n]
    BY <1>5
  <2>2. f = [n \in Nat |-> f[n]] /\ h = [n \in Nat |-> h[n]]
    OBVIOUS
  <2> HIDE DEF f, h
  <2>3. f = h
    BY <2>1, <2>2
  <2>4. QED
    BY <2>3 DEF h
<1>7. QED
  BY <1>4, <1>6

-----------------------------------------------------------------------------
(* The edges of the graph, and the table of Bellman and Ford.              *)

AllEdges(g) == UNION {ToSet(g[u]) : u \in Vertex}
WellFormed(g) == DOMAIN g = Vertex /\ \A v \in Vertex : g[v] \in Seq(Edges(v))

LEMMA EdgeOfGraph ==
  ASSUME WellFormed(edges)
  PROVE  /\ \A u \in Vertex : \A n \in 1..Len(edges[u]) :
              /\ edges[u][n] \in AllEdges(edges) /\ edges[u][n].begin = u
              /\ edges[u][n] \in ToSet(edges[u])
         /\ \A e \in AllEdges(edges) : /\ e.begin \in Vertex /\ e.end \in Page /\ e.weight \in Nat
                                /\ \E n \in 1..Len(edges[e.begin]) : edges[e.begin][n] = e
<1>1. ASSUME NEW u \in Vertex, NEW n \in 1..Len(edges[u])
      PROVE  /\ edges[u][n] \in AllEdges(edges) /\ edges[u][n].begin = u
             /\ edges[u][n] \in ToSet(edges[u])
  <2>1. edges[u] \in Seq(Edges(u))
    BY DEF WellFormed
  <2>2. edges[u][n] \in Edges(u) /\ n \in DOMAIN edges[u]
    BY <2>1
  <2>3. edges[u][n] \in ToSet(edges[u])
    BY <2>2 DEF ToSet
  <2>4. QED
    BY <2>2, <2>3 DEF AllEdges, Edges
<1>2. ASSUME NEW e \in AllEdges(edges)
      PROVE  /\ e.begin \in Vertex /\ e.end \in Page /\ e.weight \in Nat
             /\ \E n \in 1..Len(edges[e.begin]) : edges[e.begin][n] = e
  <2>1. PICK u \in Vertex : e \in ToSet(edges[u])
    BY <1>2 DEF AllEdges
  <2>2. PICK n \in DOMAIN edges[u] : e = edges[u][n]
    BY <2>1 DEF ToSet
  <2>3. edges[u] \in Seq(Edges(u))
    BY DEF WellFormed
  <2>4. e \in Edges(u) /\ n \in 1..Len(edges[u])
    BY <2>2, <2>3
  <2>5. QED
    BY <2>2, <2>4 DEF Edges
<1>3. QED
  BY <1>1, <1>2

LEMMA LeastOf ==
  ASSUME NEW T, T \subseteq Nat, T # {}
  PROVE  Min(T) \in T /\ \A y \in T : Min(T) <= y
BY Least DEF Min

(* What makes a table of distances that of Bellman and Ford.               *)
Relaxes(g, near, shadow) ==
  /\ \A v \in Vertex : near[0][v] = IF v = shadow THEN 0 ELSE Infinity
  /\ \A n \in Nat, v \in Vertex :
       /\ near[n][v] \in Nat
       /\ near[n + 1][v] <= near[n][v]
       /\ \/ near[n + 1][v] = near[n][v]
          \/ \E e \in AllEdges(g) : e.end = v /\ near[n + 1][v] = near[n][e.begin] + e.weight
  /\ \A n \in Nat, e \in AllEdges(g) : near[n + 1][e.end] <= near[n][e.begin] + e.weight

LEMMA NearestRelaxes ==
  ASSUME WellFormed(edges), NEW shadow \in Vertex
  PROVE  Relaxes(edges, Nearest(shadow), shadow)
<1> DEFINE into == [v \in Vertex |-> {e \in AllEdges(edges) : e.end = v}]
           Options(h, v) == {h[v]} \cup {h[e.begin] + e.weight : e \in into[v]}
           base == [v \in Vertex |-> IF v = shadow THEN 0 ELSE Infinity]
           Next1(h) == [v \in Vertex |-> Min(Options(h, v))]
           S == [Vertex -> Nat]
           step == [h \in S |-> Next1(h)]
           near == Nearest(shadow)
<1>1. near = CHOOSE f : f = [n \in Nat |-> IF n = 0 THEN base ELSE Next1(f[n - 1])]
  BY DEF Nearest, AllEdges
<1>2. ASSUME NEW h \in S, NEW v \in Vertex
      PROVE  Options(h, v) \subseteq Nat /\ h[v] \in Options(h, v)
  BY EdgeOfGraph
<1>3. ASSUME NEW h \in S
      PROVE  /\ Next1(h) \in S
             /\ \A v \in Vertex : /\ Next1(h)[v] \in Options(h, v)
                                  /\ \A y \in Options(h, v) : Next1(h)[v] <= y
  <2>1. ASSUME NEW v \in Vertex
        PROVE  /\ Min(Options(h, v)) \in Options(h, v) /\ Min(Options(h, v)) \in Nat
               /\ \A y \in Options(h, v) : Min(Options(h, v)) <= y
    <3>1. Options(h, v) \subseteq Nat /\ Options(h, v) # {}
      BY <1>2
    <3> HIDE DEF Options
    <3>2. QED
      BY <3>1, LeastOf
  <2> HIDE DEF Options
  <2>2. QED
    BY <2>1
<1>4. base \in S /\ step \in [S -> S]
  <2>1. base \in S
    BY QueueConstants
  <2>2. QED
    BY <1>3, <2>1
<1>5. \E f : f = [n \in Nat |-> IF n = 0 THEN base ELSE Next1(f[n - 1])]
  <2> HIDE DEF base, Next1
  <2> HIDE DEF S
  <2>1. PICK f \in [Nat -> S] : f = [n \in Nat |-> IF n = 0 THEN base ELSE step[f[n - 1]]]
    <3> HIDE DEF step
    <3>1. QED
      BY <1>4, Iteration
  <2>2. ASSUME NEW n \in Nat \ {0}
        PROVE  step[f[n - 1]] = Next1(f[n - 1])
    <3>1. n - 1 \in Nat
      OBVIOUS
    <3>2. f[n - 1] \in S
      BY <2>1, <3>1
    <3>3. QED
      BY <3>2
  <2>3. f = [n \in Nat |-> IF n = 0 THEN base ELSE Next1(f[n - 1])]
    BY <2>1, <2>2
  <2>4. QED
    BY <2>3
<1>6. near = [n \in Nat |-> IF n = 0 THEN base ELSE Next1(near[n - 1])]
  <2> HIDE DEF base, Next1, near
  <2>1. QED
    BY <1>1, <1>5
<1>7. near[0] = base /\ \A n \in Nat : near[n + 1] = Next1(near[n])
  <2> HIDE DEF base, Next1, near
  <2>1. \A n \in Nat : n + 1 \in Nat /\ n + 1 # 0 /\ n + 1 - 1 = n
    OBVIOUS
  <2>2. QED
    BY <1>6, <2>1
<1> HIDE DEF near
<1>8. \A n \in Nat : near[n] \in S
  <2> DEFINE T == {n \in Nat : near[n] \in S}
  <2> HIDE DEF S, base, Next1
  <2>1. 0 \in T /\ \A n \in T : n + 1 \in T
    BY <1>3, <1>4, <1>7
  <2>2. T = Nat
    BY <2>1, Induction
  <2>3. QED
    BY <2>2
<1>9. ASSUME NEW n \in Nat, NEW v \in Vertex
      PROVE  /\ near[n][v] \in Nat
             /\ near[n + 1][v] <= near[n][v]
             /\ \/ near[n + 1][v] = near[n][v]
                \/ \E e \in AllEdges(edges) : e.end = v /\ near[n + 1][v] = near[n][e.begin] + e.weight
  <2>1. near[n + 1][v] \in Options(near[n], v) /\ near[n + 1][v] <= near[n][v]
    <3> HIDE DEF Next1
    <3>1. near[n] \in S /\ near[n + 1] = Next1(near[n])
      BY <1>7, <1>8
    <3>2. near[n][v] \in Options(near[n], v)
      OBVIOUS
    <3> HIDE DEF S, Options
    <3>3. QED
      BY <1>3, <3>1, <3>2
  <2>2. near[n][v] \in Nat
    BY <1>8
  <2>3. QED
    BY <2>1, <2>2
<1>10. ASSUME NEW n \in Nat, NEW e \in AllEdges(edges)
       PROVE  near[n + 1][e.end] <= near[n][e.begin] + e.weight
  <2>1. e.end \in Vertex
    BY EdgeOfGraph DEF Vertex
  <2>2. near[n][e.begin] + e.weight \in Options(near[n], e.end)
    BY <2>1
  <2>3. near[n] \in S /\ near[n + 1] = Next1(near[n])
    BY <1>7, <1>8
  <2> HIDE DEF S, Options, Next1
  <2>4. QED
    BY <1>3, <2>1, <2>2, <2>3
<1>11. \A v \in Vertex : near[0][v] = IF v = shadow THEN 0 ELSE Infinity
  BY <1>7
<1>12. Relaxes(edges, near, shadow)
  BY <1>9, <1>10, <1>11 DEF Relaxes
<1>13. QED
  BY <1>12 DEF near

-----------------------------------------------------------------------------
(* One search: its labels, and what they say of the shortest distances.    *)
(* A page is known when it has a label, and known pages wait or are scanned.*)

Known(dist) == {v \in Vertex : dist[v] # None}

Labelled(dist, hops, waiting, scanned, shadow) ==
  /\ dist \in [Vertex -> (0..MaxBucket) \cup {None}]
  /\ hops \in [Vertex -> Nat \cup {None}]
  /\ \A v \in Known(dist) : hops[v] \in Nat /\ v \in Page \cup {shadow}
  /\ Known(dist) = waiting \cup scanned
  /\ waiting \cap scanned = {}
  /\ shadow \in Known(dist) /\ dist[shadow] = 0

(* No waiting page is nearer than a scanned one, and of these the current  *)
(* page is the farthest.                                                   *)
Sorted(dist, waiting, scanned) ==
  \A u \in scanned, v \in waiting : dist[u] <= dist[v]
Farthest(dist, scanned, page) ==
  page \in scanned /\ \A u \in scanned : dist[u] <= dist[page]

(* A label has no more links than there are scanned pages to take them.    *)
Counted(hops, waiting, scanned) ==
  /\ IsFiniteSet(scanned)
  /\ \A v \in waiting : hops[v] <= Cardinality(scanned)
  /\ \A v \in scanned : hops[v] + 1 <= Cardinality(scanned)

(* A label is the length of a walk.                                        *)
Walked(dist, hops, near) == \A v \in Known(dist) : near[hops[v]][v] <= dist[v]

(* A page with as many links as the limit allows is spent: it passes       *)
(* nothing on.                                                             *)
Unspent(hops, scanned, limit) == {u \in scanned : hops[u] < limit}

(* An edge of another scanned page offers its end nothing better, within   *)
(* the bound, but those still to be relaxed: of the current page, from     *)
(* todo.                                                                   *)
Relaxed(dist, e, bound) ==
  LET d == dist[e.begin] + e.weight
  IN  d > bound \/ (e.end \in Known(dist) /\ dist[e.end] <= d)
Settled(g, dist, hops, limit, scanned, page, todo, bound) ==
  \A u \in Unspent(hops, scanned, limit) : \A n \in 1..Len(g[u]) :
    ~(u = page /\ n \in todo) => Relaxed(dist, g[u][n], bound)

(* The more edges are allowed, the nearer a page is.                       *)
LEMMA Fewer ==
  ASSUME NEW near, NEW shadow, Relaxes(edges, near, shadow), NEW v \in Vertex,
         NEW m \in Nat, NEW n \in Nat, m <= n
  PROVE  near[n][v] <= near[m][v]
<1> DEFINE T == {k \in Nat : near[m + k][v] <= near[m][v]}
<1>1. 0 \in T
  BY DEF Relaxes
<1>2. ASSUME NEW k \in T PROVE k + 1 \in T
  <2>1. m + k \in Nat /\ m + k + 1 = m + (k + 1) /\ m + k + 1 \in Nat
    OBVIOUS
  <2>2. near[m + k + 1][v] <= near[m + k][v] /\ near[m + k][v] \in Nat /\ near[m + k + 1][v] \in Nat
        /\ near[m][v] \in Nat
    BY <2>1 DEF Relaxes
  <2>3. near[m + k][v] <= near[m][v]
    OBVIOUS
  <2>4. QED
    BY <2>1, <2>2, <2>3
<1>3. T = Nat
  BY <1>1, <1>2, Induction
<1> HIDE DEF T
<1>4. n - m \in T
  BY <1>3
<1>5. near[m + (n - m)][v] <= near[m][v]
  BY <1>4 DEF T
<1>6. m + (n - m) = n
  OBVIOUS
<1>7. QED
  BY <1>5, <1>6

(* The arithmetic of one more edge.                                        *)
LEMMA AddUp ==
  ASSUME NEW du \in Nat, NEW nu \in Nat, NEW w \in Nat, NEW dp \in Nat, NEW b \in Nat,
         NEW nv, nv = nu + w, nv <= b
  PROVE  /\ nu <= b
         /\ dp <= nu => dp <= nv
         /\ du <= nu => ~(du + w > b) /\ du + w <= nv
         /\ du <= nu /\ ~(dp <= nu) => du < dp
OBVIOUS

(* No walk of length at most the bound that is shorter than the distance   *)
(* of every spent page is shorter than the label of the nearest waiting    *)
(* page, unless it ends at a page with as good a label.                    *)
Clear(dist, hops, limit, scanned, length) ==
  \A x \in scanned : hops[x] >= limit => length < dist[x]

LEMMA NoShortcut ==
  ASSUME WellFormed(edges),
         NEW shadow \in Vertex, NEW near, Relaxes(edges, near, shadow),
         NEW dist, NEW hops, NEW waiting, NEW scanned, NEW page, NEW bound \in Nat, NEW limit \in Nat,
         Labelled(dist, hops, waiting, scanned, shadow),
         Settled(edges, dist, hops, limit, scanned, page, {}, bound),
         NEW p \in waiting, \A v \in waiting : dist[p] <= dist[v]
  PROVE  \A n \in Nat, v \in Vertex :
           near[n][v] <= bound /\ Clear(dist, hops, limit, scanned, near[n][v]) =>
             (v \in Known(dist) /\ dist[v] <= near[n][v]) \/ dist[p] <= near[n][v]
<1> DEFINE Good(n, v) == near[n][v] <= bound /\ Clear(dist, hops, limit, scanned, near[n][v]) =>
             (v \in Known(dist) /\ dist[v] <= near[n][v]) \/ dist[p] <= near[n][v]
           T == {n \in Nat : \A v \in Vertex : Good(n, v)}
<1>1. /\ \A v \in Known(dist) : v \in Vertex /\ dist[v] \in Nat /\ hops[v] \in Nat /\ dist[v] <= MaxBucket
      /\ scanned \subseteq Known(dist)
  BY QueueConstants DEF Labelled, Known
<1>2. p \in Known(dist)
  BY DEF Labelled
<1>3. 0 \in T
  <2>1. ASSUME NEW v \in Vertex PROVE Good(0, v)
    <3>1. CASE v = shadow
      BY <3>1 DEF Labelled, Relaxes
    <3>2. CASE v # shadow
      <4>1. near[0][v] = Infinity
        BY <3>2 DEF Relaxes
      <4>2. dist[p] <= Infinity
        BY <1>1, <1>2, QueueConstants
      <4>3. QED
        BY <4>1, <4>2
    <3>3. QED
      BY <3>1, <3>2
  <2>2. QED
    BY <2>1
<1>4. ASSUME NEW n \in T, NEW v \in Vertex PROVE Good(n + 1, v)
  <2>1. \A u \in Vertex : near[n][u] \in Nat /\ Good(n, u)
    BY DEF Relaxes
  <2>2. CASE near[n + 1][v] = near[n][v]
    BY <2>1, <2>2
  <2>3. ASSUME NEW e \in AllEdges(edges), e.end = v, near[n + 1][v] = near[n][e.begin] + e.weight,
               near[n + 1][v] <= bound, Clear(dist, hops, limit, scanned, near[n + 1][v])
        PROVE  (v \in Known(dist) /\ dist[v] <= near[n + 1][v]) \/ dist[p] <= near[n + 1][v]
    <3> DEFINE u == e.begin
    <3>1. u \in Vertex /\ e.weight \in Nat /\ near[n][u] \in Nat /\ dist[p] \in Nat
      BY <1>1, <1>2, <2>1, EdgeOfGraph
    <3>2. near[n][u] <= bound /\ (dist[p] <= near[n][u] => dist[p] <= near[n + 1][v])
      BY <2>3, <3>1, AddUp
    <3>a. Clear(dist, hops, limit, scanned, near[n][u])
      <4>1. near[n + 1][v] \in Nat /\ near[n][u] <= near[n + 1][v]
        BY <2>3, <3>1
      <4>2. ASSUME NEW x \in scanned, near[n + 1][v] < dist[x] PROVE near[n][u] < dist[x]
        BY <1>1, <3>1, <4>1, <4>2
      <4>3. QED
        BY <2>3, <4>2 DEF Clear
    <3>3. CASE dist[p] <= near[n][u]
      BY <3>2, <3>3
    <3>4. CASE ~(dist[p] <= near[n][u])
      <4>1. u \in Known(dist) /\ dist[u] <= near[n][u]
        BY <2>1, <3>1, <3>2, <3>a, <3>4
      <4>2. dist[u] \in Nat
        BY <1>1, <4>1
      <4>3. dist[u] < dist[p] /\ ~(dist[u] + e.weight > bound) /\ dist[u] + e.weight <= near[n + 1][v]
        BY <2>3, <3>1, <3>4, <4>1, <4>2, AddUp
      <4>4. u \notin waiting
        BY <3>1, <4>2, <4>3
      <4>5. u \in scanned
        BY <4>1, <4>4 DEF Labelled
      <4>6. PICK k \in 1..Len(edges[u]) : edges[u][k] = e
        BY EdgeOfGraph
      <4>a. u \in Unspent(hops, scanned, limit)
        <5>1. ~(near[n][u] < dist[u]) /\ hops[u] \in Nat
          BY <1>1, <3>1, <4>1, <4>2
        <5>2. QED
          BY <3>a, <4>5, <5>1 DEF Clear, Unspent
      <4>7. Relaxed(dist, e, bound)
        BY <4>6, <4>a DEF Settled
      <4>8. v \in Known(dist) /\ dist[v] <= dist[u] + e.weight
        BY <2>3, <4>3, <4>7 DEF Relaxed
      <4>9. dist[v] \in Nat /\ near[n + 1][v] \in Nat
        BY <1>1, <4>8 DEF Relaxes
      <4>10. QED
        BY <3>1, <4>2, <4>3, <4>8, <4>9
    <3>5. QED
      BY <3>3, <3>4
  <2>4. near[n + 1][v] = near[n][v] \/ \E e \in AllEdges(edges) : e.end = v /\ near[n + 1][v] = near[n][e.begin] + e.weight
    BY DEF Relaxes
  <2>5. QED
    BY <2>2, <2>3, <2>4
<1>5. T = Nat
  <2>1. \A n \in T : n + 1 \in T
    BY <1>4
  <2>2. QED
    BY <1>3, <2>1, Induction
<1>6. QED
  BY <1>5

(* The pages a search can have scanned when it scans another.              *)
LEMMA FewScanned ==
  ASSUME NEW shadow \in Vertex, NEW scanned, IsFiniteSet(scanned), scanned \subseteq Page \cup {shadow}
  PROVE  /\ Cardinality(scanned) \in Nat /\ Cardinality(Page) \in Nat
         /\ Cardinality(scanned) <= Cardinality(Page) + 1
<1>1. IsFiniteSet(Page)
  BY GraphAssumption DEF GraphAssumption
<1>2. IsFiniteSet(Page \cup {shadow}) /\ Cardinality(Page) \in Nat /\ Cardinality(Page \cup {shadow}) \in Nat
      /\ Cardinality(Page \cup {shadow}) <= Cardinality(Page) + 1
  <2>1. Cardinality(Page) \in Nat
    BY <1>1, FS_CardinalityType
  <2>2. /\ IsFiniteSet(Page \cup {shadow})
        /\ \/ Cardinality(Page \cup {shadow}) = Cardinality(Page)
           \/ Cardinality(Page \cup {shadow}) = Cardinality(Page) + 1
    BY <1>1, FS_AddElement
  <2>3. QED
    BY <2>1, <2>2
<1>3. Cardinality(scanned) <= Cardinality(Page \cup {shadow})
  BY <1>2, FS_Subset
<1>4. Cardinality(scanned) \in Nat
  BY FS_CardinalityType
<1>5. QED
  BY <1>2, <1>3, <1>4

(* The nearest waiting page is scanned: its distance is final, unless the  *)
(* bound or a spent page cut the way.                                      *)
LEMMA ScanIsFinal ==
  ASSUME WellFormed(edges),
         NEW shadow \in Vertex, NEW near, Relaxes(edges, near, shadow),
         NEW dist, NEW hops, NEW waiting, NEW scanned, NEW page, NEW bound \in Nat, NEW limit \in Nat,
         Labelled(dist, hops, waiting, scanned, shadow),
         Counted(hops, waiting, scanned), Walked(dist, hops, near),
         Settled(edges, dist, hops, limit, scanned, page, {}, bound),
         NEW p \in waiting, \A v \in waiting : dist[p] <= dist[v]
  PROVE  /\ dist[p] >= near[Cardinality(Page)][p]
         /\ \/ dist[p] = near[Cardinality(Page)][p]
            \/ near[Cardinality(Page)][p] > bound
            \/ \E x \in scanned : hops[x] >= limit /\ dist[x] <= near[Cardinality(Page)][p]
<1> DEFINE N == Cardinality(Page)
<1>1. p \in Known(dist) /\ p \in Vertex /\ dist[p] \in Nat /\ hops[p] \in Nat /\ p \notin scanned
      /\ p \in Page \cup {shadow}
  BY QueueConstants DEF Labelled, Known
<1>2. hops[p] <= N /\ N \in Nat
  <2>1. IsFiniteSet(scanned) /\ hops[p] <= Cardinality(scanned) /\ scanned \subseteq Page \cup {shadow}
    BY DEF Counted, Labelled
  <2>2. IsFiniteSet(scanned \cup {p}) /\ Cardinality(scanned \cup {p}) = Cardinality(scanned) + 1
    BY <1>1, <2>1, FS_AddElement
  <2>3. Cardinality(scanned \cup {p}) <= N + 1 /\ N \in Nat
    BY <1>1, <2>1, <2>2, FewScanned
  <2>4. Cardinality(scanned) \in Nat
    BY <2>1, FS_CardinalityType
  <2>5. QED
    BY <1>1, <2>1, <2>2, <2>3, <2>4
<1>3. near[N][p] <= near[hops[p]][p]
  BY <1>1, <1>2, Fewer
<1>4. near[hops[p]][p] <= dist[p]
  BY <1>1 DEF Walked
<1>5. near[N][p] \in Nat /\ near[hops[p]][p] \in Nat
  BY <1>1, <1>2 DEF Relaxes
<1>6. near[N][p] <= bound /\ Clear(dist, hops, limit, scanned, near[N][p]) => dist[p] <= near[N][p]
  <2>1. \A n \in Nat, v \in Vertex :
          near[n][v] <= bound /\ Clear(dist, hops, limit, scanned, near[n][v]) =>
            (v \in Known(dist) /\ dist[v] <= near[n][v]) \/ dist[p] <= near[n][v]
    BY NoShortcut
  <2>2. QED
    BY <1>1, <1>2, <2>1
<1>a. Clear(dist, hops, limit, scanned, near[N][p]) \/ \E x \in scanned : hops[x] >= limit /\ dist[x] <= near[N][p]
  <2>1. \A x \in scanned : dist[x] \in Nat
    BY QueueConstants DEF Labelled, Known
  <2>2. QED
    BY <1>5, <2>1 DEF Clear
<1>7. QED
  BY <1>1, <1>3, <1>4, <1>5, <1>6, <1>a

-----------------------------------------------------------------------------
(* One search: what scanning a page, passing an edge over, and bringing a  *)
(* page nearer do to it.                                                   *)

(* The edges from the k-th on.                                             *)
From(k) == {n \in Nat : n >= k}

Search(dist, hops, waiting, scanned, shadow, near) ==
  /\ Labelled(dist, hops, waiting, scanned, shadow)
  /\ Sorted(dist, waiting, scanned)
  /\ Counted(hops, waiting, scanned)
  /\ Walked(dist, hops, near)

(* A page is scanned: none of its edges is relaxed yet.                    *)
LEMMA Scan ==
  ASSUME NEW shadow \in Vertex, NEW near,
         NEW dist, NEW hops, NEW waiting, NEW scanned, NEW bound, NEW limit, NEW page,
         Search(dist, hops, waiting, scanned, shadow, near),
         NEW p \in waiting, \A v \in waiting : dist[p] <= dist[v]
  PROVE  /\ Search(dist, hops, waiting \ {p}, scanned \cup {p}, shadow, near)
         /\ Farthest(dist, scanned \cup {p}, p)
         /\ Settled(edges, dist, hops, limit, scanned, page, {}, bound) =>
              Settled(edges, dist, hops, limit, scanned \cup {p}, p, From(1), bound)
<1>1. /\ \A v \in Known(dist) : dist[v] \in Nat /\ hops[v] \in Nat
      /\ Known(dist) = waiting \cup scanned
      /\ p \in waiting /\ p \notin scanned
  BY QueueConstants DEF Search, Labelled, Known
<1>2. Labelled(dist, hops, waiting \ {p}, scanned \cup {p}, shadow)
  BY <1>1 DEF Search, Labelled
<1>3. Sorted(dist, waiting \ {p}, scanned \cup {p})
  BY DEF Search, Sorted
<1>4. Counted(hops, waiting \ {p}, scanned \cup {p})
  <2>1. IsFiniteSet(scanned) /\ Cardinality(scanned) \in Nat
    BY FS_CardinalityType DEF Search, Counted
  <2>2. IsFiniteSet(scanned \cup {p}) /\ Cardinality(scanned \cup {p}) = Cardinality(scanned) + 1
    BY <1>1, <2>1, FS_AddElement
  <2>3. \A v \in waiting : hops[v] \in Nat /\ hops[v] <= Cardinality(scanned)
    BY <1>1 DEF Search, Counted
  <2>4. \A v \in scanned : hops[v] \in Nat /\ hops[v] + 1 <= Cardinality(scanned)
    BY <1>1 DEF Search, Counted
  <2>5. QED
    BY <2>1, <2>2, <2>3, <2>4 DEF Counted
<1>5. Farthest(dist, scanned \cup {p}, p)
  BY <1>1 DEF Search, Sorted, Farthest
<1>6. ASSUME Settled(edges, dist, hops, limit, scanned, page, {}, bound)
      PROVE  Settled(edges, dist, hops, limit, scanned \cup {p}, p, From(1), bound)
  BY <1>6 DEF Settled, Unspent, From
<1>7. QED
  BY <1>2, <1>3, <1>4, <1>5, <1>6 DEF Search

(* An edge of the current page is passed over.                             *)
LEMMA Skip ==
  ASSUME WellFormed(edges), NEW dist, NEW hops, NEW limit, NEW scanned, NEW page, NEW bound, NEW k \in Nat,
         Settled(edges, dist, hops, limit, scanned, page, From(k), bound),
         page \in Unspent(hops, scanned, limit) /\ k <= Len(edges[page]) =>
           Relaxed(dist, edges[page][k], bound)
  PROVE  Settled(edges, dist, hops, limit, scanned, page, From(k + 1), bound)
<1>1. ASSUME NEW u \in Unspent(hops, scanned, limit), NEW n \in 1..Len(edges[u]),
             ~(u = page /\ n \in From(k + 1))
      PROVE  Relaxed(dist, edges[u][n], bound)
  <2>1. CASE u = page /\ n = k
    BY <2>1
  <2>2. CASE ~(u = page /\ n = k)
    <3>1. ~(u = page /\ n \in From(k))
      BY <1>1, <2>2 DEF From
    <3>2. QED
      BY <3>1 DEF Settled
  <2>3. QED
    BY <2>1, <2>2
<1>2. QED
  BY <1>1 DEF Settled

(* No edge of the current page is left.                                    *)
LEMMA Done ==
  ASSUME WellFormed(edges), NEW dist, NEW hops, NEW limit, NEW scanned, NEW page, NEW bound,
         NEW k \in Nat, page \in Vertex,
         Settled(edges, dist, hops, limit, scanned, page, From(k), bound), k > Len(edges[page])
  PROVE  Settled(edges, dist, hops, limit, scanned, page, {}, bound)
<1>1. ASSUME NEW u \in Unspent(hops, scanned, limit), NEW n \in 1..Len(edges[u])
      PROVE  Relaxed(dist, edges[u][n], bound)
  <2>1. Len(edges[page]) \in Nat
    BY DEF WellFormed
  <2>2. ~(u = page /\ n \in From(k))
    BY <2>1 DEF From
  <2>3. QED
    BY <2>2 DEF Settled
<1>2. QED
  BY <1>1 DEF Settled

(* A bound that falls leaves everything settled, and every distance final. *)
LEMMA Bounded ==
  ASSUME WellFormed(edges), NEW dist, NEW limit, NEW scanned, NEW page, NEW todo,
         NEW hops, NEW waiting, NEW shadow, Labelled(dist, hops, waiting, scanned, shadow),
         NEW bound \in Nat, NEW lower \in Nat, lower <= bound,
         Settled(edges, dist, hops, limit, scanned, page, todo, bound)
  PROVE  Settled(edges, dist, hops, limit, scanned, page, todo, lower)
<1>1. ASSUME NEW u \in Unspent(hops, scanned, limit), NEW n \in 1..Len(edges[u]),
             Relaxed(dist, edges[u][n], bound)
      PROVE  Relaxed(dist, edges[u][n], lower)
  <2>1. u \in Vertex /\ dist[u] \in Nat
    BY QueueConstants DEF Labelled, Known, Unspent
  <2>2. edges[u][n].begin = u /\ edges[u][n].weight \in Nat
    BY <2>1, EdgeOfGraph
  <2>3. QED
    BY <1>1, <2>1, <2>2 DEF Relaxed
<1>2. QED
  BY <1>1 DEF Settled

(* An edge of the current page brings a page that has not been scanned     *)
(* nearer, or reaches it for the first time.                               *)
Nearer(g, page, k, dist, hops, waiting, dist2, hops2, waiting2) ==
  LET e == g[page][k]
      d == dist[page] + e.weight
  IN  /\ d <= MaxBucket
      /\ dist[e.end] # None => d < dist[e.end]
      /\ dist2 = [dist EXCEPT ![e.end] = d]
      /\ hops2 = [hops EXCEPT ![e.end] = hops[page] + 1]
      /\ waiting2 = waiting \cup {e.end}

LEMMA Relax ==
  ASSUME WellFormed(edges),
         NEW shadow \in Vertex, NEW near, Relaxes(edges, near, shadow),
         NEW dist, NEW hops, NEW waiting, NEW scanned, NEW page, NEW k \in Nat,
         Search(dist, hops, waiting, scanned, shadow, near),
         Farthest(dist, scanned, page),
         k \in 1..Len(edges[page]),
         NEW dist2, NEW hops2, NEW waiting2,
         Nearer(edges, page, k, dist, hops, waiting, dist2, hops2, waiting2)
  PROVE  /\ edges[page][k].end \notin scanned /\ edges[page][k].end \in Page
         /\ dist[page] + edges[page][k].weight \in Nat /\ hops[page] + 1 \in Nat
         /\ Search(dist2, hops2, waiting2, scanned, shadow, near)
         /\ Farthest(dist2, scanned, page)
         /\ \A bound, limit : Settled(edges, dist, hops, limit, scanned, page, From(k), bound) =>
                                Settled(edges, dist2, hops2, limit, scanned, page, From(k + 1), bound)
<1>0. PICK e, d, l :
        /\ e = edges[page][k] /\ d = dist[page] + e.weight /\ l = hops[page] + 1
        /\ d <= MaxBucket
        /\ dist[e.end] # None => d < dist[e.end]
        /\ dist2 = [dist EXCEPT ![e.end] = d]
        /\ hops2 = [hops EXCEPT ![e.end] = l]
        /\ waiting2 = waiting \cup {e.end}
  BY DEF Nearer
<1> USE <1>0
<1>1. /\ \A v \in Known(dist) : v \in Vertex /\ dist[v] \in Nat /\ hops[v] \in Nat /\ v \in Page \cup {shadow}
      /\ Known(dist) = waiting \cup scanned
      /\ page \in scanned /\ page \in Known(dist)
      /\ \A v \in Vertex \ Known(dist) : dist[v] = None
      /\ dist \in [Vertex -> (0..MaxBucket) \cup {None}]
      /\ hops \in [Vertex -> Nat \cup {None}]
  BY QueueConstants DEF Search, Labelled, Known, Farthest
<1>2. /\ e \in AllEdges(edges) /\ e.begin = page /\ e.end \in Page /\ e.end \in Vertex /\ e.weight \in Nat
  BY <1>1, EdgeOfGraph DEF Vertex
<1>3. d \in Nat /\ l \in Nat /\ d \in (0..MaxBucket) /\ dist[page] <= d
  <2>1. dist[page] \in Nat /\ hops[page] \in Nat
    BY <1>1
  <2>2. d = dist[page] + e.weight /\ l = hops[page] + 1 /\ d <= MaxBucket
    BY <1>0
  <2>3. MaxBucket \in Nat
    BY QueueConstants
  <2> HIDE <1>0
  <2>4. QED
    BY <1>2, <2>1, <2>2, <2>3
<1>4. e.end \notin scanned
  <2>1. SUFFICES ASSUME e.end \in scanned PROVE FALSE
    OBVIOUS
  <2>2. dist[e.end] <= dist[page]
    BY <2>1 DEF Farthest
  <2>a. e.end \in Known(dist) /\ page \in Known(dist)
    BY <1>1, <2>1
  <2>b. dist[e.end] \in Nat /\ dist[page] \in Nat
    BY <1>1, <2>a
  <2>c. d < dist[e.end]
    BY <1>0, <2>b, QueueConstants
  <2>3. QED
    BY <1>3, <2>2, <2>b, <2>c
<1>5. /\ dist2[e.end] = d /\ hops2[e.end] = l
      /\ \A v \in Vertex : v # e.end => dist2[v] = dist[v] /\ hops2[v] = hops[v]
      /\ dist2 \in [Vertex -> (0..MaxBucket) \cup {None}]
      /\ hops2 \in [Vertex -> Nat \cup {None}]
  BY <1>1, <1>2, <1>3
<1>6. Known(dist2) = Known(dist) \cup {e.end}
  <2> HIDE <1>0
  <2>1. d # None
    BY <1>3, QueueConstants
  <2>2. ASSUME NEW v \in Vertex PROVE dist2[v] # None <=> (dist[v] # None \/ v = e.end)
    BY <1>5, <2>1, <2>2
  <2>3. QED
    BY <1>2, <2>2 DEF Known
<1>7. page # e.end /\ \A u \in scanned : u # e.end /\ u \in Vertex /\ dist2[u] = dist[u] /\ hops2[u] = hops[u]
  <2> HIDE <1>0
  <2>1. page \in scanned /\ \A u \in scanned : u # e.end
    BY <1>1, <1>4
  <2>2. \A u \in scanned : u \in Vertex
    BY <1>1
  <2>3. \A v \in Vertex : v # e.end => dist2[v] = dist[v] /\ hops2[v] = hops[v]
    BY <1>5
  <2>4. QED
    BY <2>1, <2>2, <2>3
<1>8. Labelled(dist2, hops2, waiting2, scanned, shadow)
  <2>1. waiting \cap scanned = {} /\ shadow \in Known(dist) /\ dist[shadow] = 0
    BY DEF Search, Labelled
  <2>2. waiting2 \cap scanned = {}
    BY <1>4, <2>1
  <2>3. dist2[shadow] = 0
    <3>1. CASE shadow = e.end
      <4>1. d < 0
        BY <2>1, <3>1, QueueConstants
      <4>2. QED
        BY <1>3, <4>1
    <3>2. CASE shadow # e.end
      BY <1>5, <2>1, <3>2
    <3>3. QED
      BY <3>1, <3>2
  <2>4. ASSUME NEW v \in Known(dist2) PROVE hops2[v] \in Nat /\ v \in Page \cup {shadow}
    <3> HIDE <1>0
    <3>1. CASE v = e.end
      BY <1>2, <1>3, <1>5, <3>1
    <3>2. CASE v # e.end
      <4>1. v \in Known(dist)
        BY <1>6, <2>4, <3>2
      <4>2. v \in Vertex /\ hops[v] \in Nat /\ v \in Page \cup {shadow}
        BY <1>1, <4>1
      <4>3. hops2[v] = hops[v]
        BY <1>5, <3>2, <4>2
      <4>4. QED
        BY <4>2, <4>3
    <3>3. QED
      BY <3>1, <3>2
  <2>5. Known(dist2) = waiting2 \cup scanned
    BY <1>1, <1>6
  <2>6. QED
    BY <1>5, <1>6, <2>1, <2>2, <2>3, <2>4, <2>5 DEF Labelled
<1>9. Sorted(dist2, waiting2, scanned)
  <2>1. ASSUME NEW u \in scanned, NEW v \in waiting2 PROVE dist2[u] <= dist2[v]
    <3>1. CASE v = e.end
      <4>1. dist[u] <= dist[page] /\ dist[u] \in Nat /\ dist[page] \in Nat
        BY <1>1 DEF Farthest
      <4>2. dist2[u] = dist[u] /\ dist2[v] = d /\ dist[page] <= d /\ d \in Nat
        BY <1>3, <1>5, <1>7, <3>1
      <4> HIDE <1>0
      <4>3. QED
        BY <4>1, <4>2
    <3>2. CASE v # e.end
      <4>1. v \in waiting /\ v \in Vertex
        BY <1>1, <3>2
      <4>2. QED
        BY <1>5, <1>7, <3>2, <4>1 DEF Search, Sorted
    <3>3. QED
      BY <3>1, <3>2
  <2>2. QED
    BY <2>1 DEF Sorted
<1>10. Counted(hops2, waiting2, scanned)
  <2>1. hops[page] + 1 <= Cardinality(scanned)
    BY <1>1 DEF Search, Counted
  <2>2. \A v \in waiting2 : v = e.end \/ (v \in waiting /\ v \in Vertex)
    BY <1>1
  <2>3. Counted(hops, waiting, scanned)
    BY DEF Search
  <2>4. hops2[e.end] = hops[page] + 1
    BY <1>5
  <2> HIDE <1>0
  <2>5. \A v \in waiting2 : hops2[v] <= Cardinality(scanned)
    <3>1. \A v \in waiting : v \in Vertex /\ v # e.end => hops2[v] <= Cardinality(scanned)
      BY <1>5, <2>3 DEF Counted
    <3>2. QED
      BY <2>1, <2>2, <2>4, <3>1
  <2>6. \A u \in scanned : hops2[u] + 1 <= Cardinality(scanned)
    BY <1>7, <2>3 DEF Counted
  <2>7. QED
    BY <2>3, <2>5, <2>6 DEF Counted
<1>11. Walked(dist2, hops2, near)
  <2>1. ASSUME NEW v \in Known(dist2) PROVE near[hops2[v]][v] <= dist2[v]
    <3>1. CASE v = e.end
      <4>1. near[hops[page]][page] <= dist[page]
        BY <1>1 DEF Search, Walked
      <4>2. near[hops[page] + 1][e.end] <= near[hops[page]][page] + e.weight
        BY <1>1, <1>2 DEF Relaxes
      <4>3. near[hops[page]][page] \in Nat /\ near[hops[page] + 1][e.end] \in Nat
        <5>1. hops[page] \in Nat /\ hops[page] + 1 \in Nat /\ page \in Vertex
          BY <1>1
        <5>2. QED
          BY <1>2, <5>1 DEF Relaxes
      <4>4. dist[page] \in Nat
        BY <1>1
      <4>5. near[l][e.end] <= d
        <5>1. l = hops[page] + 1 /\ d = dist[page] + e.weight /\ e.weight \in Nat
          BY <1>0, <1>2
        <5> HIDE <1>0
        <5>2. QED
          BY <5>1, <4>1, <4>2, <4>3, <4>4
      <4>6. QED
        BY <1>5, <3>1, <4>5
    <3>2. CASE v # e.end
      <4>1. v \in Known(dist) /\ v \in Vertex
        BY <1>1, <1>6, <3>2
      <4>2. QED
        BY <1>5, <3>2, <4>1 DEF Search, Walked
    <3>3. QED
      BY <3>1, <3>2
  <2>2. QED
    BY <2>1 DEF Walked
<1>12. Farthest(dist2, scanned, page)
  BY <1>1, <1>7 DEF Farthest
<1>13. ASSUME NEW bound, NEW limit, Settled(edges, dist, hops, limit, scanned, page, From(k), bound)
       PROVE  Settled(edges, dist2, hops2, limit, scanned, page, From(k + 1), bound)
  <2>1. ASSUME NEW u \in scanned, NEW n \in 1..Len(edges[u]), Relaxed(dist, edges[u][n], bound)
        PROVE  Relaxed(dist2, edges[u][n], bound)
    <3> DEFINE f == edges[u][n]
    <3>1. f.begin = u /\ f.end \in Vertex /\ f.weight \in Nat /\ dist[u] \in Nat /\ dist2[u] = dist[u]
      BY <1>1, <1>7, EdgeOfGraph DEF Vertex
    <3> HIDE DEF f
    <3>2. CASE dist[u] + f.weight > bound
      BY <3>1, <3>2 DEF Relaxed, f
    <3>3. CASE f.end \in Known(dist) /\ dist[f.end] <= dist[u] + f.weight
      <4>1. dist[f.end] \in Nat /\ dist[f.end] # None
        BY <1>1, <3>3, QueueConstants
      <4>2. dist2[f.end] <= dist[f.end] /\ dist2[f.end] \in Nat
        BY <1>3, <1>5, <3>1, <4>1
      <4>3. dist2[f.end] <= dist[u] + f.weight
        BY <3>1, <3>3, <4>1, <4>2
      <4>4. QED
        BY <1>6, <3>1, <3>3, <4>3 DEF Relaxed, f
    <3>4. QED
      BY <2>1, <3>1, <3>2, <3>3 DEF Relaxed, f
  <2>2. Relaxed(dist2, e, bound)
    <3>1. e.begin = page /\ dist2[page] = dist[page] /\ dist2[e.end] = d /\ e.end \in Known(dist2)
      BY <1>1, <1>2, <1>5, <1>6, <1>7
    <3>2. QED
      BY <1>3, <3>1 DEF Relaxed
  <2>3. Settled(edges, dist2, hops2, limit, scanned, page, From(k), bound)
    <3>1. Unspent(hops2, scanned, limit) = Unspent(hops, scanned, limit)
      BY <1>7 DEF Unspent
    <3>2. Unspent(hops, scanned, limit) \subseteq scanned
      BY DEF Unspent
    <3>3. QED
      BY <1>13, <2>1, <3>1, <3>2 DEF Settled
  <2>4. QED
    BY <2>2, <2>3, Skip
<1>14. QED
  BY <1>3, <1>2, <1>4, <1>8, <1>9, <1>10, <1>11, <1>12, <1>13 DEF Search

-----------------------------------------------------------------------------
(* The queues.                                                             *)

LEMMA SameQueue ==
  /\ F!Init <=> FP!Init
  /\ F!TypeOK <=> FP!TypeOK
  /\ F!delete_min <=> FP!delete_min
  /\ \A p, d, l : (F!insert(p, d, l) <=> FP!insert(p, d, l))
                  /\ (F!decrease_key(p, d, l) <=> FP!decrease_key(p, d, l))
  /\ R!Init <=> RP!Init
  /\ R!TypeOK <=> RP!TypeOK
  /\ R!delete_min <=> RP!delete_min
  /\ \A p, d, l : (R!insert(p, d, l) <=> RP!insert(p, d, l))
                  /\ (R!decrease_key(p, d, l) <=> RP!decrease_key(p, d, l))
<1>1. (F!Init <=> FP!Init) /\ (R!Init <=> RP!Init)
  BY DEF F!Init, FP!Init, F!Distance, FP!Distance, R!Init, RP!Init, R!Distance, RP!Distance
<1>2. (F!TypeOK <=> FP!TypeOK) /\ (R!TypeOK <=> RP!TypeOK)
  BY DEF F!TypeOK, FP!TypeOK, F!Distance, FP!Distance, R!TypeOK, RP!TypeOK, R!Distance, RP!Distance
<1>3. (F!delete_min <=> FP!delete_min) /\ (R!delete_min <=> RP!delete_min)
  BY DEF F!delete_min, FP!delete_min, F!FirstFilled, FP!FirstFilled,
         R!delete_min, RP!delete_min, R!FirstFilled, RP!FirstFilled
<1>4. ASSUME NEW p, NEW d, NEW l
      PROVE  (F!insert(p, d, l) <=> FP!insert(p, d, l))
             /\ (R!insert(p, d, l) <=> RP!insert(p, d, l))
  BY DEF F!insert, FP!insert, F!Place, FP!Place, R!insert, RP!insert, R!Place, RP!Place
<1>5. ASSUME NEW p, NEW d, NEW l
      PROVE  (F!decrease_key(p, d, l) <=> FP!decrease_key(p, d, l))
             /\ (R!decrease_key(p, d, l) <=> RP!decrease_key(p, d, l))
  BY DEF F!decrease_key, FP!decrease_key, F!Place, FP!Place, F!Queued, FP!Queued,
         F!InBucket, FP!InBucket, F!Without, FP!Without, F!Distance, FP!Distance,
         R!decrease_key, RP!decrease_key, R!Place, RP!Place, R!Queued, RP!Queued,
         R!InBucket, RP!InBucket, R!Without, RP!Without, R!Distance, RP!Distance
<1>6. QED
  BY <1>1, <1>2, <1>3, <1>4, <1>5

LEMMA QueueStays ==
  ASSUME UNCHANGED <<fBuckets, fDistance, fLinks, fMin, fSize, fPage>>
  PROVE  (FP!QueueInv <=> FP!QueueInv') /\ FP!Waiting' = FP!Waiting
<1>1. FP!Waiting' = FP!Waiting
  BY DEF FP!Waiting, FP!Queued, FP!InBucket
<1>2. FP!QueueInv <=> FP!QueueInv'
  BY DEF FP!QueueInv, FP!TypeOK, FP!Linked, FP!LowerAreEmpty, FP!RestsOnLast
<1>3. QED
  BY <1>1, <1>2

LEMMA FTakesNearest ==
  ASSUME FP!QueueInv, F!delete_min
  PROVE  /\ FP!QueueInv'
         /\ fDistance' = fDistance /\ fLinks' = fLinks
         /\ \/ fPage' = None /\ FP!Waiting = {} /\ FP!Waiting' = {}
            \/ /\ fPage' \in FP!Waiting /\ FP!Waiting' = FP!Waiting \ {fPage'}
               /\ \A q \in FP!Waiting : fDistance[fPage'] <= fDistance[q]
<1>1. FP!delete_min
  BY SameQueue
<1>2. QED
  BY QueueConstants, <1>1, FP!TakesNearest

-----------------------------------------------------------------------------
(* The inductive invariant.                                                *)

Searching == pc \in {"forward", "forward_edges", "reverse", "reverse_edges"}
Todo(place) == IF pc = place THEN From(i) ELSE {}

GraphInv == WellFormed(edges) /\ maxLinks \in Nat
Control ==
  /\ pc \in {"start", "forward", "forward_edges", "reverse", "reverse_edges",
             "assemble", "done", "overrun"}
  /\ i \in Nat \ {0}
  /\ sigma \in Nat
  /\ {intersect, middle} \subseteq Page \cup {None}

ReachedBy(g, t) ==
  /\ DOMAIN t = Vertex
  /\ \A v \in Vertex : t[v] # None => t[v] \in ToSet(g[t[v].begin]) /\ t[v].end = v

ForwardInv ==
  /\ FP!QueueInv
  /\ ReachedBy(edges, predecessors)
  /\ pc = "start" =>
       fDistance = [v \in Vertex |-> None] /\ FP!Waiting = {} /\ fScanned = {}
       /\ fLinks = [v \in Vertex |-> None]
  /\ Searching =>
       /\ Search(fDistance, fLinks, FP!Waiting, fScanned, Src, Nearest(Src))
       /\ Settled(edges, fDistance, fLinks, RealMaxLinks, fScanned, fPage, Todo("forward_edges"), sigma)
  /\ pc = "forward_edges" => Farthest(fDistance, fScanned, fPage)
  /\ fScanned \subseteq Vertex
  /\ Final(fScanned, fDistance, fLinks, Shortest(Src))

ReverseInv ==
  /\ RP!QueueInv
  /\ ReachedBy(edges, successors)
  /\ pc = "start" =>
       rDistance = [v \in Vertex |-> None] /\ RP!Waiting = {} /\ rScanned = {}
       /\ rLinks = [v \in Vertex |-> None]
  /\ Searching =>
       /\ Search(rDistance, rLinks, RP!Waiting, rScanned, Dst, Nearest(Dst))
       /\ Settled(edges, rDistance, rLinks, RealMaxLinks, rScanned, rPage, Todo("reverse_edges"), sigma)
  /\ pc = "reverse_edges" => Farthest(rDistance, rScanned, rPage)
  /\ rScanned \subseteq Vertex
  /\ Final(rScanned, rDistance, rLinks, Shortest(Dst))

ChainInv == GraphInv /\ Control /\ ForwardInv /\ ReverseInv

-----------------------------------------------------------------------------
(* The steps of the forward search.                                        *)

LEMMA NearestStays ==
  ASSUME UNCHANGED edges
  PROVE  /\ Nearest(Src)' = Nearest(Src) /\ Shortest(Src)' = Shortest(Src)
         /\ Nearest(Dst)' = Nearest(Dst) /\ Shortest(Dst)' = Shortest(Dst)
BY DEF Nearest, Shortest

LEMMA Shadows ==
  ASSUME GraphInv
  PROVE  /\ Src \in Vertex /\ Dst \in Vertex /\ Src # Dst /\ Src \notin Page /\ Dst \notin Page
         /\ Relaxes(edges, Nearest(Src), Src) /\ Relaxes(edges, Nearest(Dst), Dst)
         /\ Shortest(Src) = Nearest(Src)[Cardinality(Page)]
         /\ Shortest(Dst) = Nearest(Dst)[Cardinality(Page)]
         /\ \A v \in Vertex : Shortest(Src)[v] \in Nat /\ Shortest(Dst)[v] \in Nat
         /\ RealMaxLinks \in Nat
<1>1. /\ Src \in Vertex /\ Dst \in Vertex /\ Src # Dst /\ Src \notin Page /\ Dst \notin Page
  BY ChainAssumption DEF ChainAssumption, Vertex
<1>2. Relaxes(edges, Nearest(Src), Src) /\ Relaxes(edges, Nearest(Dst), Dst)
  BY <1>1, NearestRelaxes DEF GraphInv
<1>3. Shortest(Src) = Nearest(Src)[Cardinality(Page)] /\ Shortest(Dst) = Nearest(Dst)[Cardinality(Page)]
  BY DEF Shortest
<1>4. Cardinality(Page) \in Nat
  BY GraphAssumption, FS_CardinalityType DEF GraphAssumption
<1>5. RealMaxLinks \in Nat
  BY DEF GraphInv, RealMaxLinks
<1>6. QED
  BY <1>1, <1>2, <1>3, <1>4, <1>5 DEF Relaxes

(* The distances that are final, by the bound and the spent pages.         *)
FinalFor(scanned, dist, hops, limit, shortest, bound) ==
  \A v \in scanned :
    /\ dist[v] >= shortest[v]
    /\ \/ dist[v] = shortest[v]
       \/ shortest[v] > bound
       \/ \E x \in scanned \ {v} : hops[x] >= limit /\ dist[x] <= shortest[v]

LEMMA FinalStays ==
  ASSUME NEW scanned, scanned \subseteq Vertex,
         NEW dist, NEW dist2, NEW hops, NEW hops2,
         \A v \in scanned : dist2[v] = dist[v] /\ hops2[v] = hops[v],
         NEW shortest, \A v \in Vertex : shortest[v] \in Nat,
         NEW bound \in Nat, NEW lower \in Nat, lower <= bound, NEW limit,
         FinalFor(scanned, dist, hops, limit, shortest, bound)
  PROVE  FinalFor(scanned, dist2, hops2, limit, shortest, lower)
<1>1. ASSUME NEW v \in scanned
      PROVE  /\ dist2[v] >= shortest[v]
             /\ \/ dist2[v] = shortest[v]
                \/ shortest[v] > lower
                \/ \E x \in scanned \ {v} : hops2[x] >= limit /\ dist2[x] <= shortest[v]
  <2>1. /\ dist[v] >= shortest[v]
        /\ \/ dist[v] = shortest[v]
           \/ shortest[v] > bound
           \/ \E x \in scanned \ {v} : hops[x] >= limit /\ dist[x] <= shortest[v]
        /\ dist2[v] = dist[v] /\ shortest[v] \in Nat
    BY DEF FinalFor
  <2>2. shortest[v] > bound => shortest[v] > lower
    BY <2>1
  <2>3. QED
    BY <2>1, <2>2
<1>2. QED
  BY <1>1 DEF FinalFor

LEMMA Meets ==
  ASSUME Control, NEW v \in Page, NEW d \in Nat, Meet(v, d) \/ UNCHANGED meeting
  PROVE  sigma' \in Nat /\ sigma' <= sigma /\ intersect' \in Page \cup {None}
BY DEF Meet, meeting, Control

(* A step of the reverse search, or one that ends the loop, leaves the     *)
(* forward search as it is; the bound may fall.                            *)
LEMMA ForwardRests ==
  ASSUME GraphInv, Control, ForwardInv, UNCHANGED graph, UNCHANGED fVars,
         sigma' \in Nat, sigma' <= sigma,
         pc' # "start", pc' # "forward_edges",
         Searching' => Searching /\ pc # "forward_edges"
  PROVE  ForwardInv'
<1>1. UNCHANGED <<edges, maxLinks, fDistance, fLinks, fScanned, predecessors, fPage>>
  BY DEF graph, fVars
<1>2. FP!QueueInv' /\ FP!Waiting' = FP!Waiting
  BY QueueStays DEF ForwardInv, fVars
<1>3. RealMaxLinks' = RealMaxLinks /\ Todo("forward_edges")' = {}
  BY <1>1 DEF RealMaxLinks, Todo
<1>4. Searching' => Todo("forward_edges") = {}
  BY DEF Todo
<1>5. /\ Nearest(Src)' = Nearest(Src) /\ Shortest(Src)' = Shortest(Src)
  BY <1>1, NearestStays
<1>6. ASSUME Searching'
      PROVE  /\ Search(fDistance, fLinks, FP!Waiting, fScanned, Src, Nearest(Src))
             /\ Settled(edges, fDistance, fLinks, RealMaxLinks, fScanned, fPage, {}, sigma')
  <2>1. Search(fDistance, fLinks, FP!Waiting, fScanned, Src, Nearest(Src))
    BY <1>6 DEF ForwardInv
  <2>2. Settled(edges, fDistance, fLinks, RealMaxLinks, fScanned, fPage, {}, sigma')
    <3>1. Settled(edges, fDistance, fLinks, RealMaxLinks, fScanned, fPage, {}, sigma)
      BY <1>4, <1>6 DEF ForwardInv
    <3>2. Labelled(fDistance, fLinks, FP!Waiting, fScanned, Src)
      BY <2>1 DEF Search
    <3>3. sigma \in Nat /\ WellFormed(edges)
      BY DEF Control, GraphInv
    <3>4. QED
      BY <3>1, <3>2, <3>3, Bounded
  <2>3. QED
    BY <2>1, <2>2
<1>7. FinalFor(fScanned, fDistance, fLinks, RealMaxLinks, Shortest(Src), sigma')
  <2>1. FinalFor(fScanned, fDistance, fLinks, RealMaxLinks, Shortest(Src), sigma)
    BY DEF ForwardInv, Final, FinalFor
  <2>2. sigma \in Nat /\ fScanned \subseteq Vertex
    BY DEF Control, ForwardInv
  <2>3. \A v \in Vertex : Shortest(Src)[v] \in Nat
    BY Shadows
  <2>4. QED
    BY <2>1, <2>2, <2>3, FinalStays
<1>8. Final(fScanned, fDistance, fLinks, Shortest(Src))'
  BY <1>1, <1>3, <1>5, <1>7 DEF Final, FinalFor
<1>9. ReachedBy(edges, predecessors)' /\ fScanned' \subseteq Vertex
  BY <1>1 DEF ForwardInv
<1>10. QED
  BY <1>1, <1>2, <1>3, <1>5, <1>6, <1>8, <1>9 DEF ForwardInv

(* The forward search scans its nearest page, or finds none waiting.       *)
LEMMA ForwardScans ==
  ASSUME GraphInv, Control, ForwardInv, UNCHANGED graph, pc = "forward",
         F!delete_min, UNCHANGED predecessors,
         sigma' \in Nat, sigma' <= sigma,
         \/ /\ fPage' = None /\ fScanned' = fScanned
            /\ pc' = "reverse"
         \/ /\ fPage' # None /\ fScanned' = fScanned \cup {fPage'}
            /\ pc' = "assemble" \/ (pc' = "forward_edges" /\ i' = 1 /\ sigma' = sigma)
  PROVE  ForwardInv'
<1>1. UNCHANGED <<edges, maxLinks>>
  BY DEF graph
<1>2. /\ FP!QueueInv'
      /\ fDistance' = fDistance /\ fLinks' = fLinks
      /\ \/ fPage' = None /\ FP!Waiting = {} /\ FP!Waiting' = {}
         \/ /\ fPage' \in FP!Waiting /\ FP!Waiting' = FP!Waiting \ {fPage'}
            /\ \A q \in FP!Waiting : fDistance[fPage'] <= fDistance[q]
  BY FTakesNearest DEF ForwardInv
<1>3. RealMaxLinks' = RealMaxLinks
  BY <1>1 DEF RealMaxLinks
<1>4. Nearest(Src)' = Nearest(Src) /\ Shortest(Src)' = Shortest(Src)
  BY <1>1, NearestStays
<1>5. /\ Search(fDistance, fLinks, FP!Waiting, fScanned, Src, Nearest(Src))
      /\ Settled(edges, fDistance, fLinks, RealMaxLinks, fScanned, fPage, {}, sigma)
  BY DEF ForwardInv, Searching, Todo
<1>6. /\ Src \in Vertex /\ Relaxes(edges, Nearest(Src), Src) /\ WellFormed(edges)
      /\ \A v \in Vertex : Shortest(Src)[v] \in Nat
      /\ Shortest(Src) = Nearest(Src)[Cardinality(Page)]
      /\ sigma \in Nat /\ fScanned \subseteq Vertex /\ RealMaxLinks \in Nat
  BY Shadows DEF GraphInv, Control, ForwardInv
<1>7. ReachedBy(edges, predecessors)'
  BY <1>1 DEF ForwardInv
<1>8. FinalFor(fScanned, fDistance, fLinks, RealMaxLinks, Shortest(Src), sigma')
  <2>1. FinalFor(fScanned, fDistance, fLinks, RealMaxLinks, Shortest(Src), sigma)
    BY DEF ForwardInv, Final, FinalFor
  <2>2. QED
    BY <1>6, <2>1, FinalStays
<1>9. CASE fPage' = None
  <2>1. fScanned' = fScanned /\ pc' = "reverse" /\ FP!Waiting' = FP!Waiting
    <3>1. fPage' \notin FP!Waiting
      BY <1>9, QueueConstants DEF FP!Waiting
    <3>2. QED
      BY <1>2, <1>9, <3>1
  <2>2. Todo("forward_edges")' = {}
    BY <2>1 DEF Todo
  <2>3. Settled(edges, fDistance, fLinks, RealMaxLinks, fScanned, fPage, {}, sigma')
    <3>1. Labelled(fDistance, fLinks, FP!Waiting, fScanned, Src)
      BY <1>5 DEF Search
    <3>2. QED
      BY <1>5, <1>6, <3>1, Bounded
  <2>4. Settled(edges, fDistance, fLinks, RealMaxLinks, fScanned, fPage', {}, sigma')
    BY <2>3 DEF Settled
  <2>5. Final(fScanned, fDistance, fLinks, Shortest(Src))'
    BY <1>2, <1>3, <1>4, <1>8, <2>1 DEF Final, FinalFor
  <2>6. QED
    BY <1>1, <1>2, <1>3, <1>4, <1>5, <1>6, <1>7, <2>1, <2>2, <2>4, <2>5 DEF ForwardInv
<1>10. CASE fPage' # None
  <2> DEFINE p == fPage'
  <2>1. /\ fScanned' = fScanned \cup {p} /\ p \in FP!Waiting /\ FP!Waiting' = FP!Waiting \ {p}
        /\ \A q \in FP!Waiting : fDistance[p] <= fDistance[q]
        /\ pc' = "assemble" \/ (pc' = "forward_edges" /\ i' = 1 /\ sigma' = sigma)
    BY <1>2, <1>10
  <2>2. p \in Vertex
    BY <2>1 DEF FP!Waiting
  <2> HIDE DEF p
  <2>3. /\ Search(fDistance, fLinks, FP!Waiting \ {p}, fScanned \cup {p}, Src, Nearest(Src))
        /\ Farthest(fDistance, fScanned \cup {p}, p)
        /\ Settled(edges, fDistance, fLinks, RealMaxLinks, fScanned, fPage, {}, sigma) =>
              Settled(edges, fDistance, fLinks, RealMaxLinks, fScanned \cup {p}, p, From(1), sigma)
    <3>1. Search(fDistance, fLinks, FP!Waiting, fScanned, Src, Nearest(Src)) /\ Src \in Vertex
      BY <1>5, QueueConstants DEF Vertex
    <3>2. p \in FP!Waiting /\ \A q \in FP!Waiting : fDistance[p] <= fDistance[q]
      BY <2>1
    <3>3. QED
      BY <3>1, <3>2, Scan, ZenonT(60)
  <2>4. /\ fDistance[p] >= Shortest(Src)[p]
        /\ \/ fDistance[p] = Shortest(Src)[p]
           \/ Shortest(Src)[p] > sigma
           \/ \E x \in fScanned : fLinks[x] >= RealMaxLinks /\ fDistance[x] <= Shortest(Src)[p]
    <3>1. /\ Labelled(fDistance, fLinks, FP!Waiting, fScanned, Src)
          /\ Counted(fLinks, FP!Waiting, fScanned) /\ Walked(fDistance, fLinks, Nearest(Src))
      BY <1>5 DEF Search
    <3>2. Settled(edges, fDistance, fLinks, RealMaxLinks, fScanned, fPage, {}, sigma)
      BY <1>5
    <3>3. QED
      BY <1>6, <2>1, <3>1, <3>2, ScanIsFinal
  <2>5. FinalFor(fScanned \cup {p}, fDistance, fLinks, RealMaxLinks, Shortest(Src), sigma')
    <3>1. Shortest(Src)[p] \in Nat
      BY <1>6, <2>2
    <3>2. Shortest(Src)[p] > sigma => Shortest(Src)[p] > sigma'
      BY <1>6, <3>1
    <3>3. FinalFor(fScanned, fDistance, fLinks, RealMaxLinks, Shortest(Src), sigma')
      BY <1>8
    <3>4. p \notin fScanned
      BY <1>5, <2>1 DEF Search, Labelled
    <3>5. QED
      BY <2>4, <3>2, <3>3, <3>4 DEF FinalFor
  <2>6. Final(fScanned, fDistance, fLinks, Shortest(Src))'
    BY <1>2, <1>3, <1>4, <2>1, <2>5 DEF Final, FinalFor
  <2>7. CASE pc' = "assemble"
    <3>1. ~Searching' /\ pc' # "start" /\ pc' # "forward_edges"
      BY <2>7 DEF Searching
    <3>2. QED
      BY <1>2, <1>6, <1>7, <2>1, <2>2, <2>6, <3>1 DEF ForwardInv
  <2>8. CASE pc' = "forward_edges" /\ i' = 1 /\ sigma' = sigma
    <3>1. Todo("forward_edges")' = From(1) /\ pc' # "start"
      BY <2>8 DEF Todo
    <3>2. Search(fDistance, fLinks, FP!Waiting, fScanned, Src, Nearest(Src))'
      BY <1>2, <1>4, <2>1, <2>3
    <3>3. Settled(edges, fDistance, fLinks, RealMaxLinks, fScanned, fPage, Todo("forward_edges"), sigma)'
      BY <1>1, <1>2, <1>3, <1>5, <2>1, <2>3, <2>8, <3>1 DEF p
    <3>4. Farthest(fDistance, fScanned, fPage)'
      BY <1>2, <2>1, <2>3 DEF p
    <3>5. QED
      BY <1>2, <1>6, <1>7, <2>1, <2>2, <2>6, <3>1, <3>2, <3>3, <3>4 DEF ForwardInv
  <2>9. QED
    BY <2>1, <2>7, <2>8
<1>11. QED
  BY <1>9, <1>10

LEMMA FBringsNearer ==
  ASSUME FP!QueueInv, NEW p \in Vertex, NEW d \in F!Distance, NEW l \in Nat,
         fDistance[p] # None => p \in FP!Waiting /\ d < fDistance[p],
         IF fDistance[p] = None THEN F!insert(p, d, l) ELSE F!decrease_key(p, d, l)
  PROVE  /\ FP!QueueInv'
         /\ fDistance' = [fDistance EXCEPT ![p] = d] /\ fLinks' = [fLinks EXCEPT ![p] = l]
         /\ FP!Waiting' = FP!Waiting \cup {p}
         /\ fPage' = fPage
<1>1. IF fDistance[p] = None THEN FP!insert(p, d, l)
      ELSE p \in FP!Waiting /\ d < fDistance[p] /\ FP!decrease_key(p, d, l)
  BY SameQueue
<1>2. d \in FP!Distance
  BY DEF F!Distance, FP!Distance
<1>3. QED
  BY QueueConstants, <1>1, <1>2, FP!BringsNearer

(* Of a page that is not spent nothing but its length prunes an edge.      *)
LEMMA LimitSpares ==
  ASSUME RealMaxLinks \in Nat, NEW hops, NEW scanned,
         NEW page \in Unspent(hops, scanned, RealMaxLinks), hops[page] \in Nat,
         NEW d, Pruned(d, hops[page] + 1)
  PROVE  d > sigma
BY DEF Unspent, Pruned

(* The forward search passes an edge over: it is pruned, or leads no       *)
(* nearer.                                                                 *)
LEMMA ForwardSkips ==
  ASSUME GraphInv, Control, ForwardInv, UNCHANGED graph,
         pc = "forward_edges", i <= Len(edges[fPage]), UNCHANGED fVars,
         pc' = pc, i' = i + 1, sigma' \in Nat, sigma' <= sigma,
         NEW e, e = edges[fPage][i],
         \/ Pruned(fDistance[fPage] + e.weight, fLinks[fPage] + 1)
         \/ fDistance[e.end] # None /\ ~(fDistance[fPage] + e.weight < fDistance[e.end])
  PROVE  ForwardInv'
<1>1. UNCHANGED <<edges, maxLinks, fDistance, fLinks, fScanned, predecessors, fPage>>
  BY DEF graph, fVars
<1>2. FP!QueueInv' /\ FP!Waiting' = FP!Waiting
  BY QueueStays DEF ForwardInv, fVars
<1>3. RealMaxLinks' = RealMaxLinks
  BY <1>1 DEF RealMaxLinks
<1>4. Nearest(Src)' = Nearest(Src) /\ Shortest(Src)' = Shortest(Src)
  BY <1>1, NearestStays
<1>5. /\ Search(fDistance, fLinks, FP!Waiting, fScanned, Src, Nearest(Src))
      /\ Settled(edges, fDistance, fLinks, RealMaxLinks, fScanned, fPage, From(i), sigma)
      /\ Farthest(fDistance, fScanned, fPage)
  BY DEF ForwardInv, Searching, Todo
<1>6. /\ Src \in Vertex /\ WellFormed(edges) /\ RealMaxLinks \in Nat
      /\ \A v \in Vertex : Shortest(Src)[v] \in Nat
      /\ sigma \in Nat /\ fScanned \subseteq Vertex /\ i \in Nat \ {0}
  BY Shadows DEF GraphInv, Control, ForwardInv
<1>7. ReachedBy(edges, predecessors)'
  BY <1>1 DEF ForwardInv
<1>8. fPage \in fScanned /\ fPage \in Vertex
  BY <1>5, <1>6 DEF Farthest
<1>9. /\ e.begin = fPage /\ e.end \in Vertex /\ e.weight \in Nat
      /\ fDistance[fPage] \in Nat /\ fLinks[fPage] \in Nat
      /\ fDistance[e.end] # None => fDistance[e.end] \in Nat /\ e.end \in Known(fDistance)
  <2>1. i \in 1..Len(edges[fPage])
    <3>1. Len(edges[fPage]) \in Nat
      BY <1>6, <1>8 DEF WellFormed
    <3>2. QED
      BY <1>6, <3>1
  <2>2. e.begin = fPage /\ e \in AllEdges(edges)
    BY <1>6, <1>8, <2>1, EdgeOfGraph
  <2>3. e.end \in Vertex /\ e.weight \in Nat
    BY <1>6, <2>2, EdgeOfGraph DEF Vertex
  <2>4. fPage \in Known(fDistance)
    BY <1>5, <1>8 DEF Search, Labelled
  <2>5. QED
    BY <1>5, <1>8, <2>2, <2>3, <2>4, QueueConstants DEF Search, Labelled, Known
<1>10. ASSUME fPage \in Unspent(fLinks, fScanned, RealMaxLinks) PROVE Relaxed(fDistance, e, sigma)
  <2>1. CASE Pruned(fDistance[fPage] + e.weight, fLinks[fPage] + 1)
    <3>1. fDistance[fPage] + e.weight > sigma
      BY <1>6, <1>9, <1>10, <2>1, LimitSpares
    <3>2. QED
      BY <1>9, <3>1 DEF Relaxed
  <2>2. CASE fDistance[e.end] # None /\ ~(fDistance[fPage] + e.weight < fDistance[e.end])
    BY <1>9, <2>2 DEF Relaxed
  <2>3. QED
    BY <2>1, <2>2
<1>11. Settled(edges, fDistance, fLinks, RealMaxLinks, fScanned, fPage, From(i + 1), sigma')
  <2>1. Settled(edges, fDistance, fLinks, RealMaxLinks, fScanned, fPage, From(i + 1), sigma)
    BY <1>5, <1>6, <1>10, Skip
  <2>2. Labelled(fDistance, fLinks, FP!Waiting, fScanned, Src)
    BY <1>5 DEF Search
  <2>3. QED
    BY <1>6, <2>1, <2>2, Bounded
<1>12. FinalFor(fScanned, fDistance, fLinks, RealMaxLinks, Shortest(Src), sigma')
  <2>1. FinalFor(fScanned, fDistance, fLinks, RealMaxLinks, Shortest(Src), sigma)
    BY DEF ForwardInv, Final, FinalFor
  <2>2. QED
    BY <1>6, <2>1, FinalStays
<1>13. Final(fScanned, fDistance, fLinks, Shortest(Src))'
  BY <1>1, <1>3, <1>4, <1>12 DEF Final, FinalFor
<1>14. Todo("forward_edges")' = From(i + 1)
  BY DEF Todo
<1>15. QED
  BY <1>1, <1>2, <1>3, <1>4, <1>5, <1>6, <1>7, <1>11, <1>13, <1>14 DEF ForwardInv

(* The forward search reaches a page, or brings it nearer.                 *)
LEMMA ForwardRelaxes ==
  ASSUME GraphInv, Control, ForwardInv, UNCHANGED graph,
         pc = "forward_edges", i <= Len(edges[fPage]), UNCHANGED fScanned,
         pc' = pc, i' = i + 1, sigma' \in Nat, sigma' <= sigma,
         NEW e, e = edges[fPage][i],
         NEW d, d = fDistance[fPage] + e.weight, d <= MaxBucket,
         NEW l, l = fLinks[fPage] + 1,
         fDistance[e.end] # None => d < fDistance[e.end],
         IF fDistance[e.end] = None THEN F!insert(e.end, d, l) ELSE F!decrease_key(e.end, d, l),
         predecessors' = [predecessors EXCEPT ![e.end] = e]
  PROVE  ForwardInv'
<1>1. UNCHANGED <<edges, maxLinks>>
  BY DEF graph
<1>2. RealMaxLinks' = RealMaxLinks
  BY <1>1 DEF RealMaxLinks
<1>3. Nearest(Src)' = Nearest(Src) /\ Shortest(Src)' = Shortest(Src)
  BY <1>1, NearestStays
<1>4. /\ Search(fDistance, fLinks, FP!Waiting, fScanned, Src, Nearest(Src))
      /\ Settled(edges, fDistance, fLinks, RealMaxLinks, fScanned, fPage, From(i), sigma)
      /\ Farthest(fDistance, fScanned, fPage)
  BY DEF ForwardInv, Searching, Todo
<1>5. /\ Src \in Vertex /\ WellFormed(edges) /\ Relaxes(edges, Nearest(Src), Src)
      /\ \A v \in Vertex : Shortest(Src)[v] \in Nat
      /\ sigma \in Nat /\ fScanned \subseteq Vertex /\ i \in Nat \ {0}
  BY Shadows DEF GraphInv, Control, ForwardInv
<1>6. fPage \in Vertex /\ i \in 1..Len(edges[fPage])
  <2>1. fPage \in Vertex
    BY <1>4, <1>5 DEF Farthest
  <2>2. Len(edges[fPage]) \in Nat
    BY <1>5, <2>1 DEF WellFormed
  <2>3. QED
    BY <1>5, <2>1, <2>2
<1> DEFINE dist2 == [fDistance EXCEPT ![e.end] = d]
           hops2 == [fLinks EXCEPT ![e.end] = l]
           waiting2 == FP!Waiting \cup {e.end}
<1>0. /\ dist2 = [fDistance EXCEPT ![e.end] = d]
      /\ hops2 = [fLinks EXCEPT ![e.end] = l]
      /\ waiting2 = FP!Waiting \cup {e.end}
  OBVIOUS
<1> HIDE DEF dist2, hops2, waiting2
<1>7. /\ e.end \notin fScanned /\ e.end \in Page
      /\ d \in Nat /\ l \in Nat
      /\ Search(dist2, hops2, waiting2, fScanned, Src, Nearest(Src))
      /\ Farthest(dist2, fScanned, fPage)
      /\ \A bound, limit : Settled(edges, fDistance, fLinks, limit, fScanned, fPage, From(i), bound) =>
                              Settled(edges, dist2, hops2, limit, fScanned, fPage, From(i + 1), bound)
  <2>1. /\ i \in Nat
        /\ Nearer(edges, fPage, i, fDistance, fLinks, FP!Waiting, dist2, hops2, waiting2)
    BY <1>0, <1>5 DEF Nearer
  <2>2. /\ edges[fPage][i].end \notin fScanned /\ edges[fPage][i].end \in Page
        /\ fDistance[fPage] + edges[fPage][i].weight \in Nat /\ fLinks[fPage] + 1 \in Nat
        /\ Search(dist2, hops2, waiting2, fScanned, Src, Nearest(Src))
        /\ Farthest(dist2, fScanned, fPage)
        /\ \A bound, limit : Settled(edges, fDistance, fLinks, limit, fScanned, fPage, From(i), bound) =>
                                Settled(edges, dist2, hops2, limit, fScanned, fPage, From(i + 1), bound)
    BY <1>4, <1>5, <1>6, <2>1, Relax, Zenon
  <2>3. QED
    BY <2>2
<1>8. /\ FP!QueueInv' /\ fDistance' = dist2 /\ fLinks' = hops2
      /\ FP!Waiting' = waiting2 /\ fPage' = fPage
  <2>1. e.end \in Vertex /\ d \in F!Distance
    BY <1>7, QueueConstants DEF Vertex, F!Distance
  <2>2. fDistance[e.end] # None => e.end \in FP!Waiting
    BY <1>4, <1>7, <2>1 DEF Search, Labelled, Known
  <2>3. FP!QueueInv
    BY DEF ForwardInv
  <2>4. QED
    BY <1>7, <2>1, <2>2, <2>3, FBringsNearer, SMTT(30) DEF dist2, hops2, waiting2
<1>9. Settled(edges, dist2, hops2, RealMaxLinks, fScanned, fPage, From(i + 1), sigma')
  <2>1. Settled(edges, dist2, hops2, RealMaxLinks, fScanned, fPage, From(i + 1), sigma)
    BY <1>4, <1>7
  <2>2. Labelled(dist2, hops2, waiting2, fScanned, Src)
    BY <1>7 DEF Search
  <2>3. QED
    BY <1>5, <2>1, <2>2, Bounded
<1>10. FinalFor(fScanned, dist2, hops2, RealMaxLinks, Shortest(Src), sigma')
  <2>1. FinalFor(fScanned, fDistance, fLinks, RealMaxLinks, Shortest(Src), sigma)
    BY DEF ForwardInv, Final, FinalFor
  <2>2. \A v \in fScanned : dist2[v] = fDistance[v] /\ hops2[v] = fLinks[v]
    BY <1>4, <1>5, <1>7 DEF dist2, hops2, Search, Labelled
  <2>3. QED
    BY <1>5, <2>1, <2>2, FinalStays
<1>11. Final(fScanned, fDistance, fLinks, Shortest(Src))'
  BY <1>2, <1>3, <1>8, <1>10 DEF Final, FinalFor
<1>12. Todo("forward_edges")' = From(i + 1)
  BY DEF Todo
<1>13. ReachedBy(edges, predecessors)'
  <2>1. e.begin = fPage /\ e \in ToSet(edges[fPage])
    BY <1>5, <1>6, EdgeOfGraph
  <2>2. QED
    BY <1>1, <2>1 DEF ForwardInv, ReachedBy
<1>14. QED
  BY <1>1, <1>2, <1>3, <1>5, <1>7, <1>8, <1>9, <1>11, <1>12, <1>13 DEF ForwardInv, Searching

LEMMA ForwardDone ==
  ASSUME GraphInv, Control, ForwardInv, UNCHANGED graph, UNCHANGED fVars, UNCHANGED sigma,
         pc = "forward_edges", i > Len(edges[fPage]), pc' = "reverse"
  PROVE  ForwardInv'
<1>1. UNCHANGED <<edges, maxLinks, fDistance, fLinks, fScanned, predecessors, fPage>>
  BY DEF graph, fVars
<1>2. FP!QueueInv' /\ FP!Waiting' = FP!Waiting
  BY QueueStays DEF ForwardInv, fVars
<1>3. RealMaxLinks' = RealMaxLinks
  BY <1>1 DEF RealMaxLinks
<1>4. Nearest(Src)' = Nearest(Src) /\ Shortest(Src)' = Shortest(Src)
  BY <1>1, NearestStays
<1>5. /\ Search(fDistance, fLinks, FP!Waiting, fScanned, Src, Nearest(Src))
      /\ Settled(edges, fDistance, fLinks, RealMaxLinks, fScanned, fPage, From(i), sigma)
      /\ Farthest(fDistance, fScanned, fPage)
  BY DEF ForwardInv, Searching, Todo
<1>6. fPage \in Vertex /\ WellFormed(edges) /\ i \in Nat
  BY <1>5 DEF Farthest, ForwardInv, GraphInv, Control
<1>7. Settled(edges, fDistance, fLinks, RealMaxLinks, fScanned, fPage, {}, sigma)
  BY <1>5, <1>6, Done
<1>8. Todo("forward_edges")' = {}
  BY DEF Todo
<1>9. QED
  BY <1>1, <1>2, <1>3, <1>4, <1>5, <1>7, <1>8 DEF ForwardInv, Final

-----------------------------------------------------------------------------
(* The steps of the reverse search.                                        *)

LEMMA RQueueStays ==
  ASSUME UNCHANGED <<rBuckets, rDistance, rLinks, rMin, rSize, rPage>>
  PROVE  (RP!QueueInv <=> RP!QueueInv') /\ RP!Waiting' = RP!Waiting
<1>1. RP!Waiting' = RP!Waiting
  BY DEF RP!Waiting, RP!Queued, RP!InBucket
<1>2. RP!QueueInv <=> RP!QueueInv'
  BY DEF RP!QueueInv, RP!TypeOK, RP!Linked, RP!LowerAreEmpty, RP!RestsOnLast
<1>3. QED
  BY <1>1, <1>2

LEMMA RTakesNearest ==
  ASSUME RP!QueueInv, R!delete_min
  PROVE  /\ RP!QueueInv'
         /\ rDistance' = rDistance /\ rLinks' = rLinks
         /\ \/ rPage' = None /\ RP!Waiting = {} /\ RP!Waiting' = {}
            \/ /\ rPage' \in RP!Waiting /\ RP!Waiting' = RP!Waiting \ {rPage'}
               /\ \A q \in RP!Waiting : rDistance[rPage'] <= rDistance[q]
<1>1. RP!delete_min
  BY SameQueue
<1>2. QED
  BY QueueConstants, <1>1, RP!TakesNearest

(* A step of the forward search, or one that ends the loop, leaves the     *)
(* reverse search as it is; the bound may fall.                            *)
LEMMA ReverseRests ==
  ASSUME GraphInv, Control, ReverseInv, UNCHANGED graph, UNCHANGED rVars,
         sigma' \in Nat, sigma' <= sigma,
         pc' # "start", pc' # "reverse_edges",
         Searching' => Searching /\ pc # "reverse_edges"
  PROVE  ReverseInv'
<1>1. UNCHANGED <<edges, maxLinks, rDistance, rLinks, rScanned, successors, rPage>>
  BY DEF graph, rVars
<1>2. RP!QueueInv' /\ RP!Waiting' = RP!Waiting
  BY RQueueStays DEF ReverseInv, rVars
<1>3. RealMaxLinks' = RealMaxLinks /\ Todo("reverse_edges")' = {}
  BY <1>1 DEF RealMaxLinks, Todo
<1>4. Searching' => Todo("reverse_edges") = {}
  BY DEF Todo
<1>5. /\ Nearest(Dst)' = Nearest(Dst) /\ Shortest(Dst)' = Shortest(Dst)
  BY <1>1, NearestStays
<1>6. ASSUME Searching'
      PROVE  /\ Search(rDistance, rLinks, RP!Waiting, rScanned, Dst, Nearest(Dst))
             /\ Settled(edges, rDistance, rLinks, RealMaxLinks, rScanned, rPage, {}, sigma')
  <2>1. Search(rDistance, rLinks, RP!Waiting, rScanned, Dst, Nearest(Dst))
    BY <1>6 DEF ReverseInv
  <2>2. Settled(edges, rDistance, rLinks, RealMaxLinks, rScanned, rPage, {}, sigma')
    <3>1. Settled(edges, rDistance, rLinks, RealMaxLinks, rScanned, rPage, {}, sigma)
      BY <1>4, <1>6 DEF ReverseInv
    <3>2. Labelled(rDistance, rLinks, RP!Waiting, rScanned, Dst)
      BY <2>1 DEF Search
    <3>3. sigma \in Nat /\ WellFormed(edges)
      BY DEF Control, GraphInv
    <3>4. QED
      BY <3>1, <3>2, <3>3, Bounded
  <2>3. QED
    BY <2>1, <2>2
<1>7. FinalFor(rScanned, rDistance, rLinks, RealMaxLinks, Shortest(Dst), sigma')
  <2>1. FinalFor(rScanned, rDistance, rLinks, RealMaxLinks, Shortest(Dst), sigma)
    BY DEF ReverseInv, Final, FinalFor
  <2>2. sigma \in Nat /\ rScanned \subseteq Vertex
    BY DEF Control, ReverseInv
  <2>3. \A v \in Vertex : Shortest(Dst)[v] \in Nat
    BY Shadows
  <2>4. QED
    BY <2>1, <2>2, <2>3, FinalStays
<1>8. Final(rScanned, rDistance, rLinks, Shortest(Dst))'
  BY <1>1, <1>3, <1>5, <1>7 DEF Final, FinalFor
<1>9. ReachedBy(edges, successors)' /\ rScanned' \subseteq Vertex
  BY <1>1 DEF ReverseInv
<1>10. QED
  BY <1>1, <1>2, <1>3, <1>5, <1>6, <1>8, <1>9 DEF ReverseInv

(* The reverse search scans its nearest page, or finds none waiting.       *)
LEMMA ReverseScans ==
  ASSUME GraphInv, Control, ReverseInv, UNCHANGED graph, pc = "reverse",
         R!delete_min, UNCHANGED successors,
         sigma' \in Nat, sigma' <= sigma,
         \/ /\ rPage' = None /\ rScanned' = rScanned
            /\ pc' = "forward"
         \/ /\ rPage' # None /\ rScanned' = rScanned \cup {rPage'}
            /\ pc' = "assemble" \/ (pc' = "reverse_edges" /\ i' = 1 /\ sigma' = sigma)
  PROVE  ReverseInv'
<1>1. UNCHANGED <<edges, maxLinks>>
  BY DEF graph
<1>2. /\ RP!QueueInv'
      /\ rDistance' = rDistance /\ rLinks' = rLinks
      /\ \/ rPage' = None /\ RP!Waiting = {} /\ RP!Waiting' = {}
         \/ /\ rPage' \in RP!Waiting /\ RP!Waiting' = RP!Waiting \ {rPage'}
            /\ \A q \in RP!Waiting : rDistance[rPage'] <= rDistance[q]
  BY RTakesNearest DEF ReverseInv
<1>3. RealMaxLinks' = RealMaxLinks
  BY <1>1 DEF RealMaxLinks
<1>4. Nearest(Dst)' = Nearest(Dst) /\ Shortest(Dst)' = Shortest(Dst)
  BY <1>1, NearestStays
<1>5. /\ Search(rDistance, rLinks, RP!Waiting, rScanned, Dst, Nearest(Dst))
      /\ Settled(edges, rDistance, rLinks, RealMaxLinks, rScanned, rPage, {}, sigma)
  BY DEF ReverseInv, Searching, Todo
<1>6. /\ Dst \in Vertex /\ Relaxes(edges, Nearest(Dst), Dst) /\ WellFormed(edges)
      /\ \A v \in Vertex : Shortest(Dst)[v] \in Nat
      /\ Shortest(Dst) = Nearest(Dst)[Cardinality(Page)]
      /\ sigma \in Nat /\ rScanned \subseteq Vertex /\ RealMaxLinks \in Nat
  BY Shadows DEF GraphInv, Control, ReverseInv
<1>7. ReachedBy(edges, successors)'
  BY <1>1 DEF ReverseInv
<1>8. FinalFor(rScanned, rDistance, rLinks, RealMaxLinks, Shortest(Dst), sigma')
  <2>1. FinalFor(rScanned, rDistance, rLinks, RealMaxLinks, Shortest(Dst), sigma)
    BY DEF ReverseInv, Final, FinalFor
  <2>2. QED
    BY <1>6, <2>1, FinalStays
<1>9. CASE rPage' = None
  <2>1. rScanned' = rScanned /\ pc' = "forward" /\ RP!Waiting' = RP!Waiting
    <3>1. rPage' \notin RP!Waiting
      BY <1>9, QueueConstants DEF RP!Waiting
    <3>2. QED
      BY <1>2, <1>9, <3>1
  <2>2. Todo("reverse_edges")' = {}
    BY <2>1 DEF Todo
  <2>3. Settled(edges, rDistance, rLinks, RealMaxLinks, rScanned, rPage, {}, sigma')
    <3>1. Labelled(rDistance, rLinks, RP!Waiting, rScanned, Dst)
      BY <1>5 DEF Search
    <3>2. QED
      BY <1>5, <1>6, <3>1, Bounded
  <2>4. Settled(edges, rDistance, rLinks, RealMaxLinks, rScanned, rPage', {}, sigma')
    BY <2>3 DEF Settled
  <2>5. Final(rScanned, rDistance, rLinks, Shortest(Dst))'
    BY <1>2, <1>3, <1>4, <1>8, <2>1 DEF Final, FinalFor
  <2>6. QED
    BY <1>1, <1>2, <1>3, <1>4, <1>5, <1>6, <1>7, <2>1, <2>2, <2>4, <2>5 DEF ReverseInv
<1>10. CASE rPage' # None
  <2> DEFINE p == rPage'
  <2>1. /\ rScanned' = rScanned \cup {p} /\ p \in RP!Waiting /\ RP!Waiting' = RP!Waiting \ {p}
        /\ \A q \in RP!Waiting : rDistance[p] <= rDistance[q]
        /\ pc' = "assemble" \/ (pc' = "reverse_edges" /\ i' = 1 /\ sigma' = sigma)
    BY <1>2, <1>10
  <2>2. p \in Vertex
    BY <2>1 DEF RP!Waiting
  <2> HIDE DEF p
  <2>3. /\ Search(rDistance, rLinks, RP!Waiting \ {p}, rScanned \cup {p}, Dst, Nearest(Dst))
        /\ Farthest(rDistance, rScanned \cup {p}, p)
        /\ Settled(edges, rDistance, rLinks, RealMaxLinks, rScanned, rPage, {}, sigma) =>
              Settled(edges, rDistance, rLinks, RealMaxLinks, rScanned \cup {p}, p, From(1), sigma)
    <3>1. Search(rDistance, rLinks, RP!Waiting, rScanned, Dst, Nearest(Dst)) /\ Dst \in Vertex
      BY <1>5, QueueConstants DEF Vertex
    <3>2. p \in RP!Waiting /\ \A q \in RP!Waiting : rDistance[p] <= rDistance[q]
      BY <2>1
    <3>3. QED
      BY <3>1, <3>2, Scan, ZenonT(60)
  <2>4. /\ rDistance[p] >= Shortest(Dst)[p]
        /\ \/ rDistance[p] = Shortest(Dst)[p]
           \/ Shortest(Dst)[p] > sigma
           \/ \E x \in rScanned : rLinks[x] >= RealMaxLinks /\ rDistance[x] <= Shortest(Dst)[p]
    <3>1. /\ Labelled(rDistance, rLinks, RP!Waiting, rScanned, Dst)
          /\ Counted(rLinks, RP!Waiting, rScanned) /\ Walked(rDistance, rLinks, Nearest(Dst))
      BY <1>5 DEF Search
    <3>2. Settled(edges, rDistance, rLinks, RealMaxLinks, rScanned, rPage, {}, sigma)
      BY <1>5
    <3>3. QED
      BY <1>6, <2>1, <3>1, <3>2, ScanIsFinal
  <2>5. FinalFor(rScanned \cup {p}, rDistance, rLinks, RealMaxLinks, Shortest(Dst), sigma')
    <3>1. Shortest(Dst)[p] \in Nat
      BY <1>6, <2>2
    <3>2. Shortest(Dst)[p] > sigma => Shortest(Dst)[p] > sigma'
      BY <1>6, <3>1
    <3>3. FinalFor(rScanned, rDistance, rLinks, RealMaxLinks, Shortest(Dst), sigma')
      BY <1>8
    <3>4. p \notin rScanned
      BY <1>5, <2>1 DEF Search, Labelled
    <3>5. QED
      BY <2>4, <3>2, <3>3, <3>4 DEF FinalFor
  <2>6. Final(rScanned, rDistance, rLinks, Shortest(Dst))'
    BY <1>2, <1>3, <1>4, <2>1, <2>5 DEF Final, FinalFor
  <2>7. CASE pc' = "assemble"
    <3>1. ~Searching' /\ pc' # "start" /\ pc' # "reverse_edges"
      BY <2>7 DEF Searching
    <3>2. QED
      BY <1>2, <1>6, <1>7, <2>1, <2>2, <2>6, <3>1 DEF ReverseInv
  <2>8. CASE pc' = "reverse_edges" /\ i' = 1 /\ sigma' = sigma
    <3>1. Todo("reverse_edges")' = From(1) /\ pc' # "start"
      BY <2>8 DEF Todo
    <3>2. Search(rDistance, rLinks, RP!Waiting, rScanned, Dst, Nearest(Dst))'
      BY <1>2, <1>4, <2>1, <2>3
    <3>3. Settled(edges, rDistance, rLinks, RealMaxLinks, rScanned, rPage, Todo("reverse_edges"), sigma)'
      BY <1>1, <1>2, <1>3, <1>5, <2>1, <2>3, <2>8, <3>1 DEF p
    <3>4. Farthest(rDistance, rScanned, rPage)'
      BY <1>2, <2>1, <2>3 DEF p
    <3>5. QED
      BY <1>2, <1>6, <1>7, <2>1, <2>2, <2>6, <3>1, <3>2, <3>3, <3>4 DEF ReverseInv
  <2>9. QED
    BY <2>1, <2>7, <2>8
<1>11. QED
  BY <1>9, <1>10

LEMMA RBringsNearer ==
  ASSUME RP!QueueInv, NEW p \in Vertex, NEW d \in R!Distance, NEW l \in Nat,
         rDistance[p] # None => p \in RP!Waiting /\ d < rDistance[p],
         IF rDistance[p] = None THEN R!insert(p, d, l) ELSE R!decrease_key(p, d, l)
  PROVE  /\ RP!QueueInv'
         /\ rDistance' = [rDistance EXCEPT ![p] = d] /\ rLinks' = [rLinks EXCEPT ![p] = l]
         /\ RP!Waiting' = RP!Waiting \cup {p}
         /\ rPage' = rPage
<1>1. IF rDistance[p] = None THEN RP!insert(p, d, l)
      ELSE p \in RP!Waiting /\ d < rDistance[p] /\ RP!decrease_key(p, d, l)
  BY SameQueue
<1>2. d \in RP!Distance
  BY DEF R!Distance, RP!Distance
<1>3. QED
  BY QueueConstants, <1>1, <1>2, RP!BringsNearer

(* The reverse search passes an edge over: it is pruned, or leads no       *)
(* nearer.                                                                 *)
LEMMA ReverseSkips ==
  ASSUME GraphInv, Control, ReverseInv, UNCHANGED graph,
         pc = "reverse_edges", i <= Len(edges[rPage]), UNCHANGED rVars,
         pc' = pc, i' = i + 1, sigma' \in Nat, sigma' <= sigma,
         NEW e, e = edges[rPage][i],
         \/ Pruned(rDistance[rPage] + e.weight, rLinks[rPage] + 1)
         \/ rDistance[e.end] # None /\ ~(rDistance[rPage] + e.weight < rDistance[e.end])
  PROVE  ReverseInv'
<1>1. UNCHANGED <<edges, maxLinks, rDistance, rLinks, rScanned, successors, rPage>>
  BY DEF graph, rVars
<1>2. RP!QueueInv' /\ RP!Waiting' = RP!Waiting
  BY RQueueStays DEF ReverseInv, rVars
<1>3. RealMaxLinks' = RealMaxLinks
  BY <1>1 DEF RealMaxLinks
<1>4. Nearest(Dst)' = Nearest(Dst) /\ Shortest(Dst)' = Shortest(Dst)
  BY <1>1, NearestStays
<1>5. /\ Search(rDistance, rLinks, RP!Waiting, rScanned, Dst, Nearest(Dst))
      /\ Settled(edges, rDistance, rLinks, RealMaxLinks, rScanned, rPage, From(i), sigma)
      /\ Farthest(rDistance, rScanned, rPage)
  BY DEF ReverseInv, Searching, Todo
<1>6. /\ Dst \in Vertex /\ WellFormed(edges) /\ RealMaxLinks \in Nat
      /\ \A v \in Vertex : Shortest(Dst)[v] \in Nat
      /\ sigma \in Nat /\ rScanned \subseteq Vertex /\ i \in Nat \ {0}
  BY Shadows DEF GraphInv, Control, ReverseInv
<1>7. ReachedBy(edges, successors)'
  BY <1>1 DEF ReverseInv
<1>8. rPage \in rScanned /\ rPage \in Vertex
  BY <1>5, <1>6 DEF Farthest
<1>9. /\ e.begin = rPage /\ e.end \in Vertex /\ e.weight \in Nat
      /\ rDistance[rPage] \in Nat /\ rLinks[rPage] \in Nat
      /\ rDistance[e.end] # None => rDistance[e.end] \in Nat /\ e.end \in Known(rDistance)
  <2>1. i \in 1..Len(edges[rPage])
    <3>1. Len(edges[rPage]) \in Nat
      BY <1>6, <1>8 DEF WellFormed
    <3>2. QED
      BY <1>6, <3>1
  <2>2. e.begin = rPage /\ e \in AllEdges(edges)
    BY <1>6, <1>8, <2>1, EdgeOfGraph
  <2>3. e.end \in Vertex /\ e.weight \in Nat
    BY <1>6, <2>2, EdgeOfGraph DEF Vertex
  <2>4. rPage \in Known(rDistance)
    BY <1>5, <1>8 DEF Search, Labelled
  <2>5. QED
    BY <1>5, <1>8, <2>2, <2>3, <2>4, QueueConstants DEF Search, Labelled, Known
<1>10. ASSUME rPage \in Unspent(rLinks, rScanned, RealMaxLinks) PROVE Relaxed(rDistance, e, sigma)
  <2>1. CASE Pruned(rDistance[rPage] + e.weight, rLinks[rPage] + 1)
    <3>1. rDistance[rPage] + e.weight > sigma
      BY <1>6, <1>9, <1>10, <2>1, LimitSpares
    <3>2. QED
      BY <1>9, <3>1 DEF Relaxed
  <2>2. CASE rDistance[e.end] # None /\ ~(rDistance[rPage] + e.weight < rDistance[e.end])
    BY <1>9, <2>2 DEF Relaxed
  <2>3. QED
    BY <2>1, <2>2
<1>11. Settled(edges, rDistance, rLinks, RealMaxLinks, rScanned, rPage, From(i + 1), sigma')
  <2>1. Settled(edges, rDistance, rLinks, RealMaxLinks, rScanned, rPage, From(i + 1), sigma)
    BY <1>5, <1>6, <1>10, Skip
  <2>2. Labelled(rDistance, rLinks, RP!Waiting, rScanned, Dst)
    BY <1>5 DEF Search
  <2>3. QED
    BY <1>6, <2>1, <2>2, Bounded
<1>12. FinalFor(rScanned, rDistance, rLinks, RealMaxLinks, Shortest(Dst), sigma')
  <2>1. FinalFor(rScanned, rDistance, rLinks, RealMaxLinks, Shortest(Dst), sigma)
    BY DEF ReverseInv, Final, FinalFor
  <2>2. QED
    BY <1>6, <2>1, FinalStays
<1>13. Final(rScanned, rDistance, rLinks, Shortest(Dst))'
  BY <1>1, <1>3, <1>4, <1>12 DEF Final, FinalFor
<1>14. Todo("reverse_edges")' = From(i + 1)
  BY DEF Todo
<1>15. QED
  BY <1>1, <1>2, <1>3, <1>4, <1>5, <1>6, <1>7, <1>11, <1>13, <1>14 DEF ReverseInv

(* The reverse search reaches a page, or brings it nearer.                 *)
LEMMA ReverseRelaxes ==
  ASSUME GraphInv, Control, ReverseInv, UNCHANGED graph,
         pc = "reverse_edges", i <= Len(edges[rPage]), UNCHANGED rScanned,
         pc' = pc, i' = i + 1, sigma' \in Nat, sigma' <= sigma,
         NEW e, e = edges[rPage][i],
         NEW d, d = rDistance[rPage] + e.weight, d <= MaxBucket,
         NEW l, l = rLinks[rPage] + 1,
         rDistance[e.end] # None => d < rDistance[e.end],
         IF rDistance[e.end] = None THEN R!insert(e.end, d, l) ELSE R!decrease_key(e.end, d, l),
         successors' = [successors EXCEPT ![e.end] = e]
  PROVE  ReverseInv'
<1>1. UNCHANGED <<edges, maxLinks>>
  BY DEF graph
<1>2. RealMaxLinks' = RealMaxLinks
  BY <1>1 DEF RealMaxLinks
<1>3. Nearest(Dst)' = Nearest(Dst) /\ Shortest(Dst)' = Shortest(Dst)
  BY <1>1, NearestStays
<1>4. /\ Search(rDistance, rLinks, RP!Waiting, rScanned, Dst, Nearest(Dst))
      /\ Settled(edges, rDistance, rLinks, RealMaxLinks, rScanned, rPage, From(i), sigma)
      /\ Farthest(rDistance, rScanned, rPage)
  BY DEF ReverseInv, Searching, Todo
<1>5. /\ Dst \in Vertex /\ WellFormed(edges) /\ Relaxes(edges, Nearest(Dst), Dst)
      /\ \A v \in Vertex : Shortest(Dst)[v] \in Nat
      /\ sigma \in Nat /\ rScanned \subseteq Vertex /\ i \in Nat \ {0}
  BY Shadows DEF GraphInv, Control, ReverseInv
<1>6. rPage \in Vertex /\ i \in 1..Len(edges[rPage])
  <2>1. rPage \in Vertex
    BY <1>4, <1>5 DEF Farthest
  <2>2. Len(edges[rPage]) \in Nat
    BY <1>5, <2>1 DEF WellFormed
  <2>3. QED
    BY <1>5, <2>1, <2>2
<1> DEFINE dist2 == [rDistance EXCEPT ![e.end] = d]
           hops2 == [rLinks EXCEPT ![e.end] = l]
           waiting2 == RP!Waiting \cup {e.end}
<1>0. /\ dist2 = [rDistance EXCEPT ![e.end] = d]
      /\ hops2 = [rLinks EXCEPT ![e.end] = l]
      /\ waiting2 = RP!Waiting \cup {e.end}
  OBVIOUS
<1> HIDE DEF dist2, hops2, waiting2
<1>7. /\ e.end \notin rScanned /\ e.end \in Page
      /\ d \in Nat /\ l \in Nat
      /\ Search(dist2, hops2, waiting2, rScanned, Dst, Nearest(Dst))
      /\ Farthest(dist2, rScanned, rPage)
      /\ \A bound, limit : Settled(edges, rDistance, rLinks, limit, rScanned, rPage, From(i), bound) =>
                              Settled(edges, dist2, hops2, limit, rScanned, rPage, From(i + 1), bound)
  <2>1. /\ i \in Nat
        /\ Nearer(edges, rPage, i, rDistance, rLinks, RP!Waiting, dist2, hops2, waiting2)
    BY <1>0, <1>5 DEF Nearer
  <2>2. /\ edges[rPage][i].end \notin rScanned /\ edges[rPage][i].end \in Page
        /\ rDistance[rPage] + edges[rPage][i].weight \in Nat /\ rLinks[rPage] + 1 \in Nat
        /\ Search(dist2, hops2, waiting2, rScanned, Dst, Nearest(Dst))
        /\ Farthest(dist2, rScanned, rPage)
        /\ \A bound, limit : Settled(edges, rDistance, rLinks, limit, rScanned, rPage, From(i), bound) =>
                                Settled(edges, dist2, hops2, limit, rScanned, rPage, From(i + 1), bound)
    BY <1>4, <1>5, <1>6, <2>1, Relax, Zenon
  <2>3. QED
    BY <2>2
<1>8. /\ RP!QueueInv' /\ rDistance' = dist2 /\ rLinks' = hops2
      /\ RP!Waiting' = waiting2 /\ rPage' = rPage
  <2>1. e.end \in Vertex /\ d \in R!Distance
    BY <1>7, QueueConstants DEF Vertex, R!Distance
  <2>2. rDistance[e.end] # None => e.end \in RP!Waiting
    BY <1>4, <1>7, <2>1 DEF Search, Labelled, Known
  <2>3. RP!QueueInv
    BY DEF ReverseInv
  <2>4. QED
    BY <1>7, <2>1, <2>2, <2>3, RBringsNearer, SMTT(30) DEF dist2, hops2, waiting2
<1>9. Settled(edges, dist2, hops2, RealMaxLinks, rScanned, rPage, From(i + 1), sigma')
  <2>1. Settled(edges, dist2, hops2, RealMaxLinks, rScanned, rPage, From(i + 1), sigma)
    BY <1>4, <1>7
  <2>2. Labelled(dist2, hops2, waiting2, rScanned, Dst)
    BY <1>7 DEF Search
  <2>3. QED
    BY <1>5, <2>1, <2>2, Bounded
<1>10. FinalFor(rScanned, dist2, hops2, RealMaxLinks, Shortest(Dst), sigma')
  <2>1. FinalFor(rScanned, rDistance, rLinks, RealMaxLinks, Shortest(Dst), sigma)
    BY DEF ReverseInv, Final, FinalFor
  <2>2. \A v \in rScanned : dist2[v] = rDistance[v] /\ hops2[v] = rLinks[v]
    BY <1>4, <1>5, <1>7 DEF dist2, hops2, Search, Labelled
  <2>3. QED
    BY <1>5, <2>1, <2>2, FinalStays
<1>11. Final(rScanned, rDistance, rLinks, Shortest(Dst))'
  BY <1>2, <1>3, <1>8, <1>10 DEF Final, FinalFor
<1>12. Todo("reverse_edges")' = From(i + 1)
  BY DEF Todo
<1>13. ReachedBy(edges, successors)'
  <2>1. e.begin = rPage /\ e \in ToSet(edges[rPage])
    BY <1>5, <1>6, EdgeOfGraph
  <2>2. QED
    BY <1>1, <2>1 DEF ReverseInv, ReachedBy
<1>14. QED
  BY <1>1, <1>2, <1>3, <1>5, <1>7, <1>8, <1>9, <1>11, <1>12, <1>13 DEF ReverseInv, Searching

LEMMA ReverseDone ==
  ASSUME GraphInv, Control, ReverseInv, UNCHANGED graph, UNCHANGED rVars, UNCHANGED sigma,
         pc = "reverse_edges", i > Len(edges[rPage]), pc' = "forward"
  PROVE  ReverseInv'
<1>1. UNCHANGED <<edges, maxLinks, rDistance, rLinks, rScanned, successors, rPage>>
  BY DEF graph, rVars
<1>2. RP!QueueInv' /\ RP!Waiting' = RP!Waiting
  BY RQueueStays DEF ReverseInv, rVars
<1>3. RealMaxLinks' = RealMaxLinks
  BY <1>1 DEF RealMaxLinks
<1>4. Nearest(Dst)' = Nearest(Dst) /\ Shortest(Dst)' = Shortest(Dst)
  BY <1>1, NearestStays
<1>5. /\ Search(rDistance, rLinks, RP!Waiting, rScanned, Dst, Nearest(Dst))
      /\ Settled(edges, rDistance, rLinks, RealMaxLinks, rScanned, rPage, From(i), sigma)
      /\ Farthest(rDistance, rScanned, rPage)
  BY DEF ReverseInv, Searching, Todo
<1>6. rPage \in Vertex /\ WellFormed(edges) /\ i \in Nat
  BY <1>5 DEF Farthest, ReverseInv, GraphInv, Control
<1>7. Settled(edges, rDistance, rLinks, RealMaxLinks, rScanned, rPage, {}, sigma)
  BY <1>5, <1>6, Done
<1>8. Todo("reverse_edges")' = {}
  BY DEF Todo
<1>9. QED
  BY <1>1, <1>2, <1>3, <1>4, <1>5, <1>7, <1>8 DEF ReverseInv, Final

-----------------------------------------------------------------------------
(* The first states, and the steps that move both searches or neither.     *)

LEMMA ForwardStarts ==
  ASSUME GraphInv, Control, ForwardInv, UNCHANGED graph,
         pc = "start", pc' = "forward",
         F!insert(Src, 0, 0), UNCHANGED <<fScanned, predecessors>>
  PROVE  ForwardInv'
<1>1. UNCHANGED <<edges, maxLinks>>
  BY DEF graph
<1>2. /\ fDistance = [v \in Vertex |-> None] /\ FP!Waiting = {} /\ fScanned = {}
      /\ fLinks = [v \in Vertex |-> None] /\ FP!QueueInv
  BY DEF ForwardInv
<1>3. Src \in Vertex /\ Relaxes(edges, Nearest(Src), Src)
  BY Shadows
<1>4. /\ FP!QueueInv'
      /\ fDistance' = [fDistance EXCEPT ![Src] = 0] /\ fLinks' = [fLinks EXCEPT ![Src] = 0]
      /\ FP!Waiting' = FP!Waiting \cup {Src}
  <2>1. fDistance[Src] = None /\ 0 \in F!Distance
    BY <1>2, <1>3, QueueConstants DEF F!Distance
  <2>2. QED
    BY <1>2, <1>3, <2>1, FBringsNearer
<1>5. /\ \A v \in Vertex : v # Src => fDistance'[v] = None
      /\ fDistance'[Src] = 0 /\ fLinks'[Src] = 0
      /\ fDistance' \in [Vertex -> (0..MaxBucket) \cup {None}]
      /\ fLinks' \in [Vertex -> Nat \cup {None}]
  BY <1>2, <1>3, <1>4, QueueConstants
<1>6. Known(fDistance') = {Src}
  BY <1>3, <1>5, QueueConstants DEF Known
<1>7. FP!Waiting' = {Src} /\ fScanned' = {}
  BY <1>2, <1>4
<1>8. Labelled(fDistance', fLinks', {Src}, {}, Src)
  BY <1>5, <1>6 DEF Labelled
<1>9. Counted(fLinks', {Src}, {})
  BY <1>5, FS_EmptySet DEF Counted
<1>10. Walked(fDistance', fLinks', Nearest(Src))
  <2>1. Nearest(Src)[0][Src] = 0
    BY <1>3 DEF Relaxes
  <2>2. QED
    BY <1>5, <1>6, <2>1 DEF Walked
<1>11. Search(fDistance', fLinks', {Src}, {}, Src, Nearest(Src))
  BY <1>8, <1>9, <1>10 DEF Search, Sorted
<1>12. Search(fDistance, fLinks, FP!Waiting, fScanned, Src, Nearest(Src))'
  BY <1>1, <1>7, <1>11, NearestStays
<1>13. Settled(edges, fDistance, fLinks, RealMaxLinks, fScanned, fPage, Todo("forward_edges"), sigma)'
  BY <1>7 DEF Settled, Unspent
<1>14. ReachedBy(edges, predecessors)' /\ Final(fScanned, fDistance, fLinks, Shortest(Src))'
  BY <1>1, <1>7 DEF ForwardInv, Final
<1>15. QED
  BY <1>4, <1>7, <1>12, <1>13, <1>14 DEF ForwardInv

LEMMA ReverseStarts ==
  ASSUME GraphInv, Control, ReverseInv, UNCHANGED graph,
         pc = "start", pc' = "forward",
         R!insert(Dst, 0, 0), UNCHANGED <<rScanned, successors>>
  PROVE  ReverseInv'
<1>1. UNCHANGED <<edges, maxLinks>>
  BY DEF graph
<1>2. /\ rDistance = [v \in Vertex |-> None] /\ RP!Waiting = {} /\ rScanned = {}
      /\ rLinks = [v \in Vertex |-> None] /\ RP!QueueInv
  BY DEF ReverseInv
<1>3. Dst \in Vertex /\ Relaxes(edges, Nearest(Dst), Dst)
  BY Shadows
<1>4. /\ RP!QueueInv'
      /\ rDistance' = [rDistance EXCEPT ![Dst] = 0] /\ rLinks' = [rLinks EXCEPT ![Dst] = 0]
      /\ RP!Waiting' = RP!Waiting \cup {Dst}
  <2>1. rDistance[Dst] = None /\ 0 \in R!Distance
    BY <1>2, <1>3, QueueConstants DEF R!Distance
  <2>2. QED
    BY <1>2, <1>3, <2>1, RBringsNearer
<1>5. /\ \A v \in Vertex : v # Dst => rDistance'[v] = None
      /\ rDistance'[Dst] = 0 /\ rLinks'[Dst] = 0
      /\ rDistance' \in [Vertex -> (0..MaxBucket) \cup {None}]
      /\ rLinks' \in [Vertex -> Nat \cup {None}]
  BY <1>2, <1>3, <1>4, QueueConstants
<1>6. Known(rDistance') = {Dst}
  BY <1>3, <1>5, QueueConstants DEF Known
<1>7. RP!Waiting' = {Dst} /\ rScanned' = {}
  BY <1>2, <1>4
<1>8. Labelled(rDistance', rLinks', {Dst}, {}, Dst)
  BY <1>5, <1>6 DEF Labelled
<1>9. Counted(rLinks', {Dst}, {})
  BY <1>5, FS_EmptySet DEF Counted
<1>10. Walked(rDistance', rLinks', Nearest(Dst))
  <2>1. Nearest(Dst)[0][Dst] = 0
    BY <1>3 DEF Relaxes
  <2>2. QED
    BY <1>5, <1>6, <2>1 DEF Walked
<1>11. Search(rDistance', rLinks', {Dst}, {}, Dst, Nearest(Dst))
  BY <1>8, <1>9, <1>10 DEF Search, Sorted
<1>12. Search(rDistance, rLinks, RP!Waiting, rScanned, Dst, Nearest(Dst))'
  BY <1>1, <1>7, <1>11, NearestStays
<1>13. Settled(edges, rDistance, rLinks, RealMaxLinks, rScanned, rPage, Todo("reverse_edges"), sigma)'
  BY <1>7 DEF Settled, Unspent
<1>14. ReachedBy(edges, successors)' /\ Final(rScanned, rDistance, rLinks, Shortest(Dst))'
  BY <1>1, <1>7 DEF ReverseInv, Final
<1>15. QED
  BY <1>4, <1>7, <1>12, <1>13, <1>14 DEF ReverseInv

(* The reverse search has taken a page beyond sigma: the search ends.      *)
LEMMA ReverseGivesUp ==
  ASSUME GraphInv, Control, ReverseInv, UNCHANGED graph, pc = "reverse",
         R!delete_min, UNCHANGED <<successors, rScanned, sigma>>, pc' = "assemble"
  PROVE  ReverseInv'
<1>1. UNCHANGED <<edges, maxLinks>>
  BY DEF graph
<1>2. RP!QueueInv' /\ rDistance' = rDistance /\ rLinks' = rLinks
  BY RTakesNearest DEF ReverseInv
<1>3. RealMaxLinks' = RealMaxLinks /\ Shortest(Dst)' = Shortest(Dst)
  BY <1>1, NearestStays DEF RealMaxLinks
<1>4. Final(rScanned, rDistance, rLinks, Shortest(Dst))'
  BY <1>2, <1>3 DEF ReverseInv, Final
<1>5. ReachedBy(edges, successors)' /\ rScanned' \subseteq Vertex
  BY <1>1 DEF ReverseInv
<1>6. ~Searching' /\ pc' # "start" /\ pc' # "reverse_edges"
  BY DEF Searching
<1>7. QED
  BY <1>2, <1>4, <1>5, <1>6 DEF ReverseInv

LEMMA ChainStutters ==
  ASSUME ChainInv, UNCHANGED vars
  PROVE  ChainInv'
<1>1. /\ UNCHANGED <<edges, maxLinks, sigma, intersect, middle, pc, i>>
      /\ UNCHANGED <<fDistance, fLinks, fScanned, predecessors, fPage>>
      /\ UNCHANGED <<rDistance, rLinks, rScanned, successors, rPage>>
  BY DEF vars, graph, fVars, rVars, meeting
<1>2. /\ FP!QueueInv' <=> FP!QueueInv
      /\ RP!QueueInv' <=> RP!QueueInv
      /\ FP!Waiting' = FP!Waiting /\ RP!Waiting' = RP!Waiting
  BY QueueStays, RQueueStays DEF vars, fVars, rVars
<1>3. /\ Nearest(Src)' = Nearest(Src) /\ Shortest(Src)' = Shortest(Src)
      /\ Nearest(Dst)' = Nearest(Dst) /\ Shortest(Dst)' = Shortest(Dst)
  BY <1>1, NearestStays
<1>4. GraphInv' /\ Control'
  BY <1>1 DEF ChainInv, GraphInv, Control
<1>5. /\ RealMaxLinks' = RealMaxLinks /\ Searching' = Searching
      /\ Todo("forward_edges")' = Todo("forward_edges")
      /\ Todo("reverse_edges")' = Todo("reverse_edges")
  BY <1>1 DEF RealMaxLinks, Searching, Todo
<1>6. ForwardInv'
  BY <1>1, <1>2, <1>3, <1>5 DEF ChainInv, ForwardInv, Final
<1>7. ReverseInv'
  BY <1>1, <1>2, <1>3, <1>5 DEF ChainInv, ReverseInv, Final
<1>8. QED
  BY <1>4, <1>6, <1>7 DEF ChainInv

-----------------------------------------------------------------------------
LEMMA ShadowEdgesAreEdges ==
  ASSUME NEW shadow, NEW pages \in Seq(Page)
  PROVE  ShadowEdges(shadow, pages) \in Seq(Edges(shadow))
<1>1. \A n \in DOMAIN pages : Edge(shadow, pages[n], IF Increasing THEN (10 * (n - 1)) % 256 ELSE 0)
                                \in Edges(shadow)
  <2>1. ASSUME NEW n \in DOMAIN pages
        PROVE  (IF Increasing THEN (10 * (n - 1)) % 256 ELSE 0) \in Nat
    <3>1. 10 * (n - 1) \in Int
      BY <2>1
    <3>2. QED
      BY <3>1
  <2>2. \A n \in DOMAIN pages : pages[n] \in Page
    OBVIOUS
  <2>3. QED
    BY <2>1, <2>2 DEF Edge, Edges
<1>2. DOMAIN pages = 1..Len(pages) /\ Len(pages) \in Nat
  OBVIOUS
<1>3. QED
  BY <1>1, <1>2 DEF ShadowEdges

LEMMA InitChainInv == Init => ChainInv
<1> SUFFICES ASSUME Init PROVE ChainInv
  OBVIOUS
<1>1. PICK g \in Graphs :
        edges = [v \in Vertex |-> CASE v = Src -> ShadowEdges(Src, ends[1])
                                    [] v = Dst -> ShadowEdges(Dst, ends[2])
                                    [] OTHER   -> g[v]]
  BY DEF Init
<1>2. ends \in Ends /\ maxLinks \in LinkLimits
  BY DEF Init
<1>3. WellFormed(edges)
  <2>1. ends[1] \in Seq(Page) /\ ends[2] \in Seq(Page)
    BY <1>2, GraphAssumption DEF GraphAssumption
  <2>2. /\ ShadowEdges(Src, ends[1]) \in Seq(Edges(Src))
        /\ ShadowEdges(Dst, ends[2]) \in Seq(Edges(Dst))
    BY <2>1, ShadowEdgesAreEdges
  <2>3. \A v \in Page : g[v] \in Seq(Edges(v))
    BY GraphAssumption DEF GraphAssumption
  <2>4. ASSUME NEW v \in Vertex PROVE edges[v] \in Seq(Edges(v))
    <3>1. CASE v = Src
      BY <1>1, <2>2, <3>1
    <3>2. CASE v = Dst
      BY <1>1, <2>2, <3>2, ChainAssumption DEF ChainAssumption
    <3>3. CASE v # Src /\ v # Dst
      <4>1. v \in Page
        BY <3>3 DEF Vertex
      <4>2. edges[v] = g[v]
        BY <1>1, <3>3
      <4>3. QED
        BY <2>3, <4>1, <4>2
    <3>4. QED
      BY <3>1, <3>2, <3>3
  <2>5. DOMAIN edges = Vertex
    BY <1>1
  <2>6. QED
    BY <2>4, <2>5 DEF WellFormed
<1>4. GraphInv
  BY <1>2, <1>3, ChainAssumption DEF GraphInv, ChainAssumption
<1>5. Control
  BY QueueConstants DEF Init, Control
<1>6. /\ FP!IndInv /\ FP!Waiting = {} /\ RP!IndInv /\ RP!Waiting = {}
  <2>1. FP!Init /\ RP!Init
    BY SameQueue DEF Init
  <2>2. QED
    BY <2>1, QueueConstants, FP!InitHolds, RP!InitHolds
<1>7. FP!QueueInv /\ RP!QueueInv
  BY <1>6 DEF FP!IndInv, RP!IndInv
<1>8. /\ fDistance = [v \in Vertex |-> None] /\ fLinks = [v \in Vertex |-> None]
      /\ rDistance = [v \in Vertex |-> None] /\ rLinks = [v \in Vertex |-> None]
  BY DEF Init, F!Init, R!Init
<1>9. /\ pc = "start" /\ fScanned = {} /\ rScanned = {}
      /\ predecessors = [v \in Vertex |-> None] /\ successors = [v \in Vertex |-> None]
  BY DEF Init
<1>10. ForwardInv
  BY <1>6, <1>7, <1>8, <1>9 DEF ForwardInv, ReachedBy, Final, Searching
<1>11. ReverseInv
  BY <1>6, <1>7, <1>8, <1>9 DEF ReverseInv, ReachedBy, Final, Searching
<1>12. QED
  BY <1>4, <1>5, <1>10, <1>11 DEF ChainInv

-----------------------------------------------------------------------------
(* The actions.                                                            *)

(* The labels of a search that is going on.                                *)
LEMMA ForwardLabels ==
  ASSUME ForwardInv, Searching
  PROVE  \A v \in FP!Waiting \cup fScanned : v \in Page \cup {Src} /\ fDistance[v] \in Nat
BY QueueConstants DEF ForwardInv, Search, Labelled, Known

LEMMA ReverseLabels ==
  ASSUME ReverseInv, Searching
  PROVE  \A v \in RP!Waiting \cup rScanned : v \in Page \cup {Dst} /\ rDistance[v] \in Nat
BY QueueConstants DEF ReverseInv, Search, Labelled, Known

(* The edge a search relaxes.                                              *)
LEMMA ForwardEdgeAt ==
  ASSUME GraphInv, Control, ForwardInv, pc = "forward_edges", i <= Len(edges[fPage])
  PROVE  /\ edges[fPage][i].end \in Page /\ fDistance[fPage] + edges[fPage][i].weight \in Nat
         /\ fDistance[edges[fPage][i].end] # None => fDistance[edges[fPage][i].end] \in Nat
<1>1. fPage \in fScanned /\ Searching /\ fPage \in Vertex /\ WellFormed(edges) /\ i \in Nat \ {0}
  BY DEF ForwardInv, Farthest, Searching, GraphInv, Control
<1>2. Len(edges[fPage]) \in Nat
  BY <1>1 DEF WellFormed
<1>3. i \in 1..Len(edges[fPage])
  BY <1>1, <1>2
<1>4. edges[fPage][i] \in AllEdges(edges)
  BY <1>1, <1>3, EdgeOfGraph
<1>5. edges[fPage][i].end \in Page /\ edges[fPage][i].weight \in Nat
  BY <1>1, <1>4, EdgeOfGraph
<1>6. fDistance[fPage] \in Nat
  BY <1>1, ForwardLabels
<1>7. \A v \in Vertex : fDistance[v] # None => fDistance[v] \in Nat
  BY <1>1, QueueConstants DEF ForwardInv, Search, Labelled
<1>8. QED
  BY <1>5, <1>6, <1>7 DEF Vertex

LEMMA ReverseEdgeAt ==
  ASSUME GraphInv, Control, ReverseInv, pc = "reverse_edges", i <= Len(edges[rPage])
  PROVE  /\ edges[rPage][i].end \in Page /\ rDistance[rPage] + edges[rPage][i].weight \in Nat
         /\ rDistance[edges[rPage][i].end] # None => rDistance[edges[rPage][i].end] \in Nat
<1>1. rPage \in rScanned /\ Searching /\ rPage \in Vertex /\ WellFormed(edges) /\ i \in Nat \ {0}
  BY DEF ReverseInv, Farthest, Searching, GraphInv, Control
<1>2. Len(edges[rPage]) \in Nat
  BY <1>1 DEF WellFormed
<1>3. i \in 1..Len(edges[rPage])
  BY <1>1, <1>2
<1>4. edges[rPage][i] \in AllEdges(edges)
  BY <1>1, <1>3, EdgeOfGraph
<1>5. edges[rPage][i].end \in Page /\ edges[rPage][i].weight \in Nat
  BY <1>1, <1>4, EdgeOfGraph
<1>6. rDistance[rPage] \in Nat
  BY <1>1, ReverseLabels
<1>7. \A v \in Vertex : rDistance[v] # None => rDistance[v] \in Nat
  BY <1>1, QueueConstants DEF ReverseInv, Search, Labelled
<1>8. QED
  BY <1>5, <1>6, <1>7 DEF Vertex

LEMMA StartStep == ChainInv /\ Start => ChainInv'
<1> SUFFICES ASSUME ChainInv, Start PROVE ChainInv'
  OBVIOUS
<1>1. GraphInv /\ Control /\ ForwardInv /\ ReverseInv
  BY DEF ChainInv
<1>2. UNCHANGED graph /\ UNCHANGED <<sigma, intersect, middle, i>> /\ pc = "start"
  BY DEF Start, meeting
<1>3. GraphInv'
  BY <1>1, <1>2 DEF GraphInv, graph
<1>4. sigma' \in Nat /\ sigma' <= sigma
  BY <1>1, <1>2 DEF Control
<1>5. CASE ends[1] = <<>> \/ ends[2] = <<>>
  <2>1. pc' = "done" /\ UNCHANGED fVars /\ UNCHANGED rVars
    BY <1>5 DEF Start
  <2>2. ~Searching'
    BY <2>1 DEF Searching
  <2>3. ForwardInv' /\ ReverseInv'
    BY <1>1, <1>2, <1>4, <2>1, <2>2, ForwardRests, ReverseRests
  <2>4. Control'
    BY <1>1, <1>2, <2>1 DEF Control
  <2>5. QED
    BY <1>3, <2>3, <2>4 DEF ChainInv
<1>6. CASE ~(ends[1] = <<>> \/ ends[2] = <<>>)
  <2>1. /\ F!insert(Src, 0, 0) /\ R!insert(Dst, 0, 0) /\ pc' = "forward"
        /\ UNCHANGED <<fScanned, predecessors>> /\ UNCHANGED <<rScanned, successors>>
    BY <1>6 DEF Start
  <2>2. ForwardInv' /\ ReverseInv'
    BY <1>1, <1>2, <2>1, ForwardStarts, ReverseStarts
  <2>3. Control'
    BY <1>1, <1>2, <2>1 DEF Control
  <2>4. QED
    BY <1>3, <2>2, <2>3 DEF ChainInv
<1>7. QED
  BY <1>5, <1>6

LEMMA ForwardPageStep == ChainInv /\ ForwardPage => ChainInv'
<1> SUFFICES ASSUME ChainInv, ForwardPage PROVE ChainInv'
  OBVIOUS
<1>1. GraphInv /\ Control /\ ForwardInv /\ ReverseInv
  BY DEF ChainInv
<1>2. /\ UNCHANGED graph /\ UNCHANGED predecessors /\ UNCHANGED rVars
      /\ pc = "forward" /\ F!delete_min
  BY DEF ForwardPage
<1>3. GraphInv'
  BY <1>1, <1>2 DEF GraphInv, graph
<1>4. Searching /\ pc # "reverse_edges" /\ sigma \in Nat /\ UNCHANGED <<rDistance, rScanned>>
  BY <1>1, <1>2 DEF Searching, Control, rVars
<1>5. /\ sigma' \in Nat /\ sigma' <= sigma /\ i' \in Nat \ {0}
      /\ {intersect', middle'} \subseteq Page \cup {None}
      /\ pc' \in {"reverse", "assemble", "forward_edges"}
      /\ \/ /\ fPage' = None /\ fScanned' = fScanned
            /\ pc' = "reverse"
         \/ /\ fPage' # None /\ fScanned' = fScanned \cup {fPage'}
            /\ pc' = "assemble" \/ (pc' = "forward_edges" /\ i' = 1 /\ sigma' = sigma)
  <2>1. CASE fPage' = None
    <3>1. GoOn("reverse") /\ UNCHANGED <<fScanned, topF, meeting>>
      BY <2>1 DEF ForwardPage
    <3>2. QED
      BY <1>1, <1>4, <2>1, <3>1 DEF GoOn, meeting, Control
  <2>2. CASE fPage' # None /\ fPage' \in rScanned /\ fDistance[fPage'] + rDistance[fPage'] < sigma
    <3>1. /\ fScanned' = fScanned \cup {fPage'}
          /\ Meet(fPage', fDistance[fPage'] + rDistance[fPage']) /\ AssembleAt(fPage')
      BY <2>2 DEF ForwardPage
    <3>2. fPage' \in FP!Waiting
      BY <1>1, <1>2, <2>2, FTakesNearest DEF ForwardInv
    <3>3. fPage' \in Page /\ fDistance[fPage'] \in Nat /\ rDistance[fPage'] \in Nat
      <4>1. fPage' \in Page \cup {Src} /\ fDistance[fPage'] \in Nat
        BY <1>1, <1>4, <3>2, ForwardLabels
      <4>2. fPage' \in Page \cup {Dst} /\ rDistance[fPage'] \in Nat
        BY <1>1, <1>4, <2>2, ReverseLabels
      <4>3. QED
        BY <1>1, <4>1, <4>2, Shadows
    <3>4. fDistance[fPage'] + rDistance[fPage'] \in Nat
      BY <3>3
    <3>5. sigma' \in Nat /\ sigma' <= sigma /\ intersect' \in Page \cup {None}
      BY <1>1, <3>1, <3>3, <3>4, Meets
    <3>6. QED
      BY <1>1, <2>2, <3>1, <3>3, <3>5 DEF AssembleAt, Control
  <2>3. CASE fPage' # None /\ ~(fPage' \in rScanned /\ fDistance[fPage'] + rDistance[fPage'] < sigma)
    <3>1. fScanned' = fScanned \cup {fPage'} /\ GoOn("forward_edges") /\ UNCHANGED meeting
      BY <2>3 DEF ForwardPage
    <3>2. QED
      BY <1>1, <1>4, <2>3, <3>1 DEF GoOn, meeting, Control
  <2>4. QED
    BY <2>1, <2>2, <2>3
<1>6. ForwardInv'
  BY <1>1, <1>2, <1>5, ForwardScans
<1>7. ReverseInv'
  BY <1>1, <1>2, <1>4, <1>5, ReverseRests
<1>8. Control'
  BY <1>5 DEF Control
<1>9. QED
  BY <1>3, <1>6, <1>7, <1>8 DEF ChainInv

LEMMA ReversePageStep == ChainInv /\ ReversePage => ChainInv'
<1> SUFFICES ASSUME ChainInv, ReversePage PROVE ChainInv'
  OBVIOUS
<1>1. GraphInv /\ Control /\ ForwardInv /\ ReverseInv
  BY DEF ChainInv
<1>2. /\ UNCHANGED graph /\ UNCHANGED successors /\ UNCHANGED fVars
      /\ pc = "reverse" /\ R!delete_min
  BY DEF ReversePage
<1>3. GraphInv'
  BY <1>1, <1>2 DEF GraphInv, graph
<1>4. Searching /\ pc # "forward_edges" /\ sigma \in Nat /\ UNCHANGED <<fDistance, fScanned>>
  BY <1>1, <1>2 DEF Searching, Control, fVars
<1>5. /\ sigma' \in Nat /\ sigma' <= sigma /\ i' \in Nat \ {0}
      /\ {intersect', middle'} \subseteq Page \cup {None}
      /\ pc' \in {"forward", "assemble", "reverse_edges"}
      /\ \/ /\ rPage' = None /\ rScanned' = rScanned
            /\ pc' = "forward"
         \/ /\ rPage' # None /\ rScanned' = rScanned \cup {rPage'}
            /\ pc' = "assemble" \/ (pc' = "reverse_edges" /\ i' = 1 /\ sigma' = sigma)
         \/ rScanned' = rScanned /\ pc' = "assemble" /\ sigma' = sigma
  <2>1. CASE rPage' = None
    <3>1. GoOn("forward") /\ UNCHANGED <<rScanned, topR, meeting>>
      BY <2>1 DEF ReversePage
    <3>2. QED
      BY <1>1, <1>4, <2>1, <3>1 DEF GoOn, meeting, Control
  <2>2. CASE rPage' # None /\ topR' + topF > sigma
    <3>1. AssembleAt(intersect) /\ UNCHANGED <<rScanned, meeting>>
      BY <2>2 DEF ReversePage
    <3>2. QED
      BY <1>1, <1>4, <3>1 DEF AssembleAt, meeting, Control
  <2>3. CASE /\ rPage' # None /\ ~(topR' + topF > sigma)
             /\ rPage' \in fScanned /\ fDistance[rPage'] + rDistance[rPage'] < sigma
    <3>1. /\ rScanned' = rScanned \cup {rPage'}
          /\ Meet(rPage', fDistance[rPage'] + rDistance[rPage']) /\ AssembleAt(rPage')
      BY <2>3 DEF ReversePage
    <3>2. rPage' \in RP!Waiting
      BY <1>1, <1>2, <2>3, RTakesNearest DEF ReverseInv
    <3>3. rPage' \in Page /\ fDistance[rPage'] \in Nat /\ rDistance[rPage'] \in Nat
      <4>1. rPage' \in Page \cup {Dst} /\ rDistance[rPage'] \in Nat
        BY <1>1, <1>4, <3>2, ReverseLabels
      <4>2. rPage' \in Page \cup {Src} /\ fDistance[rPage'] \in Nat
        BY <1>1, <1>4, <2>3, ForwardLabels
      <4>3. QED
        BY <1>1, <4>1, <4>2, Shadows
    <3>4. fDistance[rPage'] + rDistance[rPage'] \in Nat
      BY <3>3
    <3>5. sigma' \in Nat /\ sigma' <= sigma /\ intersect' \in Page \cup {None}
      BY <1>1, <3>1, <3>3, <3>4, Meets
    <3>6. QED
      BY <1>1, <2>3, <3>1, <3>3, <3>5 DEF AssembleAt, Control
  <2>4. CASE /\ rPage' # None /\ ~(topR' + topF > sigma)
             /\ ~(rPage' \in fScanned /\ fDistance[rPage'] + rDistance[rPage'] < sigma)
    <3>1. rScanned' = rScanned \cup {rPage'} /\ GoOn("reverse_edges") /\ UNCHANGED meeting
      BY <2>4 DEF ReversePage
    <3>2. QED
      BY <1>1, <1>4, <2>4, <3>1 DEF GoOn, meeting, Control
  <2>5. QED
    BY <2>1, <2>2, <2>3, <2>4
<1>6. ReverseInv'
  <2>1. CASE rScanned' = rScanned /\ pc' = "assemble" /\ sigma' = sigma
    BY <1>1, <1>2, <2>1, ReverseGivesUp
  <2>2. CASE ~(rScanned' = rScanned /\ pc' = "assemble" /\ sigma' = sigma)
    BY <1>1, <1>2, <1>5, <2>2, ReverseScans
  <2>3. QED
    BY <2>1, <2>2
<1>7. ForwardInv'
  BY <1>1, <1>2, <1>4, <1>5, ForwardRests
<1>8. Control'
  BY <1>5 DEF Control
<1>9. QED
  BY <1>3, <1>6, <1>7, <1>8 DEF ChainInv

LEMMA ForwardEdgeStep == ChainInv /\ ForwardEdge => ChainInv'
<1> SUFFICES ASSUME ChainInv, ForwardEdge PROVE ChainInv'
  OBVIOUS
<1>1. GraphInv /\ Control /\ ForwardInv /\ ReverseInv
  BY DEF ChainInv
<1>2. /\ UNCHANGED graph /\ UNCHANGED rVars /\ UNCHANGED middle
      /\ pc = "forward_edges" /\ i <= Len(edges[fPage])
  BY DEF ForwardEdge
<1>3. GraphInv'
  BY <1>1, <1>2 DEF GraphInv, graph
<1>4. Searching /\ pc # "reverse_edges" /\ sigma \in Nat /\ UNCHANGED <<rDistance, rScanned>>
  BY <1>1, <1>2 DEF Searching, Control, rVars
<1>5. PICK e, d, l :
        /\ e = edges[fPage][i] /\ d = fDistance[fPage] + e.weight /\ l = fLinks[fPage] + 1
        /\ \/ Pruned(d, l) /\ NextEdge /\ UNCHANGED <<fVars, meeting>>
           \/ d > MaxBucket /\ Overrun /\ UNCHANGED <<fVars, meeting>>
           \/ /\ fDistance[e.end] # None => d < fDistance[e.end]
              /\ d <= MaxBucket
              /\ IF fDistance[e.end] = None THEN F!insert(e.end, d, l)
                 ELSE F!decrease_key(e.end, d, l)
              /\ predecessors' = [predecessors EXCEPT ![e.end] = e]
              /\ NextEdge /\ UNCHANGED fScanned
              /\ IF e.end \in rScanned THEN Meet(e.end, d + rDistance[e.end])
                 ELSE UNCHANGED meeting
           \/ /\ ~(fDistance[e.end] # None => d < fDistance[e.end])
              /\ NextEdge /\ UNCHANGED fVars
              /\ IF e.end \in rScanned THEN Meet(e.end, d + rDistance[e.end])
                 ELSE UNCHANGED meeting
  BY DEF ForwardEdge
<1>6. /\ e.end \in Page /\ d \in Nat
      /\ fDistance[e.end] # None => fDistance[e.end] \in Nat
  BY <1>1, <1>2, <1>5, ForwardEdgeAt
<1>7. e.end \in rScanned => rDistance[e.end] \in Nat
  BY <1>1, <1>4, ReverseLabels
<1>8. ASSUME NEW other \in Nat,
             UNCHANGED meeting \/ Meet(e.end, d + other)
      PROVE  sigma' \in Nat /\ sigma' <= sigma /\ intersect' \in Page \cup {None}
  <2>1. d + other \in Nat
    BY <1>6
  <2>2. QED
    BY <1>1, <1>6, <1>8, <2>1, Meets
<1>9. sigma' \in Nat /\ sigma' <= sigma /\ intersect' \in Page \cup {None}
  <2>1. CASE UNCHANGED meeting
    BY <1>1, <2>1 DEF meeting, Control
  <2>2. CASE e.end \in rScanned /\ Meet(e.end, d + rDistance[e.end])
    BY <1>7, <1>8, <2>2
  <2>3. QED
    BY <1>5, <2>1, <2>2
<1>10. (NextEdge /\ pc' = pc /\ i' = i + 1) \/ (Overrun /\ pc' = "overrun" /\ i' = i)
  BY <1>5 DEF NextEdge, Overrun
<1>11. ReverseInv'
  BY <1>1, <1>2, <1>4, <1>9, <1>10, ReverseRests
<1>12. ForwardInv'
  <2>1. CASE Overrun /\ UNCHANGED <<fVars, meeting>>
    <3>1. ~Searching' /\ pc' # "start" /\ pc' # "forward_edges"
      BY <2>1 DEF Overrun, Searching
    <3>2. QED
      BY <1>1, <1>2, <1>9, <2>1, <3>1, ForwardRests
  <2>2. CASE Pruned(d, l) /\ NextEdge /\ UNCHANGED fVars
    <3>1. pc' = pc /\ i' = i + 1
      BY <2>2 DEF NextEdge
    <3>2. Pruned(fDistance[fPage] + e.weight, fLinks[fPage] + 1) /\ e = edges[fPage][i]
      BY <1>5, <2>2
    <3>3. QED
      BY <1>1, <1>2, <1>9, <2>2, <3>1, <3>2, ForwardSkips
  <2>3. CASE ~(fDistance[e.end] # None => d < fDistance[e.end]) /\ NextEdge /\ UNCHANGED fVars
    <3>1. pc' = pc /\ i' = i + 1
      BY <2>3 DEF NextEdge
    <3>2. /\ fDistance[e.end] # None /\ ~(fDistance[fPage] + e.weight < fDistance[e.end])
          /\ e = edges[fPage][i]
      BY <1>5, <2>3
    <3>3. QED
      BY <1>1, <1>2, <1>9, <2>3, <3>1, <3>2, ForwardSkips
  <2>4. CASE /\ fDistance[e.end] # None => d < fDistance[e.end]
             /\ d <= MaxBucket
             /\ IF fDistance[e.end] = None THEN F!insert(e.end, d, l)
                ELSE F!decrease_key(e.end, d, l)
             /\ predecessors' = [predecessors EXCEPT ![e.end] = e]
             /\ NextEdge /\ UNCHANGED fScanned
    <3>1. pc' = pc /\ i' = i + 1
      BY <2>4 DEF NextEdge
    <3>2. e = edges[fPage][i] /\ d = fDistance[fPage] + e.weight /\ l = fLinks[fPage] + 1
      BY <1>5
    <3>3. QED
      BY <1>1, <1>2, <1>9, <2>4, <3>1, <3>2, ForwardRelaxes
  <2>5. QED
    BY <1>5, <2>1, <2>2, <2>3, <2>4
<1>13. Control'
  BY <1>1, <1>2, <1>9, <1>10 DEF Control
<1>14. QED
  BY <1>3, <1>11, <1>12, <1>13 DEF ChainInv

LEMMA ReverseEdgeStep == ChainInv /\ ReverseEdge => ChainInv'
<1> SUFFICES ASSUME ChainInv, ReverseEdge PROVE ChainInv'
  OBVIOUS
<1>1. GraphInv /\ Control /\ ReverseInv /\ ForwardInv
  BY DEF ChainInv
<1>2. /\ UNCHANGED graph /\ UNCHANGED fVars /\ UNCHANGED middle
      /\ pc = "reverse_edges" /\ i <= Len(edges[rPage])
  BY DEF ReverseEdge
<1>3. GraphInv'
  BY <1>1, <1>2 DEF GraphInv, graph
<1>4. Searching /\ pc # "forward_edges" /\ sigma \in Nat /\ UNCHANGED <<fDistance, fScanned>>
  BY <1>1, <1>2 DEF Searching, Control, fVars
<1>5. PICK e, d, l :
        /\ e = edges[rPage][i] /\ d = rDistance[rPage] + e.weight /\ l = rLinks[rPage] + 1
        /\ \/ Pruned(d, l) /\ NextEdge /\ UNCHANGED <<rVars, meeting>>
           \/ d > MaxBucket /\ Overrun /\ UNCHANGED <<rVars, meeting>>
           \/ /\ rDistance[e.end] # None => d < rDistance[e.end]
              /\ d <= MaxBucket
              /\ IF rDistance[e.end] = None THEN R!insert(e.end, d, l)
                 ELSE R!decrease_key(e.end, d, l)
              /\ successors' = [successors EXCEPT ![e.end] = e]
              /\ NextEdge /\ UNCHANGED rScanned
              /\ IF e.end \in fScanned THEN Meet(e.end, d + d)
                 ELSE UNCHANGED meeting
           \/ /\ ~(rDistance[e.end] # None => d < rDistance[e.end])
              /\ NextEdge /\ UNCHANGED rVars
              /\ IF e.end \in fScanned THEN Meet(e.end, d + rDistance[e.end])
                 ELSE UNCHANGED meeting
  BY DEF ReverseEdge
<1>6. /\ e.end \in Page /\ d \in Nat
      /\ rDistance[e.end] # None => rDistance[e.end] \in Nat
  BY <1>1, <1>2, <1>5, ReverseEdgeAt
<1>7. ~(rDistance[e.end] # None => d < rDistance[e.end]) => rDistance[e.end] \in Nat
  BY <1>6
<1>8. ASSUME NEW other \in Nat,
             UNCHANGED meeting \/ Meet(e.end, d + other)
      PROVE  sigma' \in Nat /\ sigma' <= sigma /\ intersect' \in Page \cup {None}
  <2>1. d + other \in Nat
    BY <1>6
  <2>2. QED
    BY <1>1, <1>6, <1>8, <2>1, Meets
<1>9. sigma' \in Nat /\ sigma' <= sigma /\ intersect' \in Page \cup {None}
  <2>1. CASE UNCHANGED meeting
    BY <1>1, <2>1 DEF meeting, Control
  <2>2. CASE /\ ~(rDistance[e.end] # None => d < rDistance[e.end])
             /\ Meet(e.end, d + rDistance[e.end])
    BY <1>7, <1>8, <2>2
  <2>3. CASE Meet(e.end, d + d)
    BY <1>6, <1>8, <2>3
  <2>4. QED
    BY <1>5, <2>1, <2>2, <2>3
<1>10. (NextEdge /\ pc' = pc /\ i' = i + 1) \/ (Overrun /\ pc' = "overrun" /\ i' = i)
  BY <1>5 DEF NextEdge, Overrun
<1>11. ForwardInv'
  BY <1>1, <1>2, <1>4, <1>9, <1>10, ForwardRests
<1>12. ReverseInv'
  <2>1. CASE Overrun /\ UNCHANGED <<rVars, meeting>>
    <3>1. ~Searching' /\ pc' # "start" /\ pc' # "reverse_edges"
      BY <2>1 DEF Overrun, Searching
    <3>2. QED
      BY <1>1, <1>2, <1>9, <2>1, <3>1, ReverseRests
  <2>2. CASE Pruned(d, l) /\ NextEdge /\ UNCHANGED rVars
    <3>1. pc' = pc /\ i' = i + 1
      BY <2>2 DEF NextEdge
    <3>2. Pruned(rDistance[rPage] + e.weight, rLinks[rPage] + 1) /\ e = edges[rPage][i]
      BY <1>5, <2>2
    <3>3. QED
      BY <1>1, <1>2, <1>9, <2>2, <3>1, <3>2, ReverseSkips
  <2>3. CASE ~(rDistance[e.end] # None => d < rDistance[e.end]) /\ NextEdge /\ UNCHANGED rVars
    <3>1. pc' = pc /\ i' = i + 1
      BY <2>3 DEF NextEdge
    <3>2. /\ rDistance[e.end] # None /\ ~(rDistance[rPage] + e.weight < rDistance[e.end])
          /\ e = edges[rPage][i]
      BY <1>5, <2>3
    <3>3. QED
      BY <1>1, <1>2, <1>9, <2>3, <3>1, <3>2, ReverseSkips
  <2>4. CASE /\ rDistance[e.end] # None => d < rDistance[e.end]
             /\ d <= MaxBucket
             /\ IF rDistance[e.end] = None THEN R!insert(e.end, d, l)
                ELSE R!decrease_key(e.end, d, l)
             /\ successors' = [successors EXCEPT ![e.end] = e]
             /\ NextEdge /\ UNCHANGED rScanned
    <3>1. pc' = pc /\ i' = i + 1
      BY <2>4 DEF NextEdge
    <3>2. e = edges[rPage][i] /\ d = rDistance[rPage] + e.weight /\ l = rLinks[rPage] + 1
      BY <1>5
    <3>3. QED
      BY <1>1, <1>2, <1>9, <2>4, <3>1, <3>2, ReverseRelaxes
  <2>5. QED
    BY <1>5, <2>1, <2>2, <2>3, <2>4
<1>13. Control'
  BY <1>1, <1>2, <1>9, <1>10 DEF Control
<1>14. QED
  BY <1>3, <1>11, <1>12, <1>13 DEF ChainInv

LEMMA EdgesDoneStep == ChainInv /\ EdgesDone => ChainInv'
<1> SUFFICES ASSUME ChainInv, EdgesDone PROVE ChainInv'
  OBVIOUS
<1>1. GraphInv /\ Control /\ ForwardInv /\ ReverseInv
  BY DEF ChainInv
<1>2. /\ UNCHANGED graph /\ UNCHANGED fVars /\ UNCHANGED rVars
      /\ UNCHANGED <<sigma, intersect, middle, i>>
  BY DEF EdgesDone, meeting
<1>3. GraphInv' /\ sigma' \in Nat /\ sigma' <= sigma
  BY <1>1, <1>2 DEF GraphInv, Control, graph
<1>4. CASE pc = "forward_edges" /\ i > Len(edges[fPage]) /\ pc' = "reverse"
  <2>1. ForwardInv'
    BY <1>1, <1>2, <1>4, ForwardDone
  <2>2. Searching /\ pc # "reverse_edges"
    BY <1>4 DEF Searching
  <2>3. ReverseInv'
    BY <1>1, <1>2, <1>3, <1>4, <2>2, ReverseRests
  <2>4. Control'
    BY <1>1, <1>2, <1>4 DEF Control
  <2>5. QED
    BY <1>3, <2>1, <2>3, <2>4 DEF ChainInv
<1>5. CASE pc = "reverse_edges" /\ i > Len(edges[rPage]) /\ pc' = "forward"
  <2>1. ReverseInv'
    BY <1>1, <1>2, <1>5, ReverseDone
  <2>2. Searching /\ pc # "forward_edges"
    BY <1>5 DEF Searching
  <2>3. ForwardInv'
    BY <1>1, <1>2, <1>3, <1>5, <2>2, ForwardRests
  <2>4. Control'
    BY <1>1, <1>2, <1>5 DEF Control
  <2>5. QED
    BY <1>3, <2>1, <2>3, <2>4 DEF ChainInv
<1>6. QED
  BY <1>4, <1>5 DEF EdgesDone

(* The loop is over: nothing but the place changes.                        *)
LEMMA EndStep == ChainInv /\ (Exhausted \/ Assemble) => ChainInv'
<1> SUFFICES ASSUME ChainInv, Exhausted \/ Assemble PROVE ChainInv'
  OBVIOUS
<1>1. GraphInv /\ Control /\ ForwardInv /\ ReverseInv
  BY DEF ChainInv
<1>2. /\ UNCHANGED graph /\ UNCHANGED fVars /\ UNCHANGED rVars
      /\ UNCHANGED <<sigma, intersect, middle, i>> /\ pc' \in {"assemble", "done"}
  BY DEF Exhausted, Assemble, meeting
<1>3. GraphInv' /\ sigma' \in Nat /\ sigma' <= sigma
  BY <1>1, <1>2 DEF GraphInv, Control, graph
<1>4. ~Searching' /\ pc' # "start" /\ pc' # "forward_edges" /\ pc' # "reverse_edges"
  BY <1>2 DEF Searching
<1>5. ForwardInv' /\ ReverseInv'
  BY <1>1, <1>2, <1>3, <1>4, ForwardRests, ReverseRests
<1>6. Control'
  BY <1>1, <1>2 DEF Control
<1>7. QED
  BY <1>3, <1>5, <1>6 DEF ChainInv

LEMMA NextChainInv == ChainInv /\ [Next]_vars => ChainInv'
<1> SUFFICES ASSUME ChainInv, [Next]_vars PROVE ChainInv'
  OBVIOUS
<1>1. CASE Start
  BY <1>1, StartStep
<1>2. CASE ForwardPage
  BY <1>2, ForwardPageStep
<1>3. CASE ReversePage
  BY <1>3, ReversePageStep
<1>4. CASE Exhausted \/ Assemble
  BY <1>4, EndStep
<1>5. CASE ForwardEdge
  BY <1>5, ForwardEdgeStep
<1>6. CASE ReverseEdge
  BY <1>6, ReverseEdgeStep
<1>7. CASE EdgesDone
  BY <1>7, EdgesDoneStep
<1>8. CASE Stopped \/ UNCHANGED vars
  BY <1>8, ChainStutters DEF Stopped
<1>9. QED
  BY <1>1, <1>2, <1>3, <1>4, <1>5, <1>6, <1>7, <1>8 DEF Next

LEMMA ChainInvTypeOK == ChainInv => TypeOK
<1> SUFFICES ASSUME ChainInv PROVE TypeOK
  OBVIOUS
<1>1. Control /\ ForwardInv /\ ReverseInv
  BY DEF ChainInv
<1>2. F!TypeOK /\ R!TypeOK
  <2>1. FP!TypeOK /\ RP!TypeOK
    BY <1>1 DEF ForwardInv, ReverseInv, FP!QueueInv, RP!QueueInv
  <2>2. QED
    BY <2>1, SameQueue
<1>3. {fScanned, rScanned} \subseteq SUBSET Vertex
  BY <1>1 DEF ForwardInv, ReverseInv
<1>4. \A t \in {predecessors, successors} : \A v \in Vertex :
        t[v] # None => t[v] \in ToSet(edges[t[v].begin]) /\ t[v].end = v
  BY <1>1 DEF ForwardInv, ReverseInv, ReachedBy
<1>5. QED
  BY <1>1, <1>2, <1>3, <1>4 DEF TypeOK, Control

LEMMA ChainInvFinal == ChainInv => ScannedIsFinal
BY ChainInvTypeOK DEF ChainInv, ForwardInv, ReverseInv, ScannedIsFinal

(* Every page either search has scanned keeps a distance that is never     *)
(* below the shortest and is the shortest unless that is beyond sigma,     *)
(* whenever the link limit spares every simple path (shortest_chain's      *)
(* main loop); and the queues and tables keep their types.                 *)
THEOREM ScannedPagesAreFinal == Spec => []ScannedIsFinal
<1>1. Init => ChainInv
  BY InitChainInv
<1>2. ChainInv /\ [Next]_vars => ChainInv'
  BY NextChainInv
<1>3. ChainInv => ScannedIsFinal
  BY ChainInvFinal
<1>4. QED
  BY <1>1, <1>2, <1>3, PTL DEF Spec

-----------------------------------------------------------------------------
(* path_to_json: the fold over a chain, one link after the other.          *)

(* What the controller sends, one link after the other.                    *)
Link(from, e) == IF from = e.begin THEN [start |-> e.begin, end |-> e.end]
                 ELSE [start |-> e.end, end |-> e.begin]
Walk(first, path, e) == Append(path, Link(IF path = <<>> THEN first ELSE Last(path).end, e))

(* FoldLeft folds over the sets of indices, the last index first.          *)
Folds(f, S, first, c) ==
  f = [s \in SUBSET S |-> IF s = {} THEN <<>>
                          ELSE Walk(first, f[s \ {Max(s)}], c[Max(s)])]

LEMMA MaxOf ==
  ASSUME NEW s, \A y \in s : y \in Nat, NEW x \in s, \A y \in s : x >= y
  PROVE  Max(s) = x
<1>1. Max(s) \in s /\ \A y \in s : Max(s) >= y
  BY DEF Max
<1>2. Max(s) \in Nat /\ x \in Nat /\ Max(s) >= x /\ x >= Max(s)
  BY <1>1
<1>3. QED
  BY <1>2

LEMMA FoldExists ==
  ASSUME NEW first, NEW c, NEW N \in Nat
  PROVE  \E f : Folds(f, 1..N, first, c)
<1> DEFINE T == {n \in Nat : \E f : Folds(f, 1..n, first, c)}
<1>1. 0 \in T
  <2>1. Folds([s \in SUBSET (1..0) |-> <<>>], 1..0, first, c)
    BY DEF Folds
  <2>2. QED
    BY <2>1
<1>2. ASSUME NEW n \in T PROVE n + 1 \in T
  <2>1. n \in Nat
    OBVIOUS
  <2>2. PICK f : Folds(f, 1..n, first, c)
    BY <1>2
  <2> DEFINE g == [s \in SUBSET (1..(n + 1)) |->
                     IF n + 1 \in s THEN Walk(first, f[s \ {n + 1}], c[n + 1]) ELSE f[s]]
  <2>3. ASSUME NEW s \in SUBSET (1..(n + 1))
        PROVE  g[s] = IF s = {} THEN <<>> ELSE Walk(first, g[s \ {Max(s)}], c[Max(s)])
    <3>1. CASE n + 1 \in s
      <4>1. Max(s) = n + 1
        <5>1. \A y \in s : y \in Nat /\ n + 1 >= y
          BY <2>1
        <5>2. QED
          BY <3>1, <5>1, MaxOf
      <4>2. s \ {n + 1} \in SUBSET (1..n)
        BY <2>1
      <4>3. g[s \ {n + 1}] = f[s \ {n + 1}]
        BY <2>1, <4>2
      <4>4. QED
        BY <3>1, <4>1, <4>3
    <3>2. CASE n + 1 \notin s
      <4>1. s \in SUBSET (1..n)
        BY <2>1, <3>2
      <4>2. s # {} => s \ {Max(s)} \in SUBSET (1..(n + 1)) /\ s \ {Max(s)} \in SUBSET (1..n)
        BY <4>1
      <4>3. s # {} => g[s \ {Max(s)}] = f[s \ {Max(s)}]
        BY <3>2, <4>2
      <4>4. g[s] = f[s]
        BY <3>2
      <4>5. f[s] = IF s = {} THEN <<>> ELSE Walk(first, f[s \ {Max(s)}], c[Max(s)])
        BY <2>2, <4>1 DEF Folds
      <4>6. QED
        BY <4>3, <4>4, <4>5
    <3>3. QED
      BY <3>1, <3>2
  <2>4. Folds(g, 1..(n + 1), first, c)
    <3>1. g = [s \in SUBSET (1..(n + 1)) |-> g[s]]
      OBVIOUS
    <3> HIDE DEF g
    <3>2. QED
      BY <2>3, <3>1 DEF Folds
  <2>5. QED
    BY <2>1, <2>4
<1>3. T = Nat
  BY <1>1, <1>2, Induction
<1>4. QED
  BY <1>3

Steps(f, N, first, c) ==
  /\ f[1..0] = <<>>
  /\ \A n \in 0..(N - 1) : f[1..(n + 1)] = Walk(first, f[1..n], c[n + 1])

LEMMA FoldSteps ==
  ASSUME NEW first, NEW c, NEW N \in Nat, NEW f, Folds(f, 1..N, first, c)
  PROVE  Steps(f, N, first, c)
<1>1. f[1..0] = <<>>
  BY DEF Folds
<1>2. ASSUME NEW n \in 0..(N - 1) PROVE f[1..(n + 1)] = Walk(first, f[1..n], c[n + 1])
  <2>1. 1..(n + 1) \in SUBSET (1..N) /\ n + 1 \in 1..(n + 1) /\ n + 1 \in Nat
    OBVIOUS
  <2>2. Max(1..(n + 1)) = n + 1
    <3>1. \A y \in 1..(n + 1) : y \in Nat /\ n + 1 >= y
      OBVIOUS
    <3>2. QED
      BY <2>1, <3>1, MaxOf
  <2>3. (1..(n + 1)) \ {n + 1} = 1..n
    OBVIOUS
  <2>4. f[1..(n + 1)] = Walk(first, f[(1..(n + 1)) \ {Max(1..(n + 1))}], c[Max(1..(n + 1))])
    BY <2>1 DEF Folds
  <2>5. QED
    BY <2>2, <2>3, <2>4
<1>3. QED
  BY <1>1, <1>2 DEF Steps

LEMMA WalkUnfolds ==
  path_to_json = (CHOOSE f : Folds(f, DOMAIN chain, StartTitle, chain))[DOMAIN chain]
BY DEF path_to_json, FoldLeft, MapThenFoldSet, Walk, Link, Folds

LEMMA WalkSteps ==
  ASSUME DOMAIN chain = 1..Len(chain), Len(chain) \in Nat
  PROVE  \E f : path_to_json = f[1..Len(chain)] /\ Steps(f, Len(chain), StartTitle, chain)
<1>1. PICK f : f = CHOOSE g : Folds(g, 1..Len(chain), StartTitle, chain)
  OBVIOUS
<1>2. Folds(f, 1..Len(chain), StartTitle, chain)
  BY <1>1, FoldExists
<1>3. path_to_json = f[1..Len(chain)]
  BY <1>1, WalkUnfolds
<1>4. QED
  BY <1>2, <1>3, FoldSteps

-----------------------------------------------------------------------------
(* A fold along a walk follows it; and a trace takes one step back at a time.*)

(* Each edge of c joins two stops that follow each other, either way round. *)
Joins(c, W, N) ==
  \A n \in 1..N : \/ c[n].begin = W[n - 1] /\ c[n].end = W[n]
                  \/ c[n].end = W[n - 1] /\ c[n].begin = W[n]
PathOver(W, n) == [k \in 1..n |-> [start |-> W[k - 1], end |-> W[k]]]

LEMMA LongerPath ==
  ASSUME NEW c, NEW W, NEW N \in Nat, Joins(c, W, N), NEW n \in Nat, n + 1 <= N
  PROVE  Walk(W[0], PathOver(W, n), c[n + 1]) = PathOver(W, n + 1)
<1> DEFINE p == PathOver(W, n)
           new == [start |-> W[n], end |-> W[n + 1]]
           V == {[start |-> W[k - 1], end |-> W[k]] : k \in 1..(n + 1)}
<1>1. p \in Seq(V) /\ Len(p) = n /\ new \in V /\ \A k \in 1..n : p[k] = [start |-> W[k - 1], end |-> W[k]]
  <2>1. \A k \in 1..n : [start |-> W[k - 1], end |-> W[k]] \in V
    OBVIOUS
  <2>2. p \in [1..n -> V]
    BY <2>1 DEF PathOver
  <2>3. n + 1 \in 1..(n + 1) /\ n + 1 - 1 = n
    OBVIOUS
  <2>4. new \in V
    BY <2>3
  <2>5. p \in Seq(V) /\ Len(p) = n
    <3> HIDE DEF p, V
    <3>1. QED
      BY <2>2
  <2>6. QED
    BY <2>4, <2>5 DEF PathOver
<1>2. (IF p = <<>> THEN W[0] ELSE Last(p).end) = W[n]
  <2>1. CASE n = 0
    BY <1>1, <2>1
  <2>2. CASE n # 0
    <3>1. p # <<>> /\ p[n].end = W[n]
      BY <1>1, <2>2
    <3>2. QED
      BY <1>1, <3>1 DEF Last
  <2>3. QED
    BY <2>1, <2>2
<1>3. Link(W[n], c[n + 1]) = new
  <2>1. n + 1 \in 1..N /\ n + 1 - 1 = n
    OBVIOUS
  <2>2. \/ c[n + 1].begin = W[n] /\ c[n + 1].end = W[n + 1]
        \/ c[n + 1].end = W[n] /\ c[n + 1].begin = W[n + 1]
    BY <2>1 DEF Joins
  <2>3. QED
    BY <2>2 DEF Link
<1>4. Walk(W[0], p, c[n + 1]) = Append(p, new)
  BY <1>2, <1>3 DEF Walk
<1> HIDE DEF p, new, V
<1>5. /\ Append(p, new) \in Seq(V) /\ Len(Append(p, new)) = n + 1
      /\ \A k \in 1..n : Append(p, new)[k] = p[k]
      /\ Append(p, new)[n + 1] = new
  BY <1>1
<1>6. \A k \in 1..(n + 1) : Append(p, new)[k] = [start |-> W[k - 1], end |-> W[k]]
  <2>1. ASSUME NEW k \in 1..(n + 1)
        PROVE  Append(p, new)[k] = [start |-> W[k - 1], end |-> W[k]]
    <3>1. CASE k = n + 1
      <4>1. k - 1 = n
        BY <3>1
      <4>2. QED
        BY <1>5, <3>1, <4>1 DEF new
    <3>2. CASE k # n + 1
      BY <1>1, <1>5, <3>2
    <3>3. QED
      BY <3>1, <3>2
  <2>2. QED
    BY <2>1
<1>7. Append(p, new) = [k \in 1..(n + 1) |-> Append(p, new)[k]]
  <2>1. \A q \in Seq(V) : Len(q) = n + 1 => q = [k \in 1..(n + 1) |-> q[k]]
    OBVIOUS
  <2>2. QED
    BY <1>5, <2>1
<1>8. Append(p, new) = PathOver(W, n + 1)
  BY <1>6, <1>7 DEF PathOver
<1>9. QED
  BY <1>4, <1>8 DEF p

LEMMA WalkIs ==
  ASSUME NEW c, NEW W, NEW N \in Nat, Joins(c, W, N), NEW f, Steps(f, N, W[0], c)
  PROVE  f[1..N] = PathOver(W, N)
<1> DEFINE T == {n \in Nat : n <= N => f[1..n] = PathOver(W, n)}
<1>1. 0 \in T
  <2>1. PathOver(W, 0) = <<>>
    BY DEF PathOver
  <2>2. QED
    BY <2>1 DEF Steps
<1>2. ASSUME NEW n \in T PROVE n + 1 \in T
  <2>1. SUFFICES ASSUME n + 1 <= N PROVE f[1..(n + 1)] = PathOver(W, n + 1)
    OBVIOUS
  <2>2. n \in 0..(N - 1) /\ f[1..n] = PathOver(W, n) /\ n \in Nat
    BY <2>1
  <2>3. f[1..(n + 1)] = Walk(W[0], PathOver(W, n), c[n + 1])
    BY <2>2 DEF Steps
  <2>4. QED
    BY <2>1, <2>2, <2>3, LongerPath
<1>3. T = Nat
  BY <1>1, <1>2, Induction
<1>4. QED
  BY <1>3

-----------------------------------------------------------------------------
(* The trace back to a shadow.  Every edge leads to a page one link nearer.*)
TraceStops(via, v, shadow) == v = shadow \/ via[v] = None \/ via[v].begin = shadow
Ranked(via, hops, shadow) ==
  \A v \in Vertex : ~TraceStops(via, v, shadow) =>
    /\ via[v].begin \in Vertex /\ hops[via[v].begin] \in Nat
    /\ hops[v] = hops[via[v].begin] + 1
Backs(h, via, shadow) ==
  h = [v \in Vertex |-> IF TraceStops(via, v, shadow) THEN <<>>
                        ELSE <<via[v]>> \o h[via[v].begin]]

LEMMA BacksExist ==
  ASSUME NEW via, NEW hops, NEW shadow, Ranked(via, hops, shadow)
  PROVE  \E h : Backs(h, via, shadow)
<1> DEFINE X == {via[v] : v \in Vertex}
           S == [Vertex -> Seq(X)]
           base == [v \in Vertex |-> <<>>]
           After(h) == [v \in Vertex |-> IF TraceStops(via, v, shadow) THEN <<>>
                                         ELSE <<via[v]>> \o h[via[v].begin]]
           step == [h \in S |-> After(h)]
           rank(v) == IF TraceStops(via, v, shadow) THEN 0 ELSE hops[v]
<1>1. base \in S
  OBVIOUS
<1>2. \A h \in S : After(h) \in S
  <2>1. ASSUME NEW h \in S, NEW v \in Vertex, ~TraceStops(via, v, shadow)
        PROVE  <<via[v]>> \o h[via[v].begin] \in Seq(X)
    <3>1. via[v].begin \in Vertex
      BY <2>1 DEF Ranked
    <3>2. h[via[v].begin] \in Seq(X) /\ <<via[v]>> \in Seq(X)
      BY <3>1
    <3>3. QED
      BY <3>2
  <2>2. \A h \in S, v \in Vertex :
          (IF TraceStops(via, v, shadow) THEN <<>> ELSE <<via[v]>> \o h[via[v].begin]) \in Seq(X)
    <3> HIDE DEF S, X
    <3>1. <<>> \in Seq(X)
      OBVIOUS
    <3>2. QED
      BY <2>1, <3>1
  <2> HIDE DEF X
  <2>3. QED
    BY <2>2
<1>3. step \in [S -> S]
  BY <1>2
<1> HIDE DEF S, base, step
<1>4. PICK F0 \in [Nat -> S] : F0 = [n \in Nat |-> IF n = 0 THEN base ELSE step[F0[n - 1]]]
  BY <1>1, <1>3, Iteration
<1>5. \A v \in Vertex : F0[0][v] = <<>>
  BY <1>4 DEF base
<1>6. \A n \in Nat : F0[n + 1] = After(F0[n])
  <2>1. ASSUME NEW n \in Nat PROVE F0[n + 1] = After(F0[n])
    <3>1. n + 1 \in Nat /\ n + 1 # 0 /\ n + 1 - 1 = n
      OBVIOUS
    <3>2. F0[n + 1] = step[F0[n]]
      BY <1>4, <3>1
    <3>3. F0[n] \in S
      BY <1>4
    <3>4. QED
      BY <3>2, <3>3 DEF step
  <2>2. QED
    BY <2>1
<1> HIDE DEF After
<1>7. \A n \in Nat, v \in Vertex : TraceStops(via, v, shadow) => F0[n][v] = <<>>
  <2>1. ASSUME NEW n \in Nat, NEW v \in Vertex, TraceStops(via, v, shadow) PROVE F0[n][v] = <<>>
    <3>1. CASE n = 0
      BY <1>5, <3>1
    <3>2. CASE n # 0
      <4>1. n - 1 \in Nat /\ n - 1 + 1 = n
        BY <3>2
      <4>2. F0[n] = After(F0[n - 1])
        BY <1>6, <4>1
      <4>3. QED
        BY <2>1, <4>2 DEF After
    <3>3. QED
      BY <3>1, <3>2
  <2>2. QED
    BY <2>1
<1> DEFINE h == [v \in Vertex |-> F0[IF TraceStops(via, v, shadow) THEN 0 ELSE hops[v]][v]]
<1>8. ASSUME NEW v \in Vertex
      PROVE  h[v] = IF TraceStops(via, v, shadow) THEN <<>> ELSE <<via[v]>> \o h[via[v].begin]
  <2>1. CASE TraceStops(via, v, shadow)
    <3>1. h[v] = F0[0][v]
      BY <2>1
    <3> HIDE DEF h
    <3>2. F0[0][v] = <<>>
      BY <1>5
    <3>3. QED
      BY <2>1, <3>1, <3>2
  <2>2. CASE ~TraceStops(via, v, shadow)
    <3>1. PICK u \in Vertex, n \in Nat : u = via[v].begin /\ n = hops[u] /\ hops[v] = n + 1
      BY <2>2 DEF Ranked
    <3>2. h[v] = F0[n + 1][v]
      <4>1. \A k : k = (IF TraceStops(via, v, shadow) THEN 0 ELSE hops[v]) => h[v] = F0[k][v]
        OBVIOUS
      <4> HIDE DEF h
      <4>2. QED
        BY <2>2, <3>1, <4>1
    <3>3. F0[n + 1][v] = <<via[v]>> \o F0[n][u]
      <4> HIDE DEF h
      <4>1. F0[n + 1] = After(F0[n])
        BY <1>6
      <4>2. After(F0[n])[v] = <<via[v]>> \o F0[n][via[v].begin]
        BY <2>2 DEF After
      <4>3. QED
        BY <3>1, <4>1, <4>2
    <3>4. h[u] = F0[n][u]
      <4>1. CASE TraceStops(via, u, shadow)
        <5>1. h[u] = F0[0][u]
          BY <4>1
        <5>2. QED
          BY <1>7, <4>1, <5>1
      <4>2. CASE ~TraceStops(via, u, shadow)
        BY <3>1, <4>2
      <4>3. QED
        BY <4>1, <4>2
    <3>5. QED
      BY <2>2, <3>1, <3>2, <3>3, <3>4
  <2>3. QED
    BY <2>1, <2>2
<1>9. h = [v \in Vertex |-> h[v]]
  OBVIOUS
<1> HIDE DEF h
<1>10. Backs(h, via, shadow)
  BY <1>8, <1>9 DEF Backs
<1>11. QED
  BY <1>10

LEMMA TraceSteps ==
  ASSUME NEW via, NEW hops, NEW shadow, Ranked(via, hops, shadow), NEW v \in Vertex
  PROVE  Trace(via, v, shadow) = IF TraceStops(via, v, shadow) THEN <<>>
                                 ELSE <<via[v]>> \o Trace(via, via[v].begin, shadow)
<1>1. PICK h : h = CHOOSE f : Backs(f, via, shadow)
  OBVIOUS
<1>2. Backs(h, via, shadow)
  BY <1>1, BacksExist
<1>3. \A u : Trace(via, u, shadow) = h[u]
  BY <1>1 DEF Trace, Backs, TraceStops
<1>4. h[v] = IF TraceStops(via, v, shadow) THEN <<>> ELSE <<via[v]>> \o h[via[v].begin]
  BY <1>2 DEF Backs
<1>5. Trace(via, v, shadow) = h[v] /\ Trace(via, via[v].begin, shadow) = h[via[v].begin]
  BY <1>3
<1>6. QED
  BY <1>4, <1>5, Zenon

-----------------------------------------------------------------------------
(* One search: the edges its known pages were reached by lead back to the  *)
(* shadow, one link less at each.                                          *)

(* Every known page but the shadow was reached by an edge of a scanned     *)
(* page, within the link limit, and counts one link more than that page.   *)
Reached(g, dist, hops, via, scanned, shadow, limit) ==
  /\ scanned \subseteq Known(dist)
  /\ \A v \in Vertex : via[v] # None => v \in Known(dist) /\ v # shadow
  /\ \A v \in Known(dist) : hops[v] \in Nat
  /\ shadow \in Known(dist) => hops[shadow] = 0
  /\ \A v \in Known(dist) : v # shadow =>
       /\ via[v] # None /\ via[v].begin \in scanned /\ via[v].end = v
       /\ via[v] \in ToSet(g[via[v].begin])
       /\ hops[v] = hops[via[v].begin] + 1 /\ hops[v] <= limit

LEMMA ReachedRanks ==
  ASSUME NEW g, NEW dist, NEW hops, NEW via, NEW scanned, NEW shadow, NEW limit,
         Reached(g, dist, hops, via, scanned, shadow, limit)
  PROVE  Ranked(via, hops, shadow)
BY DEF Reached, Ranked, TraceStops, Known

(* The trace t from page v: an edge to v, then one to the page that edge   *)
(* begins at, and so on, to a page the shadow's own edge leads to.         *)
Back(t, v, via, shadow) ==
  /\ t \in Seq({via[u] : u \in Vertex})
  /\ t # <<>> => t[1].end = v
  /\ \A k \in 1..(Len(t) - 1) : t[k + 1].end = t[k].begin
  /\ FarEnd(t, v) \in Vertex
  /\ via[FarEnd(t, v)] # None /\ via[FarEnd(t, v)].begin = shadow

LEMMA OneFartherBack ==
  ASSUME NEW via, NEW shadow, NEW v \in Vertex, NEW u, via[v].begin = u, via[v].end = v,
         NEW t, Back(t, u, via, shadow)
  PROVE  Back(<<via[v]>> \o t, v, via, shadow) /\ Len(<<via[v]>> \o t) = Len(t) + 1
<1> DEFINE X == {via[w] : w \in Vertex}
           s == <<via[v]>> \o t
<1>1. t \in Seq(X) /\ <<via[v]>> \in Seq(X)
  BY DEF Back
<1> HIDE DEF X
<1>2. Len(t) \in Nat /\ s \in Seq(X) /\ Len(s) = Len(t) + 1 /\ s[1] = via[v] /\ s # <<>>
  BY <1>1
<1>3. \A k \in 1..Len(t) : s[k + 1] = t[k]
  BY <1>1
<1>4. t # <<>> => Len(t) >= 1 /\ Len(t) \in 1..Len(t) /\ 1 \in 1..Len(t)
  BY <1>1
<1>5. t = <<>> => Len(t) = 0
  OBVIOUS
<1> HIDE DEF s
<1>6. s[1].end = v
  BY <1>2
<1>7. ASSUME NEW k \in 1..(Len(s) - 1) PROVE s[k + 1].end = s[k].begin
  <2>1. k \in 1..Len(t)
    BY <1>2
  <2>2. CASE k = 1
    <3>1. t # <<>>
      BY <1>5, <2>1
    <3>2. s[k + 1] = t[1] /\ t[1].end = u
      BY <1>3, <1>4, <2>2, <3>1 DEF Back
    <3>3. QED
      BY <1>2, <2>2, <3>2
  <2>3. CASE k # 1
    <3>1. k - 1 \in 1..Len(t) /\ k - 1 \in 1..(Len(t) - 1) /\ k - 1 + 1 = k
      BY <1>2, <2>1, <2>3
    <3>2. s[k] = t[k - 1] /\ s[k + 1] = t[k]
      BY <1>3, <2>1, <3>1
    <3>3. t[k].end = t[k - 1].begin
      BY <3>1 DEF Back
    <3>4. QED
      BY <3>2, <3>3
  <2>4. QED
    BY <2>2, <2>3
<1>8. FarEnd(s, v) = FarEnd(t, u)
  <2>1. FarEnd(s, v) = s[Len(t) + 1].begin
    BY <1>2 DEF FarEnd, Last
  <2>2. CASE t = <<>>
    BY <1>2, <1>5, <2>1, <2>2 DEF FarEnd
  <2>3. CASE t # <<>>
    <3>1. s[Len(t) + 1] = t[Len(t)]
      BY <1>3, <1>4, <2>3
    <3>2. QED
      BY <2>1, <2>3, <3>1 DEF FarEnd, Last
  <2>4. QED
    BY <2>2, <2>3
<1>9. Back(s, v, via, shadow)
  BY <1>2, <1>6, <1>7, <1>8 DEF Back, X
<1>10. QED
  BY <1>2, <1>9 DEF s

LEMMA TraceLeadsBack ==
  ASSUME NEW g, NEW dist, NEW hops, NEW via, NEW scanned, NEW shadow, NEW limit,
         Reached(g, dist, hops, via, scanned, shadow, limit),
         NEW v \in Known(dist), v # shadow
  PROVE  /\ Back(Trace(via, v, shadow), v, via, shadow)
         /\ Len(Trace(via, v, shadow)) + 1 = hops[v]
<1> DEFINE Good(u) == /\ Back(Trace(via, u, shadow), u, via, shadow)
                      /\ Len(Trace(via, u, shadow)) + 1 = hops[u]
           T == {n \in Nat : \A u \in Known(dist) : u # shadow /\ hops[u] = n + 1 => Good(u)}
<1>1. Ranked(via, hops, shadow)
  BY ReachedRanks
<1>2. ASSUME NEW u \in Known(dist), u # shadow
      PROVE  /\ u \in Vertex /\ via[u] # None /\ via[u].end = u /\ via[u].begin \in Known(dist)
             /\ hops[u] = hops[via[u].begin] + 1 /\ hops[via[u].begin] \in Nat
             /\ via[u].begin = shadow => hops[via[u].begin] = 0
             /\ Trace(via, u, shadow) = IF via[u].begin = shadow THEN <<>>
                                        ELSE <<via[u]>> \o Trace(via, via[u].begin, shadow)
  <2>1. /\ u \in Vertex /\ via[u] # None /\ via[u].end = u /\ via[u].begin \in Known(dist)
        /\ hops[u] = hops[via[u].begin] + 1 /\ hops[via[u].begin] \in Nat
        /\ via[u].begin = shadow => hops[via[u].begin] = 0
    BY <1>2 DEF Reached, Known
  <2>2. Trace(via, u, shadow) = IF TraceStops(via, u, shadow) THEN <<>>
                                ELSE <<via[u]>> \o Trace(via, via[u].begin, shadow)
    BY <1>1, <2>1, TraceSteps
  <2>3. QED
    BY <1>2, <2>1, <2>2 DEF TraceStops
<1>3. ASSUME NEW u \in Known(dist), u # shadow, via[u].begin = shadow PROVE Good(u)
  <2>1. u \in Vertex /\ via[u] # None /\ hops[u] = 1 /\ Trace(via, u, shadow) = <<>>
    <3> HIDE DEF Good, T
    <3>1. hops[via[u].begin] = 0 /\ hops[u] = hops[via[u].begin] + 1
      BY <1>2, <1>3
    <3>2. u \in Vertex /\ via[u] # None /\ Trace(via, u, shadow) = <<>>
      BY <1>2, <1>3
    <3>3. QED
      BY <3>1, <3>2
  <2>2. FarEnd(<<>>, u) = u /\ Len(<<>>) = 0 /\ <<>> \in Seq({via[w] : w \in Vertex})
    BY DEF FarEnd
  <2>3. Back(<<>>, u, via, shadow)
    BY <1>3, <2>1, <2>2 DEF Back
  <2>4. QED
    BY <2>1, <2>2, <2>3
<1>4. 0 \in T
  <2>1. ASSUME NEW u \in Known(dist), u # shadow, hops[u] = 0 + 1 PROVE Good(u)
    <3>1. hops[via[u].begin] = 0
      <4> HIDE DEF Good, T
      <4>1. hops[u] = hops[via[u].begin] + 1 /\ hops[via[u].begin] \in Nat
        BY <1>2, <2>1
      <4>2. QED
        BY <2>1, <4>1
    <3>2. via[u].begin = shadow
      <4>1. SUFFICES ASSUME via[u].begin # shadow PROVE FALSE
        OBVIOUS
      <4>2. PICK w \in Known(dist) : w = via[u].begin
        BY <1>2, <2>1
      <4>3. hops[w] = hops[via[w].begin] + 1 /\ hops[via[w].begin] \in Nat
        BY <1>2, <4>1, <4>2
      <4>4. QED
        BY <3>1, <4>2, <4>3
    <3>3. QED
      BY <1>3, <2>1, <3>2
  <2>2. QED
    BY <2>1
<1>5. ASSUME NEW n \in T PROVE n + 1 \in T
  <2>1. ASSUME NEW u \in Known(dist), u # shadow, hops[u] = (n + 1) + 1 PROVE Good(u)
    <3>1. CASE via[u].begin = shadow
      BY <1>3, <2>1, <3>1
    <3>2. CASE via[u].begin # shadow
      <4>1. PICK w \in Known(dist) : w = via[u].begin
        BY <1>2, <2>1
      <4>2. hops[u] = hops[w] + 1 /\ hops[w] \in Nat /\ n \in Nat
        BY <1>2, <2>1, <4>1
      <4>3. hops[w] = n + 1 /\ w # shadow
        BY <2>1, <3>2, <4>1, <4>2
      <4>4. Good(w)
        BY <1>5, <4>3
      <4>5. u \in Vertex /\ via[u].end = u /\ Trace(via, u, shadow) = <<via[u]>> \o Trace(via, w, shadow)
        BY <1>2, <2>1, <3>2, <4>1
      <4>6. PICK t : t = Trace(via, w, shadow)
        OBVIOUS
      <4>7. Back(t, w, via, shadow) /\ Len(t) + 1 = hops[w]
        BY <4>4, <4>6
      <4>8. Back(<<via[u]>> \o t, u, via, shadow) /\ Len(<<via[u]>> \o t) = Len(t) + 1
        BY <4>1, <4>5, <4>7, OneFartherBack
      <4>9. QED
        BY <4>2, <4>5, <4>6, <4>7, <4>8
    <3>3. QED
      BY <3>1, <3>2
  <2>2. QED
    BY <2>1
<1>6. T = Nat
  BY <1>4, <1>5, Induction
<1>7. PICK n \in Nat : hops[v] = n + 1
  BY <1>2
<1>8. QED
  BY <1>6, <1>7

-----------------------------------------------------------------------------
(* The two traces, put together.                                           *)

(* A sequence after another.                                               *)
After(c, s, t) == c = s \o t

LEMMA OneAfterOther ==
  ASSUME NEW S, NEW s \in Seq(S), NEW t \in Seq(S), NEW c, After(c, s, t)
  PROVE  /\ c \in Seq(S) /\ Len(c) = Len(s) + Len(t)
         /\ \A k \in 1..Len(s) : c[k] = s[k]
         /\ \A k \in 1..Len(t) : c[Len(s) + k] = t[k]
<1>1. s \o t \in Seq(S)
  OBVIOUS
<1>2. Len(s \o t) = Len(s) + Len(t)
  OBVIOUS
<1>3. \A k \in 1..Len(s) : (s \o t)[k] = s[k]
  OBVIOUS
<1>4. \A k \in 1..Len(t) : (s \o t)[Len(s) + k] = t[k]
  OBVIOUS
<1>5. c = s \o t
  BY DEF After
<1>6. QED
  BY <1>1, <1>2, <1>3, <1>4, <1>5, Zenon

(* A chain of two traces from their meeting m, and the walk along it.      *)
Joined(c, m, tf, viaF, tr, viaR) ==
  Back(tf, m, viaF, Src) /\ Back(tr, m, viaR, Dst) /\ c = Reverse(tf) \o tr
Along(W, c, first, last) == Joins(c, W, Len(c)) /\ W[0] = first /\ W[Len(c)] = last

(* The first trace turned round and the second after it join the far ends. *)
LEMMA TwoTraces ==
  ASSUME NEW c, NEW m, NEW tf, NEW viaF, NEW tr, NEW viaR, Joined(c, m, tf, viaF, tr, viaR)
  PROVE  /\ Len(c) \in Nat /\ DOMAIN c = 1..Len(c) /\ Len(c) = Len(tf) + Len(tr)
         /\ \E W : Along(W, c, FarEnd(tf, m), FarEnd(tr, m))
<1> DEFINE X == {viaF[u] : u \in Vertex}
           Y == {viaR[u] : u \in Vertex}
           p == Len(tf)
           q == Len(tr)
<1>1. tf \in Seq(X \cup Y) /\ tr \in Seq(X \cup Y)
  <2>1. tf \in Seq(X) /\ tr \in Seq(Y)
    BY DEF Joined, Back
  <2> HIDE DEF X, Y
  <2>2. QED
    BY <2>1
<1> HIDE DEF X, Y
<1>2. p \in Nat /\ q \in Nat
  BY <1>1
<1>3. /\ Reverse(tf) \in Seq(X \cup Y) /\ Len(Reverse(tf)) = p
      /\ \A n \in 1..p : Reverse(tf)[n] = tf[p + 1 - n]
  <2>1. \A n \in 1..p : p - n + 1 \in 1..p /\ p - n + 1 = p + 1 - n
    BY <1>2
  <2>2. \A n \in 1..p : tf[p - n + 1] \in X \cup Y
    BY <1>1, <2>1
  <2>3. Reverse(tf) \in [1..p -> X \cup Y]
    BY <2>2 DEF Reverse
  <2>4. \A n \in 1..p : Reverse(tf)[n] = tf[p + 1 - n]
    <3>1. \A n \in 1..p : Reverse(tf)[n] = tf[p - n + 1]
      BY DEF Reverse
    <3>2. QED
      BY <2>1, <3>1
  <2>5. PICK r : r = Reverse(tf)
    OBVIOUS
  <2>6. r \in Seq(X \cup Y) /\ Len(r) = p
    <3> HIDE DEF p
    <3>1. r \in [1..p -> X \cup Y]
      BY <2>3, <2>5
    <3>2. QED
      BY <1>2, <3>1
  <2>7. QED
    BY <2>4, <2>5, <2>6
<1>4. /\ c \in Seq(X \cup Y) /\ Len(c) = p + q
      /\ \A n \in 1..p : c[n] = tf[p + 1 - n]
      /\ \A n \in (p + 1)..(p + q) : c[n] = tr[n - p]
  <2>1. PICK r \in Seq(X \cup Y) : r = Reverse(tf)
    BY <1>3
  <2>2. Len(r) = p /\ \A n \in 1..p : r[n] = tf[p + 1 - n]
    BY <1>3, <2>1
  <2> HIDE DEF p, q
  <2>3. Len(tr) = q
    BY DEF q
  <2>4. /\ r \o tr \in Seq(X \cup Y) /\ Len(r \o tr) = p + q
        /\ \A n \in 1..p : (r \o tr)[n] = r[n]
        /\ \A n \in (p + 1)..(p + q) : (r \o tr)[n] = tr[n - p]
    <3>1. PICK ct : ct = r \o tr /\ After(ct, r, tr)
      BY DEF After
    <3>2. /\ ct \in Seq(X \cup Y) /\ Len(ct) = p + q
          /\ \A k \in 1..p : ct[k] = r[k]
          /\ \A k \in 1..q : ct[p + k] = tr[k]
      <4>1. tr \in Seq(X \cup Y)
        BY <1>1
      <4>2. /\ ct \in Seq(X \cup Y) /\ Len(ct) = Len(r) + Len(tr)
            /\ \A k \in 1..Len(r) : ct[k] = r[k]
            /\ \A k \in 1..Len(tr) : ct[Len(r) + k] = tr[k]
        BY <3>1, <4>1, OneAfterOther, SMTT(30)
      <4>3. QED
        BY <2>2, <2>3, <4>2
    <3>3. ASSUME NEW n \in (p + 1)..(p + q) PROVE ct[n] = tr[n - p]
      <4>1. n - p \in 1..q /\ p + (n - p) = n
        BY <1>2
      <4>2. QED
        BY <3>2, <4>1
    <3>4. QED
      BY <3>1, <3>2, <3>3
  <2>5. QED
    BY <2>1, <2>2, <2>4 DEF Joined
<1>5. Len(c) \in Nat /\ DOMAIN c = 1..Len(c)
  BY <1>4
<1> DEFINE Stop(n) == IF n = 0 THEN FarEnd(tf, m)
                      ELSE IF n <= p THEN tf[p + 1 - n].end ELSE tr[n - p].begin
           W == [n \in 0..(p + q) |-> Stop(n)]
<1>6. /\ p # 0 => tf[1].end = m /\ FarEnd(tf, m) = tf[p].begin
      /\ p = 0 => FarEnd(tf, m) = m
      /\ q # 0 => tr[1].end = m /\ FarEnd(tr, m) = tr[q].begin
      /\ q = 0 => FarEnd(tr, m) = m
  <2>1. (p # 0 <=> tf # <<>>) /\ (q # 0 <=> tr # <<>>)
    BY <1>1
  <2>2. QED
    BY <2>1 DEF Joined, Back, FarEnd, Last
<1>7. /\ \A k \in 1..(p - 1) : tf[k + 1].end = tf[k].begin
      /\ \A k \in 1..(q - 1) : tr[k + 1].end = tr[k].begin
  BY DEF Joined, Back
<1> HIDE DEF p, q
<1>8. Stop(p) = m
  <2>1. CASE p = 0
    BY <1>6, <2>1
  <2>2. CASE p # 0
    <3>1. p <= p /\ p + 1 - p = 1
      BY <1>2
    <3>2. QED
      BY <1>6, <2>2, <3>1
  <2>3. QED
    BY <2>1, <2>2
<1>9. ASSUME NEW n \in 1..p
      PROVE  c[n].begin = Stop(n - 1) /\ c[n].end = Stop(n)
  <2>1. c[n] = tf[p + 1 - n] /\ n # 0 /\ n <= p
    BY <1>2, <1>4
  <2>2. CASE n = 1
    <3>1. p + 1 - n = p /\ p # 0 /\ n - 1 = 0
      BY <1>2, <2>2
    <3>2. QED
      BY <1>6, <2>1, <3>1
  <2>3. CASE n # 1
    <3>1. n - 1 # 0 /\ n - 1 <= p /\ p + 1 - n \in 1..(p - 1) /\ p + 1 - (n - 1) = (p + 1 - n) + 1
      BY <1>2, <2>3
    <3>2. tf[p + 1 - (n - 1)].end = tf[p + 1 - n].begin
      BY <1>7, <3>1
    <3>3. QED
      BY <2>1, <3>1, <3>2
  <2>4. QED
    BY <2>2, <2>3
<1>10. ASSUME NEW n \in (p + 1)..(p + q)
       PROVE  c[n].end = Stop(n - 1) /\ c[n].begin = Stop(n)
  <2>1. c[n] = tr[n - p] /\ n # 0 /\ ~(n <= p)
    BY <1>2, <1>4
  <2>2. CASE n = p + 1
    <3>1. n - p = 1 /\ n - 1 = p /\ q # 0
      BY <1>2, <2>2
    <3>2. Stop(n - 1) = m
      BY <1>8, <3>1
    <3>3. QED
      BY <1>6, <2>1, <3>1, <3>2
  <2>3. CASE n # p + 1
    <3>1. n - 1 # 0 /\ ~(n - 1 <= p) /\ (n - 1) - p \in 1..(q - 1) /\ n - p = ((n - 1) - p) + 1
      BY <1>2, <2>3
    <3>2. tr[n - p].end = tr[(n - 1) - p].begin
      BY <1>7, <3>1
    <3>3. QED
      BY <2>1, <3>1, <3>2
  <2>4. QED
    BY <2>2, <2>3
<1>11. Stop(p + q) = FarEnd(tr, m)
  <2>1. CASE q = 0
    <3>1. p + q = p
      BY <1>2, <2>1
    <3>2. QED
      BY <1>6, <1>8, <2>1, <3>1
  <2>2. CASE q # 0
    <3>1. p + q # 0 /\ ~(p + q <= p) /\ p + q - p = q
      BY <1>2, <2>2
    <3>2. Stop(p + q) = tr[q].begin
      <4>1. PICK n \in Nat : n = p + q
        BY <1>2
      <4>2. n # 0 /\ ~(n <= p) /\ n - p = q
        BY <1>2, <2>2, <4>1
      <4>3. Stop(n) = tr[n - p].begin
        BY <4>2
      <4> HIDE DEF Stop
      <4>4. QED
        BY <4>1, <4>2, <4>3
    <3> HIDE DEF Stop
    <3>3. QED
      BY <1>6, <2>2, <3>2
  <2>3. QED
    BY <2>1, <2>2
<1>12. W[0] = FarEnd(tf, m) /\ W[p + q] = FarEnd(tr, m)
  <2>1. 0 \in 0..(p + q) /\ p + q \in 0..(p + q)
    BY <1>2
  <2>2. QED
    BY <1>11, <2>1
<1>13. Joins(c, W, p + q)
  <2>1. ASSUME NEW n \in 1..(p + q)
        PROVE  \/ c[n].begin = W[n - 1] /\ c[n].end = W[n]
               \/ c[n].end = W[n - 1] /\ c[n].begin = W[n]
    <3>1. n - 1 \in 0..(p + q) /\ n \in 0..(p + q)
      BY <1>2
    <3>2. W[n - 1] = Stop(n - 1) /\ W[n] = Stop(n)
      BY <3>1
    <3> HIDE DEF W, Stop
    <3>3. n \in 1..p \/ n \in (p + 1)..(p + q)
      BY <1>2
    <3>4. QED
      BY <1>9, <1>10, <3>2, <3>3
  <2> HIDE DEF W, Stop
  <2>2. QED
    BY <2>1 DEF Joins
<1> HIDE DEF W, Stop
<1>14. \E V : Along(V, c, FarEnd(tf, m), FarEnd(tr, m))
  BY <1>4, <1>12, <1>13 DEF Along
<1>15. QED
  BY <1>4, <1>5, <1>14 DEF p, q

-----------------------------------------------------------------------------
(* The heaviest edge.                                                      *)

LEMMA LargestOf ==
  ASSUME NEW S, S \subseteq Nat, IsFiniteSet(S), S # {}
  PROVE  \E x \in S : \A y \in S : x >= y
<1> DEFINE Bounded1(B) == \E x \in B : \A y \in B : x >= y
           T == {n \in Nat : \A B \in SUBSET Nat :
                               IsFiniteSet(B) /\ Cardinality(B) = n /\ B # {} => Bounded1(B)}
<1>1. 0 \in T
  BY FS_EmptySet
<1>2. ASSUME NEW n \in T PROVE n + 1 \in T
  <2>1. ASSUME NEW B \in SUBSET Nat, IsFiniteSet(B), Cardinality(B) = n + 1, B # {}
        PROVE  Bounded1(B)
    <3>1. PICK b \in B : TRUE
      BY <2>1
    <3>2. IsFiniteSet(B \ {b}) /\ Cardinality(B \ {b}) = n
      <4>1. IsFiniteSet(B \ {b}) /\ Cardinality(B \ {b}) = Cardinality(B) - 1
        BY <2>1, FS_RemoveElement
      <4>2. n \in Nat
        OBVIOUS
      <4>3. QED
        BY <2>1, <4>1, <4>2
    <3>3. CASE B \ {b} = {}
      <4>1. B = {b} /\ b \in Nat
        BY <3>3
      <4>2. QED
        BY <4>1
    <3>4. CASE B \ {b} # {}
      <4>1. Bounded1(B \ {b})
        BY <1>2, <3>2, <3>4
      <4>2. PICK x \in B \ {b} : \A y \in B \ {b} : x >= y
        BY <4>1
      <4>3. x \in Nat /\ b \in Nat /\ \A y \in B : y \in Nat
        OBVIOUS
      <4>4. CASE x >= b
        BY <4>2, <4>4
      <4>5. CASE ~(x >= b)
        <5>1. \A y \in B : b >= y
          BY <4>2, <4>3, <4>5
        <5>2. QED
          BY <3>1, <5>1
      <4>6. QED
        BY <4>4, <4>5
    <3>5. QED
      BY <3>3, <3>4
  <2>2. QED
    BY <2>1
<1>3. T = Nat
  BY <1>1, <1>2, Induction
<1>4. Cardinality(S) \in T /\ S \in SUBSET Nat
  BY <1>3, FS_CardinalityType
<1>5. QED
  BY <1>4

LEMMA ImageIsFinite ==
  ASSUME NEW S, IsFiniteSet(S), NEW g
  PROVE  IsFiniteSet({g[x] : x \in S})
<1> DEFINE T == {g[x] : x \in S}
           f == [x \in S |-> g[x]]
<1>1. f \in Surjection(S, T)
  <2>1. f \in [S -> T]
    OBVIOUS
  <2>2. \A t \in T : \E x \in S : f[x] = t
    OBVIOUS
  <2> HIDE DEF f, T
  <2>3. QED
    BY <2>1, <2>2 DEF Surjection
<1> HIDE DEF f, T
<1>2. IsFiniteSet(T)
  BY <1>1, FS_Surjection
<1>3. QED
  BY <1>2 DEF T

LEMMA MaxWeightIs ==
  ASSUME WellFormed(edges)
  PROVE  MaxWeight \in Nat /\ \A e \in AllEdges(edges) : e.weight <= MaxWeight
<1> DEFINE all == AllEdges(edges)
           weights == {0} \cup {e.weight : e \in all}
<1>1. IsFiniteSet(all)
  <2>1. IsFiniteSet(Vertex)
    <3>1. IsFiniteSet(Page)
      BY GraphAssumption DEF GraphAssumption
    <3>2. IsFiniteSet({Src, Dst})
      <4>1. IsFiniteSet({Src}) /\ IsFiniteSet({Dst})
        BY FS_Singleton
      <4>2. {Src, Dst} = {Src} \cup {Dst}
        OBVIOUS
      <4>3. QED
        BY <4>1, <4>2, FS_Union
    <3>3. QED
      BY <3>1, <3>2, FS_Union DEF Vertex
  <2>2. ASSUME NEW v \in Vertex PROVE IsFiniteSet(ToSet(edges[v]))
    <3>1. edges[v] \in Seq(Edges(v))
      BY DEF WellFormed
    <3>2. ToSet(edges[v]) = {edges[v][n] : n \in 1..Len(edges[v])} /\ Len(edges[v]) \in Nat
      BY <3>1 DEF ToSet
    <3>3. IsFiniteSet(1..Len(edges[v]))
      BY <3>2, FS_Interval
    <3>4. IsFiniteSet({edges[v][n] : n \in 1..Len(edges[v])})
      BY <3>3, ImageIsFinite
    <3>5. QED
      BY <3>2, <3>4
  <2>3. PICK s : s = [v \in Vertex |-> ToSet(edges[v])]
    OBVIOUS
  <2>4. IsFiniteSet({s[v] : v \in Vertex})
    BY <2>1, ImageIsFinite
  <2>5. {s[v] : v \in Vertex} = {ToSet(edges[v]) : v \in Vertex}
    BY <2>3
  <2>6. \A x \in {ToSet(edges[v]) : v \in Vertex} : IsFiniteSet(x)
    BY <2>2
  <2>7. IsFiniteSet(UNION {ToSet(edges[v]) : v \in Vertex})
    BY <2>4, <2>5, <2>6, FS_UNION
  <2>8. QED
    BY <2>7 DEF AllEdges
<1>2. IsFiniteSet(weights)
  <2>1. PICK g : g = [e \in all |-> e.weight]
    OBVIOUS
  <2>2. IsFiniteSet({g[e] : e \in all})
    BY <1>1, ImageIsFinite
  <2>3. {g[e] : e \in all} = {e.weight : e \in all}
    BY <2>1
  <2>4. IsFiniteSet({0})
    BY FS_Singleton
  <2>5. QED
    BY <2>2, <2>3, <2>4, FS_Union
<1>3. weights \subseteq Nat /\ weights # {}
  BY EdgeOfGraph
<1>4. PICK x \in weights : \A y \in weights : x >= y
  <2> HIDE DEF weights
  <2>1. QED
    BY <1>2, <1>3, LargestOf
<1>5. Max(weights) = x
  <2> HIDE DEF weights
  <2>1. \A y \in weights : y \in Nat
    BY <1>3
  <2>2. QED
    BY <1>4, <2>1, MaxOf
<1>6. MaxWeight = Max(weights)
  BY DEF MaxWeight, AllEdges
<1>7. \A e \in all : e.weight <= x
  <2>1. \A e \in all : e.weight \in weights /\ e.weight \in Nat
    BY EdgeOfGraph
  <2> HIDE DEF weights, all
  <2>2. x \in Nat
    BY <1>3
  <2>3. QED
    BY <1>4, <2>1, <2>2
<1>8. x \in Nat
  BY <1>3
<1>9. QED
  BY <1>5, <1>6, <1>7, <1>8

LEMMA Times ==
  ASSUME NEW a \in Nat, NEW b \in Nat, NEW w \in Nat
  PROVE  /\ a * w \in Nat /\ (a + 1) * w = a * w + w
         /\ a <= b => a * w <= b * w
OBVIOUS

-----------------------------------------------------------------------------
(* The inductive invariant of the answer.                                  *)

(* A label is as if every link but the shadow's weighed the most.          *)
Light(dist, hops, shadow, W) ==
  \A v \in Known(dist) : v # shadow => dist[v] + W <= hops[v] * W

(* The buckets are enough for the links that are allowed.                  *)
Fits == ~Increasing /\ MaxBucket >= (maxLinks + 1) * MaxWeight

ForwardWalks ==
  /\ Reached(edges, fDistance, fLinks, predecessors, fScanned, Src, RealMaxLinks)
  /\ ~Increasing => Light(fDistance, fLinks, Src, MaxWeight)
ReverseWalks ==
  /\ Reached(edges, rDistance, rLinks, successors, rScanned, Dst, RealMaxLinks)
  /\ ~Increasing => Light(rDistance, rLinks, Dst, MaxWeight)

ShadowsLead == edges[Src] = ShadowEdges(Src, ends[1]) /\ edges[Dst] = ShadowEdges(Dst, ends[2])

WhereTheyMeet ==
  {intersect, middle} \subseteq {None} \cup (Known(fDistance) \cap Known(rDistance))
Assembled ==
  chain = IF pc = "done" /\ middle # None
          THEN Reverse(Trace(predecessors, middle, Src)) \o Trace(successors, middle, Dst)
          ELSE <<>>

WalkInv ==
  /\ ForwardWalks /\ ReverseWalks
  /\ ShadowsLead /\ WhereTheyMeet /\ Assembled
  /\ Fits => pc # "overrun"

-----------------------------------------------------------------------------
(* One search: how its labels are reached, and how far they can be.        *)

LEMMA ScanReached ==
  ASSUME NEW g, NEW dist, NEW hops, NEW via, NEW scanned, NEW shadow, NEW limit,
         Reached(g, dist, hops, via, scanned, shadow, limit), NEW p \in Known(dist)
  PROVE  Reached(g, dist, hops, via, scanned \cup {p}, shadow, limit)
BY DEF Reached

LEMMA StartReached ==
  ASSUME NEW g, NEW dist, NEW hops, NEW via, NEW shadow \in Vertex, NEW limit, NEW W,
         Reached(g, dist, hops, via, {}, shadow, limit),
         dist = [v \in Vertex |-> None], hops = [v \in Vertex |-> None],
         NEW dist2, dist2 = [dist EXCEPT ![shadow] = 0],
         NEW hops2, hops2 = [hops EXCEPT ![shadow] = 0]
  PROVE  Reached(g, dist2, hops2, via, {}, shadow, limit) /\ Light(dist2, hops2, shadow, W)
         /\ Known(dist) = {}
<1>1. Known(dist) = {} /\ \A v \in Vertex : via[v] = None
  BY DEF Known, Reached
<1>2. Known(dist2) = {shadow} /\ hops2[shadow] = 0
  BY QueueConstants DEF Known
<1>3. QED
  BY <1>1, <1>2 DEF Reached, Light

(* The tables after an edge has brought its end nearer.                    *)
Labels(dist, hops, via, e, d, l, dist2, hops2, via2) ==
  /\ dist2 = [dist EXCEPT ![e.end] = d]
  /\ hops2 = [hops EXCEPT ![e.end] = l]
  /\ via2 = [via EXCEPT ![e.end] = e]

(* An edge that may bring its end nearer, by d over l links.               *)
Offers(g, hops, scanned, shadow, limit, e, d, l) ==
  /\ e.end \in Vertex /\ e.end # shadow /\ e.end \notin scanned /\ e # None
  /\ e.begin \in scanned /\ e \in ToSet(g[e.begin])
  /\ d \in Nat /\ l = hops[e.begin] + 1 /\ l <= limit
OverVertex(dist, hops, via) ==
  DOMAIN dist = Vertex /\ DOMAIN hops = Vertex /\ DOMAIN via = Vertex

LEMMA RelaxReached ==
  ASSUME NEW g, NEW dist, NEW hops, NEW via, NEW scanned, NEW shadow, NEW limit,
         Reached(g, dist, hops, via, scanned, shadow, limit),
         OverVertex(dist, hops, via),
         NEW e, NEW d, NEW l, Offers(g, hops, scanned, shadow, limit, e, d, l),
         NEW dist2, NEW hops2, NEW via2, Labels(dist, hops, via, e, d, l, dist2, hops2, via2)
  PROVE  /\ Reached(g, dist2, hops2, via2, scanned, shadow, limit)
         /\ Known(dist2) = Known(dist) \cup {e.end}
<1>1. /\ dist2[e.end] = d /\ hops2[e.end] = l /\ via2[e.end] = e
      /\ \A v \in Vertex : v # e.end => dist2[v] = dist[v] /\ hops2[v] = hops[v] /\ via2[v] = via[v]
  BY DEF Labels, OverVertex, Offers
<1>2. d # None
  BY QueueConstants DEF Offers
<1>3. Known(dist2) = Known(dist) \cup {e.end}
  BY <1>1, <1>2 DEF Known, Offers
<1>4. /\ e.begin \in Known(dist) /\ e.begin \in Vertex /\ hops[e.begin] \in Nat /\ e.begin # e.end
      /\ hops2[e.begin] = hops[e.begin] /\ l \in Nat
  BY <1>1 DEF Reached, Known, Offers
<1>5. \A v \in Vertex : via2[v] # None => v \in Known(dist2) /\ v # shadow
  BY <1>1, <1>3 DEF Reached, Offers
<1>6. \A v \in Known(dist2) : hops2[v] \in Nat
  BY <1>1, <1>3, <1>4 DEF Reached, Known
<1>7. shadow \in Known(dist2) => hops2[shadow] = 0
  BY <1>1, <1>3 DEF Reached, Known, Offers
<1>8. ASSUME NEW v \in Known(dist2), v # shadow
      PROVE  /\ via2[v] # None /\ via2[v].begin \in scanned /\ via2[v].end = v
             /\ via2[v] \in ToSet(g[via2[v].begin])
             /\ hops2[v] = hops2[via2[v].begin] + 1 /\ hops2[v] <= limit
  <2>1. CASE v = e.end
    BY <1>1, <1>4, <2>1 DEF Offers
  <2>2. CASE v # e.end
    <3>1. v \in Known(dist) /\ v \in Vertex
      BY <1>3, <1>8, <2>2 DEF Known
    <3>2. PICK b \in scanned : b = via[v].begin
      BY <1>8, <3>1 DEF Reached
    <3>3. b # e.end /\ b \in Vertex
      BY <3>2 DEF Reached, Known, Offers
    <3>4. hops2[b] = hops[b] /\ via2[v] = via[v] /\ hops2[v] = hops[v]
      BY <1>1, <2>2, <3>1, <3>3
    <3>5. /\ via[v] # None /\ via[v].end = v /\ via[v] \in ToSet(g[b])
          /\ hops[v] = hops[b] + 1 /\ hops[v] <= limit
      BY <1>8, <3>1, <3>2 DEF Reached
    <3>6. QED
      BY <3>2, <3>4, <3>5
  <2>3. QED
    BY <2>1, <2>2
<1>9. QED
  BY <1>3, <1>5, <1>6, <1>7, <1>8 DEF Reached

(* One more link, for a page reached from b.                               *)
LEMMA Heavier ==
  ASSUME NEW W \in Nat, NEW w \in Nat, w <= W, NEW db \in Nat, NEW lb \in Nat,
         \/ db = 0 /\ lb = 0 /\ w = 0
         \/ db + W <= lb * W
  PROVE  db + w + W <= (lb + 1) * W
<1>1. (lb + 1) * W = lb * W + W /\ lb * W \in Nat
  BY Times
<1>2. CASE db = 0 /\ lb = 0 /\ w = 0
  <2>1. lb * W = 0
    BY <1>2
  <2>2. QED
    BY <1>1, <1>2, <2>1
<1>3. CASE db + W <= lb * W
  <2>1. PICK x \in Nat : x = lb * W
    BY <1>1
  <2>2. db + W <= x /\ (lb + 1) * W = x + W
    BY <1>1, <1>3, <2>1
  <2>3. QED
    BY <2>2
<1>4. QED
  BY <1>2, <1>3

LEMMA InBuckets ==
  ASSUME NEW W \in Nat, NEW d \in Nat, NEW l \in Nat, NEW n \in Nat, l <= n + 2,
         d + W <= l * W
  PROVE  d <= (n + 1) * W
<1>1. l * W <= (n + 2) * W /\ l * W \in Nat
  BY Times
<1>2. (n + 2) * W = (n + 1) * W + W /\ (n + 1) * W \in Nat
  <2>1. n + 1 \in Nat /\ n + 2 = (n + 1) + 1
    OBVIOUS
  <2>2. QED
    BY <2>1, Times
<1>3. PICK x \in Nat, y \in Nat : x = l * W /\ y = (n + 1) * W
  BY <1>1, <1>2
<1>4. x <= y + W /\ d + W <= x
  BY <1>1, <1>2, <1>3
<1>5. QED
  BY <1>3, <1>4

LEMMA RelaxLight ==
  ASSUME NEW dist, NEW hops, NEW via, NEW shadow, NEW W, Light(dist, hops, shadow, W),
         DOMAIN dist = Vertex, DOMAIN hops = Vertex,
         NEW e, e.end \in Vertex, NEW d, NEW l,
         NEW dist2, NEW hops2, NEW via2, Labels(dist, hops, via, e, d, l, dist2, hops2, via2),
         d + W <= l * W
  PROVE  Light(dist2, hops2, shadow, W)
<1>1. /\ dist2[e.end] = d /\ hops2[e.end] = l
      /\ \A v \in Vertex : v # e.end => dist2[v] = dist[v] /\ hops2[v] = hops[v]
  BY DEF Labels
<1>2. ASSUME NEW v \in Known(dist2), v # shadow PROVE dist2[v] + W <= hops2[v] * W
  <2>1. CASE v = e.end
    BY <1>1, <2>1
  <2>2. CASE v # e.end
    <3>1. v \in Known(dist) /\ dist2[v] = dist[v] /\ hops2[v] = hops[v]
      BY <1>1, <2>2 DEF Known
    <3>2. dist[v] + W <= hops[v] * W
      BY <1>2, <3>1 DEF Light
    <3>3. QED
      BY <3>1, <3>2
  <2>3. QED
    BY <2>1, <2>2
<1>3. QED
  BY <1>2 DEF Light

-----------------------------------------------------------------------------
(* The steps of either search.                                             *)

LEMMA ForwardWalksRest ==
  ASSUME ForwardWalks, UNCHANGED graph, UNCHANGED fVars
  PROVE  ForwardWalks' /\ Known(fDistance)' = Known(fDistance)
<1>1. UNCHANGED <<edges, maxLinks, fDistance, fLinks, fScanned, predecessors>>
  BY DEF graph, fVars
<1>2. MaxWeight' = MaxWeight /\ RealMaxLinks' = RealMaxLinks
  BY <1>1 DEF MaxWeight, RealMaxLinks
<1>3. Known(fDistance)' = Known(fDistance)
  BY <1>1 DEF Known
<1>4. QED
  BY <1>1, <1>2, <1>3 DEF ForwardWalks

LEMMA ForwardWalksStart ==
  ASSUME GraphInv, ForwardInv, ForwardWalks, UNCHANGED graph,
         pc = "start", F!insert(Src, 0, 0), UNCHANGED <<fScanned, predecessors>>
  PROVE  ForwardWalks' /\ Known(fDistance) = {}
<1>1. UNCHANGED <<edges, maxLinks>>
  BY DEF graph
<1>2. MaxWeight' = MaxWeight /\ RealMaxLinks' = RealMaxLinks
  BY <1>1 DEF MaxWeight, RealMaxLinks
<1>3. /\ FP!QueueInv /\ fScanned = {}
      /\ fDistance = [v \in Vertex |-> None] /\ fLinks = [v \in Vertex |-> None]
  BY DEF ForwardInv
<1>4. Src \in Vertex /\ 0 \in F!Distance
  BY Shadows, QueueConstants DEF F!Distance
<1>5. fDistance[Src] = None
  BY <1>3, <1>4
<1>6. /\ fDistance' = [fDistance EXCEPT ![Src] = 0] /\ fLinks' = [fLinks EXCEPT ![Src] = 0]
  BY <1>3, <1>4, <1>5, FBringsNearer
<1>7. Reached(edges, fDistance, fLinks, predecessors, {}, Src, RealMaxLinks)
  BY <1>3 DEF ForwardWalks
<1>8. /\ Reached(edges, fDistance', fLinks', predecessors, {}, Src, RealMaxLinks)
      /\ Light(fDistance', fLinks', Src, MaxWeight) /\ Known(fDistance) = {}
  BY <1>3, <1>4, <1>6, <1>7, StartReached
<1>9. QED
  BY <1>1, <1>2, <1>3, <1>8 DEF ForwardWalks

LEMMA ForwardWalksScan ==
  ASSUME GraphInv, ForwardInv, ForwardWalks, UNCHANGED graph, pc = "forward",
         F!delete_min, UNCHANGED predecessors,
         fScanned' = fScanned \/ (fPage' # None /\ fScanned' = fScanned \cup {fPage'})
  PROVE  /\ ForwardWalks' /\ Known(fDistance)' = Known(fDistance)
         /\ fPage' # None => fPage' \in Known(fDistance)
<1>1. UNCHANGED <<edges, maxLinks>>
  BY DEF graph
<1>2. MaxWeight' = MaxWeight /\ RealMaxLinks' = RealMaxLinks
  BY <1>1 DEF MaxWeight, RealMaxLinks
<1>3. /\ fDistance' = fDistance /\ fLinks' = fLinks
      /\ fPage' # None => fPage' \in FP!Waiting
  BY FTakesNearest DEF ForwardInv
<1>4. Known(fDistance)' = Known(fDistance)
  BY <1>3 DEF Known
<1>5. fPage' # None => fPage' \in Known(fDistance)
  <2>1. Labelled(fDistance, fLinks, FP!Waiting, fScanned, Src)
    BY DEF ForwardInv, Searching, Search
  <2>2. QED
    BY <1>3, <2>1 DEF Labelled
<1>6. Reached(edges, fDistance, fLinks, predecessors, fScanned, Src, RealMaxLinks)
  BY DEF ForwardWalks
<1>7. Reached(edges, fDistance, fLinks, predecessors, fScanned', Src, RealMaxLinks)
  <2>1. CASE fScanned' = fScanned
    BY <1>6, <2>1
  <2>2. CASE fPage' # None /\ fScanned' = fScanned \cup {fPage'}
    BY <1>5, <1>6, <2>2, ScanReached
  <2>3. QED
    BY <2>1, <2>2
<1>8. ForwardWalks'
  BY <1>1, <1>2, <1>3, <1>7 DEF ForwardWalks
<1>9. QED
  BY <1>4, <1>5, <1>8

(* What the edge about to be relaxed offers its end.                       *)
LEMMA ForwardOffer ==
  ASSUME GraphInv, Control, ForwardInv, ForwardWalks, ShadowsLead, maxLinks \in Nat,
         pc = "forward_edges", i <= Len(edges[fPage]),
         NEW e, e = edges[fPage][i],
         NEW d, d = fDistance[fPage] + e.weight,
         NEW l, l = fLinks[fPage] + 1, ~Pruned(d, l)
  PROVE  /\ e \in AllEdges(edges) /\ e \in ToSet(edges[fPage]) /\ e.begin = fPage
         /\ e.end \in Page /\ e.end # Src /\ e # None
         /\ fPage \in fScanned /\ fDistance[fPage] \in Nat
         /\ d \in Nat /\ l \in Nat /\ l <= RealMaxLinks
         /\ ~Increasing => d + MaxWeight <= l * MaxWeight
         /\ Fits => d <= MaxBucket
<1>1. fPage \in fScanned /\ Searching /\ fPage \in Vertex /\ WellFormed(edges) /\ i \in Nat \ {0}
  BY DEF ForwardInv, Farthest, Searching, GraphInv, Control
<1>2. Len(edges[fPage]) \in Nat
  BY <1>1 DEF WellFormed
<1>3. i \in 1..Len(edges[fPage])
  BY <1>1, <1>2
<1>4. e \in AllEdges(edges) /\ e \in ToSet(edges[fPage]) /\ e.begin = fPage
  BY <1>1, <1>3, EdgeOfGraph
<1>5. e.end \in Page /\ e.weight \in Nat
  BY <1>1, <1>4, EdgeOfGraph
<1>6. e.end # Src
  BY <1>5, Shadows
<1>7. e # None
  <2>1. e \in Edges(fPage)
    BY <1>1, <1>3 DEF WellFormed
  <2>2. QED
    BY <1>1, <2>1, GraphAssumption DEF GraphAssumption
<1>8. fDistance[fPage] \in Nat
  BY <1>1, ForwardLabels
<1>9. fPage \in Known(fDistance) /\ fLinks[fPage] \in Nat
  BY <1>1 DEF ForwardWalks, Reached
<1>10. d \in Nat /\ l \in Nat /\ l <= RealMaxLinks
  <2>1. d \in Nat
    BY <1>5, <1>8
  <2>2. l \in Nat
    BY <1>9
  <2>3. l <= RealMaxLinks
    BY <2>2 DEF Pruned, RealMaxLinks
  <2>4. QED
    BY <2>1, <2>2, <2>3
<1>11. MaxWeight \in Nat /\ e.weight <= MaxWeight
  BY <1>1, <1>4, MaxWeightIs
<1>12. ASSUME ~Increasing PROVE d + MaxWeight <= l * MaxWeight
  <2>1. CASE fPage = Src
    <3>1. fLinks[Src] = 0
      BY <1>9, <2>1 DEF ForwardWalks, Reached
    <3>2. fDistance[Src] = 0
      BY <1>1, <2>1 DEF ForwardInv, Search, Labelled
    <3>3. e.weight = 0
      BY <1>3, <1>12, <2>1 DEF ShadowsLead, ShadowEdges, Edge
    <3>4. QED
      BY <1>5, <1>8, <1>9, <1>11, <2>1, <3>1, <3>2, <3>3, Heavier
  <2>2. CASE fPage # Src
    <3>1. fDistance[fPage] + MaxWeight <= fLinks[fPage] * MaxWeight
      BY <1>9, <1>12, <2>2 DEF ForwardWalks, Light
    <3>2. QED
      BY <1>5, <1>8, <1>9, <1>11, <3>1, Heavier
  <2>3. QED
    BY <2>1, <2>2
<1>13. ASSUME Fits PROVE d <= MaxBucket
  <2>1. d + MaxWeight <= l * MaxWeight /\ MaxBucket >= (maxLinks + 1) * MaxWeight
    BY <1>12, <1>13 DEF Fits
  <2>2. d <= (maxLinks + 1) * MaxWeight
    BY <1>10, <1>11, <2>1, InBuckets DEF RealMaxLinks
  <2>3. maxLinks + 1 \in Nat /\ (maxLinks + 1) * MaxWeight \in Nat
    BY <1>11, Times
  <2>4. PICK x \in Nat : x = (maxLinks + 1) * MaxWeight
    BY <2>3
  <2>5. QED
    BY <1>10, <2>1, <2>2, <2>4, QueueConstants
<1>14. QED
  BY <1>1, <1>4, <1>5, <1>6, <1>7, <1>8, <1>10, <1>12, <1>13

LEMMA ForwardWalksRelax ==
  ASSUME GraphInv, Control, ForwardInv, ForwardWalks, ShadowsLead, maxLinks \in Nat,
         UNCHANGED graph, pc = "forward_edges", i <= Len(edges[fPage]), UNCHANGED fScanned,
         NEW e, e = edges[fPage][i],
         NEW d, d = fDistance[fPage] + e.weight, d <= MaxBucket,
         NEW l, l = fLinks[fPage] + 1, ~Pruned(d, l),
         fDistance[e.end] # None => d < fDistance[e.end],
         IF fDistance[e.end] = None THEN F!insert(e.end, d, l) ELSE F!decrease_key(e.end, d, l),
         predecessors' = [predecessors EXCEPT ![e.end] = e]
  PROVE  ForwardWalks' /\ Known(fDistance') = Known(fDistance) \cup {e.end}
<1>1. UNCHANGED <<edges, maxLinks>>
  BY DEF graph
<1>2. MaxWeight' = MaxWeight /\ RealMaxLinks' = RealMaxLinks
  BY <1>1 DEF MaxWeight, RealMaxLinks
<1>3. /\ e \in ToSet(edges[fPage]) /\ e.begin = fPage
      /\ e.end \in Page /\ e.end # Src /\ e # None
      /\ fPage \in fScanned /\ fDistance[fPage] \in Nat
      /\ d \in Nat /\ l \in Nat /\ l <= RealMaxLinks
      /\ ~Increasing => d + MaxWeight <= l * MaxWeight
  BY ForwardOffer
<1>4. /\ Labelled(fDistance, fLinks, FP!Waiting, fScanned, Src)
      /\ Farthest(fDistance, fScanned, fPage) /\ FP!QueueInv
  BY DEF ForwardInv, Searching, Search
<1>5. e.end \in Vertex /\ d \in F!Distance /\ e.end \notin fScanned
  <2>1. e.end \in Vertex /\ d \in F!Distance
    BY <1>3, QueueConstants DEF Vertex, F!Distance
  <2>2. ASSUME e.end \in fScanned PROVE FALSE
    <3>1. fDistance[e.end] \in Nat /\ fDistance[e.end] # None
      BY <1>4, <2>1, <2>2, QueueConstants DEF Labelled, Known
    <3>2. fDistance[e.end] <= fDistance[fPage]
      BY <1>4, <2>2 DEF Farthest
    <3>3. e.weight \in Nat
      BY ForwardOffer, EdgeOfGraph DEF GraphInv
    <3>4. QED
      BY <1>3, <3>1, <3>2, <3>3
  <2>3. QED
    BY <2>1, <2>2
<1>6. fDistance[e.end] # None => e.end \in FP!Waiting
  BY <1>4, <1>5 DEF Labelled, Known
<1>7. fDistance' = [fDistance EXCEPT ![e.end] = d] /\ fLinks' = [fLinks EXCEPT ![e.end] = l]
  BY <1>3, <1>4, <1>5, <1>6, FBringsNearer
<1>8. Labels(fDistance, fLinks, predecessors, e, d, l, fDistance', fLinks', predecessors')
  BY <1>7 DEF Labels
<1>9. DOMAIN fDistance = Vertex /\ DOMAIN fLinks = Vertex /\ DOMAIN predecessors = Vertex
  BY <1>4 DEF Labelled, ForwardInv, ReachedBy
<1>10. Reached(edges, fDistance, fLinks, predecessors, fScanned, Src, RealMaxLinks)
  BY DEF ForwardWalks
<1>11. /\ Offers(edges, fLinks, fScanned, Src, RealMaxLinks, e, d, l)
       /\ OverVertex(fDistance, fLinks, predecessors)
  BY <1>3, <1>5, <1>9 DEF Offers, OverVertex
<1>12. /\ Reached(edges, fDistance', fLinks', predecessors', fScanned, Src, RealMaxLinks)
       /\ Known(fDistance') = Known(fDistance) \cup {e.end}
  BY <1>8, <1>10, <1>11, RelaxReached, SMTT(60)
<1>13. ASSUME ~Increasing PROVE Light(fDistance', fLinks', Src, MaxWeight)
  <2>1. Light(fDistance, fLinks, Src, MaxWeight) /\ d + MaxWeight <= l * MaxWeight
    BY <1>3, <1>13 DEF ForwardWalks
  <2>2. QED
    BY <1>5, <1>8, <1>9, <2>1, RelaxLight
<1>14. QED
  BY <1>1, <1>2, <1>12, <1>13 DEF ForwardWalks

LEMMA ReverseWalksRest ==
  ASSUME ReverseWalks, UNCHANGED graph, UNCHANGED rVars
  PROVE  ReverseWalks' /\ Known(rDistance)' = Known(rDistance)
<1>1. UNCHANGED <<edges, maxLinks, rDistance, rLinks, rScanned, successors>>
  BY DEF graph, rVars
<1>2. MaxWeight' = MaxWeight /\ RealMaxLinks' = RealMaxLinks
  BY <1>1 DEF MaxWeight, RealMaxLinks
<1>3. Known(rDistance)' = Known(rDistance)
  BY <1>1 DEF Known
<1>4. QED
  BY <1>1, <1>2, <1>3 DEF ReverseWalks

LEMMA ReverseWalksStart ==
  ASSUME GraphInv, ReverseInv, ReverseWalks, UNCHANGED graph,
         pc = "start", R!insert(Dst, 0, 0), UNCHANGED <<rScanned, successors>>
  PROVE  ReverseWalks' /\ Known(rDistance) = {}
<1>1. UNCHANGED <<edges, maxLinks>>
  BY DEF graph
<1>2. MaxWeight' = MaxWeight /\ RealMaxLinks' = RealMaxLinks
  BY <1>1 DEF MaxWeight, RealMaxLinks
<1>3. /\ RP!QueueInv /\ rScanned = {}
      /\ rDistance = [v \in Vertex |-> None] /\ rLinks = [v \in Vertex |-> None]
  BY DEF ReverseInv
<1>4. Dst \in Vertex /\ 0 \in R!Distance
  BY Shadows, QueueConstants DEF R!Distance
<1>5. rDistance[Dst] = None
  BY <1>3, <1>4
<1>6. /\ rDistance' = [rDistance EXCEPT ![Dst] = 0] /\ rLinks' = [rLinks EXCEPT ![Dst] = 0]
  BY <1>3, <1>4, <1>5, RBringsNearer
<1>7. Reached(edges, rDistance, rLinks, successors, {}, Dst, RealMaxLinks)
  BY <1>3 DEF ReverseWalks
<1>8. /\ Reached(edges, rDistance', rLinks', successors, {}, Dst, RealMaxLinks)
      /\ Light(rDistance', rLinks', Dst, MaxWeight) /\ Known(rDistance) = {}
  BY <1>3, <1>4, <1>6, <1>7, StartReached
<1>9. QED
  BY <1>1, <1>2, <1>3, <1>8 DEF ReverseWalks

LEMMA ReverseWalksScan ==
  ASSUME GraphInv, ReverseInv, ReverseWalks, UNCHANGED graph, pc = "reverse",
         R!delete_min, UNCHANGED successors,
         rScanned' = rScanned \/ (rPage' # None /\ rScanned' = rScanned \cup {rPage'})
  PROVE  /\ ReverseWalks' /\ Known(rDistance)' = Known(rDistance)
         /\ rPage' # None => rPage' \in Known(rDistance)
<1>1. UNCHANGED <<edges, maxLinks>>
  BY DEF graph
<1>2. MaxWeight' = MaxWeight /\ RealMaxLinks' = RealMaxLinks
  BY <1>1 DEF MaxWeight, RealMaxLinks
<1>3. /\ rDistance' = rDistance /\ rLinks' = rLinks
      /\ rPage' # None => rPage' \in RP!Waiting
  BY RTakesNearest DEF ReverseInv
<1>4. Known(rDistance)' = Known(rDistance)
  BY <1>3 DEF Known
<1>5. rPage' # None => rPage' \in Known(rDistance)
  <2>1. Labelled(rDistance, rLinks, RP!Waiting, rScanned, Dst)
    BY DEF ReverseInv, Searching, Search
  <2>2. QED
    BY <1>3, <2>1 DEF Labelled
<1>6. Reached(edges, rDistance, rLinks, successors, rScanned, Dst, RealMaxLinks)
  BY DEF ReverseWalks
<1>7. Reached(edges, rDistance, rLinks, successors, rScanned', Dst, RealMaxLinks)
  <2>1. CASE rScanned' = rScanned
    BY <1>6, <2>1
  <2>2. CASE rPage' # None /\ rScanned' = rScanned \cup {rPage'}
    BY <1>5, <1>6, <2>2, ScanReached
  <2>3. QED
    BY <2>1, <2>2
<1>8. ReverseWalks'
  BY <1>1, <1>2, <1>3, <1>7 DEF ReverseWalks
<1>9. QED
  BY <1>4, <1>5, <1>8

(* What the edge about to be relaxed offers its end.                       *)
LEMMA ReverseOffer ==
  ASSUME GraphInv, Control, ReverseInv, ReverseWalks, ShadowsLead, maxLinks \in Nat,
         pc = "reverse_edges", i <= Len(edges[rPage]),
         NEW e, e = edges[rPage][i],
         NEW d, d = rDistance[rPage] + e.weight,
         NEW l, l = rLinks[rPage] + 1, ~Pruned(d, l)
  PROVE  /\ e \in AllEdges(edges) /\ e \in ToSet(edges[rPage]) /\ e.begin = rPage
         /\ e.end \in Page /\ e.end # Dst /\ e # None
         /\ rPage \in rScanned /\ rDistance[rPage] \in Nat
         /\ d \in Nat /\ l \in Nat /\ l <= RealMaxLinks
         /\ ~Increasing => d + MaxWeight <= l * MaxWeight
         /\ Fits => d <= MaxBucket
<1>1. rPage \in rScanned /\ Searching /\ rPage \in Vertex /\ WellFormed(edges) /\ i \in Nat \ {0}
  BY DEF ReverseInv, Farthest, Searching, GraphInv, Control
<1>2. Len(edges[rPage]) \in Nat
  BY <1>1 DEF WellFormed
<1>3. i \in 1..Len(edges[rPage])
  BY <1>1, <1>2
<1>4. e \in AllEdges(edges) /\ e \in ToSet(edges[rPage]) /\ e.begin = rPage
  BY <1>1, <1>3, EdgeOfGraph
<1>5. e.end \in Page /\ e.weight \in Nat
  BY <1>1, <1>4, EdgeOfGraph
<1>6. e.end # Dst
  BY <1>5, Shadows
<1>7. e # None
  <2>1. e \in Edges(rPage)
    BY <1>1, <1>3 DEF WellFormed
  <2>2. QED
    BY <1>1, <2>1, GraphAssumption DEF GraphAssumption
<1>8. rDistance[rPage] \in Nat
  BY <1>1, ReverseLabels
<1>9. rPage \in Known(rDistance) /\ rLinks[rPage] \in Nat
  BY <1>1 DEF ReverseWalks, Reached
<1>10. d \in Nat /\ l \in Nat /\ l <= RealMaxLinks
  <2>1. d \in Nat
    BY <1>5, <1>8
  <2>2. l \in Nat
    BY <1>9
  <2>3. l <= RealMaxLinks
    BY <2>2 DEF Pruned, RealMaxLinks
  <2>4. QED
    BY <2>1, <2>2, <2>3
<1>11. MaxWeight \in Nat /\ e.weight <= MaxWeight
  BY <1>1, <1>4, MaxWeightIs
<1>12. ASSUME ~Increasing PROVE d + MaxWeight <= l * MaxWeight
  <2>1. CASE rPage = Dst
    <3>1. rLinks[Dst] = 0
      BY <1>9, <2>1 DEF ReverseWalks, Reached
    <3>2. rDistance[Dst] = 0
      BY <1>1, <2>1 DEF ReverseInv, Search, Labelled
    <3>3. e.weight = 0
      BY <1>3, <1>12, <2>1 DEF ShadowsLead, ShadowEdges, Edge
    <3>4. QED
      BY <1>5, <1>8, <1>9, <1>11, <2>1, <3>1, <3>2, <3>3, Heavier
  <2>2. CASE rPage # Dst
    <3>1. rDistance[rPage] + MaxWeight <= rLinks[rPage] * MaxWeight
      BY <1>9, <1>12, <2>2 DEF ReverseWalks, Light
    <3>2. QED
      BY <1>5, <1>8, <1>9, <1>11, <3>1, Heavier
  <2>3. QED
    BY <2>1, <2>2
<1>13. ASSUME Fits PROVE d <= MaxBucket
  <2>1. d + MaxWeight <= l * MaxWeight /\ MaxBucket >= (maxLinks + 1) * MaxWeight
    BY <1>12, <1>13 DEF Fits
  <2>2. d <= (maxLinks + 1) * MaxWeight
    BY <1>10, <1>11, <2>1, InBuckets DEF RealMaxLinks
  <2>3. maxLinks + 1 \in Nat /\ (maxLinks + 1) * MaxWeight \in Nat
    BY <1>11, Times
  <2>4. PICK x \in Nat : x = (maxLinks + 1) * MaxWeight
    BY <2>3
  <2>5. QED
    BY <1>10, <2>1, <2>2, <2>4, QueueConstants
<1>14. QED
  BY <1>1, <1>4, <1>5, <1>6, <1>7, <1>8, <1>10, <1>12, <1>13

LEMMA ReverseWalksRelax ==
  ASSUME GraphInv, Control, ReverseInv, ReverseWalks, ShadowsLead, maxLinks \in Nat,
         UNCHANGED graph, pc = "reverse_edges", i <= Len(edges[rPage]), UNCHANGED rScanned,
         NEW e, e = edges[rPage][i],
         NEW d, d = rDistance[rPage] + e.weight, d <= MaxBucket,
         NEW l, l = rLinks[rPage] + 1, ~Pruned(d, l),
         rDistance[e.end] # None => d < rDistance[e.end],
         IF rDistance[e.end] = None THEN R!insert(e.end, d, l) ELSE R!decrease_key(e.end, d, l),
         successors' = [successors EXCEPT ![e.end] = e]
  PROVE  ReverseWalks' /\ Known(rDistance') = Known(rDistance) \cup {e.end}
<1>1. UNCHANGED <<edges, maxLinks>>
  BY DEF graph
<1>2. MaxWeight' = MaxWeight /\ RealMaxLinks' = RealMaxLinks
  BY <1>1 DEF MaxWeight, RealMaxLinks
<1>3. /\ e \in ToSet(edges[rPage]) /\ e.begin = rPage
      /\ e.end \in Page /\ e.end # Dst /\ e # None
      /\ rPage \in rScanned /\ rDistance[rPage] \in Nat
      /\ d \in Nat /\ l \in Nat /\ l <= RealMaxLinks
      /\ ~Increasing => d + MaxWeight <= l * MaxWeight
  BY ReverseOffer
<1>4. /\ Labelled(rDistance, rLinks, RP!Waiting, rScanned, Dst)
      /\ Farthest(rDistance, rScanned, rPage) /\ RP!QueueInv
  BY DEF ReverseInv, Searching, Search
<1>5. e.end \in Vertex /\ d \in R!Distance /\ e.end \notin rScanned
  <2>1. e.end \in Vertex /\ d \in R!Distance
    BY <1>3, QueueConstants DEF Vertex, R!Distance
  <2>2. ASSUME e.end \in rScanned PROVE FALSE
    <3>1. rDistance[e.end] \in Nat /\ rDistance[e.end] # None
      BY <1>4, <2>1, <2>2, QueueConstants DEF Labelled, Known
    <3>2. rDistance[e.end] <= rDistance[rPage]
      BY <1>4, <2>2 DEF Farthest
    <3>3. e.weight \in Nat
      BY ReverseOffer, EdgeOfGraph DEF GraphInv
    <3>4. QED
      BY <1>3, <3>1, <3>2, <3>3
  <2>3. QED
    BY <2>1, <2>2
<1>6. rDistance[e.end] # None => e.end \in RP!Waiting
  BY <1>4, <1>5 DEF Labelled, Known
<1>7. rDistance' = [rDistance EXCEPT ![e.end] = d] /\ rLinks' = [rLinks EXCEPT ![e.end] = l]
  BY <1>3, <1>4, <1>5, <1>6, RBringsNearer
<1>8. Labels(rDistance, rLinks, successors, e, d, l, rDistance', rLinks', successors')
  BY <1>7 DEF Labels
<1>9. DOMAIN rDistance = Vertex /\ DOMAIN rLinks = Vertex /\ DOMAIN successors = Vertex
  BY <1>4 DEF Labelled, ReverseInv, ReachedBy
<1>10. Reached(edges, rDistance, rLinks, successors, rScanned, Dst, RealMaxLinks)
  BY DEF ReverseWalks
<1>11. /\ Offers(edges, rLinks, rScanned, Dst, RealMaxLinks, e, d, l)
       /\ OverVertex(rDistance, rLinks, successors)
  BY <1>3, <1>5, <1>9 DEF Offers, OverVertex
<1>12. /\ Reached(edges, rDistance', rLinks', successors', rScanned, Dst, RealMaxLinks)
       /\ Known(rDistance') = Known(rDistance) \cup {e.end}
  BY <1>8, <1>10, <1>11, RelaxReached, SMTT(60)
<1>13. ASSUME ~Increasing PROVE Light(rDistance', rLinks', Dst, MaxWeight)
  <2>1. Light(rDistance, rLinks, Dst, MaxWeight) /\ d + MaxWeight <= l * MaxWeight
    BY <1>3, <1>13 DEF ReverseWalks
  <2>2. QED
    BY <1>5, <1>8, <1>9, <2>1, RelaxLight
<1>14. QED
  BY <1>1, <1>2, <1>12, <1>13 DEF ReverseWalks

-----------------------------------------------------------------------------
(* The actions.                                                            *)

LEMMA ShadowsStay ==
  ASSUME ShadowsLead, UNCHANGED graph
  PROVE  ShadowsLead' /\ (Fits' <=> Fits)
<1>1. UNCHANGED <<edges, ends, maxLinks>>
  BY DEF graph
<1>2. MaxWeight' = MaxWeight
  BY <1>1 DEF MaxWeight
<1>3. QED
  BY <1>1, <1>2 DEF ShadowsLead, Fits

LEMMA MeetingStays ==
  ASSUME WhereTheyMeet,
         Known(fDistance) \subseteq Known(fDistance'), Known(rDistance) \subseteq Known(rDistance'),
         {intersect', middle'} \subseteq {intersect, middle, None}
                                         \cup (Known(fDistance') \cap Known(rDistance'))
  PROVE  WhereTheyMeet'
BY DEF WhereTheyMeet, Known

(* The search goes on: nothing is assembled.                               *)
LEMMA NotYetAssembled ==
  ASSUME Assembled, pc # "done", pc' # "done" \/ middle' = None, chain' = chain
  PROVE  Assembled'
BY DEF Assembled

LEMMA StartWalks == ChainInv /\ WalkInv /\ Start => WalkInv'
<1> SUFFICES ASSUME ChainInv, WalkInv, Start PROVE WalkInv'
  OBVIOUS
<1>1. GraphInv /\ Control /\ ForwardInv /\ ReverseInv
  BY DEF ChainInv
<1>2. ForwardWalks /\ ReverseWalks /\ ShadowsLead /\ WhereTheyMeet /\ Assembled
  BY DEF WalkInv
<1>3. UNCHANGED graph /\ UNCHANGED <<intersect, middle, chain>> /\ pc = "start"
  BY DEF Start, meeting
<1>4. ShadowsLead'
  BY <1>2, <1>3, ShadowsStay
<1>5. intersect = None /\ middle = None
  <2>1. fDistance = [v \in Vertex |-> None]
    BY <1>1, <1>3 DEF ForwardInv
  <2>2. Known(fDistance) = {}
    BY <2>1 DEF Known
  <2>3. QED
    BY <1>2, <2>2 DEF WhereTheyMeet
<1>6. WhereTheyMeet' /\ Assembled'
  BY <1>2, <1>3, <1>5 DEF WhereTheyMeet, Assembled
<1>7. pc' # "overrun"
  BY DEF Start
<1>8. ForwardWalks' /\ ReverseWalks'
  <2>1. CASE ends[1] = <<>> \/ ends[2] = <<>>
    <3>1. UNCHANGED fVars /\ UNCHANGED rVars
      BY <2>1 DEF Start
    <3>2. QED
      BY <1>2, <1>3, <3>1, ForwardWalksRest, ReverseWalksRest
  <2>2. CASE ~(ends[1] = <<>> \/ ends[2] = <<>>)
    <3>1. /\ F!insert(Src, 0, 0) /\ R!insert(Dst, 0, 0)
          /\ UNCHANGED <<fScanned, predecessors>> /\ UNCHANGED <<rScanned, successors>>
      BY <2>2 DEF Start
    <3>2. ForwardWalks'
      BY <1>1, <1>2, <1>3, <3>1, ForwardWalksStart
    <3>3. ReverseWalks'
      BY <1>1, <1>2, <1>3, <3>1, ReverseWalksStart
    <3>4. QED
      BY <3>2, <3>3
  <2>3. QED
    BY <2>1, <2>2
<1>9. QED
  BY <1>4, <1>6, <1>7, <1>8 DEF WalkInv

LEMMA ForwardPageWalks == ChainInv /\ WalkInv /\ ForwardPage => WalkInv'
<1> SUFFICES ASSUME ChainInv, WalkInv, ForwardPage PROVE WalkInv'
  OBVIOUS
<1>1. GraphInv /\ Control /\ ForwardInv /\ ReverseInv
  BY DEF ChainInv
<1>2. ForwardWalks /\ ReverseWalks /\ ShadowsLead /\ WhereTheyMeet /\ Assembled
  BY DEF WalkInv
<1>3. /\ UNCHANGED graph /\ UNCHANGED rVars /\ UNCHANGED <<predecessors, chain>>
      /\ pc = "forward" /\ F!delete_min
  BY DEF ForwardPage
<1>4. /\ fScanned' = fScanned \/ (fPage' # None /\ fScanned' = fScanned \cup {fPage'})
      /\ pc' \in {"forward", "reverse", "assemble", "forward_edges"}
      /\ {intersect', middle'} \subseteq {intersect, middle}
            \cup {v \in {fPage'} : fPage' # None /\ fPage' \in rScanned}
  <2>1. CASE fPage' = None
    <3>1. GoOn("reverse") /\ UNCHANGED <<fScanned, topF, meeting>>
      BY <2>1 DEF ForwardPage
    <3>2. QED
      BY <3>1 DEF GoOn, meeting
  <2>2. CASE /\ fPage' # None/\ fPage' \in rScanned
             /\ fDistance[fPage'] + rDistance[fPage'] < sigma
    <3>1. /\ fScanned' = fScanned \cup {fPage'} /\ AssembleAt(fPage')
          /\ Meet(fPage', fDistance[fPage'] + rDistance[fPage'])
      BY <2>2 DEF ForwardPage
    <3>2. QED
      BY <2>2, <3>1 DEF AssembleAt, Meet, meeting
  <2>3. CASE /\ fPage' # None
             /\ ~(fPage' \in rScanned /\ fDistance[fPage'] + rDistance[fPage'] < sigma)
    <3>1. fScanned' = fScanned \cup {fPage'} /\ GoOn("forward_edges") /\ UNCHANGED meeting
      BY <2>3 DEF ForwardPage
    <3>2. QED
      BY <2>3, <3>1 DEF GoOn, meeting
  <2>4. QED
    BY <2>1, <2>2, <2>3
<1>5. /\ ForwardWalks' /\ Known(fDistance)' = Known(fDistance)
      /\ fPage' # None => fPage' \in Known(fDistance)
  BY <1>1, <1>2, <1>3, <1>4, ForwardWalksScan
<1>6. ReverseWalks' /\ Known(rDistance)' = Known(rDistance)
  BY <1>2, <1>3, ReverseWalksRest
<1>7. WhereTheyMeet'
  <2>1. rScanned \subseteq Known(rDistance)
    BY <1>2 DEF ReverseWalks, Reached
  <2>2. Known(fDistance') = Known(fDistance) /\ Known(rDistance') = Known(rDistance)
    BY <1>5, <1>6 DEF Known
  <2>3. {intersect', middle'} \subseteq {intersect, middle, None}
                                        \cup (Known(fDistance') \cap Known(rDistance'))
    BY <1>4, <1>5, <2>1, <2>2
  <2>4. QED
    BY <1>2, <2>2, <2>3, MeetingStays
<1>8. Assembled'
  BY <1>2, <1>3, <1>4, NotYetAssembled
<1>9. ShadowsLead'
  BY <1>2, <1>3, ShadowsStay
<1>10. QED
  BY <1>4, <1>5, <1>6, <1>7, <1>8, <1>9 DEF WalkInv

LEMMA ReversePageWalks == ChainInv /\ WalkInv /\ ReversePage => WalkInv'
<1> SUFFICES ASSUME ChainInv, WalkInv, ReversePage PROVE WalkInv'
  OBVIOUS
<1>1. GraphInv /\ Control /\ ReverseInv /\ ForwardInv
  BY DEF ChainInv
<1>2. ReverseWalks /\ ForwardWalks /\ ShadowsLead /\ WhereTheyMeet /\ Assembled
  BY DEF WalkInv
<1>3. /\ UNCHANGED graph /\ UNCHANGED fVars /\ UNCHANGED <<successors, chain>>
      /\ pc = "reverse" /\ R!delete_min
  BY DEF ReversePage
<1>4. /\ rScanned' = rScanned \/ (rPage' # None /\ rScanned' = rScanned \cup {rPage'})
      /\ pc' \in {"reverse", "forward", "assemble", "reverse_edges"}
      /\ {intersect', middle'} \subseteq {intersect, middle}
            \cup {v \in {rPage'} : rPage' # None /\ rPage' \in fScanned}
  <2>1. CASE rPage' = None
    <3>1. GoOn("forward") /\ UNCHANGED <<rScanned, topR, meeting>>
      BY <2>1 DEF ReversePage
    <3>2. QED
      BY <3>1 DEF GoOn, meeting
  <2>2. CASE /\ rPage' # None /\ ~(topR' + topF > sigma) /\ rPage' \in fScanned
             /\ fDistance[rPage'] + rDistance[rPage'] < sigma
    <3>1. /\ rScanned' = rScanned \cup {rPage'} /\ AssembleAt(rPage')
          /\ Meet(rPage', fDistance[rPage'] + rDistance[rPage'])
      BY <2>2 DEF ReversePage
    <3>2. QED
      BY <2>2, <3>1 DEF AssembleAt, Meet, meeting
  <2>3. CASE /\ rPage' # None /\ ~(topR' + topF > sigma)
             /\ ~(rPage' \in fScanned /\ fDistance[rPage'] + rDistance[rPage'] < sigma)
    <3>1. rScanned' = rScanned \cup {rPage'} /\ GoOn("reverse_edges") /\ UNCHANGED meeting
      BY <2>3 DEF ReversePage
    <3>2. QED
      BY <2>3, <3>1 DEF GoOn, meeting
  <2>4. CASE rPage' # None /\ topR' + topF > sigma
    <3>1. AssembleAt(intersect) /\ UNCHANGED <<rScanned, meeting>>
      BY <2>4 DEF ReversePage
    <3>2. QED
      BY <3>1 DEF AssembleAt, meeting
  <2>5. QED
    BY <2>1, <2>2, <2>3, <2>4
<1>5. /\ ReverseWalks' /\ Known(rDistance)' = Known(rDistance)
      /\ rPage' # None => rPage' \in Known(rDistance)
  BY <1>1, <1>2, <1>3, <1>4, ReverseWalksScan
<1>6. ForwardWalks' /\ Known(fDistance)' = Known(fDistance)
  BY <1>2, <1>3, ForwardWalksRest
<1>7. WhereTheyMeet'
  <2>1. fScanned \subseteq Known(fDistance)
    BY <1>2 DEF ForwardWalks, Reached
  <2>2. Known(rDistance') = Known(rDistance) /\ Known(fDistance') = Known(fDistance)
    BY <1>5, <1>6 DEF Known
  <2>3. {intersect', middle'} \subseteq {intersect, middle, None}
                                        \cup (Known(rDistance') \cap Known(fDistance'))
    BY <1>4, <1>5, <2>1, <2>2
  <2>4. QED
    BY <1>2, <2>2, <2>3, MeetingStays
<1>8. Assembled'
  BY <1>2, <1>3, <1>4, NotYetAssembled
<1>9. ShadowsLead'
  BY <1>2, <1>3, ShadowsStay
<1>10. QED
  BY <1>4, <1>5, <1>6, <1>7, <1>8, <1>9 DEF WalkInv

LEMMA ForwardEdgeWalks == ChainInv /\ WalkInv /\ ForwardEdge => WalkInv'
<1> SUFFICES ASSUME ChainInv, WalkInv, ForwardEdge PROVE WalkInv'
  OBVIOUS
<1>1. GraphInv /\ Control /\ ForwardInv /\ ReverseInv /\ maxLinks \in Nat
  BY DEF ChainInv, GraphInv
<1>2. ForwardWalks /\ ReverseWalks /\ ShadowsLead /\ WhereTheyMeet /\ Assembled
  BY DEF WalkInv
<1>3. /\ UNCHANGED graph /\ UNCHANGED rVars /\ UNCHANGED <<middle, chain>>
      /\ pc = "forward_edges" /\ i <= Len(edges[fPage])
  BY DEF ForwardEdge
<1>4. PICK e, d, l :
        /\ e = edges[fPage][i] /\ d = fDistance[fPage] + e.weight /\ l = fLinks[fPage] + 1
        /\ \/ NextEdge /\ UNCHANGED <<fVars, meeting>>
           \/ ~Pruned(d, l) /\ d > MaxBucket /\ Overrun /\ UNCHANGED <<fVars, meeting>>
           \/ /\ ~Pruned(d, l)
              /\ fDistance[e.end] # None => d < fDistance[e.end]
              /\ d <= MaxBucket
              /\ IF fDistance[e.end] = None THEN F!insert(e.end, d, l)
                 ELSE F!decrease_key(e.end, d, l)
              /\ predecessors' = [predecessors EXCEPT ![e.end] = e]
              /\ NextEdge /\ UNCHANGED fScanned
              /\ UNCHANGED meeting \/ (e.end \in rScanned /\ intersect' = e.end)
           \/ /\ fDistance[e.end] # None
              /\ ~Pruned(d, l) /\ NextEdge /\ UNCHANGED fVars
              /\ UNCHANGED meeting \/ (e.end \in rScanned /\ intersect' = e.end)
  <2>1. PICK e, d, l :
        /\ e = edges[fPage][i] /\ d = fDistance[fPage] + e.weight /\ l = fLinks[fPage] + 1
        /\ IF Pruned(d, l) THEN NextEdge /\ UNCHANGED <<fVars, meeting>>
           ELSE
           \/ d > MaxBucket /\ Overrun /\ UNCHANGED <<fVars, meeting>>
           \/ /\ fDistance[e.end] # None => d < fDistance[e.end]
              /\ d <= MaxBucket
              /\ IF fDistance[e.end] = None THEN F!insert(e.end, d, l)
                 ELSE F!decrease_key(e.end, d, l)
              /\ predecessors' = [predecessors EXCEPT ![e.end] = e]
              /\ NextEdge /\ UNCHANGED fScanned
              /\ IF e.end \in rScanned THEN Meet(e.end, d + rDistance[e.end])
                 ELSE UNCHANGED meeting
           \/ /\ ~(fDistance[e.end] # None => d < fDistance[e.end])
              /\ NextEdge /\ UNCHANGED fVars
              /\ IF e.end \in rScanned THEN Meet(e.end, d + rDistance[e.end])
                 ELSE UNCHANGED meeting
    BY DEF ForwardEdge
  <2>2. \A x : Meet(e.end, x) => UNCHANGED meeting \/ intersect' = e.end
    BY DEF Meet
  <2>3. e = edges[fPage][i] /\ d = fDistance[fPage] + e.weight /\ l = fLinks[fPage] + 1
    BY <2>1
  <2>4. CASE Pruned(d, l)
    BY <2>1, <2>4
  <2>5. CASE ~Pruned(d, l)
    BY <2>1, <2>2, <2>5
  <2>6. QED
    BY <2>4, <2>5
<1>5. ReverseWalks' /\ Known(rDistance)' = Known(rDistance) /\ rScanned \subseteq Known(rDistance)
  BY <1>2, <1>3, ReverseWalksRest DEF ReverseWalks, Reached
<1>6. pc' # "done" /\ Assembled'
  <2>1. pc' = pc \/ pc' = "overrun"
    BY <1>4 DEF NextEdge, Overrun
  <2>2. QED
    BY <1>2, <1>3, <2>1, NotYetAssembled
<1>7. ShadowsLead' /\ (Fits' <=> Fits)
  BY <1>2, <1>3, ShadowsStay
<1>8. Fits' => pc' # "overrun"
  <2>1. CASE Overrun /\ d > MaxBucket /\ ~Pruned(d, l)
    <3>1. d \in Nat /\ (Fits => d <= MaxBucket)
      <4>1. e = edges[fPage][i] /\ d = fDistance[fPage] + e.weight /\ l = fLinks[fPage] + 1
        BY <1>4
      <4>2. QED
        BY <1>1, <1>2, <1>3, <2>1, <4>1, ForwardOffer
    <3>2. QED
      BY <1>7, <2>1, <3>1, QueueConstants
  <2>2. CASE NextEdge
    BY <1>3, <2>2 DEF NextEdge
  <2>3. QED
    BY <1>4, <2>1, <2>2
<1>9. /\ ForwardWalks' /\ Known(fDistance) \subseteq Known(fDistance')
      /\ UNCHANGED meeting \/ (e.end \in rScanned /\ intersect' = e.end /\ e.end \in Known(fDistance'))
  <2>1. CASE UNCHANGED <<fVars, meeting>>
    <3>1. ForwardWalks' /\ Known(fDistance') = Known(fDistance)
      BY <1>2, <1>3, <2>1, ForwardWalksRest DEF Known
    <3>2. QED
      BY <2>1, <3>1
  <2>2. CASE /\ ~Pruned(d, l) /\ d <= MaxBucket
             /\ IF fDistance[e.end] = None THEN F!insert(e.end, d, l)
                ELSE F!decrease_key(e.end, d, l)
             /\ fDistance[e.end] # None => d < fDistance[e.end]
             /\ predecessors' = [predecessors EXCEPT ![e.end] = e]
             /\ UNCHANGED fScanned
             /\ UNCHANGED meeting \/ (e.end \in rScanned /\ intersect' = e.end)
    <3>1. e = edges[fPage][i] /\ d = fDistance[fPage] + e.weight /\ l = fLinks[fPage] + 1
      BY <1>4
    <3>2. ForwardWalks' /\ Known(fDistance') = Known(fDistance) \cup {e.end}
      BY <1>1, <1>2, <1>3, <2>2, <3>1, ForwardWalksRelax
    <3>3. QED
      BY <2>2, <3>2
  <2>3. CASE /\ fDistance[e.end] # None /\ UNCHANGED fVars
             /\ UNCHANGED meeting \/ (e.end \in rScanned /\ intersect' = e.end)
    <3>1. ForwardWalks' /\ Known(fDistance') = Known(fDistance)
      BY <1>2, <1>3, <2>3, ForwardWalksRest DEF Known
    <3>2. e = edges[fPage][i]
      BY <1>4
    <3>3. edges[fPage][i].end \in Page
      BY <1>1, <1>3, ForwardEdgeAt
    <3>4. e.end \in Known(fDistance)
      BY <2>3, <3>2, <3>3 DEF Known, Vertex
    <3>5. QED
      BY <2>3, <3>1, <3>4
  <2>4. QED
    BY <1>4, <2>1, <2>2, <2>3
<1>10. WhereTheyMeet'
  <2>1. Known(rDistance') = Known(rDistance)
    BY <1>5 DEF Known
  <2>2. {intersect', middle'} \subseteq {intersect, middle, None}
                                        \cup (Known(fDistance') \cap Known(rDistance'))
    BY <1>3, <1>5, <1>9, <2>1 DEF meeting
  <2>3. QED
    BY <1>2, <1>9, <2>1, <2>2, MeetingStays
<1>11. QED
  BY <1>5, <1>6, <1>7, <1>8, <1>9, <1>10 DEF WalkInv

LEMMA ReverseEdgeWalks == ChainInv /\ WalkInv /\ ReverseEdge => WalkInv'
<1> SUFFICES ASSUME ChainInv, WalkInv, ReverseEdge PROVE WalkInv'
  OBVIOUS
<1>1. GraphInv /\ Control /\ ReverseInv /\ ForwardInv /\ maxLinks \in Nat
  BY DEF ChainInv, GraphInv
<1>2. ReverseWalks /\ ForwardWalks /\ ShadowsLead /\ WhereTheyMeet /\ Assembled
  BY DEF WalkInv
<1>3. /\ UNCHANGED graph /\ UNCHANGED fVars /\ UNCHANGED <<middle, chain>>
      /\ pc = "reverse_edges" /\ i <= Len(edges[rPage])
  BY DEF ReverseEdge
<1>4. PICK e, d, l :
        /\ e = edges[rPage][i] /\ d = rDistance[rPage] + e.weight /\ l = rLinks[rPage] + 1
        /\ \/ NextEdge /\ UNCHANGED <<rVars, meeting>>
           \/ ~Pruned(d, l) /\ d > MaxBucket /\ Overrun /\ UNCHANGED <<rVars, meeting>>
           \/ /\ ~Pruned(d, l)
              /\ rDistance[e.end] # None => d < rDistance[e.end]
              /\ d <= MaxBucket
              /\ IF rDistance[e.end] = None THEN R!insert(e.end, d, l)
                 ELSE R!decrease_key(e.end, d, l)
              /\ successors' = [successors EXCEPT ![e.end] = e]
              /\ NextEdge /\ UNCHANGED rScanned
              /\ UNCHANGED meeting \/ (e.end \in fScanned /\ intersect' = e.end)
           \/ /\ rDistance[e.end] # None
              /\ ~Pruned(d, l) /\ NextEdge /\ UNCHANGED rVars
              /\ UNCHANGED meeting \/ (e.end \in fScanned /\ intersect' = e.end)
  <2>1. PICK e, d, l :
        /\ e = edges[rPage][i] /\ d = rDistance[rPage] + e.weight /\ l = rLinks[rPage] + 1
        /\ IF Pruned(d, l) THEN NextEdge /\ UNCHANGED <<rVars, meeting>>
           ELSE
           \/ d > MaxBucket /\ Overrun /\ UNCHANGED <<rVars, meeting>>
           \/ /\ rDistance[e.end] # None => d < rDistance[e.end]
              /\ d <= MaxBucket
              /\ IF rDistance[e.end] = None THEN R!insert(e.end, d, l)
                 ELSE R!decrease_key(e.end, d, l)
              /\ successors' = [successors EXCEPT ![e.end] = e]
              /\ NextEdge /\ UNCHANGED rScanned
              /\ IF e.end \in fScanned THEN Meet(e.end, d + d)
                 ELSE UNCHANGED meeting
           \/ /\ ~(rDistance[e.end] # None => d < rDistance[e.end])
              /\ NextEdge /\ UNCHANGED rVars
              /\ IF e.end \in fScanned THEN Meet(e.end, d + rDistance[e.end])
                 ELSE UNCHANGED meeting
    BY DEF ReverseEdge
  <2>2. \A x : Meet(e.end, x) => UNCHANGED meeting \/ intersect' = e.end
    BY DEF Meet
  <2>3. e = edges[rPage][i] /\ d = rDistance[rPage] + e.weight /\ l = rLinks[rPage] + 1
    BY <2>1
  <2>4. CASE Pruned(d, l)
    BY <2>1, <2>4
  <2>5. CASE ~Pruned(d, l)
    BY <2>1, <2>2, <2>5
  <2>6. QED
    BY <2>4, <2>5
<1>5. ForwardWalks' /\ Known(fDistance)' = Known(fDistance) /\ fScanned \subseteq Known(fDistance)
  BY <1>2, <1>3, ForwardWalksRest DEF ForwardWalks, Reached
<1>6. pc' # "done" /\ Assembled'
  <2>1. pc' = pc \/ pc' = "overrun"
    BY <1>4 DEF NextEdge, Overrun
  <2>2. QED
    BY <1>2, <1>3, <2>1, NotYetAssembled
<1>7. ShadowsLead' /\ (Fits' <=> Fits)
  BY <1>2, <1>3, ShadowsStay
<1>8. Fits' => pc' # "overrun"
  <2>1. CASE Overrun /\ d > MaxBucket /\ ~Pruned(d, l)
    <3>1. d \in Nat /\ (Fits => d <= MaxBucket)
      <4>1. e = edges[rPage][i] /\ d = rDistance[rPage] + e.weight /\ l = rLinks[rPage] + 1
        BY <1>4
      <4>2. QED
        BY <1>1, <1>2, <1>3, <2>1, <4>1, ReverseOffer
    <3>2. QED
      BY <1>7, <2>1, <3>1, QueueConstants
  <2>2. CASE NextEdge
    BY <1>3, <2>2 DEF NextEdge
  <2>3. QED
    BY <1>4, <2>1, <2>2
<1>9. /\ ReverseWalks' /\ Known(rDistance) \subseteq Known(rDistance')
      /\ UNCHANGED meeting \/ (e.end \in fScanned /\ intersect' = e.end /\ e.end \in Known(rDistance'))
  <2>1. CASE UNCHANGED <<rVars, meeting>>
    <3>1. ReverseWalks' /\ Known(rDistance') = Known(rDistance)
      BY <1>2, <1>3, <2>1, ReverseWalksRest DEF Known
    <3>2. QED
      BY <2>1, <3>1
  <2>2. CASE /\ ~Pruned(d, l) /\ d <= MaxBucket
             /\ IF rDistance[e.end] = None THEN R!insert(e.end, d, l)
                ELSE R!decrease_key(e.end, d, l)
             /\ rDistance[e.end] # None => d < rDistance[e.end]
             /\ successors' = [successors EXCEPT ![e.end] = e]
             /\ UNCHANGED rScanned
             /\ UNCHANGED meeting \/ (e.end \in fScanned /\ intersect' = e.end)
    <3>1. e = edges[rPage][i] /\ d = rDistance[rPage] + e.weight /\ l = rLinks[rPage] + 1
      BY <1>4
    <3>2. ReverseWalks' /\ Known(rDistance') = Known(rDistance) \cup {e.end}
      BY <1>1, <1>2, <1>3, <2>2, <3>1, ReverseWalksRelax
    <3>3. QED
      BY <2>2, <3>2
  <2>3. CASE /\ rDistance[e.end] # None /\ UNCHANGED rVars
             /\ UNCHANGED meeting \/ (e.end \in fScanned /\ intersect' = e.end)
    <3>1. ReverseWalks' /\ Known(rDistance') = Known(rDistance)
      BY <1>2, <1>3, <2>3, ReverseWalksRest DEF Known
    <3>2. e = edges[rPage][i]
      BY <1>4
    <3>3. edges[rPage][i].end \in Page
      BY <1>1, <1>3, ReverseEdgeAt
    <3>4. e.end \in Known(rDistance)
      BY <2>3, <3>2, <3>3 DEF Known, Vertex
    <3>5. QED
      BY <2>3, <3>1, <3>4
  <2>4. QED
    BY <1>4, <2>1, <2>2, <2>3
<1>10. WhereTheyMeet'
  <2>1. Known(fDistance') = Known(fDistance)
    BY <1>5 DEF Known
  <2>2. {intersect', middle'} \subseteq {intersect, middle, None}
                                        \cup (Known(rDistance') \cap Known(fDistance'))
    BY <1>3, <1>5, <1>9, <2>1 DEF meeting
  <2>3. QED
    BY <1>2, <1>9, <2>1, <2>2, MeetingStays
<1>11. QED
  BY <1>5, <1>6, <1>7, <1>8, <1>9, <1>10 DEF WalkInv

LEMMA OtherStepsWalk ==
  ChainInv /\ WalkInv /\ (Exhausted \/ EdgesDone \/ Stopped \/ UNCHANGED vars) => WalkInv'
<1> SUFFICES ASSUME ChainInv, WalkInv, Exhausted \/ EdgesDone \/ Stopped \/ UNCHANGED vars
             PROVE  WalkInv'
  OBVIOUS
<1>1. ForwardWalks /\ ReverseWalks /\ ShadowsLead /\ WhereTheyMeet /\ Assembled
  BY DEF WalkInv
<1>2. /\ UNCHANGED graph /\ UNCHANGED fVars /\ UNCHANGED rVars
      /\ UNCHANGED <<intersect, middle, chain>>
      /\ pc' = pc \/ (pc # "done" /\ pc' \notin {"done", "overrun"})
  BY DEF Exhausted, EdgesDone, Stopped, vars, meeting
<1>3. ForwardWalks' /\ ReverseWalks' /\ ShadowsLead' /\ (Fits' <=> Fits)
  BY <1>1, <1>2, ForwardWalksRest, ReverseWalksRest, ShadowsStay
<1>4. WhereTheyMeet'
  BY <1>1, <1>2 DEF WhereTheyMeet, Known, fVars, rVars
<1>5. Assembled'
  <2>1. predecessors' = predecessors /\ successors' = successors
    BY <1>2 DEF fVars, rVars
  <2>2. QED
    BY <1>1, <1>2, <2>1 DEF Assembled
<1>6. Fits' => pc' # "overrun"
  BY <1>2, <1>3 DEF WalkInv
<1>7. QED
  BY <1>3, <1>4, <1>5, <1>6 DEF WalkInv

LEMMA AssembleWalks == ChainInv /\ WalkInv /\ Assemble => WalkInv'
<1> SUFFICES ASSUME ChainInv, WalkInv, Assemble PROVE WalkInv'
  OBVIOUS
<1>1. ForwardWalks /\ ReverseWalks /\ ShadowsLead /\ WhereTheyMeet
  BY DEF WalkInv
<1>2. /\ UNCHANGED graph /\ UNCHANGED fVars /\ UNCHANGED rVars
      /\ UNCHANGED <<intersect, middle>> /\ pc' = "done"
  BY DEF Assemble, meeting
<1>3. ForwardWalks' /\ ReverseWalks' /\ ShadowsLead'
  BY <1>1, <1>2, ForwardWalksRest, ReverseWalksRest, ShadowsStay
<1>4. WhereTheyMeet'
  BY <1>1, <1>2 DEF WhereTheyMeet, Known, fVars, rVars
<1>5. Assembled'
  <2>1. predecessors' = predecessors /\ successors' = successors
    BY <1>2 DEF fVars, rVars
  <2>2. chain' = IF middle = None THEN <<>>
                 ELSE Reverse(Trace(predecessors, middle, Src)) \o Trace(successors, middle, Dst)
    BY DEF Assemble
  <2>3. QED
    BY <1>2, <2>1, <2>2 DEF Assembled
<1>6. QED
  BY <1>2, <1>3, <1>4, <1>5 DEF WalkInv

LEMMA NextWalkInv == ChainInv /\ WalkInv /\ [Next]_vars => WalkInv'
<1> SUFFICES ASSUME ChainInv, WalkInv, [Next]_vars PROVE WalkInv'
  OBVIOUS
<1>1. CASE Start
  BY <1>1, StartWalks
<1>2. CASE ForwardPage
  BY <1>2, ForwardPageWalks
<1>3. CASE ReversePage
  BY <1>3, ReversePageWalks
<1>4. CASE ForwardEdge
  BY <1>4, ForwardEdgeWalks
<1>5. CASE ReverseEdge
  BY <1>5, ReverseEdgeWalks
<1>6. CASE Assemble
  BY <1>6, AssembleWalks
<1>7. CASE Exhausted \/ EdgesDone \/ Stopped \/ UNCHANGED vars
  BY <1>7, OtherStepsWalk
<1>8. QED
  BY <1>1, <1>2, <1>3, <1>4, <1>5, <1>6, <1>7 DEF Next

-----------------------------------------------------------------------------
(* The first states, and what the answer is.                               *)

LEMMA InitWalkInv == Init => WalkInv
<1> SUFFICES ASSUME Init PROVE WalkInv
  OBVIOUS
<1>1. /\ F!Init /\ R!Init /\ fScanned = {} /\ rScanned = {}
      /\ predecessors = [v \in Vertex |-> None] /\ successors = [v \in Vertex |-> None]
      /\ intersect = None /\ middle = None /\ pc = "start" /\ chain = <<>>
  BY DEF Init
<1>2. fDistance = [v \in Vertex |-> None] /\ rDistance = [v \in Vertex |-> None]
  BY <1>1 DEF F!Init, R!Init
<1>3. Known(fDistance) = {} /\ Known(rDistance) = {}
  BY <1>2 DEF Known
<1>4. ForwardWalks /\ ReverseWalks
  BY <1>1, <1>3 DEF ForwardWalks, ReverseWalks, Reached, Light
<1>5. ShadowsLead
  <2>1. Src \in Vertex /\ Dst \in Vertex /\ Src # Dst
    BY ChainAssumption DEF ChainAssumption, Vertex
  <2>2. PICK g \in Graphs :
          edges = [v \in Vertex |-> CASE v = Src -> ShadowEdges(Src, ends[1])
                                      [] v = Dst -> ShadowEdges(Dst, ends[2])
                                      [] OTHER   -> g[v]]
    BY DEF Init
  <2>3. QED
    BY <2>1, <2>2 DEF ShadowsLead
<1>6. WhereTheyMeet /\ Assembled /\ pc # "overrun"
  BY <1>1 DEF WhereTheyMeet, Assembled
<1>7. QED
  BY <1>4, <1>5, <1>6 DEF WalkInv

-----------------------------------------------------------------------------
(* The page an edge of the shadow leads to is one of the set's.            *)
LEMMA ShadowEdgeEnds ==
  ASSUME NEW shadow, NEW pages, NEW e \in ToSet(ShadowEdges(shadow, pages))
  PROVE  e.end \in ToSet(pages)
<1>1. DOMAIN ShadowEdges(shadow, pages) = DOMAIN pages
  BY DEF ShadowEdges
<1>2. PICK n \in DOMAIN pages : e = ShadowEdges(shadow, pages)[n]
  BY <1>1 DEF ToSet
<1>3. e.end = pages[n]
  BY <1>2 DEF ShadowEdges, Edge
<1>4. QED
  BY <1>3 DEF ToSet

LEMMA FarEndInSet ==
  ASSUME NEW g, NEW dist, NEW hops, NEW via, NEW scanned, NEW shadow, NEW limit, NEW pages,
         Reached(g, dist, hops, via, scanned, shadow, limit),
         g[shadow] = ShadowEdges(shadow, pages),
         NEW t, NEW v, Back(t, v, via, shadow)
  PROVE  FarEnd(t, v) \in ToSet(pages)
<1> DEFINE far == FarEnd(t, v)
<1>1. far \in Vertex /\ via[far] # None /\ via[far].begin = shadow
  BY DEF Back
<1> HIDE DEF far
<1>2. far \in Known(dist) /\ far # shadow
  BY <1>1 DEF Reached
<1>3. via[far].end = far /\ via[far] \in ToSet(g[via[far].begin])
  BY <1>2 DEF Reached
<1>4. via[far] \in ToSet(ShadowEdges(shadow, pages))
  BY <1>1, <1>3
<1>5. far \in ToSet(pages)
  BY <1>3, <1>4, ShadowEdgeEnds
<1>6. QED
  BY <1>5 DEF far

(* The traces a chain is made of.                                          *)
LEMMA TheTraces ==
  ASSUME ChainInv, WalkInv, pc = "done", middle # None
  PROVE  /\ Back(Trace(predecessors, middle, Src), middle, predecessors, Src)
         /\ Back(Trace(successors, middle, Dst), middle, successors, Dst)
         /\ Len(Trace(predecessors, middle, Src)) + 1 <= RealMaxLinks
         /\ Len(Trace(successors, middle, Dst)) + 1 <= RealMaxLinks
         /\ chain = Reverse(Trace(predecessors, middle, Src)) \o Trace(successors, middle, Dst)
<1>1. ForwardWalks /\ ReverseWalks /\ WhereTheyMeet /\ Assembled
  BY DEF WalkInv
<1>2. middle \in Page
  BY DEF ChainInv, Control
<1>3. middle \in Known(fDistance) /\ middle \in Known(rDistance) /\ middle # Src /\ middle # Dst
  BY <1>1, <1>2, ChainAssumption DEF WhereTheyMeet, ChainAssumption
<1>4. Reached(edges, fDistance, fLinks, predecessors, fScanned, Src, RealMaxLinks)
  BY <1>1 DEF ForwardWalks
<1>5. Reached(edges, rDistance, rLinks, successors, rScanned, Dst, RealMaxLinks)
  BY <1>1 DEF ReverseWalks
<1>6. fLinks[middle] <= RealMaxLinks /\ rLinks[middle] <= RealMaxLinks
  BY <1>3, <1>4, <1>5 DEF Reached
<1>7. /\ Back(Trace(predecessors, middle, Src), middle, predecessors, Src)
      /\ Len(Trace(predecessors, middle, Src)) + 1 = fLinks[middle]
  BY <1>3, <1>4, TraceLeadsBack
<1>8. /\ Back(Trace(successors, middle, Dst), middle, successors, Dst)
      /\ Len(Trace(successors, middle, Dst)) + 1 = rLinks[middle]
  BY <1>3, <1>5, TraceLeadsBack
<1>9. QED
  BY <1>1, <1>6, <1>7, <1>8 DEF Assembled

Prefixed(stops, first, path) == stops = <<first>> \o [n \in DOMAIN path |-> path[n].end]

(* A path over a walk, with its first page, is the walk's pages.           *)
LEMMA StopsOfPath ==
  ASSUME NEW W, NEW N \in Nat, NEW path, path = PathOver(W, N),
         NEW stops, Prefixed(stops, W[0], path)
  PROVE  /\ Last(stops) = W[N]
         /\ \A n \in DOMAIN path : path[n].start = stops[n]
<1> DEFINE Visited == {W[n] : n \in 0..N}
           later == [n \in 1..N |-> W[n]]
<1>1. later \in Seq(Visited) /\ W[0] \in Visited /\ Len(later) = N
  <2>1. /\ later = [n \in 1..N |-> later[n]] /\ \A n \in 1..N : later[n] \in Visited
        /\ W[0] \in Visited
    OBVIOUS
  <2> HIDE DEF Visited, later
  <2>2. later \in [1..N -> Visited]
    BY <2>1
  <2>3. QED
    BY <2>1, <2>2
<1>2. DOMAIN path = 1..N /\ \A n \in 1..N : path[n].start = W[n - 1] /\ path[n].end = W[n]
  BY DEF PathOver
<1>3. [n \in DOMAIN path |-> path[n].end] = later
  BY <1>2
<1>4. \A n \in 1..N : later[n] = W[n]
  OBVIOUS
<1> HIDE DEF Visited, later
<1>5. PICK one : one = <<W[0]>>
  OBVIOUS
<1>6. one \in Seq(Visited) /\ Len(one) = 1 /\ one[1] = W[0]
  BY <1>1, <1>5
<1>7. After(stops, one, later)
  BY <1>3, <1>5 DEF Prefixed, After
<1>8. /\ stops \in Seq(Visited) /\ Len(stops) = N + 1 /\ stops[1] = W[0]
      /\ \A k \in 1..N : stops[1 + k] = later[k]
  <2>1. one \in Seq(Visited) /\ later \in Seq(Visited)
    BY <1>1, <1>6
  <2>2. /\ stops \in Seq(Visited) /\ Len(stops) = Len(one) + Len(later)
        /\ \A k \in 1..Len(one) : stops[k] = one[k]
        /\ \A k \in 1..Len(later) : stops[Len(one) + k] = later[k]
    BY <1>7, <2>1, OneAfterOther
  <2>3. Len(stops) = N + 1
    BY <1>1, <1>6, <2>2
  <2>4. 1 \in 1..Len(one)
    BY <1>6
  <2>5. QED
    BY <1>1, <1>6, <2>2, <2>3, <2>4
<1>9. \A k \in 1..(N + 1) : stops[k] = W[k - 1]
  <2>1. stops[1] = W[0]
    BY <1>8
  <2>2. ASSUME NEW k \in 2..(N + 1) PROVE stops[k] = W[k - 1]
    <3>1. k - 1 \in 1..N /\ 1 + (k - 1) = k
      OBVIOUS
    <3>2. QED
      BY <1>4, <1>8, <3>1
  <2>3. QED
    BY <2>1, <2>2
<1>10. Last(stops) = W[N]
  <2>1. N + 1 \in 1..(N + 1) /\ (N + 1) - 1 = N
    OBVIOUS
  <2>2. stops[N + 1] = W[N]
    BY <1>9, <2>1
  <2>3. QED
    BY <1>8, <2>2 DEF Last
<1>11. ASSUME NEW n \in DOMAIN path PROVE path[n].start = stops[n]
  <2>1. n \in 1..(N + 1) /\ path[n].start = W[n - 1]
    BY <1>2
  <2>2. QED
    BY <1>9, <2>1
<1>12. QED
  BY <1>10, <1>11

LEMMA WalkInvPath == ChainInv /\ WalkInv => PathIsWalk
<1> SUFFICES ASSUME ChainInv, WalkInv, pc = "done", middle # None
             PROVE  LET path == path_to_json
                        stops == <<StartTitle>> \o [n \in DOMAIN path |-> path[n].end]
                    IN  /\ StartTitle \in ToSet(ends[1]) /\ EndTitle \in ToSet(ends[2])
                        /\ Last(stops) = EndTitle
                        /\ \A n \in DOMAIN path : path[n].start = stops[n]
  BY DEF PathIsWalk
<1>1. PICK tf, tr, viaF, viaR, m, c :
        /\ tf = Trace(predecessors, middle, Src) /\ tr = Trace(successors, middle, Dst)
        /\ viaF = predecessors /\ viaR = successors /\ m = middle /\ c = chain
  OBVIOUS
<1>2. Back(tf, m, viaF, Src) /\ Back(tr, m, viaR, Dst) /\ Joined(c, m, tf, viaF, tr, viaR)
  BY <1>1, TheTraces DEF Joined
<1>3. StartTitle = FarEnd(tf, m) /\ EndTitle = FarEnd(tr, m)
  BY <1>1 DEF StartTitle, EndTitle
<1>4. /\ Reached(edges, fDistance, fLinks, viaF, fScanned, Src, RealMaxLinks)
      /\ Reached(edges, rDistance, rLinks, viaR, rScanned, Dst, RealMaxLinks)
      /\ edges[Src] = ShadowEdges(Src, ends[1]) /\ edges[Dst] = ShadowEdges(Dst, ends[2])
  BY <1>1 DEF WalkInv, ForwardWalks, ReverseWalks, ShadowsLead
<1>5. StartTitle \in ToSet(ends[1])
  BY <1>2, <1>3, <1>4, FarEndInSet
<1>6. EndTitle \in ToSet(ends[2])
  BY <1>2, <1>3, <1>4, FarEndInSet
<1>7. PICK N : N = Len(c)
  OBVIOUS
<1>8. N \in Nat /\ DOMAIN c = 1..N /\ \E W : Along(W, c, FarEnd(tf, m), FarEnd(tr, m))
  BY <1>2, <1>7, TwoTraces
<1>9. PICK W : Joins(c, W, N) /\ W[0] = FarEnd(tf, m) /\ W[N] = FarEnd(tr, m)
  BY <1>7, <1>8 DEF Along
<1>10. PICK f : path_to_json = f[1..N] /\ Steps(f, N, StartTitle, c)
  BY <1>1, <1>7, <1>8, WalkSteps
<1>11. Steps(f, N, W[0], c)
  BY <1>3, <1>9, <1>10
<1>12. PICK path : path = path_to_json
  OBVIOUS
<1>13. PICK stops : stops = <<StartTitle>> \o [n \in DOMAIN path |-> path[n].end]
  OBVIOUS
<1>14. path = PathOver(W, N)
  BY <1>8, <1>9, <1>10, <1>11, <1>12, WalkIs
<1>15. Prefixed(stops, W[0], path)
  BY <1>3, <1>9, <1>13 DEF Prefixed
<1>16. Last(stops) = W[N] /\ \A n \in DOMAIN path : path[n].start = stops[n]
  BY <1>8, <1>14, <1>15, StopsOfPath
<1>17. QED
  BY <1>3, <1>5, <1>6, <1>9, <1>12, <1>13, <1>16

LEMMA WalkInvLimit == ChainInv /\ WalkInv => LinkLimitBounds
<1> SUFFICES ASSUME ChainInv, WalkInv PROVE LinkLimitBounds
  OBVIOUS
<1>1. ~Increasing /\ MaxBucket >= (maxLinks + 1) * MaxWeight => pc # "overrun"
  BY DEF WalkInv, Fits
<1>2. RealMaxLinks \in Nat /\ RealMaxLinks >= 2
  BY DEF ChainInv, GraphInv, RealMaxLinks
<1>3. Len(chain) <= 2 * (RealMaxLinks - 1)
  <2>1. CASE pc = "done" /\ middle # None
    <3>1. PICK tf, tr, viaF, viaR, m, c :
            /\ Back(tf, m, viaF, Src) /\ Back(tr, m, viaR, Dst)
            /\ Len(tf) + 1 <= RealMaxLinks /\ Len(tr) + 1 <= RealMaxLinks
            /\ Joined(c, m, tf, viaF, tr, viaR) /\ chain = c
      BY <2>1, TheTraces DEF Joined
    <3>2. Len(c) = Len(tf) + Len(tr)
      BY <3>1, TwoTraces
    <3>3. Len(tf) \in Nat /\ Len(tr) \in Nat
      BY <3>1 DEF Back
    <3>4. QED
      BY <1>2, <3>1, <3>2, <3>3
  <2>2. CASE ~(pc = "done" /\ middle # None)
    <3>1. chain = <<>>
      BY <2>2 DEF WalkInv, Assembled
    <3>2. QED
      BY <1>2, <3>1
  <2>3. QED
    BY <2>1, <2>2
<1>4. QED
  BY <1>1, <1>3 DEF LinkLimitBounds

LEMMA SpecWalkInv == Spec => [](ChainInv /\ WalkInv)
<1>1. Init => ChainInv /\ WalkInv
  BY InitChainInv, InitWalkInv
<1>2. (ChainInv /\ WalkInv) /\ [Next]_vars => (ChainInv /\ WalkInv)'
  BY NextChainInv, NextWalkInv
<1>3. QED
  BY <1>1, <1>2, PTL DEF Spec

(* What the controller sends is a walk: from a page of the first set to a  *)
(* page of the second, every link where the one before it ended            *)
(* (assemble_path, path_to_json).                                          *)
THEOREM AnswersAreWalks == Spec => []PathIsWalk
<1>1. ChainInv /\ WalkInv => PathIsWalk
  BY WalkInvPath
<1>2. QED
  BY <1>1, SpecWalkInv, PTL

(* No distance overruns the buckets when they hold as many of the heaviest *)
(* edges as links are allowed, and a chain has at most as many links as    *)
(* the two searches may take (shortest_chain's max_links).                 *)
THEOREM LimitKeepsBounds == Spec => []LinkLimitBounds
<1>1. ChainInv /\ WalkInv => LinkLimitBounds
  BY WalkInvLimit
<1>2. QED
  BY <1>1, SpecWalkInv, PTL
=============================================================================
