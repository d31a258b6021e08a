------------------------- MODULE BucketQueue_proofs -------------------------
(* Proofs about BucketQueue, for any set of pages and any number of        *)
(* buckets.  The lists come first, then tables of lists, then the steps of *)
(* the queue.                                                              *)
EXTENDS BucketQueue, FiniteSetTheorems, WellFoundedInduction, TLAPS

USE QueueAssumption

Holds(s, q) == \E k \in DOMAIN s : s[k] = q
Distinct(s) == \A j, k \in DOMAIN s : s[j] = s[k] => j = k

(* A path placed at the head of a list it is not in.                       *)
LEMMA PlacedList ==
  ASSUME NEW s \in Seq(Page), NEW p \in Page
  PROVE  /\ <<p>> \o s \in Seq(Page)
         /\ <<p>> \o s # <<>>
         /\ \A q : Holds(<<p>> \o s, q) <=> q = p \/ Holds(s, q)
         /\ Distinct(s) /\ ~Holds(s, p) => Distinct(<<p>> \o s)
<1> DEFINE t == <<p>> \o s
<1>1. t \in Seq(Page) /\ Len(t) = Len(s) + 1
  OBVIOUS
<1>2. t[1] = p
  OBVIOUS
<1>3. \A k \in 1..Len(s) : t[k + 1] = s[k]
  OBVIOUS
<1>4. \A k \in 1..Len(t) : k = 1 \/ (k - 1 \in 1..Len(s) /\ t[k] = s[k - 1])
  BY <1>1, <1>3
<1>5. DOMAIN t = 1..Len(t) /\ DOMAIN s = 1..Len(s) /\ Len(s) \in Nat
  BY <1>1
<1> HIDE DEF t
<1>6. ASSUME NEW q, Holds(t, q)
      PROVE  q = p \/ Holds(s, q)
  BY <1>1, <1>2, <1>4, <1>5, <1>6 DEF Holds
<1>7. ASSUME NEW q, Holds(s, q)
       PROVE  Holds(t, q)
  <2>1. PICK k \in 1..Len(s) : s[k] = q
    BY <1>5, <1>7 DEF Holds
  <2>2. k + 1 \in DOMAIN t /\ t[k + 1] = q
    BY <1>1, <1>3, <1>5, <2>1
  <2>3. QED
    BY <2>2 DEF Holds
<1>8. Holds(t, p)
  <2>1. 1 \in DOMAIN t
    BY <1>1, <1>5
  <2>2. QED
    BY <1>2, <2>1 DEF Holds
<1>9. \A q : Holds(t, q) <=> q = p \/ Holds(s, q)
  BY <1>6, <1>7, <1>8, Zenon
<1>10. Distinct(s) /\ ~Holds(s, p) => Distinct(t)
  <2> SUFFICES ASSUME Distinct(s), ~Holds(s, p), NEW j \in DOMAIN t, NEW k \in DOMAIN t, t[j] = t[k]
               PROVE  j = k
    BY DEF Distinct
  <2>1. \A n \in DOMAIN s : s[n] # p
    BY DEF Holds
  <2>2. /\ j = 1 \/ (j - 1 \in DOMAIN s /\ t[j] = s[j - 1])
        /\ k = 1 \/ (k - 1 \in DOMAIN s /\ t[k] = s[k - 1])
    BY <1>4, <1>5
  <2>3. CASE j = 1 \/ k = 1
    BY <1>2, <2>1, <2>2, <2>3
  <2>4. CASE ~(j = 1 \/ k = 1)
    <3>1. j - 1 = k - 1
      BY <2>2, <2>4 DEF Distinct
    <3>2. QED
      BY <1>5, <3>1
  <2>5. QED
    BY <2>3, <2>4
<1>11. t # <<>>
  BY <1>1
<1>12. QED
  BY <1>1, <1>10, <1>9, <1>11, Zenon DEF t

(* A list without its head.                                                *)
LEMMA TailOfList ==
  ASSUME NEW s \in Seq(Page), s # <<>>, Distinct(s)
  PROVE  /\ Head(s) \in Page
         /\ Holds(s, Head(s))
         /\ Tail(s) \in Seq(Page)
         /\ Distinct(Tail(s))
         /\ \A q : Holds(Tail(s), q) <=> Holds(s, q) /\ q # Head(s)
<1> DEFINE t == Tail(s)
<1>1. t \in Seq(Page) /\ Len(t) = Len(s) - 1 /\ Len(s) \in Nat \ {0}
  OBVIOUS
<1>2. \A k \in 1..Len(t) : t[k] = s[k + 1]
  OBVIOUS
<1>3. \A k \in 1..Len(s) : k = 1 \/ (k - 1 \in 1..Len(t) /\ t[k - 1] = s[k])
  BY <1>1, <1>2
<1>4. DOMAIN t = 1..Len(t) /\ DOMAIN s = 1..Len(s) /\ Head(s) = s[1] /\ s[1] \in Page
  BY <1>1
<1> HIDE DEF t
<1>5. Holds(s, s[1])
  BY <1>1, <1>4 DEF Holds
<1>6. Distinct(t)
  BY <1>1, <1>2, <1>4 DEF Distinct
<1>7. ASSUME NEW q, Holds(t, q)
      PROVE  Holds(s, q) /\ q # s[1]
  <2>1. PICK k \in 1..Len(t) : t[k] = q
    BY <1>4, <1>7 DEF Holds
  <2>2. k + 1 \in DOMAIN s /\ s[k + 1] = q /\ 1 \in DOMAIN s /\ k + 1 # 1
    BY <1>1, <1>2, <1>4, <2>1
  <2>3. QED
    BY <2>2 DEF Holds, Distinct
<1>8. ASSUME NEW q, Holds(s, q), q # s[1]
      PROVE  Holds(t, q)
  <2>1. PICK k \in 1..Len(s) : s[k] = q
    BY <1>4, <1>8 DEF Holds
  <2>2. k - 1 \in DOMAIN t /\ t[k - 1] = q
    BY <1>3, <1>4, <1>8, <2>1
  <2>3. QED
    BY <2>2 DEF Holds
<1>9. \A q : Holds(t, q) <=> Holds(s, q) /\ q # s[1]
  BY <1>7, <1>8, Zenon
<1>10. QED
  BY <1>1, <1>4, <1>5, <1>6, <1>9, Zenon DEF t

(* A list from which a path has been unlinked.                             *)
LEMMA UnlinkedList ==
  ASSUME NEW s \in Seq(Page), NEW p, Distinct(s), Holds(s, p)
  PROVE  /\ Without(s, p) \in Seq(Page)
         /\ Distinct(Without(s, p))
         /\ \A q : Holds(Without(s, p), q) <=> Holds(s, q) /\ q # p
<1> DEFINE n == CHOOSE k \in DOMAIN s : s[k] = p
           t == [k \in 1..Len(s) - 1 |-> IF k < n THEN s[k] ELSE s[k + 1]]
<1>1. n \in DOMAIN s /\ s[n] = p
  BY DEF Holds
<1>2. t = Without(s, p)
  BY DEF Without
<1>3. DOMAIN s = 1..Len(s) /\ Len(s) \in Nat
  OBVIOUS
<1> HIDE DEF n
<1>4. \A k \in 1..Len(s) - 1 : t[k] \in Page
  BY <1>3
<1>5. t \in Seq(Page) /\ DOMAIN t = 1..Len(s) - 1
  BY <1>1, <1>3, <1>4
<1>6. Distinct(t)
  BY <1>1, <1>3, <1>5 DEF Distinct
<1>7. ASSUME NEW q, Holds(t, q)
      PROVE  Holds(s, q) /\ q # p
  BY <1>1, <1>3, <1>5, <1>7 DEF Holds, Distinct
<1>8. ASSUME NEW q, Holds(s, q), q # p
      PROVE  Holds(t, q)
  <2>1. PICK k \in 1..Len(s) : s[k] = q
    BY <1>3, <1>8 DEF Holds
  <2>2. CASE k < n
    <3>1. k \in 1..Len(s) - 1 /\ t[k] = q
      BY <1>1, <1>3, <2>1, <2>2
    <3>2. QED
      BY <1>5, <3>1 DEF Holds
  <2>3. CASE k > n
    <3>1. k - 1 \in 1..Len(s) - 1 /\ t[k - 1] = q
      BY <1>1, <1>3, <2>1, <2>3
    <3>2. QED
      BY <1>5, <3>1 DEF Holds
  <2>4. QED
    BY <1>1, <1>3, <1>8, <2>1, <2>2, <2>3
<1>9. QED
  BY <1>2, <1>5, <1>6, <1>7, <1>8

-----------------------------------------------------------------------------
(* A table of lists in which every path is linked once, where it belongs.  *)
Tidy(b, dist) ==
  /\ b \in [Distance -> Seq(Page)]
  /\ \A d \in Distance : Distinct(b[d]) /\ \A q : Holds(b[d], q) => dist[q] = d
In(b, q) == \E d \in Distance : Holds(b[d], q)

(* What is linked is a page.                                               *)
LEMMA LinkedIsPage ==
  ASSUME NEW s \in Seq(Page), NEW q, Holds(s, q)
  PROVE  q \in Page
BY DEF Holds

(* An empty list holds nothing.                                            *)
LEMMA EmptyHoldsNothing == \A q : ~Holds(<<>>, q)
BY DEF Holds

(* The three ways a step changes the tables.                               *)
Placed(b, p, d) == [b EXCEPT ![d] = <<p>> \o @]
Replaced(b, m, t) == [b EXCEPT ![m] = t]
Moved(dist, p, d) == [dist EXCEPT ![p] = d]

(* Placing a path that is nowhere in the table at its new distance.        *)
LEMMA Placing ==
  ASSUME NEW b, NEW dist \in [Page -> Distance \cup {None}], Tidy(b, dist),
         NEW p \in Page, NEW d \in Distance, ~In(b, p)
  PROVE  /\ Tidy(Placed(b, p, d), Moved(dist, p, d))
         /\ \A q : In(Placed(b, p, d), q) <=> q = p \/ In(b, q)
         /\ Placed(b, p, d)[d] # <<>>
         /\ \A e \in Distance : e # d => Placed(b, p, d)[e] = b[e]
<1> DEFINE c == Placed(b, p, d)
           new == Moved(dist, p, d)
<1>1. b \in [Distance -> Seq(Page)] /\ b[d] \in Seq(Page) /\ ~Holds(b[d], p) /\ Distinct(b[d])
  BY DEF Tidy, In
<1>2. /\ <<p>> \o b[d] \in Seq(Page)
      /\ <<p>> \o b[d] # <<>>
      /\ \A q : Holds(<<p>> \o b[d], q) <=> q = p \/ Holds(b[d], q)
      /\ Distinct(<<p>> \o b[d])
  BY <1>1, PlacedList
<1>3. /\ c \in [Distance -> Seq(Page)]
      /\ c[d] = <<p>> \o b[d]
      /\ \A e \in Distance : e # d => c[e] = b[e]
  BY <1>1, <1>2 DEF Placed
<1>4. \A q \in Page : new[q] = IF q = p THEN d ELSE dist[q]
  BY DEF Moved
<1> HIDE DEF c, new
<1>5. ASSUME NEW e \in Distance
      PROVE  Distinct(c[e]) /\ \A q : Holds(c[e], q) => new[q] = e
  <2>1. CASE e = d
    <3>1. ASSUME NEW q, Holds(c[d], q)
          PROVE  new[q] = d
      <4>1. q = p \/ (Holds(b[d], q) /\ q \in Page)
        BY <1>1, <1>2, <1>3, <3>1, LinkedIsPage
      <4>2. QED
        BY <1>4, <4>1 DEF Tidy
    <3>2. QED
      BY <1>2, <1>3, <2>1, <3>1
  <2>2. CASE e # d
    <3>1. ASSUME NEW q, Holds(b[e], q)
          PROVE  new[q] = e
      <4>1. q \in Page /\ q # p
        BY <1>1, <3>1, LinkedIsPage DEF In
      <4>2. QED
        BY <1>4, <3>1, <4>1 DEF Tidy
    <3>2. QED
      BY <1>3, <2>2, <3>1 DEF Tidy
  <2>3. QED
    BY <2>1, <2>2
<1>6. \A q : In(c, q) <=> q = p \/ In(b, q)
  BY <1>2, <1>3 DEF In
<1>7. Tidy(c, new)
  BY <1>3, <1>5 DEF Tidy
<1>8. c[d] # <<>>
  BY <1>2, <1>3
<1>9. QED
  BY <1>3, <1>6, <1>7, <1>8 DEF c, new

(* Replacing one list by one that holds everything but p.                  *)
OneLess(t, s, p) == \A q : Holds(t, q) <=> Holds(s, q) /\ q # p

LEMMA Shrinking ==
  ASSUME NEW b, NEW dist, Tidy(b, dist), NEW m \in Distance, NEW p, Holds(b[m], p),
         NEW t \in Seq(Page), Distinct(t), OneLess(t, b[m], p)
  PROVE  /\ Tidy(Replaced(b, m, t), dist)
         /\ \A q : In(Replaced(b, m, t), q) <=> In(b, q) /\ q # p
         /\ \A e \in Distance : b[e] = <<>> => Replaced(b, m, t)[e] = <<>>
         /\ \A e \in Distance : e # m => Replaced(b, m, t)[e] = b[e]
<1> DEFINE c == Replaced(b, m, t)
<1>1. b \in [Distance -> Seq(Page)]
  BY DEF Tidy
<1>2. /\ c \in [Distance -> Seq(Page)]
      /\ c[m] = t
      /\ \A e \in Distance : e # m => c[e] = b[e]
  BY <1>1 DEF Replaced
<1> HIDE DEF c
<1>3. Tidy(c, dist)
  <2>1. ASSUME NEW e \in Distance
        PROVE  Distinct(c[e]) /\ \A q : Holds(c[e], q) => dist[q] = e
    <3>1. CASE e = m
      BY <1>2, <3>1 DEF Tidy, OneLess
    <3>2. CASE e # m
      BY <1>2, <3>2 DEF Tidy
    <3>3. QED
      BY <3>1, <3>2
  <2>2. QED
    BY <1>2, <2>1 DEF Tidy
<1>4. \A e \in Distance : e # m => ~Holds(b[e], p)
  BY DEF Tidy
<1>5. \A e \in Distance : \A q : Holds(c[e], q) <=> Holds(b[e], q) /\ q # p
  BY <1>2, <1>4 DEF OneLess
<1>6. \A q : In(c, q) <=> In(b, q) /\ q # p
  BY <1>5 DEF In
<1>7. b[m] # <<>>
  BY EmptyHoldsNothing
<1>8. QED
  BY <1>2, <1>3, <1>6, <1>7 DEF c

(* Unlinking the head of a list that is not empty.                         *)
Popped(b, m) == Replaced(b, m, Tail(b[m]))
NotEmpty(b, m) == b[m] # <<>>
LEMMA Popping ==
  ASSUME NEW b, NEW dist, Tidy(b, dist), NEW m \in Distance, NotEmpty(b, m)
  PROVE  /\ Head(b[m]) \in Page /\ dist[Head(b[m])] = m /\ In(b, Head(b[m]))
         /\ Tidy(Popped(b, m), dist)
         /\ \A q : In(Popped(b, m), q) <=> In(b, q) /\ q # Head(b[m])
         /\ \A e \in Distance : b[e] = <<>> => Popped(b, m)[e] = <<>>
<1> DEFINE h == Head(b[m])
           t == Tail(b[m])
<1>1. b[m] \in Seq(Page) /\ Distinct(b[m]) /\ b[m] # <<>>
  BY DEF Tidy, NotEmpty
<1>2. /\ h \in Page
      /\ Holds(b[m], h)
      /\ t \in Seq(Page)
      /\ Distinct(t)
      /\ \A q : Holds(t, q) <=> Holds(b[m], q) /\ q # h
  BY <1>1, TailOfList
<1> HIDE DEF h, t
<1>3. h \in Page /\ dist[h] = m /\ In(b, h)
  BY <1>2 DEF Tidy, In
<1>4. /\ Tidy(Replaced(b, m, t), dist)
      /\ \A q : In(Replaced(b, m, t), q) <=> In(b, q) /\ q # h
      /\ \A e \in Distance : b[e] = <<>> => Replaced(b, m, t)[e] = <<>>
  <2>1. OneLess(t, b[m], h)
    BY <1>2 DEF OneLess
  <2>2. QED
    BY <1>2, <2>1, Shrinking
<1>5. QED
  BY <1>3, <1>4, Zenon DEF Popped, h, t

-----------------------------------------------------------------------------
(* A set of natural numbers that is not empty has a least element.         *)
LEMMA LeastNatural ==
  ASSUME NEW T, T \subseteq Nat, T # {}
  PROVE  \E x \in T : \A y \in T : x <= y
<1> DEFINE R == OpToRel(<, Nat)
<1>1. IsWellFoundedOn(R, Nat)
  BY NatLessThanWellFounded
<1>2. \A x, y \in Nat : y < x => <<y, x>> \in R
  BY DEF OpToRel
<1> HIDE DEF R
<1>3. PICK x \in T : \A y \in T : ~(<<y, x>> \in R)
  BY <1>1, WFMin
<1>4. \A y \in T : ~(y < x)
  BY <1>2, <1>3, Zenon
<1>5. \A y \in T : x \in Nat /\ y \in Nat
  OBVIOUS
<1>6. QED
  BY <1>4, <1>5

LEMMA Between ==
  ASSUME NEW e \in Int, NEW a \in Int, NEW b \in Int, a <= e, e < b
  PROVE  e \in a..b - 1
OBVIOUS

(* delete_min's search ends at the first list that is not empty, or at the *)
(* last list.                                                              *)
LEMMA FirstFilledFacts ==
  ASSUME NEW b, NEW m \in Distance
  PROVE  /\ FirstFilled(b, m) \in m..MaxBucket
         /\ FirstFilled(b, m) < MaxBucket => b[FirstFilled(b, m)] # <<>>
         /\ \A j \in m..FirstFilled(b, m) - 1 : b[j] = <<>>
<1> DEFINE T == {k \in m..MaxBucket : k = MaxBucket \/ b[k] # <<>>}
<1>1. m \in Nat /\ MaxBucket \in Nat /\ m <= MaxBucket
  BY DEF Distance
<1>2. T \subseteq Nat /\ MaxBucket \in T
  BY <1>1
<1>3. PICK x \in T : \A y \in T : x <= y
  BY <1>2, LeastNatural
<1>4. \A j \in m..x - 1 : b[j] = <<>>
  BY <1>1, <1>3
<1>5. x \in m..MaxBucket /\ (x < MaxBucket => b[x] # <<>>)
  BY <1>1, <1>3
<1>6. QED
  BY <1>4, <1>5 DEF FirstFilled

-----------------------------------------------------------------------------
(* The inductive invariant.  That min_bucket_ rests on the last bucket     *)
(* when its own is empty is what MinBucketIsLowest needs to be inductive.  *)
LowerAreEmpty == \A d \in Distance : d < minBucket => buckets[d] = <<>>
RestsOnLast == buckets[minBucket] = <<>> => minBucket = MaxBucket
Linked == Tidy(buckets, distance)
QueueInv == TypeOK /\ Linked /\ LowerAreEmpty /\ RestsOnLast

Waiting == {p \in Page : Queued(p)}

(* The waiting pages in terms of the table, now and after a step.          *)
LEMMA WaitingIsIn ==
  /\ Waiting = {p \in Page : In(buckets, p)}
  /\ Waiting' = {p \in Page : In(buckets', p)}
BY DEF Waiting, Queued, InBucket, In, Holds

(* A linked path is that of a page, linked in the list of its distance.    *)
LEMMA LinkedPages ==
  ASSUME NEW b, NEW dist, Tidy(b, dist)
  PROVE  \A q : In(b, q) => q \in Page /\ dist[q] \in Distance /\ Holds(b[dist[q]], q)
BY LinkedIsPage DEF Tidy, In

(* insert keeps the invariant and adds its page to the waiting ones.       *)
LEMMA InsertStep ==
  ASSUME QueueInv, NEW p \in Page, NEW d \in Distance, NEW l \in Links,
         distance[p] = None, insert(p, d, l)
  PROVE  QueueInv' /\ Waiting' = Waiting \cup {p} /\ p \notin Waiting
<1> USE DEF QueueInv
<1>1. /\ buckets' = [buckets EXCEPT ![d] = <<p>> \o @]
      /\ distance' = [distance EXCEPT ![p] = d]
      /\ minBucket' = IF d < minBucket THEN d ELSE minBucket
  BY DEF insert, Place
<1>2. /\ distance \in [Page -> Distance \cup {None}]
      /\ minBucket \in Nat /\ minBucket <= MaxBucket
      /\ d \in Nat /\ d <= MaxBucket
      /\ \A e \in Distance : e \in Nat /\ e <= MaxBucket
  BY DEF TypeOK, Distance
<1>3. ~In(buckets, p)
  BY LinkedPages DEF Distance, Linked
<1>4. /\ Tidy(buckets', distance')
      /\ \A q : In(buckets', q) <=> q = p \/ In(buckets, q)
      /\ buckets'[d] # <<>>
      /\ \A e \in Distance : e # d => buckets'[e] = buckets[e]
  <2>1. Tidy(buckets, distance) /\ distance \in [Page -> Distance \cup {None}]
    BY <1>2 DEF Linked
  <2>2. buckets' = Placed(buckets, p, d) /\ distance' = Moved(distance, p, d)
    BY <1>1 DEF Placed, Moved
  <2>3. QED
    BY <1>3, <2>1, <2>2, Placing
<1>5. Waiting' = Waiting \cup {p} /\ p \notin Waiting
  BY <1>3, <1>4, WaitingIsIn
<1>6. TypeOK'
  <2>1. buckets' \in [Distance -> Seq(Page)]
    BY <1>4 DEF Tidy
  <2>2. QED
    BY <1>1, <2>1 DEF TypeOK, insert
<1>7. LowerAreEmpty'
  BY <1>1, <1>2, <1>4 DEF LowerAreEmpty
<1>8. RestsOnLast'
  BY <1>1, <1>2, <1>4 DEF RestsOnLast, LowerAreEmpty, TypeOK
<1>9. QED
  BY <1>4, <1>5, <1>6, <1>7, <1>8 DEF Linked

(* decrease_key keeps the invariant, and the same pages wait.              *)
LEMMA DecreaseStep ==
  ASSUME QueueInv, NEW p \in Page, NEW d \in Distance, NEW l \in Links,
         distance[p] # None, d < distance[p], decrease_key(p, d, l)
  PROVE  QueueInv' /\ Waiting' = Waiting
<1>1. /\ distance' = Moved(distance, p, d)
      /\ distance' = [distance EXCEPT ![p] = d]
      /\ links' = [links EXCEPT ![p] = l]
      /\ size' = size /\ deleted' = deleted
  BY DEF decrease_key, Moved
<1>2. /\ distance \in [Page -> Distance \cup {None}]
      /\ distance[p] \in Distance
      /\ minBucket \in Nat /\ minBucket <= MaxBucket
      /\ d \in Nat
      /\ \A e \in Distance : e \in Nat /\ e <= MaxBucket
  BY DEF QueueInv, TypeOK, Distance
<1>3. Tidy(buckets, distance)
  BY DEF QueueInv, Linked
<1>4. CASE Queued(p)
  <2> DEFINE from == distance[p]
             mid == Replaced(buckets, from, Without(buckets[from], p))
  <2>1. /\ buckets' = Placed(mid, p, d)
        /\ minBucket' = IF d < minBucket THEN d ELSE minBucket
    BY <1>4 DEF decrease_key, Place, Placed, Replaced
  <2>2. In(buckets, p) /\ Holds(buckets[from], p) /\ from \in Distance
    <3>1. In(buckets, p)
      BY <1>4 DEF Queued, InBucket, In, Holds
    <3>2. QED
      BY <1>2, <1>3, <3>1, LinkedPages
  <2>3. buckets[from] \in Seq(Page) /\ Distinct(buckets[from])
    BY <1>3, <2>2 DEF Tidy
  <2>4. /\ Without(buckets[from], p) \in Seq(Page)
        /\ Distinct(Without(buckets[from], p))
        /\ \A q : Holds(Without(buckets[from], p), q) <=> Holds(buckets[from], q) /\ q # p
    BY <2>2, <2>3, UnlinkedList
  <2> HIDE DEF from
  <2>5. /\ Tidy(mid, distance)
        /\ \A q : In(mid, q) <=> In(buckets, q) /\ q # p
        /\ \A e \in Distance : buckets[e] = <<>> => mid[e] = <<>>
        /\ \A e \in Distance : e # from => mid[e] = buckets[e]
    <3>1. PICK rest : rest = Without(buckets[from], p)
      OBVIOUS
    <3>2. rest \in Seq(Page) /\ Distinct(rest) /\ OneLess(rest, buckets[from], p)
      BY <2>4, <3>1 DEF OneLess
    <3>3. mid = Replaced(buckets, from, rest)
      BY <3>1
    <3>4. /\ Tidy(Replaced(buckets, from, rest), distance)
          /\ \A q : In(Replaced(buckets, from, rest), q) <=> In(buckets, q) /\ q # p
          /\ \A e \in Distance : buckets[e] = <<>> => Replaced(buckets, from, rest)[e] = <<>>
          /\ \A e \in Distance : e # from => Replaced(buckets, from, rest)[e] = buckets[e]
      <4> HIDE <2>4
      <4>1. QED
        BY <1>3, <2>2, <3>2, Shrinking
    <3> HIDE DEF mid
    <3>5. QED
      BY <3>3, <3>4
  <2> HIDE DEF mid
  <2>6. /\ Tidy(Placed(mid, p, d), Moved(distance, p, d))
        /\ \A q : In(Placed(mid, p, d), q) <=> q = p \/ In(mid, q)
        /\ Placed(mid, p, d)[d] # <<>>
        /\ \A e \in Distance : e # d => Placed(mid, p, d)[e] = mid[e]
    BY <1>2, <2>5, Placing
  <2>7. Linked'
    BY <1>1, <2>1, <2>6 DEF Linked
  <2>8. Waiting' = Waiting
    BY <2>1, <2>2, <2>5, <2>6, WaitingIsIn
  <2>9. TypeOK'
    <3>1. buckets' \in [Distance -> Seq(Page)]
      BY <2>7 DEF Linked, Tidy
    <3>2. QED
      BY <1>1, <2>1, <3>1 DEF QueueInv, TypeOK
  <2>10. LowerAreEmpty'
    <3>1. ASSUME NEW e \in Distance, e < minBucket'
          PROVE  buckets'[e] = <<>>
      <4>1. e < minBucket /\ e # d
        BY <1>2, <2>1, <3>1
      <4>2. buckets[e] = <<>>
        BY <4>1 DEF QueueInv, LowerAreEmpty
      <4>3. QED
        BY <2>1, <2>5, <2>6, <4>1, <4>2
    <3>2. QED
      BY <3>1 DEF LowerAreEmpty
  <2>11. RestsOnLast'
    <3>1. CASE d <= minBucket
      BY <1>2, <2>1, <2>6, <3>1 DEF RestsOnLast
    <3>2. CASE d > minBucket
      <4>1. minBucket' = minBucket /\ minBucket \in Distance /\ minBucket # from /\ minBucket # d
        BY <1>2, <2>1, <2>2, <3>2 DEF from, Distance
      <4>2. buckets'[minBucket] = buckets[minBucket]
        BY <2>1, <2>5, <2>6, <4>1
      <4>3. QED
        BY <4>1, <4>2 DEF QueueInv, RestsOnLast
    <3>3. QED
      BY <1>2, <3>1, <3>2
  <2>12. QED
    BY <2>7, <2>8, <2>9, <2>10, <2>11 DEF QueueInv
<1>5. CASE ~Queued(p)
  <2>1. buckets' = buckets /\ minBucket' = minBucket
    BY <1>5 DEF decrease_key
  <2>2. ~In(buckets, p)
    BY <1>5 DEF Queued, InBucket, In, Holds
  <2>3. \A q \in Page : q # p => distance'[q] = distance[q]
    BY <1>1, <1>2
  <2>4. Linked'
    <3>1. ASSUME NEW e \in Distance, NEW q, Holds(buckets[e], q)
          PROVE  distance'[q] = e
      <4>1. q # p /\ q \in Page /\ distance[q] = e
        BY <1>3, <2>2, <3>1, LinkedIsPage DEF Tidy, In
      <4>2. QED
        BY <2>3, <4>1
    <3>2. QED
      BY <1>3, <2>1, <3>1 DEF Linked, Tidy
  <2>5. Waiting' = Waiting
    BY <2>1, WaitingIsIn
  <2>6. TypeOK' /\ LowerAreEmpty' /\ RestsOnLast'
    BY <1>1, <2>1 DEF QueueInv, TypeOK, LowerAreEmpty, RestsOnLast
  <2>7. QED
    BY <2>4, <2>5, <2>6 DEF QueueInv
<1>6. QED
  BY <1>4, <1>5

(* delete_min on a queue that is not empty unlinks the head of the lowest  *)
(* list, a waiting page, and moves min_bucket_ to the next list.           *)
LEMMA DeleteStep ==
  ASSUME QueueInv, NotEmpty(buckets, minBucket), delete_min
  PROVE  /\ QueueInv'
         /\ deleted' \in Waiting
         /\ distance[deleted'] = minBucket
         /\ Waiting' = Waiting \ {deleted'}
<1>1. /\ deleted' = Head(buckets[minBucket])
      /\ buckets' = Popped(buckets, minBucket)
      /\ minBucket' = FirstFilled(buckets', minBucket)
      /\ size' = size - 1
      /\ distance' = distance /\ links' = links
  BY DEF delete_min, NotEmpty, Popped, Replaced
<1>2. /\ minBucket \in Distance
      /\ minBucket \in Nat /\ MaxBucket \in Nat /\ minBucket <= MaxBucket
      /\ \A e \in Distance : e \in Nat /\ e <= MaxBucket
  BY DEF QueueInv, TypeOK, Distance
<1>3. Tidy(buckets, distance)
  BY DEF QueueInv, Linked
<1>4. /\ deleted' \in Page /\ distance[deleted'] = minBucket /\ In(buckets, deleted')
      /\ Tidy(buckets', distance)
      /\ \A q : In(buckets', q) <=> In(buckets, q) /\ q # deleted'
      /\ \A e \in Distance : buckets[e] = <<>> => buckets'[e] = <<>>
  BY <1>1, <1>2, <1>3, Popping
<1>5. /\ minBucket' \in minBucket..MaxBucket
      /\ minBucket' < MaxBucket => buckets'[minBucket'] # <<>>
      /\ \A j \in minBucket..minBucket' - 1 : buckets'[j] = <<>>
  BY <1>1, <1>2, FirstFilledFacts
<1>6. deleted' \in Waiting /\ Waiting' = Waiting \ {deleted'}
  BY <1>1, <1>4, WaitingIsIn
<1>7. Linked'
  BY <1>1, <1>4 DEF Linked
<1>8. TypeOK'
  <2>1. buckets' \in [Distance -> Seq(Page)]
    BY <1>4 DEF Tidy
  <2>2. minBucket' \in Distance
    BY <1>2, <1>5 DEF Distance
  <2>3. QED
    BY <1>1, <1>4, <2>1, <2>2 DEF QueueInv, TypeOK
<1>9. LowerAreEmpty'
  <2>1. ASSUME NEW e \in Distance, e < minBucket'
        PROVE  buckets'[e] = <<>>
    <3>1. CASE e < minBucket
      BY <1>4, <3>1 DEF QueueInv, LowerAreEmpty
    <3>2. CASE e >= minBucket
      <4>1. /\ e \in Int /\ minBucket' \in Int /\ minBucket \in Int
            /\ minBucket <= e /\ e < minBucket'
        BY <1>2, <1>5, <2>1, <3>2
      <4>2. e \in minBucket..minBucket' - 1
        BY <4>1, Between
      <4>3. QED
        BY <1>5, <4>2
    <3>3. QED
      BY <1>2, <3>1, <3>2
  <2>2. QED
    BY <2>1 DEF LowerAreEmpty
<1>10. RestsOnLast'
  BY <1>2, <1>5 DEF RestsOnLast
<1>11. QED
  BY <1>1, <1>4, <1>6, <1>7, <1>8, <1>9, <1>10 DEF QueueInv

(* delete_min on a queue whose lowest list is empty: nothing waits.        *)
LEMMA EmptyMeansNothingWaits ==
  ASSUME QueueInv, ~NotEmpty(buckets, minBucket)
  PROVE  /\ \A d \in Distance : buckets[d] = <<>>
         /\ Waiting = {}
<1>1. /\ minBucket \in Distance /\ buckets[minBucket] = <<>>
      /\ \A d \in Distance : d < minBucket => buckets[d] = <<>>
      /\ buckets[minBucket] = <<>> => minBucket = MaxBucket
  BY DEF QueueInv, TypeOK, LowerAreEmpty, RestsOnLast, NotEmpty
<1>2. \A d \in Distance : d < MaxBucket \/ d = MaxBucket
  BY DEF Distance
<1>3. \A d \in Distance : buckets[d] = <<>>
  BY <1>1, <1>2
<1>4. \A q : ~In(buckets, q)
  BY <1>3, EmptyHoldsNothing DEF In
<1>5. QED
  BY <1>3, <1>4, WaitingIsIn

-----------------------------------------------------------------------------
(* size_ counts the waiting pages.                                         *)
CountInv == IsFiniteSet(Waiting) /\ size = Cardinality(Waiting)
IndInv == QueueInv /\ CountInv

LEMMA InitHolds == Init => IndInv /\ Waiting = {}
<1> SUFFICES ASSUME Init
             PROVE  IndInv /\ Waiting = {}
  OBVIOUS
<1>1. /\ buckets = [d \in Distance |-> <<>>]
      /\ distance = [p \in Page |-> None]
      /\ links = [p \in Page |-> None]
      /\ minBucket = MaxBucket /\ size = 0 /\ deleted = None
  BY DEF Init
<1>2. MaxBucket \in Distance /\ \A d \in Distance : buckets[d] = <<>>
  BY <1>1 DEF Distance
<1>3. TypeOK
  BY <1>1, <1>2 DEF TypeOK
<1>4. Linked
  <2>1. buckets \in [Distance -> Seq(Page)]
    BY <1>3 DEF TypeOK
  <2>2. Distinct(<<>>)
    BY DEF Distinct
  <2>3. QED
    BY <1>2, <2>1, <2>2, EmptyHoldsNothing DEF Linked, Tidy
<1>5. Waiting = {}
  <2>1. \A q : ~In(buckets, q)
    BY <1>2, EmptyHoldsNothing DEF In
  <2>2. QED
    BY <2>1, WaitingIsIn
<1>6. QueueInv
  BY <1>1, <1>2, <1>3, <1>4 DEF QueueInv, LowerAreEmpty, RestsOnLast
<1>7. CountInv
  BY <1>1, <1>5, FS_EmptySet DEF CountInv
<1>8. QED
  BY <1>5, <1>6, <1>7 DEF IndInv

LEMMA StepHolds == IndInv /\ [Next]_vars => IndInv'
<1> SUFFICES ASSUME IndInv, [Next]_vars
             PROVE  IndInv'
  OBVIOUS
<1>1. QueueInv /\ IsFiniteSet(Waiting) /\ size = Cardinality(Waiting)
  BY DEF IndInv, CountInv
<1>2. ASSUME NEW p \in Page, NEW d \in Distance, NEW l \in Links,
             distance[p] = None, insert(p, d, l)
      PROVE  IndInv'
  <2>1. QueueInv' /\ Waiting' = Waiting \cup {p} /\ p \notin Waiting
    BY <1>1, <1>2, InsertStep
  <2>2. size' = size + 1
    BY <1>2 DEF insert
  <2>3. CountInv'
    BY <1>1, <2>1, <2>2, FS_AddElement DEF CountInv
  <2>4. QED
    BY <2>1, <2>3 DEF IndInv
<1>3. ASSUME NEW p \in Page, NEW d \in Distance, NEW l \in Links,
             distance[p] # None, d < distance[p], decrease_key(p, d, l)
      PROVE  IndInv'
  <2>1. QueueInv' /\ Waiting' = Waiting
    BY <1>1, <1>3, DecreaseStep
  <2>2. size' = size
    BY <1>3 DEF decrease_key
  <2>3. QED
    BY <1>1, <2>1, <2>2 DEF IndInv, CountInv
<1>4. CASE delete_min
  <2>1. CASE NotEmpty(buckets, minBucket)
    <3>1. QueueInv' /\ deleted' \in Waiting /\ Waiting' = Waiting \ {deleted'}
      BY <1>1, <1>4, <2>1, DeleteStep
    <3>2. size' = size - 1
      BY <1>4, <2>1 DEF delete_min, NotEmpty
    <3>3. CountInv'
      BY <1>1, <3>1, <3>2, FS_RemoveElement DEF CountInv
    <3>4. QED
      BY <3>1, <3>3 DEF IndInv
  <2>2. CASE ~NotEmpty(buckets, minBucket)
    <3>1. /\ buckets' = buckets /\ distance' = distance /\ links' = links
          /\ minBucket' = minBucket /\ size' = size /\ deleted' = None
      BY <1>4, <2>2 DEF delete_min, NotEmpty
    <3>2. Waiting' = Waiting
      BY <3>1, WaitingIsIn
    <3>3. QueueInv'
      BY <1>1, <3>1 DEF QueueInv, TypeOK, Linked, LowerAreEmpty, RestsOnLast
    <3>4. QED
      BY <1>1, <3>1, <3>2, <3>3 DEF IndInv, CountInv
  <2>3. QED
    BY <2>1, <2>2
<1>5. CASE UNCHANGED vars
  <2>1. Waiting' = Waiting
    BY <1>5, WaitingIsIn DEF vars
  <2>2. QueueInv'
    BY <1>1, <1>5 DEF QueueInv, TypeOK, Linked, LowerAreEmpty, RestsOnLast, vars
  <2>3. QED
    BY <1>1, <1>5, <2>1, <2>2 DEF IndInv, CountInv, vars
<1>6. QED
  BY <1>2, <1>3, <1>4, <1>5 DEF Next

LEMMA Invariance == Spec => []IndInv
<1>1. Init => IndInv
  BY InitHolds
<1>2. QED
  BY <1>1, StepHolds, PTL DEF Spec

(* The tables keep their types and min_bucket_ is always a valid index.    *)
THEOREM TypeCorrect == Spec => []TypeOK
<1>1. IndInv => TypeOK
  BY DEF IndInv, QueueInv
<1>2. QED
  BY <1>1, Invariance, PTL

(* A page is linked at most once, and in the bucket of its distance,       *)
(* whatever decrease_key moves and delete_min unlinks.                     *)
THEOREM PathsStayInTheirBuckets == Spec => []EachPathInItsBucket
<1>1. IndInv => EachPathInItsBucket
  BY DEF IndInv, QueueInv, Linked, Tidy, Distinct, Holds, EachPathInItsBucket
<1>2. QED
  BY <1>1, Invariance, PTL

(* size_, on which shortest_chain loops, is the number of linked paths.    *)
THEOREM SizeCounts == Spec => []SizeIsNumberQueued
<1>1. IndInv => SizeIsNumberQueued
  BY DEF IndInv, CountInv, Waiting, SizeIsNumberQueued
<1>2. QED
  BY <1>1, Invariance, PTL

(* min_bucket_ is never above the lowest list that holds a path.           *)
THEOREM MinBucketNeverTooHigh == Spec => []MinBucketIsLowest
<1>1. IndInv => MinBucketIsLowest
  <2> SUFFICES ASSUME IndInv
               PROVE  MinBucketIsLowest
    OBVIOUS
  <2>1. QueueInv
    BY DEF IndInv
  <2>2. \A d \in Distance : d < minBucket => buckets[d] = <<>>
    BY <2>1 DEF QueueInv, LowerAreEmpty
  <2>3. ~NotEmpty(buckets, minBucket) => \A d \in Distance : buckets[d] = <<>>
    BY <2>1, EmptyMeansNothingWaits
  <2>4. QED
    BY <2>2, <2>3 DEF MinBucketIsLowest, NotEmpty
<1>2. QED
  BY <1>1, Invariance, PTL

(* The three together: decrease_key, insert and delete_min keep every      *)
(* cached value in step with the buckets.                                  *)
THEOREM CachesAlwaysAgree == Spec => []CachesAgree
<1>1. EachPathInItsBucket /\ SizeIsNumberQueued /\ MinBucketIsLowest => CachesAgree
  BY DEF CachesAgree
<1>2. QED
  BY <1>1, PathsStayInTheirBuckets, SizeCounts, MinBucketNeverTooHigh, PTL

(* No waiting page undercuts the one delete_min takes.                     *)
LEMMA NoneBelowMinimum ==
  ASSUME QueueInv, NEW q \in Waiting
  PROVE  minBucket <= distance[q]
<1>1. Tidy(buckets, distance) /\ In(buckets, q)
  BY WaitingIsIn DEF QueueInv, Linked
<1>2. distance[q] \in Distance /\ Holds(buckets[distance[q]], q)
  BY <1>1, LinkedPages
<1>3. buckets[distance[q]] # <<>>
  BY <1>2, EmptyHoldsNothing
<1>4. ~(distance[q] < minBucket)
  BY <1>2, <1>3 DEF QueueInv, LowerAreEmpty
<1>5. QED
  BY <1>2, <1>4 DEF QueueInv, TypeOK, Distance

LEMMA HeadIsLeast ==
  ASSUME QueueInv, NEW p \in Waiting, distance[p] = minBucket
  PROVE  Abstract!Least(p)
BY NoneBelowMinimum DEF Abstract!Least, Waiting

(* What a caller may rely on.  delete_min takes a nearest waiting page, or *)
(* returns NULL when none waits.                                           *)
LEMMA TakesNearest ==
  ASSUME QueueInv, delete_min
  PROVE  /\ QueueInv'
         /\ distance' = distance /\ links' = links
         /\ \/ deleted' = None /\ Waiting = {} /\ Waiting' = {}
            \/ /\ deleted' \in Waiting /\ Waiting' = Waiting \ {deleted'}
               /\ \A q \in Waiting : distance[deleted'] <= distance[q]
<1>1. CASE NotEmpty(buckets, minBucket)
  <2>1. /\ QueueInv' /\ deleted' \in Waiting /\ distance[deleted'] = minBucket
        /\ Waiting' = Waiting \ {deleted'}
    BY <1>1, DeleteStep
  <2>2. \A q \in Waiting : distance[deleted'] <= distance[q]
    BY <2>1, NoneBelowMinimum
  <2>3. distance' = distance /\ links' = links
    BY <1>1 DEF delete_min, NotEmpty
  <2>4. QED
    BY <2>1, <2>2, <2>3
<1>2. CASE ~NotEmpty(buckets, minBucket)
  <2>1. /\ buckets' = buckets /\ distance' = distance /\ links' = links
        /\ minBucket' = minBucket /\ size' = size /\ deleted' = None
    BY <1>2 DEF delete_min, NotEmpty
  <2>2. Waiting = {} /\ Waiting' = Waiting
    BY <1>2, <2>1, WaitingIsIn, EmptyMeansNothingWaits
  <2>3. QueueInv'
    BY <2>1 DEF QueueInv, TypeOK, Linked, LowerAreEmpty, RestsOnLast
  <2>4. QED
    BY <2>1, <2>2, <2>3
<1>3. QED
  BY <1>1, <1>2

(* A page reached for the first time, or a waiting one brought nearer.     *)
LEMMA BringsNearer ==
  ASSUME QueueInv, NEW p \in Page, NEW d \in Distance, NEW l \in Links,
         IF distance[p] = None THEN insert(p, d, l)
         ELSE p \in Waiting /\ d < distance[p] /\ decrease_key(p, d, l)
  PROVE  /\ QueueInv'
         /\ distance' = [distance EXCEPT ![p] = d] /\ links' = [links EXCEPT ![p] = l]
         /\ Waiting' = Waiting \cup {p}
         /\ deleted' = deleted
<1>1. CASE distance[p] = None
  BY <1>1, InsertStep DEF insert
<1>2. CASE distance[p] # None
  BY <1>2, DecreaseStep DEF decrease_key
<1>3. QED
  BY <1>1, <1>2

(* The bucket queue implements the priority queue MinQueue: delete_min     *)
(* returns a page of least distance, or NULL when none waits.              *)
THEOREM QueueImplementsMinQueue == Spec => ImplementsMinQueue
<1>1. Init => Abstract!Init
  <2>1. Init => Waiting = {}
    BY InitHolds
  <2>2. QED
    BY <2>1 DEF Init, Abstract!Init, Waiting
<1>2. IndInv /\ [Next]_vars => [Abstract!Next]_(Abstract!vars)
  <2> SUFFICES ASSUME IndInv, [Next]_vars
               PROVE  Abstract!Next \/ UNCHANGED Abstract!vars
    OBVIOUS
  <2>1. QueueInv
    BY DEF IndInv
  <2>2. ASSUME NEW p \in Page, NEW d \in Distance, NEW l \in Links,
               distance[p] = None, insert(p, d, l)
        PROVE  Abstract!Insert(p, d)
    <3>1. Waiting' = Waiting \cup {p}
      BY <2>1, <2>2, InsertStep
    <3>2. QED
      BY <2>2, <3>1 DEF insert, Abstract!Insert, Waiting
  <2>3. ASSUME NEW p \in Page, NEW d \in Distance, NEW l \in Links,
               distance[p] # None, d < distance[p], decrease_key(p, d, l)
        PROVE  Abstract!DecreaseKey(p, d)
    <3>1. Waiting' = Waiting
      BY <2>1, <2>3, DecreaseStep
    <3>2. QED
      BY <2>3, <3>1 DEF decrease_key, Abstract!DecreaseKey, Waiting
  <2>4. CASE delete_min
    <3>1. CASE NotEmpty(buckets, minBucket)
      <4>1. /\ deleted' \in Waiting /\ distance[deleted'] = minBucket
            /\ Waiting' = Waiting \ {deleted'}
        BY <2>1, <2>4, <3>1, DeleteStep
      <4>2. distance' = distance
        BY <2>4, <3>1 DEF delete_min, NotEmpty
      <4>3. PICK k \in Waiting : k = deleted'
        BY <4>1
      <4>4. Abstract!Least(k) /\ k \in Page
        BY <2>1, <4>1, <4>3, HeadIsLeast DEF Waiting
      <4>5. Abstract!DeleteMin
        BY <4>1, <4>2, <4>3, <4>4 DEF Abstract!DeleteMin, Waiting
      <4>6. QED
        BY <4>5 DEF Abstract!Next
    <3>2. CASE ~NotEmpty(buckets, minBucket)
      <4>1. Waiting = {}
        BY <2>1, <3>2, EmptyMeansNothingWaits
      <4>2. buckets' = buckets /\ distance' = distance /\ deleted' = None
        BY <2>4, <3>2 DEF delete_min, NotEmpty
      <4>3. Waiting' = Waiting
        BY <4>2, WaitingIsIn
      <4>4. Abstract!DeleteMin
        BY <4>1, <4>2, <4>3 DEF Abstract!DeleteMin, Waiting
      <4>5. QED
        BY <4>4 DEF Abstract!Next
    <3>3. QED
      BY <3>1, <3>2
  <2>5. CASE UNCHANGED vars
    <3>1. Waiting' = Waiting
      BY <2>5, WaitingIsIn DEF vars
    <3>2. QED
      BY <2>5, <3>1 DEF vars, Abstract!vars, Waiting
  <2>6. QED
    BY <2>2, <2>3, <2>4, <2>5 DEF Next, Abstract!Next
<1>3. QED
  BY <1>1, <1>2, Invariance, PTL DEF Spec, ImplementsMinQueue, Abstract!Spec
=============================================================================
