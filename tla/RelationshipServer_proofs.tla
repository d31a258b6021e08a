---------------------- MODULE RelationshipServer_proofs ----------------------
(* The relationship server: HolderInv, the inductive invariant of the      *)
(* store of distances, ClientInv, that of a client's call over a stream    *)
(* that arrives in pieces, and BuildInv, that of the build of the          *)
(* distances from the links of the sites.                                  *)
EXTENDS RelationshipHolder, DistanceBuild, RelationshipClient, FiniteSetTheorems, WellFoundedInduction,
        TLAPS

-----------------------------------------------------------------------------
(* The arrays.                                                             *)

Arrays(ch) ==
  /\ ch = [s \in Site |-> ch[s]]
  /\ \A s \in Site : ch[s] # None => ch[s] \in Seq(Nat)
(* No site is listed twice, and none lists itself.                         *)
Faithful(ch) ==
  \A s \in Site : /\ CloseTo(ch, s) \subseteq Site \ {s}
                  /\ ch[s] # None => IsInjective(ch[s])

LEMMA SitesAreWords ==
  /\ \A s \in Site : s \in Nat /\ 0 < s /\ s < 256
  /\ HeapByte \subseteq 0..255
BY HolderAssumption DEF HolderAssumption

LEMMA OneMore ==
  ASSUME NEW a \in Seq(Nat), NEW o \in Nat
  PROVE  /\ Append(a, o) \in Seq(Nat) /\ ToSet(Append(a, o)) = ToSet(a) \cup {o}
         /\ IsInjective(a) /\ o \notin ToSet(a) => IsInjective(Append(a, o))
<1>1. Append(a, o) \in Seq(Nat) /\ Len(Append(a, o)) = Len(a) + 1 /\ Len(a) \in Nat
  OBVIOUS
<1>2. \A n \in 1..Len(a) : Append(a, o)[n] = a[n]
  OBVIOUS
<1>3. Append(a, o)[Len(a) + 1] = o
  OBVIOUS
<1>4. DOMAIN a = 1..Len(a) /\ DOMAIN Append(a, o) = 1..(Len(a) + 1)
  BY <1>1
<1>5. ToSet(Append(a, o)) = ToSet(a) \cup {o}
  BY <1>1, <1>2, <1>3, <1>4 DEF ToSet
<1>6. ASSUME IsInjective(a), o \notin ToSet(a) PROVE IsInjective(Append(a, o))
  <2>1. \A n \in 1..Len(a) : a[n] # o
    BY <1>4, <1>6 DEF ToSet
  <2>2. \A n, m \in 1..Len(a) : a[n] = a[m] => n = m
    BY <1>4, <1>6 DEF IsInjective
  <2>3. ASSUME NEW n \in 1..(Len(a) + 1), NEW m \in 1..(Len(a) + 1), Append(a, o)[n] = Append(a, o)[m]
        PROVE  n = m
    <3>1. CASE n \in 1..Len(a) /\ m \in 1..Len(a)
      BY <1>2, <2>2, <2>3, <3>1
    <3>2. CASE n \in 1..Len(a) /\ m = Len(a) + 1
      BY <1>2, <1>3, <2>1, <2>3, <3>2
    <3>3. CASE n = Len(a) + 1 /\ m \in 1..Len(a)
      BY <1>2, <1>3, <2>1, <2>3, <3>3
    <3>4. QED
      BY <1>1, <3>1, <3>2, <3>3
  <2>4. QED
    BY <1>4, <2>3 DEF IsInjective
<1>7. QED
  BY <1>1, <1>5, <1>6

LEMMA OneSite ==
  ASSUME NEW o \in Nat
  PROVE  <<o>> \in Seq(Nat) /\ ToSet(<<o>>) = {o} /\ IsInjective(<<o>>)
BY DEF ToSet, IsInjective

LEMMA LinkAppends ==
  ASSUME NEW ch, Arrays(ch), NEW s \in Site, NEW o \in Site, s # o
  PROVE  /\ Arrays(Link(ch, s, o))
         /\ CloseTo(Link(ch, s, o), s) = CloseTo(ch, s) \cup {o}
         /\ \A x \in Site : x # s => Link(ch, s, o)[x] = ch[x]
         /\ Faithful(ch) => Faithful(Link(ch, s, o))
<1>1. o \in Nat /\ None \notin Seq(Nat)
  BY SitesAreWords, HolderAssumption DEF HolderAssumption
<1>2. PICK a : a = CASE ch[s] = None        -> <<o>>
                     [] o \in CloseTo(ch, s) -> ch[s]
                     [] OTHER               -> Append(ch[s], o)
  OBVIOUS
<1>3. Link(ch, s, o) = [ch EXCEPT ![s] = a]
  BY <1>2 DEF Link
<1>4. /\ a \in Seq(Nat) /\ ToSet(a) = CloseTo(ch, s) \cup {o}
      /\ Faithful(ch) => IsInjective(a)
  <2>1. CASE ch[s] = None
    <3>1. a = <<o>> /\ CloseTo(ch, s) = {}
      BY <1>2, <2>1 DEF CloseTo
    <3>2. QED
      BY <1>1, <3>1, OneSite
  <2>2. CASE ch[s] # None /\ o \in CloseTo(ch, s)
    <3>1. a = ch[s] /\ CloseTo(ch, s) = ToSet(ch[s])
      BY <1>2, <2>2 DEF CloseTo
    <3>2. QED
      BY <2>2, <3>1 DEF Arrays, Faithful
  <2>3. CASE ch[s] # None /\ o \notin CloseTo(ch, s)
    <3>1. a = Append(ch[s], o) /\ CloseTo(ch, s) = ToSet(ch[s]) /\ ch[s] \in Seq(Nat)
      BY <1>2, <2>3 DEF CloseTo, Arrays
    <3>2. QED
      BY <1>1, <2>3, <3>1, OneMore DEF Faithful
  <2>4. QED
    BY <2>1, <2>2, <2>3
<1>5. PICK new : new = Link(ch, s, o)
  OBVIOUS
<1>6. new = [x \in Site |-> IF x = s THEN a ELSE ch[x]]
  BY <1>3, <1>5 DEF Arrays
<1>7. Arrays(new) /\ \A x \in Site : x # s => new[x] = ch[x]
  BY <1>4, <1>6 DEF Arrays
<1>8. a # None /\ new[s] = a
  BY <1>1, <1>4, <1>6
<1>9. CloseTo(new, s) = CloseTo(ch, s) \cup {o}
  BY <1>4, <1>8 DEF CloseTo
<1>10. ASSUME Faithful(ch) PROVE Faithful(new)
  <2>1. ASSUME NEW x \in Site
        PROVE  CloseTo(new, x) \subseteq Site \ {x} /\ (new[x] # None => IsInjective(new[x]))
    <3>1. CASE x = s
      BY <1>4, <1>8, <1>9, <1>10, <3>1 DEF Faithful
    <3>2. CASE x # s
      BY <1>7, <1>10, <3>2 DEF Faithful, CloseTo
    <3>3. QED
      BY <3>1, <3>2
  <2>2. QED
    BY <2>1 DEF Faithful
<1>11. QED
  BY <1>5, <1>7, <1>9, <1>10

(* The other end of a pair, for either of its sites.                       *)
Other(k, x) == {y \in {k[1], k[2]} : k = <<x, y>> \/ k = <<y, x>>}

LEMMA LinkBothAppends ==
  ASSUME NEW ch, Arrays(ch), NEW k \in Key
  PROVE  /\ Arrays(LinkBoth(ch, k))
         /\ \A x \in Site : CloseTo(LinkBoth(ch, k), x) = CloseTo(ch, x) \cup Other(k, x)
         /\ Faithful(ch) => Faithful(LinkBoth(ch, k))
<1>1. PICK s \in Site, o \in Site : k = <<s, o>> /\ s # o
  BY DEF Key
<1>2. PICK one, both : one = Link(ch, s, o) /\ both = Link(one, o, s)
  OBVIOUS
<1>3. LinkBoth(ch, k) = both
  BY <1>1, <1>2 DEF LinkBoth
<1>4. /\ Arrays(one) /\ CloseTo(one, s) = CloseTo(ch, s) \cup {o}
      /\ \A x \in Site : x # s => one[x] = ch[x]
      /\ Faithful(ch) => Faithful(one)
  BY <1>1, <1>2, LinkAppends
<1>5. /\ Arrays(both) /\ CloseTo(both, o) = CloseTo(one, o) \cup {s}
      /\ \A x \in Site : x # o => both[x] = one[x]
      /\ Faithful(one) => Faithful(both)
  BY <1>1, <1>2, <1>4, LinkAppends
<1>6. ASSUME NEW x \in Site PROVE CloseTo(both, x) = CloseTo(ch, x) \cup Other(k, x)
  <2>1. CASE x = s
    <3>1. Other(k, x) = {o}
      BY <1>1, <2>1 DEF Other
    <3>2. CloseTo(both, x) = CloseTo(one, x)
      BY <1>1, <1>5, <2>1 DEF CloseTo
    <3>3. QED
      BY <1>4, <2>1, <3>1, <3>2
  <2>2. CASE x = o
    <3>1. Other(k, x) = {s}
      BY <1>1, <2>2 DEF Other
    <3>2. CloseTo(one, x) = CloseTo(ch, x)
      BY <1>1, <1>4, <2>2 DEF CloseTo
    <3>3. QED
      BY <1>5, <2>2, <3>1, <3>2
  <2>3. CASE x # s /\ x # o
    <3>1. Other(k, x) = {}
      BY <1>1, <2>3 DEF Other
    <3>2. both[x] = ch[x]
      BY <1>4, <1>5, <2>3
    <3>3. QED
      BY <3>1, <3>2 DEF CloseTo
  <2>4. QED
    BY <2>1, <2>2, <2>3
<1>7. QED
  BY <1>3, <1>4, <1>5, <1>6

-----------------------------------------------------------------------------
(* Removal from an array.                                                  *)

LEMMA LeastNumber ==
  ASSUME NEW T, T \subseteq Nat, T # {}
  PROVE  \E x \in T : \A y \in T : x <= y
<1> DEFINE R == OpToRel(<, Nat)
<1>1. IsWellFoundedOn(R, Nat)
  BY NatLessThanWellFounded
<1>2. \A x, y \in Nat : y < x => <<y, x>> \in R
  BY DEF OpToRel
<1> HIDE DEF R
<1>3. PICK x \in T : \A y \in T : ~(<<y, x>> \in R)
  BY <1>1, WFMin
<1>4. \A y \in T : ~(y < x)
  BY <1>2, <1>3, Zenon
<1>5. \A y \in T : x \in Nat /\ y \in Nat
  OBVIOUS
<1>6. QED
  BY <1>4, <1>5

LEMMA FirstIndex ==
  ASSUME NEW a \in Seq(Nat), NEW o \in ToSet(a)
  PROVE  IndexIn(a, o) \in 1..Len(a) /\ a[IndexIn(a, o)] = o
<1> DEFINE T == {n \in 1..Len(a) : a[n] = o}
<1>1. DOMAIN a = 1..Len(a) /\ T \subseteq Nat /\ T # {}
  BY DEF ToSet
<1>2. PICK x \in T : \A y \in T : x <= y
  BY <1>1, LeastNumber
<1>3. x \in DOMAIN a /\ a[x] = o /\ \A j \in 1..x - 1 : a[j] # o
  <2>1. ASSUME NEW j \in 1..x - 1, a[j] = o PROVE FALSE
    <3>1. j \in T /\ x \in Nat /\ j < x
      BY <2>1
    <3>2. QED
      BY <1>2, <3>1
  <2>2. QED
    BY <1>1, <2>1
<1>4. QED
  BY <1>1, <1>3 DEF IndexIn

LEMMA Places == /\ Place[1] = 1 /\ Place[2] = 256 /\ Place[3] = 65536 /\ Place[4] = 16777216
                /\ \A n \in 1..4 : Place[n] \in {1, 256, 65536, 16777216}
BY DEF Place

LEMMA FirstByteAlone ==
  \A x \in Nat : x * 1 + 0 * 256 + 0 * 65536 + 0 * 16777216 = x
OBVIOUS

LEMMA ByteIsByte ==
  ASSUME NEW a \in Seq(Nat), NEW n \in Nat, NEW heap \in HeapByte
  PROVE  Byte(a, n, heap) \in 0..255
<1>1. CASE n < 4 * Len(a)
  <2>1. PICK x \in Nat : x = a[(n \div 4) + 1]
    <3>1. (n \div 4) + 1 \in 1..Len(a)
      BY <1>1
    <3>2. QED
      BY <3>1
  <2>2. PICK p \in Nat \ {0} : p = Place[(n % 4) + 1]
    <3>1. (n % 4) + 1 \in 1..4
      OBVIOUS
    <3>2. QED
      BY <3>1, Places
  <2>3. x \div p \in Nat
    OBVIOUS
  <2>4. (x \div p) % 256 \in 0..255
    BY <2>3
  <2>5. Byte(a, n, heap) = (x \div p) % 256
    BY <1>1, <2>1, <2>2, Zenon DEF Byte
  <2>6. QED
    BY <2>4, <2>5, Zenon
<1>2. CASE ~(n < 4 * Len(a))
  BY <1>2, SitesAreWords DEF Byte
<1>3. QED
  BY <1>1, <1>2

LEMMA ShrunkIsArray ==
  ASSUME NEW a \in Seq(Nat), NEW k \in Nat, NEW heap \in HeapByte, Len(a) > 1
  PROVE  Shrunk(a, k, heap) \in Seq(Nat)
<1>1. ASSUME NEW n \in Nat PROVE CopiedByte(a, k, n, heap) \in Nat
  <2>1. PICK m \in Nat : m = n + 3 * k + 4
    OBVIOUS
  <2>2. Byte(a, n, heap) \in 0..255 /\ Byte(a, m, heap) \in 0..255
    BY ByteIsByte
  <2>3. CopiedByte(a, k, n, heap) \in {Byte(a, n, heap), Byte(a, m, heap)}
    BY <2>1 DEF CopiedByte
  <2>4. \A x \in 0..255 : x \in Nat
    OBVIOUS
  <2>5. QED
    BY <2>2, <2>3, <2>4
<1>2. ASSUME NEW n \in Nat PROVE Word(a, k, n, heap) \in Nat
  <2>1. ASSUME NEW b \in 0..3 PROVE CopiedByte(a, k, 4 * n + b, heap) * Place[b + 1] \in Nat
    <3>1. PICK m \in Nat : m = 4 * n + b
      OBVIOUS
    <3>2. PICK c \in Nat : c = CopiedByte(a, k, m, heap)
      BY <1>1
    <3>3. b + 1 \in 1..4
      OBVIOUS
    <3>4. PICK p \in Nat : p = Place[b + 1]
      BY <3>3, Places
    <3>5. c * p \in Nat
      OBVIOUS
    <3>6. QED
      BY <3>1, <3>2, <3>4, <3>5
  <2> DEFINE part(b) == CopiedByte(a, k, 4 * n + b, heap) * Place[b + 1]
  <2>2. part(0) \in Nat /\ part(1) \in Nat /\ part(2) \in Nat /\ part(3) \in Nat
    BY <2>1
  <2>3. Word(a, k, n, heap) = part(0) + part(1) + part(2) + part(3)
    BY DEF Word
  <2> HIDE DEF part
  <2>4. QED
    BY <2>2, <2>3
<1>3. ASSUME NEW n \in 1..Len(a) - 1 PROVE Word(a, k, n - 1, heap) \in Nat
  <2>1. PICK m \in Nat : m = n - 1
    OBVIOUS
  <2>2. QED
    BY <1>2, <2>1
<1>4. QED
  BY <1>3 DEF Shrunk

LEMMA BytesOfSmall ==
  ASSUME NEW x \in Nat, x < 256
  PROVE  /\ (x \div 1) % 256 = x /\ (x \div 256) % 256 = 0
         /\ (x \div 65536) % 256 = 0 /\ (x \div 16777216) % 256 = 0
<1>1. x \div 1 = x /\ x \div 256 = 0 /\ x \div 65536 = 0 /\ x \div 16777216 = 0
  OBVIOUS
<1>2. x % 256 = x /\ 0 % 256 = 0
  OBVIOUS
<1>3. QED
  BY <1>1, <1>2

(* With its first element removed, an array of small numbers is its tail.  *)
LEMMA ShrunkIsTail ==
  ASSUME NEW a \in Seq(Nat), \A n \in 1..Len(a) : a[n] < 256, NEW heap \in HeapByte, Len(a) > 1
  PROVE  Shrunk(a, 0, heap) = [n \in 1..Len(a) - 1 |-> a[n + 1]]
<1>1. ASSUME NEW n \in 0..Len(a) - 2 PROVE Word(a, 0, n, heap) = a[n + 2]
  <2>1. PICK x \in Nat : x = a[n + 2] /\ x < 256
    BY <1>1
  <2>2. ASSUME NEW b \in 0..3, NEW m \in Nat, m = 4 * n + b, NEW p, p = Place[b + 1]
        PROVE  CopiedByte(a, 0, m, heap) = (x \div p) % 256
    <3>1. PICK j \in Nat : j = m + 3 * 0 + 4
      OBVIOUS
    <3>2. j < 4 * Len(a) /\ j \div 4 = n + 1 /\ j % 4 = b
      <4>1. PICK q \in Nat : q = n + 1
        OBVIOUS
      <4>2. j = 4 * q + b
        BY <2>2, <3>1, <4>1
      <4>3. j \div 4 = q /\ j % 4 = b
        BY <4>2
      <4>4. j < 4 * Len(a)
        BY <4>1, <4>2
      <4>5. QED
        BY <4>1, <4>3, <4>4
    <3>3. (j \div 4) + 1 = n + 2
      BY <3>2
    <3>4. Byte(a, j, heap) = (x \div p) % 256
      BY <2>1, <2>2, <3>2, <3>3 DEF Byte
    <3>5. ~(m < 0)
      OBVIOUS
    <3>6. QED
      BY <3>1, <3>4, <3>5 DEF CopiedByte
  <2>c. CopiedByte(a, 0, 4 * n + 0, heap) = x
    <3>1. PICK m \in Nat, b \in 0..3 : m = 4 * n + b /\ b = 0
      OBVIOUS
    <3>2. PICK p : p = Place[b + 1]
      OBVIOUS
    <3>3. CopiedByte(a, 0, m, heap) = (x \div p) % 256
      BY <2>2, <3>1, <3>2
    <3>4. p = 1
      BY <3>1, <3>2, Places
    <3>5. (x \div 1) % 256 = x
      <4>1. x \div 1 = x /\ x % 256 = x
        BY <2>1
      <4>2. QED
        BY <4>1
    <3>6. QED
      BY <3>1, <3>3, <3>4, <3>5
  <2>d. CopiedByte(a, 0, 4 * n + 1, heap) = 0
    <3>1. PICK m \in Nat, b \in 0..3 : m = 4 * n + b /\ b = 1
      OBVIOUS
    <3>2. PICK p : p = Place[b + 1]
      OBVIOUS
    <3>3. CopiedByte(a, 0, m, heap) = (x \div p) % 256
      BY <2>2, <3>1, <3>2
    <3>4. p = 256
      BY <3>1, <3>2, Places
    <3>5. (x \div 256) % 256 = 0
      BY <2>1, BytesOfSmall
    <3>6. QED
      BY <3>1, <3>3, <3>4, <3>5
  <2>e. CopiedByte(a, 0, 4 * n + 2, heap) = 0
    <3>1. PICK m \in Nat, b \in 0..3 : m = 4 * n + b /\ b = 2
      OBVIOUS
    <3>2. PICK p : p = Place[b + 1]
      OBVIOUS
    <3>3. CopiedByte(a, 0, m, heap) = (x \div p) % 256
      BY <2>2, <3>1, <3>2
    <3>4. p = 65536
      BY <3>1, <3>2, Places
    <3>5. (x \div 65536) % 256 = 0
      BY <2>1, BytesOfSmall
    <3>6. QED
      BY <3>1, <3>3, <3>4, <3>5
  <2>f. CopiedByte(a, 0, 4 * n + 3, heap) = 0
    <3>1. PICK m \in Nat, b \in 0..3 : m = 4 * n + b /\ b = 3
      OBVIOUS
    <3>2. PICK p : p = Place[b + 1]
      OBVIOUS
    <3>3. CopiedByte(a, 0, m, heap) = (x \div p) % 256
      BY <2>2, <3>1, <3>2
    <3>4. p = 16777216
      BY <3>1, <3>2, Places
    <3>5. (x \div 16777216) % 256 = 0
      BY <2>1, BytesOfSmall
    <3>6. QED
      BY <3>1, <3>3, <3>4, <3>5
  <2>4. Word(a, 0, n, heap) = x * 1 + 0 * 256 + 0 * 65536 + 0 * 16777216
    <3>1. PICK one, two, three, four :
            /\ one = CopiedByte(a, 0, 4 * n + 0, heap) /\ two = CopiedByte(a, 0, 4 * n + 1, heap)
            /\ three = CopiedByte(a, 0, 4 * n + 2, heap) /\ four = CopiedByte(a, 0, 4 * n + 3, heap)
      OBVIOUS
    <3>2. Word(a, 0, n, heap) = one * Place[0 + 1] + two * Place[1 + 1] + three * Place[2 + 1] + four * Place[3 + 1]
      BY <3>1, Zenon DEF Word
    <3>3. /\ Place[0 + 1] = 1 /\ Place[1 + 1] = 256 /\ Place[2 + 1] = 65536 /\ Place[3 + 1] = 16777216
      BY Places, SMT
    <3>4. one = x /\ two = 0 /\ three = 0 /\ four = 0
      BY <2>c, <2>d, <2>e, <2>f, <3>1, SMT
    <3>5. QED
      BY <3>2, <3>3, <3>4, SMT
  <2>5. x \in Nat
    BY <2>1
  <2>6. Word(a, 0, n, heap) = x
    BY <2>4, <2>5, FirstByteAlone, SMT
  <2>7. QED
    BY <2>1, <2>6, SMT
<1>2. \A n \in 1..Len(a) - 1 : Word(a, 0, n - 1, heap) = a[n + 1]
  <2>1. ASSUME NEW n \in 1..Len(a) - 1 PROVE Word(a, 0, n - 1, heap) = a[n + 1]
    <3>1. n - 1 \in 0..Len(a) - 2 /\ (n - 1) + 2 = n + 1
      OBVIOUS
    <3>2. QED
      BY <1>1, <3>1
  <2>2. QED
    BY <2>1
<1>3. QED
  BY <1>2 DEF Shrunk

-----------------------------------------------------------------------------
LEMMA TailRemoves ==
  ASSUME NEW a \in Seq(Nat), IsInjective(a), Len(a) > 1,
         NEW t, t = [n \in 1..Len(a) - 1 |-> a[n + 1]]
  PROVE  IsInjective(t) /\ ToSet(t) = ToSet(a) \ {a[1]}
<1>1. DOMAIN a = 1..Len(a) /\ Len(a) \in Nat /\ 1 \in 1..Len(a)
  OBVIOUS
<1>2. DOMAIN t = 1..Len(a) - 1
  OBVIOUS
<1>3. \A n, m \in 1..Len(a) : a[n] = a[m] => n = m
  BY <1>1 DEF IsInjective
<1>4. \A n \in 1..Len(a) - 1 : t[n] = a[n + 1] /\ n + 1 \in 1..Len(a) /\ n + 1 # 1
  BY <1>1
<1>5. ASSUME NEW n \in 1..Len(a) - 1, NEW m \in 1..Len(a) - 1, t[n] = t[m] PROVE n = m
  <2>1. a[n + 1] = a[m + 1] /\ n + 1 \in 1..Len(a) /\ m + 1 \in 1..Len(a)
    BY <1>4, <1>5
  <2>2. n + 1 = m + 1
    BY <1>3, <2>1
  <2>3. QED
    BY <2>2
<1>6. IsInjective(t)
  BY <1>2, <1>5 DEF IsInjective
<1>7. ASSUME NEW y \in ToSet(t) PROVE y \in ToSet(a) /\ y # a[1]
  <2>1. PICK n \in 1..Len(a) - 1 : y = t[n]
    BY <1>2 DEF ToSet
  <2>2. y = a[n + 1] /\ n + 1 \in 1..Len(a) /\ n + 1 # 1
    BY <1>4, <2>1
  <2>3. QED
    BY <1>1, <1>3, <2>2 DEF ToSet
<1>8. ASSUME NEW y \in ToSet(a), y # a[1] PROVE y \in ToSet(t)
  <2>1. PICK m \in 1..Len(a) : y = a[m]
    BY <1>1 DEF ToSet
  <2>2. PICK n \in 1..Len(a) - 1 : m = n + 1
    <3>1. m # 1
      BY <1>8, <2>1
    <3>2. m - 1 \in 1..Len(a) - 1 /\ m = (m - 1) + 1
      BY <1>1, <3>1
    <3>3. QED
      BY <3>2
  <2>3. t[n] = y /\ n \in DOMAIN t
    BY <1>2, <1>4, <2>1, <2>2
  <2>4. QED
    BY <2>3 DEF ToSet
<1>9. QED
  BY <1>6, <1>7, <1>8

LEMMA Emptied == <<>> \in Seq(Nat) /\ IsInjective(<<>>) /\ ToSet(<<>>) = {}
BY DEF IsInjective, ToSet

LEMMA UnlinkKeepsOthers ==
  ASSUME NEW ch, Arrays(ch), NEW s \in Site, NEW o, NEW heap \in HeapByte
  PROVE  /\ Arrays(Unlink(ch, s, o, heap))
         /\ \A x \in Site : x # s => Unlink(ch, s, o, heap)[x] = ch[x]
<1>1. CASE o \notin CloseTo(ch, s)
  BY <1>1 DEF Unlink
<1>2. CASE o \in CloseTo(ch, s)
  <2>1. PICK a \in Seq(Nat) : a = ch[s] /\ o \in ToSet(a)
    BY <1>2 DEF CloseTo, Arrays
  <2>2. PICK t : t = IF Len(a) > 1 THEN Shrunk(a, IndexIn(a, o) - 1, heap) ELSE <<>>
    OBVIOUS
  <2>3. t \in Seq(Nat)
    <3>1. IndexIn(a, o) \in 1..Len(a)
      BY <2>1, FirstIndex
    <3>2. IndexIn(a, o) - 1 \in Nat
      BY <3>1
    <3>3. QED
      BY <2>2, <3>2, ShrunkIsArray, Emptied
  <2>4. Unlink(ch, s, o, heap) = [ch EXCEPT ![s] = t]
    BY <1>2, <2>1, <2>2 DEF Unlink
  <2>5. PICK new : new = Unlink(ch, s, o, heap)
    OBVIOUS
  <2>6. new = [x \in Site |-> IF x = s THEN t ELSE ch[x]]
    BY <2>4, <2>5 DEF Arrays
  <2>7. QED
    BY <2>3, <2>5, <2>6 DEF Arrays
<1>3. QED
  BY <1>1, <1>2

LEMMA UnlinkRemoves ==
  ASSUME NEW ch, Arrays(ch), Faithful(ch), NEW s \in Site, NEW o \in Site, NEW heap \in HeapByte,
         ~Misplaces(ch, s, o)
  PROVE  /\ Faithful(Unlink(ch, s, o, heap))
         /\ CloseTo(Unlink(ch, s, o, heap), s) = CloseTo(ch, s) \ {o}
<1>1. CASE o \notin CloseTo(ch, s)
  BY <1>1 DEF Unlink
<1>2. CASE o \in CloseTo(ch, s)
  <2>1. PICK a \in Seq(Nat) : a = ch[s] /\ o \in ToSet(a) /\ CloseTo(ch, s) = ToSet(a) /\ a # None
    BY <1>2 DEF CloseTo, Arrays
  <2>2. IsInjective(a) /\ ToSet(a) \subseteq Site \ {s}
    BY <2>1 DEF Faithful
  <2>3. PICK t : t = IF Len(a) > 1 THEN Shrunk(a, IndexIn(a, o) - 1, heap) ELSE <<>>
    OBVIOUS
  <2>4. DOMAIN a = 1..Len(a) /\ Len(a) \in Nat
    OBVIOUS
  <2>5. IndexIn(a, o) \in 1..Len(a) /\ a[IndexIn(a, o)] = o
    BY <2>1, FirstIndex
  <2>6. IsInjective(t) /\ ToSet(t) = ToSet(a) \ {o} /\ t # None
    <3>1. CASE Len(a) > 1
      <4>1. ~(IndexIn(a, o) > 1)
        BY <1>2, <2>1, <3>1 DEF Misplaces
      <4>2. IndexIn(a, o) = 1 /\ a[1] = o
        BY <2>4, <2>5, <4>1
      <4>3. t = Shrunk(a, 0, heap)
        BY <2>3, <3>1, <4>2
      <4>4. ASSUME NEW n \in 1..Len(a) PROVE a[n] < 256
        <5>1. a[n] \in Site
          BY <2>2, <2>4 DEF ToSet
        <5>2. QED
          BY <5>1, SitesAreWords
      <4>5. t = [n \in 1..Len(a) - 1 |-> a[n + 1]]
        BY <3>1, <4>3, <4>4, ShrunkIsTail
      <4>6. t \in Seq(Nat)
        BY <3>1, <4>3, ShrunkIsArray
      <4>7. t # None
        BY <4>6, HolderAssumption DEF HolderAssumption
      <4>8. QED
        BY <2>2, <3>1, <4>2, <4>5, <4>7, TailRemoves
    <3>2. CASE ~(Len(a) > 1)
      <4>1. Len(a) = 1 /\ a[1] = o
        BY <2>4, <2>5, <3>2
      <4>2. ToSet(a) = {o}
        BY <2>4, <4>1 DEF ToSet
      <4>3. t = <<>>
        BY <2>3, <3>2
      <4>4. t # None
        BY <4>3, Emptied, HolderAssumption DEF HolderAssumption
      <4>5. QED
        BY <4>2, <4>3, <4>4, Emptied
    <3>3. QED
      BY <3>1, <3>2
  <2>7. Unlink(ch, s, o, heap) = [ch EXCEPT ![s] = t]
    BY <1>2, <2>1, <2>3 DEF Unlink
  <2>8. PICK new : new = Unlink(ch, s, o, heap)
    OBVIOUS
  <2>9. new = [x \in Site |-> IF x = s THEN t ELSE ch[x]]
    BY <2>7, <2>8 DEF Arrays
  <2>10. CloseTo(new, s) = ToSet(a) \ {o} /\ new[s] = t
    BY <2>6, <2>9 DEF CloseTo
  <2>11. ASSUME NEW x \in Site
         PROVE  CloseTo(new, x) \subseteq Site \ {x} /\ (new[x] # None => IsInjective(new[x]))
    <3>1. CASE x = s
      BY <2>2, <2>6, <2>10, <3>1
    <3>2. CASE x # s
      <4>1. new[x] = ch[x]
        BY <2>9, <3>2
      <4>2. QED
        BY <4>1 DEF Faithful, CloseTo
    <3>3. QED
      BY <3>1, <3>2
  <2>12. QED
    BY <2>1, <2>8, <2>10, <2>11 DEF Faithful
<1>3. QED
  BY <1>1, <1>2

-----------------------------------------------------------------------------
(* Rebuilt: the fold over the close pairs, one pair after the other.       *)

LEMMA Induction ==
  ASSUME NEW T, T \subseteq Nat, 0 \in T, \A n \in T : n + 1 \in T
  PROVE  T = Nat
<1>1. SUFFICES ASSUME Nat \ T # {} PROVE FALSE
  OBVIOUS
<1>2. PICK x \in Nat \ T : \A y \in Nat \ T : x <= y
  BY <1>1, LeastNumber
<1>3. x # 0 /\ x - 1 \in Nat
  BY <1>2
<1>4. x - 1 \in T
  BY <1>2, <1>3
<1>5. x - 1 + 1 \in T
  BY <1>4
<1>6. QED
  BY <1>2, <1>3, <1>5

(* FoldLeft folds over the sets of indices, the last index first.          *)
Folds(f, I, ch, order) ==
  f = [s \in SUBSET I |-> IF s = {} THEN ch ELSE LinkBoth(f[s \ {Max(s)}], order[Max(s)])]

LEMMA MaxOf ==
  ASSUME NEW s, \A y \in s : y \in Nat, NEW x \in s, \A y \in s : x >= y
  PROVE  Max(s) = x
<1>1. Max(s) \in s /\ \A y \in s : Max(s) >= y
  BY DEF Max
<1>2. Max(s) \in Nat /\ x \in Nat /\ Max(s) >= x /\ x >= Max(s)
  BY <1>1
<1>3. QED
  BY <1>2

LEMMA FoldExists ==
  ASSUME NEW ch, NEW order, NEW N \in Nat
  PROVE  \E f : Folds(f, 1..N, ch, order)
<1> DEFINE T == {n \in Nat : \E f : Folds(f, 1..n, ch, order)}
<1>1. 0 \in T
  <2>1. Folds([s \in SUBSET (1..0) |-> ch], 1..0, ch, order)
    BY DEF Folds
  <2>2. QED
    BY <2>1
<1>2. ASSUME NEW n \in T PROVE n + 1 \in T
  <2>1. n \in Nat
    OBVIOUS
  <2>2. PICK f : Folds(f, 1..n, ch, order)
    BY <1>2
  <2> DEFINE g == [s \in SUBSET (1..(n + 1)) |->
                     IF n + 1 \in s THEN LinkBoth(f[s \ {n + 1}], order[n + 1]) ELSE f[s]]
  <2>3. ASSUME NEW s \in SUBSET (1..(n + 1))
        PROVE  g[s] = IF s = {} THEN ch ELSE LinkBoth(g[s \ {Max(s)}], order[Max(s)])
    <3>1. CASE n + 1 \in s
      <4>1. Max(s) = n + 1
        <5>1. \A y \in s : y \in Nat /\ n + 1 >= y
          BY <2>1
        <5>2. QED
          BY <3>1, <5>1, MaxOf
      <4>2. s \ {n + 1} \in SUBSET (1..n)
        BY <2>1
      <4>3. g[s \ {n + 1}] = f[s \ {n + 1}]
        BY <2>1, <4>2
      <4>4. QED
        BY <3>1, <4>1, <4>3
    <3>2. CASE n + 1 \notin s
      <4>1. s \in SUBSET (1..n)
        BY <2>1, <3>2
      <4>2. s # {} => s \ {Max(s)} \in SUBSET (1..(n + 1)) /\ s \ {Max(s)} \in SUBSET (1..n)
        BY <4>1
      <4>3. s # {} => g[s \ {Max(s)}] = f[s \ {Max(s)}]
        BY <3>2, <4>2
      <4>4. g[s] = f[s]
        BY <3>2
      <4>5. f[s] = IF s = {} THEN ch ELSE LinkBoth(f[s \ {Max(s)}], order[Max(s)])
        BY <2>2, <4>1 DEF Folds
      <4>6. QED
        BY <4>3, <4>4, <4>5
    <3>3. QED
      BY <3>1, <3>2
  <2>4. Folds(g, 1..(n + 1), ch, order)
    <3>1. g = [s \in SUBSET (1..(n + 1)) |-> g[s]]
      OBVIOUS
    <3> HIDE DEF g
    <3>2. QED
      BY <2>3, <3>1 DEF Folds
  <2>5. QED
    BY <2>1, <2>4
<1>3. T = Nat
  BY <1>1, <1>2, Induction
<1>4. QED
  BY <1>3

LEMMA FoldSteps ==
  ASSUME NEW ch, NEW order, NEW N \in Nat, NEW f, Folds(f, 1..N, ch, order)
  PROVE  /\ f[1..0] = ch
         /\ \A n \in 0..(N - 1) : f[1..(n + 1)] = LinkBoth(f[1..n], order[n + 1])
<1>1. f[1..0] = ch
  BY DEF Folds
<1>2. ASSUME NEW n \in 0..(N - 1) PROVE f[1..(n + 1)] = LinkBoth(f[1..n], order[n + 1])
  <2>1. 1..(n + 1) \in SUBSET (1..N) /\ n + 1 \in 1..(n + 1) /\ n + 1 \in Nat
    OBVIOUS
  <2>2. Max(1..(n + 1)) = n + 1
    <3>1. \A y \in 1..(n + 1) : y \in Nat /\ n + 1 >= y
      OBVIOUS
    <3>2. QED
      BY <2>1, <3>1, MaxOf
  <2>3. (1..(n + 1)) \ {n + 1} = 1..n
    OBVIOUS
  <2>4. f[1..(n + 1)] = LinkBoth(f[(1..(n + 1)) \ {Max(1..(n + 1))}], order[Max(1..(n + 1))])
    BY <2>1 DEF Folds
  <2>5. QED
    BY <2>2, <2>3, <2>4
<1>3. QED
  BY <1>1, <1>2

(* The sites that the pairs of P join to x.                                *)
Joined(P, x) == UNION {Other(k, x) : k \in P}

Extends(new, ch, P) ==
  /\ Arrays(new)
  /\ \A x \in Site : CloseTo(new, x) = CloseTo(ch, x) \cup Joined(P, x)
  /\ Faithful(ch) => Faithful(new)

LEMMA ExtendsByNothing ==
  ASSUME NEW ch, Arrays(ch)
  PROVE  Extends(ch, ch, {})
BY DEF Extends, Joined

LEMMA ExtendsByOne ==
  ASSUME NEW ch, NEW mid, NEW P, Extends(mid, ch, P), NEW k \in Key
  PROVE  Extends(LinkBoth(mid, k), ch, P \cup {k})
<1>1. PICK new : new = LinkBoth(mid, k)
  OBVIOUS
<1>2. /\ Arrays(new)
      /\ \A x \in Site : CloseTo(new, x) = CloseTo(mid, x) \cup Other(k, x)
      /\ Faithful(mid) => Faithful(new)
  BY <1>1, LinkBothAppends DEF Extends
<1>3. \A x : Joined(P \cup {k}, x) = Joined(P, x) \cup Other(k, x)
  BY DEF Joined
<1>4. \A x \in Site : CloseTo(new, x) = CloseTo(ch, x) \cup Joined(P \cup {k}, x)
  BY <1>2, <1>3 DEF Extends
<1>5. Faithful(ch) => Faithful(new)
  BY <1>2 DEF Extends
<1>6. QED
  BY <1>1, <1>2, <1>4, <1>5 DEF Extends

LEMMA KeysAreFinite == IsFiniteSet(Site) /\ IsFiniteSet(Key) /\ \A S \in SUBSET Key : Cardinality(S) \in Nat
<1>1. IsFiniteSet(1..255) /\ IsFiniteSet(Site)
  <2>1. 1 \in Int /\ 255 \in Int /\ \A m, n \in Int : IsFiniteSet(m..n)
    BY FS_Interval
  <2>2. IsFiniteSet(1..255)
    BY <2>1
  <2>3. Site \subseteq 1..255
    BY HolderAssumption DEF HolderAssumption
  <2>4. IsFiniteSet(Site)
    BY <2>2, <2>3, FS_Subset, Zenon
  <2>5. QED
    BY <2>2, <2>4
<1>2. IsFiniteSet(Site \X Site)
  BY <1>1, FS_Product
<1>3. Key \subseteq Site \X Site
  BY DEF Key
<1>4. IsFiniteSet(Key)
  BY <1>2, <1>3, FS_Subset
<1>5. ASSUME NEW S \in SUBSET Key PROVE Cardinality(S) \in Nat
  <2>1. IsFiniteSet(S)
    BY <1>4, FS_Subset
  <2>2. QED
    BY <2>1, FS_CardinalityType
<1>6. QED
  BY <1>1, <1>4, <1>5

LEMMA RebuiltUnfolds ==
  ASSUME NEW ch, NEW order
  PROVE  Rebuilt(ch, order) = (CHOOSE f : Folds(f, DOMAIN order, ch, order))[DOMAIN order]
BY DEF Rebuilt, FoldLeft, MapThenFoldSet, Folds

LEMMA RebuiltExtends ==
  ASSUME NEW ch, Arrays(ch), NEW S \in SUBSET Key, NEW order \in Orders(S)
  PROVE  Extends(Rebuilt(ch, order), ch, S)
<1>1. PICK N \in Nat : N = Cardinality(S)
  BY KeysAreFinite
<1>2. DOMAIN order = 1..N /\ (\A n \in 1..N : order[n] \in Key) /\ ToSet(order) = S
  BY <1>1 DEF Orders
<1>3. PICK f : f = CHOOSE g : Folds(g, 1..N, ch, order)
  OBVIOUS
<1>4. Folds(f, 1..N, ch, order)
  BY <1>3, FoldExists
<1>5. Rebuilt(ch, order) = f[1..N]
  BY <1>2, <1>3, RebuiltUnfolds
<1>6. /\ f[1..0] = ch
      /\ \A n \in 0..(N - 1) : f[1..(n + 1)] = LinkBoth(f[1..n], order[n + 1])
  BY <1>4, FoldSteps
<1> DEFINE Visited(n) == {order[j] : j \in 1..n}
           T == {n \in Nat : n <= N => Extends(f[1..n], ch, Visited(n))}
<1>7. 0 \in T
  <2>1. Visited(0) = {}
    OBVIOUS
  <2> HIDE DEF Visited
  <2>2. QED
    BY <1>6, <2>1, ExtendsByNothing
<1>8. ASSUME NEW n \in T PROVE n + 1 \in T
  <2>1. SUFFICES ASSUME n + 1 <= N PROVE Extends(f[1..(n + 1)], ch, Visited(n + 1))
    OBVIOUS
  <2>2. n \in Nat /\ n \in 0..(N - 1) /\ n + 1 \in 1..N
    BY <2>1
  <2>3. Visited(n + 1) = Visited(n) \cup {order[n + 1]}
    <3>1. 1..(n + 1) = (1..n) \cup {n + 1}
      BY <2>2
    <3>2. QED
      BY <3>1
  <2>4. Extends(f[1..n], ch, Visited(n))
    BY <2>2
  <2> HIDE DEF Visited
  <2>5. PICK mid, P : mid = f[1..n] /\ P = Visited(n)
    OBVIOUS
  <2>a. PICK k \in Key : k = order[n + 1]
    BY <1>2, <2>2
  <2>6. Extends(LinkBoth(mid, k), ch, P \cup {k})
    BY <2>4, <2>5, ExtendsByOne
  <2>7. QED
    BY <1>6, <2>2, <2>3, <2>5, <2>a, <2>6
<1>9. Visited(N) = S
  BY <1>2 DEF ToSet
<1> HIDE DEF Visited
<1>10. T \subseteq Nat
  OBVIOUS
<1>11. T = Nat
  <2> HIDE DEF T
  <2>1. QED
    BY <1>7, <1>8, <1>10, Induction
<1>12. Extends(f[1..N], ch, Visited(N))
  BY <1>11
<1>13. QED
  BY <1>5, <1>9, <1>12

-----------------------------------------------------------------------------
(* Pairs and arrays together.                                              *)

Held(rel) == rel \in [Key -> Distance \cup {None}]
Reversed(rel) == {k \in Key : k[1] > k[2] /\ rel[k] # None}
Near(rel, k) == rel[k] # None /\ rel[k] <= CloseThreshold
Mirror(rel, ch) ==
  Reversed(rel) = {} =>
    \A s, o \in Site :
      /\ o \in CloseTo(ch, s) => s \in CloseTo(ch, o) /\ rel[OrderedKey(s, o)] # None
      /\ s # o /\ Near(rel, OrderedKey(s, o)) => o \in CloseTo(ch, s)
Counted ==
  /\ deletable \in BOOLEAN /\ aborted \in BOOLEAN
  /\ destroys \in 0..MaxDestroys /\ loads \in 0..MaxLoads /\ builds \in 0..MaxBuilds
  /\ damage \subseteq {"memcpy", "load", "calculated"}

(* The inductive invariant.                                                *)
HolderInv ==
  /\ Held(relationships) /\ (file # None => Held(file)) /\ Counted
  /\ Arrays(closeSites)
  /\ "memcpy" \notin damage => Faithful(closeSites)
  /\ damage = {} => Mirror(relationships, closeSites)

LEMMA OrderedKeys ==
  ASSUME NEW s \in Site, NEW o \in Site, s # o
  PROVE  /\ OrderedKey(s, o) \in Key /\ OrderedKey(s, o) = OrderedKey(o, s)
         /\ ~(OrderedKey(s, o)[1] > OrderedKey(s, o)[2])
         /\ OrderedKey(s, o) \in {<<s, o>>, <<o, s>>}
         /\ <<s, o>> \in Key
<1>1. s \in Nat /\ o \in Nat
  BY SitesAreWords
<1>2. CASE s < o
  BY <1>1, <1>2 DEF OrderedKey, Key
<1>3. CASE o < s
  BY <1>1, <1>3 DEF OrderedKey, Key
<1>4. QED
  BY <1>1, <1>2, <1>3

LEMMA SameKey ==
  ASSUME NEW s \in Site, NEW o \in Site, NEW x \in Site, NEW y \in Site, s # o, x # y,
         OrderedKey(x, y) = OrderedKey(s, o)
  PROVE  (x = s /\ y = o) \/ (x = o /\ y = s)
<1>1. OrderedKey(x, y) \in {<<x, y>>, <<y, x>>} /\ OrderedKey(s, o) \in {<<s, o>>, <<o, s>>}
  BY OrderedKeys
<1>2. QED
  BY <1>1

LEMMA OthersAreMutual ==
  ASSUME NEW k \in Key, NEW x \in Site, NEW y \in Other(k, x)
  PROVE  y \in Site /\ x # y /\ x \in Other(k, y) /\ (k = <<x, y>> \/ k = <<y, x>>)
BY DEF Other, Key

LEMMA EndsAreOthers ==
  ASSUME NEW s \in Site, NEW o \in Site, s # o
  PROVE  o \in Other(<<s, o>>, s) /\ s \in Other(<<s, o>>, o)
         /\ o \in Other(OrderedKey(s, o), s)
<1>1. OrderedKey(s, o) \in {<<s, o>>, <<o, s>>}
  BY OrderedKeys
<1>2. QED
  BY <1>1 DEF Other

LEMMA NoneIsNoDistance == None \notin Distance /\ None \notin Seq(Nat)
BY HolderAssumption DEF HolderAssumption

LEMMA StoreMirrors ==
  ASSUME NEW rel, Held(rel), NEW ch, Arrays(ch), Faithful(ch), Mirror(rel, ch),
         NEW s \in Site, NEW o \in Site, s # o, NEW d \in Distance
  PROVE  Mirror([rel EXCEPT ![OrderedKey(s, o)] = d], LinkBoth(ch, <<s, o>>))
<1>1. PICK k \in Key : k = OrderedKey(s, o)
  BY OrderedKeys
<1>2. PICK new : new = [rel EXCEPT ![k] = d]
  OBVIOUS
<1>3. PICK p \in Key : p = <<s, o>>
  BY OrderedKeys
<1>4. PICK both : both = LinkBoth(ch, p)
  OBVIOUS
<1>5. \A x \in Site : CloseTo(both, x) = CloseTo(ch, x) \cup Other(p, x)
  BY <1>4, LinkBothAppends
<1>6. new[k] = d /\ \A j \in Key : j # k => new[j] = rel[j]
  BY <1>2 DEF Held
<1>7. d # None
  BY NoneIsNoDistance
<1>8. ASSUME Reversed(new) = {}, NEW x \in Site, NEW y \in Site
      PROVE  /\ y \in CloseTo(both, x) => x \in CloseTo(both, y) /\ new[OrderedKey(x, y)] # None
             /\ x # y /\ Near(new, OrderedKey(x, y)) => y \in CloseTo(both, x)
  <2>1. Reversed(rel) = {}
    <3>1. ~(k[1] > k[2])
      BY <1>1, OrderedKeys
    <3>2. Reversed(rel) \subseteq Reversed(new)
      BY <1>6, <3>1 DEF Reversed
    <3>3. QED
      BY <1>8, <3>2
  <2>2. /\ y \in CloseTo(ch, x) => x \in CloseTo(ch, y) /\ rel[OrderedKey(x, y)] # None
        /\ x # y /\ Near(rel, OrderedKey(x, y)) => y \in CloseTo(ch, x)
    BY <2>1 DEF Mirror
  <2>3. ASSUME y \in CloseTo(ch, x)
        PROVE  x \in CloseTo(both, y) /\ new[OrderedKey(x, y)] # None
    <3>1. x # y
      BY <2>3 DEF Faithful
    <3>2. OrderedKey(x, y) \in Key
      BY <3>1, OrderedKeys
    <3>3. QED
      BY <1>5, <1>6, <1>7, <2>2, <2>3, <3>2
  <2>4. ASSUME y \in Other(p, x)
        PROVE  x \in CloseTo(both, y) /\ new[OrderedKey(x, y)] # None
    <3>1. x \in Other(p, y) /\ (p = <<x, y>> \/ p = <<y, x>>)
      BY <2>4, OthersAreMutual
    <3>2. (x = s /\ y = o) \/ (x = o /\ y = s)
      BY <1>3, <3>1
    <3>3. OrderedKey(x, y) = k
      BY <1>1, <3>2, OrderedKeys
    <3>4. QED
      BY <1>5, <1>6, <1>7, <3>1, <3>3
  <2>5. ASSUME x # y, Near(new, OrderedKey(x, y)) PROVE y \in CloseTo(both, x)
    <3>1. CASE OrderedKey(x, y) = k
      <4>1. (x = s /\ y = o) \/ (x = o /\ y = s)
        BY <1>1, <2>5, <3>1, SameKey
      <4>2. y \in Other(p, x)
        BY <1>3, <4>1, EndsAreOthers
      <4>3. QED
        BY <1>5, <4>2
    <3>2. CASE OrderedKey(x, y) # k
      <4>1. OrderedKey(x, y) \in Key
        BY <2>5, OrderedKeys
      <4>2. Near(rel, OrderedKey(x, y))
        BY <1>6, <2>5, <3>2, <4>1 DEF Near
      <4>3. QED
        BY <1>5, <2>2, <2>5, <4>2
    <3>3. QED
      BY <3>1, <3>2
  <2>6. QED
    BY <1>5, <2>3, <2>4, <2>5
<1>9. Mirror(new, both)
  BY <1>8 DEF Mirror
<1>10. QED
  BY <1>1, <1>2, <1>3, <1>4, <1>9

Erased(ch, new, s, o) ==
  /\ CloseTo(new, s) = CloseTo(ch, s) \ {o}
  /\ CloseTo(new, o) = CloseTo(ch, o) \ {s}
  /\ \A x \in Site : x # s /\ x # o => CloseTo(new, x) = CloseTo(ch, x)

LEMMA DestroyMirrors ==
  ASSUME NEW rel, Held(rel), NEW ch, Faithful(ch), Mirror(rel, ch), NEW new,
         NEW s \in Site, NEW o \in Site, s # o, Erased(ch, new, s, o)
  PROVE  Mirror([rel EXCEPT ![OrderedKey(s, o)] = None], new)
<1>1. PICK k \in Key : k = OrderedKey(s, o)
  BY OrderedKeys
<1>2. PICK left : left = [rel EXCEPT ![k] = None]
  OBVIOUS
<1>3. left[k] = None /\ \A j \in Key : j # k => left[j] = rel[j]
  BY <1>2 DEF Held
<1>4. ASSUME NEW x \in Site, NEW y \in Site
      PROVE  y \in CloseTo(new, x) <=> y \in CloseTo(ch, x) /\ ~(x = s /\ y = o) /\ ~(x = o /\ y = s)
  BY DEF Erased
<1>5. ASSUME Reversed(left) = {}, NEW x \in Site, NEW y \in Site
      PROVE  /\ y \in CloseTo(new, x) => x \in CloseTo(new, y) /\ left[OrderedKey(x, y)] # None
             /\ x # y /\ Near(left, OrderedKey(x, y)) => y \in CloseTo(new, x)
  <2>1. Reversed(rel) = {}
    <3>1. ~(k[1] > k[2])
      BY <1>1, OrderedKeys
    <3>2. Reversed(rel) \subseteq Reversed(left)
      BY <1>3, <3>1 DEF Reversed
    <3>3. QED
      BY <1>5, <3>2
  <2>2. /\ y \in CloseTo(ch, x) => x \in CloseTo(ch, y) /\ rel[OrderedKey(x, y)] # None
        /\ x # y /\ Near(rel, OrderedKey(x, y)) => y \in CloseTo(ch, x)
    BY <2>1 DEF Mirror
  <2>3. ASSUME y \in CloseTo(new, x)
        PROVE  x \in CloseTo(new, y) /\ left[OrderedKey(x, y)] # None
    <3>1. y \in CloseTo(ch, x) /\ ~(x = s /\ y = o) /\ ~(x = o /\ y = s)
      BY <1>4, <2>3
    <3>2. x # y
      BY <3>1 DEF Faithful
    <3>3. OrderedKey(x, y) \in Key
      BY <3>2, OrderedKeys
    <3>4. ASSUME OrderedKey(x, y) = OrderedKey(s, o) PROVE FALSE
      <4>1. (x = s /\ y = o) \/ (x = o /\ y = s)
        BY <3>2, <3>4, SameKey
      <4>2. QED
        BY <3>1, <4>1
    <3>5. OrderedKey(x, y) # k
      BY <1>1, <3>4
    <3>6. QED
      BY <1>3, <1>4, <2>2, <3>1, <3>3, <3>5
  <2>4. ASSUME x # y, Near(left, OrderedKey(x, y)) PROVE y \in CloseTo(new, x)
    <3>1. OrderedKey(x, y) # k
      BY <1>3, <2>4 DEF Near
    <3>2. OrderedKey(x, y) \in Key /\ ~(x = s /\ y = o) /\ ~(x = o /\ y = s)
      BY <1>1, <2>4, <3>1, OrderedKeys
    <3>3. Near(rel, OrderedKey(x, y))
      BY <1>3, <2>4, <3>1, <3>2 DEF Near
    <3>4. QED
      BY <1>4, <2>2, <2>4, <3>2, <3>3
  <2>5. QED
    BY <2>3, <2>4
<1>6. Mirror(left, new)
  BY <1>5 DEF Mirror
<1>7. QED
  BY <1>1, <1>2, <1>6

Bare(ch) == \A s \in Site : CloseTo(ch, s) = {}

LEMMA BareIsFaithful ==
  ASSUME NEW ch, Arrays(ch), Bare(ch)
  PROVE  Faithful(ch)
<1>1. ASSUME NEW s \in Site, ch[s] # None PROVE IsInjective(ch[s])
  <2>1. PICK a \in Seq(Nat) : a = ch[s] /\ ToSet(a) = {}
    BY <1>1 DEF Arrays, Bare, CloseTo
  <2>2. IsInjective(a)
    BY <2>1 DEF ToSet, IsInjective
  <2>3. QED
    BY <2>1, <2>2
<1>2. QED
  BY <1>1 DEF Bare, Faithful

LEMMA NoneIsBare == Arrays(NoCloseSites) /\ Bare(NoCloseSites) /\ Faithful(NoCloseSites)
<1>1. Arrays(NoCloseSites) /\ Bare(NoCloseSites)
  BY DEF Arrays, Bare, CloseTo, NoCloseSites
<1>2. QED
  BY <1>1, BareIsFaithful

LEMMA ClosePairsAreKeys == \A rel : ClosePairs(rel) \in SUBSET Key
BY DEF ClosePairs

LEMMA RebuiltMirrors ==
  ASSUME NEW rel, NEW ch, Bare(ch), NEW new, Extends(new, ch, ClosePairs(rel))
  PROVE  Mirror(rel, new)
<1>1. ASSUME Reversed(rel) = {}, NEW x \in Site, NEW y \in Site
      PROVE  /\ y \in CloseTo(new, x) => x \in CloseTo(new, y) /\ rel[OrderedKey(x, y)] # None
             /\ x # y /\ Near(rel, OrderedKey(x, y)) => y \in CloseTo(new, x)
  <2>1. \A z \in Site : CloseTo(new, z) = Joined(ClosePairs(rel), z)
    BY DEF Extends, Bare
  <2>2. ASSUME y \in CloseTo(new, x)
        PROVE  x \in CloseTo(new, y) /\ rel[OrderedKey(x, y)] # None
    <3>1. PICK k \in ClosePairs(rel) : y \in Other(k, x)
      BY <2>1, <2>2 DEF Joined
    <3>2. k \in Key /\ rel[k] # None
      BY <3>1 DEF ClosePairs
    <3>3. x # y /\ x \in Other(k, y) /\ (k = <<x, y>> \/ k = <<y, x>>)
      BY <3>1, <3>2, OthersAreMutual
    <3>4. x \in CloseTo(new, y)
      BY <2>1, <3>1, <3>3 DEF Joined
    <3>5. k = OrderedKey(x, y)
      <4>1. ~(k[1] > k[2])
        BY <1>1, <3>2 DEF Reversed
      <4>2. x \in Nat /\ y \in Nat
        BY SitesAreWords
      <4>3. QED
        BY <3>3, <4>1, <4>2 DEF OrderedKey
    <3>6. QED
      BY <3>2, <3>4, <3>5
  <2>3. ASSUME x # y, Near(rel, OrderedKey(x, y)) PROVE y \in CloseTo(new, x)
    <3>1. OrderedKey(x, y) \in ClosePairs(rel)
      BY <2>3, OrderedKeys DEF ClosePairs, Near
    <3>2. y \in Other(OrderedKey(x, y), x)
      BY <2>3, EndsAreOthers
    <3>3. QED
      BY <2>1, <3>1, <3>2 DEF Joined
  <2>4. QED
    BY <2>2, <2>3
<1>2. QED
  BY <1>1 DEF Mirror

-----------------------------------------------------------------------------
(* Every operation keeps the invariant.                                    *)

LEMMA LimitsAreNat == MaxDestroys \in Nat /\ MaxLoads \in Nat /\ MaxBuilds \in Nat
BY HolderAssumption DEF HolderAssumption

LEMMA MirrorHolds == HolderInv => CloseSitesMirror
<1> SUFFICES ASSUME HolderInv PROVE CloseSitesMirror
  OBVIOUS
<1>1. TypeOK
  <2>1. \A s \in Site : closeSites[s] # None => closeSites[s] \in Seq(Nat)
    BY DEF HolderInv, Arrays
  <2>2. "memcpy" \notin damage => \A s \in Site : CloseTo(closeSites, s) \subseteq Site \ {s}
    BY DEF HolderInv, Faithful
  <2>3. QED
    BY <2>1, <2>2 DEF HolderInv, Held, Counted, TypeOK
<1>2. "memcpy" \notin damage => \A s \in Site : closeSites[s] # None => IsInjective(closeSites[s])
  BY DEF HolderInv, Faithful
<1>3. ASSUME damage = {}, ReversedKeys = {}, NEW s \in Site, NEW o \in Site
      PROVE  /\ o \in CloseTo(closeSites, s) =>
                  /\ s \in CloseTo(closeSites, o)
                  /\ relationships[OrderedKey(s, o)] # None
             /\ s # o /\ distance_between(s, o) <= CloseThreshold => o \in CloseTo(closeSites, s)
  <2>1. Mirror(relationships, closeSites)
    BY <1>3 DEF HolderInv
  <2>2. Reversed(relationships) = {}
    BY <1>3 DEF Reversed, ReversedKeys
  <2>3. distance_between(s, o) <= CloseThreshold => Near(relationships, OrderedKey(s, o))
    <3>1. ~(255 <= CloseThreshold)
      BY HolderAssumption DEF HolderAssumption
    <3>2. QED
      BY <3>1 DEF distance_between, Near
  <2>4. QED
    BY <2>1, <2>2, <2>3 DEF Mirror
<1>4. QED
  BY <1>1, <1>2, <1>3 DEF CloseSitesMirror

LEMMA InitHolderInv == Init => HolderInv
<1> SUFFICES ASSUME Init PROVE HolderInv
  OBVIOUS
<1>1. Held(relationships) /\ file = None
  BY DEF Init, Held, NoRelationships
<1>2. Counted
  <2>1. 0 \in 0..MaxDestroys /\ 0 \in 0..MaxLoads /\ 0 \in 0..MaxBuilds
    BY LimitsAreNat
  <2>2. QED
    BY <2>1 DEF Init, Counted
<1>3. Arrays(closeSites) /\ Faithful(closeSites) /\ Bare(closeSites)
  BY NoneIsBare DEF Init
<1>4. Mirror(relationships, closeSites)
  <2>1. \A s, o \in Site : s # o => ~Near(relationships, OrderedKey(s, o))
    BY OrderedKeys DEF Init, NoRelationships, Near
  <2>2. QED
    BY <1>3, <2>1 DEF Bare, Mirror
<1>5. QED
  BY <1>1, <1>2, <1>3, <1>4 DEF HolderInv

LEMMA StoreKeepsInv ==
  ASSUME HolderInv, NEW s \in Site, NEW o \in Site, NEW d \in Distance, s # o, store(s, o, d)
  PROVE  HolderInv'
<1>1. Held(relationships')
  <2>1. OrderedKey(s, o) \in Key
    BY OrderedKeys
  <2>2. QED
    BY <2>1 DEF HolderInv, Held, store
<1>2. Counted' /\ (file' # None => Held(file'))
  BY DEF HolderInv, Counted, store, bounds
<1>3. <<s, o>> \in Key /\ closeSites' = LinkBoth(closeSites, <<s, o>>)
  BY OrderedKeys DEF store
<1>4. Arrays(closeSites') /\ (Faithful(closeSites) => Faithful(closeSites'))
  BY <1>3, LinkBothAppends DEF HolderInv
<1>5. damage' = damage /\ relationships' = [relationships EXCEPT ![OrderedKey(s, o)] = d]
  BY DEF store
<1>6. ASSUME damage = {} PROVE Mirror(relationships', closeSites')
  <2>1. Faithful(closeSites) /\ Mirror(relationships, closeSites) /\ Arrays(closeSites)
        /\ Held(relationships)
    BY <1>6 DEF HolderInv
  <2>2. Mirror([relationships EXCEPT ![OrderedKey(s, o)] = d], LinkBoth(closeSites, <<s, o>>))
    BY <2>1, StoreMirrors
  <2>3. QED
    BY <1>3, <1>5, <2>2
<1>7. QED
  BY <1>1, <1>2, <1>4, <1>5, <1>6 DEF HolderInv, Held, Arrays, Faithful, Mirror, CloseTo, Reversed, Near

LEMMA UnlinkBothRemoves ==
  ASSUME NEW ch, Arrays(ch), Faithful(ch), NEW s \in Site, NEW o \in Site, s # o,
         NEW h1 \in HeapByte, NEW h2 \in HeapByte,
         ~Misplaces(ch, s, o), ~Misplaces(ch, o, s),
         NEW new, new = Unlink(Unlink(ch, s, o, h1), o, s, h2)
  PROVE  Faithful(new) /\ Erased(ch, new, s, o)
<1>1. PICK one : one = Unlink(ch, s, o, h1)
  OBVIOUS
<1>2. /\ Arrays(one) /\ Faithful(one) /\ CloseTo(one, s) = CloseTo(ch, s) \ {o}
      /\ \A x \in Site : x # s => one[x] = ch[x]
  BY <1>1, UnlinkKeepsOthers, UnlinkRemoves
<1>3. one[o] = ch[o] /\ CloseTo(one, o) = CloseTo(ch, o)
  BY <1>2 DEF CloseTo
<1>4. ~Misplaces(one, o, s)
  BY <1>3 DEF Misplaces
<1>5. new = Unlink(one, o, s, h2)
  BY <1>1
<1>6. /\ Faithful(new) /\ CloseTo(new, o) = CloseTo(one, o) \ {s}
      /\ \A x \in Site : x # o => new[x] = one[x]
  BY <1>2, <1>4, <1>5, UnlinkKeepsOthers, UnlinkRemoves
<1>7. CloseTo(new, s) = CloseTo(one, s)
  BY <1>6 DEF CloseTo
<1>8. \A x \in Site : x # s /\ x # o => CloseTo(new, x) = CloseTo(ch, x)
  BY <1>2, <1>6 DEF CloseTo
<1>9. QED
  BY <1>2, <1>3, <1>6, <1>7, <1>8 DEF Erased

LEMMA DestroyKeepsInv ==
  ASSUME HolderInv, NEW s \in Site, NEW o \in Site, s # o, destroy(s, o)
  PROVE  HolderInv'
<1>1. OrderedKey(s, o) \in Key
  BY OrderedKeys
<1>2. /\ relationships' = relationships \/ relationships' = [relationships EXCEPT ![OrderedKey(s, o)] = None]
      /\ file' = file
  BY DEF destroy
<1>3. Held(relationships') /\ (file' # None => Held(file'))
  BY <1>1, <1>2 DEF HolderInv, Held
<1>4. Counted'
  <2>1. aborted' \in BOOLEAN
    BY Zenon DEF destroy
  <2>2. destroys' \in 0..MaxDestroys
    <3>1. destroys \in 0..MaxDestroys /\ destroys < MaxDestroys /\ destroys' = destroys + 1
      BY DEF HolderInv, Counted, destroy
    <3>2. QED
      BY <3>1, LimitsAreNat
  <2>3. damage' \subseteq {"memcpy", "load", "calculated"}
    BY DEF HolderInv, Counted, destroy
  <2>4. deletable' \in BOOLEAN /\ loads' \in 0..MaxLoads /\ builds' \in 0..MaxBuilds
    BY DEF HolderInv, Counted, destroy
  <2>5. QED
    BY <2>1, <2>2, <2>3, <2>4 DEF Counted
<1>5. CASE relationships[OrderedKey(s, o)] # None /\ deletable
  <2>1. PICK h1 \in HeapByte, h2 \in HeapByte :
          closeSites' = Unlink(Unlink(closeSites, s, o, h1), o, s, h2)
    BY <1>5 DEF destroy
  <2>2. /\ relationships' = [relationships EXCEPT ![OrderedKey(s, o)] = None]
        /\ damage' = IF Misplaces(closeSites, s, o) \/ Misplaces(closeSites, o, s)
                     THEN damage \cup {"memcpy"} ELSE damage
    BY <1>5 DEF destroy
  <2>3. PICK new : new = Unlink(Unlink(closeSites, s, o, h1), o, s, h2)
    OBVIOUS
  <2>4. closeSites' = new
    BY <2>1, <2>3
  <2>5. Arrays(new)
    <3>1. PICK one : one = Unlink(closeSites, s, o, h1)
      OBVIOUS
    <3>2. Arrays(one)
      BY <3>1, UnlinkKeepsOthers DEF HolderInv
    <3>3. new = Unlink(one, o, s, h2)
      BY <2>3, <3>1
    <3>4. QED
      BY <3>2, <3>3, UnlinkKeepsOthers
  <2>6. ASSUME "memcpy" \notin damage'
        PROVE  damage' = damage /\ Faithful(closeSites) /\ Faithful(new) /\ Erased(closeSites, new, s, o)
    <3>1. damage' = damage /\ ~Misplaces(closeSites, s, o) /\ ~Misplaces(closeSites, o, s)
      BY <2>2, <2>6
    <3>2. Arrays(closeSites) /\ Faithful(closeSites)
      BY <2>6, <3>1 DEF HolderInv
    <3>3. QED
      BY <2>3, <3>1, <3>2, UnlinkBothRemoves
  <2>7. ASSUME damage' = {} PROVE Mirror(relationships', new)
    <3>1. damage = {} /\ Faithful(closeSites) /\ Erased(closeSites, new, s, o)
      BY <2>6, <2>7
    <3>2. Mirror(relationships, closeSites) /\ Held(relationships)
      BY <3>1 DEF HolderInv
    <3>3. Mirror([relationships EXCEPT ![OrderedKey(s, o)] = None], new)
      BY <3>1, <3>2, DestroyMirrors
    <3>4. QED
      BY <2>2, <3>3
  <2>8. Arrays(closeSites') /\ ("memcpy" \notin damage' => Faithful(closeSites'))
        /\ (damage' = {} => Mirror(relationships', closeSites'))
    BY <2>4, <2>5, <2>6, <2>7
  <2>9. QED
    BY <1>3, <1>4, <2>8 DEF HolderInv, Held, Arrays, Faithful, Mirror, CloseTo, Reversed, Near
<1>6. CASE ~(relationships[OrderedKey(s, o)] # None /\ deletable)
  <2>1. relationships' = relationships /\ closeSites' = closeSites /\ damage' = damage
    BY <1>6 DEF destroy
  <2>2. QED
    BY <1>3, <1>4, <2>1 DEF HolderInv, Held, Arrays, Faithful, Mirror, CloseTo, Reversed, Near
<1>7. QED
  BY <1>5, <1>6

LEMMA PersistKeepsInv == HolderInv /\ persist => HolderInv'
<1> SUFFICES ASSUME HolderInv, persist PROVE HolderInv'
  OBVIOUS
<1>1. /\ file' = relationships /\ relationships' = relationships /\ closeSites' = closeSites
      /\ damage' = damage
  BY DEF persist, tables
<1>2. Counted'
  BY DEF HolderInv, Counted, persist, bounds
<1>3. QED
  BY <1>1, <1>2 DEF HolderInv, Held, Arrays, Faithful, Mirror, CloseTo, Reversed, Near

LEMMA LoadKeepsInv == HolderInv /\ load => HolderInv'
<1> SUFFICES ASSUME HolderInv, load PROVE HolderInv'
  OBVIOUS
<1>1. file' = file /\ relationships' = file /\ Held(file)
  BY DEF HolderInv, load
<1>2. PICK rel : rel = file
  OBVIOUS
<1>3. PICK order \in Orders(ClosePairs(rel)) : closeSites' = Rebuilt(closeSites, order)
  BY <1>2 DEF load
<1>4. PICK ch : ch = closeSites
  OBVIOUS
<1>5. PICK new : new = Rebuilt(ch, order)
  OBVIOUS
<1>6. Arrays(ch)
  BY <1>4 DEF HolderInv
<1>7. PICK S \in SUBSET Key : S = ClosePairs(rel)
  BY ClosePairsAreKeys
<1>8. Extends(new, ch, S)
  BY <1>3, <1>5, <1>6, <1>7, RebuiltExtends
<1>9. damage' = IF Bare(ch) THEN {} ELSE damage \cup {"load"}
  BY <1>4 DEF load, Bare
<1>10. Arrays(new)
  BY <1>8 DEF Extends
<1>11. ASSUME "memcpy" \notin damage' PROVE Faithful(new)
  <2>1. CASE Bare(ch)
    BY <1>6, <1>8, <2>1, BareIsFaithful DEF Extends
  <2>2. CASE ~Bare(ch)
    <3>1. "memcpy" \notin damage
      BY <1>9, <1>11, <2>2
    <3>2. Faithful(ch)
      BY <1>4, <3>1 DEF HolderInv
    <3>3. QED
      BY <1>8, <3>2 DEF Extends
  <2>3. QED
    BY <2>1, <2>2
<1>12. ASSUME damage' = {} PROVE Mirror(rel, new)
  <2>1. Bare(ch)
    BY <1>9, <1>12
  <2>2. QED
    BY <1>7, <1>8, <2>1, RebuiltMirrors
<1>13. Counted'
  <2>1. loads \in 0..MaxLoads /\ loads < MaxLoads /\ loads' = loads + 1
    BY DEF HolderInv, Counted, load
  <2>2. loads' \in 0..MaxLoads
    BY <2>1, LimitsAreNat
  <2>3. damage' \subseteq {"memcpy", "load", "calculated"}
    BY <1>9 DEF HolderInv, Counted
  <2>4. QED
    BY <2>2, <2>3 DEF HolderInv, Counted, load
<1>14. closeSites' = new /\ relationships' = rel
  BY <1>1, <1>2, <1>3, <1>4, <1>5
<1>15. Held(relationships') /\ (file' # None => Held(file'))
  BY <1>1
<1>16. Arrays(closeSites') /\ ("memcpy" \notin damage' => Faithful(closeSites'))
       /\ (damage' = {} => Mirror(relationships', closeSites'))
  BY <1>10, <1>11, <1>12, <1>14
<1>17. QED
  BY <1>13, <1>15, <1>16 DEF HolderInv, Held, Arrays, Faithful, Mirror, CloseTo, Reversed, Near

LEMMA RotateKeepsInv == HolderInv /\ rotate => HolderInv'
<1> SUFFICES ASSUME HolderInv, rotate PROVE HolderInv'
  OBVIOUS
<1>1. PICK rel : rel = IF file = None THEN NoRelationships ELSE file
  OBVIOUS
<1>2. file' = file /\ relationships' = rel
  BY <1>1 DEF rotate
<1>3. Held(rel)
  BY <1>1 DEF HolderInv, Held, NoRelationships
<1>4. PICK order \in Orders(ClosePairs(rel)) : closeSites' = Rebuilt(NoCloseSites, order)
  BY <1>1 DEF rotate
<1>5. PICK ch : ch = NoCloseSites
  OBVIOUS
<1>6. PICK new : new = Rebuilt(ch, order)
  OBVIOUS
<1>7. Arrays(ch) /\ Bare(ch) /\ Faithful(ch)
  BY <1>5, NoneIsBare
<1>8. PICK S \in SUBSET Key : S = ClosePairs(rel)
  BY ClosePairsAreKeys
<1>9. Extends(new, ch, S)
  BY <1>4, <1>6, <1>7, <1>8, RebuiltExtends
<1>10. Arrays(new) /\ Faithful(new)
  BY <1>7, <1>9 DEF Extends
<1>11. Mirror(rel, new)
  BY <1>7, <1>8, <1>9, RebuiltMirrors
<1>12. Counted'
  <2>1. loads \in 0..MaxLoads /\ loads < MaxLoads /\ loads' = loads + 1
    BY DEF HolderInv, Counted, rotate
  <2>2. loads' \in 0..MaxLoads
    BY <2>1, LimitsAreNat
  <2>3. QED
    BY <2>2 DEF HolderInv, Counted, rotate
<1>13. closeSites' = new
  BY <1>4, <1>5, <1>6
<1>14. Held(relationships') /\ (file' # None => Held(file'))
  BY <1>2, <1>3 DEF HolderInv
<1>15. Arrays(closeSites') /\ Faithful(closeSites') /\ Mirror(relationships', closeSites')
  BY <1>2, <1>10, <1>11, <1>13
<1>16. QED
  BY <1>12, <1>14, <1>15 DEF HolderInv, Held, Arrays, Faithful, Mirror, CloseTo, Reversed, Near

LEMMA ClearKeepsInv == HolderInv /\ clear => HolderInv'
<1> SUFFICES ASSUME HolderInv, clear PROVE HolderInv'
  OBVIOUS
<1>1. /\ relationships' = NoRelationships /\ closeSites' = NoCloseSites /\ damage' = {}
      /\ file' = file
  BY DEF clear
<1>2. Arrays(closeSites') /\ Bare(closeSites') /\ Faithful(closeSites')
  BY <1>1, NoneIsBare
<1>3. Held(relationships')
  BY <1>1 DEF Held, NoRelationships
<1>4. Mirror(relationships', closeSites')
  <2>1. \A s, o \in Site : s # o => ~Near(relationships', OrderedKey(s, o))
    BY <1>1, OrderedKeys DEF NoRelationships, Near
  <2>2. QED
    BY <1>2, <2>1 DEF Bare, Mirror
<1>5. Counted' /\ (file' # None => Held(file'))
  BY <1>1 DEF HolderInv, Counted, clear, bounds
<1>6. QED
  BY <1>2, <1>3, <1>4, <1>5 DEF HolderInv, Held, Arrays, Faithful, Mirror, CloseTo, Reversed, Near

LEMMA CalculateKeepsInv ==
  ASSUME HolderInv, NEW x \in Site, NEW y \in Site, x # y, calculate_one_distance(x, y)
  PROVE  HolderInv'
<1>1. PICK d \in Distance : relationships' = [relationships EXCEPT ![<<x, y>>] = d]
  BY DEF calculate_one_distance
<1>2. Held(relationships')
  BY <1>1 DEF HolderInv, Held
<1>3. closeSites' = closeSites /\ file' = file /\ damage' = damage \cup {"calculated"}
  BY DEF calculate_one_distance
<1>4. Counted'
  <2>1. builds \in 0..MaxBuilds /\ builds < MaxBuilds /\ builds' = builds + 1
    BY DEF HolderInv, Counted, calculate_one_distance
  <2>2. builds' \in 0..MaxBuilds
    BY <2>1, LimitsAreNat
  <2>3. QED
    BY <1>3, <2>2 DEF HolderInv, Counted, calculate_one_distance
<1>5. Arrays(closeSites') /\ ("memcpy" \notin damage' => Faithful(closeSites')) /\ damage' # {}
  BY <1>3 DEF HolderInv
<1>6. QED
  BY <1>2, <1>3, <1>4, <1>5 DEF HolderInv, Held, Arrays, Faithful, Mirror, CloseTo, Reversed, Near

LEMMA NextHolderInv == HolderInv /\ [Next]_vars => HolderInv'
<1> SUFFICES ASSUME HolderInv, [Next]_vars PROVE HolderInv'
  OBVIOUS
<1>1. ASSUME NEW s \in Site, NEW o \in Site, NEW d \in Distance, s # o, store(s, o, d) PROVE HolderInv'
  BY <1>1, StoreKeepsInv
<1>2. ASSUME NEW s \in Site, NEW o \in Site, s # o, destroy(s, o) PROVE HolderInv'
  BY <1>2, DestroyKeepsInv
<1>3. ASSUME NEW x \in Site, NEW y \in Site, x # y, calculate_one_distance(x, y) PROVE HolderInv'
  BY <1>3, CalculateKeepsInv
<1>4. CASE persist \/ load \/ rotate \/ clear
  BY <1>4, PersistKeepsInv, LoadKeepsInv, RotateKeepsInv, ClearKeepsInv
<1>5. CASE UNCHANGED vars
  BY <1>5 DEF vars, tables, bounds, HolderInv, Held, Counted, Arrays, Faithful, Mirror, CloseTo,
              Reversed, Near
<1>6. QED
  BY <1>1, <1>2, <1>3, <1>4, <1>5 DEF Next

(* Whatever the calls and their order, and as long as nothing has set the  *)
(* two tables apart (a destroy that hit an element behind the first, a     *)
(* load on top of filled arrays, a computed distance, a key in the wrong   *)
(* order): closeness is mutual, a close pair has a distance, and a pair    *)
(* within the threshold is close.  Short of the first of these, update_    *)
(* close_sites never lists a site twice.                                   *)
THEOREM ArraysMirrorPairs == Spec => []CloseSitesMirror
<1>1. Init => HolderInv
  BY InitHolderInv
<1>2. HolderInv /\ [Next]_vars => HolderInv'
  BY NextHolderInv
<1>3. HolderInv => CloseSitesMirror
  BY MirrorHolds
<1>4. QED
  BY <1>1, <1>2, <1>3, PTL DEF Spec

-----------------------------------------------------------------------------
(* Sorting: the rank of an id among others is its place.                   *)

NotAbove(ids, n) == {m \in DOMAIN ids : ids[m] <= ids[n]}
Rank(ids) == [n \in DOMAIN ids |-> Cardinality(NotAbove(ids, n))]
Sorts(p, ids) ==
  /\ p \in [DOMAIN ids -> DOMAIN ids] /\ IsInjective(p)
  /\ \A i, j \in DOMAIN ids : i < j => ids[p[i]] <= ids[p[j]]
Distinct(ids, N) == ids \in [1..N -> Nat] /\ IsInjective(ids)

LEMMA Indices ==
  ASSUME NEW N \in Nat
  PROVE  IsFiniteSet(1..N) /\ Cardinality(1..N) = N
<1>1. /\ IsFiniteSet(1..N)
      /\ Cardinality(1..N) = IF 1 > N THEN 0 ELSE N - 1 + 1
  BY FS_Interval
<1>2. QED
  BY <1>1

LEMMA RankOrders ==
  ASSUME NEW N \in Nat, NEW ids, Distinct(ids, N), NEW n \in 1..N, NEW m \in 1..N
  PROVE  /\ Cardinality(NotAbove(ids, n)) \in 1..N
         /\ ids[m] < ids[n] => Cardinality(NotAbove(ids, m)) < Cardinality(NotAbove(ids, n))
<1>1. DOMAIN ids = 1..N /\ \A k \in 1..N : ids[k] \in Nat
  BY DEF Distinct
<1>2. PICK A, B : A = NotAbove(ids, n) /\ B = NotAbove(ids, m)
  OBVIOUS
<1>3. A \in SUBSET (1..N) /\ n \in A /\ B \in SUBSET (1..N)
  BY <1>1, <1>2 DEF NotAbove
<1>4. IsFiniteSet(A) /\ Cardinality(A) <= N
  <2>1. IsFiniteSet(1..N) /\ Cardinality(1..N) = N
    BY Indices
  <2>2. IsFiniteSet(A) /\ Cardinality(A) <= Cardinality(1..N)
    BY <1>3, <2>1, FS_Subset
  <2>3. QED
    BY <2>1, <2>2
<1>5. Cardinality(A) \in Nat /\ Cardinality(A) # 0
  BY <1>3, <1>4, FS_CardinalityType, FS_EmptySet
<1>6. ASSUME ids[m] < ids[n] PROVE Cardinality(B) < Cardinality(A)
  <2>1. B \in SUBSET A /\ n \notin B
    BY <1>1, <1>2, <1>6 DEF NotAbove
  <2>2. Cardinality(B) <= Cardinality(A) /\ (Cardinality(A) = Cardinality(B) => A = B) /\ IsFiniteSet(B)
    BY <1>4, <2>1, FS_Subset
  <2>3. Cardinality(B) \in Nat /\ Cardinality(A) # Cardinality(B)
    BY <1>3, <2>1, <2>2, FS_CardinalityType
  <2>4. QED
    BY <1>5, <2>2, <2>3
<1>7. QED
  BY <1>2, <1>4, <1>5, <1>6

LEMMA SomeOrderSorts ==
  ASSUME NEW N \in Nat, NEW ids, Distinct(ids, N)
  PROVE  \E p : Sorts(p, ids)
<1>1. DOMAIN ids = 1..N /\ (\A k \in 1..N : ids[k] \in Nat)
      /\ \A k, l \in 1..N : ids[k] = ids[l] => k = l
  BY DEF Distinct, IsInjective
<1>2. PICK r : r = Rank(ids)
  OBVIOUS
<1>3. r \in [1..N -> 1..N] /\ \A m, n \in 1..N : ids[m] < ids[n] => r[m] < r[n]
  BY <1>1, <1>2, RankOrders DEF Rank
<1>4. \A m, n \in 1..N : r[m] = r[n] => m = n
  <2>1. ASSUME NEW m \in 1..N, NEW n \in 1..N, r[m] = r[n] PROVE m = n
    <3>1. ids[m] \in Nat /\ ids[n] \in Nat /\ r[m] \in Nat /\ r[n] \in Nat
      BY <1>1, <1>3
    <3>2. ~(ids[m] < ids[n]) /\ ~(ids[n] < ids[m])
      BY <1>3, <2>1, <3>1
    <3>3. QED
      BY <1>1, <3>1, <3>2
  <2>2. QED
    BY <2>1
<1>5. r \in Injection(1..N, 1..N)
  BY <1>3, <1>4 DEF Injection, IsInjective
<1>6. r \in Surjection(1..N, 1..N)
  BY <1>5, Indices, FS_Injection
<1>7. \A k \in 1..N : \E n \in 1..N : r[n] = k
  BY <1>6 DEF Surjection
<1>8. PICK p : p = [k \in 1..N |-> CHOOSE n \in 1..N : r[n] = k]
  OBVIOUS
<1>9. p \in [1..N -> 1..N] /\ \A k \in 1..N : r[p[k]] = k
  BY <1>7, <1>8
<1>10. IsInjective(p)
  BY <1>9 DEF IsInjective
<1>11. ASSUME NEW i \in 1..N, NEW j \in 1..N, i < j PROVE ids[p[i]] <= ids[p[j]]
  <2>1. p[i] \in 1..N /\ p[j] \in 1..N /\ r[p[i]] = i /\ r[p[j]] = j
    BY <1>9
  <2>2. ~(ids[p[j]] < ids[p[i]])
    <3>1. PICK a \in 1..N, b \in 1..N : a = p[i] /\ b = p[j]
      BY <2>1
    <3>2. ids[b] < ids[a] => r[b] < r[a]
      BY <1>3
    <3>3. r[b] = j /\ r[a] = i /\ ~(j < i)
      BY <1>11, <2>1, <3>1
    <3>4. QED
      BY <3>1, <3>2, <3>3
  <2>3. ids[p[i]] \in Nat /\ ids[p[j]] \in Nat
    BY <1>1, <2>1
  <2>4. QED
    BY <2>2, <2>3
<1>12. QED
  BY <1>1, <1>9, <1>10, <1>11 DEF Sorts

LEMMA AscendingSorts ==
  ASSUME NEW N \in Nat, NEW ids, Distinct(ids, N)
  PROVE  /\ Ascending(ids) \in [1..N -> Nat]
         /\ ToSet(Ascending(ids)) = ToSet(ids)
         /\ \A i, j \in 1..N : i < j <=> Ascending(ids)[i] < Ascending(ids)[j]
<1>1. DOMAIN ids = 1..N /\ (\A k \in 1..N : ids[k] \in Nat)
      /\ \A k, l \in 1..N : ids[k] = ids[l] => k = l
  BY DEF Distinct, IsInjective
<1>2. PICK p : p = CHOOSE q \in [DOMAIN ids -> DOMAIN ids] :
                     /\ IsInjective(q)
                     /\ \A i, j \in DOMAIN ids : i < j => ids[q[i]] <= ids[q[j]]
  OBVIOUS
<1>3. Sorts(p, ids)
  BY <1>2, SomeOrderSorts DEF Sorts
<1>4. PICK sorted : sorted = Ascending(ids)
  OBVIOUS
<1>5. sorted = [n \in 1..N |-> ids[p[n]]]
  BY <1>1, <1>2, <1>4 DEF Ascending
<1>6. /\ p \in [1..N -> 1..N] /\ p \in Injection(1..N, 1..N)
      /\ \A i, j \in 1..N : p[i] = p[j] => i = j
      /\ \A i, j \in 1..N : i < j => ids[p[i]] <= ids[p[j]]
  BY <1>1, <1>3 DEF Sorts, Injection, IsInjective
<1>7. \A k \in 1..N : \E n \in 1..N : p[n] = k
  <2>1. p \in Surjection(1..N, 1..N)
    BY <1>6, Indices, FS_Injection
  <2>2. QED
    BY <2>1 DEF Surjection
<1>8. sorted \in [1..N -> Nat] /\ \A n \in 1..N : sorted[n] = ids[p[n]] /\ p[n] \in 1..N
  BY <1>1, <1>5, <1>6
<1>9. ToSet(sorted) = ToSet(ids)
  <2>1. ASSUME NEW x \in ToSet(ids) PROVE x \in ToSet(sorted)
    <3>1. PICK k \in 1..N : ids[k] = x
      BY <1>1 DEF ToSet
    <3>2. PICK n \in 1..N : p[n] = k
      BY <1>7
    <3>3. QED
      BY <1>8, <3>1, <3>2 DEF ToSet
  <2>2. ASSUME NEW x \in ToSet(sorted) PROVE x \in ToSet(ids)
    <3>1. PICK n \in 1..N : sorted[n] = x
      BY <1>8 DEF ToSet
    <3>2. PICK k \in 1..N : k = p[n]
      BY <1>8
    <3>3. ids[k] = x /\ k \in DOMAIN ids
      BY <1>1, <1>8, <3>1, <3>2
    <3>4. QED
      BY <3>3 DEF ToSet
  <2>3. QED
    BY <2>1, <2>2
<1>10. \A i, j \in 1..N : i < j => sorted[i] < sorted[j]
  <2>1. ASSUME NEW i \in 1..N, NEW j \in 1..N, i < j PROVE sorted[i] < sorted[j]
    <3>1. ids[p[i]] <= ids[p[j]] /\ p[i] # p[j]
      BY <1>6, <2>1
    <3>2. ids[p[i]] # ids[p[j]]
      BY <1>1, <1>8, <3>1
    <3>3. ids[p[i]] \in Nat /\ ids[p[j]] \in Nat
      BY <1>1, <1>8
    <3>4. QED
      BY <1>8, <3>1, <3>2, <3>3
  <2>2. QED
    BY <2>1
<1>11. \A i, j \in 1..N : sorted[i] < sorted[j] => i < j
  <2>1. ASSUME NEW i \in 1..N, NEW j \in 1..N, sorted[i] < sorted[j] PROVE i < j
    <3>1. sorted[i] \in Nat /\ sorted[j] \in Nat
      BY <1>8
    <3>2. ~(j < i) /\ i # j
      BY <1>10, <2>1, <3>1
    <3>3. QED
      BY <3>2
  <2>2. QED
    BY <2>1
<1>12. QED
  BY <1>4, <1>8, <1>9, <1>10, <1>11

-----------------------------------------------------------------------------
LEMMA LookupsAgree == HolderInv => DistancesAgree
<1> SUFFICES ASSUME HolderInv, NEW ids \in SetToAllKPermutations(Site)
             PROVE  distances(ids) = {r \in ToSet(ids) \X ToSet(ids) \X Distance :
                                       /\ r[1] < r[2]
                                       /\ relationships[OrderedKey(r[1], r[2])] = r[3]}
  BY DEF DistancesAgree
<1>1. PICK S \in SUBSET Site : ids \in SetToSeqs(S)
  BY DEF SetToAllKPermutations
<1>2. PICK N \in Nat : N = Cardinality(S)
  <2>1. IsFiniteSet(Site) /\ S \subseteq Site
    BY KeysAreFinite
  <2>2. IsFiniteSet(S)
    BY <2>1, FS_Subset, Zenon
  <2>3. QED
    BY <2>2, FS_CardinalityType
<1>3. ids \in [1..N -> S] /\ \A i, j \in 1..N : i # j => ids[i] # ids[j]
  BY <1>1, <1>2 DEF SetToSeqs
<1>4. Distinct(ids, N) /\ ToSet(ids) \subseteq Site /\ DOMAIN ids = 1..N
  <2>1. \A i \in 1..N : ids[i] \in Site /\ ids[i] \in Nat
    BY <1>3, SitesAreWords
  <2>2. QED
    BY <1>3, <2>1 DEF Distinct, IsInjective, ToSet
<1>5. PICK sorted : sorted = Ascending(ids)
  OBVIOUS
<1>6. /\ sorted \in [1..N -> Nat] /\ ToSet(sorted) = ToSet(ids)
      /\ \A i, j \in 1..N : i < j <=> sorted[i] < sorted[j]
  BY <1>4, <1>5, AscendingSorts
<1>7. \A n \in 1..N : sorted[n] \in ToSet(ids) /\ sorted[n] \in Site
  BY <1>4, <1>6 DEF ToSet
<1> DEFINE Row(p) == <<sorted[p[1]], sorted[p[2]], relationships[<<sorted[p[1]], sorted[p[2]]>>]>>
           Found == {p \in {q \in (1..N) \X (1..N) : q[1] < q[2]} :
                       relationships[<<sorted[p[1]], sorted[p[2]]>>] # None}
           Wanted == {r \in ToSet(ids) \X ToSet(ids) \X Distance :
                        r[1] < r[2] /\ relationships[OrderedKey(r[1], r[2])] = r[3]}
<1>8. distances(ids) = {Row(p) : p \in Found}
  BY <1>4, <1>5 DEF distances
<1>9. ASSUME NEW p \in Found PROVE Row(p) \in Wanted
  <2>1. PICK i \in 1..N, j \in 1..N : p = <<i, j>> /\ i < j /\ relationships[<<sorted[i], sorted[j]>>] # None
    OBVIOUS
  <2>2. PICK a \in Site, b \in Site : a = sorted[i] /\ b = sorted[j]
    BY <1>7
  <2>3. a < b /\ a \in ToSet(ids) /\ b \in ToSet(ids) /\ a \in Nat /\ b \in Nat
    BY <1>6, <1>7, <2>1, <2>2
  <2>4. <<a, b>> \in Key /\ OrderedKey(a, b) = <<a, b>>
    BY <2>3 DEF Key, OrderedKey
  <2>5. PICK d \in Distance : d = relationships[<<a, b>>]
    BY <2>1, <2>2, <2>4 DEF HolderInv, Held
  <2>6. <<a, b, d>> \in Wanted
    BY <2>3, <2>4, <2>5
  <2>7. Row(p) = <<a, b, d>>
    BY <2>1, <2>2, <2>5
  <2>8. QED
    BY <2>6, <2>7
<1>10. ASSUME NEW r \in Wanted PROVE \E p \in Found : r = Row(p)
  <2>1. PICK a \in ToSet(ids), b \in ToSet(ids), d \in Distance :
          r = <<a, b, d>> /\ a < b /\ relationships[OrderedKey(a, b)] = d
    OBVIOUS
  <2>2. OrderedKey(a, b) = <<a, b>>
    BY <2>1 DEF OrderedKey
  <2>3. PICK i \in 1..N, j \in 1..N : a = sorted[i] /\ b = sorted[j]
    <3>1. DOMAIN sorted = 1..N /\ a \in ToSet(sorted) /\ b \in ToSet(sorted)
      BY <1>6
    <3>2. QED
      BY <3>1 DEF ToSet
  <2>4. i < j
    BY <1>6, <2>1, <2>3
  <2>5. d # None
    BY NoneIsNoDistance
  <2>6. <<i, j>> \in Found
    BY <2>1, <2>2, <2>3, <2>4, <2>5
  <2>7. r = Row(<<i, j>>)
    BY <2>1, <2>2, <2>3
  <2>8. QED
    BY <2>6, <2>7
<1>11. {Row(p) : p \in Found} = Wanted
  <2> HIDE DEF Row, Found, Wanted
  <2>1. QED
    BY <1>9, <1>10, Zenon
<1>12. distances(ids) = Wanted
  BY <1>8, <1>11, Zenon
<1>13. QED
  BY <1>12, Zenon

(* As long as no key is in the wrong order, distances finds for distinct   *)
(* ids in any order the pairs, and the distances, that distance_between    *)
(* finds one by one.                                                       *)
THEOREM LookupsAgreeAlways == Spec => []DistancesAgree
<1>1. Init => HolderInv
  BY InitHolderInv
<1>2. HolderInv /\ [Next]_vars => HolderInv'
  BY NextHolderInv
<1>3. HolderInv => DistancesAgree
  BY LookupsAgree
<1>4. QED
  BY <1>1, <1>2, <1>3, PTL DEF Spec

-----------------------------------------------------------------------------
(* The client.                                                             *)

(* The answers.                                                            *)

(* One more triple for the answer, if both its sites are asked for.        *)
More(asked, found, t) == IF {t[1], t[2]} \subseteq asked THEN found \o t ELSE found

(* FoldLeft folds over the sets of indices, the last index first.          *)
Collects(f, I, asked, list) ==
  f = [s \in SUBSET I |-> IF s = {} THEN <<>> ELSE More(asked, f[s \ {Max(s)}], list[Max(s)])]

LEMMA TriplesUnfold ==
  ASSUME NEW ids
  PROVE  TriplesAmong(ids) =
           (CHOOSE f : Collects(f, DOMAIN PairDistances, ToSet(ids), PairDistances))[DOMAIN PairDistances]
BY DEF TriplesAmong, FoldLeft, MapThenFoldSet, Collects, More

(* The answer depends on the set of the ids only.                          *)
LEMMA SameTriples ==
  ASSUME NEW p, NEW q, ToSet(p) = ToSet(q)
  PROVE  TriplesAmong(p) = TriplesAmong(q)
BY TriplesUnfold

LEMMA MoreIsSequence ==
  ASSUME NEW asked, NEW found \in Seq(Nat), NEW t \in Nat \X Nat \X Nat
  PROVE  More(asked, found, t) \in Seq(Nat)
<1>1. t \in Seq(Nat)
  <2>1. PICK a \in Nat, b \in Nat, c \in Nat : t = <<a, b, c>>
    OBVIOUS
  <2>2. <<a, b, c>> \in Seq(Nat)
    OBVIOUS
  <2>3. QED
    BY <2>1, <2>2
<1>2. found \o t \in Seq(Nat)
  BY <1>1
<1>3. QED
  BY <1>2 DEF More

LEMMA CollectsExists ==
  ASSUME NEW asked, NEW list, NEW N \in Nat, \A n \in 1..N : list[n] \in Nat \X Nat \X Nat
  PROVE  \E f : Collects(f, 1..N, asked, list) /\ f[1..N] \in Seq(Nat)
<1> DEFINE T == {n \in Nat : n <= N => \E f : Collects(f, 1..n, asked, list) /\ f[1..n] \in Seq(Nat)}
<1>1. 0 \in T
  <2>1. PICK f : f = [s \in SUBSET (1..0) |-> <<>>]
    OBVIOUS
  <2>2. \A s \in SUBSET (1..0) : s = {} /\ f[s] = <<>>
    BY <2>1
  <2>3. Collects(f, 1..0, asked, list) /\ f[1..0] \in Seq(Nat)
    BY <2>1, <2>2 DEF Collects
  <2>4. QED
    BY <2>3
<1>2. ASSUME NEW n \in T PROVE n + 1 \in T
  <2>1. n \in Nat
    OBVIOUS
  <2>2. SUFFICES ASSUME n + 1 <= N
                 PROVE  \E f : Collects(f, 1..(n + 1), asked, list) /\ f[1..(n + 1)] \in Seq(Nat)
    OBVIOUS
  <2>3. PICK f : Collects(f, 1..n, asked, list) /\ f[1..n] \in Seq(Nat)
    BY <2>1, <2>2
  <2> DEFINE g == [s \in SUBSET (1..(n + 1)) |->
                     IF n + 1 \in s THEN More(asked, f[s \ {n + 1}], list[n + 1]) ELSE f[s]]
  <2>4. ASSUME NEW s \in SUBSET (1..(n + 1))
        PROVE  g[s] = IF s = {} THEN <<>> ELSE More(asked, g[s \ {Max(s)}], list[Max(s)])
    <3>1. CASE n + 1 \in s
      <4>1. Max(s) = n + 1
        <5>1. \A y \in s : y \in Nat /\ n + 1 >= y
          BY <2>1
        <5>2. QED
          BY <3>1, <5>1, MaxOf
      <4>2. s \ {n + 1} \in SUBSET (1..n)
        BY <2>1
      <4>3. g[s \ {n + 1}] = f[s \ {n + 1}]
        BY <2>1, <4>2
      <4>4. QED
        BY <3>1, <4>1, <4>3
    <3>2. CASE n + 1 \notin s
      <4>1. s \in SUBSET (1..n)
        BY <2>1, <3>2
      <4>2. s # {} => s \ {Max(s)} \in SUBSET (1..(n + 1)) /\ s \ {Max(s)} \in SUBSET (1..n)
        BY <4>1
      <4>3. s # {} => g[s \ {Max(s)}] = f[s \ {Max(s)}]
        BY <3>2, <4>2
      <4>4. g[s] = f[s]
        BY <3>2
      <4>5. f[s] = IF s = {} THEN <<>> ELSE More(asked, f[s \ {Max(s)}], list[Max(s)])
        BY <2>3, <4>1 DEF Collects
      <4>6. QED
        BY <4>3, <4>4, <4>5
    <3>3. QED
      BY <3>1, <3>2
  <2>5. g[1..(n + 1)] \in Seq(Nat)
    <3>1. 1..(n + 1) \in SUBSET (1..(n + 1)) /\ n + 1 \in 1..(n + 1) /\ (1..(n + 1)) \ {n + 1} = 1..n
      BY <2>1
    <3>2. PICK mid \in Seq(Nat), t \in Nat \X Nat \X Nat : mid = f[1..n] /\ t = list[n + 1]
      <4>1. n + 1 \in 1..N
        BY <2>1, <2>2
      <4>2. QED
        BY <2>3, <4>1
    <3>3. g[1..(n + 1)] = More(asked, mid, t)
      BY <3>1, <3>2
    <3>4. QED
      BY <3>3, MoreIsSequence
  <2>6. Collects(g, 1..(n + 1), asked, list)
    <3>1. g = [s \in SUBSET (1..(n + 1)) |-> g[s]]
      OBVIOUS
    <3> HIDE DEF g
    <3>2. QED
      BY <2>4, <3>1 DEF Collects
  <2>7. QED
    BY <2>5, <2>6
<1>3. T \subseteq Nat
  OBVIOUS
<1>4. T = Nat
  <2> HIDE DEF T
  <2>1. QED
    BY <1>1, <1>2, <1>3, Induction
<1>5. N \in T
  BY <1>4
<1>6. QED
  <2>1. N <= N
    OBVIOUS
  <2>2. QED
    BY <1>5, <2>1

LEMMA CollectsUnique ==
  ASSUME NEW asked, NEW list, NEW N \in Nat, NEW f, NEW g,
         Collects(f, 1..N, asked, list), Collects(g, 1..N, asked, list)
  PROVE  f[1..N] = g[1..N]
<1> DEFINE T == {n \in Nat : n <= N => f[1..n] = g[1..n]}
<1>1. 0 \in T
  <2>1. 1..0 = {} /\ {} \in SUBSET (1..N)
    OBVIOUS
  <2>2. f[{}] = <<>> /\ g[{}] = <<>>
    BY <2>1 DEF Collects
  <2>3. QED
    BY <2>1, <2>2
<1>2. ASSUME NEW n \in T PROVE n + 1 \in T
  <2>1. SUFFICES ASSUME n + 1 <= N PROVE f[1..(n + 1)] = g[1..(n + 1)]
    OBVIOUS
  <2>2. n \in Nat /\ f[1..n] = g[1..n] /\ 1..(n + 1) \in SUBSET (1..N) /\ n + 1 \in 1..(n + 1)
    BY <2>1
  <2>3. Max(1..(n + 1)) = n + 1
    <3>1. \A y \in 1..(n + 1) : y \in Nat /\ n + 1 >= y
      BY <2>2
    <3>2. QED
      BY <2>2, <3>1, MaxOf
  <2>4. (1..(n + 1)) \ {n + 1} = 1..n
    BY <2>2
  <2>5. \A h \in {f, g} :
          h[1..(n + 1)] = More(asked, h[(1..(n + 1)) \ {Max(1..(n + 1))}], list[Max(1..(n + 1))])
    BY <2>2 DEF Collects
  <2>6. QED
    BY <2>2, <2>3, <2>4, <2>5
<1>3. T \subseteq Nat
  OBVIOUS
<1>4. T = Nat
  <2> HIDE DEF T
  <2>1. QED
    BY <1>1, <1>2, <1>3, Induction
<1>5. QED
  BY <1>4

LEMMA TriplesAreWords ==
  ASSUME NEW ids
  PROVE  TriplesAmong(ids) \in Seq(Nat)
<1>1. PICK N \in Nat : N = Len(PairDistances)
  BY ClientAssumption DEF ClientAssumption
<1>2. DOMAIN PairDistances = 1..N /\ \A n \in 1..N : PairDistances[n] \in Nat \X Nat \X Nat
  BY <1>1, ClientAssumption DEF ClientAssumption
<1>3. PICK g : Collects(g, 1..N, ToSet(ids), PairDistances) /\ g[1..N] \in Seq(Nat)
  BY <1>2, CollectsExists
<1>4. PICK f : f = CHOOSE h : Collects(h, 1..N, ToSet(ids), PairDistances)
  OBVIOUS
<1>5. Collects(f, 1..N, ToSet(ids), PairDistances)
  BY <1>3, <1>4
<1>6. f[1..N] = g[1..N]
  BY <1>3, <1>5, CollectsUnique
<1>7. TriplesAmong(ids) = f[1..N]
  BY <1>2, <1>4, TriplesUnfold
<1>8. QED
  BY <1>3, <1>6, <1>7

-----------------------------------------------------------------------------
(* Ids as sets and as sequences.                                           *)

IdsOf(p, S) == p \in Seq(Nat) /\ ToSet(p) = S /\ Len(p) = Cardinality(S)

LEMMA IdsAreFinite ==
  ASSUME NEW ids \in Seq(Nat)
  PROVE  IsFiniteSet(ToSet(ids)) /\ ToSet(ids) \subseteq Nat /\ Cardinality(ToSet(ids)) \in Nat
<1>1. DOMAIN ids = 1..Len(ids) /\ Len(ids) \in Nat
  OBVIOUS
<1>2. IsFiniteSet(1..Len(ids))
  <2>1. /\ IsFiniteSet(1..Len(ids))
        /\ Cardinality(1..Len(ids)) = IF 1 > Len(ids) THEN 0 ELSE Len(ids) - 1 + 1
    BY <1>1, FS_Interval
  <2>2. QED
    BY <2>1
<1>3. ids \in Surjection(1..Len(ids), ToSet(ids))
  BY <1>1 DEF Surjection, ToSet
<1>4. IsFiniteSet(ToSet(ids))
  BY <1>2, <1>3, FS_Surjection
<1>5. QED
  BY <1>4, FS_CardinalityType DEF ToSet

LEMMA OrderOfIds ==
  ASSUME NEW S \in SUBSET Nat, IsFiniteSet(S), NEW p \in [1..Cardinality(S) -> S], ToSet(p) = S
  PROVE  IdsOf(p, S)
<1>1. PICK n \in Nat : n = Cardinality(S)
  BY FS_CardinalityType
<1>2. p \in [1..n -> Nat]
  BY <1>1
<1>3. p \in Seq(Nat) /\ Len(p) = n
  BY <1>2
<1>4. QED
  BY <1>1, <1>3 DEF IdsOf

LEMMA SequenceOfIds ==
  ASSUME NEW S \in SUBSET Nat, IsFiniteSet(S)
  PROVE  IdsOf(SetToSeq(S), S)
<1>1. PICK n \in Nat : n = Cardinality(S)
  BY FS_CardinalityType
<1>2. \E f \in [1..n -> S] : IsInjective(f)
  <2>1. ExistsBijection(1..Cardinality(S), S)
    BY FS_CardinalityType
  <2>2. QED
    BY <1>1, <2>1 DEF ExistsBijection, Bijection, Injection
<1>3. PICK p : p = SetToSeq(S)
  OBVIOUS
<1>4. p \in [1..n -> S] /\ IsInjective(p)
  BY <1>1, <1>2, <1>3 DEF SetToSeq
<1>5. p \in Surjection(1..n, S)
  <2>1. IsFiniteSet(1..n) /\ Cardinality(1..n) = n
    <3>1. /\ IsFiniteSet(1..n)
          /\ Cardinality(1..n) = IF 1 > n THEN 0 ELSE n - 1 + 1
      BY FS_Interval
    <3>2. QED
      BY <3>1
  <2>2. p \in Injection(1..n, S)
    BY <1>4 DEF Injection
  <2>3. QED
    BY <1>1, <2>1, <2>2, FS_Injection
<1>6. ToSet(p) = S
  BY <1>4, <1>5 DEF Surjection, ToSet
<1>7. QED
  BY <1>1, <1>3, <1>4, <1>6, OrderOfIds

LEMMA AnswersAreWords ==
  ASSUME NEW p, NEW operation
  PROVE  AnswerTo(operation, p) \in Seq(Nat)
<1>1. TriplesAmong(p) \in Seq(Nat)
  BY TriplesAreWords
<1>2. CloseTo2(p) \in Seq(Nat)
  BY ClientAssumption DEF ClientAssumption, CloseTo2
<1>3. QED
  BY <1>1, <1>2 DEF AnswerTo

LEMMA AnswersAgree ==
  ASSUME NEW S, NEW p, IdsOf(p, S), NEW q, IdsOf(q, S), NEW operation
  PROVE  AnswerTo(operation, p) = AnswerTo(operation, q)
<1>1. TriplesAmong(p) = TriplesAmong(q)
  BY SameTriples DEF IdsOf
<1>2. Len(p) = Len(q) /\ ToSet(p) = ToSet(q)
  BY DEF IdsOf
<1>3. Len(p) = 1 => p[1] = q[1]
  <2>1. SUFFICES ASSUME Len(p) = 1 PROVE p[1] = q[1]
    OBVIOUS
  <2>2. DOMAIN p = 1..1 /\ DOMAIN q = 1..1
    BY <1>2, <2>1 DEF IdsOf
  <2>3. ToSet(p) = {p[1]} /\ ToSet(q) = {q[1]}
    BY <2>2 DEF ToSet
  <2>4. p[1] \in {q[1]}
    BY <1>2, <2>3
  <2>5. QED
    BY <2>4
<1>4. CloseTo2(p) = CloseTo2(q)
  BY <1>2, <1>3 DEF CloseTo2
<1>5. QED
  BY <1>1, <1>4 DEF AnswerTo

-----------------------------------------------------------------------------
(* A stream cut in two: a is what is through, b what is still to come.     *)

Streams(a, b, w) ==
  /\ a \in Seq(Nat) /\ b \in Seq(Nat) /\ w \in Seq(Nat) /\ Len(a) + Len(b) <= Len(w)
  /\ \A k \in 1..Len(a) : a[k] = w[k]
  /\ \A k \in 1..Len(b) : b[k] = w[Len(a) + k]

LEMMA Concatenation ==
  ASSUME NEW s \in Seq(Nat), NEW t \in Seq(Nat)
  PROVE  /\ s \o t \in Seq(Nat) /\ Len(s \o t) = Len(s) + Len(t)
         /\ \A k \in 1..Len(s) : (s \o t)[k] = s[k]
         /\ \A k \in 1..Len(t) : (s \o t)[Len(s) + k] = t[k]
<1>1. s \o t \in Seq(Nat)
  OBVIOUS
<1>2. Len(s \o t) = Len(s) + Len(t)
  OBVIOUS
<1>3. \A k \in 1..Len(s) : (s \o t)[k] = s[k]
  OBVIOUS
<1>4. \A k \in 1..Len(t) : (s \o t)[Len(s) + k] = t[k]
  OBVIOUS
<1>5. QED
  BY <1>1, <1>2, <1>3, <1>4

LEMMA StreamMoves ==
  ASSUME NEW a, NEW b, NEW w, Streams(a, b, w), NEW n \in 1..Len(b)
  PROVE  /\ Streams(a \o SubSeq(b, 1, n), SubSeq(b, n + 1, Len(b)), w)
         /\ Len(a \o SubSeq(b, 1, n)) = Len(a) + n
         /\ Len(SubSeq(b, n + 1, Len(b))) = Len(b) - n
<1>1. a \in Seq(Nat) /\ b \in Seq(Nat) /\ Len(a) \in Nat /\ Len(b) \in Nat /\ n \in Nat /\ n <= Len(b)
  BY DEF Streams
<1>2. PICK c : c = SubSeq(b, 1, n)
  OBVIOUS
<1>3. c \in Seq(Nat) /\ Len(c) = n
  BY <1>1, <1>2
<1>4. \A k \in 1..n : c[k] = b[k]
  BY <1>1, <1>2
<1>5. PICK d : d = SubSeq(b, n + 1, Len(b))
  OBVIOUS
<1>6. d \in Seq(Nat) /\ Len(d) = Len(b) - n
  <2>1. CASE n = Len(b)
    BY <1>1, <1>5, <2>1
  <2>2. CASE n < Len(b)
    BY <1>1, <1>5, <2>2
  <2>3. QED
    BY <1>1, <2>1, <2>2
<1>7. \A k \in 1..Len(b) - n : d[k] = b[n + k]
  BY <1>1, <1>5
<1>8. PICK e : e = a \o c
  OBVIOUS
<1>9. e \in Seq(Nat) /\ Len(e) = Len(a) + n
  BY <1>1, <1>3, <1>8, Concatenation
<1>10. \A k \in 1..Len(a) : e[k] = a[k]
  BY <1>1, <1>3, <1>8, Concatenation
<1>11. \A k \in 1..n : e[Len(a) + k] = c[k]
  BY <1>1, <1>3, <1>8, Concatenation
<1>12. \A k \in 1..Len(e) : e[k] = w[k]
  <2>1. ASSUME NEW k \in 1..Len(e) PROVE e[k] = w[k]
    <3>1. CASE k \in 1..Len(a)
      BY <1>10, <3>1 DEF Streams
    <3>2. CASE k \notin 1..Len(a)
      <4>1. PICK m \in 1..n : k = Len(a) + m
        <5>1. k - Len(a) \in 1..n /\ k = Len(a) + (k - Len(a))
          BY <1>1, <1>9, <3>2
        <5>2. QED
          BY <5>1
      <4>2. e[k] = b[m] /\ m \in 1..Len(b)
        BY <1>1, <1>4, <1>11, <4>1
      <4>3. QED
        BY <4>1, <4>2 DEF Streams
    <3>3. QED
      BY <3>1, <3>2
  <2>2. QED
    BY <2>1
<1>13. ASSUME NEW k \in 1..Len(d) PROVE d[k] = w[Len(e) + k]
  <2>1. d[k] = b[n + k] /\ n + k \in 1..Len(b)
    BY <1>1, <1>6, <1>7
  <2>2. b[n + k] = w[Len(a) + (n + k)]
    BY <2>1 DEF Streams
  <2>3. Len(a) + (n + k) = Len(e) + k
    BY <1>1, <1>9
  <2>4. QED
    BY <2>1, <2>2, <2>3
<1>14. Len(e) + Len(d) <= Len(w) /\ w \in Seq(Nat)
  BY <1>1, <1>6, <1>9 DEF Streams
<1>15. Streams(e, d, w)
  BY <1>6, <1>9, <1>12, <1>13, <1>14 DEF Streams
<1>16. QED
  BY <1>2, <1>5, <1>6, <1>8, <1>9, <1>15

LEMMA StreamEnds ==
  ASSUME NEW a, NEW b, NEW w, Streams(a, b, w), Len(a) = Len(w)
  PROVE  a = w
<1>1. a \in Seq(Nat) /\ w \in Seq(Nat) /\ \A k \in 1..Len(a) : a[k] = w[k]
  BY DEF Streams
<1>2. QED
  BY <1>1

(* Two words in front of the payload.                                      *)
Framed(head, payload) == <<Len(payload), head>> \o payload

LEMMA Frames ==
  ASSUME NEW head \in Nat, NEW payload \in Seq(Nat)
  PROVE  /\ Framed(head, payload) \in Seq(Nat) /\ Len(Framed(head, payload)) = Len(payload) + 2
         /\ Framed(head, payload)[1] = Len(payload) /\ Framed(head, payload)[2] = head
         /\ SubSeq(Framed(head, payload), 3, Len(payload) + 2) = payload
<1>1. PICK h : h = <<Len(payload), head>>
  OBVIOUS
<1>2. h \in Seq(Nat) /\ Len(h) = 2 /\ h[1] = Len(payload) /\ h[2] = head
  BY <1>1
<1>3. PICK w : w = h \o payload
  OBVIOUS
<1>a. /\ w \in Seq(Nat) /\ Len(w) = Len(h) + Len(payload)
      /\ \A k \in 1..Len(h) : w[k] = h[k]
      /\ \A k \in 1..Len(payload) : w[Len(h) + k] = payload[k]
  BY <1>2, <1>3, Concatenation
<1>4. w \in Seq(Nat) /\ Len(w) = Len(payload) + 2
  BY <1>2, <1>a
<1>5. w[1] = h[1] /\ w[2] = h[2]
  <2>1. 1 \in 1..Len(h) /\ 2 \in 1..Len(h)
    BY <1>2
  <2>2. QED
    BY <1>a, <2>1
<1>6. \A k \in 1..Len(payload) : w[2 + k] = payload[k]
  BY <1>2, <1>a
<1>7. PICK p : p = SubSeq(w, 3, Len(payload) + 2)
  OBVIOUS
<1>8. p \in Seq(Nat) /\ Len(p) = Len(payload)
  BY <1>4, <1>7
<1>9. \A k \in 1..Len(payload) : p[k] = w[2 + k]
  BY <1>4, <1>7
<1>10. p = payload
  <2>1. \A k \in 1..Len(payload) : p[k] = payload[k]
    BY <1>6, <1>9
  <2>2. QED
    BY <1>8, <2>1
<1>11. Framed(head, payload) = w
  BY <1>1, <1>3, Zenon DEF Framed
<1>12. w[1] = Len(payload) /\ w[2] = head
  BY <1>2, <1>5, Zenon
<1>13. SubSeq(w, 3, Len(payload) + 2) = payload
  BY <1>7, <1>10, Zenon
<1>14. QED
  BY <1>4, <1>11, <1>12, <1>13, Zenon

-----------------------------------------------------------------------------
(* The inductive invariant of a call.                                      *)

Wanted(c) == AnswerTo(Operation(c.op), SetToSeq(ToSet(c.ids)))
Requested(c) == {AnswerTo(Operation(c.op), payload) : payload \in Payloads(c)}
Alone(c) == c.op = "distances_raw" /\ Len(c.ids) < 2
Asking(requests, c, sent, rest) ==
  \E p \in requests : /\ Streams(sent, rest, Framed(Operation(c.op), p))
                       /\ Len(sent) + Len(rest) = Len(p) + 2
Answering(answer, got, rest) == Streams(got, rest, Framed(0, answer))
Talking == {"buffered_write", "header", "payload"}

Conversation ==
  /\ client \in Talking \cup {"idle", "net_connect", "exited"}
  /\ connection \in {"none", "up", "broken"} /\ (connection = "broken" => disturbed)
  /\ connection # "none" => client \in Talking \cup {"exited"}
  /\ client \in Talking => connection # "none"
  /\ connection = "none" => toSend = <<>> /\ request = <<>> /\ reply = <<>> /\ buffer = <<>>
  /\ call.ids \in Seq(Nat) /\ (client # "idle" => ~Alone(call))
Descriptors ==
  /\ calls \in Nat /\ fds \in Nat /\ fds <= calls
  /\ client = "net_connect" => fds < calls
  /\ client \in Talking => fds > 0
  /\ calls = 1 /\ client = "idle" /\ call.op = "distances_raw" /\ ~disturbed => fds = 0
Waiting(requests) ==
  /\ client = "header" /\ Asking(requests, call, request, toSend)
  /\ reply = <<>> /\ buffer = <<>>
Reading(answer) ==
  /\ request = <<>> /\ Answering(answer, buffer, reply)
  /\ connection = "up" => Len(buffer) + Len(reply) = Len(answer) + 2
  /\ client = "header" => Len(buffer) < 2
  /\ client = "payload" => Len(buffer) >= 2 /\ Len(buffer) < Len(answer) + 2
(* The contents, for the requests a call may send and the answers to them. *)
ContentsFor(requests, answers) ==
  /\ client = "idle" /\ calls > 0 =>
       \/ Alone(call) /\ results = <<>>
       \/ ~Alone(call) /\ results \in answers
       \/ disturbed /\ results = <<>>
  /\ client = "buffered_write" =>
       Asking(requests, call, request, toSend) /\ toSend # <<>> /\ reply = <<>> /\ buffer = <<>>
  /\ client \in {"header", "payload"} => Waiting(requests) \/ \E answer \in answers : Reading(answer)
Contents == \A c : c = call => ContentsFor(Payloads(c), Requested(c))
ClientInv == Conversation /\ Descriptors /\ Contents

LEMMA InitClientInv == InitClient => ClientInv
<1> SUFFICES ASSUME InitClient PROVE ClientInv
  OBVIOUS
<1>1. call.ids = <<>> /\ call.op = "none"
  BY DEF InitClient
<1>2. call.ids \in Seq(Nat)
  BY <1>1
<1>3. Conversation
  BY <1>2 DEF InitClient, Conversation, Talking
<1>4. Descriptors
  BY <1>1 DEF InitClient, Descriptors, Talking
<1>5. Contents
  BY DEF InitClient, Contents, ContentsFor
<1>6. QED
  BY <1>3, <1>4, <1>5 DEF ClientInv

LEMMA WantedIsWords ==
  ASSUME NEW c, c.ids \in Seq(Nat)
  PROVE  \A p : IdsOf(p, ToSet(c.ids)) => AnswerTo(Operation(c.op), p) = Wanted(c)
<1>1. PICK S : S = ToSet(c.ids)
  OBVIOUS
<1>2. S \in SUBSET Nat /\ IsFiniteSet(S)
  BY <1>1, IdsAreFinite
<1>3. PICK q : q = SetToSeq(S)
  OBVIOUS
<1>4. IdsOf(q, S)
  BY <1>2, <1>3, SequenceOfIds
<1>5. \A p : IdsOf(p, S) => AnswerTo(Operation(c.op), p) = AnswerTo(Operation(c.op), q)
  BY <1>4, AnswersAgree
<1>6. QED
  BY <1>1, <1>3, <1>5 DEF Wanted

(* What a request carries: words, and unless it is of several ids in a     *)
(* vector, the ids.                                                        *)
LEMMA PayloadCarriesIds ==
  ASSUME NEW c, c.ids \in Seq(Nat), NEW payload \in Payloads(c)
  PROVE  payload \in Seq(Nat) /\ (Carried(c) => IdsOf(payload, ToSet(c.ids)))
<1>1. PICK S : S = ToSet(c.ids)
  OBVIOUS
<1>2. S \in SUBSET Nat /\ IsFiniteSet(S)
  BY <1>1, IdsAreFinite
<1>3. PICK k \in Nat : k = Cardinality(S)
  BY <1>2, FS_CardinalityType
<1>4. CASE c.op # "distances"
  <2>1. payload \in [1..Cardinality(S) -> S] /\ ToSet(payload) = S
    BY <1>1, <1>4 DEF Payloads
  <2>2. IdsOf(payload, S)
    BY <1>2, <2>1, OrderOfIds
  <2>3. QED
    BY <1>1, <2>2 DEF IdsOf
<1>5. CASE c.op = "distances"
  <2>1. PICK s \in [1..k -> S], heap \in [1..k -> HeapWords] :
          ToSet(s) = S /\ payload = [n \in 1..k |-> IF n = 1 THEN s[Len(s)] ELSE heap[n]]
    BY <1>1, <1>3, <1>5 DEF Payloads
  <2>2. Len(s) = k
    BY <2>1
  <2>3. \A n \in 1..k : s[Len(s)] \in Nat /\ heap[n] \in Nat
    <3>1. HeapWords \subseteq Nat
      BY ClientAssumption DEF ClientAssumption
    <3>2. \A n \in 1..k : k \in 1..k /\ s[k] \in S /\ heap[n] \in HeapWords
      BY <2>1
    <3>3. QED
      BY <1>2, <2>2, <3>1, <3>2
  <2>4. payload \in [1..k -> Nat]
    BY <2>1, <2>3
  <2>5. payload \in Seq(Nat)
    BY <2>4
  <2>6. ASSUME Carried(c) PROVE IdsOf(payload, S)
    <3>1. k <= 1
      BY <1>1, <1>3, <1>5, <2>6 DEF Carried
    <3>2. \A n \in 1..k : n = 1 /\ Len(s) = 1
      BY <2>2, <3>1
    <3>3. payload = s
      <4>1. \A n \in 1..k : payload[n] = s[n]
        BY <2>1, <3>2
      <4>2. DOMAIN payload = 1..k /\ DOMAIN s = 1..k
        BY <2>1
      <4>3. QED
        BY <2>1, <2>4, <4>1, <4>2
    <3>4. QED
      BY <1>2, <1>3, <2>1, <3>3, OrderOfIds
  <2>7. QED
    BY <1>1, <2>5, <2>6
<1>6. QED
  BY <1>4, <1>5

LEMMA RequestedAreWords ==
  ASSUME NEW c, NEW answer \in Requested(c)
  PROVE  answer \in Seq(Nat)
BY AnswersAreWords DEF Requested

LEMMA ClientInvHolds == ClientInv => ClientGetsWholeAnswer
<1> SUFFICES ASSUME ClientInv PROVE ClientGetsWholeAnswer
  OBVIOUS
<1>1. PICK c : c = call
  OBVIOUS
<1>2. c.ids \in Seq(Nat) /\ ContentsFor(Payloads(c), Requested(c))
  BY <1>1 DEF ClientInv, Conversation, Contents
<1>3. Answers(c) = IF Alone(c) THEN {<<>>} ELSE Requested(c)
  BY DEF Answers, Alone, Requested
<1>4. ASSUME Carried(c), NEW answer \in Requested(c) PROVE answer = Wanted(c)
  <2>1. PICK payload \in Payloads(c) : answer = AnswerTo(Operation(c.op), payload)
    BY <1>4 DEF Requested
  <2>2. IdsOf(payload, ToSet(c.ids))
    BY <1>2, <1>4, PayloadCarriesIds
  <2>3. QED
    BY <1>2, <2>1, <2>2, WantedIsWords
<1>5. ASSUME client = "idle", calls > 0
      PROVE  \/ /\ results \in Answers(c)
                /\ Carried(c) => results = IF Alone(c) THEN <<>> ELSE Wanted(c)
             \/ disturbed /\ results = <<>>
  <2>1. \/ Alone(c) /\ results = <<>>
        \/ ~Alone(c) /\ results \in Requested(c)
        \/ disturbed /\ results = <<>>
    BY <1>1, <1>2, <1>5 DEF ContentsFor
  <2>2. QED
    BY <1>3, <1>4, <2>1
<1>6. Alone(c) <=> c.op = "distances_raw" /\ Len(c.ids) < 2
  BY DEF Alone
<1>7. QED
  BY <1>1, <1>5, <1>6 DEF ClientInv, Descriptors, Wanted, ClientGetsWholeAnswer

LEMMA OperationIsWord == \A op : Operation(op) \in Nat
BY DEF Operation

LEMMA MinOfTwo ==
  ASSUME NEW a \in Int, NEW b \in Int
  PROVE  Min({a, b}) \in Int /\ Min({a, b}) <= a /\ Min({a, b}) <= b
<1>1. \E x \in {a, b} : \A y \in {a, b} : x <= y
  <2>1. CASE a <= b
    BY <2>1
  <2>2. CASE b <= a
    BY <2>2
  <2>3. QED
    BY <2>1, <2>2
<1>2. PICK m : m = Min({a, b})
  OBVIOUS
<1>3. m \in {a, b} /\ \A y \in {a, b} : m <= y
  BY <1>1, <1>2 DEF Min
<1>4. m \in Int /\ m <= a /\ m <= b
  BY <1>3
<1>5. QED
  BY <1>2, <1>4

-----------------------------------------------------------------------------
(* Every step keeps it.                                                    *)

LEMMA StillContents ==
  ASSUME NEW c, NEW P, NEW A, P = Payloads(c), A = Requested(c), call' = c, ContentsFor(P, A)'
  PROVE  Contents'
<1>1. (\A d : d = call => ContentsFor(Payloads(d), Requested(d)))'
  BY DEF Payloads, Requested
<1>2. QED
  BY <1>1 DEF Contents

LEMMA CallKeepsInv ==
  ASSUME ClientInv, NEW c \in ClientCalls, Call(c)
  PROVE  ClientInv'
<1>1. /\ client = "idle" /\ connection = "none" /\ connection' = "none"
      /\ toSend' = <<>> /\ request' = <<>> /\ reply' = <<>> /\ buffer' = <<>>
  BY DEF ClientInv, Conversation, Call, stream, Talking
<1>2. /\ call' = c /\ c.ids \in Seq(Nat) /\ disturbed' = FALSE /\ results' = <<>>
      /\ client' = IF Alone(c) THEN "idle" ELSE "net_connect"
  BY ClientAssumption DEF ClientAssumption, Call, Alone
<1>3. /\ calls \in Nat /\ fds \in Nat /\ fds <= calls /\ calls' = calls + 1 /\ fds' = fds
  BY DEF ClientInv, Descriptors, Call
<1>4. Conversation'
  <2>1. client' # "idle" => ~Alone(call')
    BY <1>2
  <2>2. QED
    BY <1>1, <1>2, <2>1 DEF Conversation, Alone, Talking
<1>5. Descriptors'
  <2>1. calls' = 1 => fds' = 0
    BY <1>3
  <2>2. calls' \in Nat /\ fds' \in Nat /\ fds' < calls'
    BY <1>3
  <2>3. client' \notin Talking
    BY <1>2 DEF Talking
  <2>4. QED
    BY <2>1, <2>2, <2>3 DEF Descriptors
<1>6. Contents'
  <2>1. PICK P, A : P = Payloads(c) /\ A = Requested(c)
    OBVIOUS
  <2>2. client' = "idle" => Alone(call') /\ results' = <<>>
    BY <1>2
  <2>3. client' \in {"idle", "net_connect"}
    BY <1>2
  <2>4. ContentsFor(P, A)'
    BY <2>2, <2>3 DEF ContentsFor, Alone
  <2>5. QED
    BY <1>2, <2>1, <2>4, StillContents
<1>7. QED
  BY <1>4, <1>5, <1>6 DEF ClientInv

LEMMA NetConnectKeepsInv == ClientInv /\ NetConnect => ClientInv'
<1> SUFFICES ASSUME ClientInv, NetConnect PROVE ClientInv'
  OBVIOUS
<1>1. /\ client = "net_connect" /\ connection = "none" /\ call.ids \in Seq(Nat) /\ ~Alone(call)
      /\ toSend = <<>> /\ request = <<>> /\ reply = <<>> /\ buffer = <<>>
  BY DEF ClientInv, Conversation, NetConnect, Talking
<1>2. calls \in Nat /\ fds \in Nat /\ fds < calls
  BY <1>1 DEF ClientInv, Descriptors
<1>3. /\ call' = call /\ calls' = calls /\ request' = <<>> /\ reply' = <<>> /\ buffer' = <<>>
      /\ disturbed' = disturbed
  BY <1>1 DEF NetConnect
<1>4. CASE client' = "exited" /\ fds' = fds /\ connection' = connection /\ toSend' = toSend
  <2>1. Conversation'
    BY <1>1, <1>3, <1>4 DEF Conversation, Alone, Talking
  <2>2. Descriptors'
    BY <1>2, <1>3, <1>4 DEF Descriptors, Talking
  <2>3. PICK c, P, A : c = call /\ P = Payloads(c) /\ A = Requested(c)
    OBVIOUS
  <2>4. ContentsFor(P, A)'
    BY <1>4 DEF ContentsFor
  <2>5. QED
    BY <1>3, <2>1, <2>2, <2>3, <2>4, StillContents DEF ClientInv
<1>5. CASE /\ fds' = fds + 1 /\ connection' = "up" /\ client' = "buffered_write"
           /\ \E payload \in Payloads(call) : toSend' = <<Len(payload), Operation(call.op)>> \o payload
  <2>1. PICK payload \in Payloads(call) : toSend' = Framed(Operation(call.op), payload)
    BY <1>5 DEF Framed
  <2>2. Conversation'
    BY <1>1, <1>3, <1>5 DEF Conversation, Alone, Talking
  <2>3. Descriptors'
    BY <1>2, <1>3, <1>5 DEF Descriptors, Talking
  <2>4. PICK c, P, A, w : c = call /\ P = Payloads(c) /\ A = Requested(c) /\ w = Framed(Operation(c.op), payload)
    OBVIOUS
  <2>5. payload \in Seq(Nat) /\ Operation(c.op) \in Nat /\ payload \in P
    BY <1>1, <2>1, <2>4, PayloadCarriesIds, OperationIsWord
  <2>6. w \in Seq(Nat) /\ Len(w) = Len(payload) + 2
    BY <2>4, <2>5, Frames
  <2>7. Streams(<<>>, w, w)
    BY <2>6 DEF Streams
  <2>8. Len(<<>>) + Len(w) = Len(payload) + 2
    BY <2>5, <2>6
  <2>9. Asking(P, c, <<>>, w)
    BY <2>4, <2>5, <2>7, <2>8 DEF Asking
  <2>10. w # <<>>
    BY <2>5, <2>6
  <2>11. /\ call' = c /\ client' = "buffered_write" /\ request' = <<>> /\ toSend' = w
         /\ reply' = <<>> /\ buffer' = <<>>
    BY <1>3, <1>5, <2>1, <2>4
  <2>12. ContentsFor(P, A)'
    BY <2>9, <2>10, <2>11 DEF ContentsFor, Asking
  <2>13. QED
    BY <2>2, <2>3, <2>4, <2>11, <2>12, StillContents DEF ClientInv
<1>6. QED
  BY <1>4, <1>5 DEF NetConnect

LEMMA ConnectFailsKeepsInv == ClientInv /\ ConnectFails => ClientInv'
<1> SUFFICES ASSUME ClientInv, ConnectFails PROVE ClientInv'
  OBVIOUS
<1>1. client = "net_connect" /\ client' = "exited" /\ disturbed' = TRUE
  BY DEF ConnectFails
<1>2. UNCHANGED <<call, calls, fds, connection, toSend, request, reply, buffer, results>>
  BY DEF ConnectFails, stream
<1>3. Conversation'
  BY <1>1, <1>2 DEF ClientInv, Conversation, Alone, Talking
<1>4. Descriptors'
  BY <1>1, <1>2 DEF ClientInv, Descriptors, Talking
<1>5. PICK c, P, A : c = call /\ P = Payloads(c) /\ A = Requested(c)
  OBVIOUS
<1>6. ContentsFor(P, A)'
  BY <1>1 DEF ContentsFor
<1>7. QED
  BY <1>2, <1>3, <1>4, <1>5, <1>6, StillContents DEF ClientInv

LEMMA AskingMoves ==
  ASSUME NEW P, NEW c, NEW sent, NEW rest, Asking(P, c, sent, rest), NEW n \in 1..Len(rest)
  PROVE  /\ Asking(P, c, sent \o SubSeq(rest, 1, n), SubSeq(rest, n + 1, Len(rest)))
         /\ n # Len(rest) => SubSeq(rest, n + 1, Len(rest)) # <<>>
<1>0. PICK p \in P : /\ Streams(sent, rest, Framed(Operation(c.op), p))
                     /\ Len(sent) + Len(rest) = Len(p) + 2
  BY DEF Asking
<1>1. PICK w : /\ w = Framed(Operation(c.op), p) /\ Streams(sent, rest, w)
               /\ Len(sent) + Len(rest) = Len(p) + 2
  BY <1>0
<1>2. PICK a, b : a = sent \o SubSeq(rest, 1, n) /\ b = SubSeq(rest, n + 1, Len(rest))
  OBVIOUS
<1>3. Streams(a, b, w) /\ Len(a) = Len(sent) + n /\ Len(b) = Len(rest) - n
  BY <1>1, <1>2, StreamMoves
<1>4. Len(sent) \in Nat /\ Len(rest) \in Nat /\ n \in Nat
  BY <1>1 DEF Streams
<1>5. Len(a) + Len(b) = Len(p) + 2 /\ (n # Len(rest) => Len(b) # 0)
  BY <1>1, <1>3, <1>4
<1>6. n # Len(rest) => b # <<>>
  BY <1>5
<1>7. Asking(P, c, a, b)
  BY <1>0, <1>1, <1>3, <1>5 DEF Asking
<1>8. QED
  BY <1>2, <1>6, <1>7

LEMMA BufferedWriteKeepsInv == ClientInv /\ BufferedWrite => ClientInv'
<1> SUFFICES ASSUME ClientInv, BufferedWrite PROVE ClientInv'
  OBVIOUS
<1>1. PICK n \in 1..Len(toSend) :
        /\ request' = request \o SubSeq(toSend, 1, n)
        /\ toSend' = SubSeq(toSend, n + 1, Len(toSend))
        /\ client' = IF n = Len(toSend) THEN "header" ELSE "buffered_write"
  BY DEF BufferedWrite
<1>2. client = "buffered_write" /\ connection = "up"
      /\ UNCHANGED <<call, calls, fds, connection, reply, buffer, results, disturbed>>
  BY DEF BufferedWrite
<1>3. Conversation'
  BY <1>1, <1>2 DEF ClientInv, Conversation, Alone, Talking
<1>4. Descriptors'
  BY <1>1, <1>2 DEF ClientInv, Descriptors, Talking
<1>5. PICK c, P, A : c = call /\ P = Payloads(c) /\ A = Requested(c)
  OBVIOUS
<1>6. ContentsFor(P, A)'
  <2>1. Asking(P, call, request, toSend) /\ reply = <<>> /\ buffer = <<>>
    BY <1>2, <1>5 DEF ClientInv, Contents, ContentsFor
  <2>2. Asking(P, call', request', toSend') /\ (n # Len(toSend) => toSend' # <<>>)
    BY <1>1, <1>2, <2>1, AskingMoves
  <2>3. CASE n = Len(toSend)
    BY <1>1, <1>2, <2>1, <2>2, <2>3 DEF ContentsFor, Waiting, Asking
  <2>4. CASE n # Len(toSend)
    BY <1>1, <1>2, <2>1, <2>2, <2>4 DEF ContentsFor, Waiting, Asking
  <2>5. QED
    BY <2>3, <2>4
<1>7. QED
  BY <1>2, <1>3, <1>4, <1>5, <1>6, StillContents DEF ClientInv

LEMMA ReturnKeepsInv ==
  ASSUME ClientInv, client \in Talking, NEW what, NEW close, Return(what, close),
         UNCHANGED <<call, calls, disturbed>>,
         close \in BOOLEAN, call.op = "distances_raw" /\ ~disturbed => close,
         what \in Requested(call) \/ (disturbed /\ what = <<>>)
  PROVE  ClientInv'
<1>1. /\ client' = "idle" /\ results' = what /\ fds' = IF close THEN fds - 1 ELSE fds
      /\ connection' = "none" /\ toSend' = <<>> /\ request' = <<>> /\ reply' = <<>> /\ buffer' = <<>>
  BY DEF Return
<1>2. calls \in Nat /\ fds \in Nat /\ fds <= calls /\ fds > 0 /\ client # "idle"
  BY DEF ClientInv, Descriptors, Talking
<1>3. ~Alone(call) /\ call.ids \in Seq(Nat)
  BY <1>2 DEF ClientInv, Conversation
<1>4. Conversation'
  BY <1>1, <1>3 DEF Conversation, Talking, Alone
<1>5. Descriptors'
  <2>1. fds' \in Nat /\ fds' <= calls /\ (calls = 1 /\ close => fds' = 0)
    BY <1>1, <1>2
  <2>2. QED
    BY <1>1, <1>2, <2>1 DEF Descriptors, Talking
<1>6. PICK c, P, A : c = call /\ P = Payloads(c) /\ A = Requested(c)
  OBVIOUS
<1>7. ContentsFor(P, A)'
  <2>1. ~Alone(call') /\ (results' \in A \/ (disturbed' /\ results' = <<>>))
    BY <1>1, <1>3, <1>6
  <2>2. QED
    BY <1>1, <2>1 DEF ContentsFor, Alone
<1>8. QED
  BY <1>4, <1>5, <1>6, <1>7, StillContents DEF ClientInv

LEMMA WriteFailsKeepsInv == ClientInv /\ WriteFails => ClientInv'
<1> SUFFICES ASSUME ClientInv, WriteFails PROVE ClientInv'
  OBVIOUS
<1>1. client = "buffered_write" /\ connection = "broken" /\ UNCHANGED <<call, calls, disturbed>>
  BY DEF WriteFails
<1>2. disturbed = TRUE \/ disturbed
  BY <1>1 DEF ClientInv, Conversation
<1>3. CASE call.op = "distances_raw" /\ Return(<<>>, FALSE)
  BY <1>1, <1>2, <1>3, ReturnKeepsInv DEF Talking
<1>4. CASE client' = "header" /\ UNCHANGED <<fds, stream, results>>
  <2>1. UNCHANGED <<fds, connection, toSend, request, reply, buffer, results>>
    BY <1>4 DEF stream
  <2>2. Conversation'
    BY <1>1, <1>4, <2>1 DEF ClientInv, Conversation, Alone, Talking
  <2>3. Descriptors'
    BY <1>1, <1>4, <2>1 DEF ClientInv, Descriptors, Talking
  <2>4. PICK c, P, A : c = call /\ P = Payloads(c) /\ A = Requested(c)
    OBVIOUS
  <2>5. ContentsFor(P, A)'
    <3>1. Asking(P, call, request, toSend) /\ reply = <<>> /\ buffer = <<>>
      BY <1>1, <2>4 DEF ClientInv, Contents, ContentsFor
    <3>2. Waiting(P)'
      BY <1>1, <1>4, <2>1, <3>1 DEF Waiting, Asking
    <3>3. QED
      BY <1>4, <3>2 DEF ContentsFor
  <2>6. QED
    BY <1>1, <2>2, <2>3, <2>4, <2>5, StillContents DEF ClientInv
<1>5. CASE client' = "exited" /\ UNCHANGED <<fds, stream, results>>
  <2>1. UNCHANGED <<fds, connection, toSend, request, reply, buffer, results>>
    BY <1>5 DEF stream
  <2>2. Conversation'
    BY <1>1, <1>5, <2>1 DEF ClientInv, Conversation, Alone, Talking
  <2>3. Descriptors'
    BY <1>1, <1>5, <2>1 DEF ClientInv, Descriptors, Talking
  <2>4. PICK c, P, A : c = call /\ P = Payloads(c) /\ A = Requested(c)
    OBVIOUS
  <2>5. ContentsFor(P, A)'
    BY <1>5 DEF ContentsFor
  <2>6. QED
    BY <1>1, <2>2, <2>3, <2>4, <2>5, StillContents DEF ClientInv
<1>6. QED
  BY <1>3, <1>4, <1>5 DEF WriteFails

LEMMA ReadFailsKeepsInv == ClientInv /\ ReadFails => ClientInv'
<1> SUFFICES ASSUME ClientInv, ReadFails PROVE ClientInv'
  OBVIOUS
<1>1. client \in {"header", "payload"} /\ connection = "broken" /\ UNCHANGED <<call, calls, disturbed>>
      /\ Return(<<>>, FALSE)
  BY DEF ReadFails
<1>2. disturbed
  BY <1>1 DEF ClientInv, Conversation
<1>3. QED
  BY <1>1, <1>2, ReturnKeepsInv DEF Talking

LEMMA BreaksKeepsInv == ClientInv /\ ConnectionBreaks => ClientInv'
<1> SUFFICES ASSUME ClientInv, ConnectionBreaks PROVE ClientInv'
  OBVIOUS
<1>1. /\ connection = "up" /\ connection' = "broken" /\ disturbed' = TRUE
      /\ (reply' = <<>> \/ reply' = reply)
      /\ UNCHANGED <<call, calls, client, fds, toSend, request, buffer, results>>
  BY DEF ConnectionBreaks
<1>2. Conversation'
  BY <1>1 DEF ClientInv, Conversation, Alone, Talking
<1>3. Descriptors'
  BY <1>1 DEF ClientInv, Descriptors, Talking
<1>4. PICK c, P, A : c = call /\ P = Payloads(c) /\ A = Requested(c)
  OBVIOUS
<1>5. ContentsFor(P, A)'
  <2>1. ContentsFor(P, A)
    BY <1>4 DEF ClientInv, Contents
  <2>2. client # "idle"
    BY <1>1 DEF ClientInv, Conversation, Talking
  <2>3. CASE client = "buffered_write"
    <3>1. Asking(P, call, request, toSend) /\ toSend # <<>> /\ reply = <<>> /\ buffer = <<>>
      BY <2>1, <2>3 DEF ContentsFor
    <3>2. QED
      BY <1>1, <2>3, <3>1 DEF ContentsFor, Asking
  <2>4. CASE client \in {"header", "payload"} /\ Waiting(P)
    <3>1. Waiting(P)'
      BY <1>1, <2>4 DEF Waiting, Asking
    <3>2. QED
      BY <1>1, <2>4, <3>1 DEF ContentsFor
  <2>5. CASE client \in {"header", "payload"} /\ \E answer \in A : Reading(answer)
    <3>1. PICK answer \in A : Reading(answer)
      BY <2>5
    <3>2. Streams(buffer, reply', Framed(0, answer))
      <4>1. PICK w : w = Framed(0, answer) /\ Streams(buffer, reply, w)
        BY <3>1 DEF Reading, Answering
      <4>2. Streams(buffer, <<>>, w)
        <5>1. buffer \in Seq(Nat) /\ Len(buffer) <= Len(w) /\ <<>> \in Seq(Nat) /\ Len(<<>>) = 0
          BY <4>1 DEF Streams
        <5>2. QED
          BY <4>1, <5>1 DEF Streams
      <4>3. QED
        BY <1>1, <4>1, <4>2
    <3>3. Reading(answer)'
      BY <1>1, <3>1, <3>2 DEF Reading, Answering
    <3>4. QED
      BY <1>1, <2>5, <3>3 DEF ContentsFor
  <2>6. CASE client \in {"net_connect", "exited"}
    BY <1>1, <2>6 DEF ContentsFor
  <2>7. QED
    BY <2>1, <2>2, <2>3, <2>4, <2>5, <2>6 DEF ContentsFor, ClientInv, Conversation, Talking
<1>6. QED
  BY <1>1, <1>2, <1>3, <1>4, <1>5, StillContents DEF ClientInv

LEMMA WholeRequest ==
  ASSUME NEW c, c.ids \in Seq(Nat), NEW sent, NEW rest, Asking(Payloads(c), c, sent, rest),
         Len(sent) >= 2, Len(sent) = sent[1] + 2
  PROVE  rest = <<>> /\ AnswerTo(sent[2], SubSeq(sent, 3, Len(sent))) \in Requested(c)
<1>0. PICK p \in Payloads(c) : /\ Streams(sent, rest, Framed(Operation(c.op), p))
                               /\ Len(sent) + Len(rest) = Len(p) + 2
  BY DEF Asking
<1>1. PICK w : /\ w = Framed(Operation(c.op), p) /\ Streams(sent, rest, w)
               /\ Len(sent) + Len(rest) = Len(p) + 2
  BY <1>0
<1>2. p \in Seq(Nat) /\ Operation(c.op) \in Nat
  BY <1>0, PayloadCarriesIds, OperationIsWord
<1>3. /\ w \in Seq(Nat) /\ Len(w) = Len(p) + 2 /\ w[1] = Len(p) /\ w[2] = Operation(c.op)
      /\ SubSeq(w, 3, Len(p) + 2) = p
  BY <1>1, <1>2, Frames
<1>4. Len(sent) \in Nat /\ Len(rest) \in Nat /\ rest \in Seq(Nat)
  BY <1>1 DEF Streams
<1>5. sent[1] = w[1]
  <2>1. 1 \in 1..Len(sent)
    BY <1>4
  <2>2. QED
    BY <1>1, <2>1 DEF Streams
<1>6. Len(sent) = Len(w) /\ Len(rest) = 0
  BY <1>1, <1>2, <1>3, <1>4, <1>5
<1>7. sent = w
  BY <1>1, <1>6, StreamEnds
<1>8. rest = <<>>
  BY <1>4, <1>6
<1>9. AnswerTo(Operation(c.op), p) \in Requested(c)
  BY <1>0 DEF Requested
<1>10. AnswerTo(sent[2], SubSeq(sent, 3, Len(sent))) = AnswerTo(Operation(c.op), p)
  BY <1>3, <1>6, <1>7
<1>11. QED
  BY <1>8, <1>9, <1>10

LEMMA ServeKeepsInv == ClientInv /\ ServeRequest => ClientInv'
<1> SUFFICES ASSUME ClientInv, ServeRequest PROVE ClientInv'
  OBVIOUS
<1>1. /\ connection = "up" /\ reply = <<>> /\ buffer = <<>> /\ request' = <<>>
      /\ Len(request) >= 2 /\ Len(request) = request[1] + 2
      /\ UNCHANGED <<call, calls, client, fds, connection, toSend, buffer, results, disturbed>>
  BY DEF ServeRequest
<1>2. PICK answer : /\ answer = AnswerTo(request[2], SubSeq(request, 3, Len(request)))
                    /\ reply' = Framed(0, answer)
  BY DEF ServeRequest, Framed
<1>3. client \in Talking \cup {"exited"} /\ call.ids \in Seq(Nat)
  BY <1>1 DEF ClientInv, Conversation
<1>4. Conversation'
  BY <1>1 DEF ClientInv, Conversation, Alone, Talking
<1>5. Descriptors'
  BY <1>1 DEF ClientInv, Descriptors, Talking
<1>6. PICK c, P, A : c = call /\ P = Payloads(c) /\ A = Requested(c)
  OBVIOUS
<1>7. ContentsFor(P, A)'
  <2>1. ContentsFor(P, A)
    BY <1>6 DEF ClientInv, Contents
  <2>2. CASE client = "exited"
    BY <1>1, <2>2 DEF ContentsFor
  <2>3. CASE client = "buffered_write"
    <3>1. Asking(P, c, request, toSend) /\ toSend # <<>>
      BY <1>6, <2>1, <2>3 DEF ContentsFor
    <3>2. toSend = <<>>
      BY <1>1, <1>3, <1>6, <3>1, WholeRequest
    <3>3. QED
      BY <3>1, <3>2
  <2>4. CASE client \in {"header", "payload"}
    <3>1. \A a \in A : ~Reading(a)
      <4>1. Len(<<>>) = 0
        OBVIOUS
      <4>2. \A a \in A : Len(a) \in Nat
        BY <1>6, RequestedAreWords
      <4>3. QED
        BY <1>1, <4>1, <4>2 DEF Reading
    <3>2. Waiting(P)
      BY <2>1, <2>4, <3>1 DEF ContentsFor
    <3>3. Asking(P, c, request, toSend)
      BY <1>6, <3>2 DEF Waiting
    <3>4. answer \in A
      BY <1>1, <1>2, <1>3, <1>6, <3>3, WholeRequest
    <3>5. answer \in Seq(Nat)
      BY <1>6, <3>4, RequestedAreWords
    <3>6. PICK w : w = Framed(0, answer)
      OBVIOUS
    <3>7. w \in Seq(Nat) /\ Len(w) = Len(answer) + 2
      BY <3>5, <3>6, Frames
    <3>8. Streams(<<>>, w, w) /\ Len(<<>>) + Len(w) = Len(answer) + 2
      BY <3>5, <3>7 DEF Streams
    <3>9. Answering(answer, buffer', reply') /\ Len(buffer') + Len(reply') = Len(answer) + 2
      BY <1>1, <1>2, <3>6, <3>8 DEF Answering
    <3>10. client' = "header" /\ Len(buffer') = 0
      BY <1>1, <3>2 DEF Waiting
    <3>11. Reading(answer)'
      BY <1>1, <3>9, <3>10 DEF Reading, Answering
    <3>12. QED
      BY <3>4, <3>10, <3>11 DEF ContentsFor
  <2>5. QED
    BY <1>3, <2>2, <2>3, <2>4 DEF Talking
<1>8. QED
  BY <1>1, <1>4, <1>5, <1>6, <1>7, StillContents DEF ClientInv

LEMMA FramedAnswer ==
  ASSUME NEW a \in Seq(Nat)
  PROVE  /\ Len(a) \in Nat
         /\ Framed(0, a) \in Seq(Nat) /\ Len(Framed(0, a)) = Len(a) + 2
         /\ Framed(0, a)[1] = Len(a)
         /\ SubSeq(Framed(0, a), 3, Len(a) + 2) = a
<1>1. 0 \in Nat /\ Len(a) \in Nat
  OBVIOUS
<1>2. QED
  BY <1>1, Frames

LEMMA ReadingMoves ==
  ASSUME NEW answer \in Seq(Nat), Reading(answer), client \in {"header", "payload"},
         NEW n \in 1..Min({Len(reply), Expected - Len(buffer)}),
         NEW words, words = buffer \o SubSeq(reply, 1, n),
         NEW rest, rest = SubSeq(reply, n + 1, Len(reply))
  PROVE  /\ Answering(answer, words, rest)
         /\ Len(words) + Len(rest) = Len(buffer) + Len(reply)
         /\ Expected = (IF client = "header" THEN 2 ELSE Len(answer) + 2)
         /\ Len(words) \in Nat /\ Len(words) <= Expected /\ Len(words) > Len(buffer)
<1>1. PICK w : w = Framed(0, answer) /\ Streams(buffer, reply, w)
  BY DEF Reading, Answering
<1>2. /\ Len(answer) \in Nat
      /\ Len(w) = Len(answer) + 2 /\ w[1] = Len(answer)
  BY <1>1, FramedAnswer
<1>3. Len(buffer) \in Nat /\ Len(reply) \in Nat
  BY <1>1 DEF Streams
<1>4. Expected = IF client = "header" THEN 2 ELSE Len(answer) + 2
  <2>1. CASE client = "header"
    BY <2>1 DEF Expected
  <2>2. CASE client = "payload"
    <3>1. 1 \in 1..Len(buffer)
      BY <1>3, <2>2 DEF Reading
    <3>2. buffer[1] = w[1]
      BY <1>1, <3>1 DEF Streams
    <3>3. QED
      BY <1>2, <2>2, <3>2 DEF Expected
  <2>3. QED
    BY <2>1, <2>2
<1>a. PICK had \in Nat, coming \in Nat, due \in Nat :
         had = Len(buffer) /\ coming = Len(reply) /\ due = Expected
  <2>1. Expected \in Nat
    BY <1>2, <1>4
  <2>2. QED
    BY <1>3, <2>1
<1>5. PICK left \in Int : left = due - had
  OBVIOUS
<1>6. n \in 1..Len(reply) /\ n <= left
  <2>a. PICK m : m = Min({coming, left})
    OBVIOUS
  <2>1. m \in Int /\ m <= coming /\ m <= left
    <3>1. PICK s : s = {coming, left}
      OBVIOUS
    <3>2. \E x \in s : \A y \in s : x <= y
      <4>1. CASE coming <= left
        BY <3>1, <4>1
      <4>2. CASE left <= coming
        BY <3>1, <4>2
      <4>3. QED
        BY <1>a, <1>5, <4>1, <4>2
    <3>3. m = CHOOSE x \in s : \A y \in s : x <= y
      BY <2>a, <3>1 DEF Min
    <3>4. m \in s /\ \A y \in s : m <= y
      BY <3>2, <3>3
    <3>5. QED
      BY <1>a, <1>5, <3>1, <3>4
  <2>2. Min({Len(reply), Expected - Len(buffer)}) = m
    BY <1>a, <1>5, <2>a
  <2>3. n \in 1..m
    BY <2>2
  <2>4. QED
    BY <1>a, <2>1, <2>3
<1>7. Streams(words, rest, w) /\ Len(words) = Len(buffer) + n /\ Len(rest) = Len(reply) - n
  BY <1>1, <1>6, StreamMoves
<1>8. Len(words) + Len(rest) = Len(buffer) + Len(reply)
  <2>1. PICK j \in Nat : j = n
    BY <1>a, <1>6
  <2>2. PICK x, y : x = Len(words) /\ y = Len(rest)
    OBVIOUS
  <2>3. x = had + j /\ y = coming - j
    BY <1>a, <1>7, <2>1, <2>2
  <2>4. x + y = had + coming
    BY <2>3
  <2>5. QED
    BY <1>a, <2>2, <2>4
<1>9. Len(words) \in Nat /\ Len(words) <= Expected /\ Len(words) > Len(buffer)
  <2>1. n \in Nat /\ n >= 1 /\ n <= due - had
    BY <1>5, <1>6
  <2>2. Len(words) = had + n
    BY <1>a, <1>7
  <2>3. QED
    BY <1>a, <2>1, <2>2
<1>10. QED
  BY <1>1, <1>4, <1>7, <1>8, <1>9 DEF Answering

LEMMA BufferedReadKeepsInv == ClientInv /\ BufferedRead => ClientInv'
<1> SUFFICES ASSUME ClientInv, BufferedRead PROVE ClientInv'
  OBVIOUS
<1>1. client \in {"header", "payload"} /\ reply # <<>> /\ UNCHANGED <<call, calls, disturbed>>
  BY DEF BufferedRead
<1>2. PICK n \in 1..Min({Len(reply), Expected - Len(buffer)}) :
        LET words == buffer \o SubSeq(reply, 1, n)
        IN  IF ~ReadAll(words)
            THEN /\ buffer' = words /\ reply' = SubSeq(reply, n + 1, Len(reply))
                 /\ UNCHANGED <<client, fds, connection, toSend, request, results>>
            ELSE IF client = "header" /\ words[1] > 0
            THEN /\ client' = "payload"
                 /\ buffer' = words /\ reply' = SubSeq(reply, n + 1, Len(reply))
                 /\ UNCHANGED <<fds, connection, toSend, request, results>>
            ELSE Return(SubSeq(words, 3, Len(words)), call.op = "distances_raw")
  BY DEF BufferedRead
<1>3. PICK words, rest : words = buffer \o SubSeq(reply, 1, n) /\ rest = SubSeq(reply, n + 1, Len(reply))
  OBVIOUS
<1>4. call.ids \in Seq(Nat) /\ connection # "none"
  BY <1>1 DEF ClientInv, Conversation, Talking
<1>5. PICK c, P, A : c = call /\ P = Payloads(c) /\ A = Requested(c)
  OBVIOUS
<1>a. PICK answer \in A : Reading(answer)
  BY <1>1, <1>5 DEF ClientInv, Contents, ContentsFor, Waiting
<1>b. answer \in Seq(Nat)
  BY <1>5, RequestedAreWords
<1>6. /\ Answering(answer, words, rest)
      /\ Len(words) + Len(rest) = Len(buffer) + Len(reply)
      /\ Expected = (IF client = "header" THEN 2 ELSE Len(answer) + 2)
      /\ Len(words) \in Nat /\ Len(words) <= Expected /\ Len(words) > Len(buffer)
  BY <1>1, <1>3, <1>a, <1>b, ReadingMoves
<1>7. /\ Len(answer) \in Nat
      /\ Framed(0, answer) \in Seq(Nat) /\ Len(Framed(0, answer)) = Len(answer) + 2
      /\ Framed(0, answer)[1] = Len(answer)
      /\ SubSeq(Framed(0, answer), 3, Len(answer) + 2) = answer
  BY <1>b, FramedAnswer
<1>8. CASE ~ReadAll(words)
  <2>1. /\ buffer' = words /\ reply' = rest
        /\ UNCHANGED <<call, calls, client, fds, connection, toSend, request, results, disturbed>>
    BY <1>1, <1>2, <1>3, <1>8
  <2>2. Conversation'
    BY <1>4, <2>1 DEF ClientInv, Conversation, Alone, Talking
  <2>3. Descriptors'
    BY <2>1 DEF ClientInv, Descriptors, Talking
  <2>4. ContentsFor(P, A)'
    <3>1. Reading(answer) /\ Len(words) < Expected
      <4>1. PICK had \in Nat, due \in Nat : had = Len(words) /\ due = Expected
        BY <1>6, <1>7
      <4>2. had <= due /\ had # due
        BY <1>6, <1>8, <4>1 DEF ReadAll
      <4>3. had < due
        BY <4>2
      <4>4. QED
        BY <1>a, <4>1, <4>3
    <3>2. client = "header" => Len(words) < 2
      BY <1>6, <3>1
    <3>3. client = "payload" => Len(words) >= 2 /\ Len(words) < Len(answer) + 2
      <4>1. buffer \in Seq(Nat) /\ Len(buffer) \in Nat
        BY <3>1 DEF Reading, Answering, Streams
      <4>2. QED
        BY <1>6, <3>1, <4>1 DEF Reading
    <3>4. Reading(answer)'
      BY <1>6, <2>1, <3>1, <3>2, <3>3 DEF Reading, Answering
    <3>5. QED
      BY <1>1, <2>1, <3>4 DEF ContentsFor
  <2>5. QED
    BY <1>1, <1>5, <2>1, <2>2, <2>3, <2>4, StillContents DEF ClientInv
<1>9. CASE ReadAll(words) /\ client = "header" /\ words[1] > 0
  <2>1. /\ buffer' = words /\ reply' = rest /\ client' = "payload"
        /\ UNCHANGED <<call, calls, fds, connection, toSend, request, results, disturbed>>
    BY <1>1, <1>2, <1>3, <1>9
  <2>2. Conversation'
    BY <1>1, <1>4, <2>1 DEF ClientInv, Conversation, Alone, Talking
  <2>3. Descriptors'
    BY <1>1, <2>1 DEF ClientInv, Descriptors, Talking
  <2>4. ContentsFor(P, A)'
    <3>1. Reading(answer) /\ Len(words) = 2
      BY <1>a, <1>6, <1>9 DEF ReadAll
    <3>2. words[1] = Len(answer)
      <4>1. 1 \in 1..Len(words)
        BY <3>1
      <4>2. words[1] = Framed(0, answer)[1]
        BY <1>6, <4>1 DEF Answering, Streams
      <4>3. QED
        BY <1>7, <4>2
    <3>3. Len(words) < Len(answer) + 2
      BY <1>7, <1>9, <3>1, <3>2
    <3>4. Reading(answer)'
      BY <1>6, <2>1, <3>1, <3>3 DEF Reading, Answering
    <3>5. QED
      BY <2>1, <3>4 DEF ContentsFor
  <2>5. QED
    BY <1>1, <1>5, <2>1, <2>2, <2>3, <2>4, StillContents DEF ClientInv
<1>10. CASE ReadAll(words) /\ ~(client = "header" /\ words[1] > 0)
  <2>1. PICK what : what = SubSeq(words, 3, Len(words))
    OBVIOUS
  <2>2. PICK close \in BOOLEAN : close = (call.op = "distances_raw")
    OBVIOUS
  <2>3. Return(what, close)
    BY <1>2, <1>3, <1>10, <2>1, <2>2
  <2>4. what = answer
    <3>1. Len(words) = Len(answer) + 2
      <4>1. CASE client = "payload"
        BY <1>6, <1>10, <4>1 DEF ReadAll
      <4>2. CASE client = "header"
        <5>1. Len(words) = 2 /\ ~(words[1] > 0)
          BY <1>6, <1>10, <4>2 DEF ReadAll
        <5>2. words[1] = Framed(0, answer)[1]
          <6>1. 1 \in 1..Len(words)
            BY <5>1
          <6>2. QED
            BY <1>6, <6>1 DEF Answering, Streams
        <5>3. Len(answer) = 0
          BY <1>7, <5>1, <5>2
        <5>4. QED
          BY <5>1, <5>3
      <4>3. QED
        BY <1>1, <4>1, <4>2
    <3>2. words = Framed(0, answer)
      BY <1>6, <1>7, <3>1, StreamEnds DEF Answering
    <3>3. QED
      BY <1>7, <2>1, <3>1, <3>2
  <2>5. QED
    BY <1>1, <1>5, <2>2, <2>3, <2>4, ReturnKeepsInv DEF Talking
<1>11. QED
  BY <1>8, <1>9, <1>10

LEMMA NextClientInv == ClientInv /\ [NextClient]_clientVars => ClientInv'
<1> SUFFICES ASSUME ClientInv, [NextClient]_clientVars PROVE ClientInv'
  OBVIOUS
<1>1. ASSUME NEW c \in ClientCalls, Call(c) PROVE ClientInv'
  BY <1>1, CallKeepsInv
<1>2. CASE NetConnect \/ ConnectFails \/ BufferedWrite \/ WriteFails
  BY <1>2, NetConnectKeepsInv, ConnectFailsKeepsInv, BufferedWriteKeepsInv, WriteFailsKeepsInv
<1>3. CASE BufferedRead \/ ReadFails \/ ServeRequest \/ ConnectionBreaks
  BY <1>3, BufferedReadKeepsInv, ReadFailsKeepsInv, ServeKeepsInv, BreaksKeepsInv
<1>4. CASE UNCHANGED clientVars
  <2>1. PICK c, P, A : c = call /\ P = Payloads(c) /\ A = Requested(c)
    OBVIOUS
  <2>2. ContentsFor(P, A)
    BY <2>1 DEF ClientInv, Contents
  <2>3. ContentsFor(P, A)'
    BY <1>4, <2>2 DEF clientVars, ContentsFor, Waiting, Reading, Asking, Answering, Alone
  <2>4. Conversation' /\ Descriptors' /\ call' = c
    BY <1>4, <2>1 DEF clientVars, ClientInv, Conversation, Descriptors, Alone
  <2>5. QED
    BY <2>1, <2>3, <2>4, StillContents DEF ClientInv
<1>5. QED
  BY <1>1, <1>2, <1>3, <1>4 DEF NextClient

(* However send and recv cut the streams, a call of RelationshipClient     *)
(* that nothing disturbs returns the server's whole answer to a request    *)
(* the call may send, which is the one for its ids whenever the request    *)
(* carries them (all but distances of a vector of several), and a          *)
(* disturbed one that or nothing; distances_raw closes its descriptor.     *)
THEOREM CallsGetWholeAnswers == InitClient /\ [][NextClient]_clientVars => []ClientGetsWholeAnswer
<1>1. InitClient => ClientInv
  BY InitClientInv
<1>2. ClientInv /\ [NextClient]_clientVars => ClientInv'
  BY NextClientInv
<1>3. ClientInv => ClientGetsWholeAnswer
  BY ClientInvHolds
<1>4. QED
  BY <1>1, <1>2, <1>3, PTL

-----------------------------------------------------------------------------
(* The build of the distances.                                             *)

Sites == DOMAIN idsToUrls
Named == {urlsToIds[u] : u \in DOMAIN urlsToIds}
(* What the query for the name of a site leaves as its links.              *)
Read(id) == Append(Matches(idsToUrls[id]), id)
(* The names the chunks still to be sent ask for.                          *)
Pending == UNION {ToSet(chunks[k]) : k \in DOMAIN chunks}

(* The two tables of generate_mappings.                                    *)
Mapped ==
  /\ db \in Databases
  /\ \E n \in Nat : Sites = 0..n
  /\ \A id \in Sites : idsToUrls[id] \in DOMAIN db.links \cup {NoName}
  /\ \A id \in Sites : idsToUrls[id] # NoName => idsToUrls[id] \in DOMAIN urlsToIds
  /\ IsFiniteSet(DOMAIN urlsToIds) /\ Named \subseteq Sites
  /\ \A id \in Named : idsToUrls[id] # NoName
  /\ \A u \in DOMAIN urlsToIds : idsToUrls[urlsToIds[u]] = u
  /\ DOMAIN inlinks = Sites
(* A site has no links yet or all its query returns; all of them once no   *)
(* chunk asks for its name.  The pairs are those of the links.             *)
LinksRead ==
  /\ \A id \in Sites : inlinks[id] = <<>> \/ (inlinks[id] = Read(id) /\ id \in Named)
  /\ \A u \in DOMAIN urlsToIds \ Pending : inlinks[urlsToIds[u]] = Read(urlsToIds[u])
  /\ \A a, id : <<a, id>> \in existence <=>
                  id \in Sites /\ inlinks[id] # <<>> /\ a \in ToSet(Matches(idsToUrls[id]))
ChunksAreNames ==
  /\ chunks \in Seq(Seq(DOMAIN urlsToIds))
  /\ Pending \subseteq DOMAIN urlsToIds

KeptOf(s, x, y) == {s[k] : k \in DOMAIN s \cap {<<x, y>>}}
Kept(x, y) == KeptOf(stored, x, y)
Linked(x) == x \in Sites /\ inlinks[x] # <<>>
KeysAreLinked == \A k \in DOMAIN stored : \E x, y : k = <<x, y>> /\ Linked(x) /\ Linked(y)
(* The pairs build has come by.                                            *)
Passed(x, y) == building = "built" \/ x < pair[1] \/ (x = pair[1] /\ y < pair[2])
StoredSoFar ==
  \A x, y \in Sites : x < y => Kept(x, y) = IF Passed(x, y) THEN OneDistance(x, y) ELSE {}

BuildInv ==
  /\ building \in {"start", "mapped", "query", "hashed", "calculate", "built", "between", "dead"}
  /\ building \in {"start", "mapped", "query", "hashed"} => db \in Databases /\ stored = <<>>
  /\ building \notin {"start", "dead"} => Mapped
  /\ building = "start" => existence = {}
  /\ building = "mapped" => existence = {} /\ \A id \in Sites : inlinks[id] = <<>>
  /\ building \in {"query", "hashed", "calculate", "built", "between"} => LinksRead
  /\ building = "query" => ChunksAreNames
  /\ building \in {"hashed", "calculate", "built", "between"} => chunks = <<>>
  /\ building \in {"calculate", "built", "between"} => KeysAreLinked
  /\ building \in {"calculate", "built"} => StoredSoFar
  /\ building = "calculate" => \E x, y \in Sites : pair = <<x, y>> /\ x < y
  /\ building = "between" => \E x, y \in Sites : pair = <<x, y>> /\ Kept(x, y) = OneDistance(x, y)

-----------------------------------------------------------------------------
(* Sets and the sequences that list them.                                  *)

Lists(s, n, S) == s \in [1..n -> S] /\ IsInjective(s) /\ ToSet(s) = S

LEMMA ListedByInjection ==
  ASSUME NEW S, IsFiniteSet(S), NEW s \in [1..Cardinality(S) -> S], IsInjective(s)
  PROVE  ToSet(s) = S
<1>1. PICK n \in Nat : n = Cardinality(S)
  BY FS_CardinalityType
<1>2. s \in Injection(1..n, S) /\ Cardinality(1..n) = Cardinality(S) /\ IsFiniteSet(1..n)
  BY <1>1, Indices DEF Injection
<1>3. s \in Surjection(1..n, S)
  BY <1>2, FS_Injection
<1>4. \A x \in S : \E k \in 1..n : s[k] = x
  BY <1>3 DEF Surjection
<1>5. DOMAIN s = 1..n /\ \A k \in 1..n : s[k] \in S
  BY <1>1
<1>6. QED
  BY <1>4, <1>5 DEF ToSet

LEMMA SetIsListed ==
  ASSUME NEW S, IsFiniteSet(S)
  PROVE  Lists(SetToSeq(S), Cardinality(S), S)
<1>1. PICK f : f \in Bijection(1..Cardinality(S), S)
  BY FS_CardinalityType DEF ExistsBijection
<1>2. f \in [1..Cardinality(S) -> S] /\ IsInjective(f)
  BY <1>1 DEF Bijection, Injection
<1>3. SetToSeq(S) \in [1..Cardinality(S) -> S] /\ IsInjective(SetToSeq(S))
  BY <1>2 DEF SetToSeq
<1>4. QED
  BY <1>3, ListedByInjection DEF Lists

(* The places of a list that hold members of T.                             *)
Hits(s, n, T) == {k \in 1..n : s[k] \in T}

LEMMA ListedOnce ==
  ASSUME NEW n \in Nat, NEW S, NEW s, Lists(s, n, S), NEW T
  PROVE  /\ IsFiniteSet(S) /\ Cardinality(S) = n
         /\ Cardinality(Hits(s, n, T)) = Cardinality(S \cap T)
<1>1. s \in [1..n -> S] /\ ToSet(s) = S /\ \A j, k \in 1..n : s[j] = s[k] => j = k
  BY DEF Lists, IsInjective
<1>2. \A x \in S : \E k \in 1..n : s[k] = x
  BY <1>1 DEF ToSet
<1>3. s \in Bijection(1..n, S)
  BY <1>1, <1>2 DEF Bijection, Injection, Surjection, IsInjective
<1>4. IsFiniteSet(1..n) /\ Cardinality(1..n) = n
  BY Indices
<1>5. IsFiniteSet(S) /\ Cardinality(S) = n
  BY <1>3, <1>4, FS_Bijection DEF ExistsBijection
<1>6. PICK K : K = {k \in 1..n : s[k] \in T}
  OBVIOUS
<1>7. IsFiniteSet(K)
  BY <1>4, <1>6, FS_Subset
<1>8. PICK g : g = [k \in K |-> s[k]]
  OBVIOUS
<1>9. g \in Bijection(K, S \cap T)
  <2>1. g \in [K -> S \cap T] /\ \A j, k \in K : g[j] = g[k] => j = k
    BY <1>1, <1>6, <1>8
  <2>2. \A x \in S \cap T : \E k \in K : g[k] = x
    BY <1>2, <1>6, <1>8
  <2>3. QED
    BY <2>1, <2>2 DEF Bijection, Injection, Surjection, IsInjective
<1>10. Cardinality(S \cap T) = Cardinality(K)
  BY <1>7, <1>9, FS_Bijection DEF ExistsBijection
<1>11. QED
  BY <1>5, <1>6, <1>10 DEF Hits

(* A longer list.                                                          *)
LEMMA ListOneMore ==
  ASSUME NEW n \in Nat, NEW S, NEW s, Lists(s, n, S), NEW x, x \notin S
  PROVE  Lists(Append(s, x), n + 1, S \cup {x}) /\ Len(Append(s, x)) = n + 1
<1>1. s \in [1..n -> S] /\ ToSet(s) = S /\ \A j, k \in 1..n : s[j] = s[k] => j = k
  BY DEF Lists, IsInjective
<1>2. s \in Seq(S) /\ Len(s) = n
  BY <1>1
<1>3. PICK t : t = Append(s, x)
  OBVIOUS
<1>4. /\ t \in [1..n + 1 -> S \cup {x}] /\ Len(t) = n + 1 /\ DOMAIN t = 1..n + 1
      /\ t[n + 1] = x /\ \A k \in 1..n : t[k] = s[k]
  <2>1. s \in Seq(S \cup {x}) /\ x \in S \cup {x}
    BY <1>1
  <2>2. t \in Seq(S \cup {x}) /\ Len(t) = n + 1
    BY <1>2, <1>3, <2>1
  <2>3. t[n + 1] = x /\ \A k \in 1..n : t[k] = s[k]
    BY <1>2, <1>3, <2>1
  <2>4. QED
    BY <2>2, <2>3
<1>5. \A k \in 1..n : s[k] \in S /\ t[k] # x
  BY <1>1, <1>4
<1>6. ASSUME NEW j \in 1..n + 1, NEW k \in 1..n + 1, t[j] = t[k] PROVE j = k
  <2>1. j \in 1..n \/ j = n + 1
    OBVIOUS
  <2>2. k \in 1..n \/ k = n + 1
    OBVIOUS
  <2>3. CASE j \in 1..n /\ k \in 1..n
    BY <1>1, <1>4, <1>6, <2>3
  <2>4. CASE j = n + 1 \/ k = n + 1
    BY <1>4, <1>5, <1>6, <2>1, <2>2, <2>4
  <2>5. QED
    BY <2>1, <2>2, <2>3, <2>4
<1>7. ToSet(t) = S \cup {x}
  <2>1. \A y \in S : \E k \in 1..n : s[k] = y
    BY <1>1 DEF ToSet
  <2>2. \A y \in S : \E k \in 1..n + 1 : t[k] = y
    BY <1>4, <2>1
  <2>3. \A y \in S \cup {x} : \E k \in DOMAIN t : t[k] = y
    BY <1>4, <2>2
  <2>4. QED
    BY <1>4, <2>3 DEF ToSet
<1>8. QED
  BY <1>3, <1>4, <1>6, <1>7 DEF Lists, IsInjective

LEMMA MatchesAreListed ==
  ASSUME NEW u, IsFiniteSet(db.links[u])
  PROVE  /\ Matches(u) \in Seq(db.links[u])
         /\ Cardinality(db.links[u]) <= SphinxLimit =>
              Lists(Matches(u), Cardinality(db.links[u]), db.links[u])
<1>1. PICK S : S = db.links[u]
  OBVIOUS
<1>2. PICK n \in Nat : n = Cardinality(S)
  BY <1>1, FS_CardinalityType
<1>3. PICK all : all = SetToSeq(S)
  OBVIOUS
<1>4. Lists(all, n, S)
  BY <1>1, <1>2, <1>3, SetIsListed
<1>5. all \in Seq(S) /\ Len(all) = n
  BY <1>4 DEF Lists
<1>6. PICK m \in Int : m = Min({SphinxLimit, n}) /\ m <= n /\ (n <= SphinxLimit => m = n) /\ m >= 0
  <2>1. SphinxLimit \in Nat
    BY BuildAssumption DEF BuildAssumption
  <2>2. PICK m : m = Min({SphinxLimit, n})
    OBVIOUS
  <2>3. \E j \in {SphinxLimit, n} : \A k \in {SphinxLimit, n} : j <= k
    <3>1. CASE SphinxLimit <= n
      BY <2>1, <3>1
    <3>2. CASE n <= SphinxLimit
      BY <2>1, <3>2
    <3>3. QED
      BY <2>1, <3>1, <3>2
  <2>4. m \in {SphinxLimit, n} /\ \A k \in {SphinxLimit, n} : m <= k
    BY <2>2, <2>3 DEF Min
  <2>5. QED
    BY <2>1, <2>2, <2>4
<1>7. Matches(u) = SubSeq(all, 1, m)
  BY <1>1, <1>2, <1>3, <1>5, <1>6 DEF Matches
<1>8. SubSeq(all, 1, m) \in Seq(S)
  <2>1. all \in Seq(S) /\ m \in Nat /\ m <= Len(all)
    BY <1>5, <1>6
  <2>2. QED
    BY <2>1
<1>9. ASSUME n <= SphinxLimit PROVE SubSeq(all, 1, m) = all
  <2>1. m = n
    BY <1>6, <1>9
  <2>2. SubSeq(all, 1, n) = all
    BY <1>5
  <2>3. QED
    BY <2>1, <2>2
<1>10. QED
  BY <1>1, <1>2, <1>4, <1>7, <1>8, <1>9

-----------------------------------------------------------------------------
(* What calculate_one_distance computes.                                   *)

LEMMA Shares ==
  ASSUME NEW n \in Nat \ {0}, NEW both \in Nat, both <= n
  PROVE  (both * 128) \div n \in 0..128
<1>1. PICK q : q = (both * 128) \div n
  OBVIOUS
<1>2. q \in Nat /\ n * q <= both * 128
  BY <1>1
<1>3. ASSUME q >= 129 PROVE FALSE
  <2>1. n * q >= n * 129
    BY <1>2, <1>3
  <2>2. QED
    BY <1>2, <2>1
<1>4. QED
  BY <1>1, <1>2, <1>3

LEMMA RoundedUp ==
  ASSUME NEW d \in Nat
  PROVE  Max({1, d}) = AtLeastOne(d)
<1>1. CASE d = 0
  <2>1. Max({1, d}) = 1
    BY <1>1, MaxOf
  <2>2. QED
    BY <1>1, <2>1 DEF AtLeastOne
<1>2. CASE d # 0
  <2>1. Max({1, d}) = d
    BY <1>2, MaxOf
  <2>2. QED
    BY <1>2, <2>1 DEF AtLeastOne
<1>3. QED
  BY <1>1, <1>2

(* The threshold, and the byte the distance is kept in.                    *)
Kept256(found) == {UnsignedChar(d) : d \in {e \in found : e <= StoreLimit}}
LEMMA FitsByte ==
  ASSUME NEW d \in Nat
  PROVE  Kept256({d}) = IF d > StoreLimit THEN {} ELSE {d}
<1>1. StoreLimit \in 0..255
  BY BuildAssumption DEF BuildAssumption
<1>2. CASE d > StoreLimit
  BY <1>1, <1>2 DEF Kept256
<1>3. CASE ~(d > StoreLimit)
  <2>1. d % 256 = d /\ d <= StoreLimit
    BY <1>1, <1>3
  <2>2. {e \in {d} : e <= StoreLimit} = {d}
    BY <2>1
  <2>3. Kept256({d}) = {UnsignedChar(d)}
    BY <2>2 DEF Kept256
  <2>4. QED
    BY <1>3, <2>1, <2>3 DEF UnsignedChar
<1>4. QED
  BY <1>2, <1>3

(* What is known of the links of two sites.                                *)
ReadWhole(x, n, A) ==
  /\ A = LinkingTo(x) /\ x \in A /\ Lists(inlinks[x], n, A) /\ Len(inlinks[x]) = n
  /\ \A z : <<z, x>> \in existence <=> z \in A /\ z # x

LEMMA BothAreCounted ==
  ASSUME NEW x, NEW y, NEW n \in Nat, NEW A, NEW m \in Nat, NEW B,
         ReadWhole(x, n, A), ReadWhole(y, m, B)
  PROVE  /\ LinksBoth(x, y) = Cardinality(A \cap B) /\ LinksBoth(x, y) \in Nat
         /\ LinksBoth(x, y) <= n /\ LinksBoth(x, y) <= m
         /\ Cardinality(A) = n /\ Cardinality(B) = m /\ IsFiniteSet(A) /\ IsFiniteSet(B)
<1>1. PICK a : a = inlinks[x]
  OBVIOUS
<1>2. Lists(a, n, A) /\ DOMAIN a = 1..n
  BY <1>1 DEF ReadWhole, Lists
<1>3. /\ IsFiniteSet(A) /\ Cardinality(A) = n
      /\ Cardinality(Hits(a, n, B)) = Cardinality(A \cap B)
  BY <1>2, ListedOnce
<1>4. IsFiniteSet(B) /\ Cardinality(B) = m
  <2>1. Lists(inlinks[y], m, B)
    BY DEF ReadWhole
  <2>2. QED
    BY <2>1, ListedOnce
<1>5. \A z : (z = y \/ <<z, y>> \in existence) <=> z \in B
  BY DEF ReadWhole
<1>6. {k \in DOMAIN a : a[k] = y \/ <<a[k], y>> \in existence} = Hits(a, n, B)
  BY <1>2, <1>5 DEF Hits
<1>7. LinksBoth(x, y) = Cardinality(A \cap B)
  BY <1>1, <1>3, <1>6 DEF LinksBoth
<1>8. Cardinality(A \cap B) \in Nat /\ Cardinality(A \cap B) <= n /\ Cardinality(A \cap B) <= m
  <2>1. A \cap B \in SUBSET A /\ A \cap B \in SUBSET B
    OBVIOUS
  <2>2. IsFiniteSet(A \cap B) /\ Cardinality(A \cap B) <= Cardinality(A)
    BY <1>3, <2>1, FS_Subset
  <2>3. Cardinality(A \cap B) <= Cardinality(B)
    BY <1>4, <2>1, FS_Subset
  <2>4. Cardinality(A \cap B) \in Nat
    BY <2>2, FS_CardinalityType
  <2>5. QED
    BY <1>3, <1>4, <2>2, <2>3, <2>4
<1>9. QED
  BY <1>3, <1>4, <1>7, <1>8

(* The distance measured, in the terms of the code.                        *)
Wide(both, n, m) == 256 - ((both * 128) \div n) - ((both * 128) \div m)
Rounded(both, n, m) == AtLeastOne(Wide(both, n, m))

LEMMA RoundedIs ==
  ASSUME NEW n \in Nat \ {0}, NEW m \in Nat \ {0}, NEW both \in Nat, both <= n, both <= m
  PROVE  /\ Rounded(both, n, m) \in Nat /\ Rounded(both, n, m) = Rounded(both, m, n)
         /\ Max({1, Wide(both, n, m)}) = Rounded(both, n, m)
<1>1. PICK p : p = (both * 128) \div n
  OBVIOUS
<1>2. PICK q : q = (both * 128) \div m
  OBVIOUS
<1>3. p \in 0..128 /\ q \in 0..128
  BY <1>1, <1>2, Shares
<1>4. Wide(both, n, m) = 256 - p - q /\ Wide(both, m, n) = 256 - q - p
  BY <1>1, <1>2 DEF Wide
<1>5. PICK e : e = Wide(both, n, m)
  OBVIOUS
<1>6. e \in Nat /\ Wide(both, m, n) = e
  BY <1>3, <1>4, <1>5
<1>7. AtLeastOne(e) \in Nat
  BY <1>6 DEF AtLeastOne
<1>8. Max({1, e}) = AtLeastOne(e)
  BY <1>6, RoundedUp
<1>9. QED
  BY <1>5, <1>6, <1>7, <1>8 DEF Rounded

LEMMA MeasuredIs ==
  ASSUME NEW x, NEW y, NEW n \in Nat \ {0}, NEW A, NEW m \in Nat \ {0}, NEW B,
         ReadWhole(x, n, A), ReadWhole(y, m, B)
  PROVE  Measured(x, y) = IF LinksBoth(x, y) = 0 THEN {} ELSE Kept256({Rounded(LinksBoth(x, y), n, m)})
<1>1. PICK both : both = LinksBoth(x, y)
  OBVIOUS
<1>2. /\ both = Cardinality(A \cap B) /\ both \in Nat /\ both <= n /\ both <= m
      /\ Cardinality(A) = n /\ Cardinality(B) = m
  BY <1>1, BothAreCounted
<1>3. A = LinkingTo(x) /\ B = LinkingTo(y)
  BY DEF ReadWhole
<1>4. PICK d : d = Rounded(both, n, m)
  OBVIOUS
<1>5. d \in Nat /\ Max({1, Wide(both, n, m)}) = d
  BY <1>2, <1>4, RoundedIs
<1>6. Measured(x, y) = IF both = 0 \/ d > StoreLimit THEN {} ELSE {d}
  <2>1. Measured(x, y) =
          IF both = 0 \/ Max({1, Wide(both, n, m)}) > StoreLimit THEN {} ELSE {Max({1, Wide(both, n, m)})}
    BY <1>2, <1>3 DEF Measured, Wide
  <2>2. QED
    BY <1>5, <2>1
<1>7. Kept256({d}) = IF d > StoreLimit THEN {} ELSE {d}
  BY <1>5, FitsByte
<1>8. QED
  BY <1>1, <1>4, <1>6, <1>7

LEMMA Halves ==
  ASSUME NEW n \in Nat \ {0}
  PROVE  /\ Half = 128 /\ DistRange = 256
         /\ (0 * 128) \div n = 0 /\ (1 * 128) \div 1 = 128
<1>1. DistRange = 256
  BY BuildAssumption DEF BuildAssumption
<1>2. QED
  BY <1>1 DEF Half

(* A site that only links to itself has one link in common with the sites  *)
(* it links to.                                                            *)
LEMMA LonelyMeasured ==
  ASSUME NEW x, NEW y, x # y, NEW A, NEW B, NEW m \in Nat \ {0}, ReadWhole(x, 1, A), ReadWhole(y, m, B)
  PROVE  Kept256(DistanceToLonely(x, y)) =
           IF LinksBoth(x, y) = 0 THEN {} ELSE Kept256({Rounded(LinksBoth(x, y), 1, m)})
<1>0. PICK both : both = LinksBoth(x, y)
  OBVIOUS
<1>1. /\ both = Cardinality(A \cap B)
      /\ Cardinality(A) = 1 /\ IsFiniteSet(A) /\ IsFiniteSet(B)
  BY <1>0, BothAreCounted
<1>2. A = {x}
  <2>1. PICK z : A = {z}
    BY <1>1, FS_Singleton
  <2>2. QED
    BY <2>1 DEF ReadWhole
<1>3. <<x, y>> \in existence <=> x \in B
  BY DEF ReadWhole
<1>4. Len(inlinks[y]) = m
  BY DEF ReadWhole
<1>5. CASE x \in B
  <2>1. A \cap B = {x}
    BY <1>2, <1>5
  <2>2. both = 1
    BY <1>1, <2>1, FS_Singleton
  <2>3. {<<x, y>>} \cap existence = {<<x, y>>}
    BY <1>3, <1>5
  <2>a. DistanceToLonely(x, y) = {AtLeastOne(Half - (Half \div m)) : z \in {<<x, y>>}}
    BY <1>4, <2>3, Zenon DEF DistanceToLonely
  <2>b. Half = 128
    BY Halves
  <2>4. DistanceToLonely(x, y) = {AtLeastOne(128 - (128 \div m))}
    BY <2>a, <2>b, Zenon
  <2>5. 256 - ((1 * 128) \div 1) - ((1 * 128) \div m) = 128 - (128 \div m)
    OBVIOUS
  <2>6. Rounded(1, 1, m) = AtLeastOne(128 - (128 \div m))
    BY <2>5, SMT DEF Rounded, Wide
  <2>7. QED
    BY <1>0, <2>2, <2>4, <2>6, SMT
<1>6. CASE x \notin B
  <2>1. A \cap B = {}
    BY <1>2, <1>6
  <2>2. both = 0
    BY <1>1, <2>1, FS_EmptySet
  <2>3. {<<x, y>>} \cap existence = {}
    BY <1>3, <1>6
  <2>4. DistanceToLonely(x, y) = {}
    BY <2>3, Zenon DEF DistanceToLonely
  <2>5. Kept256({}) = {}
    BY DEF Kept256
  <2>6. QED
    BY <1>0, <2>2, <2>4, <2>5
<1>7. QED
  BY <1>5, <1>6

(* The branches of calculate_one_distance.                                 *)
FoundOf(x, y, n, m, both) ==
  IF n = 0 \/ m = 0 THEN {}
  ELSE IF n = 1 THEN DistanceToLonely(x, y)
  ELSE IF m = 1 THEN DistanceToLonely(y, x)
  ELSE IF both = 0 THEN {}
  ELSE {AtLeastOne(DistRange - ((both * Half) \div n) - ((both * Half) \div m))}

LEMMA OneDistanceMeasures ==
  ASSUME NEW x, NEW y, x # y, NEW n \in Nat \ {0}, NEW A, NEW m \in Nat \ {0}, NEW B,
         ReadWhole(x, n, A), ReadWhole(y, m, B)
  PROVE  OneDistance(x, y) = Measured(x, y)
<1>1. PICK both : both = LinksBoth(x, y)
  OBVIOUS
<1>2. both \in Nat /\ both <= n /\ both <= m /\ both = Cardinality(A \cap B)
  BY <1>1, BothAreCounted
<1>3. Len(inlinks[x]) = n /\ Len(inlinks[y]) = m
  BY DEF ReadWhole
<1>4. PICK d : d = Rounded(both, n, m)
  OBVIOUS
<1>5. Measured(x, y) = IF both = 0 THEN {} ELSE Kept256({d})
  BY <1>1, <1>4, MeasuredIs
<1>6. PICK found : found = FoundOf(x, y, n, m, both)
  OBVIOUS
<1>7. OneDistance(x, y) = Kept256(found)
  BY <1>1, <1>3, <1>6, Zenon DEF OneDistance, Kept256, FoundOf
<1>9. Kept256({}) = {}
  BY DEF Kept256
<1>10. CASE n = 1
  <2>1. found = DistanceToLonely(x, y)
    BY <1>6, <1>10 DEF FoundOf
  <2>2. Kept256(DistanceToLonely(x, y)) = IF both = 0 THEN {} ELSE Kept256({Rounded(both, 1, m)})
    <3>1. ReadWhole(x, 1, A) /\ ReadWhole(y, m, B)
      BY <1>10
    <3>2. QED
      BY <1>1, <3>1, LonelyMeasured
  <2>3. QED
    BY <1>4, <1>5, <1>7, <1>10, <2>1, <2>2, Zenon
<1>11. CASE n # 1 /\ m = 1
  <2>1. found = DistanceToLonely(y, x)
    BY <1>6, <1>11 DEF FoundOf
  <2>2. LinksBoth(y, x) = both
    <3>1. LinksBoth(y, x) = Cardinality(B \cap A)
      BY BothAreCounted
    <3>2. B \cap A = A \cap B
      OBVIOUS
    <3>3. QED
      BY <1>2, <3>1, <3>2
  <2>3. ReadWhole(y, 1, B) /\ ReadWhole(x, n, A) /\ y # x
    BY <1>11
  <2>4. Kept256(DistanceToLonely(y, x)) =
          IF LinksBoth(y, x) = 0 THEN {} ELSE Kept256({Rounded(LinksBoth(y, x), 1, n)})
    BY <2>3, LonelyMeasured
  <2>5. Rounded(both, n, 1) = Rounded(both, 1, n)
    BY <1>2, <1>11, RoundedIs
  <2>6. QED
    BY <1>4, <1>5, <1>7, <1>11, <2>1, <2>2, <2>4, <2>5, Zenon
<1>12. CASE n # 1 /\ m # 1
  <2>1. Half = 128 /\ DistRange = 256
    BY Halves
  <2>2. found = IF both = 0 THEN {} ELSE {d}
    BY <1>4, <1>6, <1>12, <2>1 DEF FoundOf, Rounded, Wide
  <2>3. QED
    BY <1>5, <1>7, <1>9, <2>2
<1>13. QED
  BY <1>10, <1>11, <1>12

(* Once no chunk is left the links of a site that is a plain one are all   *)
(* its name has.                                                           *)
LEMMA PlainIsReadWhole ==
  ASSUME Mapped, LinksRead, Pending = {}, NEW x \in Sites, Plain(x)
  PROVE  \E n \in Nat \ {0} : ReadWhole(x, n, LinkingTo(x))
<1>1. PICK u : u = idsToUrls[x]
  OBVIOUS
<1>2. /\ u # NoName /\ urlsToIds[u] = x /\ x \notin db.links[u] /\ Cardinality(db.links[u]) <= SphinxLimit
      /\ LinkingTo(x) = {x} \cup db.links[u]
  BY <1>1 DEF Plain, LinkingTo
<1>3. u \in DOMAIN urlsToIds /\ u \in DOMAIN db.links /\ db \in Databases
  BY <1>1, <1>2 DEF Mapped
<1>4. IsFiniteSet(db.links[u])
  BY <1>3, BuildAssumption DEF BuildAssumption
<1>5. inlinks[x] = Append(Matches(u), x)
  BY <1>1, <1>2, <1>3 DEF LinksRead, Read
<1>6. PICK S : S = db.links[u]
  OBVIOUS
<1>7. PICK n \in Nat : n = Cardinality(S)
  BY <1>4, <1>6, FS_CardinalityType
<1>8. Lists(Matches(u), n, S)
  <2>1. Lists(Matches(u), Cardinality(db.links[u]), db.links[u])
    BY <1>2, <1>4, MatchesAreListed, Zenon
  <2>2. QED
    BY <1>6, <1>7, <2>1
<1>9. Lists(inlinks[x], n + 1, S \cup {x}) /\ Len(inlinks[x]) = n + 1
  <2>1. PICK s : s = Matches(u)
    OBVIOUS
  <2>2. Lists(s, n, S) /\ x \notin S
    BY <1>2, <1>6, <1>8, <2>1
  <2>3. Lists(Append(s, x), n + 1, S \cup {x}) /\ Len(Append(s, x)) = n + 1
    BY <2>2, ListOneMore
  <2>4. QED
    BY <1>5, <2>1, <2>3
<1>10. ToSet(Matches(u)) = S
  BY <1>8 DEF Lists
<1>11. ASSUME NEW z PROVE <<z, x>> \in existence <=> z \in S
  <2>1. inlinks[x] # <<>>
    BY <1>9
  <2>2. QED
    BY <1>1, <1>10, <2>1 DEF LinksRead
<1>12. ReadWhole(x, n + 1, LinkingTo(x))
  <2>1. LinkingTo(x) = S \cup {x}
    BY <1>2, <1>6
  <2>2. QED
    BY <1>2, <1>6, <1>9, <1>11, <2>1 DEF ReadWhole
<1>13. QED
  BY <1>12

LEMMA PlainMeasured ==
  ASSUME Mapped, LinksRead, Pending = {}, NEW x \in Sites, NEW y \in Sites, x # y, Plain(x), Plain(y)
  PROVE  OneDistance(x, y) = Measured(x, y)
<1>1. PICK n \in Nat \ {0} : ReadWhole(x, n, LinkingTo(x))
  BY PlainIsReadWhole
<1>2. PICK m \in Nat \ {0} : ReadWhole(y, m, LinkingTo(y))
  BY PlainIsReadWhole
<1>3. QED
  BY <1>1, <1>2, OneDistanceMeasures

-----------------------------------------------------------------------------
(* The output in the order of the ids: every place has a pair.             *)

Before(j, k) == j[1] < k[1] \/ (j[1] = k[1] /\ j[2] < k[2])
Below(K, k) == {j \in K : Before(j, k)}

LEMMA BelowOrders ==
  ASSUME NEW K \in SUBSET (Nat \X Nat), IsFiniteSet(K), NEW k \in K, NEW l \in K
  PROVE  /\ Cardinality(Below(K, k)) \in Nat /\ Cardinality(Below(K, k)) + 1 \in 1..Cardinality(K)
         /\ Before(l, k) => Cardinality(Below(K, l)) < Cardinality(Below(K, k))
<1>1. PICK A, B : A = Below(K, k) /\ B = Below(K, l)
  OBVIOUS
<1>2. A \in SUBSET K /\ B \in SUBSET K /\ k \notin A /\ l \notin B
  BY <1>1 DEF Below, Before
<1>3. /\ IsFiniteSet(A) /\ Cardinality(A) <= Cardinality(K) /\ (Cardinality(A) = Cardinality(K) => A = K)
      /\ IsFiniteSet(B)
  BY <1>2, FS_Subset
<1>4. Cardinality(A) \in Nat /\ Cardinality(B) \in Nat /\ Cardinality(K) \in Nat
  BY <1>3, FS_CardinalityType
<1>5. ASSUME Before(l, k) PROVE Cardinality(B) < Cardinality(A)
  <2>1. B \in SUBSET A /\ l \in A
    <3>1. ASSUME NEW j \in K, Before(j, l) PROVE Before(j, k)
      BY <1>5, <3>1 DEF Before
    <3>2. QED
      BY <1>1, <1>5, <3>1 DEF Below
  <2>2. Cardinality(B) <= Cardinality(A) /\ (Cardinality(B) = Cardinality(A) => B = A)
    BY <1>3, <2>1, FS_Subset
  <2>3. QED
    BY <1>2, <1>4, <2>1, <2>2
<1>6. QED
  BY <1>1, <1>2, <1>3, <1>4, <1>5

LEMMA EveryRank ==
  ASSUME NEW K \in SUBSET (Nat \X Nat), IsFiniteSet(K), NEW n \in 1..Cardinality(K)
  PROVE  \E k \in K : Cardinality(Below(K, k)) = n - 1
<1>1. PICK N \in Nat : N = Cardinality(K)
  BY FS_CardinalityType
<1>2. PICK r : r = [k \in K |-> Cardinality(Below(K, k)) + 1]
  OBVIOUS
<1>3. r \in [K -> 1..N]
  BY <1>1, <1>2, BelowOrders
<1>4. ASSUME NEW k \in K, NEW l \in K, r[k] = r[l] PROVE k = l
  <2>1. Cardinality(Below(K, k)) \in Nat /\ Cardinality(Below(K, l)) \in Nat
    BY BelowOrders
  <2>2. Cardinality(Below(K, k)) = Cardinality(Below(K, l))
    BY <1>2, <1>4, <2>1
  <2>3. ~Before(l, k) /\ ~Before(k, l)
    BY <2>1, <2>2, BelowOrders
  <2>4. QED
    BY <2>3 DEF Before
<1>5. r \in Injection(K, 1..N)
  BY <1>3, <1>4 DEF Injection, IsInjective
<1>6. IsFiniteSet(1..N) /\ Cardinality(1..N) = N
  BY Indices
<1>7. r \in Surjection(K, 1..N)
  BY <1>1, <1>5, <1>6, FS_Injection
<1>8. n \in 1..N
  BY <1>1
<1>9. PICK k \in K : r[k] = n
  BY <1>7, <1>8 DEF Surjection
<1>10. Cardinality(Below(K, k)) \in Nat /\ Cardinality(Below(K, k)) + 1 = n
  BY <1>2, <1>9, BelowOrders
<1>11. QED
  BY <1>8, <1>10

LEMMA OutputNamesBoth ==
  ASSUME Mapped, LinksRead, KeysAreLinked, NEW n \in DOMAIN FullSortedOutput
  PROVE  NoName \notin ToSet(SubSeq(FullSortedOutput[n], 1, 2))
<1>1. PICK K : K = DOMAIN stored
  OBVIOUS
<1>2. PICK size \in Nat : Sites = 0..size
  BY DEF Mapped
<1>3. IsFiniteSet(Sites)
  BY <1>2, FS_Interval
<1>4. K \in SUBSET (Sites \X Sites)
  BY <1>1 DEF KeysAreLinked, Linked
<1>5. K \in SUBSET (Nat \X Nat) /\ IsFiniteSet(K)
  <2>1. IsFiniteSet(Sites \X Sites)
    BY <1>3, FS_Product
  <2>2. IsFiniteSet(K)
    BY <1>4, <2>1, FS_Subset, Zenon
  <2>3. Sites \subseteq Nat
    BY <1>2
  <2>4. QED
    BY <1>4, <2>2, <2>3
<1>6. n \in 1..Cardinality(K)
  BY <1>1 DEF FullSortedOutput
<1>7. \E k \in K : Cardinality({j \in K : Before(j, k)}) = n - 1
  BY <1>5, <1>6, EveryRank DEF Below
<1>8. PICK key : key = CHOOSE k \in K : Cardinality({j \in K : Before(j, k)}) = n - 1
  OBVIOUS
<1>9. key \in K
  BY <1>7, <1>8
<1>10. FullSortedOutput[n] = <<idsToUrls[key[1]], idsToUrls[key[2]], stored[key]>>
  BY <1>1, <1>6, <1>8 DEF FullSortedOutput, Before
<1>11. PICK x, y : key = <<x, y>> /\ Linked(x) /\ Linked(y)
  BY <1>1, <1>9 DEF KeysAreLinked
<1>12. ASSUME NEW z, Linked(z) PROVE idsToUrls[z] # NoName
  <2>1. z \in Named
    BY <1>12 DEF Linked, LinksRead
  <2>2. QED
    BY <2>1 DEF Mapped
<1>13. PICK a, b, c : a = idsToUrls[x] /\ b = idsToUrls[y] /\ c = stored[key]
  OBVIOUS
<1>14. a # NoName /\ b # NoName
  BY <1>11, <1>12, <1>13
<1>15. PICK s : s = <<a, b, c>>
  OBVIOUS
<1>16. ToSet(SubSeq(s, 1, 2)) \subseteq {a, b}
  <2>1. s \in Seq({a, b, c}) /\ Len(s) = 3 /\ s[1] = a /\ s[2] = b
    BY <1>15
  <2>2. PICK v : v = SubSeq(s, 1, 2)
    OBVIOUS
  <2>3. DOMAIN v = 1..2 /\ v[1] = a /\ v[2] = b
    BY <2>1, <2>2
  <2>4. QED
    BY <2>2, <2>3 DEF ToSet
<1>17. FullSortedOutput[n] = s
  BY <1>10, <1>11, <1>13, <1>15
<1>18. QED
  BY <1>14, <1>16, <1>17

LEMMA BuildMeasures == BuildInv => BuildMeasuresLinks
<1>1. SUFFICES ASSUME BuildInv, building \in {"built", "between"} PROVE BuildMeasuresLinks
  BY DEF BuildMeasuresLinks
<1>2. Mapped /\ LinksRead /\ chunks = <<>> /\ KeysAreLinked
  BY <1>1 DEF BuildInv
<1>3. Pending = {}
  BY <1>2 DEF Pending
<1>4. ASSUME NEW x \in Sites, NEW y \in Sites, x # y, Plain(x), Plain(y)
      PROVE  OneDistance(x, y) = Measured(x, y)
  BY <1>2, <1>3, <1>4, PlainMeasured
<1>5. ASSUME NEW x \in Sites, NEW y \in Sites, x < y, building = "built" PROVE Kept(x, y) = OneDistance(x, y)
  BY <1>1, <1>5 DEF BuildInv, StoredSoFar, Passed
<1>6. ASSUME NEW x \in Sites, NEW y \in Sites, pair = <<x, y>>, building = "between"
      PROVE  Kept(x, y) = OneDistance(x, y)
  BY <1>1, <1>6 DEF BuildInv
<1>7. Sites \subseteq Nat
  BY <1>2 DEF Mapped
<1>8. ASSUME NEW x \in Sites, NEW y \in Sites
      PROVE  /\ x < y /\ building = "built" /\ Plain(x) /\ Plain(y) => Kept(x, y) = Measured(x, y)
             /\ pair = <<x, y>> /\ x # y /\ building = "between" /\ Plain(x) /\ Plain(y) =>
                  Kept(x, y) = Measured(x, y)
  <2>1. x < y => x # y
    BY <1>7
  <2>2. QED
    BY <1>4, <1>5, <1>6, <2>1
<1>9. \A n \in DOMAIN FullSortedOutput : NoName \notin ToSet(SubSeq(FullSortedOutput[n], 1, 2))
  BY <1>2, OutputNamesBoth
<1>10. QED
  BY <1>8, <1>9 DEF BuildMeasuresLinks, Kept, KeptOf, Sites

-----------------------------------------------------------------------------
(* What calculate_one_distance stores.                                     *)

LEMMA DistanceIsFound ==
  ASSUME NEW x, NEW y
  PROVE  OneDistance(x, y) = Kept256(FoundOf(x, y, Len(inlinks[x]), Len(inlinks[y]), LinksBoth(x, y)))
BY Zenon DEF OneDistance, Kept256, FoundOf

(* At most one distance, and one only of two sites that have links.        *)
LEMMA OneAtMost ==
  ASSUME NEW x, NEW y
  PROVE  /\ OneDistance(x, y) = {} \/ \E d : OneDistance(x, y) = {d}
         /\ OneDistance(x, y) # {} => inlinks[x] # <<>> /\ inlinks[y] # <<>>
<1>1. PICK n, m, both : n = Len(inlinks[x]) /\ m = Len(inlinks[y]) /\ both = LinksBoth(x, y)
  OBVIOUS
<1>2. PICK found : found = FoundOf(x, y, n, m, both)
  OBVIOUS
<1>3. OneDistance(x, y) = Kept256(found)
  BY <1>1, <1>2, DistanceIsFound
<1>4. ASSUME NEW a, NEW b PROVE DistanceToLonely(a, b) = {} \/ \E d : DistanceToLonely(a, b) = {d}
  <2>1. PICK d : d = AtLeastOne(Half - (Half \div Len(inlinks[b])))
    OBVIOUS
  <2>2. DistanceToLonely(a, b) = {d : e \in {<<a, b>>} \cap existence}
    BY <2>1, Zenon DEF DistanceToLonely
  <2>3. QED
    BY <2>2
<1>5. found = {} \/ \E d : found = {d}
  <2>1. PICK e : e = AtLeastOne(DistRange - ((both * Half) \div n) - ((both * Half) \div m))
    OBVIOUS
  <2>2. found = {} \/ found = DistanceToLonely(x, y) \/ found = DistanceToLonely(y, x) \/ found = {e}
    BY <1>2, <2>1, Zenon DEF FoundOf
  <2>3. QED
    BY <1>4, <2>2
<1>6. Kept256({}) = {}
  BY DEF Kept256
<1>7. ASSUME NEW d PROVE Kept256({d}) = {} \/ Kept256({d}) = {UnsignedChar(d)}
  <2>1. CASE d <= StoreLimit
    BY <2>1 DEF Kept256
  <2>2. CASE ~(d <= StoreLimit)
    BY <2>2 DEF Kept256
  <2>3. QED
    BY <2>1, <2>2
<1>8. OneDistance(x, y) # {} => n # 0 /\ m # 0
  BY <1>2, <1>3, <1>6 DEF FoundOf
<1>9. Len(<<>>) = 0
  OBVIOUS
<1>10. QED
  BY <1>1, <1>3, <1>5, <1>6, <1>7, <1>8, <1>9

LEMMA StoresOne ==
  ASSUME NEW x, NEW y, NEW s, s = Stored(x, y)
  PROVE  /\ KeptOf(s, x, y) = IF OneDistance(x, y) = {} THEN Kept(x, y) ELSE OneDistance(x, y)
         /\ \A a, b : <<a, b>> # <<x, y>> => KeptOf(s, a, b) = Kept(a, b)
         /\ \A k \in DOMAIN s : k \in DOMAIN stored \/ (k = <<x, y>> /\ OneDistance(x, y) # {})
<1>1. PICK d : d = OneDistance(x, y)
  OBVIOUS
<1>2. PICK D : D = DOMAIN stored \cup {<<x, y>> : e \in d}
  OBVIOUS
<1>3. s = [k \in D |-> IF k = <<x, y>> /\ d # {} THEN CHOOSE e \in d : TRUE ELSE stored[k]]
  BY <1>1, <1>2, Zenon DEF Stored
<1>4. DOMAIN s = D
  BY <1>3
<1>5. CASE d = {}
  <2>1. D = DOMAIN stored
    BY <1>2, <1>5
  <2>2. \A k \in D : s[k] = stored[k]
    BY <1>3, <1>5
  <2>3. \A a, b : KeptOf(s, a, b) = Kept(a, b)
    BY <1>4, <2>1, <2>2 DEF KeptOf, Kept
  <2>4. QED
    BY <1>1, <1>4, <1>5, <2>1, <2>3
<1>6. CASE d # {}
  <2>1. PICK e : d = {e}
    BY <1>1, <1>6, OneAtMost
  <2>2. D = DOMAIN stored \cup {<<x, y>>}
    BY <1>2, <2>1
  <2>3. (CHOOSE z \in d : TRUE) = e
    BY <2>1
  <2>4. s[<<x, y>>] = e /\ \A k \in D : k # <<x, y>> => s[k] = stored[k]
    BY <1>3, <1>6, <2>2, <2>3
  <2>5. KeptOf(s, x, y) = {e}
    BY <1>4, <2>2, <2>4 DEF KeptOf
  <2>6. ASSUME NEW a, NEW b, <<a, b>> # <<x, y>> PROVE KeptOf(s, a, b) = Kept(a, b)
    <3>1. PICK k : k = <<a, b>>
      OBVIOUS
    <3>2. (k \in D <=> k \in DOMAIN stored) /\ (k \in D => s[k] = stored[k])
      BY <2>2, <2>4, <2>6, <3>1
    <3>3. {s[j] : j \in D \cap {k}} = {stored[j] : j \in DOMAIN stored \cap {k}}
      BY <3>2
    <3>4. QED
      BY <1>4, <3>1, <3>3 DEF KeptOf, Kept
  <2>7. QED
    BY <1>1, <1>4, <1>6, <2>1, <2>2, <2>5, <2>6
<1>7. QED
  BY <1>5, <1>6

(* Nothing of a distance changes when the links do not.                    *)
LEMMA SameDistance ==
  ASSUME UNCHANGED links, NEW x, NEW y
  PROVE  OneDistance(x, y)' = OneDistance(x, y)
<1>1. inlinks' = inlinks /\ existence' = existence
  BY DEF links
<1>2. LinksBoth(x, y)' = LinksBoth(x, y)
  BY <1>1, Zenon DEF LinksBoth
<1>3. DistanceToLonely(x, y)' = DistanceToLonely(x, y) /\ DistanceToLonely(y, x)' = DistanceToLonely(y, x)
  BY <1>1, Zenon DEF DistanceToLonely
<1>4. QED
  BY <1>1, <1>2, <1>3, Zenon DEF OneDistance

LEMMA TablesStay ==
  ASSUME UNCHANGED <<db, mappings, chunks, links>>
  PROVE  (Mapped => Mapped') /\ (LinksRead => LinksRead')
<1>1. /\ db' = db /\ idsToUrls' = idsToUrls /\ urlsToIds' = urlsToIds /\ chunks' = chunks
      /\ inlinks' = inlinks /\ existence' = existence
  BY DEF mappings, links
<1>2. Mapped => Mapped'
  <2>1. Sites' = Sites /\ Named' = Named
    BY <1>1, Zenon DEF Sites, Named
  <2>2. QED
    BY <1>1, <2>1, Zenon DEF Mapped
<1>3. LinksRead => LinksRead'
  <2>1. \A u : Matches(u)' = Matches(u)
    BY <1>1, Zenon DEF Matches
  <2>2. Sites' = Sites /\ Named' = Named /\ Pending' = Pending /\ \A id : Read(id)' = Read(id)
    BY <1>1, <2>1, Zenon DEF Sites, Named, Pending, Read
  <2>3. QED
    BY <1>1, <2>1, <2>2, Zenon DEF LinksRead
<1>4. QED
  BY <1>2, <1>3

LEMMA LargestIs ==
  ASSUME Mapped
  PROVE  \E n \in Nat : Sites = 0..n /\ LargestId = n
<1>1. PICK n \in Nat : Sites = 0..n
  BY DEF Mapped
<1>2. Cardinality(0..n) = n - 0 + 1
  BY FS_Interval
<1>3. QED
  BY <1>1, <1>2 DEF LargestId, Sites

LEMMA StartKeepsInv == BuildInv /\ StartCalculations => BuildInv'
<1>1. SUFFICES ASSUME BuildInv, StartCalculations PROVE BuildInv'
  OBVIOUS
<1>2. /\ building = "hashed" /\ Mapped /\ LinksRead /\ chunks = <<>> /\ stored = <<>>
      /\ UNCHANGED <<db, mappings, chunks, links>> /\ stored' = <<>> /\ pair' = <<0, 1>>
      /\ building' = IF LargestId = 0 THEN "built" ELSE "calculate"
  BY <1>1 DEF BuildInv, StartCalculations
<1>3. PICK n \in Nat : Sites = 0..n /\ LargestId = n
  BY <1>2, LargestIs
<1>4. Mapped' /\ LinksRead' /\ chunks' = <<>> /\ Sites' = Sites
  BY <1>2, TablesStay DEF Sites, mappings
<1>5. KeysAreLinked'
  BY <1>2 DEF KeysAreLinked
<1>6. StoredSoFar'
  <2>1. SUFFICES ASSUME NEW x \in 0..n, NEW y \in 0..n, x < y
                 PROVE  ~Passed(x, y)' /\ Kept(x, y)' = {}
    BY <1>3, <1>4 DEF StoredSoFar
  <2>2. Kept(x, y)' = {}
    BY <1>2 DEF Kept, KeptOf
  <2>3. building' # "built" /\ pair'[1] = 0 /\ pair'[2] = 1
    BY <1>2, <1>3, <2>1
  <2>4. ~Passed(x, y)'
    BY <2>1, <2>3 DEF Passed
  <2>5. QED
    BY <2>2, <2>4
<1>7. building' = "calculate" => \E x, y \in Sites' : pair' = <<x, y>> /\ x < y
  BY <1>2, <1>3, <1>4
<1>8. QED
  BY <1>2, <1>4, <1>5, <1>6, <1>7 DEF BuildInv

(* A pair is stored once every pair before it has been.                    *)
LEMMA CalculateOneKeepsInv == BuildInv /\ CalculateOneDistance => BuildInv'
<1>1. SUFFICES ASSUME BuildInv, CalculateOneDistance PROVE BuildInv'
  OBVIOUS
<1>2. /\ building = "calculate" /\ Mapped /\ LinksRead /\ chunks = <<>> /\ KeysAreLinked /\ StoredSoFar
      /\ UNCHANGED <<db, mappings, chunks, links>>
      /\ \E x, y \in Sites : pair = <<x, y>> /\ x < y
  BY <1>1 DEF BuildInv, CalculateOneDistance
<1>3. PICK n \in Nat : Sites = 0..n /\ LargestId = n
  BY <1>2, LargestIs
<1>4. PICK a \in 0..n, b \in 0..n : pair = <<a, b>> /\ a < b
  BY <1>2, <1>3
<1>5. /\ stored' = Stored(a, b)
      /\ pair' = IF b < n THEN <<a, b + 1>> ELSE <<a + 1, a + 2>>
      /\ building' = IF a + 1 = n THEN "built" ELSE "calculate"
  BY <1>1, <1>3, <1>4 DEF CalculateOneDistance
<1>6. Mapped' /\ LinksRead' /\ chunks' = <<>> /\ Sites' = Sites
  BY <1>2, TablesStay DEF Sites, mappings
<1>7. PICK s : s = Stored(a, b)
  OBVIOUS
<1>8. /\ KeptOf(s, a, b) = IF OneDistance(a, b) = {} THEN Kept(a, b) ELSE OneDistance(a, b)
      /\ \A x, y : <<x, y>> # <<a, b>> => KeptOf(s, x, y) = Kept(x, y)
      /\ \A k \in DOMAIN s : k \in DOMAIN stored \/ (k = <<a, b>> /\ OneDistance(a, b) # {})
  BY <1>7, StoresOne
<1>9. KeysAreLinked'
  <2>1. ASSUME NEW k \in DOMAIN s PROVE \E x, y : k = <<x, y>> /\ Linked(x) /\ Linked(y)
    <3>1. CASE k \in DOMAIN stored
      BY <1>2, <3>1 DEF KeysAreLinked
    <3>2. CASE k = <<a, b>> /\ OneDistance(a, b) # {}
      <4>1. Linked(a) /\ Linked(b)
        BY <1>3, <3>2, OneAtMost DEF Linked
      <4>2. QED
        BY <3>2, <4>1
    <3>3. QED
      BY <1>8, <3>1, <3>2
  <2>2. \A x : Linked(x)' <=> Linked(x)
    BY <1>2, <1>6 DEF Linked, links
  <2>3. QED
    BY <1>5, <1>7, <2>1, <2>2 DEF KeysAreLinked
<1>10. StoredSoFar'
  <2>1. SUFFICES ASSUME NEW x \in 0..n, NEW y \in 0..n, x < y
                 PROVE  Kept(x, y)' = IF Passed(x, y)' THEN OneDistance(x, y)' ELSE {}
    BY <1>3, <1>6 DEF StoredSoFar
  <2>2. Passed(x, y) <=> x < a \/ (x = a /\ y < b)
    BY <1>2, <1>4 DEF Passed
  <2>3. Passed(x, y)' <=> (x < a \/ (x = a /\ y < b) \/ (x = a /\ y = b))
    <3>1. CASE a + 1 = n
      <4>1. Passed(x, y)'
        BY <1>5, <3>1 DEF Passed
      <4>2. QED
        BY <1>4, <2>1, <3>1, <4>1
    <3>2. CASE a + 1 # n /\ b < n
      <4>1. Passed(x, y)' <=> x < a \/ (x = a /\ y < b + 1)
        BY <1>5, <3>2 DEF Passed
      <4>2. QED
        BY <4>1
    <3>3. CASE a + 1 # n /\ ~(b < n)
      <4>1. Passed(x, y)' <=> x < a + 1 \/ (x = a + 1 /\ y < a + 2)
        BY <1>5, <3>3 DEF Passed
      <4>2. QED
        BY <1>4, <2>1, <3>3, <4>1
    <3>4. QED
      BY <3>1, <3>2, <3>3
  <2>4. Kept(x, y)' = KeptOf(s, x, y)
    BY <1>5, <1>7 DEF Kept
  <2>5. OneDistance(x, y)' = OneDistance(x, y)
    BY <1>2, SameDistance
  <2>6. Kept(x, y) = IF Passed(x, y) THEN OneDistance(x, y) ELSE {}
    BY <1>2, <1>3, <2>1 DEF StoredSoFar
  <2>7. CASE x = a /\ y = b
    BY <1>8, <2>2, <2>3, <2>4, <2>5, <2>6, <2>7
  <2>8. CASE <<x, y>> # <<a, b>>
    <3>1. KeptOf(s, x, y) = Kept(x, y)
      BY <1>8, <2>8
    <3>2. Passed(x, y)' <=> Passed(x, y)
      BY <2>2, <2>3, <2>8
    <3>3. QED
      BY <2>4, <2>5, <2>6, <3>1, <3>2
  <2>9. QED
    BY <2>7, <2>8
<1>11. building' = "calculate" => \E x, y \in Sites' : pair' = <<x, y>> /\ x < y
  <2>1. CASE a + 1 = n
    BY <1>5, <2>1
  <2>2. CASE a + 1 # n
    <3>1. CASE b < n
      BY <1>3, <1>4, <1>5, <1>6, <3>1
    <3>2. CASE ~(b < n)
      <4>1. a + 1 \in 0..n /\ a + 2 \in 0..n
        BY <1>4, <2>2, <3>2
      <4>2. QED
        BY <1>3, <1>5, <1>6, <3>2, <4>1
    <3>3. QED
      BY <3>1, <3>2
  <2>3. QED
    BY <2>1, <2>2
<1>12. building' \in {"calculate", "built"}
  BY <1>5
<1>13. QED
  BY <1>6, <1>9, <1>10, <1>11, <1>12 DEF BuildInv

LEMMA BetweenKeepsInv ==
  ASSUME BuildInv, NEW site, NEW other, CalculateDistanceBetween(site, other)
  PROVE  BuildInv'
<1>1. /\ building = "hashed" /\ Mapped /\ LinksRead /\ chunks = <<>> /\ stored = <<>>
      /\ UNCHANGED <<db, mappings, chunks, links>>
  BY DEF BuildInv, CalculateDistanceBetween
<1>2. Mapped' /\ LinksRead' /\ chunks' = <<>> /\ Sites' = Sites
  BY <1>1, TablesStay DEF Sites, mappings
<1>3. CASE {site, other} \subseteq DOMAIN urlsToIds
  <2>1. PICK x, y : x = urlsToIds[site] /\ y = urlsToIds[other]
    OBVIOUS
  <2>2. x \in Sites /\ y \in Sites
    BY <1>1, <1>3, <2>1 DEF Mapped, Named
  <2>3. pair' = <<x, y>> /\ stored' = Stored(x, y) /\ building' = "between"
    BY <1>3, <2>1 DEF CalculateDistanceBetween
  <2>4. PICK s : s = Stored(x, y)
    OBVIOUS
  <2>5. /\ KeptOf(s, x, y) = IF OneDistance(x, y) = {} THEN Kept(x, y) ELSE OneDistance(x, y)
        /\ \A k \in DOMAIN s : k \in DOMAIN stored \/ (k = <<x, y>> /\ OneDistance(x, y) # {})
    BY <2>4, StoresOne
  <2>6. Kept(x, y) = {} /\ DOMAIN stored = {}
    BY <1>1 DEF Kept, KeptOf
  <2>7. Kept(x, y)' = OneDistance(x, y)'
    <3>1. Kept(x, y)' = KeptOf(s, x, y)
      BY <2>3, <2>4 DEF Kept
    <3>2. OneDistance(x, y)' = OneDistance(x, y)
      BY <1>1, SameDistance
    <3>3. QED
      BY <2>5, <2>6, <3>1, <3>2
  <2>8. KeysAreLinked'
    <3>1. \A z : Linked(z)' <=> Linked(z)
      BY <1>1, <1>2 DEF Linked, links
    <3>2. \A k \in DOMAIN s : k = <<x, y>> /\ Linked(x) /\ Linked(y)
      BY <2>2, <2>5, <2>6, OneAtMost DEF Linked
    <3>3. QED
      BY <2>3, <2>4, <3>1, <3>2 DEF KeysAreLinked
  <2>9. QED
    BY <1>2, <2>2, <2>3, <2>7, <2>8 DEF BuildInv
<1>4. CASE ~({site, other} \subseteq DOMAIN urlsToIds)
  <2>1. building' = "dead"
    BY <1>4 DEF CalculateDistanceBetween
  <2>2. QED
    BY <2>1 DEF BuildInv
<1>5. QED
  BY <1>3, <1>4

-----------------------------------------------------------------------------
(* The chunks deal out the names: each is in one of them.                   *)

LEMMA Quotient ==
  ASSUME NEW a \in Nat, NEW q \in Nat \ {0}
  PROVE  /\ a \div q \in Nat /\ (a \div q) * q <= a /\ a < (a \div q) * q + q
         /\ \A b \in Nat : b <= a => b \div q <= a \div q
<1>1. PICK p : p = a \div q
  OBVIOUS
<1>2. p \in Nat /\ q * p <= a /\ a < q * p + q
  BY <1>1
<1>3. q * p = p * q
  BY <1>2
<1>4. ASSUME NEW b \in Nat, b <= a PROVE b \div q <= p
  <2>1. PICK r : r = b \div q
    OBVIOUS
  <2>2. r \in Nat /\ q * r <= b
    BY <2>1
  <2>3. ASSUME r >= p + 1 PROVE FALSE
    <3>1. q * r >= q * (p + 1) /\ q * (p + 1) = q * p + q
      BY <1>2, <2>2, <2>3
    <3>2. PICK v \in Int, w \in Int : v = q * r /\ w = q * p
      BY <1>2, <2>2
    <3>3. QED
      BY <1>2, <1>4, <2>2, <3>1, <3>2
  <2>4. QED
    BY <1>2, <2>1, <2>2, <2>3
<1>5. QED
  BY <1>1, <1>2, <1>3, <1>4

LEMMA MinIs ==
  ASSUME NEW a \in Int, NEW b \in Int
  PROVE  Min({a, b}) = IF a <= b THEN a ELSE b
<1>1. \E x \in {a, b} : \A y \in {a, b} : x <= y
  <2>1. CASE a <= b
    BY <2>1
  <2>2. CASE b <= a
    BY <2>2
  <2>3. QED
    BY <2>1, <2>2
<1>2. PICK m : m = Min({a, b})
  OBVIOUS
<1>3. m \in {a, b} /\ \A y \in {a, b} : m <= y
  BY <1>1, <1>2 DEF Min
<1>4. QED
  BY <1>2, <1>3

Dealt(names, S) ==
  /\ Chunked(names) \in Seq(Seq(S))
  /\ UNION {ToSet(Chunked(names)[k]) : k \in DOMAIN Chunked(names)} = ToSet(names)

(* A part of a list.                                                       *)
LEMMA PartOf ==
  ASSUME NEW S, NEW N \in Nat, NEW s \in [1..N -> S], NEW low \in Nat, NEW high \in Nat,
         high <= N, low <= high
  PROVE  /\ SubSeq(s, low + 1, high) \in Seq(S) /\ DOMAIN SubSeq(s, low + 1, high) = 1..high - low
         /\ \A j \in 1..high - low : SubSeq(s, low + 1, high)[j] = s[low + j]
<1>1. s \in Seq(S) /\ Len(s) = N
  OBVIOUS
<1>2. PICK t : t = SubSeq(s, low + 1, high)
  OBVIOUS
<1>3. t \in Seq(S)
  BY <1>1, <1>2
<1>4. Len(t) = high - low
  BY <1>1, <1>2
<1>5. \A j \in 1..high - low : t[j] = s[low + j]
  BY <1>1, <1>2
<1>6. QED
  BY <1>2, <1>3, <1>4, <1>5

LEMMA ChunksDeal ==
  ASSUME NEW S, NEW N \in Nat, NEW names \in [1..N -> S]
  PROVE  Dealt(names, S)
<1>1. PICK q \in Nat \ {0} : q = QueriesPerChunk
  BY BuildAssumption DEF BuildAssumption
<1>2. PICK full : full = IF N = 0 THEN 0 ELSE (N - 1) \div q
  OBVIOUS
<1>3. full \in Nat /\ (N # 0 => full * q <= N - 1) /\ N <= full * q + q
  <2>1. CASE N = 0
    BY <1>2, <2>1
  <2>2. CASE N # 0
    <3>1. PICK a \in Nat : a = N - 1
      BY <2>2
    <3>2. full = a \div q
      BY <1>2, <2>2, <3>1
    <3>3. full \in Nat /\ full * q <= a /\ a < full * q + q
      BY <3>2, Quotient
    <3>4. PICK w \in Nat : w = full * q
      BY <3>3
    <3>5. QED
      BY <3>1, <3>3, <3>4
  <2>3. QED
    BY <2>1, <2>2
<1>4. PICK c : c = Chunked(names)
  OBVIOUS
<1>5. c = [k \in 1..full + 1 |-> SubSeq(names, (k - 1) * q + 1, Min({k * q, N}))]
  <2>1. Len(names) = N
    OBVIOUS
  <2>2. QED
    BY <1>1, <1>2, <1>4, <2>1, Zenon DEF Chunked
<1>6. ASSUME NEW k \in 1..full + 1
      PROVE  \E low, high \in Nat : /\ low = (k - 1) * q /\ low <= high /\ high <= N
                                    /\ (high = N \/ high = low + q) /\ c[k] = SubSeq(names, low + 1, high)
  <2>1. PICK low \in Nat : low = (k - 1) * q
    OBVIOUS
  <2>2. k * q = low + q
    BY <2>1
  <2>3. PICK high : high = Min({k * q, N})
    OBVIOUS
  <2>4. high = IF low + q <= N THEN low + q ELSE N
    BY <2>2, <2>3, MinIs
  <2>5. low <= N
    <3>1. CASE N = 0
      <4>1. full = 0
        BY <1>2, <3>1
      <4>2. k = 1
        BY <4>1
      <4>3. QED
        BY <2>1, <4>2
    <3>2. CASE N # 0
      <4>1. k - 1 \in Nat /\ k - 1 <= full
        BY <1>3
      <4>2. (k - 1) * q <= full * q
        BY <1>3, <4>1
      <4>3. PICK w \in Nat : w = full * q
        BY <1>3
      <4>4. QED
        BY <1>3, <2>1, <3>2, <4>2, <4>3
    <3>3. QED
      BY <3>1, <3>2
  <2>6. c[k] = SubSeq(names, low + 1, high)
    BY <1>5, <2>1, <2>3
  <2>7. high \in Nat /\ low <= high /\ high <= N /\ (high = N \/ high = low + q)
    BY <2>4, <2>5
  <2>8. QED
    BY <2>1, <2>6, <2>7
<1>7. c \in Seq(Seq(S)) /\ DOMAIN c = 1..full + 1
  <2>1. ASSUME NEW k \in 1..full + 1 PROVE c[k] \in Seq(S)
    <3>1. PICK low \in Nat, high \in Nat : low <= high /\ high <= N /\ c[k] = SubSeq(names, low + 1, high)
      BY <1>6
    <3>2. SubSeq(names, low + 1, high) \in Seq(S)
      BY <3>1, PartOf
    <3>3. QED
      BY <3>1, <3>2
  <2>2. c = [k \in 1..full + 1 |-> c[k]]
    BY <1>5
  <2>3. full + 1 \in Nat
    BY <1>3
  <2>4. QED
    BY <2>1, <2>2, <2>3
<1>8. ASSUME NEW k \in 1..full + 1, NEW u \in ToSet(c[k]) PROVE u \in ToSet(names)
  <2>1. PICK low \in Nat, high \in Nat : low <= high /\ high <= N /\ c[k] = SubSeq(names, low + 1, high)
    BY <1>6
  <2>2. DOMAIN c[k] = 1..high - low /\ \A j \in 1..high - low : c[k][j] = names[low + j]
    <3>1. /\ DOMAIN SubSeq(names, low + 1, high) = 1..high - low
          /\ \A j \in 1..high - low : SubSeq(names, low + 1, high)[j] = names[low + j]
      BY <2>1, PartOf
    <3>2. QED
      BY <2>1, <3>1
  <2>3. PICK j \in 1..high - low : c[k][j] = u
    BY <1>8, <2>2 DEF ToSet
  <2>4. low + j \in 1..N /\ names[low + j] = u
    BY <2>1, <2>2, <2>3
  <2>5. QED
    BY <2>4 DEF ToSet
<1>9. ASSUME NEW i \in 1..N PROVE \E k \in 1..full + 1 : names[i] \in ToSet(c[k])
  <2>1. PICK p : p = (i - 1) \div q
    OBVIOUS
  <2>2. p \in Nat /\ p <= full
    <3>1. i - 1 \in Nat /\ N - 1 \in Nat /\ i - 1 <= N - 1 /\ full = (N - 1) \div q
      BY <1>2
    <3>2. QED
      BY <2>1, <3>1, Quotient
  <2>3. PICK k \in 1..full + 1 : k - 1 = p
    <3>1. PICK k \in Nat : k = p + 1
      BY <2>2
    <3>2. k \in 1..full + 1 /\ k - 1 = p
      BY <1>3, <2>2, <3>1
    <3>3. QED
      BY <3>2
  <2>4. PICK low \in Nat, high \in Nat :
          /\ low = (k - 1) * q /\ low <= high /\ high <= N /\ (high = N \/ high = low + q)
          /\ c[k] = SubSeq(names, low + 1, high)
    <3>1. \E low, high \in Nat : /\ low = (k - 1) * q /\ low <= high /\ high <= N
                                /\ (high = N \/ high = low + q) /\ c[k] = SubSeq(names, low + 1, high)
      BY <1>6
    <3>2. QED
      BY <3>1
  <2>5. low = p * q
    BY <2>3, <2>4
  <2>6. low <= i - 1 /\ i - 1 < low + q
    <3>1. i - 1 \in Nat
      OBVIOUS
    <3>2. p * q <= i - 1 /\ i - 1 < p * q + q
      BY <2>1, <3>1, Quotient
    <3>3. QED
      BY <2>5, <3>2
  <2>7. PICK j \in 1..high - low : low + j = i
    <3>1. i - low \in 1..high - low /\ low + (i - low) = i
      BY <2>4, <2>6
    <3>2. QED
      BY <3>1
  <2>8. /\ DOMAIN SubSeq(names, low + 1, high) = 1..high - low
        /\ SubSeq(names, low + 1, high)[j] = names[low + j]
    BY <2>4, PartOf
  <2>9. j \in DOMAIN c[k] /\ c[k][j] = names[i]
    BY <2>4, <2>7, <2>8
  <2>10. QED
    BY <2>9 DEF ToSet
<1>10. UNION {ToSet(c[k]) : k \in DOMAIN c} = ToSet(names)
  <2>1. \A u \in ToSet(names) : \E i \in 1..N : names[i] = u
    BY DEF ToSet
  <2>2. QED
    BY <1>7, <1>8, <1>9, <2>1
<1>11. QED
  BY <1>4, <1>7, <1>10 DEF Dealt

(* An order of the whole set.                                              *)
LEMMA WholeOrder ==
  ASSUME NEW S, IsFiniteSet(S), NEW names \in SetToAllKPermutations(S), Len(names) = Cardinality(S)
  PROVE  \E n \in Nat : names \in [1..n -> S] /\ ToSet(names) = S
<1>1. PICK T \in SUBSET S : names \in SetToSeqs(T)
  BY DEF SetToAllKPermutations
<1>2. IsFiniteSet(T) /\ (Cardinality(S) = Cardinality(T) => S = T)
  BY FS_Subset
<1>3. PICK n \in Nat : n = Cardinality(T)
  BY <1>2, FS_CardinalityType
<1>4. names \in [1..n -> T] /\ \A i, j \in 1..n : i # j => names[i] # names[j]
  BY <1>1, <1>3 DEF SetToSeqs
<1>5. Len(names) = n
  BY <1>4
<1>6. T = S
  BY <1>2, <1>3, <1>5
<1>7. names \in [1..Cardinality(S) -> S] /\ IsInjective(names)
  BY <1>3, <1>4, <1>6 DEF IsInjective
<1>8. ToSet(names) = S
  BY <1>7, ListedByInjection
<1>9. QED
  BY <1>4, <1>6, <1>8

LEMMA InlinkHashKeepsInv == BuildInv /\ GenerateInlinkHash => BuildInv'
<1>1. SUFFICES ASSUME BuildInv, GenerateInlinkHash PROVE BuildInv'
  OBVIOUS
<1>2. /\ building = "mapped" /\ building' = "query" /\ Mapped /\ db \in Databases /\ stored' = <<>>
      /\ UNCHANGED <<db, mappings, links>> /\ existence = {} /\ \A id \in Sites : inlinks[id] = <<>>
  BY <1>1 DEF BuildInv, GenerateInlinkHash
<1>3. PICK names \in SetToAllKPermutations(DOMAIN urlsToIds) :
        Len(names) = Cardinality(DOMAIN urlsToIds) /\ chunks' = Chunked(names)
  BY <1>1 DEF GenerateInlinkHash
<1>4. PICK U : U = DOMAIN urlsToIds
  OBVIOUS
<1>5. PICK n \in Nat : names \in [1..n -> U] /\ ToSet(names) = U
  BY <1>2, <1>3, <1>4, WholeOrder DEF Mapped
<1>6. Dealt(names, U)
  BY <1>5, ChunksDeal
<1>7. /\ db' = db /\ idsToUrls' = idsToUrls /\ urlsToIds' = urlsToIds
      /\ inlinks' = inlinks /\ existence' = existence
  BY <1>2 DEF mappings, links
<1>8. Mapped'
  <2>1. Sites' = Sites /\ Named' = Named
    BY <1>7 DEF Sites, Named
  <2>2. QED
    BY <1>2, <1>7, <2>1 DEF Mapped
<1>9. PICK c : c = chunks'
  OBVIOUS
<1>10. c \in Seq(Seq(U)) /\ UNION {ToSet(c[k]) : k \in DOMAIN c} = U
  <2>1. c = Chunked(names) /\ ToSet(names) = U
    BY <1>3, <1>5, <1>9
  <2>2. QED
    BY <1>6, <2>1 DEF Dealt
<1>11. Pending' = U
  BY <1>9, <1>10, Zenon DEF Pending
<1>12. ChunksAreNames'
  BY <1>4, <1>7, <1>9, <1>10, <1>11 DEF ChunksAreNames
<1>13. LinksRead'
  <2>1. DOMAIN urlsToIds' \ Pending' = {} /\ Sites' = Sites /\ existence' = {}
    BY <1>2, <1>4, <1>7, <1>11 DEF Sites
  <2>2. \A id \in Sites' : inlinks'[id] = <<>>
    BY <1>2, <1>7, <2>1
  <2>3. QED
    BY <2>1, <2>2 DEF LinksRead
<1>14. QED
  BY <1>2, <1>7, <1>8, <1>12, <1>13 DEF BuildInv

-----------------------------------------------------------------------------
(* The tables of the names: the largest of the ids is one of them.         *)

LEMMA GreatestOfBounded ==
  ASSUME NEW T, T \subseteq Nat, T # {}, NEW b \in Nat, \A y \in T : y <= b
  PROVE  \E x \in T : \A y \in T : y <= x
<1>1. PICK B : B = {m \in Nat : \A y \in T : y <= m}
  OBVIOUS
<1>2. B \subseteq Nat /\ B # {}
  BY <1>1
<1>3. PICK x \in B : \A m \in B : x <= m
  BY <1>2, LeastNumber
<1>4. x \in Nat /\ \A y \in T : y <= x
  BY <1>1
<1>8. ASSUME x \notin T PROVE FALSE
  <2>1. \A y \in T : y \in Nat /\ y # x /\ y <= x
    BY <1>4, <1>8
  <2>2. x # 0
    <3>1. PICK y \in T : y \in Nat /\ y # x /\ y <= x
      BY <2>1
    <3>2. QED
      BY <1>4, <3>1
  <2>3. x - 1 \in Nat /\ \A y \in T : y <= x - 1
    BY <1>4, <2>1, <2>2
  <2>4. x - 1 \in B
    BY <1>1, <2>3
  <2>5. QED
    BY <1>3, <1>4, <2>4
<1>5. QED
  BY <1>4, <1>8

LEMMA Bounded ==
  ASSUME NEW N \in Nat, NEW f \in [1..N -> Nat]
  PROVE  \E b \in Nat : \A k \in 1..N : f[k] <= b
<1> DEFINE T == {n \in Nat : \E b \in Nat : \A k \in 1..N : k <= n => f[k] <= b}
<1>1. 0 \in T
  OBVIOUS
<1>2. ASSUME NEW n \in T PROVE n + 1 \in T
  <2>1. PICK b \in Nat : \A k \in 1..N : k <= n => f[k] <= b
    OBVIOUS
  <2>2. CASE n + 1 \in 1..N
    <3>1. f[n + 1] \in Nat
      BY <2>2
    <3>2. PICK c \in Nat : b <= c /\ f[n + 1] <= c
      <4>1. CASE b <= f[n + 1]
        BY <3>1, <4>1
      <4>2. CASE f[n + 1] <= b
        BY <3>1, <4>2
      <4>3. QED
        BY <3>1, <4>1, <4>2
    <3>3. ASSUME NEW k \in 1..N, k <= n + 1 PROVE f[k] <= c
      <4>1. CASE k = n + 1
        BY <3>2, <4>1
      <4>2. CASE k # n + 1
        <5>1. k <= n
          BY <3>3, <4>2
        <5>2. f[k] \in Nat /\ f[k] <= b
          BY <2>1, <5>1
        <5>3. QED
          BY <3>2, <5>2
      <4>3. QED
        BY <4>1, <4>2
    <3>4. QED
      BY <3>3
  <2>3. CASE n + 1 \notin 1..N
    <3>1. \A k \in 1..N : k <= n + 1 => k <= n
      BY <2>3
    <3>2. \A k \in 1..N : k <= n + 1 => f[k] <= b
      BY <2>1, <3>1
    <3>3. QED
      BY <3>2
  <2>4. QED
    BY <2>2, <2>3
<1>3. T = Nat
  <2>1. T \subseteq Nat
    OBVIOUS
  <2> HIDE DEF T
  <2>2. QED
    BY <1>1, <1>2, <2>1, Induction
<1>4. N \in T
  BY <1>3
<1>8. QED
  BY <1>4

(* The largest of the numbers at the places of a list.                     *)
Numbers(f, N) == {f[k] : k \in 1..N}
LEMMA LargestListed ==
  ASSUME NEW N \in Nat, N # 0, NEW f \in [1..N -> Nat], NEW T, T = Numbers(f, N)
  PROVE  Max(T) \in Nat /\ \A y \in T : y <= Max(T)
<1>1. PICK b \in Nat : \A k \in 1..N : f[k] <= b
  BY Bounded
<1>2. T \subseteq Nat /\ T # {} /\ \A y \in T : y <= b
  <2>1. 1 \in 1..N
    OBVIOUS
  <2>2. QED
    BY <1>1, <2>1 DEF Numbers
<1>3. PICK x \in T : \A y \in T : y <= x
  BY <1>2, GreatestOfBounded
<1>4. \A y \in T : y \in Nat /\ x >= y
  BY <1>2, <1>3
<1>8. Max(T) = x
  BY <1>4, MaxOf
<1>5. QED
  BY <1>2, <1>3, <1>8

(* The last of the places that P holds of.                                 *)
LEMMA LastPlace ==
  ASSUME NEW N \in Nat, NEW P, P \subseteq 1..N, P # {}
  PROVE  Max(P) \in P
<1>1. P \subseteq Nat /\ \A y \in P : y <= N
  OBVIOUS
<1>2. PICK x \in P : \A y \in P : y <= x
  BY <1>1, GreatestOfBounded
<1>3. \A y \in P : y \in Nat /\ x >= y
  BY <1>1, <1>2
<1>4. Max(P) = x
  BY <1>3, MaxOf
<1>5. QED
  BY <1>4

(* The results of a chunk that are given to a site.                        *)
ResultsOf(chunk, id) == {i \in DOMAIN RunQueries(chunk) : SiteOfResult(chunk, i) = id}

(* Each result reaches the site whose name was asked for.                  *)
LEMMA ResultsReachTheirSites ==
  ASSUME Mapped, NEW chunk \in Seq(DOMAIN urlsToIds),
         NEW asked, asked = {urlsToIds[u] : u \in ToSet(chunk)}
  PROVE  /\ \A id : ResultsOf(chunk, id) # {} <=> id \in asked
         /\ \A id \in asked : RunQueries(chunk)[Max(ResultsOf(chunk, id))] = Matches(idsToUrls[id])
         /\ UNION {ToSet(RunQueries(chunk)[i]) \X {SiteOfResult(chunk, i)} : i \in DOMAIN RunQueries(chunk)}
              = UNION {ToSet(Matches(idsToUrls[id])) \X {id} : id \in asked}
<1>1. PICK n \in Nat : DOMAIN chunk = 1..n /\ \A i \in 1..n : chunk[i] \in DOMAIN urlsToIds
  <2>1. PICK D : D = DOMAIN urlsToIds
    OBVIOUS
  <2>2. chunk \in Seq(D)
    BY <2>1
  <2>3. Len(chunk) \in Nat /\ DOMAIN chunk = 1..Len(chunk) /\ \A i \in 1..Len(chunk) : chunk[i] \in D
    BY <2>2
  <2>4. QED
    BY <2>1, <2>3
<1>2. PICK res : res = RunQueries(chunk)
  OBVIOUS
<1>3. DOMAIN res = 1..n /\ \A i \in 1..n : res[i] = Matches(chunk[i])
  BY <1>1, <1>2 DEF RunQueries
<1>4. \A i \in 1..n : SiteOfResult(chunk, i) \in asked /\ idsToUrls[SiteOfResult(chunk, i)] = chunk[i]
  BY <1>1 DEF SiteOfResult, Mapped, ToSet
<1>5. \A id \in asked : \E i \in 1..n : SiteOfResult(chunk, i) = id
  BY <1>1 DEF SiteOfResult, ToSet
<1>6. \A id : ResultsOf(chunk, id) = {i \in 1..n : SiteOfResult(chunk, i) = id}
  BY <1>2, <1>3 DEF ResultsOf
<1>7. ASSUME NEW id PROVE ResultsOf(chunk, id) # {} <=> id \in asked
  <2>1. ResultsOf(chunk, id) # {} => id \in asked
    <3>1. \A i \in ResultsOf(chunk, id) : i \in 1..n /\ SiteOfResult(chunk, i) = id
      BY <1>6
    <3>2. QED
      BY <1>4, <3>1
  <2>2. ASSUME id \in asked PROVE ResultsOf(chunk, id) # {}
    <3>1. PICK i \in 1..n : SiteOfResult(chunk, i) = id
      BY <1>5, <2>2
    <3>2. i \in ResultsOf(chunk, id)
      BY <1>6, <3>1
    <3>3. QED
      BY <3>2
  <2>3. QED
    BY <2>1, <2>2
<1>8. ASSUME NEW id \in asked PROVE res[Max(ResultsOf(chunk, id))] = Matches(idsToUrls[id])
  <2>1. PICK P : P = ResultsOf(chunk, id)
    OBVIOUS
  <2>2. P \subseteq 1..n /\ P # {}
    BY <1>6, <1>7, <2>1
  <2>3. PICK m \in P : m = Max(P)
    BY <2>2, LastPlace
  <2>4. m \in 1..n /\ SiteOfResult(chunk, m) = id
    BY <1>6, <2>1, <2>3
  <2>5. res[m] = Matches(chunk[m]) /\ idsToUrls[id] = chunk[m]
    BY <1>3, <1>4, <2>4
  <2>6. QED
    BY <2>1, <2>3, <2>5
<1>9. ASSUME NEW i \in 1..n
      PROVE  ToSet(res[i]) \X {SiteOfResult(chunk, i)}
               = ToSet(Matches(idsToUrls[SiteOfResult(chunk, i)])) \X {SiteOfResult(chunk, i)}
  BY <1>3, <1>4
<1>10. UNION {ToSet(res[i]) \X {SiteOfResult(chunk, i)} : i \in 1..n}
         = UNION {ToSet(Matches(idsToUrls[id])) \X {id} : id \in asked}
  <2> DEFINE Found(i) == ToSet(res[i]) \X {SiteOfResult(chunk, i)}
             LinksOf(id) == ToSet(Matches(idsToUrls[id])) \X {id}
  <2>1. \A i \in 1..n : Found(i) = LinksOf(SiteOfResult(chunk, i))
    BY <1>9
  <2> HIDE DEF Found, LinksOf
  <2>2. \A i \in 1..n : \E id \in asked : Found(i) = LinksOf(id)
    BY <1>4, <2>1
  <2>3. \A id \in asked : \E i \in 1..n : Found(i) = LinksOf(id)
    BY <1>5, <2>1
  <2>4. UNION {Found(i) : i \in 1..n} = UNION {LinksOf(id) : id \in asked}
    BY <2>2, <2>3
  <2>5. QED
    BY <2>4 DEF Found, LinksOf
<1>11. QED
  BY <1>2, <1>3, <1>7, <1>8, <1>10

(* A chunk is read: its names have their links.                            *)
LEMMA ChunkKeepsInv == BuildInv /\ SphinxQueryChunk => BuildInv'
<1>1. SUFFICES ASSUME BuildInv, SphinxQueryChunk PROVE BuildInv'
  OBVIOUS
<1>2. /\ building = "query" /\ Mapped /\ LinksRead /\ ChunksAreNames /\ chunks # <<>>
      /\ db \in Databases /\ stored' = <<>> /\ chunks' = Tail(chunks)
      /\ building' = IF Len(chunks) = 1 THEN "hashed" ELSE "query"
      /\ db' = db /\ idsToUrls' = idsToUrls /\ urlsToIds' = urlsToIds
  BY <1>1 DEF BuildInv, SphinxQueryChunk, mappings
<1>3. PICK c, head : c = chunks /\ head = Head(chunks)
  OBVIOUS
<1>4. PICK asked : asked = {urlsToIds[u] : u \in ToSet(head)}
  OBVIOUS
<1>5. /\ c \in Seq(Seq(DOMAIN urlsToIds)) /\ c # <<>>
      /\ UNION {ToSet(c[k]) : k \in DOMAIN c} \subseteq DOMAIN urlsToIds
  BY <1>2, <1>3, Zenon DEF ChunksAreNames, Pending
<1>6. /\ head = c[1] /\ DOMAIN c = 1..Len(c) /\ Len(c) \in Nat \ {0}
      /\ Tail(c) \in Seq(Seq(DOMAIN urlsToIds)) /\ Len(Tail(c)) = Len(c) - 1
      /\ \A k \in 1..Len(c) - 1 : Tail(c)[k] = c[k + 1]
  BY <1>3, <1>5
<1>7. ToSet(head) \subseteq DOMAIN urlsToIds /\ head \in Seq(DOMAIN urlsToIds)
  BY <1>5, <1>6
<1>8. /\ inlinks' = [id \in DOMAIN inlinks |-> IF id \in asked THEN Read(id) ELSE inlinks[id]]
      /\ existence' = existence \cup UNION {ToSet(Matches(idsToUrls[id])) \X {id} : id \in asked}
  <2>1. /\ inlinks' = [id \in DOMAIN inlinks |->
                         IF ResultsOf(head, id) = {} THEN inlinks[id]
                         ELSE Append(RunQueries(head)[Max(ResultsOf(head, id))], id)]
        /\ existence' = existence \cup UNION {ToSet(RunQueries(head)[i]) \X {SiteOfResult(head, i)} :
                                                 i \in DOMAIN RunQueries(head)}
    BY <1>1, <1>3, Zenon DEF SphinxQueryChunk, ResultsOf
  <2>2. /\ \A id : ResultsOf(head, id) # {} <=> id \in asked
        /\ \A id \in asked : RunQueries(head)[Max(ResultsOf(head, id))] = Matches(idsToUrls[id])
        /\ UNION {ToSet(RunQueries(head)[i]) \X {SiteOfResult(head, i)} : i \in DOMAIN RunQueries(head)}
             = UNION {ToSet(Matches(idsToUrls[id])) \X {id} : id \in asked}
    BY <1>2, <1>4, <1>7, ResultsReachTheirSites
  <2>3. ASSUME NEW id
        PROVE  (IF ResultsOf(head, id) = {} THEN inlinks[id]
                ELSE Append(RunQueries(head)[Max(ResultsOf(head, id))], id))
                 = IF id \in asked THEN Read(id) ELSE inlinks[id]
    BY <2>2, Zenon DEF Read
  <2>4. QED
    BY <2>1, <2>2, <2>3, Zenon
<1>9. asked \subseteq Named /\ Named \subseteq Sites
  BY <1>2, <1>4, <1>7 DEF Mapped, Named
<1>10. Pending' \subseteq Pending /\ Pending \subseteq ToSet(head) \cup Pending'
  <2>1. DOMAIN Tail(c) = 1..Len(c) - 1
    BY <1>6
  <2>2. Pending = UNION {ToSet(c[k]) : k \in 1..Len(c)}
    BY <1>3, <1>6, Zenon DEF Pending
  <2>3. Pending' = UNION {ToSet(Tail(c)[k]) : k \in 1..Len(c) - 1}
    BY <1>2, <1>3, <2>1, Zenon DEF Pending
  <2>4. ASSUME NEW k \in 1..Len(c) - 1 PROVE k + 1 \in 1..Len(c) /\ Tail(c)[k] = c[k + 1]
    BY <1>6
  <2>5. Pending' \subseteq Pending
    BY <2>2, <2>3, <2>4
  <2>6. ASSUME NEW k \in 1..Len(c) PROVE k = 1 \/ (k - 1 \in 1..Len(c) - 1 /\ Tail(c)[k - 1] = c[k])
    <3>1. CASE k = 1
      BY <3>1
    <3>2. CASE k # 1
      <4>1. k - 1 \in 1..Len(c) - 1 /\ k - 1 + 1 = k
        BY <1>6, <3>2
      <4>2. QED
        BY <1>6, <4>1
    <3>3. QED
      BY <3>1, <3>2
  <2>7. Pending \subseteq ToSet(head) \cup Pending'
    <3>1. SUFFICES ASSUME NEW k \in 1..Len(c), NEW u \in ToSet(c[k]), u \notin ToSet(head)
                   PROVE  u \in Pending'
      BY <2>2
    <3>2. k # 1
      BY <1>6, <3>1
    <3>3. k - 1 \in 1..Len(c) - 1 /\ u \in ToSet(Tail(c)[k - 1])
      BY <2>6, <3>1, <3>2
    <3>4. QED
      BY <2>3, <3>3
  <2>8. QED
    BY <2>5, <2>7
<1>11. Sites' = Sites /\ Named' = Named /\ DOMAIN inlinks' = Sites /\ DOMAIN inlinks = Sites
  BY <1>2, <1>8 DEF Sites, Named, Mapped
<1>12. Mapped'
  BY <1>2, <1>11 DEF Mapped
<1>13. \A u : Matches(u)' = Matches(u)
  BY <1>2, Zenon DEF Matches
<1>14. \A id : Read(id)' = Read(id)
  BY <1>2, <1>13, Zenon DEF Read
<1>15. ASSUME NEW id \in asked PROVE Read(id) # <<>>
  <2>1. idsToUrls[id] # NoName /\ id \in Sites
    BY <1>2, <1>9 DEF Mapped
  <2>2. PICK u : u = idsToUrls[id]
    OBVIOUS
  <2>3. u \in DOMAIN db.links
    BY <1>2, <2>1, <2>2 DEF Mapped
  <2>4. IsFiniteSet(db.links[u])
    BY <1>2, <2>3, BuildAssumption DEF BuildAssumption
  <2>5. Matches(u) \in Seq(db.links[u])
    BY <2>4, MatchesAreListed, Zenon
  <2>6. PICK s, S : s = Matches(u) /\ S = db.links[u]
    OBVIOUS
  <2>7. s \in Seq(S)
    BY <2>5, <2>6
  <2>8. Append(s, id) # <<>>
    <3>1. s \in Seq(S \cup {id}) /\ Len(s) \in Nat
      BY <2>7
    <3>2. Len(Append(s, id)) = Len(s) + 1
      BY <3>1
    <3>3. QED
      BY <3>1, <3>2
  <2>9. QED
    BY <2>2, <2>6, <2>8 DEF Read
<1>16. LinksRead'
  <2>1. \A id \in Sites : inlinks'[id] = IF id \in asked THEN Read(id) ELSE inlinks[id]
    BY <1>8, <1>11
  <2>2. \A id \in Sites : inlinks'[id] = <<>> \/ (inlinks'[id] = Read(id) /\ id \in Named)
    BY <1>2, <1>9, <2>1 DEF LinksRead
  <2>3. ASSUME NEW u \in DOMAIN urlsToIds, u \notin Pending' PROVE inlinks'[urlsToIds[u]] = Read(urlsToIds[u])
    <3>1. PICK id : id = urlsToIds[u]
      OBVIOUS
    <3>2. id \in Sites
      BY <1>2, <3>1 DEF Mapped, Named
    <3>3. CASE u \in ToSet(head)
      BY <1>4, <2>1, <3>1, <3>2, <3>3
    <3>4. CASE u \notin ToSet(head)
      <4>1. inlinks[id] = Read(id)
        BY <1>2, <1>10, <2>3, <3>1, <3>4 DEF LinksRead
      <4>2. QED
        BY <2>1, <3>1, <3>2, <4>1
    <3>5. QED
      BY <3>3, <3>4
  <2>4. ASSUME NEW a, NEW id
        PROVE  <<a, id>> \in existence' <=>
                 id \in Sites /\ inlinks'[id] # <<>> /\ a \in ToSet(Matches(idsToUrls[id]))
    <3>1. <<a, id>> \in existence' <=>
            <<a, id>> \in existence \/ (id \in asked /\ a \in ToSet(Matches(idsToUrls[id])))
      BY <1>8
    <3>2. <<a, id>> \in existence <=>
            id \in Sites /\ inlinks[id] # <<>> /\ a \in ToSet(Matches(idsToUrls[id]))
      BY <1>2 DEF LinksRead
    <3>3. CASE id \in asked
      BY <1>9, <1>15, <2>1, <3>1, <3>2, <3>3
    <3>4. CASE id \notin asked
      BY <2>1, <3>1, <3>2, <3>4
    <3>5. QED
      BY <3>3, <3>4
  <2>5. QED
    BY <1>2, <1>11, <1>13, <1>14, <2>2, <2>3, <2>4 DEF LinksRead
<1>17. ChunksAreNames'
  BY <1>2, <1>3, <1>5, <1>6, <1>10 DEF ChunksAreNames
<1>18. building' = "hashed" => chunks' = <<>>
  <2>1. PICK t : t = Tail(c)
    OBVIOUS
  <2>2. t \in Seq(Seq(DOMAIN urlsToIds)) /\ (Len(c) = 1 => Len(t) = 0)
    BY <1>6, <2>1
  <2>3. Len(t) = 0 => t = <<>>
    BY <2>2
  <2>4. QED
    BY <1>2, <1>3, <2>1, <2>2, <2>3
<1>19. QED
  BY <1>2, <1>12, <1>16, <1>17, <1>18 DEF BuildInv

NamesOf(rows, id) == {r.name : r \in {q \in rows : q.id = id}}
RowsNamed(rows, name) == {n \in DOMAIN rows : rows[n].name = name}

LEMMA MappingsKeepInv == BuildInv /\ GenerateMappings => BuildInv'
<1>1. SUFFICES ASSUME BuildInv, GenerateMappings PROVE BuildInv'
  OBVIOUS
<1>2. /\ building = "start" /\ building' = "mapped" /\ db \in Databases /\ db' = db
      /\ existence' = {} /\ stored' = <<>>
  BY <1>1 DEF BuildInv, GenerateMappings
<1>3. PICK seq, names, links0 : seq = db.rows /\ names = DOMAIN db.links /\ links0 = db.links
  OBVIOUS
<1>4. seq \in Seq([id : Nat \ {0}, name : names]) /\ seq # <<>> /\ NoName \notin names
  BY <1>2, <1>3, BuildAssumption DEF BuildAssumption
<1>5. PICK rows, ids : rows = ToSet(seq) /\ ids = {r.id : r \in rows}
  OBVIOUS
<1>6. PICK size : size = Max(ids) + 1
  OBVIOUS
<1>7. /\ idsToUrls' = [id \in 0..size - 1 |->
                         IF NamesOf(rows, id) = {} THEN NoName ELSE CHOOSE u \in NamesOf(rows, id) : TRUE]
      /\ urlsToIds' = [u \in {r.name : r \in rows} |-> seq[Max(RowsNamed(seq, u))].id]
      /\ inlinks' = [id \in 0..size - 1 |-> <<>>]
  BY <1>1, <1>3, <1>5, <1>6, Zenon DEF GenerateMappings, NamesOf, RowsNamed
<1>8. PICK N \in Nat : N = Len(seq) /\ N # 0
  BY <1>4
<1>9. DOMAIN seq = 1..N /\ \A k \in 1..N : seq[k] \in rows /\ seq[k].id \in Nat /\ seq[k].name \in names
  <2>1. DOMAIN seq = 1..N
    BY <1>4, <1>8
  <2>2. ASSUME NEW k \in 1..N PROVE seq[k] \in rows /\ seq[k].id \in Nat /\ seq[k].name \in names
    <3>1. seq[k] \in [id : Nat \ {0}, name : names]
      <4>1. PICK R : R = [id : Nat \ {0}, name : names]
        OBVIOUS
      <4>2. seq \in Seq(R)
        BY <1>4, <4>1
      <4>3. seq[k] \in R
        BY <1>8, <4>2
      <4>4. QED
        BY <4>1, <4>3
    <3>2. seq[k] \in rows
      BY <1>5, <2>1 DEF ToSet
    <3>3. QED
      BY <3>1, <3>2
  <2>3. QED
    BY <2>1, <2>2
<1>10. \A r \in rows : r.id \in Nat /\ r.name \in names /\ \E k \in 1..N : seq[k] = r
  BY <1>5, <1>9 DEF ToSet
<1>11. size - 1 \in Nat /\ \A r \in rows : r.id \in 0..size - 1
  <2>1. PICK f : f = [k \in 1..N |-> seq[k].id]
    OBVIOUS
  <2>2. f \in [1..N -> Nat] /\ ids = Numbers(f, N)
    BY <1>5, <1>9, <1>10, <2>1 DEF Numbers
  <2>3. Max(ids) \in Nat /\ \A y \in ids : y <= Max(ids)
    BY <1>8, <2>2, LargestListed
  <2>4. PICK m \in Nat : m = Max(ids)
    BY <2>3
  <2>5. size - 1 = m
    BY <1>6, <2>4
  <2>6. \A r \in rows : r.id \in Nat /\ r.id \in ids /\ r.id <= m
    BY <1>5, <1>10, <2>3, <2>4
  <2>7. QED
    BY <2>5, <2>6
<1>12. PICK top \in Nat : top = size - 1
  BY <1>11
<1>13. Sites' = 0..top /\ DOMAIN inlinks' = 0..top /\ \A id \in 0..top : inlinks'[id] = <<>>
  BY <1>7, <1>12 DEF Sites
<1>14. DOMAIN urlsToIds' = {r.name : r \in rows}
  BY <1>7
<1>15. ASSUME NEW id \in 0..top
       PROVE  /\ NamesOf(rows, id) \subseteq {r.name : r \in rows}
              /\ idsToUrls'[id] \in NamesOf(rows, id) \cup {NoName}
              /\ NamesOf(rows, id) # {} => idsToUrls'[id] \in NamesOf(rows, id)
  <2>1. NamesOf(rows, id) \subseteq {r.name : r \in rows}
    BY DEF NamesOf
  <2>2. idsToUrls'[id] = IF NamesOf(rows, id) = {} THEN NoName ELSE CHOOSE u \in NamesOf(rows, id) : TRUE
    BY <1>7, <1>12
  <2>3. QED
    BY <2>1, <2>2
<1>16. {r.name : r \in rows} \subseteq names
  BY <1>10
<1>17. ASSUME NEW u \in {r.name : r \in rows}
       PROVE  urlsToIds'[u] \in 0..top /\ idsToUrls'[urlsToIds'[u]] = u /\ u # NoName
  <2>1. PICK P : P = RowsNamed(seq, u)
    OBVIOUS
  <2>2. P \subseteq 1..N /\ P # {}
    BY <1>9, <1>10, <2>1 DEF RowsNamed
  <2>3. PICK n \in P : n = Max(P)
    BY <2>2, LastPlace
  <2>4. PICK r \in rows : r = seq[n] /\ r.name = u
    BY <1>9, <2>1, <2>2 DEF RowsNamed
  <2>5. PICK id : id = r.id
    OBVIOUS
  <2>6. urlsToIds'[u] = id /\ id \in 0..top
    BY <1>7, <1>11, <1>12, <2>1, <2>3, <2>4, <2>5
  <2>7. \A q \in rows : q.id = id => q = r
    <3>1. \A k \in 1..N : seq[k].id = id => k = n
      BY <1>2, <1>3, <1>9, <2>2, <2>4, <2>5, BuildAssumption DEF BuildAssumption
    <3>2. QED
      BY <1>10, <2>4, <3>1
  <2>8. NamesOf(rows, id) = {u}
    BY <2>4, <2>5, <2>7 DEF NamesOf
  <2>9. idsToUrls'[id] = u
    BY <1>15, <2>6, <2>8
  <2>10. QED
    BY <1>4, <1>16, <2>6, <2>9
<1>18. IsFiniteSet({r.name : r \in rows})
  <2>1. PICK g : g = [k \in 1..N |-> seq[k].name]
    OBVIOUS
  <2>2. g \in Surjection(1..N, {r.name : r \in rows})
    BY <1>9, <1>10, <2>1 DEF Surjection
  <2>3. IsFiniteSet(1..N)
    BY Indices
  <2>4. QED
    BY <2>2, <2>3, FS_Surjection
<1>19. Mapped'
  <2>1. \A id \in Sites' : idsToUrls'[id] \in names \cup {NoName}
    BY <1>13, <1>15, <1>16
  <2>2. \A id \in Sites' : idsToUrls'[id] # NoName => idsToUrls'[id] \in DOMAIN urlsToIds'
    BY <1>13, <1>14, <1>15
  <2>3. Named' \subseteq Sites' /\ \A id \in Named' : idsToUrls'[id] # NoName
    BY <1>13, <1>14, <1>17 DEF Named
  <2>4. \A u \in DOMAIN urlsToIds' : idsToUrls'[urlsToIds'[u]] = u
    BY <1>14, <1>17
  <2>5. QED
    BY <1>2, <1>3, <1>13, <1>14, <1>18, <2>1, <2>2, <2>3, <2>4 DEF Mapped
<1>20. QED
  BY <1>2, <1>13, <1>19 DEF BuildInv

-----------------------------------------------------------------------------
LEMMA InitBuildInv == InitBuild => BuildInv
BY DEF InitBuild, BuildInv

LEMMA NextBuildInv == BuildInv /\ [NextBuild]_buildVars => BuildInv'
<1> SUFFICES ASSUME BuildInv, [NextBuild]_buildVars PROVE BuildInv'
  OBVIOUS
<1>1. CASE GenerateMappings \/ GenerateInlinkHash \/ SphinxQueryChunk
  BY <1>1, MappingsKeepInv, InlinkHashKeepsInv, ChunkKeepsInv
<1>2. CASE QueryDies
  BY <1>2 DEF QueryDies, BuildInv
<1>3. CASE StartCalculations \/ CalculateOneDistance
  BY <1>3, StartKeepsInv, CalculateOneKeepsInv
<1>4. ASSUME NEW site \in UNION {DOMAIN d.links : d \in Databases},
             NEW other \in UNION {DOMAIN d.links : d \in Databases}, CalculateDistanceBetween(site, other)
      PROVE  BuildInv'
  BY <1>4, BetweenKeepsInv
<1>5. CASE UNCHANGED buildVars
  <2>1. /\ UNCHANGED <<db, mappings, chunks, links>>
        /\ building' = building /\ stored' = stored /\ pair' = pair
        /\ existence' = existence /\ inlinks' = inlinks /\ idsToUrls' = idsToUrls
        /\ chunks' = chunks /\ urlsToIds' = urlsToIds /\ db' = db
    BY <1>5 DEF buildVars, mappings, links
  <2>2. (Mapped => Mapped') /\ (LinksRead => LinksRead') /\ Sites' = Sites /\ Pending' = Pending
    BY <2>1, TablesStay, Zenon DEF Sites, Pending
  <2>3. \A x, y : Kept(x, y)' = Kept(x, y)
    BY <2>1 DEF Kept, KeptOf
  <2>4. ASSUME NEW x, NEW y PROVE OneDistance(x, y)' = OneDistance(x, y)
    BY <2>1, SameDistance
  <2>5. ChunksAreNames => ChunksAreNames'
    BY <2>1, <2>2 DEF ChunksAreNames
  <2>6. KeysAreLinked => KeysAreLinked'
    <3>1. \A x : Linked(x)' <=> Linked(x)
      BY <2>1, <2>2 DEF Linked
    <3>2. DOMAIN stored' = DOMAIN stored
      BY <2>1
    <3>3. QED
      BY <3>1, <3>2 DEF KeysAreLinked
  <2>7. StoredSoFar => StoredSoFar'
    <3>1. \A x, y : Passed(x, y)' <=> Passed(x, y)
      BY <2>1 DEF Passed
    <3>2. QED
      BY <2>2, <2>3, <2>4, <3>1, Zenon DEF StoredSoFar
  <2>8. QED
    BY <2>1, <2>2, <2>3, <2>4, <2>5, <2>6, <2>7 DEF BuildInv
<1>6. QED
  BY <1>1, <1>2, <1>3, <1>4, <1>5 DEF NextBuild

(* Whatever the services' answers hold and in whatever order, chunks or    *)
(* pairs they are asked for: when build has ended it has stored, for each  *)
(* two plain sites, the distance that their links measure, and so has      *)
(* calculate_distance_between for its two; what full_sorted_output prints  *)
(* has both names.                                                         *)
THEOREM DistancesMeasureLinks == InitBuild /\ [][NextBuild]_buildVars => []BuildMeasuresLinks
<1>1. InitBuild => BuildInv
  BY InitBuildInv
<1>2. BuildInv /\ [NextBuild]_buildVars => BuildInv'
  BY NextBuildInv
<1>3. BuildInv => BuildMeasuresLinks
  BY BuildMeasures
<1>4. QED
  BY <1>1, <1>2, <1>3, PTL
==============================================================================
