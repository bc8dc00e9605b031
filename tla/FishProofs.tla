----------------------------- MODULE FishProofs -----------------------------
(***************************************************************************)
(* The program fish and its blink library, for every size of the screen,   *)
(* every two pictures and every caller: pointers and the allocator are a   *)
(* list, cells blink in time, and the pictures are drawn cell by cell.     *)
(***************************************************************************)
EXTENDS Fish, FiniteSetTheorems, SequenceTheorems, WellFoundedInduction, TLAPS

-----------------------------------------------------------------------------
(* Numbers *)

Less == {mn \in Nat \X Nat : mn[1] < mn[2]}

\* Every set of numbers that has an element has a least one.
LEMMA Least ==
    ASSUME NEW C, C \subseteq Nat, C # {}
    PROVE  \E m \in C : \A k \in C : m <= k
<1>1. IsWellFoundedOn(Less, Nat)
    BY NatLessThanWellFounded DEF OpToRel, Less
<1>2. PICK m \in C : \A k \in C : ~(<<k, m>> \in Less)
    BY <1>1, WFMin
<1>3. ASSUME NEW k \in C PROVE m <= k
    <2>1. ~(k < m) /\ k \in Nat /\ m \in Nat
        BY <1>2 DEF Less
    <2> QED
        BY <2>1
<1> QED
    BY <1>3

\* Induction from 1 up to n.
LEMMA UpTo ==
    ASSUME NEW n \in Nat, NEW T, 1 \in T, \A k \in 1 .. n - 1 : k \in T => k + 1 \in T
    PROVE  \A k \in 1 .. n : k \in T
<1> SUFFICES ASSUME NEW j \in 1 .. n, j \notin T PROVE FALSE
    OBVIOUS
<1> DEFINE C == {k \in 1 .. n : k \notin T}
<1>1. C \subseteq Nat /\ j \in C
    OBVIOUS
<1> HIDE DEF C
<1>2. PICK m \in C : \A k \in C : m <= k
    BY <1>1, Least
<1>3. m \in 1 .. n /\ m \notin T /\ m # 1
    BY <1>2 DEF C
<1>4. m - 1 \in 1 .. n - 1 /\ m - 1 \in 1 .. n /\ (m - 1) + 1 = m /\ ~(m <= m - 1)
    BY <1>3
<1>5. m - 1 \in C
    BY <1>3, <1>4 DEF C
<1> QED
    BY <1>2, <1>4, <1>5

\* There are as many slots as cells of the screen, and NULL is none of them.
LEMMA SlotsAre ==
    /\ IsFiniteSet(Slots) /\ Cardinality(Slots) = SIZE
    /\ Slots \subseteq Nat /\ NULL \notin Slots
<1>1. 0 \in Int /\ SIZE - 1 \in Int /\ ~(0 > SIZE - 1) /\ (SIZE - 1) - 0 + 1 = SIZE
    BY SizeAssumption
<1>2. IsFiniteSet(0 .. SIZE - 1) /\ Cardinality(0 .. SIZE - 1) = SIZE
    BY <1>1, FS_Interval
<1> QED
    BY <1>2, SizeAssumption DEF Slots, NULL

-----------------------------------------------------------------------------
(* The list *)

\* Distinct slots are no more than there are.
LEMMA LinksLength ==
    ASSUME NEW q \in Seq(Slots), \A j, k \in DOMAIN q : q[j] = q[k] => j = k
    PROVE  Len(q) <= SIZE
<1> SUFFICES ASSUME Len(q) > SIZE PROVE FALSE
    BY SizeAssumption
<1> DEFINE D == 1 .. Len(q)
<1>1. Len(q) \in Nat /\ DOMAIN q = D /\ q \in [D -> Slots]
    BY LenProperties
<1>2. IsFiniteSet(D) /\ Cardinality(D) = Len(q)
    BY <1>1, FS_Interval
<1>3. Cardinality(Slots) < Cardinality(D)
    BY <1>2, SlotsAre
<1> HIDE DEF D
<1>4. \E j, k \in D : j # k /\ q[j] = q[k]
    <2>1. /\ IsFiniteSet(D) /\ IsFiniteSet(Slots)
          /\ Cardinality(Slots) < Cardinality(D) /\ q \in [D -> Slots]
        BY <1>1, <1>2, <1>3, SlotsAre
    <2> QED
        BY <2>1, FS_PigeonHole, SMTT(30)
<1> QED
    BY <1>1, <1>4

IsWalk(w, array, head) ==
    w = [k \in 1 .. SIZE + 1 |->
           IF k = 1 THEN head ELSE IF w[k - 1] = NULL THEN NULL ELSE array[w[k - 1]].next]

\* Walking along linked structures yields them, in order.
LEMMA ListIs ==
    ASSUME NEW array, NEW head, NEW q, Links(array, head, q)
    PROVE  ListFrom(array, head) = q
<1> DEFINE N == SIZE + 1
           v == [k \in 1 .. N |-> IF k <= Len(q) THEN q[k] ELSE NULL]
           w == CHOOSE x : IsWalk(x, array, head)
<1>1. /\ q \in Seq(Slots) /\ Len(q) \in Nat /\ DOMAIN q = 1 .. Len(q)
      /\ \A k \in 1 .. Len(q) : q[k] \in Slots
    BY LenProperties, ElementOfSeq DEF Links
<1>2. Len(q) <= SIZE /\ N \in Nat /\ N = SIZE + 1
    BY LinksLength, SizeAssumption DEF Links
<1>3. q = <<>> <=> Len(q) = 0
    BY <1>1, EmptySeq
<1>4. ASSUME NEW k \in 1 .. N
      PROVE  v[k] = IF k = 1 THEN head
                    ELSE IF v[k - 1] = NULL THEN NULL ELSE array[v[k - 1]].next
    <2>1. CASE k = 1
        BY <1>1, <1>2, <1>3, <2>1 DEF Links
    <2>2. CASE k # 1
        <3>1. k - 1 \in 1 .. N /\ k \in Nat /\ (k - 1) + 1 = k
            BY <1>2, <2>2
        <3>2. CASE k - 1 <= Len(q)
            <4>1. k - 1 \in 1 .. Len(q) /\ v[k - 1] = q[k - 1] /\ q[k - 1] # NULL
                BY <1>1, <3>1, <3>2, SlotsAre
            <4>2. array[q[k - 1]].next = IF k - 1 = Len(q) THEN NULL ELSE q[(k - 1) + 1]
                BY <1>1, <4>1 DEF Links
            <4>3. k - 1 # Len(q) <=> k <= Len(q)
                BY <1>1, <3>1, <3>2
            <4> QED
                BY <2>2, <3>1, <4>1, <4>2, <4>3
        <3>3. CASE ~(k - 1 <= Len(q))
            <4>1. ~(k <= Len(q)) /\ v[k - 1] = NULL
                BY <1>1, <3>1, <3>3
            <4> QED
                BY <2>2, <4>1
        <3> QED
            BY <3>2, <3>3
    <2> QED
        BY <2>1, <2>2
<1>5. IsWalk(v, array, head)
    BY <1>4 DEF IsWalk
<1>6. IsWalk(w, array, head)
    <2> HIDE DEF v
    <2> QED
        BY <1>5
<1> HIDE DEF w
<1>7. \A k \in 1 .. N : w[k] = v[k]
    <2> DEFINE T == {k \in 1 .. N : w[k] = v[k]}
    <2>1. \A k \in 1 .. N : w[k] = IF k = 1 THEN head
                                   ELSE IF w[k - 1] = NULL THEN NULL ELSE array[w[k - 1]].next
        BY <1>6 DEF IsWalk
    <2> HIDE DEF v
    <2>2. 1 \in T
        BY <1>2, <1>4, <2>1, SizeAssumption
    <2>3. ASSUME NEW k \in 1 .. N - 1, k \in T PROVE k + 1 \in T
        <3>1. k + 1 \in 1 .. N /\ k + 1 # 1 /\ (k + 1) - 1 = k
            BY <1>2
        <3> QED
            BY <1>4, <2>1, <2>3, <3>1
    <2> HIDE DEF T
    <2>4. \A k \in 1 .. N : k \in T
        BY <1>2, <2>2, <2>3, UpTo
    <2> QED
        BY <2>4 DEF T
<1>8. ListFrom(array, head) = [k \in {n \in 1 .. N : w[n] # NULL} |-> w[k]]
    BY DEF ListFrom, w, IsWalk
<1>9. \A k \in 1 .. N : w[k] = IF k <= Len(q) THEN q[k] ELSE NULL
    BY <1>7
<1>10. 1 .. Len(q) = {n \in 1 .. N : n <= Len(q)}
    BY <1>1, <1>2, SizeAssumption
<1> HIDE DEF v, N
<1>12. {n \in 1 .. N : w[n] # NULL} = 1 .. Len(q)
    BY <1>1, <1>9, <1>10, SlotsAre
<1>13. \A k \in 1 .. Len(q) : w[k] = q[k]
    BY <1>9, <1>10
<1>11. q = [k \in 1 .. Len(q) |-> q[k]]
    BY <1>1
<1> QED
    BY <1>8, <1>11, <1>12, <1>13

\* What a sequence is with another slot in front, and without its k-th.
LEMMA ConsIs ==
    ASSUME NEW q \in Seq(Slots), NEW s \in Slots
    PROVE  /\ <<s>> \o q \in Seq(Slots)
           /\ Len(<<s>> \o q) = Len(q) + 1
           /\ (<<s>> \o q)[1] = s
           /\ \A k \in 1 .. Len(q) : (<<s>> \o q)[k + 1] = q[k]
<1>1. <<s>> \in Seq(Slots) /\ Len(<<s>>) = 1 /\ <<s>>[1] = s /\ Len(q) \in Nat
    BY LenProperties
<1>2. /\ <<s>> \o q \in Seq(Slots)
      /\ Len(<<s>> \o q) = Len(<<s>>) + Len(q)
      /\ \A j \in 1 .. Len(<<s>>) + Len(q) :
            (<<s>> \o q)[j] = IF j <= Len(<<s>>) THEN <<s>>[j] ELSE q[j - Len(<<s>>)]
    BY <1>1, ConcatProperties
<1> HIDE DEF Slots
<1>3. Len(<<s>> \o q) = Len(q) + 1
    BY <1>1, <1>2
<1>4. \A j \in 1 .. 1 + Len(q) : (<<s>> \o q)[j] = IF j <= 1 THEN s ELSE q[j - 1]
    BY <1>1, <1>2
<1> QED
    BY <1>1, <1>2, <1>3, <1>4

Without(q, k) == SubSeq(q, 1, k - 1) \o SubSeq(q, k + 1, Len(q))

\* The elements of a sequence without its k-th.
LEMMA WithoutIs ==
    ASSUME NEW S, NEW q \in Seq(S), NEW k \in 1 .. Len(q)
    PROVE  /\ Without(q, k) \in Seq(S)
           /\ Len(Without(q, k)) = Len(q) - 1
           /\ \A j \in 1 .. Len(q) - 1 : Without(q, k)[j] = IF j < k THEN q[j] ELSE q[j + 1]
<1> DEFINE a == SubSeq(q, 1, k - 1)
           b == SubSeq(q, k + 1, Len(q))
<1>1. /\ Len(q) \in Nat /\ k \in Nat /\ k >= 1 /\ k <= Len(q)
      /\ \A j \in 1 .. Len(q) : q[j] \in S
    BY LenProperties, ElementOfSeq
<1>2. a \in Seq(S) /\ Len(a) = k - 1 /\ \A j \in 1 .. k - 1 : a[j] = q[j]
    <2>1. 1 \in 1 .. Len(q) + 1 /\ k - 1 \in 0 .. Len(q)
        BY <1>1
    <2>2. \A j \in 1 .. k - 1 : q[j] \in S /\ 1 + j - 1 = j
        BY <1>1
    <2>3. (IF 1 <= k - 1 THEN (k - 1) - 1 + 1 ELSE 0) = k - 1
        BY <1>1
    <2> QED
        BY <1>1, <2>1, <2>2, <2>3, SubSeqProperties
<1>3. /\ b \in Seq(S) /\ Len(b) = Len(q) - k
      /\ \A j \in 1 .. Len(q) - k : b[j] = q[k + j]
    <2>1. k + 1 \in 1 .. Len(q) + 1 /\ Len(q) \in k .. Len(q)
        BY <1>1
    <2>2. \A j \in k + 1 .. Len(q) : q[j] \in S
        BY <1>1
    <2>3. (IF k + 1 <= Len(q) THEN Len(q) - (k + 1) + 1 ELSE 0) = Len(q) - k
        BY <1>1
    <2>4. \A j \in 1 .. Len(q) - k : (k + 1) + j - 1 = k + j
        BY <1>1
    <2> QED
        BY <1>1, <2>1, <2>2, <2>3, <2>4, SubSeqProperties
<1> HIDE DEF a, b
<1>4. /\ a \o b \in Seq(S) /\ Len(a \o b) = Len(a) + Len(b)
      /\ \A j \in 1 .. Len(a) + Len(b) :
            (a \o b)[j] = IF j <= Len(a) THEN a[j] ELSE b[j - Len(a)]
    BY <1>2, <1>3, ConcatProperties
<1>5. Len(a) + Len(b) = Len(q) - 1
    BY <1>1, <1>2, <1>3
<1>6. ASSUME NEW j \in 1 .. Len(q) - 1
      PROVE  (a \o b)[j] = IF j < k THEN q[j] ELSE q[j + 1]
    <2>1. CASE j < k
        <3>1. j \in 1 .. k - 1 /\ j <= Len(a)
            BY <1>1, <1>2, <2>1
        <3> QED
            BY <1>2, <1>4, <1>5, <2>1, <3>1
    <2>2. CASE ~(j < k)
        <3>1. /\ ~(j <= Len(a)) /\ j - Len(a) \in 1 .. Len(q) - k
              /\ k + (j - Len(a)) = j + 1
            BY <1>1, <1>2, <2>2
        <3> QED
            BY <1>3, <1>4, <1>5, <2>2, <3>1
    <2> QED
        BY <2>1, <2>2
<1>7. Without(q, k) = a \o b
    BY DEF Without, a, b
<1> QED
    BY <1>4, <1>5, <1>6, <1>7

\* A structure that is not in the list is put in front.
LEMMA AddLinks ==
    ASSUME NEW array \in [Slots -> Struct], NEW head, NEW q, Links(array, head, q),
           NEW s \in Slots, \A k \in DOMAIN q : q[k] # s,
           NEW array2, \A r \in Slots \ {s} : array2[r] = array[r], array2[s].next = head
    PROVE  Links(array2, s, <<s>> \o q)
<1> DEFINE p == <<s>> \o q
<1>1. q \in Seq(Slots) /\ Len(q) \in Nat /\ DOMAIN q = 1 .. Len(q)
    BY LenProperties DEF Links
<1>2. /\ p \in Seq(Slots) /\ Len(p) = Len(q) + 1 /\ p[1] = s
      /\ \A k \in 1 .. Len(q) : p[k + 1] = q[k]
    BY <1>1, ConsIs
<1> HIDE DEF p
<1>3. DOMAIN p = 1 .. Len(q) + 1 /\ p # <<>>
    BY <1>1, <1>2, LenProperties, EmptySeq
<1>4. \A k \in 1 .. Len(q) : q[k] \in Slots
    BY <1>1, ElementOfSeq
<1>5. \A k \in 2 .. Len(q) + 1 : k - 1 \in 1 .. Len(q) /\ p[k] = q[k - 1]
    <2>1. ASSUME NEW k \in 2 .. Len(q) + 1 PROVE k - 1 \in 1 .. Len(q) /\ (k - 1) + 1 = k
        BY <1>1
    <2> QED
        BY <1>2, <2>1
<1>6. ASSUME NEW k \in DOMAIN p
      PROVE  array2[p[k]].next = IF k = Len(p) THEN NULL ELSE p[k + 1]
    <2>1. CASE k = 1
        <3>1. CASE Len(q) = 0
            BY <1>1, <1>2, <2>1, <3>1, EmptySeq DEF Links
        <3>2. CASE Len(q) # 0
            <4>1. 1 \in 1 .. Len(q) /\ q # <<>> /\ k # Len(p)
                BY <1>1, <1>2, <2>1, <3>2, EmptySeq
            <4> QED
                BY <1>2, <2>1, <4>1 DEF Links
        <3> QED
            BY <3>1, <3>2
    <2>2. CASE k # 1
        <3>1. k \in 2 .. Len(q) + 1 /\ k - 1 \in 1 .. Len(q) /\ (k - 1) + 1 = k
            BY <1>1, <1>3, <2>2
        <3>2. p[k] = q[k - 1] /\ q[k - 1] # s /\ q[k - 1] \in Slots
            BY <1>1, <1>4, <1>5, <3>1
        <3>3. array2[p[k]].next = IF k - 1 = Len(q) THEN NULL ELSE q[k]
            BY <1>1, <3>1, <3>2 DEF Links
        <3>4. k = Len(p) <=> k - 1 = Len(q)
            BY <1>1, <1>2, <3>1
        <3>5. k - 1 # Len(q) => k \in 1 .. Len(q)
            BY <1>1, <3>1
        <3> QED
            BY <1>2, <3>3, <3>4, <3>5
    <2> QED
        BY <2>1, <2>2
<1>7. ASSUME NEW j \in DOMAIN p, NEW k \in DOMAIN p, p[j] = p[k] PROVE j = k
    <2>1. \A n \in DOMAIN p : n # 1 => n \in 2 .. Len(q) + 1
        BY <1>1, <1>3
    <2>2. \A n \in DOMAIN p : n # 1 => p[n] # s
        BY <1>1, <1>5, <2>1
    <2>3. CASE j = 1 \/ k = 1
        BY <1>2, <1>7, <2>2, <2>3
    <2>4. CASE j # 1 /\ k # 1
        <3>1. j - 1 = k - 1
            BY <1>1, <1>5, <1>7, <2>1, <2>4 DEF Links
        <3> QED
            BY <1>1, <1>3, <3>1
    <2> QED
        BY <2>3, <2>4
<1>8. Links(array2, s, p)
    BY <1>2, <1>3, <1>6, <1>7 DEF Links
<1> QED
    BY <1>8 DEF p

\* The k-th structure is taken out.
LEMMA RemoveLinks ==
    ASSUME NEW array, NEW head, NEW q, Links(array, head, q), NEW k \in DOMAIN q,
           NEW array2,
           \A j \in DOMAIN q : j # k /\ j # k - 1 => array2[q[j]].next = array[q[j]].next,
           k > 1 => array2[q[k - 1]].next = array[q[k]].next
    PROVE  Links(array2, IF k = 1 THEN array[q[k]].next ELSE head, Without(q, k))
<1> DEFINE p == Without(q, k)
           L == Len(q)
           h == IF k = 1 THEN array[q[k]].next ELSE head
<1>1. q \in Seq(Slots) /\ L \in Nat /\ DOMAIN q = 1 .. L /\ k \in 1 .. L
    BY LenProperties DEF Links
<1>2. /\ p \in Seq(Slots) /\ Len(p) = L - 1
      /\ \A j \in 1 .. L - 1 : p[j] = IF j < k THEN q[j] ELSE q[j + 1]
    BY <1>1, WithoutIs
<1>0. \A j \in 1 .. L : array[q[j]].next = IF j = L THEN NULL ELSE q[j + 1]
    BY <1>1 DEF Links
<1> HIDE DEF p, L
<1>3. DOMAIN p = 1 .. L - 1 /\ (p = <<>> <=> L - 1 = 0)
    BY <1>1, <1>2, LenProperties, EmptySeq
<1>4. h = IF p = <<>> THEN NULL ELSE p[1]
    <2>1. CASE k = 1
        <3>1. CASE L = 1
            BY <1>0, <1>1, <1>3, <2>1, <3>1
        <3>2. CASE L # 1
            <4>1. 1 \in 1 .. L /\ 1 \in 1 .. L - 1 /\ ~(1 < k) /\ L - 1 # 0
                BY <1>1, <2>1, <3>2
            <4> QED
                BY <1>0, <1>2, <1>3, <2>1, <3>2, <4>1
        <3> QED
            BY <3>1, <3>2
    <2>2. CASE k # 1
        <3>1. 1 \in 1 .. L - 1 /\ 1 < k /\ L - 1 # 0
            BY <1>1, <2>2
        <3>2. q # <<>> /\ head = q[1]
            BY <1>1, <3>1, EmptySeq DEF Links, L
        <3> QED
            BY <1>2, <1>3, <2>2, <3>1, <3>2
    <2> QED
        BY <2>1, <2>2
<1>5. ASSUME NEW j \in DOMAIN p
      PROVE  array2[p[j]].next = IF j = Len(p) THEN NULL ELSE p[j + 1]
    <2>0. j \in 1 .. L - 1 /\ j \in 1 .. L /\ j + 1 \in 1 .. L
        BY <1>1, <1>3
    <2>1. CASE j < k - 1
        <3>1. /\ j < k /\ j + 1 < k /\ j + 1 \in 1 .. L - 1 /\ j # L - 1 /\ j # L
              /\ j # k /\ j # k - 1
            BY <1>1, <2>0, <2>1
        <3>2. p[j] = q[j] /\ p[j + 1] = q[j + 1]
            BY <1>2, <2>0, <3>1
        <3>3. array2[q[j]].next = q[j + 1]
            BY <1>0, <1>1, <2>0, <3>1
        <3> QED
            BY <1>2, <3>1, <3>2, <3>3
    <2>2. CASE j = k - 1
        <3>1. j < k /\ k > 1 /\ k \in 1 .. L /\ (j = L - 1 <=> k = L)
            BY <1>1, <2>0, <2>2
        <3>2. p[j] = q[k - 1] /\ array2[q[k - 1]].next = IF k = L THEN NULL ELSE q[k + 1]
            BY <1>0, <1>1, <1>2, <2>0, <2>2, <3>1
        <3>3. ASSUME k # L PROVE p[j + 1] = q[k + 1]
            <4>1. j + 1 \in 1 .. L - 1 /\ ~(j + 1 < k) /\ (j + 1) + 1 = k + 1
                BY <1>1, <2>0, <2>2, <3>3
            <4> QED
                BY <1>2, <4>1
        <3> QED
            BY <1>2, <3>1, <3>2, <3>3
    <2>3. CASE j > k - 1
        <3>1. /\ ~(j < k) /\ j + 1 # k /\ j + 1 # k - 1 /\ (j + 1 = L <=> j = L - 1)
              /\ j # L - 1 => j + 1 \in 1 .. L - 1 /\ ~(j + 1 < k)
            BY <1>1, <2>0, <2>3
        <3>2. p[j] = q[j + 1] /\ (j # L - 1 => p[j + 1] = q[(j + 1) + 1])
            BY <1>2, <2>0, <3>1
        <3>3. array2[q[j + 1]].next = IF j + 1 = L THEN NULL ELSE q[(j + 1) + 1]
            BY <1>0, <1>1, <2>0, <3>1
        <3> QED
            BY <1>2, <3>1, <3>2, <3>3
    <2>4. j < k - 1 \/ j = k - 1 \/ j > k - 1
        BY <1>1, <2>0
    <2> QED
        BY <2>1, <2>2, <2>3, <2>4
<1>6. ASSUME NEW i1 \in DOMAIN p, NEW i2 \in DOMAIN p, p[i1] = p[i2] PROVE i1 = i2
    <2> DEFINE up(n) == IF n < k THEN n ELSE n + 1
    <2>1. \A n \in 1 .. L - 1 : up(n) \in 1 .. L /\ p[n] = q[up(n)]
        BY <1>1, <1>2
    <2>2. up(i1) = up(i2)
        <3>1. \A j1, j2 \in 1 .. L : q[j1] = q[j2] => j1 = j2
            BY <1>1 DEF Links
        <3> HIDE DEF up
        <3> QED
            BY <1>3, <1>6, <2>1, <3>1
    <2> QED
        BY <1>1, <1>3, <2>2
<1>7. Links(array2, h, p)
    <2> HIDE DEF h
    <2> QED
        BY <1>2, <1>4, <1>5, <1>6 DEF Links
<1> QED
    BY <1>7 DEF p

\* Structures that keep their links keep their order.
LEMMA SameLinks ==
    ASSUME NEW array, NEW head, NEW q, Links(array, head, q),
           NEW array2, \A s \in Slots : array2[s].next = array[s].next
    PROVE  Links(array2, head, q)
<1>1. \A k \in DOMAIN q : q[k] \in Slots
    BY LenProperties, ElementOfSeq DEF Links
<1> QED
    BY <1>1 DEF Links

\* mp1_find_helper finds the first structure at a location.
LEMMA FindIs ==
    ASSUME List \in Seq(Slots), NEW l
    PROVE  LET k == mp1_find_helper(l)
           IN \/ k = 0 /\ \A n \in DOMAIN List : blink_array[List[n]].location # l
              \/ /\ k \in DOMAIN List /\ k # 0 /\ blink_array[List[k]].location = l
                 /\ \A n \in DOMAIN List : blink_array[List[n]].location = l => k <= n
<1> DEFINE I == {n \in 1 .. Len(List) : blink_array[List[n]].location = l}
           k == mp1_find_helper(l)
<1>1. k = IF I # {} THEN CHOOSE x \in I : \A y \in I : x <= y ELSE 0
    BY DEF mp1_find_helper, SelectInSeq, Min
<1>2. Len(List) \in Nat /\ DOMAIN List = 1 .. Len(List) /\ I \subseteq Nat
    BY LenProperties
<1>3. CASE I = {}
    BY <1>1, <1>2, <1>3
<1>4. CASE I # {}
    <2>1. \E x \in I : \A y \in I : x <= y
        <3> HIDE DEF I
        <3> QED
            BY <1>2, <1>4, Least
    <2>2. k \in I /\ \A y \in I : k <= y
        <3> HIDE DEF I, k
        <3> QED
            BY <1>1, <1>4, <2>1
    <2>3. k # 0
        BY <1>2, <2>2
    <2> HIDE DEF k
    <2>4. k \in DOMAIN List /\ blink_array[List[k]].location = l
        BY <1>2, <2>2
    <2>5. \A n \in DOMAIN List : blink_array[List[n]].location = l => k <= n
        BY <1>2, <2>2
    <2> QED
        BY <2>3, <2>4, <2>5 DEF k
<1> QED
    BY <1>3, <1>4

-----------------------------------------------------------------------------
(* What a call does to the list *)

BlinkInv == BlinkTypeOK /\ Linked /\ InTime

\* What a caller may add.
Blink == [location : Nat \ {0}, on_char : Char, off_char : Char,
          on_length : Length, off_length : Length]
New(b) == [location |-> b.location, on_char |-> b.on_char, off_char |-> b.off_char,
           on_length |-> b.on_length, off_length |-> b.off_length,
           countdown |-> b.on_length, status |-> 1, next |-> mp1_list_head]

\* Times are words.
LEMMA LengthIs == \A n \in Length : n \in Words /\ n \in 1 .. WORD /\ n * 2 <= WORD
BY WordAssumption DEF Length, Words

\* The list in the terms of its definition.
LEMMA ListMeans ==
    ASSUME Linked
    PROVE  /\ List \in Seq(Slots) /\ Len(List) \in Nat /\ DOMAIN List = 1 .. Len(List)
           /\ \A k \in DOMAIN List : List[k] \in Slots
           /\ \A j, k \in DOMAIN List : List[j] = List[k] => j = k
BY LenProperties, ElementOfSeq DEF Linked, Links

\* mp1_malloc returns a free structure if there is one.
LEMMA MallocIs ==
    \/ mp1_malloc = NULL /\ \A s \in Slots : blink_array[s].location # 0
    \/ mp1_malloc \in Slots /\ mp1_malloc # NULL /\ blink_array[mp1_malloc].location = 0
<1> DEFINE free == {s \in Slots : blink_array[s].location = 0}
<1>1. CASE free = {}
    BY <1>1 DEF mp1_malloc
<1>2. CASE free # {}
    <2>1. free \subseteq Nat
        BY SlotsAre
    <2>2. mp1_malloc = CHOOSE s \in free : \A r \in free : s <= r
        BY <1>2 DEF mp1_malloc
    <2>3. mp1_malloc \in free
        <3> HIDE DEF free
        <3> QED
            BY <1>2, <2>1, <2>2, Least
    <2> QED
        BY <2>3, SlotsAre
<1> QED
    BY <1>1, <1>2

\* An add that finds room puts a structure at the head of the list.
LEMMA AddList ==
    ASSUME BlinkTypeOK, Linked, NEW b \in Blink, CanAdd(b), mp1_ioctl_add(b)
    PROVE  /\ mp1_malloc \in Slots /\ blink_array[mp1_malloc].location = 0
           /\ \A k \in DOMAIN List : List[k] # mp1_malloc
           /\ New(b) \in Struct
           /\ blink_array' = [blink_array EXCEPT ![mp1_malloc] = New(b)]
           /\ mp1_list_head' = mp1_malloc
           /\ vmem' = [vmem EXCEPT ![b.location] = b.on_char]
           /\ drawn' = [drawn EXCEPT ![b.location] = mp1_malloc]
           /\ Links(blink_array', mp1_list_head', List')
           /\ List' = <<mp1_malloc>> \o List
<1> DEFINE s == mp1_malloc
<1>1. s \in Slots /\ blink_array[s].location = 0
    BY MallocIs DEF CanAdd
<1>2. \A k \in DOMAIN List : List[k] # s
    BY <1>1 DEF Linked
<1>3. New(b) \in Struct
    <2>1. b.location \in Slots
        BY SizeAssumption DEF CanAdd, Blink, Slots
    <2>2. b.on_length \in Words /\ b.off_length \in Words
        BY LengthIs DEF Blink
    <2> QED
        BY <2>1, <2>2 DEF New, Struct, BlinkTypeOK, Blink
<1>4. /\ blink_array' = [blink_array EXCEPT ![s] = New(b)]
      /\ mp1_list_head' = s
      /\ vmem' = [vmem EXCEPT ![b.location] = b.on_char]
      /\ drawn' = [drawn EXCEPT ![b.location] = s]
    BY DEF mp1_ioctl_add, New, mp1_poke
<1> HIDE DEF s
<1>5. /\ blink_array \in [Slots -> Struct]
      /\ \A r \in Slots \ {s} : blink_array'[r] = blink_array[r]
      /\ blink_array'[s] = New(b)
    BY <1>1, <1>4 DEF BlinkTypeOK
<1>6. New(b).next = mp1_list_head
    BY DEF New
<1>7. Links(blink_array', mp1_list_head', <<s>> \o List)
    <2>1. Links(blink_array, mp1_list_head, List)
        BY DEF Linked
    <2> QED
        BY <1>1, <1>2, <1>4, <1>5, <1>6, <2>1, AddLinks
<1>8. List' = <<s>> \o List
    BY <1>7, ListIs DEF List
<1> QED
    BY <1>1, <1>2, <1>3, <1>4, <1>7, <1>8 DEF s

\* A remove takes one structure out of the list and zeroes it.
LEMMA RemoveList ==
    ASSUME BlinkTypeOK, Linked, NEW k \in DOMAIN List,
           blink_array' = Unlinked(k),
           mp1_list_head' = IF k = 1 THEN blink_array[List[k]].next ELSE mp1_list_head
    PROVE  /\ blink_array' \in [Slots -> Struct]
           /\ blink_array'[List[k]] = Zero
           /\ \A s \in Slots : s # List[k] => CellOf(blink_array'[s]) = CellOf(blink_array[s])
           /\ Links(blink_array', mp1_list_head', List')
           /\ List' = Without(List, k)
<1>1. /\ List \in Seq(Slots) /\ Len(List) \in Nat /\ DOMAIN List = 1 .. Len(List)
      /\ \A j \in DOMAIN List : List[j] \in Slots
      /\ \A i1, i2 \in DOMAIN List : List[i1] = List[i2] => i1 = i2
    BY ListMeans
<1>2. blink_array \in [Slots -> Struct]
    BY DEF BlinkTypeOK
<1>3. Zero \in Struct
    <2>1. 0 \in Slots
        BY SizeAssumption DEF Slots
    <2>2. 0 \in Words
        BY WordAssumption DEF Words
    <2> QED
        BY <2>1, <2>2, CharAssumption DEF Zero, Struct
<1>4. k > 1 => k - 1 \in DOMAIN List
    BY <1>1
<1> DEFINE next == blink_array[List[k]].next
<1>5. next \in Slots \cup {NULL}
    BY <1>1, <1>2 DEF Struct
<1>6. \A s \in Slots :
         blink_array'[s] = IF s = List[k] THEN Zero
                           ELSE IF k > 1 /\ s = List[k - 1]
                           THEN [blink_array[s] EXCEPT !.next = next] ELSE blink_array[s]
    <2>1. k > 1 => List[k - 1] # List[k]
        BY <1>1, <1>4
    <2> QED
        BY <2>1 DEF Unlinked
<1>7. DOMAIN blink_array' = Slots
    BY DEF Unlinked
<1> HIDE DEF next
<1>8. ASSUME NEW s \in Slots
      PROVE  /\ blink_array'[s] \in Struct
             /\ s # List[k] => CellOf(blink_array'[s]) = CellOf(blink_array[s])
    <2>1. blink_array[s] \in Struct
        BY <1>2
    <2>2. /\ [blink_array[s] EXCEPT !.next = next] \in Struct
          /\ CellOf([blink_array[s] EXCEPT !.next = next]) = CellOf(blink_array[s])
        BY <1>5, <2>1 DEF Struct, CellOf
    <2> QED
        BY <1>3, <1>6, <2>1, <2>2
<1>9. blink_array' \in [Slots -> Struct]
    <2>1. blink_array' = [s \in Slots |-> blink_array'[s]]
        BY DEF Unlinked
    <2> QED
        BY <1>8, <2>1
<1>10. \A j \in DOMAIN List : j # k /\ j # k - 1 =>
          blink_array'[List[j]].next = blink_array[List[j]].next
    <2> SUFFICES ASSUME NEW j \in DOMAIN List, j # k, j # k - 1
                 PROVE  blink_array'[List[j]] = blink_array[List[j]]
        OBVIOUS
    <2>1. List[j] # List[k] /\ (k > 1 => List[j] # List[k - 1])
        BY <1>1, <1>4
    <2> QED
        BY <1>1, <1>6, <2>1
<1>11. k > 1 => blink_array'[List[k - 1]].next = blink_array[List[k]].next
    <2> SUFFICES ASSUME k > 1 PROVE blink_array'[List[k - 1]].next = next
        BY DEF next
    <2>1. List[k - 1] \in Slots /\ List[k - 1] # List[k]
        BY <1>1, <1>4
    <2>2. blink_array'[List[k - 1]] = [blink_array[List[k - 1]] EXCEPT !.next = next]
        BY <1>6, <2>1
    <2>3. blink_array[List[k - 1]] \in Struct
        BY <1>2, <2>1
    <2> QED
        BY <2>2, <2>3 DEF Struct
<1>12. Links(blink_array', mp1_list_head', Without(List, k))
    <2>1. Links(blink_array, mp1_list_head, List)
        BY DEF Linked
    <2> QED
        BY <1>10, <1>11, <2>1, RemoveLinks
<1>13. List' = Without(List, k)
    BY <1>12, ListIs DEF List
<1> QED
    BY <1>1, <1>6, <1>8, <1>9, <1>12, <1>13

\* Calls that touch no link leave the list as it is.
LEMMA SameList ==
    ASSUME Linked, UNCHANGED mp1_list_head,
           \A s \in Slots : blink_array'[s].next = blink_array[s].next
    PROVE  Links(blink_array', mp1_list_head', List') /\ List' = List
<1>1. Links(blink_array, mp1_list_head, List)
    BY DEF Linked
<1>2. Links(blink_array', mp1_list_head', List)
    BY <1>1, SameLinks
<1>3. List' = List
    BY <1>2, ListIs DEF List
<1> QED
    BY <1>2, <1>3

-----------------------------------------------------------------------------
(* Every call keeps the list, and the cells in time *)

\* What InTime says of one structure.
Timed(b) ==
    /\ b.on_length \in Length /\ b.off_length \in Length
    /\ b.countdown \in 1 .. Time(b)
Lit(b) == IF b.status = 1 THEN b.on_char ELSE b.off_char

\* InTime, structure by structure.
LEMMA InTimeMeans ==
    InTime <=> \A s \in Slots : blink_array[s].location # 0 =>
                  /\ Timed(blink_array[s])
                  /\ drawn[blink_array[s].location] = s =>
                        vmem[blink_array[s].location] = Lit(blink_array[s])
BY DEF InTime, Timed, Lit

\* The same of the next state.
LEMMA InTimeMeansNext ==
    InTime' <=> \A s \in Slots : blink_array'[s].location # 0 =>
                  /\ Timed(blink_array'[s])
                  /\ drawn'[blink_array'[s].location] = s =>
                        vmem'[blink_array'[s].location] = Lit(blink_array'[s])
BY DEF InTime, Timed, Lit

\* RTC_ADD
LEMMA AddStep ==
    ASSUME BlinkInv, NEW b \in Blink, mp1_ioctl_add(b)
    PROVE  BlinkInv'
<1>1. CASE ~CanAdd(b)
    <2>1. UNCHANGED blinkVars
        BY <1>1 DEF mp1_ioctl_add
    <2> QED
        BY <2>1 DEF BlinkInv, BlinkTypeOK, Linked, InTime, List, blinkVars
<1>2. CASE CanAdd(b)
    <2> DEFINE s == mp1_malloc
    <2>1. BlinkTypeOK /\ Linked /\ InTime
        BY DEF BlinkInv
    <2>2. /\ s \in Slots /\ blink_array[s].location = 0
          /\ New(b) \in Struct
          /\ blink_array' = [blink_array EXCEPT ![s] = New(b)]
          /\ mp1_list_head' = s
          /\ vmem' = [vmem EXCEPT ![b.location] = b.on_char]
          /\ drawn' = [drawn EXCEPT ![b.location] = s]
          /\ Links(blink_array', mp1_list_head', List')
          /\ List' = <<s>> \o List
        BY <1>2, <2>1, AddList
    <2> HIDE DEF s
    <2>3. /\ blink_array \in [Slots -> Struct] /\ vmem \in [Slots -> Char]
          /\ drawn \in [Slots -> Slots \cup {NULL}]
        BY <2>1 DEF BlinkTypeOK
    <2>4. /\ New(b).location = b.location /\ New(b).location \in Slots
          /\ b.location # 0 /\ b.on_char \in Char
        BY <2>2 DEF New, Struct, Blink
    <2>5. BlinkTypeOK'
        BY <2>2, <2>3, <2>4 DEF BlinkTypeOK
    <2>6. Linked'
        <3>1. /\ List \in Seq(Slots) /\ Len(List) \in Nat /\ DOMAIN List = 1 .. Len(List)
            BY <2>1, ListMeans
        <3>2. /\ List' \in Seq(Slots) /\ Len(List') = Len(List) + 1 /\ List'[1] = s
              /\ \A k \in 1 .. Len(List) : List'[k + 1] = List[k]
            BY <2>2, <3>1, ConsIs
        <3>3. DOMAIN List' = 1 .. Len(List) + 1
            BY <3>2, LenProperties
        <3>4. ASSUME NEW r \in Slots
              PROVE  (\E k \in DOMAIN List' : List'[k] = r)
                       <=> r = s \/ \E k \in DOMAIN List : List[k] = r
            <4>1. 1 \in 1 .. Len(List) + 1 /\ \A k \in 1 .. Len(List) : k + 1 \in 1 .. Len(List) + 1
                BY <3>1
            <4>2. \A k \in 1 .. Len(List) + 1 : k # 1 => k - 1 \in 1 .. Len(List) /\ (k - 1) + 1 = k
                BY <3>1
            <4>3. ASSUME NEW k \in DOMAIN List', List'[k] = r
                  PROVE  r = s \/ \E j \in DOMAIN List : List[j] = r
                <5>1. CASE k = 1
                    BY <3>2, <4>3, <5>1
                <5>2. CASE k # 1
                    <6>1. k - 1 \in DOMAIN List /\ List'[(k - 1) + 1] = List[k - 1]
                        BY <3>1, <3>2, <3>3, <4>2, <5>2
                    <6>2. (k - 1) + 1 = k
                        BY <3>3, <4>2, <5>2
                    <6> QED
                        BY <4>3, <6>1, <6>2
                <5> QED
                    BY <5>1, <5>2
            <4>4. r = s => \E k \in DOMAIN List' : List'[k] = r
                BY <3>2, <3>3, <4>1
            <4>5. ASSUME NEW k \in DOMAIN List, List[k] = r
                  PROVE  \E j \in DOMAIN List' : List'[j] = r
                <5>1. k + 1 \in DOMAIN List' /\ List'[k + 1] = r
                    BY <3>1, <3>2, <3>3, <4>1, <4>5
                <5> QED
                    BY <5>1
            <4> QED
                BY <4>3, <4>4, <4>5
        <3>5. \A r \in Slots : blink_array'[r].location # 0 <=>
                                  r = s \/ blink_array[r].location # 0
            BY <2>2, <2>3, <2>4
        <3>6. \A r \in Slots : blink_array[r].location # 0 <=> \E k \in DOMAIN List : List[k] = r
            BY <2>1 DEF Linked
        <3> QED
            BY <2>2, <3>4, <3>5, <3>6 DEF Linked
    <2>7. InTime'
        <3>1. ASSUME NEW r \in Slots, blink_array'[r].location # 0
              PROVE  /\ Timed(blink_array'[r])
                     /\ drawn'[blink_array'[r].location] = r =>
                           vmem'[blink_array'[r].location] = Lit(blink_array'[r])
            <4>1. CASE r = s
                <5>1. blink_array'[r] = New(b) /\ vmem'[b.location] = b.on_char
                    BY <2>2, <2>3, <2>4, <4>1
                <5>2. b.on_length \in 1 .. b.on_length
                    BY LengthIs DEF Blink
                <5>3. Timed(New(b)) /\ Lit(New(b)) = b.on_char
                    BY <5>2 DEF Timed, Lit, New, Time, Blink
                <5> QED
                    BY <2>4, <5>1, <5>3
            <4>2. CASE r # s
                <5>1. blink_array'[r] = blink_array[r] /\ blink_array[r].location \in Slots
                    BY <2>2, <2>3, <4>2 DEF Struct
                <5>2. blink_array[r].location = b.location => drawn'[b.location] = s
                    BY <2>2, <2>3, <2>4
                <5>3. blink_array[r].location # b.location =>
                         /\ drawn'[blink_array[r].location] = drawn[blink_array[r].location]
                         /\ vmem'[blink_array[r].location] = vmem[blink_array[r].location]
                    BY <2>2, <2>3, <5>1
                <5> QED
                    BY <2>1, <3>1, <4>2, <5>1, <5>2, <5>3, InTimeMeans
            <4> QED
                BY <4>1, <4>2
        <3> QED
            BY <3>1, InTimeMeansNext
    <2> QED
        BY <2>5, <2>6, <2>7 DEF BlinkInv
<1> QED
    BY <1>1, <1>2

\* RTC_REMOVE
LEMMA RemoveStep ==
    ASSUME BlinkInv, NEW l, mp1_ioctl_remove(l)
    PROVE  BlinkInv'
<1> DEFINE k == mp1_find_helper(l)
<1>0. BlinkTypeOK /\ Linked /\ InTime
    BY DEF BlinkInv
<1>1. CASE k = 0
    <2>1. UNCHANGED blinkVars
        BY <1>1 DEF mp1_ioctl_remove
    <2> QED
        BY <2>1 DEF BlinkInv, BlinkTypeOK, Linked, InTime, List, blinkVars
<1>2. CASE k # 0
    <2>1. /\ blink_array' = Unlinked(k)
          /\ mp1_list_head' = IF k = 1 THEN blink_array[List[k]].next ELSE mp1_list_head
          /\ UNCHANGED <<vmem, drawn>>
        BY <1>2 DEF mp1_ioctl_remove
    <2>2. k \in DOMAIN List
        BY <1>0, <1>2, FindIs, ListMeans
    <2> HIDE DEF k
    <2>3. /\ blink_array' \in [Slots -> Struct]
          /\ blink_array'[List[k]] = Zero
          /\ \A s \in Slots : s # List[k] => CellOf(blink_array'[s]) = CellOf(blink_array[s])
          /\ Links(blink_array', mp1_list_head', List')
          /\ List' = Without(List, k)
        BY <1>0, <2>1, <2>2, RemoveList
    <2>4. /\ List \in Seq(Slots) /\ Len(List) \in Nat /\ DOMAIN List = 1 .. Len(List)
          /\ \A j \in DOMAIN List : List[j] \in Slots
          /\ \A i1, i2 \in DOMAIN List : List[i1] = List[i2] => i1 = i2
        BY <1>0, ListMeans
    <2>5. Zero.location = 0 /\ List[k] \in Slots
        BY <2>2, <2>4 DEF Zero
    <2>6. BlinkTypeOK'
        <3>1. mp1_list_head' \in Slots \cup {NULL}
            BY <1>0, <2>1, <2>5 DEF BlinkTypeOK, Struct
        <3> QED
            BY <1>0, <2>1, <2>3, <3>1 DEF BlinkTypeOK
    <2>7. Linked'
        <3>1. /\ List' \in Seq(Slots) /\ Len(List') = Len(List) - 1
              /\ \A j \in 1 .. Len(List) - 1 : List'[j] = IF j < k THEN List[j] ELSE List[j + 1]
            <4>1. k \in 1 .. Len(List) /\ List \in Seq(Slots)
                BY <2>2, <2>4
            <4>2. List' = Without(List, k)
                BY <2>3
            <4> QED
                BY <4>1, <4>2, WithoutIs
        <3>2. DOMAIN List' = 1 .. Len(List) - 1
            BY <3>1, LenProperties
        <3>3. ASSUME NEW s \in Slots
              PROVE  (\E j \in DOMAIN List' : List'[j] = s)
                       <=> s # List[k] /\ \E j \in DOMAIN List : List[j] = s
            <4>1. ASSUME NEW j \in DOMAIN List', List'[j] = s
                  PROVE  s # List[k] /\ \E i1 \in DOMAIN List : List[i1] = s
                <5>1. /\ j \in DOMAIN List /\ j + 1 \in DOMAIN List
                      /\ j < k => j # k
                      /\ ~(j < k) => j + 1 # k
                    BY <2>2, <2>4, <3>2
                <5> QED
                    BY <2>2, <2>4, <3>1, <3>2, <4>1, <5>1
            <4>2. ASSUME NEW j \in DOMAIN List, List[j] = s, s # List[k]
                  PROVE  \E i1 \in DOMAIN List' : List'[i1] = s
                <5>1. j # k
                    BY <4>2
                <5>2. CASE j < k
                    <6>1. j \in 1 .. Len(List) - 1
                        BY <2>2, <2>4, <5>2
                    <6> QED
                        BY <3>1, <3>2, <4>2, <5>2, <6>1
                <5>3. CASE j > k
                    <6>1. j - 1 \in 1 .. Len(List) - 1 /\ ~(j - 1 < k) /\ (j - 1) + 1 = j
                        BY <2>2, <2>4, <5>3
                    <6>2. List'[j - 1] = s
                        BY <3>1, <4>2, <6>1
                    <6> QED
                        BY <3>2, <6>1, <6>2
                <5>4. j < k \/ j > k
                    BY <2>2, <2>4, <5>1
                <5> QED
                    BY <5>2, <5>3, <5>4
            <4> QED
                BY <4>1, <4>2
        <3>4. \A s \in Slots : blink_array'[s].location # 0 <=>
                                  s # List[k] /\ blink_array[s].location # 0
            BY <2>3, <2>5 DEF CellOf
        <3>5. \A s \in Slots : blink_array[s].location # 0 <=> \E j \in DOMAIN List : List[j] = s
            BY <1>0 DEF Linked
        <3> QED
            BY <2>3, <3>3, <3>4, <3>5 DEF Linked
    <2>8. InTime'
        <3>1. ASSUME NEW s \in Slots, blink_array'[s].location # 0
              PROVE  /\ Timed(blink_array'[s])
                     /\ drawn'[blink_array'[s].location] = s =>
                           vmem'[blink_array'[s].location] = Lit(blink_array'[s])
            <4>1. CellOf(blink_array'[s]) = CellOf(blink_array[s])
                BY <2>3, <2>5, <3>1
            <4>2. /\ blink_array'[s].location = blink_array[s].location
                  /\ Timed(blink_array'[s]) <=> Timed(blink_array[s])
                  /\ Lit(blink_array'[s]) = Lit(blink_array[s])
                BY <4>1 DEF CellOf, Timed, Lit, Time
            <4> QED
                BY <1>0, <2>1, <3>1, <4>2, InTimeMeans
        <3> QED
            BY <3>1, InTimeMeansNext
    <2> QED
        BY <2>6, <2>7, <2>8 DEF BlinkInv
<1> QED
    BY <1>1, <1>2

\* The structure that mp1_ioctl_sync changes, and what becomes of it.
Synced(b, a) == [b EXCEPT !.on_length = a.on_length, !.off_length = a.off_length,
                          !.countdown = a.countdown, !.status = a.status]

\* What mp1_ioctl_sync does if it finds both structures.
LEMMA SyncList ==
    ASSUME BlinkTypeOK, Linked, NEW from, NEW to, mp1_ioctl_sync(from, to),
           mp1_find_helper(from) # 0, mp1_find_helper(to) # 0
    PROVE  LET k == mp1_find_helper(from)
               n == mp1_find_helper(to)
           IN /\ k \in DOMAIN List /\ n \in DOMAIN List
              /\ List[k] \in Slots /\ List[n] \in Slots
              /\ blink_array[List[n]].location = to
              /\ blink_array' = [blink_array EXCEPT ![List[n]] =
                                   Synced(blink_array[List[n]], blink_array[List[k]])]
              /\ Synced(blink_array[List[n]], blink_array[List[k]]) \in Struct
              /\ vmem' = [vmem EXCEPT ![to] = blink_array[List[n]].off_char]
              /\ drawn' = [drawn EXCEPT ![to] = NULL]
              /\ UNCHANGED mp1_list_head
              /\ Links(blink_array', mp1_list_head', List') /\ List' = List
<1> DEFINE k == mp1_find_helper(from)
           n == mp1_find_helper(to)
           a == blink_array[List[k]]
           b == blink_array[List[n]]
<1>1. /\ k \in DOMAIN List /\ n \in DOMAIN List
      /\ List[k] \in Slots /\ List[n] \in Slots /\ b.location = to
    BY FindIs, ListMeans
<1>2. /\ blink_array' = [blink_array EXCEPT ![List[n]] = Synced(b, a)]
      /\ vmem' = [vmem EXCEPT ![to] = b.off_char]
      /\ drawn' = [drawn EXCEPT ![to] = NULL]
      /\ UNCHANGED mp1_list_head
    BY DEF mp1_ioctl_sync, Synced, mp1_poke
<1>3. a \in Struct /\ b \in Struct /\ blink_array \in [Slots -> Struct]
    BY <1>1 DEF BlinkTypeOK
<1> HIDE DEF k, n
<1>4. Synced(b, a) \in Struct /\ Synced(b, a).next = b.next
    <2> HIDE DEF a, b
    <2> QED
        BY <1>3 DEF Synced, Struct
<1>5. \A s \in Slots : blink_array'[s].next = blink_array[s].next
    BY <1>1, <1>2, <1>3, <1>4
<1>6. Links(blink_array', mp1_list_head', List') /\ List' = List
    BY <1>2, <1>5, SameList
<1> QED
    BY <1>1, <1>2, <1>4, <1>6 DEF k, n

\* RTC_SYNC
LEMMA SyncStep ==
    ASSUME BlinkInv, NEW from, NEW to, mp1_ioctl_sync(from, to)
    PROVE  BlinkInv'
<1> DEFINE k == mp1_find_helper(from)
           n == mp1_find_helper(to)
           a == blink_array[List[k]]
           b == blink_array[List[n]]
           t == List[n]
<1>0. BlinkTypeOK /\ Linked /\ InTime
    BY DEF BlinkInv
<1>1. CASE k = 0 \/ n = 0
    <2>1. UNCHANGED blinkVars
        BY <1>1 DEF mp1_ioctl_sync
    <2> QED
        BY <2>1 DEF BlinkInv, BlinkTypeOK, Linked, InTime, List, blinkVars
<1>2. CASE k # 0 /\ n # 0
    <2>1. /\ k \in DOMAIN List /\ n \in DOMAIN List
          /\ List[k] \in Slots /\ t \in Slots /\ b.location = to
          /\ blink_array' = [blink_array EXCEPT ![t] = Synced(b, a)]
          /\ Synced(b, a) \in Struct
          /\ vmem' = [vmem EXCEPT ![to] = b.off_char]
          /\ drawn' = [drawn EXCEPT ![to] = NULL]
          /\ UNCHANGED mp1_list_head
          /\ Links(blink_array', mp1_list_head', List') /\ List' = List
        BY <1>0, <1>2, SyncList
    <2>2. /\ blink_array \in [Slots -> Struct] /\ a \in Struct /\ b \in Struct
          /\ vmem \in [Slots -> Char] /\ drawn \in [Slots -> Slots \cup {NULL}]
        BY <1>0, <2>1 DEF BlinkTypeOK
    <2>3. a.location # 0 /\ b.location # 0
        BY <1>0, <2>1 DEF Linked
    <2>4. /\ Timed(a)
          /\ \A s \in Slots : blink_array[s].location # 0 =>
                  /\ Timed(blink_array[s])
                  /\ drawn[blink_array[s].location] = s =>
                        vmem[blink_array[s].location] = Lit(blink_array[s])
        BY <1>0, <2>1, <2>3, InTimeMeans
    <2>5. \A s \in Slots : s # t => blink_array'[s] = blink_array[s]
        BY <2>1, <2>2
    <2>6. blink_array'[t] = Synced(b, a)
        BY <2>1, <2>2
    <2> HIDE DEF k, n, a, b, t
    <2>7. to \in Slots /\ b.off_char \in Char /\ Synced(b, a).location = to
        BY <2>1, <2>2 DEF Struct, Synced
    <2>8. BlinkTypeOK'
        BY <1>0, <2>1, <2>2, <2>7 DEF BlinkTypeOK
    <2>9. Linked'
        <3>1. \A s \in Slots : blink_array'[s].location # 0 <=> blink_array[s].location # 0
            BY <2>1, <2>3, <2>5, <2>6, <2>7 DEF b, t
        <3> QED
            BY <1>0, <2>1, <3>1 DEF Linked
    <2>10. InTime'
        <3>1. Timed(Synced(b, a))
            BY <2>2, <2>4 DEF Timed, Synced, Time, Struct
        <3>2. ASSUME NEW s \in Slots, blink_array'[s].location # 0
              PROVE  /\ Timed(blink_array'[s])
                     /\ drawn'[blink_array'[s].location] = s =>
                           vmem'[blink_array'[s].location] = Lit(blink_array'[s])
            <4>1. drawn'[to] # s
                BY <2>1, <2>2, <2>7, SlotsAre
            <4>2. CASE s = t
                BY <2>6, <2>7, <3>1, <4>1, <4>2
            <4>3. CASE s # t
                <5>1. blink_array'[s] = blink_array[s] /\ blink_array[s].location \in Slots
                    BY <2>2, <2>5, <4>3 DEF Struct
                <5>2. blink_array[s].location # to =>
                         /\ drawn'[blink_array[s].location] = drawn[blink_array[s].location]
                         /\ vmem'[blink_array[s].location] = vmem[blink_array[s].location]
                    BY <2>1, <2>2, <5>1
                <5> QED
                    BY <2>4, <3>2, <4>1, <5>1, <5>2
            <4> QED
                BY <4>2, <4>3
        <3> QED
            BY <3>2, InTimeMeansNext
    <2> QED
        BY <2>8, <2>9, <2>10 DEF BlinkInv
<1> QED
    BY <1>1, <1>2

\* A structure after a tick: in time, and another character if it turns.
LEMMA TickedIs ==
    ASSUME NEW b \in Struct
    PROVE  /\ Ticked(b) \in Struct
           /\ Ticked(b).location = b.location /\ Ticked(b).next = b.next
           /\ Ticked(b).on_char = b.on_char /\ Ticked(b).off_char = b.off_char
           /\ Timed(b) => Timed(Ticked(b))
           /\ Turns(b) => Lit(Ticked(b)) = IF b.status = 1 THEN b.off_char ELSE b.on_char
           /\ ~Turns(b) => Lit(Ticked(b)) = Lit(b)
<1>1. /\ b.countdown \in Words /\ b.on_length \in Words /\ b.off_length \in Words
      /\ b.status \in {0, 1}
    BY DEF Struct
<1>2. Down(b.countdown) \in Words
    <2>1. b.countdown + WORD - 1 \in Nat /\ WORD \in Nat \ {0}
        BY <1>1, WordAssumption DEF Words
    <2> QED
        BY <2>1 DEF Down, Words
<1>3. CASE Turns(b)
    <2>1. Ticked(b) = [b EXCEPT !.countdown = IF b.status = 1 THEN b.off_length ELSE b.on_length,
                                !.status = 1 - b.status]
        BY <1>3 DEF Ticked
    <2>2. 1 - b.status \in {0, 1} /\ (1 - b.status = 1 <=> b.status # 1)
        BY <1>1
    <2>3. /\ Ticked(b) \in Struct
          /\ Ticked(b).location = b.location /\ Ticked(b).next = b.next
          /\ Ticked(b).on_char = b.on_char /\ Ticked(b).off_char = b.off_char
          /\ Ticked(b).status = 1 - b.status
          /\ Ticked(b).on_length = b.on_length /\ Ticked(b).off_length = b.off_length
          /\ Ticked(b).countdown = IF b.status = 1 THEN b.off_length ELSE b.on_length
        BY <1>1, <2>1, <2>2 DEF Struct
    <2>4. Lit(Ticked(b)) = IF b.status = 1 THEN b.off_char ELSE b.on_char
        BY <2>2, <2>3 DEF Lit
    <2>5. ASSUME Timed(b) PROVE Timed(Ticked(b))
        <3>1. Ticked(b).countdown = Time(Ticked(b)) /\ Ticked(b).countdown \in Length
            BY <2>2, <2>3, <2>5 DEF Time, Timed
        <3>2. Ticked(b).countdown \in 1 .. Time(Ticked(b))
            BY <3>1, LengthIs
        <3> QED
            BY <2>3, <2>5, <3>2 DEF Timed
    <2> QED
        BY <1>3, <2>3, <2>4, <2>5
<1>4. CASE ~Turns(b)
    <2>1. Ticked(b) = [b EXCEPT !.countdown = Down(b.countdown)]
        BY <1>4 DEF Ticked
    <2>2. /\ Ticked(b) \in Struct
          /\ Ticked(b).location = b.location /\ Ticked(b).next = b.next
          /\ Ticked(b).on_char = b.on_char /\ Ticked(b).off_char = b.off_char
          /\ Ticked(b).status = b.status
          /\ Ticked(b).on_length = b.on_length /\ Ticked(b).off_length = b.off_length
          /\ Ticked(b).countdown = Down(b.countdown)
        BY <1>2, <2>1 DEF Struct
    <2>3. Lit(Ticked(b)) = Lit(b)
        BY <2>2 DEF Lit
    <2>4. ASSUME Timed(b) PROVE Timed(Ticked(b))
        <3>1. Time(Ticked(b)) = Time(b) /\ Time(b) \in Length /\ b.countdown \in 1 .. Time(b)
            BY <2>2, <2>4 DEF Time, Timed
        <3>2. Time(b) \in Nat /\ Time(b) < WORD /\ b.countdown \in Nat /\ b.countdown < WORD
            BY <3>1, LengthIs, WordAssumption DEF Words
        <3>3. Down(b.countdown) = b.countdown - 1
            <4>1. b.countdown + WORD - 1 = (b.countdown - 1) + WORD /\ b.countdown - 1 \in 0 .. WORD - 1
                BY <3>1, <3>2, WordAssumption
            <4> QED
                BY <4>1, WordAssumption DEF Down
        <3>4. Down(b.countdown) # 0
            BY <1>4 DEF Turns, NotDue
        <3>5. Down(b.countdown) \in 1 .. Time(b)
            BY <3>1, <3>2, <3>3, <3>4
        <3> QED
            BY <2>2, <2>4, <3>1, <3>5 DEF Timed
    <2> QED
        BY <1>4, <2>2, <2>3, <2>4
<1> QED
    BY <1>3, <1>4

Listed == {List[k] : k \in DOMAIN List}
\* The places in the list of the structures that a tick draws at a location.
Turning(l) == {k \in DOMAIN List : /\ blink_array[List[k]].location = l
                                   /\ Turns(blink_array[List[k]])}
LastOf(l) == List[CHOOSE k \in Turning(l) : \A j \in Turning(l) : j <= k]

\* The last of the structures that turn at a location is one of them.
LEMMA LastTurns ==
    ASSUME Linked, NEW l, Turning(l) # {}
    PROVE  /\ LastOf(l) \in Listed /\ LastOf(l) \in Slots
           /\ blink_array[LastOf(l)].location = l /\ Turns(blink_array[LastOf(l)])
<1> DEFINE T == Turning(l)
           C == {Len(List) - k : k \in T}
<1>1. Len(List) \in Nat /\ DOMAIN List = 1 .. Len(List) /\ T \subseteq DOMAIN List
    BY ListMeans DEF Turning
<1>2. \E k \in T : \A j \in T : j <= k
    <2>1. C \subseteq Nat /\ C # {}
        BY <1>1
    <2>2. PICK m \in C : \A n \in C : m <= n
        <3> HIDE DEF C
        <3> QED
            BY <2>1, Least
    <2>3. PICK k \in T : m = Len(List) - k
        BY <2>2
    <2>4. ASSUME NEW j \in T PROVE j <= k
        <3>1. Len(List) - j \in C
            OBVIOUS
        <3>2. Len(List) - k <= Len(List) - j
            BY <2>2, <2>3, <3>1
        <3>3. j \in 1 .. Len(List) /\ k \in 1 .. Len(List)
            BY <1>1
        <3> QED
            BY <1>1, <3>2, <3>3
    <2> QED
        BY <2>4
<1> DEFINE k == CHOOSE k \in T : \A j \in T : j <= k
<1> HIDE DEF T
<1>3. k \in T
    BY <1>2
<1>4. LastOf(l) = List[k]
    BY DEF LastOf, T
<1> HIDE DEF k
<1>5. k \in DOMAIN List /\ blink_array[List[k]].location = l /\ Turns(blink_array[List[k]])
    BY <1>3 DEF T, Turning
<1> QED
    BY <1>4, <1>5, ListMeans DEF Listed

\* What a tick does.
LEMMA TickList ==
    ASSUME BlinkTypeOK, Linked, mp1_rtc_tasklet
    PROVE  /\ blink_array' = [s \in Slots |-> IF s \in Listed THEN Ticked(blink_array[s])
                                              ELSE blink_array[s]]
           /\ blink_array' \in [Slots -> Struct]
           /\ vmem' = [l \in Slots |->
                         IF Turning(l) = {} THEN vmem[l]
                         ELSE LET b == blink_array[LastOf(l)]
                              IN IF b.status = 1 THEN b.off_char ELSE b.on_char]
           /\ drawn' = [l \in Slots |-> IF Turning(l) = {} THEN drawn[l] ELSE LastOf(l)]
           /\ UNCHANGED mp1_list_head
           /\ Links(blink_array', mp1_list_head', List') /\ List' = List
<1>1. /\ blink_array' = [s \in Slots |-> IF s \in Listed THEN Ticked(blink_array[s])
                                         ELSE blink_array[s]]
      /\ vmem' = [l \in Slots |->
                    IF Turning(l) = {} THEN vmem[l]
                    ELSE LET b == blink_array[LastOf(l)]
                         IN IF b.status = 1 THEN b.off_char ELSE b.on_char]
      /\ drawn' = [l \in Slots |-> IF Turning(l) = {} THEN drawn[l] ELSE LastOf(l)]
      /\ UNCHANGED mp1_list_head
    BY DEF mp1_rtc_tasklet, Listed, Turning, LastOf
<1>2. \A s \in Slots : blink_array[s] \in Struct
    BY DEF BlinkTypeOK
<1>3. \A s \in Slots : blink_array'[s] \in Struct /\ blink_array'[s].next = blink_array[s].next
    BY <1>1, <1>2, TickedIs
<1>4. blink_array' \in [Slots -> Struct]
    BY <1>1, <1>2, TickedIs
<1>5. Links(blink_array', mp1_list_head', List') /\ List' = List
    BY <1>1, <1>3, SameList
<1> QED
    BY <1>1, <1>4, <1>5

\* A tick
LEMMA TickStep ==
    ASSUME BlinkInv, mp1_rtc_tasklet
    PROVE  BlinkInv'
<1>0. BlinkTypeOK /\ Linked /\ InTime
    BY DEF BlinkInv
<1>1. /\ blink_array' = [s \in Slots |-> IF s \in Listed THEN Ticked(blink_array[s])
                                         ELSE blink_array[s]]
      /\ blink_array' \in [Slots -> Struct]
      /\ vmem' = [l \in Slots |->
                    IF Turning(l) = {} THEN vmem[l]
                    ELSE LET b == blink_array[LastOf(l)]
                         IN IF b.status = 1 THEN b.off_char ELSE b.on_char]
      /\ drawn' = [l \in Slots |-> IF Turning(l) = {} THEN drawn[l] ELSE LastOf(l)]
      /\ UNCHANGED mp1_list_head
      /\ Links(blink_array', mp1_list_head', List') /\ List' = List
    BY <1>0, TickList
<1>2. /\ \A s \in Slots : blink_array[s] \in Struct
      /\ vmem \in [Slots -> Char] /\ drawn \in [Slots -> Slots \cup {NULL}]
      /\ mp1_list_head \in Slots \cup {NULL}
    BY <1>0 DEF BlinkTypeOK
<1>3. \A l : Turning(l) # {} => /\ LastOf(l) \in Listed /\ LastOf(l) \in Slots
                                /\ blink_array[LastOf(l)].location = l
                                /\ Turns(blink_array[LastOf(l)])
    BY <1>0, LastTurns
<1>4. BlinkTypeOK'
    <2>1. \A l \in Slots : vmem'[l] \in Char
        BY <1>1, <1>2, <1>3 DEF Struct
    <2>2. \A l \in Slots : drawn'[l] \in Slots \cup {NULL}
        BY <1>1, <1>2, <1>3
    <2>3. vmem' = [l \in Slots |-> vmem'[l]] /\ drawn' = [l \in Slots |-> drawn'[l]]
        BY <1>1
    <2>4. vmem' \in [Slots -> Char] /\ drawn' \in [Slots -> Slots \cup {NULL}]
        BY <2>1, <2>2, <2>3
    <2>5. mp1_list_head' \in Slots \cup {NULL} /\ blink_array' \in [Slots -> Struct]
        BY <1>1, <1>2
    <2> QED
        BY <2>4, <2>5 DEF BlinkTypeOK
<1>5. \A s \in Slots : blink_array'[s].location = blink_array[s].location
    BY <1>1, <1>2, TickedIs
<1>6. Linked'
    BY <1>0, <1>1, <1>5 DEF Linked
<1>7. ASSUME NEW s \in Slots, blink_array'[s].location # 0
      PROVE  /\ Timed(blink_array'[s])
             /\ drawn'[blink_array'[s].location] = s =>
                   vmem'[blink_array'[s].location] = Lit(blink_array'[s])
    <2> DEFINE b == blink_array[s]
               l == b.location
    <2>1. b \in Struct /\ l \in Slots /\ blink_array'[s].location = l /\ l # 0
        BY <1>2, <1>5, <1>7 DEF Struct
    <2>2. /\ Timed(b)
          /\ drawn[l] = s => vmem[l] = Lit(b)
        BY <1>0, <2>1, InTimeMeans
    <2>3. s \in Listed => \E k \in DOMAIN List : List[k] = s
        BY DEF Listed
    <2>4. s \in Listed
        BY <1>0, <2>1 DEF Linked, Listed
    <2>5. blink_array'[s] = Ticked(b)
        BY <1>1, <2>4
    <2>6. Timed(blink_array'[s])
        BY <2>1, <2>2, <2>5, TickedIs
    <2>7. ASSUME drawn'[l] = s PROVE vmem'[l] = Lit(blink_array'[s])
        <3>1. CASE Turning(l) = {}
            <4>1. ~Turns(b)
                BY <2>3, <2>4, <3>1 DEF Turning
            <4>2. drawn[l] = s /\ vmem'[l] = vmem[l]
                BY <1>1, <2>1, <2>7, <3>1
            <4> QED
                BY <2>1, <2>2, <2>5, <4>1, <4>2, TickedIs
        <3>2. CASE Turning(l) # {}
            <4>1. LastOf(l) = s /\ Turns(b)
                BY <1>1, <1>3, <2>1, <2>7, <3>2
            <4>2. vmem'[l] = IF b.status = 1 THEN b.off_char ELSE b.on_char
                BY <1>1, <2>1, <3>2, <4>1
            <4> QED
                BY <2>1, <2>5, <4>1, <4>2, TickedIs
        <3> QED
            BY <3>1, <3>2
    <2> QED
        BY <2>1, <2>6, <2>7
<1>8. InTime'
    BY <1>7, InTimeMeansNext
<1> QED
    BY <1>4, <1>6, <1>8 DEF BlinkInv

-----------------------------------------------------------------------------
(* Places of characters *)

\* A set of numbers below a bound has a greatest one.
LEMMA MaxIs ==
    ASSUME NEW n \in Nat, NEW S, S \subseteq 0 .. n, S # {}
    PROVE  Max(S) \in S /\ \A k \in S : Max(S) >= k
<1> DEFINE C == {n - k : k \in S}
<1>1. C \subseteq Nat /\ C # {}
    <2>1. \A k \in S : k \in Nat /\ n - k \in Nat
        OBVIOUS
    <2>2. C \subseteq Nat
        BY <2>1
    <2>3. PICK k \in S : TRUE
        OBVIOUS
    <2>4. n - k \in C
        BY <2>3
    <2> QED
        BY <2>2, <2>4
<1>2. PICK m \in C : \A j \in C : m <= j
    <2> HIDE DEF C
    <2> QED
        BY <1>1, Least
<1>3. PICK x \in S : m = n - x
    BY <1>2
<1>4. ASSUME NEW y \in S PROVE x >= y
    <2>1. n - y \in C
        OBVIOUS
    <2>2. n - x <= n - y
        BY <1>2, <1>3, <2>1
    <2>3. x \in 0 .. n /\ y \in 0 .. n
        OBVIOUS
    <2> QED
        BY <2>2, <2>3
<1>5. \E z \in S : \A y \in S : z >= y
    BY <1>4
<1> QED
    BY <1>5 DEF Max

\* The newlines before a character are finitely many, and so rows and columns
\* are numbers.
LEMMA PlaceType ==
    ASSUME NEW text, NEW n \in Nat, n >= 1
    PROVE  /\ IsFiniteSet(Newlines(text, n)) /\ RowOf(text, n) \in Nat
           /\ Max({0} \cup Newlines(text, n)) \in 0 .. n - 1
           /\ \A k \in Newlines(text, n) : Max({0} \cup Newlines(text, n)) >= k
           /\ ColOf(text, n) \in Nat
<1> DEFINE S == Newlines(text, n)
<1>1. S \subseteq 1 .. n - 1 /\ IsFiniteSet(1 .. n - 1)
    BY FS_Interval DEF Newlines
<1>2. IsFiniteSet(S) /\ Cardinality(S) \in Nat
    BY <1>1, FS_Subset, FS_CardinalityType
<1>3. {0} \cup S \subseteq 0 .. n - 1 /\ n - 1 \in Nat /\ {0} \cup S # {}
    BY <1>1
<1> HIDE DEF S
<1>4. Max({0} \cup S) \in {0} \cup S /\ \A k \in {0} \cup S : Max({0} \cup S) >= k
    BY <1>3, MaxIs
<1>5. Max({0} \cup S) \in 0 .. n - 1
    BY <1>3, <1>4
<1>6. n - 1 - Max({0} \cup S) \in Nat
    BY <1>5
<1> QED
    BY <1>2, <1>4, <1>5, <1>6 DEF S, RowOf, ColOf

\* The first character is at the origin.
LEMMA PlaceFirst == \A text : Place(text, 1) = <<0, 0>>
<1> SUFFICES ASSUME NEW text PROVE RowOf(text, 1) = 0 /\ ColOf(text, 1) = 0
    BY DEF Place
<1>1. Newlines(text, 1) = {}
    BY DEF Newlines
<1>2. RowOf(text, 1) = 0
    BY <1>1, FS_EmptySet DEF RowOf
<1>3. Max({0} \cup Newlines(text, 1)) \in 0 .. 1 - 1
    BY PlaceType
<1> QED
    BY <1>2, <1>3 DEF ColOf

\* A character is behind the one before it, or begins a new row.
LEMMA PlaceNext ==
    ASSUME NEW text, NEW n \in Nat, n >= 1
    PROVE  /\ RowOf(text, n + 1) = IF text[n] = "\n" THEN RowOf(text, n) + 1 ELSE RowOf(text, n)
           /\ ColOf(text, n + 1) = IF text[n] = "\n" THEN 0 ELSE ColOf(text, n) + 1
<1> DEFINE S == Newlines(text, n)
           M == Newlines(text, n + 1)
<1>0. 1 .. (n + 1) - 1 = (1 .. n - 1) \cup {n} /\ n \notin 1 .. n - 1
    OBVIOUS
<1>1. IsFiniteSet(S) /\ Max({0} \cup S) \in 0 .. n - 1 /\ n \notin S
    BY <1>0, PlaceType DEF Newlines
<1>2. M = IF text[n] = "\n" THEN S \cup {n} ELSE S
    BY <1>0 DEF Newlines
<1>3. CASE text[n] = "\n"
    <2>1. M = S \cup {n} /\ n \in M
        BY <1>2, <1>3
    <2>2. Cardinality(M) = Cardinality(S) + 1
        BY <1>1, <2>1, FS_AddElement
    <2>3. /\ n + 1 \in Nat /\ n + 1 >= 1
          /\ Max({0} \cup M) \in 0 .. (n + 1) - 1
          /\ \A k \in M : Max({0} \cup M) >= k
        BY PlaceType
    <2> DEFINE x == Max({0} \cup M)
    <2>4. x \in 0 .. n /\ x >= n
        BY <2>1, <2>3
    <2> HIDE DEF S, M, x
    <2>5. x = n
        BY <2>4
    <2> QED
        BY <1>3, <2>2, <2>5 DEF RowOf, ColOf, S, M, x
<1>4. CASE text[n] # "\n"
    <2>1. M = S
        BY <1>2, <1>4
    <2>2. Cardinality(M) = Cardinality(S)
        BY <2>1
    <2>3. (n + 1) - 1 - Max({0} \cup M) = (n - 1 - Max({0} \cup S)) + 1
        <3>1. Max({0} \cup M) = Max({0} \cup S)
            BY <2>1
        <3> HIDE DEF S, M
        <3> QED
            BY <1>1, <3>1
    <2> QED
        BY <1>4, <2>2, <2>3 DEF RowOf, ColOf
<1> QED
    BY <1>3, <1>4

\* Of two characters the later one is further on in its row, or further down;
\* further down for sure if the earlier one is a newline.
LEMMA PlaceOrder ==
    ASSUME NEW text, NEW m \in Nat, NEW n \in Nat, 1 <= m, m < n
    PROVE  /\ RowOf(text, m) <= RowOf(text, n)
           /\ RowOf(text, m) = RowOf(text, n) => ColOf(text, m) < ColOf(text, n)
           /\ text[m] = "\n" => RowOf(text, m) < RowOf(text, n)
<1> DEFINE S(k) == Newlines(text, k)
<1>0. m >= 1 /\ n >= 1
    OBVIOUS
<1>1. /\ IsFiniteSet(S(m)) /\ IsFiniteSet(S(n))
      /\ RowOf(text, m) \in Nat /\ RowOf(text, n) \in Nat
      /\ Max({0} \cup S(m)) \in 0 .. m - 1
    <2>1. IsFiniteSet(S(n)) /\ RowOf(text, n) \in Nat
        BY <1>0, PlaceType
    <2>2. IsFiniteSet(S(m)) /\ RowOf(text, m) \in Nat /\ Max({0} \cup S(m)) \in 0 .. m - 1
        BY <1>0, PlaceType
    <2> QED
        BY <2>1, <2>2
<1>2. S(m) \subseteq S(n)
    BY DEF Newlines
<1>3. /\ Cardinality(S(m)) <= Cardinality(S(n))
      /\ Cardinality(S(m)) = Cardinality(S(n)) => S(m) = S(n)
    <2> HIDE DEF S
    <2> QED
        BY <1>1, <1>2, FS_Subset
<1>4. ASSUME RowOf(text, m) = RowOf(text, n) PROVE S(m) = S(n)
    BY <1>3, <1>4 DEF RowOf
<1>5. ASSUME S(m) = S(n) PROVE ColOf(text, m) < ColOf(text, n)
    <2>1. Max({0} \cup S(m)) = Max({0} \cup S(n))
        BY <1>5
    <2>2. m - 1 - Max({0} \cup S(m)) < n - 1 - Max({0} \cup S(n))
        BY <1>1, <2>1
    <2> QED
        BY <2>2 DEF ColOf
<1>6. ASSUME text[m] = "\n" PROVE RowOf(text, m) # RowOf(text, n)
    <2>1. m \in S(n) /\ m \notin S(m)
        BY <1>6 DEF Newlines
    <2> QED
        BY <1>4, <2>1
<1>7. RowOf(text, m) <= RowOf(text, n)
    BY <1>3 DEF RowOf
<1> QED
    BY <1>1, <1>4, <1>5, <1>6, <1>7

\* What a picture has at the place of one of its characters.
LEMMA AtIs ==
    ASSUME NEW text \in Text, NEW n \in DOMAIN text, text[n] # "\n"
    PROVE  At(text, Place(text, n)) = text[n]
<1> DEFINE here == {k \in DOMAIN text : Place(text, k) = Place(text, n) /\ text[k] # "\n"}
<1>1. text \in Seq(Char \cup {"\n"}) /\ Len(text) \in Nat /\ DOMAIN text = 1 .. Len(text)
    BY FishAssumption, LenProperties
<1>2. ASSUME NEW k \in here PROVE k = n
    <2>1. k \in Nat /\ n \in Nat /\ 1 <= k /\ 1 <= n
        BY <1>1
    <2>2. RowOf(text, k) = RowOf(text, n) /\ ColOf(text, k) = ColOf(text, n)
        BY DEF Place
    <2>3. ColOf(text, n) \in Nat
        BY <2>1, PlaceType
    <2>4. ~(k < n) /\ ~(n < k)
        BY <2>1, <2>2, <2>3, PlaceOrder
    <2> QED
        BY <2>1, <2>4
<1>3. n \in here
    OBVIOUS
<1>4. (CHOOSE k \in here : TRUE) = n
    <2> HIDE DEF here
    <2> QED
        BY <1>2, <1>3
<1>5. At(text, Place(text, n)) = IF here = {} THEN BLANK ELSE text[CHOOSE k \in here : TRUE]
    BY DEF At
<1>6. here # {}
    BY <1>3
<1> HIDE DEF here
<1> QED
    BY <1>4, <1>5, <1>6


-----------------------------------------------------------------------------
(* Reading two pictures in step *)

\* Where the characters of a picture are that are read, next or still to come.
LEMMA Where ==
    ASSUME row \in Nat, col \in Nat, NEW f \in File, InStep(f),
           NEW k \in DOMAIN file[f], file[f][k] # "\n"
    PROVE  LET text == file[f]
               n == position[f]
           IN \/ k <= n /\ Visited(Place(text, k))
              \/ ReadChar(f) = "\n" /\ RowOf(text, k) > row
              \/ k = n + 1 /\ ReadChar(f) = text[k] /\ Place(text, k) = <<row, col>>
              \/ /\ n + 1 \in DOMAIN text /\ ReadChar(f) = text[n + 1] /\ ReadChar(f) # "\n"
                 /\ Place(text, n + 1) = <<row, col>>
                 /\ RowOf(text, k) > row \/ (RowOf(text, k) = row /\ ColOf(text, k) > col)
<1> DEFINE text == file[f]
           n == position[f]
<1>1. /\ text \in Seq(Char \cup {"\n"}) /\ Len(text) \in Nat /\ DOMAIN text = 1 .. Len(text)
      /\ n \in 0 .. Len(text) /\ k \in 1 .. Len(text)
    BY FishAssumption, LenProperties DEF InStep
<1>2. CASE k <= n
    <2>1. k \in 1 .. n
        BY <1>1, <1>2
    <2> QED
        BY <1>2, <2>1 DEF InStep
<1>3. CASE k > n /\ RowOver(f)
    <2>1. ~eof[f]
        BY <1>1, <1>3 DEF InStep
    <2>2. n # 0 /\ text[n] = "\n" /\ RowOf(text, n) = row
        BY <1>3, <2>1 DEF InStep
    <2>3. n \in Nat /\ k \in Nat /\ 1 <= n /\ n < k /\ k >= 1
        BY <1>1, <1>3, <2>2
    <2>4. RowOf(text, k) \in Nat
        BY <2>3, PlaceType
    <2>5. RowOf(text, n) < RowOf(text, k)
        BY <2>2, <2>3, PlaceOrder
    <2> HIDE DEF n, text
    <2>6. RowOf(text, k) > row
        BY <2>2, <2>4, <2>5
    <2> QED
        BY <1>3, <2>6 DEF ReadChar, n, text
<1>4. CASE k > n /\ ~RowOver(f)
    <2>1. n < Len(text) /\ n + 1 \in DOMAIN text /\ n + 1 \in Nat /\ 1 <= n + 1 /\ k \in Nat
        BY <1>1, <1>4
    <2>2. ReadChar(f) = text[n + 1]
        BY <1>1, <1>4, <2>1 DEF ReadChar, AtEof
    <2>3. Place(text, n + 1) = <<row, col>>
        BY <1>4, <2>1 DEF InStep
    <2>4. CASE k = n + 1
        BY <2>2, <2>3, <2>4
    <2>5. CASE k # n + 1
        <3>1. n + 1 < k /\ k >= 1
            BY <1>1, <1>4, <2>5
        <3>2. RowOf(text, n + 1) = row /\ ColOf(text, n + 1) = col
            BY <2>3 DEF Place
        <3>3. RowOf(text, k) \in Nat /\ ColOf(text, k) \in Nat
            BY <2>1, <3>1, PlaceType
        <3>4. /\ row <= RowOf(text, k)
              /\ row = RowOf(text, k) => col < ColOf(text, k)
              /\ text[n + 1] = "\n" => row < RowOf(text, k)
            BY <2>1, <3>1, <3>2, PlaceOrder
        <3> HIDE DEF n, text
        <3>5. RowOf(text, k) > row \/ (RowOf(text, k) = row /\ ColOf(text, k) > col)
            BY <3>3, <3>4
        <3>6. text[n + 1] = "\n" => RowOf(text, k) > row
            BY <3>3, <3>4
        <3> QED
            BY <2>1, <2>2, <2>3, <3>5, <3>6 DEF n, text
    <2> QED
        BY <2>4, <2>5
<1> QED
    BY <1>1, <1>2, <1>3, <1>4

\* The character read is what the picture has at this place, blank behind the
\* end of a row or of the picture, and is a mark if the picture has one here.
LEMMA CharIs ==
    ASSUME row \in Nat, col \in Nat, NEW f \in File, InStep(f)
    PROVE  /\ Drawn(ReadChar(f)) = At(file[f], <<row, col>>)
           /\ Mark(ReadChar(f)) <=> <<row, col>> \in MarksOf(file[f])
<1> DEFINE text == file[f]
           n == position[f]
           m == <<row, col>>
<1>0. text \in Text
    BY DEF InStep
<1>1. ~Visited(m)
    BY DEF Visited
<1>2. CASE ReadChar(f) = "\n"
    <2>1. ASSUME NEW k \in DOMAIN text, text[k] # "\n" PROVE Place(text, k) # m
        <3>1. (k <= n /\ Visited(Place(text, k))) \/ RowOf(text, k) > row
            BY <1>2, <2>1, Where
        <3>2. RowOf(text, k) > row => RowOf(text, k) # row
            OBVIOUS
        <3> QED
            BY <1>1, <3>1, <3>2 DEF Place
    <2>2. At(text, m) = BLANK
        BY <2>1 DEF At
    <2>3. m \notin MarksOf(text)
        BY <2>1 DEF MarksOf, Mark
    <2> QED
        BY <1>2, <2>2, <2>3 DEF Drawn, Mark
<1>3. CASE ReadChar(f) # "\n"
    <2>1. /\ n + 1 \in DOMAIN text /\ ReadChar(f) = text[n + 1]
          /\ Place(text, n + 1) = m
        <3>1. /\ text \in Seq(Char \cup {"\n"}) /\ Len(text) \in Nat /\ n \in 0 .. Len(text)
              /\ DOMAIN text = 1 .. Len(text)
            BY <1>0, FishAssumption, LenProperties DEF InStep
        <3>2. ~RowOver(f) /\ ~AtEof(f)
            BY <1>3 DEF ReadChar
        <3>3. n < Len(text)
            BY <3>1, <3>2 DEF AtEof
        <3> QED
            BY <3>1, <3>2, <3>3 DEF ReadChar, InStep
    <2>2. At(text, m) = text[n + 1]
        BY <1>0, <1>3, <2>1, AtIs
    <2>3. ASSUME m \in MarksOf(text) PROVE Mark(text[n + 1])
        <3>1. PICK k \in DOMAIN text : Mark(text[k]) /\ m = Place(text, k)
            BY <2>3 DEF MarksOf
        <3>2. At(text, m) = text[k]
            BY <1>0, <3>1, AtIs DEF Mark
        <3> QED
            BY <2>2, <3>1, <3>2
    <2>4. ASSUME Mark(text[n + 1]) PROVE m \in MarksOf(text)
        BY <2>1, <2>4 DEF MarksOf
    <2> QED
        BY <1>3, <2>1, <2>2, <2>3, <2>4 DEF Drawn
<1> QED
    BY <1>2, <1>3

\* How a round of the inner loop moves picture f on.
LEMMA ReadIs ==
    ASSUME NEW f \in File, InStep(f), Read
    PROVE  LET text == file[f]
               n == position[f]
           IN /\ text \in Text /\ Len(text) \in Nat /\ n \in 0 .. Len(text)
              /\ \/ /\ RowOver(f) /\ ~AtEof(f) /\ ReadChar(f) = "\n"
                    /\ position'[f] = n /\ (eof'[f] <=> eof[f])
                 \/ /\ AtEof(f) /\ ~RowOver(f) /\ ReadChar(f) = "\n" /\ n = Len(text)
                    /\ position'[f] = n /\ eof'[f]
                 \/ /\ ~RowOver(f) /\ ~AtEof(f) /\ n < Len(text) /\ ReadChar(f) = text[n + 1]
                    /\ position'[f] = n + 1 /\ ~eof'[f]
                    /\ Place(text, n + 1) = <<row, col>>
<1> DEFINE text == file[f]
           n == position[f]
<1>1. text \in Text /\ text \in Seq(Char \cup {"\n"}) /\ Len(text) \in Nat /\ n \in 0 .. Len(text)
    BY FishAssumption, LenProperties DEF InStep
<1>2. /\ position'[f] = IF RowOver(f) \/ AtEof(f) THEN n ELSE n + 1
      /\ eof'[f] <=> eof[f] \/ AtEof(f)
    BY DEF Read
<1>3. CASE RowOver(f)
    BY <1>1, <1>2, <1>3 DEF AtEof, ReadChar
<1>4. CASE AtEof(f)
    BY <1>1, <1>2, <1>4 DEF AtEof, ReadChar
<1>5. CASE ~RowOver(f) /\ ~AtEof(f)
    <2>1. n < Len(text)
        BY <1>1, <1>5 DEF AtEof
    <2>2. ~eof[f]
        BY <1>5 DEF InStep
    <2>3. Place(text, n + 1) = <<row, col>>
        BY <1>5, <2>1 DEF InStep
    <2> QED
        BY <1>1, <1>2, <1>5, <2>1, <2>2, <2>3 DEF ReadChar
<1> QED
    BY <1>3, <1>4, <1>5

\* InStep of the next state.
LEMMA InStepNext ==
    ASSUME NEW f \in File, file' = file,
           file[f] \in Text, position'[f] \in 0 .. Len(file[f]),
           eof'[f] => position'[f] = Len(file[f]) /\ c'[f] = "\n",
           \A k \in 1 .. position'[f] : file[f][k] # "\n" => Visited(Place(file[f], k))',
           c'[f] = "\n" /\ ~eof'[f] =>
              /\ position'[f] # 0 /\ file[f][position'[f]] = "\n"
              /\ RowOf(file[f], position'[f]) = row',
           c'[f] # "\n" /\ position'[f] < Len(file[f]) =>
              Place(file[f], position'[f] + 1) = <<row', col'>>
    PROVE  InStep(f)'
BY DEF InStep, RowOver, Visited, Place, RowOf, ColOf, Newlines

\* What is visited stays so.
LEMMA VisitedOn ==
    ASSUME row \in Nat, col \in Nat, NEW x \in Nat, NEW y \in Nat,
           (row' = row /\ col' = col + 1) \/ (row' = row + 1 /\ col' = 0),
           x < row \/ (x = row /\ y < col)
    PROVE  x < row' \/ (x = row' /\ y < col')
OBVIOUS

\* AddChar keeps the pictures in step.
LEMMA AddInStep ==
    ASSUME row \in Nat, col \in Nat, NEW f \in File, InStep(f), AddChar
    PROVE  InStep(f)'
<1> DEFINE text == file[f]
           n == position[f]
<1>1. Read /\ file' = file /\ c'[f] = ReadChar(f) /\ row' = row /\ col' = col + 1
    BY DEF AddChar
<1>2. /\ text \in Text /\ Len(text) \in Nat /\ n \in 0 .. Len(text)
      /\ \/ /\ RowOver(f) /\ ~AtEof(f) /\ ReadChar(f) = "\n"
            /\ position'[f] = n /\ (eof'[f] <=> eof[f])
         \/ /\ AtEof(f) /\ ~RowOver(f) /\ ReadChar(f) = "\n" /\ n = Len(text)
            /\ position'[f] = n /\ eof'[f]
         \/ /\ ~RowOver(f) /\ ~AtEof(f) /\ n < Len(text) /\ ReadChar(f) = text[n + 1]
            /\ position'[f] = n + 1 /\ ~eof'[f]
            /\ Place(text, n + 1) = <<row, col>>
    BY <1>1, ReadIs
<1>3. position'[f] \in 0 .. Len(text)
    BY <1>2
<1>4. eof'[f] => position'[f] = Len(text) /\ c'[f] = "\n"
    BY <1>1, <1>2 DEF InStep
<1>5. ASSUME NEW k \in 1 .. position'[f], text[k] # "\n" PROVE Visited(Place(text, k))'
    <2>1. k \in Nat /\ k >= 1
        BY <1>3
    <2>2. RowOf(text, k) \in Nat /\ ColOf(text, k) \in Nat
        BY <2>1, PlaceType
    <2>3. CASE k <= n
        <3>1. k \in 1 .. n
            BY <1>2, <2>1, <2>3
        <3>2. RowOf(text, k) < row \/ (RowOf(text, k) = row /\ ColOf(text, k) < col)
            BY <1>5, <3>1 DEF InStep, Visited, Place
        <3>3. RowOf(text, k) < row' \/ (RowOf(text, k) = row' /\ ColOf(text, k) < col')
            BY <1>1, <2>2, <3>2, VisitedOn
        <3> QED
            BY <1>1, <3>3 DEF Visited, Place, RowOf, ColOf, Newlines
    <2>4. CASE ~(k <= n)
        <3>0. n \in Nat /\ (position'[f] = n \/ position'[f] = n + 1)
            BY <1>2
        <3>1. k = n + 1 /\ position'[f] = n + 1
            <4> HIDE DEF n
            <4> QED
                BY <2>1, <2>4, <3>0
        <3>3. position'[f] # n
            BY <3>0, <3>1
        <3>4. Place(text, n + 1) = <<row, col>>
            BY <1>2, <3>3
        <3>2. RowOf(text, k) = row' /\ ColOf(text, k) < col'
            BY <1>1, <3>1, <3>4 DEF Place
        <3> QED
            BY <1>1, <3>2 DEF Visited, Place, RowOf, ColOf, Newlines
    <2> QED
        BY <2>3, <2>4
<1>6. ASSUME c'[f] = "\n", ~eof'[f]
      PROVE  position'[f] # 0 /\ text[position'[f]] = "\n" /\ RowOf(text, position'[f]) = row'
    <2>1. CASE RowOver(f)
        BY <1>1, <1>2, <1>6, <2>1 DEF InStep
    <2>2. CASE ~RowOver(f)
        <3>1. /\ position'[f] = n + 1 /\ text[n + 1] = "\n"
              /\ Place(text, n + 1) = <<row, col>>
            BY <1>1, <1>2, <1>6, <2>2
        <3> QED
            BY <1>1, <1>2, <3>1 DEF Place
    <2> QED
        BY <2>1, <2>2
<1>7. ASSUME c'[f] # "\n", position'[f] < Len(text)
      PROVE  Place(text, position'[f] + 1) = <<row', col'>>
    <2>1. /\ position'[f] = n + 1 /\ text[n + 1] # "\n"
          /\ Place(text, n + 1) = <<row, col>>
        BY <1>1, <1>2, <1>7
    <2>2. n + 1 \in Nat /\ n + 1 >= 1
        BY <1>2
    <2>3. RowOf(text, (n + 1) + 1) = row /\ ColOf(text, (n + 1) + 1) = col + 1
        BY <2>1, <2>2, PlaceNext DEF Place
    <2> QED
        BY <1>1, <2>1, <2>3 DEF Place
<1> QED
    BY <1>1, <1>2, <1>3, <1>4, <1>5, <1>6, <1>7, InStepNext

\* EndRow keeps the pictures in step.
LEMMA EndInStep ==
    ASSUME row \in Nat, col \in Nat, NEW f \in File, InStep(f), EndRow
    PROVE  InStep(f)'
<1> DEFINE text == file[f]
           n == position[f]
<1>1. /\ Read /\ file' = file /\ c'[f] = FirstOfRow(f) /\ row' = row + 1 /\ col' = 0
      /\ ReadChar(f) = "\n"
    BY DEF EndRow
<1>2. /\ text \in Text /\ Len(text) \in Nat /\ n \in 0 .. Len(text)
      /\ \/ /\ RowOver(f) /\ ~AtEof(f) /\ ReadChar(f) = "\n"
            /\ position'[f] = n /\ (eof'[f] <=> eof[f])
         \/ /\ AtEof(f) /\ ~RowOver(f) /\ ReadChar(f) = "\n" /\ n = Len(text)
            /\ position'[f] = n /\ eof'[f]
         \/ /\ ~RowOver(f) /\ ~AtEof(f) /\ n < Len(text) /\ ReadChar(f) = text[n + 1]
            /\ position'[f] = n + 1 /\ ~eof'[f]
            /\ Place(text, n + 1) = <<row, col>>
    BY <1>1, ReadIs
<1>c. c'[f] = "\n" <=> eof'[f]
    BY <1>1 DEF FirstOfRow, NONE
<1>3. position'[f] \in 0 .. Len(text)
    BY <1>2
<1>4. eof'[f] => position'[f] = Len(text) /\ c'[f] = "\n"
    BY <1>c, <1>2 DEF InStep
<1>5. ASSUME NEW k \in 1 .. position'[f], text[k] # "\n" PROVE Visited(Place(text, k))'
    <2>1. k \in Nat /\ k >= 1
        BY <1>3
    <2>2. RowOf(text, k) \in Nat /\ ColOf(text, k) \in Nat
        BY <2>1, PlaceType
    <2>3. k \in 1 .. n
        <3>1. k # n + 1 \/ position'[f] = n
            BY <1>1, <1>2, <1>5
        <3>2. n \in Nat /\ (position'[f] = n \/ position'[f] = n + 1)
            BY <1>2
        <3> HIDE DEF n
        <3> QED
            BY <2>1, <3>1, <3>2
    <2>4. RowOf(text, k) < row \/ (RowOf(text, k) = row /\ ColOf(text, k) < col)
        BY <1>5, <2>3 DEF InStep, Visited, Place
    <2>5. RowOf(text, k) < row' \/ (RowOf(text, k) = row' /\ ColOf(text, k) < col')
        BY <1>1, <2>2, <2>4, VisitedOn
    <2> QED
        BY <1>1, <2>5 DEF Visited, Place, RowOf, ColOf, Newlines
<1>6. ASSUME c'[f] # "\n", position'[f] < Len(text)
      PROVE  Place(text, position'[f] + 1) = <<row', col'>>
    <2>1. /\ position'[f] \in Nat /\ position'[f] >= 1 /\ text[position'[f]] = "\n"
          /\ RowOf(text, position'[f]) = row
        <3>1. CASE RowOver(f)
            BY <1>1, <1>c, <1>2, <1>6, <3>1 DEF InStep
        <3>2. CASE ~RowOver(f)
            BY <1>1, <1>c, <1>2, <1>6, <3>2 DEF Place
        <3> QED
            BY <3>1, <3>2
    <2>2. RowOf(text, position'[f] + 1) = row + 1 /\ ColOf(text, position'[f] + 1) = 0
        BY <2>1, PlaceNext
    <2> QED
        BY <1>1, <2>2 DEF Place
<1> QED
    BY <1>1, <1>c, <1>2, <1>3, <1>4, <1>5, <1>6, InStepNext

-----------------------------------------------------------------------------
(* The cells drawn *)

\* The marks of a picture are finitely many, and each is at a row and column.
LEMMA MarksAre ==
    ASSUME NEW text \in Text
    PROVE  /\ IsFiniteSet(MarksOf(text))
           /\ \A m \in MarksOf(text) : m = <<m[1], m[2]>> /\ m[1] \in Nat /\ m[2] \in Nat
<1> DEFINE S == {k \in DOMAIN text : Mark(text[k])}
           T == MarksOf(text)
           g == [k \in S |-> Place(text, k)]
<1>1. text \in Seq(Char \cup {"\n"}) /\ Len(text) \in Nat /\ DOMAIN text = 1 .. Len(text)
    BY FishAssumption, LenProperties
<1>2. IsFiniteSet(1 .. Len(text)) /\ S \subseteq 1 .. Len(text)
    BY <1>1, FS_Interval
<1>3. IsFiniteSet(S)
    BY <1>2, FS_Subset
<1>4. \A k \in S : Place(text, k) \in T
    BY DEF MarksOf
<1>5. \A m \in T : \E k \in S : m = Place(text, k)
    BY DEF MarksOf
<1>6. \A k \in S : g[k] = Place(text, k)
    OBVIOUS
<1>7. g \in [S -> T]
    BY <1>4
<1>8. g \in Surjection(S, T)
    <2> HIDE DEF g, S, T
    <2> QED
        BY <1>5, <1>6, <1>7 DEF Surjection
<1>9. IsFiniteSet(T)
    <2> HIDE DEF g, S, T
    <2> QED
        BY <1>3, <1>8, FS_Surjection
<1>10. ASSUME NEW m \in T PROVE m = <<m[1], m[2]>> /\ m[1] \in Nat /\ m[2] \in Nat
    <2>1. PICK k \in S : m = Place(text, k)
        BY <1>5
    <2>2. k \in Nat /\ k >= 1
        BY <1>2
    <2>3. RowOf(text, k) \in Nat /\ ColOf(text, k) \in Nat
        BY <2>2, PlaceType
    <2> HIDE DEF S, T
    <2> QED
        BY <2>1, <2>3 DEF Place
<1> QED
    BY <1>9, <1>10

\* So are those on the screen.
LEMMA OnScreenIs ==
    ASSUME \A f \in File : InStep(f)
    PROVE  /\ IsFiniteSet(OnScreen)
           /\ \A m \in OnScreen : m = <<m[1], m[2]>> /\ m[1] \in Nat /\ m[2] \in Nat
<1>1. file[0] \in Text /\ file[1] \in Text
    BY DEF File, InStep
<1>2. /\ IsFiniteSet(MarksOf(file[0])) /\ IsFiniteSet(MarksOf(file[1]))
      /\ \A m \in Marks : m = <<m[1], m[2]>> /\ m[1] \in Nat /\ m[2] \in Nat
    BY <1>1, MarksAre DEF Marks
<1>3. IsFiniteSet(Marks) /\ OnScreen \subseteq Marks
    BY <1>2, FS_Union DEF Marks, OnScreen
<1> QED
    BY <1>2, <1>3, FS_Subset

\* A list shorter than the array leaves a structure free.
LEMMA Room ==
    ASSUME Linked, Len(List) < SIZE
    PROVE  mp1_malloc # NULL
<1> SUFFICES ASSUME mp1_malloc = NULL PROVE FALSE
    OBVIOUS
<1> DEFINE D == 1 .. Len(List)
<1>1. Len(List) \in Nat /\ DOMAIN List = D /\ List \in Seq(Slots)
    BY ListMeans
<1>2. List \in [D -> Slots]
    BY <1>1, LenProperties
<1>3. \A s \in Slots : blink_array[s].location # 0
    BY MallocIs
<1>4. \A s \in Slots : \E k \in D : List[k] = s
    BY <1>1, <1>3 DEF Linked
<1>5. IsFiniteSet(D) /\ Cardinality(D) = Len(List)
    <2> DEFINE n == Len(List)
    <2>1. n \in Nat
        BY <1>1
    <2> HIDE DEF n
    <2>2. IsFiniteSet(1 .. n) /\ Cardinality(1 .. n) = n
        BY <2>1, FS_Interval
    <2> QED
        BY <2>2 DEF n
<1> HIDE DEF D
<1>6. List \in Surjection(D, Slots)
    BY <1>2, <1>4 DEF Surjection
<1>7. Cardinality(Slots) <= Cardinality(D)
    BY <1>5, <1>6, FS_Surjection
<1>8. SIZE <= Len(List)
    BY <1>5, <1>7, SlotsAre
<1> QED
    BY <1>1, <1>8, SizeAssumption

Cells ==
    {<<blink_array[s].location, blink_array[s].on_char, blink_array[s].off_char>> : s \in Listed}

\* An add puts one cell more on the screen.
LEMMA AddCells ==
    ASSUME BlinkInv, NEW b \in Blink, CanAdd(b), mp1_ioctl_add(b)
    PROVE  /\ Len(List') = Len(List) + 1
           /\ Cells' = Cells \cup {<<b.location, b.on_char, b.off_char>>}
<1> DEFINE s == mp1_malloc
<1>0. BlinkTypeOK /\ Linked
    BY DEF BlinkInv
<1>1. /\ s \in Slots /\ \A k \in DOMAIN List : List[k] # s
      /\ blink_array' = [blink_array EXCEPT ![s] = New(b)]
      /\ List' = <<s>> \o List
    BY <1>0, AddList
<1>2. /\ List \in Seq(Slots) /\ Len(List) \in Nat /\ DOMAIN List = 1 .. Len(List)
      /\ \A k \in DOMAIN List : List[k] \in Slots
    BY <1>0, ListMeans
<1>3. /\ List' \in Seq(Slots) /\ Len(List') = Len(List) + 1 /\ List'[1] = s
      /\ \A k \in 1 .. Len(List) : List'[k + 1] = List[k]
    <2> HIDE DEF s
    <2> QED
        BY <1>1, <1>2, ConsIs
<1> HIDE DEF s
<1>4. DOMAIN List' = 1 .. Len(List) + 1
    BY <1>2, <1>3, LenProperties
<1>5. Listed' = Listed \cup {s}
    <2>0. Listed' = {List'[k] : k \in DOMAIN List'}
        BY DEF Listed
    <2>1. ASSUME NEW k \in DOMAIN List' PROVE List'[k] \in Listed \cup {s}
        <3>1. CASE k = 1
            BY <1>3, <3>1
        <3>2. CASE k # 1
            <4>1. k - 1 \in 1 .. Len(List) /\ (k - 1) + 1 = k
                BY <1>2, <1>4, <3>2
            <4>2. List'[k] = List[k - 1] /\ k - 1 \in DOMAIN List
                BY <1>2, <1>3, <4>1
            <4> QED
                BY <4>2 DEF Listed
        <3> QED
            BY <3>1, <3>2
    <2>2. ASSUME NEW r \in Listed PROVE r \in Listed'
        <3>1. PICK k \in DOMAIN List : r = List[k]
            BY DEF Listed
        <3>2. k + 1 \in DOMAIN List' /\ List'[k + 1] = r
            BY <1>2, <1>3, <1>4, <3>1
        <3> QED
            BY <2>0, <3>2
    <2>3. s \in Listed'
        <3>1. 1 \in DOMAIN List'
            BY <1>2, <1>4
        <3> QED
            BY <1>3, <2>0, <3>1
    <2> QED
        BY <2>0, <2>1, <2>2, <2>3
<1>6. blink_array \in [Slots -> Struct]
    BY <1>0 DEF BlinkTypeOK
<1>7. blink_array'[s] = New(b) /\ \A r \in Listed : blink_array'[r] = blink_array[r]
    <2>1. \A r \in Listed : r \in Slots /\ r # s
        BY <1>1, <1>2 DEF Listed
    <2> QED
        BY <1>1, <1>6, <2>1
<1>8. /\ New(b).location = b.location /\ New(b).on_char = b.on_char
      /\ New(b).off_char = b.off_char
    BY DEF New
<1>9. Cells' = {<<blink_array'[r].location, blink_array'[r].on_char, blink_array'[r].off_char>> :
                   r \in Listed \cup {s}}
    BY <1>5 DEF Cells
<1>10. Cells' = Cells \cup {<<b.location, b.on_char, b.off_char>>}
    BY <1>7, <1>8, <1>9 DEF Cells
<1> QED
    BY <1>3, <1>10

\* A tick leaves every cell where it is.
LEMMA TickCells ==
    ASSUME BlinkInv, mp1_rtc_tasklet
    PROVE  List' = List /\ Cells' = Cells
<1>0. BlinkTypeOK /\ Linked
    BY DEF BlinkInv
<1>1. /\ List' = List
      /\ blink_array' = [s \in Slots |-> IF s \in Listed THEN Ticked(blink_array[s])
                                         ELSE blink_array[s]]
    BY <1>0, TickList
<1>2. \A s \in Listed : s \in Slots
    BY <1>0, ListMeans DEF Listed
<1>3. \A s \in Listed : /\ blink_array'[s].location = blink_array[s].location
                        /\ blink_array'[s].on_char = blink_array[s].on_char
                        /\ blink_array'[s].off_char = blink_array[s].off_char
    <2>1. TAKE s \in Listed
    <2>2. blink_array[s] \in Struct /\ blink_array'[s] = Ticked(blink_array[s])
        BY <1>0, <1>1, <1>2 DEF BlinkTypeOK
    <2> QED
        BY <2>2, TickedIs
<1>4. Listed' = Listed
    BY <1>1 DEF Listed
<1>5. Cells' = {<<blink_array'[r].location, blink_array'[r].on_char, blink_array'[r].off_char>> :
                   r \in Listed}
    BY <1>4 DEF Cells
<1>6. Cells' = Cells
    BY <1>3, <1>5 DEF Cells
<1> QED
    BY <1>1, <1>6

\* The cell that the pictures have at a place.
Pictured(m) == <<Location(m), At(file[0], m), At(file[1], m)>>
Past == {m \in OnScreen : Visited(m)}

\* What Shows says, with its sets named.
LEMMA ShowsMeans ==
    ASSUME NEW P
    PROVE  Shows(P) <=> Len(List) = Cardinality(P) /\ Cells = {Pictured(m) : m \in P}
BY DEF Shows, Cells, Listed, Pictured

\* The same of the next state, which has the same pictures.
LEMMA ShowsMeansNext ==
    ASSUME file' = file
    PROVE  /\ OnScreen' = OnScreen
           /\ Past' = {m \in OnScreen : m[1] < row' \/ (m[1] = row' /\ m[2] < col')}
           /\ Shows({m \in OnScreen : Visited(m)})'
                <=> Len(List') = Cardinality(Past') /\ Cells' = {Pictured(m) : m \in Past'}
<1>1. OnScreen' = OnScreen
    BY DEF OnScreen, Marks
<1>2. Past' = {m \in OnScreen : m[1] < row' \/ (m[1] = row' /\ m[2] < col')}
    BY <1>1 DEF Past, Visited
<1>3. Shows({m \in OnScreen : Visited(m)})'
        <=> Len(List') = Cardinality(Past') /\ Cells' = {Pictured(m) : m \in Past'}
    BY DEF Past, Shows, Cells, Listed, Pictured
<1> QED
    BY <1>1, <1>2, <1>3

\* The place that AddChar visits, on the screen or not, marked or not.
LEMMA AddPast ==
    ASSUME row \in Nat, col \in Nat, \A f \in File : InStep(f),
           file' = file, row' = row, col' = col + 1
    PROVE  /\ <<row, col>> \notin Past
           /\ Past' = IF <<row, col>> \in OnScreen THEN Past \cup {<<row, col>>} ELSE Past
<1> DEFINE m == <<row, col>>
<1>1. m[1] = row /\ m[2] = col
    OBVIOUS
<1>2. m \notin Past
    BY DEF Past, Visited
<1>3. Past' = {x \in OnScreen : x[1] < row' \/ (x[1] = row' /\ x[2] < col')}
    BY ShowsMeansNext
<1>4. ASSUME NEW x \in OnScreen
      PROVE  (x[1] < row' \/ (x[1] = row' /\ x[2] < col')) <=> x \in Past \/ x = m
    <2>1. x = <<x[1], x[2]>> /\ x[1] \in Nat /\ x[2] \in Nat
        BY OnScreenIs
    <2>2. x = m <=> x[1] = row /\ x[2] = col
        BY <2>1
    <2>3. x \in Past <=> x[1] < row \/ (x[1] = row /\ x[2] < col)
        BY DEF Past, Visited
    <2> QED
        BY <2>1, <2>2, <2>3
<1>5. Past \subseteq OnScreen
    BY DEF Past
<1> HIDE DEF m
<1>6. Past' = IF m \in OnScreen THEN Past \cup {m} ELSE Past
    BY <1>3, <1>4, <1>5
<1> QED
    BY <1>2, <1>6 DEF m

\* The cell of the place that AddChar reads.
FrameCell == [location |-> row * COLS + col + OFFSET,
              on_char |-> Drawn(ReadChar(0)), off_char |-> Drawn(ReadChar(1)),
              on_length |-> FRAME_LENGTH, off_length |-> FRAME_LENGTH]

\* It is one that may be added, and it is added exactly if the place has a mark.
LEMMA FrameCellIs ==
    ASSUME row \in Nat, col \in Nat, \A f \in File : InStep(f)
    PROVE  /\ FrameCell \in Blink
           /\ <<FrameCell.location, FrameCell.on_char, FrameCell.off_char>> = Pictured(<<row, col>>)
           /\ (\E f \in File : Mark(ReadChar(f))) <=> <<row, col>> \in Marks
<1>1. ASSUME NEW f \in File PROVE ReadChar(f) \in Char \cup {"\n"}
    <2> DEFINE text == file[f]
               n == position[f]
    <2>1. /\ text \in Seq(Char \cup {"\n"}) /\ Len(text) \in Nat /\ n \in 0 .. Len(text)
          /\ \A k \in 1 .. Len(text) : text[k] \in Char \cup {"\n"}
        BY FishAssumption, LenProperties, ElementOfSeq DEF InStep
    <2>2. CASE RowOver(f) \/ AtEof(f)
        BY <2>2 DEF ReadChar
    <2>3. CASE ~RowOver(f) /\ ~AtEof(f)
        <3>1. n + 1 \in 1 .. Len(text)
            BY <2>1, <2>3 DEF AtEof
        <3> QED
            BY <2>1, <2>3, <3>1 DEF ReadChar
    <2> QED
        BY <2>2, <2>3
<1>2. \A f \in File : Drawn(ReadChar(f)) \in Char
    BY <1>1, CharAssumption DEF Drawn
<1>3. row * COLS + col + OFFSET \in Nat \ {0}
    <2>1. COLS \in Nat /\ OFFSET \in Nat /\ OFFSET >= 1
        BY FishAssumption
    <2>2. row * COLS \in Nat
        BY <2>1
    <2> QED
        BY <2>1, <2>2
<1>4. FRAME_LENGTH \in Length
    BY FishAssumption
<1>5. FrameCell \in Blink
    BY <1>2, <1>3, <1>4 DEF FrameCell, Blink, File
<1>6. \A f \in File : /\ Drawn(ReadChar(f)) = At(file[f], <<row, col>>)
                      /\ Mark(ReadChar(f)) <=> <<row, col>> \in MarksOf(file[f])
    BY CharIs
<1>7. Location(<<row, col>>) = row * COLS + col + OFFSET
    BY DEF Location
<1>8. <<FrameCell.location, FrameCell.on_char, FrameCell.off_char>> = Pictured(<<row, col>>)
    BY <1>6, <1>7 DEF FrameCell, Pictured, File
<1> QED
    BY <1>5, <1>6, <1>8 DEF File, Marks

\* A number below another is what its division by the other leaves.
LEMMA SmallRemainder ==
    ASSUME NEW n \in Nat, NEW w \in Nat, n < w
    PROVE  n % w = n
BY SMT

\* AddChar adds this cell if there is a mark: its location fits a word.
LEMMA AddsFrameCell ==
    ASSUME row \in Nat, col \in Nat, \A f \in File : InStep(f), AddChar
    PROVE  IF <<row, col>> \in Marks THEN mp1_ioctl_add(FrameCell) ELSE UNCHANGED blinkVars
<1>1. CASE <<row, col>> \notin Marks
    BY <1>1, FrameCellIs DEF AddChar
<1>2. CASE <<row, col>> \in Marks
    <2>1. Location(<<row, col>>) = row * COLS + col + OFFSET
        BY DEF Location
    <2>2. \A f \in File : file[f] \in Text
        BY DEF InStep
    <2>3. Location(<<row, col>>) < WORD
        BY <1>2, <2>2, TextAssumption DEF Marks, File
    <2>4. row * COLS + col + OFFSET \in Nat
        BY FrameCellIs DEF FrameCell, Blink
    <2>5. (row * COLS + col + OFFSET) % WORD = row * COLS + col + OFFSET
        BY <2>1, <2>3, <2>4, SmallRemainder, WordAssumption
    <2> QED
        BY <1>2, <2>5, FrameCellIs DEF AddChar, FrameCell
<1> QED
    BY <1>1, <1>2

\* AddChar draws the place that it reads.
LEMMA AddShows ==
    ASSUME BlinkInv, row \in Nat, col \in Nat, \A f \in File : InStep(f), AddChar,
           Cardinality(OnScreen) <= SIZE, Shows(Past)
    PROVE  BlinkInv' /\ Shows({m \in OnScreen : Visited(m)})'
<1> DEFINE m == <<row, col>>
<1>1. file' = file /\ row' = row /\ col' = col + 1
    BY DEF AddChar
<1>2. IF m \in Marks THEN mp1_ioctl_add(FrameCell) ELSE UNCHANGED blinkVars
    BY AddsFrameCell
<1>3. /\ m \notin Past
      /\ Past' = IF m \in OnScreen THEN Past \cup {m} ELSE Past
    BY <1>1, AddPast
<1>4. Len(List) = Cardinality(Past) /\ Cells = {Pictured(x) : x \in Past}
    BY ShowsMeans
<1>5. /\ IsFiniteSet(OnScreen) /\ Past \subseteq OnScreen /\ IsFiniteSet(Past)
      /\ Cardinality(Past) \in Nat /\ Cardinality(OnScreen) \in Nat
    <2>1. IsFiniteSet(OnScreen) /\ Past \subseteq OnScreen
        BY OnScreenIs DEF Past
    <2> QED
        BY <2>1, FS_Subset, FS_CardinalityType
<1>6. FrameCell \in Blink /\ FrameCell.location = Location(m)
    BY FrameCellIs DEF FrameCell, Location
<1>7. SUFFICES /\ BlinkInv'
               /\ Len(List') = Cardinality(Past') /\ Cells' = {Pictured(x) : x \in Past'}
    BY <1>1, ShowsMeansNext
<1> HIDE DEF m
<1>8. CASE UNCHANGED blinkVars /\ m \notin OnScreen
    <2>1. BlinkInv' /\ List' = List /\ Cells' = Cells
        BY <1>8 DEF blinkVars, BlinkInv, BlinkTypeOK, Linked, InTime, List, Cells, Listed
    <2> QED
        BY <1>3, <1>4, <1>8, <2>1
<1>9. CASE m \in Marks /\ m \notin OnScreen
    <2>1. ~CanAdd(FrameCell)
        BY <1>6, <1>9 DEF CanAdd, OnScreen
    <2> QED
        BY <1>2, <1>8, <1>9, <2>1 DEF mp1_ioctl_add
<1>10. CASE m \in OnScreen
    <2>1. mp1_ioctl_add(FrameCell) /\ FrameCell.location < SIZE
        BY <1>2, <1>6, <1>10 DEF OnScreen
    <2>2. BlinkInv'
        BY <1>6, <2>1, AddStep
    <2>3. Past' = Past \cup {m} /\ m \notin Past /\ Past \cup {m} \subseteq OnScreen
        BY <1>3, <1>5, <1>10
    <2>4. Cardinality(Past \cup {m}) = Cardinality(Past) + 1
        BY <1>5, <2>3, FS_AddElement
    <2>5. Cardinality(Past \cup {m}) <= Cardinality(OnScreen)
        BY <1>5, <2>3, FS_Subset
    <2>6. Len(List) < SIZE
        BY <1>4, <1>5, <2>4, <2>5, SizeAssumption
    <2>7. CanAdd(FrameCell)
        BY <2>1, <2>6, Room DEF CanAdd, BlinkInv
    <2>8. /\ Len(List') = Len(List) + 1
          /\ Cells' = Cells \cup {<<FrameCell.location, FrameCell.on_char, FrameCell.off_char>>}
        BY <1>6, <2>1, <2>7, AddCells
    <2>9. Cells' = Cells \cup {Pictured(m)}
        BY <2>8, FrameCellIs DEF m
    <2>10. Cells' = {Pictured(x) : x \in Past \cup {m}}
        BY <1>4, <2>9
    <2> QED
        BY <1>4, <2>2, <2>3, <2>4, <2>8, <2>10
<1> QED
    BY <1>2, <1>8, <1>9, <1>10 DEF OnScreen

\* At the end of both rows every mark of the row is drawn.
LEMMA EndShows ==
    ASSUME BlinkInv, row \in Nat, col \in Nat, \A f \in File : InStep(f), EndRow, Shows(Past)
    PROVE  Shows({m \in OnScreen : Visited(m)})'
<1>1. /\ file' = file /\ row' = row + 1 /\ col' = 0 /\ UNCHANGED blinkVars
      /\ \A f \in File : ReadChar(f) = "\n"
    BY DEF EndRow
<1>2. Len(List) = Cardinality(Past) /\ Cells = {Pictured(x) : x \in Past}
    BY ShowsMeans
<1>3. List' = List /\ Cells' = Cells
    BY <1>1 DEF blinkVars, List, Cells, Listed
<1>4. ASSUME NEW x \in OnScreen
      PROVE  (x[1] < row' \/ (x[1] = row' /\ x[2] < col')) <=> x \in Past
    <2>1. x = <<x[1], x[2]>> /\ x[1] \in Nat /\ x[2] \in Nat
        BY OnScreenIs
    <2>2. x \in Past <=> x[1] < row \/ (x[1] = row /\ x[2] < col)
        BY DEF Past, Visited
    <2>3. PICK f \in File : x \in MarksOf(file[f])
        BY DEF OnScreen, Marks, File
    <2>4. PICK k \in DOMAIN file[f] : Mark(file[f][k]) /\ x = Place(file[f], k)
        BY <2>3 DEF MarksOf
    <2>5. file[f][k] # "\n"
        BY <2>4 DEF Mark
    <2>6. Visited(x) \/ RowOf(file[f], k) > row
        BY <1>1, <2>4, <2>5, Where
    <2>7. x \in Past \/ x[1] > row
        BY <2>4, <2>6 DEF Past, Place
    <2> QED
        BY <1>1, <2>1, <2>2, <2>7
<1>5. Past \subseteq OnScreen
    BY DEF Past
<1>6. Past' = Past
    BY <1>1, <1>4, <1>5, ShowsMeansNext
<1> QED
    BY <1>1, <1>2, <1>3, <1>6, ShowsMeansNext

-----------------------------------------------------------------------------
(* The program *)

IInv == BlinkInv /\ TypeOK /\ FramesInv

\* The type of the program's own variables.
FishTypeOK ==
    /\ pc \in {"open", "other", "frames", "add", "sync", "remove", "done"} \cup WaitLoop
    /\ position \in [File -> Nat]
    /\ c \in [File -> Char \cup {"\n", NONE}]
    /\ eof \in [File -> BOOLEAN]
    /\ row \in Nat /\ col \in Nat
    /\ i \in 0 .. WAIT - 1

\* TypeOK is the two types.
LEMMA TypeParts ==
    /\ TypeOK <=> BlinkTypeOK /\ FishTypeOK
    /\ TypeOK' <=> BlinkTypeOK' /\ FishTypeOK'
BY DEF TypeOK, FishTypeOK

\* FramesInv says nothing when no picture is being read or shown.
LEMMA NoFrames == pc' \notin {"open", "frames", "wait"} => FramesInv'
BY DEF FramesInv

\* What FramesInv says while pictures are read.
LEMMA FramesMean ==
    FramesInv /\ pc \in {"frames", "wait"} =>
        /\ \A f \in File : InStep(f)
        /\ Cardinality(OnScreen) <= SIZE => Shows(Past)
BY DEF FramesInv, Past

\* Nothing happens to the library.
LEMMA BlinkSame == BlinkInv /\ UNCHANGED blinkVars => BlinkInv' /\ List' = List
BY DEF blinkVars, BlinkInv, BlinkTypeOK, Linked, InTime, List

\* Nor to the pictures.
LEMMA InStepSame ==
    ASSUME UNCHANGED <<file, frameVars>>, NEW f \in File, InStep(f)
    PROVE  InStep(f)'
BY DEF frameVars, InStep, RowOver, Visited

\* A free array: no list.
LEMMA EmptyList ==
    ASSUME NEW array, Links(array, NULL, ListFrom(array, NULL))
    PROVE  ListFrom(array, NULL) = <<>>
<1> DEFINE q == ListFrom(array, NULL)
<1>1. q \in Seq(Slots) /\ NULL = IF q = <<>> THEN NULL ELSE q[1]
    BY DEF Links
<1> HIDE DEF q
<1>2. ASSUME q # <<>> PROVE FALSE
    <2>1. Len(q) \in Nat /\ Len(q) # 0
        BY <1>1, <1>2, EmptySeq, LenProperties
    <2>2. q[1] \in Slots
        BY <1>1, <2>1, ElementOfSeq
    <2> QED
        BY <1>1, <1>2, <2>2, SlotsAre
<1> QED
    BY <1>2 DEF q

\* The array as it begins is linked and in time.
LEMMA BlinkBegins ==
    ASSUME BlinkInit
    PROVE  BlinkInv
<1>1. Zero \in Struct
    BY CharAssumption, SizeAssumption, WordAssumption DEF Zero, Struct, Slots, Words
<1>2. BlinkTypeOK
    BY <1>1, CharAssumption DEF BlinkInit, BlinkTypeOK
<1>3. Links(blink_array, mp1_list_head, <<>>)
    BY DEF BlinkInit, Links
<1>4. List = <<>>
    BY <1>3, ListIs DEF List
<1>5. \A s \in Slots : blink_array[s].location = 0
    BY DEF BlinkInit, Zero
<1>6. Linked
    BY <1>3, <1>4, <1>5 DEF Linked
<1>7. InTime
    BY <1>5 DEF InTime
<1> QED
    BY <1>2, <1>6, <1>7 DEF BlinkInv

\* The program begins.
LEMMA Begins == Init => IInv
<1> SUFFICES ASSUME Init PROVE IInv
    OBVIOUS
<1>1. BlinkInv
    BY BlinkBegins DEF Init
<1>2. FishTypeOK
    BY FishAssumption DEF Init, FishTypeOK, File
<1>3. FramesInv
    <2>1. pc \in {"open", "other"}
        BY DEF Init
    <2>2. ASSUME pc = "open"
          PROVE  /\ file \in [File -> Text \cup {MISSING}] /\ mp1_list_head = NULL
                 /\ row = 0 /\ col = 0
                 /\ \A f \in File : position[f] = 0 /\ c[f] = NONE /\ ~eof[f]
        BY <2>2 DEF Init, BlinkInit
    <2> QED
        BY <2>1, <2>2 DEF FramesInv
<1> QED
    BY <1>1, <1>2, <1>3, TypeParts DEF IInv, BlinkInv

\* OpenFrames
LEMMA OpenStep ==
    ASSUME IInv, OpenFrames
    PROVE  IInv'
<1>1. /\ pc = "open" /\ UNCHANGED blinkVars /\ UNCHANGED <<file, frameVars, i>>
      /\ pc' = IF \E f \in File : file[f] = MISSING THEN "done" ELSE "frames"
    BY DEF OpenFrames, Goto
<1>2. BlinkInv /\ FishTypeOK /\ FramesInv
    BY TypeParts DEF IInv
<1>3. BlinkInv' /\ List' = List
    BY <1>1, <1>2, BlinkSame
<1>4. FishTypeOK'
    BY <1>1, <1>2 DEF FishTypeOK, frameVars
<1>5. FramesInv'
    <2>1. CASE \E f \in File : file[f] = MISSING
        BY <1>1, <2>1, NoFrames
    <2>2. CASE ~ \E f \in File : file[f] = MISSING
        <3>1. /\ file \in [File -> Text \cup {MISSING}] /\ mp1_list_head = NULL
              /\ row = 0 /\ col = 0
              /\ \A f \in File : position[f] = 0 /\ c[f] = NONE /\ ~eof[f]
            BY <1>1, <1>2 DEF FramesInv
        <3>2. ASSUME NEW f \in File PROVE InStep(f)
            <4>1. file[f] \in Text
                BY <2>2, <3>1
            <4>2. Len(file[f]) \in Nat
                BY <4>1, FishAssumption, LenProperties
            <4>3. ~RowOver(f) /\ Place(file[f], 0 + 1) = <<row, col>>
                BY <3>1, PlaceFirst DEF RowOver, NONE
            <4> QED
                BY <3>1, <4>1, <4>2, <4>3 DEF InStep
        <3>3. \A f \in File : InStep(f)'
            BY <1>1, <3>2, InStepSame
        <3>4. Past = {}
            <4>1. ASSUME NEW m \in OnScreen PROVE ~Visited(m)
                <5>1. m[1] \in Nat /\ m[2] \in Nat
                    BY <3>2, OnScreenIs
                <5> QED
                    BY <3>1, <5>1 DEF Visited
            <4> QED
                BY <4>1 DEF Past
        <3>5. List = <<>>
            BY <1>2, <3>1, EmptyList DEF BlinkInv, Linked, List
        <3>6. Cells = {} /\ Len(List) = 0
            BY <3>5 DEF Cells, Listed
        <3>7. Cells' = {} /\ Len(List') = 0
            <4>1. Cells' = Cells
                BY <1>1 DEF blinkVars, Cells, Listed, List
            <4> QED
                BY <1>3, <3>6, <4>1
        <3>8. Past' = {} /\ Cardinality({}) = 0
            <4>1. Past' = Past
                BY <1>1 DEF Past, OnScreen, Marks, Visited, frameVars
            <4> QED
                BY <3>4, <4>1, FS_EmptySet
        <3>9. Shows({m \in OnScreen : Visited(m)})'
            BY <1>1, <3>7, <3>8, ShowsMeansNext
        <3>10. pc' = "frames"
            BY <1>1, <2>2
        <3> QED
            BY <3>3, <3>9, <3>10 DEF FramesInv
    <2> QED
        BY <2>1, <2>2
<1> QED
    BY <1>3, <1>4, <1>5, TypeParts DEF IInv, BlinkInv

\* NoVideo
LEMMA NoVideoStep ==
    ASSUME IInv, NoVideo
    PROVE  IInv'
<1>1. pc' = "done" /\ UNCHANGED blinkVars /\ UNCHANGED <<file, frameVars, i>>
    BY DEF NoVideo, Goto
<1>2. BlinkInv /\ FishTypeOK
    BY TypeParts DEF IInv
<1>3. BlinkInv'
    BY <1>1, <1>2, BlinkSame
<1>4. FishTypeOK'
    BY <1>1, <1>2 DEF FishTypeOK, frameVars
<1>5. FramesInv'
    BY <1>1, NoFrames
<1> QED
    BY <1>3, <1>4, <1>5, TypeParts DEF IInv, BlinkInv

\* The type of what a round of the loops leaves.
LEMMA ReadTypes ==
    ASSUME FishTypeOK, \A f \in File : InStep(f), Read
    PROVE  /\ position' \in [File -> Nat] /\ eof' \in [File -> BOOLEAN]
           /\ \A f \in File : ReadChar(f) \in Char \cup {"\n"}
<1>1. position' \in [File -> Nat] /\ eof' \in [File -> BOOLEAN]
    BY DEF FishTypeOK, Read
<1>2. ASSUME NEW f \in File PROVE ReadChar(f) \in Char \cup {"\n"}
    <2> DEFINE text == file[f]
    <2>1. /\ Len(text) \in Nat /\ position[f] \in 0 .. Len(text)
          /\ \/ ReadChar(f) = "\n"
             \/ position[f] < Len(text) /\ ReadChar(f) = text[position[f] + 1]
        BY ReadIs
    <2>2. text \in Seq(Char \cup {"\n"})
        BY FishAssumption DEF InStep
    <2>3. CASE position[f] < Len(text) /\ ReadChar(f) = text[position[f] + 1]
        <3>1. position[f] + 1 \in 1 .. Len(text)
            BY <2>1, <2>3
        <3> QED
            BY <2>2, <2>3, <3>1, ElementOfSeq
    <2> QED
        BY <2>1, <2>3
<1> QED
    BY <1>1, <1>2

\* AddChar
LEMMA AddCharStep ==
    ASSUME IInv, AddChar
    PROVE  IInv'
<1>1. BlinkInv /\ FishTypeOK /\ FramesInv /\ row \in Nat /\ col \in Nat
    BY TypeParts DEF IInv, FishTypeOK
<1>2. /\ pc = "frames" /\ pc' = "frames" /\ Read /\ c' = [f \in File |-> ReadChar(f)]
      /\ col' = col + 1 /\ UNCHANGED <<file, row, i>>
    BY DEF AddChar, Goto
<1>3. /\ \A f \in File : InStep(f)
      /\ Cardinality(OnScreen) <= SIZE => Shows(Past)
    BY <1>1, <1>2, FramesMean
<1>4. FishTypeOK'
    <2>1. c' \in [File -> Char \cup {"\n", NONE}]
        BY <1>1, <1>2, <1>3, ReadTypes
    <2> QED
        BY <1>1, <1>2, <1>3, <2>1, ReadTypes DEF FishTypeOK
<1>5. BlinkInv'
    <2>1. \/ mp1_ioctl_add(FrameCell)
          \/ UNCHANGED blinkVars
        BY <1>1, <1>3, AddsFrameCell
    <2> QED
        BY <1>1, <1>3, <2>1, FrameCellIs, AddStep, BlinkSame
<1>6. \A f \in File : InStep(f)'
    BY <1>1, <1>3, AddInStep
<1>7. OnScreen' = OnScreen
    BY <1>2, ShowsMeansNext
<1>8. Cardinality(OnScreen) <= SIZE => Shows({m \in OnScreen : Visited(m)})'
    BY <1>1, <1>3, AddShows
<1>9. FramesInv'
    BY <1>2, <1>6, <1>7, <1>8 DEF FramesInv
<1> QED
    BY <1>4, <1>5, <1>9, TypeParts DEF IInv, BlinkInv

\* EndRow
LEMMA EndRowStep ==
    ASSUME IInv, EndRow
    PROVE  IInv'
<1>1. BlinkInv /\ FishTypeOK /\ FramesInv /\ row \in Nat /\ col \in Nat
    BY TypeParts DEF IInv, FishTypeOK
<1>2. /\ pc = "frames" /\ Read /\ c' = [f \in File |-> FirstOfRow(f)]
      /\ pc' = IF \E f \in File : ~eof'[f] THEN "frames" ELSE "wait"
      /\ row' = row + 1 /\ col' = 0 /\ UNCHANGED blinkVars /\ UNCHANGED <<file, i>>
    BY DEF EndRow, Goto
<1>3. /\ \A f \in File : InStep(f)
      /\ Cardinality(OnScreen) <= SIZE => Shows(Past)
    BY <1>1, <1>2, FramesMean
<1>4. FishTypeOK'
    <2>1. c' \in [File -> Char \cup {"\n", NONE}]
        BY <1>2 DEF FirstOfRow
    <2>2. position' \in [File -> Nat] /\ eof' \in [File -> BOOLEAN]
        BY <1>1, <1>2, <1>3, ReadTypes
    <2>3. pc' \in {"frames", "wait"}
        BY <1>2
    <2>4. row' \in Nat /\ col' \in Nat /\ i' \in 0 .. WAIT - 1
        BY <1>1, <1>2 DEF FishTypeOK
    <2> QED
        BY <2>1, <2>2, <2>3, <2>4 DEF FishTypeOK, WaitLoop
<1>5. BlinkInv'
    BY <1>1, <1>2, BlinkSame
<1>6. \A f \in File : InStep(f)'
    BY <1>1, <1>3, EndInStep
<1>7. OnScreen' = OnScreen
    BY <1>2, ShowsMeansNext
<1>8. Cardinality(OnScreen) <= SIZE => Shows({m \in OnScreen : Visited(m)})'
    BY <1>1, <1>3, EndShows
<1>9. pc' = "wait" => \A f \in File : eof'[f]
    BY <1>2
<1>10. pc' # "open"
    BY <1>2
<1>11. FramesInv'
    BY <1>6, <1>7, <1>8, <1>9, <1>10 DEF FramesInv
<1> QED
    BY <1>4, <1>5, <1>11, TypeParts DEF IInv, BlinkInv

\* Wait
LEMMA WaitStep ==
    ASSUME IInv, Wait
    PROVE  IInv'
<1>1. BlinkInv /\ FishTypeOK /\ FramesInv
    BY TypeParts DEF IInv
<1>2. /\ pc \in WaitLoop /\ mp1_rtc_tasklet
      /\ i' = IF i + 1 = WAIT THEN 0 ELSE i + 1
      /\ pc' = IF i + 1 = WAIT THEN AfterWait(pc) ELSE pc
      /\ UNCHANGED <<file, frameVars>>
    BY DEF Wait, Counted
<1>3. BlinkInv'
    BY <1>1, <1>2, TickStep
<1>4. AfterWait(pc) \in {"add", "sync", "remove", "done"}
    BY <1>2 DEF AfterWait, WaitLoop
<1>5. FishTypeOK'
    <2>1. pc' \in {"open", "other", "frames", "add", "sync", "remove", "done"} \cup WaitLoop
        BY <1>2, <1>4
    <2>2. i' \in 0 .. WAIT - 1
        BY <1>1, <1>2, FishAssumption DEF FishTypeOK
    <2> QED
        BY <1>1, <1>2, <2>1, <2>2 DEF FishTypeOK, frameVars
<1>6. FramesInv'
    <2>1. CASE pc' # "wait"
        <3>1. pc' \notin {"open", "frames", "wait"}
            BY <1>2, <1>4, <2>1 DEF WaitLoop
        <3> QED
            BY <3>1, NoFrames
    <2>2. CASE pc' = "wait"
        <3>1. pc = "wait"
            BY <1>2, <1>4, <2>2
        <3>2. /\ \A f \in File : InStep(f) /\ eof[f]
              /\ Cardinality(OnScreen) <= SIZE => Shows(Past)
            BY <1>1, <3>1, FramesMean DEF FramesInv
        <3>3. \A f \in File : InStep(f)' /\ eof'[f]
            BY <1>2, <3>2, InStepSame DEF frameVars
        <3>4. List' = List /\ Cells' = Cells
            BY <1>1, <1>2, TickCells
        <3>5. OnScreen' = OnScreen /\ Past' = Past
            BY <1>2 DEF Past, OnScreen, Marks, Visited, frameVars
        <3>6. Cardinality(OnScreen) <= SIZE => Shows({m \in OnScreen : Visited(m)})'
            <4> SUFFICES ASSUME Cardinality(OnScreen) <= SIZE
                         PROVE  Shows({m \in OnScreen : Visited(m)})'
                OBVIOUS
            <4>1. Len(List) = Cardinality(Past) /\ Cells = {Pictured(x) : x \in Past}
                BY <3>2, ShowsMeans
            <4> QED
                BY <1>2, <3>4, <3>5, <4>1, ShowsMeansNext
        <3> QED
            BY <2>2, <3>3, <3>5, <3>6 DEF FramesInv
    <2> QED
        BY <2>1, <2>2
<1> QED
    BY <1>3, <1>5, <1>6, TypeParts DEF IInv, BlinkInv

\* The calls between the waiting loops.
LEMMA SpotStep ==
    ASSUME IInv, AddSpot \/ SyncSpot \/ RemoveSpot
    PROVE  IInv'
<1>1. BlinkInv /\ FishTypeOK
    BY TypeParts DEF IInv
<1>2. /\ pc' \in {"wait_lone", "wait_synced", "wait_removed"}
      /\ UNCHANGED <<file, frameVars, i>>
    BY DEF AddSpot, SyncSpot, RemoveSpot, Goto
<1>3. BlinkInv'
    <2> DEFINE b == [location |-> SPOT, on_char |-> "I", off_char |-> "M",
                     on_length |-> ON_LENGTH, off_length |-> OFF_LENGTH]
    <2>1. b \in Blink
        BY FishAssumption, SizeAssumption DEF Blink
    <2>2. \/ mp1_ioctl_add(b)
          \/ mp1_ioctl_sync(OFFSET, SPOT)
          \/ mp1_ioctl_remove(SPOT)
        BY DEF AddSpot, SyncSpot, RemoveSpot
    <2> HIDE DEF b
    <2> QED
        BY <1>1, <2>1, <2>2, AddStep, SyncStep, RemoveStep
<1>4. FishTypeOK'
    BY <1>1, <1>2 DEF FishTypeOK, frameVars, WaitLoop
<1>5. FramesInv'
    BY <1>2, NoFrames
<1> QED
    BY <1>3, <1>4, <1>5, TypeParts DEF IInv, BlinkInv

\* What the other caller adds may be added.
LEMMA BlinksMayBeAdded == Blinks \subseteq Blink
<1>1. Words \ {0} \subseteq Nat \ {0}
    BY WordAssumption DEF Words
<1>2. ASSUME NEW b \in Blinks PROVE b \in Blink
    <2>1. b \in [location : Words \ {0}, on_char : Char, off_char : Char,
                 on_length : Length, off_length : Length]
        BY FishAssumption
    <2> HIDE DEF Words, Length
    <2> QED
        BY <1>1, <2>1 DEF Blink
<1> QED
    BY <1>2

\* OtherCaller
LEMMA OtherStep ==
    ASSUME IInv, OtherCaller
    PROVE  IInv'
<1>1. BlinkInv /\ FishTypeOK
    BY TypeParts DEF IInv
<1>2. pc = "other" /\ BlinkNext(Blinks, MAX_CELLS) /\ UNCHANGED fishVars
    BY DEF OtherCaller
<1>3. Blinks \subseteq Blink
    BY BlinksMayBeAdded
<1>4. BlinkInv'
    <2>1. \/ \E b \in Blinks : mp1_ioctl_add(b)
          \/ \E b \in Blinks : mp1_ioctl_remove(b.location)
          \/ \E a, b \in Blinks : mp1_ioctl_sync(a.location, b.location)
          \/ mp1_rtc_tasklet
        BY <1>2 DEF BlinkNext
    <2> QED
        BY <1>1, <1>3, <2>1, AddStep, RemoveStep, SyncStep, TickStep
<1>5. FishTypeOK' /\ pc' = "other"
    BY <1>1, <1>2 DEF FishTypeOK, fishVars
<1>6. FramesInv'
    BY <1>5, NoFrames
<1> QED
    BY <1>4, <1>5, <1>6, TypeParts DEF IInv, BlinkInv

\* A step that changes nothing.
LEMMA StutterStep ==
    ASSUME IInv, UNCHANGED vars
    PROVE  IInv'
<1>1. BlinkInv /\ FishTypeOK /\ FramesInv
    BY TypeParts DEF IInv
<1>2. UNCHANGED blinkVars /\ UNCHANGED fishVars
    BY DEF vars
<1>3. BlinkInv'
    BY <1>1, <1>2, BlinkSame
<1>4. FishTypeOK'
    BY <1>1, <1>2 DEF FishTypeOK, fishVars
<1>5. FramesInv'
    BY <1>1, <1>2 DEF FramesInv, fishVars, blinkVars, InStep, RowOver, Visited, OnScreen,
                      Marks, Shows, List
<1> QED
    BY <1>3, <1>4, <1>5, TypeParts DEF IInv, BlinkInv

\* IInv is inductive.
LEMMA Inductive == Spec => []IInv
<1>1. Init => IInv
    BY Begins
<1>2. IInv /\ [Next]_vars => IInv'
    BY NoVideoStep, OpenStep, AddCharStep, EndRowStep, WaitStep, SpotStep, OtherStep, StutterStep
       DEF Next, Done
<1> QED
    BY <1>1, <1>2, PTL DEF Spec

\* Locations, slots, words, links and the program's places stay within their
\* ranges, for every screen, every two pictures and every caller of blink.S.
THEOREM TypeCorrect == Spec => []TypeOK
<1>1. IInv => TypeOK
    BY DEF IInv
<1> QED
    BY <1>1, Inductive, PTL

\* No countdown of mp1_rtc_tasklet passes through 0 and wraps, and the screen
\* shows every cell as its status says, if it was the last to be drawn there.
THEOREM CellsInTime == Spec => []BlinksInTime
<1>1. IInv => BlinksInTime
    <2> SUFFICES ASSUME IInv, NEW k \in DOMAIN List PROVE
           LET b == blink_array[List[k]]
           IN /\ drawn[b.location] = List[k] =>
                   vmem[b.location] = IF b.status = 1 THEN b.on_char ELSE b.off_char
              /\ b.countdown \in 1 .. Time(b)
        BY DEF BlinksInTime
    <2>1. Linked /\ InTime
        BY DEF IInv, BlinkInv
    <2>2. List[k] \in Slots /\ blink_array[List[k]].location # 0
        BY <2>1, ListMeans DEF Linked
    <2> QED
        BY <2>1, <2>2 DEF InTime
<1> QED
    BY <1>1, Inductive, PTL

\* However many cells were added and removed, mp1_malloc finds a structure as
\* long as the list does not hold them all.
THEOREM NoneLost == Spec => []AddsSucceed
<1>1. IInv => AddsSucceed
    <2> SUFFICES ASSUME IInv, Len(List) < SIZE, NEW l \in Slots
                 PROVE  CanAdd([location |-> l])
        BY DEF AddsSucceed
    <2>1. mp1_malloc # NULL
        BY Room DEF IInv, BlinkInv
    <2> QED
        BY <2>1, SizeAssumption DEF CanAdd, Slots
<1> QED
    BY <1>1, Inductive, PTL

\* Whatever the lengths of their rows and however they end, the two pictures of
\* add_frames become one cell for every place where one of them has a mark.
THEOREM PicturesDrawn == Spec => []FramesDrawn
<1>1. IInv => FramesDrawn
    <2> SUFFICES ASSUME IInv, pc = "wait", Cardinality(OnScreen) <= SIZE
                 PROVE  Shows(OnScreen)
        BY DEF FramesDrawn
    <2>1. /\ \A f \in File : InStep(f) /\ eof[f]
          /\ Shows(Past)
        BY FramesMean DEF IInv, FramesInv
    <2>2. ASSUME NEW m \in OnScreen PROVE Visited(m)
        <3>1. PICK f \in File : m \in MarksOf(file[f])
            BY DEF OnScreen, Marks, File
        <3>2. PICK k \in DOMAIN file[f] : Mark(file[f][k]) /\ m = Place(file[f], k)
            BY <3>1 DEF MarksOf
        <3>3. file[f] \in Seq(Char \cup {"\n"}) /\ position[f] = Len(file[f])
            BY <2>1, FishAssumption DEF InStep
        <3>4. k \in 1 .. position[f] /\ file[f][k] # "\n"
            BY <3>2, <3>3, LenProperties DEF Mark
        <3> QED
            BY <2>1, <3>2, <3>4 DEF InStep
    <2>3. Past = OnScreen
        BY <2>2 DEF Past
    <2> QED
        BY <2>1, <2>3
<1> QED
    BY <1>1, Inductive, PTL

-----------------------------------------------------------------------------
(* The list of cells that the library implements *)

\* The refinement mapping: the cells of the list, without their links.
ListCells == [k \in DOMAIN List |-> CellOf(blink_array[List[k]])]

\* They are a sequence of cells, as long as the list.
LEMMA ListCellsAre ==
    ASSUME BlinkTypeOK, Linked
    PROVE  /\ ListCells \in Seq(Cell) /\ Len(ListCells) = Len(List)
           /\ DOMAIN ListCells = 1 .. Len(List)
           /\ \A k \in 1 .. Len(List) : ListCells[k] = CellOf(blink_array[List[k]])
<1>1. /\ Len(List) \in Nat /\ DOMAIN List = 1 .. Len(List)
      /\ \A k \in DOMAIN List : List[k] \in Slots
    BY ListMeans
<1>2. \A s \in Slots : CellOf(blink_array[s]) \in Cell
    BY DEF BlinkTypeOK, Struct, CellOf, Cell
<1>3. ListCells \in [1 .. Len(List) -> Cell]
    BY <1>1, <1>2 DEF ListCells
<1>4. ListCells \in Seq(Cell)
    BY <1>1, <1>3, SeqDef
<1> QED
    BY <1>1, <1>3, <1>4, LenProperties DEF ListCells

\* The same of the next state.
LEMMA ListCellsNext ==
    ASSUME BlinkTypeOK', Linked'
    PROVE  /\ ListCells' \in Seq(Cell) /\ Len(ListCells') = Len(List')
           /\ DOMAIN ListCells' = 1 .. Len(List')
           /\ \A k \in 1 .. Len(List') : ListCells'[k] = CellOf(blink_array'[List'[k]])
<1>1. /\ Len(List') \in Nat /\ DOMAIN List' = 1 .. Len(List')
      /\ \A k \in DOMAIN List' : List'[k] \in Slots
    BY LenProperties, ElementOfSeq DEF Linked, Links
<1>2. \A r \in Slots : CellOf(blink_array'[r]) \in Cell
    BY DEF BlinkTypeOK, Struct, CellOf, Cell
<1>3. ListCells' = [k \in 1 .. Len(List') |-> CellOf(blink_array'[List'[k]])]
    BY <1>1 DEF ListCells, CellOf
<1>4. ListCells' \in [1 .. Len(List') -> Cell]
    BY <1>1, <1>2, <1>3
<1>5. ListCells' \in Seq(Cell)
    BY <1>1, <1>4, SeqDef
<1> QED
    BY <1>1, <1>3, <1>5, LenProperties

\* The first structure that is found at a location is the newest cell there.
LEMMA NewestIs ==
    ASSUME BlinkTypeOK, Linked, NEW l, mp1_find_helper(l) # 0
    PROVE  /\ mp1_find_helper(l) \in 1 .. Len(List)
           /\ l \in Abstract!Locations(ListCells)
           /\ Abstract!Newest(ListCells, l) = mp1_find_helper(l)
<1> DEFINE k == mp1_find_helper(l)
           D == 1 .. Len(List)
           q == ListCells
<1>1. Len(List) \in Nat /\ DOMAIN List = D /\ List \in Seq(Slots)
    BY ListMeans
<1>2. DOMAIN q = D /\ \A j \in D : q[j].location = blink_array[List[j]].location
    BY ListCellsAre DEF CellOf
<1>3. /\ k \in D /\ blink_array[List[k]].location = l
      /\ \A n \in D : blink_array[List[n]].location = l => k <= n
    BY <1>1, FindIs
<1> HIDE DEF k, q
<1>4. k \in D /\ q[k].location = l /\ \A j \in D : q[j].location = l => k <= j
    BY <1>2, <1>3
<1>5. l \in Abstract!Locations(q)
    BY <1>2, <1>4 DEF Abstract!Locations
<1>6. \A j \in 1 .. k - 1 : q[j].location # l
    <2>1. TAKE j \in 1 .. k - 1
    <2>2. j \in D /\ ~(k <= j)
        BY <1>1, <1>4
    <2> QED
        BY <1>4, <2>2
<1>7. ASSUME NEW n \in DOMAIN q, q[n].location = l, \A j \in 1 .. n - 1 : q[j].location # l
      PROVE  n = k
    <2>1. n \in D /\ k <= n
        BY <1>2, <1>4, <1>7
    <2>2. k \notin 1 .. n - 1
        BY <1>4, <1>7
    <2> QED
        BY <1>1, <1>4, <2>1, <2>2
<1>8. Abstract!Newest(q, l) = k
    BY <1>2, <1>4, <1>6, <1>7 DEF Abstract!Newest
<1> QED
    BY <1>4, <1>5, <1>8 DEF k, q

\* RTC_ADD
LEMMA AddCell ==
    ASSUME BlinkInv, BlinkInv', NEW b \in Blink, CanAdd(b), mp1_ioctl_add(b)
    PROVE  Abstract!Added(ListCells, ListCells')
<1> DEFINE s == mp1_malloc
           L == Len(List)
           q == ListCells
           p == ListCells'
<1>0. BlinkTypeOK /\ Linked /\ BlinkTypeOK' /\ Linked'
    BY DEF BlinkInv
<1>1. /\ s \in Slots /\ \A k \in DOMAIN List : List[k] # s
      /\ blink_array' = [blink_array EXCEPT ![s] = New(b)]
      /\ List' = <<s>> \o List
    BY <1>0, AddList
<1>2. /\ List \in Seq(Slots) /\ L \in Nat /\ DOMAIN List = 1 .. L
      /\ \A k \in DOMAIN List : List[k] \in Slots
    BY <1>0, ListMeans
<1>3. /\ List' \in Seq(Slots) /\ Len(List') = L + 1 /\ List'[1] = s
      /\ \A k \in 1 .. L : List'[k + 1] = List[k]
    <2> HIDE DEF s
    <2> QED
        BY <1>1, <1>2, ConsIs
<1>4. /\ q \in Seq(Cell) /\ Len(q) = L
      /\ \A k \in 1 .. L : q[k] = CellOf(blink_array[List[k]])
    BY <1>0, ListCellsAre
<1>5. /\ p \in Seq(Cell) /\ Len(p) = L + 1
      /\ \A k \in 1 .. L + 1 : p[k] = CellOf(blink_array'[List'[k]])
    BY <1>0, <1>3, ListCellsNext
<1> HIDE DEF s, L, q, p
<1>6. blink_array \in [Slots -> Struct]
    BY <1>0 DEF BlinkTypeOK
<1>7. p[1] = CellOf(New(b))
    <2>1. p[1] = CellOf(blink_array'[s]) /\ blink_array'[s] = New(b)
        BY <1>1, <1>2, <1>3, <1>5, <1>6
    <2> QED
        BY <2>1
<1>8. \A k \in 1 .. L : p[k + 1] = q[k]
    <2>1. TAKE k \in 1 .. L
    <2>2. k + 1 \in 1 .. L + 1 /\ List'[k + 1] = List[k]
        BY <1>2, <1>3
    <2>3. blink_array'[List[k]] = blink_array[List[k]]
        BY <1>1, <1>2, <1>6
    <2>4. p[k + 1] = CellOf(blink_array[List[k]])
        BY <1>5, <2>2, <2>3
    <2> QED
        BY <1>4, <2>4
<1>9. L < SIZE
    <2>1. Len(List') <= SIZE
        BY <1>0, LinksLength DEF Linked, Links
    <2> QED
        BY <1>2, <1>3, <2>1, SizeAssumption
<1>10. Head(p) = p[1] /\ Tail(p) = q
    <2>1. p # <<>>
        BY <1>2, <1>5, EmptySeq
    <2>2. /\ Head(p) = p[1] /\ Tail(p) \in Seq(Cell) /\ Len(Tail(p)) = Len(p) - 1
          /\ \A k \in 1 .. Len(Tail(p)) : Tail(p)[k] = p[k + 1]
        BY <1>5, <2>1, HeadTailProperties
    <2>3. Len(Tail(p)) = Len(q) /\ \A k \in 1 .. Len(q) : Tail(p)[k] = q[k]
        BY <1>2, <1>4, <1>5, <1>8, <2>2
    <2> QED
        BY <1>4, <2>2, <2>3, SeqEqual
<1>11. /\ CellOf(New(b)) \in Cell /\ CellOf(New(b)).status = 1
       /\ CellOf(New(b)).countdown = CellOf(New(b)).on_length
    <2>1. New(b) \in Struct
        BY <1>0, AddList
    <2> QED
        BY <2>1 DEF New, CellOf, Struct, Cell
<1> QED
    BY <1>4, <1>5, <1>7, <1>9, <1>10, <1>11 DEF Abstract!Added, q, p

\* RTC_REMOVE
LEMMA RemoveCell ==
    ASSUME BlinkInv, BlinkInv', NEW l, mp1_find_helper(l) # 0, mp1_ioctl_remove(l)
    PROVE  Abstract!Removed(ListCells, ListCells')
<1> DEFINE k == mp1_find_helper(l)
           L == Len(List)
           q == ListCells
           p == ListCells'
<1>0. BlinkTypeOK /\ Linked /\ BlinkTypeOK' /\ Linked'
    BY DEF BlinkInv
<1>1. /\ k \in 1 .. L /\ l \in Abstract!Locations(q) /\ Abstract!Newest(q, l) = k
    BY <1>0, NewestIs
<1>2. /\ List \in Seq(Slots) /\ L \in Nat /\ DOMAIN List = 1 .. L
      /\ \A j \in DOMAIN List : List[j] \in Slots
      /\ \A i1, i2 \in DOMAIN List : List[i1] = List[i2] => i1 = i2
    BY <1>0, ListMeans
<1>3. /\ blink_array' = Unlinked(k)
      /\ mp1_list_head' = IF k = 1 THEN blink_array[List[k]].next ELSE mp1_list_head
    BY DEF mp1_ioctl_remove
<1> HIDE DEF k, L, q, p
<1>4. /\ \A s \in Slots : s # List[k] => CellOf(blink_array'[s]) = CellOf(blink_array[s])
      /\ List' = Without(List, k)
    BY <1>0, <1>1, <1>2, <1>3, RemoveList
<1>5. /\ Len(List') = L - 1
      /\ \A j \in 1 .. L - 1 : List'[j] = IF j < k THEN List[j] ELSE List[j + 1]
    <2>1. k \in 1 .. Len(List)
        BY <1>1 DEF L
    <2> HIDE DEF Slots
    <2>2. /\ Len(Without(List, k)) = Len(List) - 1
          /\ \A j \in 1 .. Len(List) - 1 :
                Without(List, k)[j] = IF j < k THEN List[j] ELSE List[j + 1]
        BY <1>2, <2>1, WithoutIs
    <2> QED
        BY <1>4, <2>2 DEF L
<1>6. /\ q \in Seq(Cell) /\ Len(q) = L
      /\ \A j \in 1 .. L : q[j] = CellOf(blink_array[List[j]])
    BY <1>0, ListCellsAre DEF L, q
<1>7. /\ p \in Seq(Cell) /\ Len(p) = L - 1
      /\ \A j \in 1 .. L - 1 : p[j] = CellOf(blink_array'[List'[j]])
    BY <1>0, <1>5, ListCellsNext DEF p
<1>8. /\ Without(q, k) \in Seq(Cell) /\ Len(Without(q, k)) = L - 1
      /\ \A j \in 1 .. L - 1 : Without(q, k)[j] = IF j < k THEN q[j] ELSE q[j + 1]
    BY <1>1, <1>6, WithoutIs
<1>9. ASSUME NEW j \in 1 .. L - 1 PROVE p[j] = Without(q, k)[j]
    <2> DEFINE n == IF j < k THEN j ELSE j + 1
    <2>1. n \in 1 .. L /\ n # k
        BY <1>1, <1>2
    <2>2. List'[j] = List[n] /\ Without(q, k)[j] = q[n]
        BY <1>5, <1>8
    <2> HIDE DEF n
    <2>3. List[n] \in Slots /\ List[n] # List[k]
        BY <1>1, <1>2, <2>1
    <2>4. CellOf(blink_array'[List[n]]) = CellOf(blink_array[List[n]])
        BY <1>4, <2>3
    <2> QED
        BY <1>6, <1>7, <2>1, <2>2, <2>4
<1>10. p = Without(q, k)
    BY <1>7, <1>8, <1>9, SeqEqual
<1>11. p = SubSeq(q, 1, k - 1) \o SubSeq(q, k + 1, Len(q))
    BY <1>10 DEF Without
<1>12. \E x \in Abstract!Locations(q) :
           p = SubSeq(q, 1, Abstract!Newest(q, x) - 1) \o SubSeq(q, Abstract!Newest(q, x) + 1, Len(q))
    BY <1>1, <1>11
<1>13. Len(p) = Len(q) - 1
    BY <1>6, <1>7
<1>14. Abstract!Removed(q, p)
    BY <1>12, <1>13 DEF Abstract!Removed
<1> QED
    BY <1>14 DEF q, p

\* RTC_SYNC
LEMMA SyncCell ==
    ASSUME BlinkInv, BlinkInv', NEW from, NEW to,
           mp1_find_helper(from) # 0, mp1_find_helper(to) # 0, mp1_ioctl_sync(from, to)
    PROVE  Abstract!Synced(ListCells, ListCells')
<1> DEFINE k == mp1_find_helper(from)
           n == mp1_find_helper(to)
           L == Len(List)
           q == ListCells
           p == ListCells'
           a == blink_array[List[k]]
           b == blink_array[List[n]]
           new == Abstract!InRhythm(q[n], q[k])
<1>0. BlinkTypeOK /\ Linked /\ BlinkTypeOK' /\ Linked'
    BY DEF BlinkInv
<1>1. /\ k \in 1 .. L /\ from \in Abstract!Locations(q) /\ Abstract!Newest(q, from) = k
      /\ n \in 1 .. L /\ to \in Abstract!Locations(q) /\ Abstract!Newest(q, to) = n
    BY <1>0, NewestIs
<1>2. /\ List \in Seq(Slots) /\ L \in Nat /\ DOMAIN List = 1 .. L
      /\ \A j \in DOMAIN List : List[j] \in Slots
      /\ \A i1, i2 \in DOMAIN List : List[i1] = List[i2] => i1 = i2
    BY <1>0, ListMeans
<1>3. /\ blink_array' = [blink_array EXCEPT ![List[n]] = Synced(b, a)]
      /\ List' = List
    BY <1>0, SyncList
<1>4. /\ q \in Seq(Cell) /\ Len(q) = L /\ DOMAIN q = 1 .. L
      /\ \A j \in 1 .. L : q[j] = CellOf(blink_array[List[j]])
    BY <1>0, ListCellsAre
<1>5. /\ p \in Seq(Cell) /\ Len(p) = L /\ DOMAIN p = 1 .. L
      /\ \A j \in 1 .. L : p[j] = CellOf(blink_array'[List[j]])
    BY <1>0, <1>3, ListCellsNext
<1>6. blink_array \in [Slots -> Struct] /\ a \in Struct /\ b \in Struct
    BY <1>0, <1>1, <1>2 DEF BlinkTypeOK
<1>7. CellOf(Synced(b, a)) = new
    <2>1. q[k] = CellOf(a) /\ q[n] = CellOf(b)
        BY <1>1, <1>4
    <2> HIDE DEF a, b
    <2>4. /\ Synced(b, a).location = b.location /\ Synced(b, a).on_char = b.on_char
          /\ Synced(b, a).off_char = b.off_char
          /\ Synced(b, a).on_length = a.on_length /\ Synced(b, a).off_length = a.off_length
          /\ Synced(b, a).countdown = a.countdown /\ Synced(b, a).status = a.status
        BY <1>6 DEF Synced, Struct
    <2>2. CellOf(Synced(b, a)) \in Cell /\ CellOf(b) \in Cell /\ CellOf(a) \in Cell
        BY <1>6, <2>4 DEF CellOf, Cell, Struct
    <2>3. ASSUME NEW y \in Cell, NEW x \in Cell
          PROVE  /\ Abstract!InRhythm(y, x) \in Cell
                 /\ Abstract!InRhythm(y, x).location = y.location
                 /\ Abstract!InRhythm(y, x).on_char = y.on_char
                 /\ Abstract!InRhythm(y, x).off_char = y.off_char
                 /\ Abstract!InRhythm(y, x).on_length = x.on_length
                 /\ Abstract!InRhythm(y, x).off_length = x.off_length
                 /\ Abstract!InRhythm(y, x).countdown = x.countdown
                 /\ Abstract!InRhythm(y, x).status = x.status
        BY DEF Abstract!InRhythm, Cell
    <2>5. ASSUME NEW x \in Cell, NEW y \in Cell,
                 x.location = y.location, x.on_char = y.on_char, x.off_char = y.off_char,
                 x.on_length = y.on_length, x.off_length = y.off_length,
                 x.countdown = y.countdown, x.status = y.status
          PROVE  x = y
        BY <2>5 DEF Cell
    <2>6. CellOf(Synced(b, a)) = Abstract!InRhythm(CellOf(b), CellOf(a))
        <3> DEFINE x == CellOf(Synced(b, a))
                   y == Abstract!InRhythm(CellOf(b), CellOf(a))
        <3>1. y \in Cell /\ x \in Cell
            BY <2>2, <2>3
        <3>2. /\ x.location = b.location /\ x.on_char = b.on_char /\ x.off_char = b.off_char
              /\ x.on_length = a.on_length /\ x.off_length = a.off_length
              /\ x.countdown = a.countdown /\ x.status = a.status
            BY <2>4 DEF CellOf
        <3>3. /\ y.location = b.location /\ y.on_char = b.on_char /\ y.off_char = b.off_char
              /\ y.on_length = a.on_length /\ y.off_length = a.off_length
              /\ y.countdown = a.countdown /\ y.status = a.status
            <4>1. /\ y.location = CellOf(b).location /\ y.on_char = CellOf(b).on_char
                  /\ y.off_char = CellOf(b).off_char
                  /\ y.on_length = CellOf(a).on_length /\ y.off_length = CellOf(a).off_length
                  /\ y.countdown = CellOf(a).countdown /\ y.status = CellOf(a).status
                BY <2>2, <2>3
            <4> QED
                BY <4>1 DEF CellOf
        <3> HIDE DEF x, y
        <3>4. x = y
            BY <2>5, <3>1, <3>2, <3>3
        <3> QED
            BY <3>4 DEF x, y
    <2> QED
        BY <2>1, <2>6
<1> HIDE DEF k, n, L, q, p, a, b, new
<1>8. p[n] = new
    BY <1>1, <1>2, <1>3, <1>5, <1>6, <1>7
<1>9. ASSUME NEW j \in 1 .. L, j # n PROVE p[j] = q[j]
    <2>1. List[j] \in Slots /\ List[j] # List[n]
        BY <1>1, <1>2, <1>9
    <2> QED
        BY <1>3, <1>4, <1>5, <1>6, <2>1
<1>10. p = [q EXCEPT ![n] = new]
    <2>1. p = [j \in 1 .. L |-> p[j]] /\ q = [j \in 1 .. L |-> q[j]]
        BY <1>4, <1>5
    <2> QED
        BY <1>1, <1>4, <1>8, <1>9, <2>1
<1>11. Len(p) = Len(q)
    BY <1>4, <1>5
<1>12. Abstract!Synced(q, p)
    BY <1>1, <1>4, <1>10, <1>11 DEF Abstract!Synced, new
<1> QED
    BY <1>12 DEF q, p

\* A tick
LEMMA TickCell ==
    ASSUME BlinkInv, BlinkInv', mp1_rtc_tasklet
    PROVE  Abstract!AfterTick(ListCells, ListCells')
<1> DEFINE L == Len(List)
           q == ListCells
           p == ListCells'
<1>0. BlinkTypeOK /\ Linked /\ BlinkTypeOK' /\ Linked'
    BY DEF BlinkInv
<1>1. L \in Nat /\ DOMAIN List = 1 .. L /\ \A j \in DOMAIN List : List[j] \in Slots
    BY <1>0, ListMeans
<1>2. /\ blink_array' = [s \in Slots |-> IF s \in Listed THEN Ticked(blink_array[s])
                                         ELSE blink_array[s]]
      /\ List' = List
    BY <1>0, TickList
<1>3. DOMAIN q = 1 .. L /\ \A j \in 1 .. L : q[j] = CellOf(blink_array[List[j]])
    BY <1>0, ListCellsAre
<1>4. p \in Seq(Cell) /\ Len(p) = L /\ \A j \in 1 .. L : p[j] = CellOf(blink_array'[List[j]])
    BY <1>0, <1>2, ListCellsNext
<1>5. ASSUME NEW b \in Struct PROVE CellOf(Ticked(b)) = Ticked(CellOf(b))
    <2>1. Turns(CellOf(b)) <=> Turns(b)
        BY DEF Turns, CellOf
    <2>2. CASE Turns(b)
        BY <2>1, <2>2 DEF Ticked, CellOf, Struct
    <2>3. CASE ~Turns(b)
        BY <2>1, <2>3 DEF Ticked, CellOf, Struct
    <2> QED
        BY <2>2, <2>3
<1>6. ASSUME NEW j \in 1 .. L PROVE p[j] = Ticked(q[j])
    <2>1. List[j] \in Slots /\ List[j] \in Listed
        BY <1>1 DEF Listed
    <2>2. blink_array[List[j]] \in Struct
        BY <1>0, <2>1 DEF BlinkTypeOK
    <2>3. blink_array'[List[j]] = Ticked(blink_array[List[j]])
        BY <1>2, <2>1
    <2> QED
        BY <1>3, <1>4, <1>5, <2>2, <2>3
<1> HIDE DEF L, q, p
<1>7. p = [j \in DOMAIN q |-> Ticked(q[j])]
    <2>1. p = [j \in 1 .. L |-> p[j]]
        BY <1>1, <1>4, LenProperties
    <2> QED
        BY <1>3, <1>6, <2>1
<1> QED
    BY <1>7 DEF Abstract!AfterTick, q, p

\* A step of the program is a step of the list, or leaves it as it is.
LEMMA Refines ==
    ASSUME IInv, IInv', [Next]_vars
    PROVE  Abstract!Next \/ ListCells' = ListCells
<1>1. BlinkInv /\ BlinkInv'
    BY DEF IInv
<1>2. CASE UNCHANGED blinkVars
    <2>1. ListCells' = ListCells
        BY <1>2 DEF blinkVars, ListCells, List
    <2> QED
        BY <2>1
<1>3. ASSUME NEW b \in Blink, mp1_ioctl_add(b) PROVE Abstract!Next \/ ListCells' = ListCells
    <2>1. CASE CanAdd(b)
        <3>1. Abstract!Added(ListCells, ListCells')
            BY <1>1, <1>3, <2>1, AddCell
        <3> QED
            BY <3>1 DEF Abstract!Next, ListCells
    <2>2. CASE ~CanAdd(b)
        BY <1>2, <1>3, <2>2 DEF mp1_ioctl_add
    <2> QED
        BY <2>1, <2>2
<1>4. ASSUME NEW l, mp1_ioctl_remove(l) PROVE Abstract!Next \/ ListCells' = ListCells
    <2>1. CASE mp1_find_helper(l) # 0
        <3>1. Abstract!Removed(ListCells, ListCells')
            BY <1>1, <1>4, <2>1, RemoveCell
        <3> QED
            BY <3>1 DEF Abstract!Next, ListCells
    <2>2. CASE mp1_find_helper(l) = 0
        BY <1>2, <1>4, <2>2 DEF mp1_ioctl_remove
    <2> QED
        BY <2>1, <2>2
<1>5. ASSUME NEW from, NEW to, mp1_ioctl_sync(from, to)
      PROVE  Abstract!Next \/ ListCells' = ListCells
    <2>1. CASE mp1_find_helper(from) # 0 /\ mp1_find_helper(to) # 0
        <3>1. Abstract!Synced(ListCells, ListCells')
            BY <1>1, <1>5, <2>1, SyncCell
        <3> QED
            BY <3>1 DEF Abstract!Next, ListCells
    <2>2. CASE mp1_find_helper(from) = 0 \/ mp1_find_helper(to) = 0
        BY <1>2, <1>5, <2>2 DEF mp1_ioctl_sync
    <2> QED
        BY <2>1, <2>2
<1>6. ASSUME mp1_rtc_tasklet PROVE Abstract!Next \/ ListCells' = ListCells
    <2>1. Abstract!AfterTick(ListCells, ListCells')
        BY <1>1, <1>6, TickCell
    <2> QED
        BY <2>1 DEF Abstract!Next, ListCells
<1>7. CASE NoVideo \/ OpenFrames \/ EndRow \/ Done \/ UNCHANGED vars
    BY <1>2, <1>7 DEF NoVideo, OpenFrames, EndRow, Done, vars
<1>8. CASE AddChar
    <2>1. \A f \in File : InStep(f) /\ row \in Nat /\ col \in Nat
        BY <1>8, FramesMean, TypeParts DEF IInv, AddChar, Goto, FishTypeOK
    <2>2. row \in Nat /\ col \in Nat
        BY <2>1 DEF File
    <2>3. mp1_ioctl_add(FrameCell) \/ UNCHANGED blinkVars
        BY <1>8, <2>1, <2>2, AddsFrameCell
    <2>4. FrameCell \in Blink
        BY <2>1, <2>2, FrameCellIs
    <2> QED
        BY <1>2, <1>3, <2>3, <2>4
<1>9. CASE Wait
    BY <1>6, <1>9 DEF Wait
<1>10. CASE AddSpot \/ SyncSpot \/ RemoveSpot
    <2> DEFINE b == [location |-> SPOT, on_char |-> "I", off_char |-> "M",
                     on_length |-> ON_LENGTH, off_length |-> OFF_LENGTH]
    <2>1. b \in Blink
        BY FishAssumption, SizeAssumption DEF Blink
    <2>2. \/ mp1_ioctl_add(b)
          \/ mp1_ioctl_sync(OFFSET, SPOT)
          \/ mp1_ioctl_remove(SPOT)
        BY <1>10 DEF AddSpot, SyncSpot, RemoveSpot
    <2> HIDE DEF b
    <2> QED
        BY <1>3, <1>4, <1>5, <2>1, <2>2
<1>11. CASE OtherCaller
    <2>1. \/ \E b \in Blinks : mp1_ioctl_add(b)
          \/ \E b \in Blinks : mp1_ioctl_remove(b.location)
          \/ \E a, b \in Blinks : mp1_ioctl_sync(a.location, b.location)
          \/ mp1_rtc_tasklet
        BY <1>11 DEF OtherCaller, BlinkNext
    <2>2. Blinks \subseteq Blink
        BY BlinksMayBeAdded
    <2> QED
        BY <1>3, <1>4, <1>5, <1>6, <2>1, <2>2
<1> QED
    BY <1>7, <1>8, <1>9, <1>10, <1>11 DEF Next

\* Pointers, the allocator's test for location 0 and unlinking implement the
\* list of Blinkers, for an array of every size and under every caller.
THEOREM ListImplemented == Spec => ImplementsList
<1>1. Init => Abstract!Init
    <2> SUFFICES ASSUME Init PROVE Abstract!Init
        OBVIOUS
    <2>1. Linked /\ mp1_list_head = NULL
        BY Begins DEF IInv, BlinkInv, Init, BlinkInit
    <2>2. List = <<>>
        BY <2>1, EmptyList DEF Linked, List
    <2>3. DOMAIN List = {}
        BY <2>2
    <2>4. ListCells = <<>>
        BY <2>3 DEF ListCells
    <2> QED
        BY <2>4 DEF Abstract!Init, ListCells
<1>2. IInv /\ IInv' /\ [Next]_vars =>
         [Abstract!Next]_(LET list == List IN [k \in DOMAIN list |-> CellOf(blink_array[list[k]])])
    BY Refines DEF ListCells
<1> QED
    BY <1>1, <1>2, Inductive, PTL DEF Spec, ImplementsList, Abstract!Spec
=============================================================================
