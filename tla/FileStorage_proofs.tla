------------------------- MODULE FileStorage_proofs -------------------------
(***************************************************************************)
(* Theorems about FileStorage, for every set of entries and every number   *)
(* of saves, appends, stops and writes that fail.                          *)
(***************************************************************************)
EXTENDS FileStorage, Integers, SequenceTheorems, FiniteSetTheorems, TLAPS

(***************************************************************************)
(* What the loops over the lines of a file keep.                           *)
(***************************************************************************)
Kept(s, x) == {i \in DOMAIN s : s[i] # x}
Rank(s, x, i) == Cardinality({j \in Kept(s, x) : j <= i})
Place(s, x, k) == CHOOSE i \in Kept(s, x) : Rank(s, x, i) = k

LEMMA Elements ==
    ASSUME NEW S, NEW s \in Seq(S)
    PROVE  Len(s) \in Nat /\ DOMAIN s = 1..Len(s) /\ \A i \in DOMAIN s : s[i] \in S
BY ElementOfSeq, LenProperties

LEMMA WithoutIs ==
    ASSUME NEW s, NEW x
    PROVE  Without(s, x) = [k \in 1..Cardinality(Kept(s, x)) |-> s[Place(s, x, k)]]
BY DEF Without, Kept, Rank, Place

LEMMA KeptFinite ==
    ASSUME NEW S, NEW s \in Seq(S), NEW x
    PROVE  /\ IsFiniteSet(Kept(s, x)) /\ Cardinality(Kept(s, x)) \in Nat
           /\ Cardinality(Kept(s, x)) <= Len(s)
           /\ \A i \in Kept(s, x) : i \in Nat /\ i \in DOMAIN s /\ s[i] # x
           /\ \A i \in DOMAIN s : s[i] # x => i \in Kept(s, x)
<1>1. Len(s) \in Nat /\ DOMAIN s = 1..Len(s)
  BY Elements
<1>2. IsFiniteSet(1..Len(s)) /\ Cardinality(1..Len(s)) = Len(s)
  BY <1>1, FS_Interval
<1>3. Kept(s, x) \in SUBSET (1..Len(s))
  BY <1>1 DEF Kept
<1>4. IsFiniteSet(Kept(s, x)) /\ Cardinality(Kept(s, x)) <= Len(s)
  BY <1>2, <1>3, FS_Subset
<1>5. Cardinality(Kept(s, x)) \in Nat
  BY <1>4, FS_CardinalityType
<1> QED
  BY <1>1, <1>4, <1>5 DEF Kept

\* The rank of a line that is kept grows with the line.
LEMMA RankGrows ==
    ASSUME NEW S, NEW s \in Seq(S), NEW x, NEW i \in Kept(s, x)
    PROVE  /\ Rank(s, x, i) \in 1..Cardinality(Kept(s, x))
           /\ \A j \in Kept(s, x) : j < i => Rank(s, x, j) < Rank(s, x, i)
<1> DEFINE upto(n) == {j \in Kept(s, x) : j <= n}
<1>1. IsFiniteSet(Kept(s, x)) /\ Cardinality(Kept(s, x)) \in Nat
      /\ \A j \in Kept(s, x) : j \in Nat
  BY KeptFinite
<1>2. ASSUME NEW n PROVE IsFiniteSet(upto(n)) /\ Cardinality(upto(n)) \in Nat
                         /\ Cardinality(upto(n)) <= Cardinality(Kept(s, x))
  <2>1. upto(n) \in SUBSET Kept(s, x)
    OBVIOUS
  <2>2. IsFiniteSet(upto(n)) /\ Cardinality(upto(n)) <= Cardinality(Kept(s, x))
    BY <1>1, <2>1, FS_Subset
  <2> QED
    BY <2>2, FS_CardinalityType
<1>3. Cardinality(upto(i)) # 0
  <2>1. i \in upto(i)
    BY <1>1
  <2>2. IsFiniteSet(upto(i))
    BY <1>2
  <2> QED
    BY <2>1, <2>2, FS_EmptySet
<1>4. ASSUME NEW j \in Kept(s, x), j < i PROVE Cardinality(upto(j)) < Cardinality(upto(i))
  <2>1. upto(j) \in SUBSET upto(i) /\ i \in upto(i) /\ i \notin upto(j)
    BY <1>1, <1>4
  <2>2. IsFiniteSet(upto(i))
    BY <1>2
  <2>3. Cardinality(upto(j)) <= Cardinality(upto(i)) /\ Cardinality(upto(j)) # Cardinality(upto(i))
    BY <2>1, <2>2, FS_Subset
  <2>4. Cardinality(upto(j)) \in Nat /\ Cardinality(upto(i)) \in Nat
    BY <1>2
  <2> QED
    BY <2>3, <2>4
<1>5. Cardinality(upto(i)) \in Nat /\ Cardinality(upto(i)) <= Cardinality(Kept(s, x))
  BY <1>2
<1> HIDE DEF upto
<1>6. Cardinality(upto(i)) \in 1..Cardinality(Kept(s, x))
  BY <1>1, <1>3, <1>5
<1> QED
  BY <1>4, <1>6 DEF Rank, upto

\* Every rank up to the number of lines that are kept is the rank of one of them.
LEMMA RankOnto ==
    ASSUME NEW S, NEW s \in Seq(S), NEW x, NEW k \in 1..Cardinality(Kept(s, x))
    PROVE  \E i \in Kept(s, x) : Rank(s, x, i) = k
<1> DEFINE K == Kept(s, x)
           f == [i \in K |-> Rank(s, x, i)]
           T == 1..Cardinality(K)
<1>1. IsFiniteSet(K) /\ Cardinality(K) \in Nat /\ \A j \in K : j \in Nat
  BY KeptFinite
<1>2. f \in [K -> T]
  BY RankGrows
<1>3. ASSUME NEW a \in K, NEW b \in K, f[a] = f[b] PROVE a = b
  <2>1. a \in Nat /\ b \in Nat
    BY <1>1
  <2>2. Rank(s, x, a) \in Nat /\ Rank(s, x, b) \in Nat
    BY RankGrows
  <2>3. ~(a < b) /\ ~(b < a)
    BY <1>3, <2>2, RankGrows
  <2> QED
    BY <2>1, <2>3
<1>4. f \in Injection(K, T)
  BY <1>2, <1>3 DEF Injection, IsInjective
<1>5. IsFiniteSet(T) /\ Cardinality(T) = Cardinality(K)
  BY <1>1, FS_Interval
<1>6. f \in Surjection(K, T)
  BY <1>4, <1>5, FS_Injection
<1> QED
  BY <1>6 DEF Surjection

LEMMA PlaceOf ==
    ASSUME NEW S, NEW s \in Seq(S), NEW x, NEW k \in 1..Cardinality(Kept(s, x))
    PROVE  Place(s, x, k) \in Kept(s, x) /\ Rank(s, x, Place(s, x, k)) = k
BY RankOnto DEF Place

\* What is kept of a sequence, in its order and nothing else.
LEMMA WithoutKeeps ==
    ASSUME NEW S, NEW s \in Seq(S), NEW x
    PROVE  /\ Without(s, x) \in Seq(S)
           /\ Len(Without(s, x)) <= Len(s)
           /\ \A k \in DOMAIN Without(s, x) :
                \E i \in DOMAIN s : s[i] # x /\ Without(s, x)[k] = s[i]
           /\ \A i \in DOMAIN s : s[i] # x =>
                \E k \in DOMAIN Without(s, x) : Without(s, x)[k] = s[i]
           /\ \A k, l \in DOMAIN Without(s, x) : k < l =>
                \E i, j \in DOMAIN s : /\ i < j /\ s[i] # x /\ s[j] # x
                                       /\ Without(s, x)[k] = s[i] /\ Without(s, x)[l] = s[j]
<1> DEFINE w == Without(s, x)  n == Cardinality(Kept(s, x))
<1>1. n \in Nat /\ n <= Len(s)
      /\ \A i \in Kept(s, x) : i \in Nat /\ i \in DOMAIN s /\ s[i] # x
  BY KeptFinite
<1>2. DOMAIN w = 1..n /\ \A k \in 1..n : w[k] = s[Place(s, x, k)]
  BY WithoutIs
<1>3. \A k \in 1..n : Place(s, x, k) \in Kept(s, x) /\ Rank(s, x, Place(s, x, k)) = k
  BY PlaceOf
<1>4. \A k \in 1..n : w[k] \in S
  BY <1>1, <1>2, <1>3, Elements
<1>5. w = [k \in 1..n |-> w[k]]
  BY WithoutIs
<1>6. w \in Seq(S) /\ Len(w) = n
  BY <1>1, <1>4, <1>5, IsASeq, LenProperties
<1>7. ASSUME NEW i \in DOMAIN s, s[i] # x PROVE \E k \in 1..n : w[k] = s[i]
  <2>1. i \in Kept(s, x)
    BY <1>7 DEF Kept
  <2>2. Rank(s, x, i) \in 1..n
    BY <2>1, RankGrows
  <2> DEFINE p == Place(s, x, Rank(s, x, i))
  <2>3. p \in Kept(s, x) /\ Rank(s, x, p) = Rank(s, x, i)
    BY <1>3, <2>2
  <2>4. ~(p < i) /\ ~(i < p)
    <3>1. Rank(s, x, p) \in Nat /\ Rank(s, x, i) \in Nat
      BY <2>2, <2>3
    <3> QED
      BY <2>1, <2>3, <3>1, RankGrows
  <2>5. p = i
    BY <1>1, <2>1, <2>3, <2>4
  <2> QED
    BY <1>2, <2>2, <2>5
<1>8. ASSUME NEW k \in 1..n, NEW l \in 1..n, k < l
      PROVE  Place(s, x, k) < Place(s, x, l)
  <2>1. Place(s, x, k) \in Kept(s, x) /\ Place(s, x, l) \in Kept(s, x)
        /\ Rank(s, x, Place(s, x, k)) = k /\ Rank(s, x, Place(s, x, l)) = l
    BY <1>3
  <2>2. ~(Place(s, x, l) < Place(s, x, k)) /\ Place(s, x, k) # Place(s, x, l)
    BY <1>8, <2>1, RankGrows
  <2> QED
    BY <1>1, <2>1, <2>2
<1> HIDE DEF w, n
<1>9. \A k \in DOMAIN w : \E i \in DOMAIN s : s[i] # x /\ w[k] = s[i]
  BY <1>1, <1>2, <1>3
<1>10. \A k, l \in DOMAIN w : k < l =>
         \E i, j \in DOMAIN s : i < j /\ s[i] # x /\ s[j] # x /\ w[k] = s[i] /\ w[l] = s[j]
  BY <1>1, <1>2, <1>3, <1>8
<1>11. w \in Seq(S) /\ Len(w) <= Len(s) /\ \A i \in DOMAIN s : s[i] # x => \E k \in DOMAIN w : w[k] = s[i]
  BY <1>1, <1>2, <1>6, <1>7
<1> QED
  BY <1>9, <1>10, <1>11 DEF w

\* Of a sequence that ends in x's, the rest is kept.
LEMMA WithoutEnd ==
    ASSUME NEW S, NEW s \in Seq(S), NEW x, NEW n \in 0..Len(s),
           \A i \in DOMAIN s : s[i] # x <=> i <= n
    PROVE  Without(s, x) = SubSeq(s, 1, n)
<1>1. Len(s) \in Nat /\ DOMAIN s = 1..Len(s) /\ n \in Nat /\ n <= Len(s)
      /\ \A i \in DOMAIN s : s[i] \in S
  BY Elements
<1>2. Kept(s, x) = 1..n
  BY <1>1 DEF Kept
<1>3. Cardinality(1..n) = n
  BY <1>1, FS_Interval
<1>4. ASSUME NEW k \in 1..n PROVE Place(s, x, k) = k
  <2> DEFINE p == Place(s, x, k)
  <2>1. p \in 1..n /\ Rank(s, x, p) = k
    BY <1>2, <1>3, PlaceOf
  <2>2. {j \in 1..n : j <= p} = 1..p
    BY <1>1, <2>1
  <2>3. Cardinality(1..p) = p
    BY <1>1, <2>1, FS_Interval
  <2>4. Rank(s, x, p) = Cardinality({j \in 1..n : j <= p})
    BY <1>2 DEF Rank
  <2> QED
    BY <2>1, <2>2, <2>3, <2>4
<1>5. Without(s, x) = [k \in 1..n |-> s[k]]
  BY <1>2, <1>3, <1>4, WithoutIs
<1>6. /\ SubSeq(s, 1, n) \in Seq(S) /\ Len(SubSeq(s, 1, n)) = n
      /\ \A i \in 1..n : SubSeq(s, 1, n)[i] = s[i]
  <2>1. \A i \in 1..n : s[i] \in S
    BY <1>1
  <2>2. \A i \in 1..(n - 1 + 1) : SubSeq(s, 1, n)[i] = s[1 + i - 1]
    BY <1>1, <2>1, SubSeqProperties
  <2>3. SubSeq(s, 1, n) \in Seq(S) /\ Len(SubSeq(s, 1, n)) = IF 1 <= n THEN n - 1 + 1 ELSE 0
    BY <1>1, <2>1, SubSeqProperties
  <2> QED
    BY <1>1, <2>2, <2>3
<1>7. [k \in 1..n |-> s[k]] \in Seq(S) /\ Len([k \in 1..n |-> s[k]]) = n
  BY <1>1, IsASeq, LenProperties
<1> QED
  BY <1>5, <1>6, <1>7, SeqEqual

(***************************************************************************)
(* The invariant of the tables.  A file holds the start of what was last   *)
(* written to it, perhaps with a torn line behind; as long as no write has *)
(* failed, what is missing of a save under way is still to be written.     *)
(***************************************************************************)
StartOf(lines, c) == \E p \in Seq(Entries) : IsPrefix(p, c) /\ lines \in TornAfter(p)

SoFar(lines, todo, c) ==
    /\ lines \in Seq(Entries) /\ Len(lines) + Len(todo) = Len(c)
    /\ \A i \in DOMAIN lines : lines[i] = c[i]
    /\ \A i \in DOMAIN todo : todo[i] = c[Len(lines) + i]

UnderWay(t) ==
    /\ StartOf(file[t], saving.content)
    /\ saving.todo # <<>> \/ dropped = 0 => SoFar(file[t], saving.todo, saving.content)

AtRest(t) ==
    /\ StartOf(file[t], saved[t])
    /\ dropped = 0 => Load(t) = saved[t]

TablesInv ==
    /\ saving.table = "none" => saving = NoSave
    /\ \A t \in Tables : IF saving.table = t THEN UnderWay(t) ELSE AtRest(t)

LEMMA PrefixIs ==
    ASSUME NEW S, NEW s \in Seq(S), NEW t \in Seq(S)
    PROVE  IsPrefix(s, t) <=> Len(s) <= Len(t) /\ \A i \in 1..Len(s) : s[i] = t[i]
<1>1. Len(s) \in Nat /\ Len(t) \in Nat /\ (\A i \in 1..Len(s) : s[i] \in S)
      /\ \A i \in 1..Len(t) : t[i] \in S
  BY Elements
<1>2. SubSeq(s, 1, Len(s)) = s
  BY SubSeqFull
<1>3. ASSUME Len(s) <= Len(t)
      PROVE  /\ SubSeq(t, 1, Len(s)) \in Seq(S) /\ Len(SubSeq(t, 1, Len(s))) = Len(s)
             /\ \A i \in 1..Len(s) : SubSeq(t, 1, Len(s))[i] = t[i]
  <2>1. \A i \in 1..Len(s) : t[i] \in S
    BY <1>1, <1>3
  <2>2. \A i \in 1..(Len(s) - 1 + 1) : SubSeq(t, 1, Len(s))[i] = t[1 + i - 1]
    BY <1>1, <2>1, SubSeqProperties
  <2>3. SubSeq(t, 1, Len(s)) \in Seq(S)
        /\ Len(SubSeq(t, 1, Len(s))) = IF 1 <= Len(s) THEN Len(s) - 1 + 1 ELSE 0
    BY <1>1, <2>1, SubSeqProperties
  <2> QED
    BY <1>1, <2>2, <2>3
<1>4. ASSUME Len(s) <= Len(t), \A i \in 1..Len(s) : s[i] = t[i] PROVE s = SubSeq(t, 1, Len(s))
  BY <1>3, <1>4, SeqEqual
<1> QED
  BY <1>2, <1>3, <1>4 DEF IsPrefix

LEMMA TornLines ==
    ASSUME NEW p \in Seq(Entries), NEW lines \in TornAfter(p)
    PROVE  lines \in Seq(Entries \cup {Torn}) /\ Without(lines, Torn) = p
<1>1. p \in Seq(Entries \cup {Torn})
  BY SeqMonotonic
<1>2. Len(p) \in Nat /\ DOMAIN p = 1..Len(p) /\ \A i \in DOMAIN p : p[i] \in Entries
  BY Elements
<1>3. /\ Append(p, Torn) \in Seq(Entries \cup {Torn}) /\ Len(Append(p, Torn)) = Len(p) + 1
      /\ \A i \in 1..Len(p) : Append(p, Torn)[i] = p[i]
      /\ Append(p, Torn)[Len(p) + 1] = Torn
  BY <1>1, AppendProperties
<1>4. lines \in Seq(Entries \cup {Torn}) /\ Len(p) <= Len(lines) /\ Len(lines) \in Nat
      /\ DOMAIN lines = 1..Len(lines) /\ \A i \in 1..Len(p) : lines[i] = p[i]
  <2>1. lines = p \/ lines = Append(p, Torn)
    BY DEF TornAfter
  <2>2. lines \in Seq(Entries \cup {Torn}) /\ Len(p) <= Len(lines)
        /\ \A i \in 1..Len(p) : lines[i] = p[i]
    BY <1>1, <1>2, <1>3, <2>1
  <2> QED
    BY <2>2, Elements
<1>5. \A i \in DOMAIN lines : lines[i] # Torn <=> i <= Len(p)
  <2>1. CASE lines = p
    BY <1>2, <2>1, StorageAssumption
  <2>2. CASE lines = Append(p, Torn)
    <3>1. DOMAIN lines = 1..(Len(p) + 1)
      BY <1>3, <1>4, <2>2
    <3> QED
      BY <1>2, <1>3, <2>2, <3>1, StorageAssumption
  <2> QED
    BY <2>1, <2>2 DEF TornAfter
<1>6. Len(p) \in 0..Len(lines)
  BY <1>2, <1>4
<1>7. Without(lines, Torn) = SubSeq(lines, 1, Len(p))
  BY <1>4, <1>5, <1>6, WithoutEnd
<1>8. IsPrefix(p, lines)
  BY <1>1, <1>4, PrefixIs
<1> QED
  BY <1>4, <1>7, <1>8, SubSeqFull DEF IsPrefix

LEMMA PrefixRefl == ASSUME NEW p \in Seq(Entries) PROVE IsPrefix(p, p) /\ p \in TornAfter(p)
BY DEF IsPrefix, TornAfter

\* What the loader makes of the start of a content.
LEMMA StartLoads ==
    ASSUME NEW lines, NEW c \in Seq(Entries), StartOf(lines, c)
    PROVE  /\ Without(lines, Torn) \in Seq(Entries) /\ IsPrefix(Without(lines, Torn), c)
           /\ lines \in TornAfter(Without(lines, Torn)) /\ lines \in Seq(Entries \cup {Torn})
BY TornLines DEF StartOf

\* What was written so far is a start, and once nothing is left it is everything.
LEMMA SoFarStarts ==
    ASSUME NEW lines, NEW todo \in Seq(Entries), NEW c \in Seq(Entries), SoFar(lines, todo, c)
    PROVE  /\ lines \in Seq(Entries) /\ IsPrefix(lines, c)
           /\ todo = <<>> => lines = c
<1>1. lines \in Seq(Entries) /\ Len(lines) + Len(todo) = Len(c)
      /\ \A i \in DOMAIN lines : lines[i] = c[i]
  BY DEF SoFar
<1>2. Len(lines) \in Nat /\ DOMAIN lines = 1..Len(lines) /\ Len(todo) \in Nat /\ Len(c) \in Nat
  BY <1>1, Elements
<1>3. IsPrefix(lines, c)
  BY <1>1, <1>2, PrefixIs
<1>4. todo = <<>> => Len(lines) = Len(c)
  BY <1>1, <1>2
<1>5. todo = <<>> => lines = c
  BY <1>1, <1>2, <1>4, SeqEqual
<1> QED
  BY <1>1, <1>3, <1>5

\* One line more is written.
LEMMA SoFarGrows ==
    ASSUME NEW lines, NEW todo \in Seq(Entries), NEW c \in Seq(Entries), SoFar(lines, todo, c),
           todo # <<>>
    PROVE  SoFar(Append(lines, Head(todo)), Tail(todo), c)
<1>1. lines \in Seq(Entries) /\ Len(lines) + Len(todo) = Len(c)
      /\ (\A i \in DOMAIN lines : lines[i] = c[i])
      /\ \A i \in DOMAIN todo : todo[i] = c[Len(lines) + i]
  BY DEF SoFar
<1>2. Len(lines) \in Nat /\ DOMAIN lines = 1..Len(lines) /\ Len(todo) \in Nat
      /\ DOMAIN todo = 1..Len(todo) /\ Len(c) \in Nat
  BY <1>1, Elements
<1>3. /\ Head(todo) \in Entries /\ Tail(todo) \in Seq(Entries) /\ Len(Tail(todo)) = Len(todo) - 1
      /\ \A i \in 1..Len(Tail(todo)) : Tail(todo)[i] = todo[i + 1]
  BY HeadTailProperties
<1>4. Len(todo) >= 1 /\ Head(todo) = todo[1]
  BY <1>2, EmptySeq DEF Head
<1> DEFINE more == Append(lines, Head(todo))
<1>5. /\ more \in Seq(Entries) /\ Len(more) = Len(lines) + 1
      /\ (\A i \in 1..Len(lines) : more[i] = lines[i]) /\ more[Len(lines) + 1] = Head(todo)
  BY <1>1, <1>3, AppendProperties
<1>6. DOMAIN more = 1..(Len(lines) + 1) /\ DOMAIN Tail(todo) = 1..(Len(todo) - 1)
  BY <1>3, <1>5, Elements
<1> HIDE DEF more
<1>7. \A i \in DOMAIN more : more[i] = c[i]
  <2>1. todo[1] = c[Len(lines) + 1]
    BY <1>1, <1>2, <1>4
  <2> QED
    BY <1>1, <1>2, <1>4, <1>5, <1>6, <2>1
<1>8. \A i \in DOMAIN Tail(todo) : Tail(todo)[i] = c[Len(more) + i]
  <2> TAKE i \in DOMAIN Tail(todo)
  <2>1. i \in 1..Len(Tail(todo)) /\ i \in 1..(Len(todo) - 1)
    BY <1>3, <1>6
  <2>2. Tail(todo)[i] = todo[i + 1] /\ i + 1 \in DOMAIN todo
    BY <1>2, <1>3, <2>1
  <2>3. Len(more) + i = Len(lines) + (i + 1)
    BY <1>2, <1>5, <2>1
  <2> QED
    BY <1>1, <2>2, <2>3
<1>9. Len(more) + Len(Tail(todo)) = Len(c)
  BY <1>1, <1>2, <1>3, <1>5
<1> QED
  BY <1>5, <1>7, <1>8, <1>9 DEF SoFar, more

TablesTyped ==
    /\ file \in [Tables -> Seq(Entries \cup {Torn})]
    /\ saving \in [table : Tables \cup {"none"}, content : Seq(Entries), todo : Seq(Entries)]
    /\ saved \in [Tables -> Seq(Entries)]
    /\ dropped \in 0..MaxDropped
TablesOK == TablesTyped /\ TablesInv

LEMMA EmptyFile ==
    /\ <<>> \in Seq(Entries) /\ <<>> \in Seq(Entries \cup {Torn})
    /\ \A c \in Seq(Entries) : StartOf(<<>>, c) /\ SoFar(<<>>, c, c)
    /\ Without(<<>>, Torn) = <<>>
<1>1. <<>> \in Seq(Entries) /\ <<>> \in TornAfter(<<>>)
  BY DEF TornAfter
<1>2. ASSUME NEW c \in Seq(Entries) PROVE StartOf(<<>>, c) /\ SoFar(<<>>, c, c)
  <2>2. Len(c) \in Nat /\ DOMAIN c = 1..Len(c) /\ Len(<<>>) = 0
    BY Elements
  <2>1. IsPrefix(<<>>, c)
    <3>1. \A i \in 1..0 : <<>>[i] = c[i]
      OBVIOUS
    <3>2. <<>> \in Seq(Entries) /\ Len(<<>>) <= Len(c)
      BY <1>1, <2>2
    <3> DEFINE e == <<>>
    <3>3. e \in Seq(Entries) /\ Len(e) <= Len(c) /\ \A i \in 1..Len(e) : e[i] = c[i]
      BY <2>2, <3>1, <3>2
    <3> HIDE DEF e
    <3>4. IsPrefix(e, c)
      BY <3>3, PrefixIs
    <3> QED
      BY <3>4 DEF e
  <2>3. SoFar(<<>>, c, c)
    BY <1>1, <2>2 DEF SoFar
  <2> QED
    BY <1>1, <2>1, <2>3 DEF StartOf
<1> QED
  BY <1>1, <1>2, TornLines

\* While a save is under way its table is one of the two.
LEMMA Saving ==
    ASSUME TablesOK, ~Idle
    PROVE  /\ saving.table \in Tables /\ saving.table # "none" /\ UnderWay(saving.table)
           /\ saving.content \in Seq(Entries) /\ saving.todo \in Seq(Entries)
           /\ \A t \in Tables : t # saving.table => AtRest(t)
BY DEF TablesOK, TablesTyped, TablesInv, Idle, NoSave, Tables

LEMMA Resting == ASSUME TablesOK, Idle PROVE \A t \in Tables : AtRest(t)
BY DEF TablesOK, TablesInv, Idle, NoSave, Tables

\* A table no step touches stays as it was, and the more so if a write failed.
LEMMA StaysAtRest ==
    ASSUME TablesOK, NEW t \in Tables, AtRest(t), file'[t] = file[t], saved'[t] = saved[t],
           dropped' = 0 => dropped = 0
    PROVE  AtRest(t)'
BY DEF AtRest, StartOf, TornAfter, Load

LEMMA TablesInit == Init => TablesOK
<1> SUFFICES ASSUME Init PROVE TablesOK
  OBVIOUS
<1>1. \A t \in Tables : AtRest(t)
  BY EmptyFile DEF Init, AtRest, Load
<1>2. TablesTyped
  BY EmptyFile, StorageAssumption DEF Init, TablesTyped, NoSave
<1>3. saving.table = "none" /\ saving = NoSave /\ "none" \notin Tables
  BY DEF Init, NoSave, Tables
<1> QED
  BY <1>1, <1>2, <1>3 DEF TablesOK, TablesInv

LEMMA OpenKeeps ==
    ASSUME TablesOK, NEW t \in Tables, NEW content \in Contents, Open(t, content)
    PROVE  TablesOK'
<1>1. content \in Seq(Entries)
  <2>1. PICK m \in 0..Cardinality(Entries) : content \in [1..m -> Entries]
    BY DEF Contents, SeqOf
  <2>2. m \in Nat
    BY <2>1
  <2> QED
    BY <2>1, <2>2, SeqDef
<1>2. /\ Idle /\ file' = [file EXCEPT ![t] = <<>>] /\ saved' = saved /\ dropped' = dropped
      /\ saving' = [table |-> t, content |-> content, todo |-> content]
  BY DEF Open, StartSave
<1>3. TablesTyped'
  BY <1>1, <1>2, EmptyFile DEF TablesOK, TablesTyped
<1>4. file'[t] = <<>> /\ \A u \in Tables : u # t => file'[u] = file[u]
  BY <1>2 DEF TablesOK, TablesTyped
<1>5. UnderWay(t)'
  BY <1>1, <1>2, <1>4, EmptyFile DEF UnderWay
<1>6. \A u \in Tables : u # t => AtRest(u)'
  BY <1>2, <1>4, Resting, StaysAtRest
<1>7. saving'.table = t /\ t # "none"
  BY <1>2 DEF Tables
<1> QED
  BY <1>3, <1>5, <1>6, <1>7 DEF TablesOK, TablesInv

LEMMA WriteLineKeeps == ASSUME TablesOK, WriteLine PROVE TablesOK'
<1> DEFINE t == saving.table
<1>1. /\ ~Idle /\ saving.todo # <<>> /\ saved' = saved /\ dropped' = dropped
      /\ file' = [file EXCEPT ![t] = Append(file[t], Head(saving.todo))]
      /\ saving' = [saving EXCEPT !.todo = Tail(saving.todo)]
  BY DEF WriteLine
<1>2. /\ t \in Tables /\ t # "none" /\ UnderWay(t)
      /\ saving.content \in Seq(Entries) /\ saving.todo \in Seq(Entries)
      /\ \A u \in Tables : u # t => AtRest(u)
  BY <1>1, Saving
<1>3. SoFar(Append(file[t], Head(saving.todo)), Tail(saving.todo), saving.content)
  BY <1>1, <1>2, SoFarGrows DEF UnderWay
<1>4. Tail(saving.todo) \in Seq(Entries)
  BY <1>1, <1>2, HeadTailProperties
<1>5. /\ saving'.table = t /\ saving'.content = saving.content
      /\ saving'.todo = Tail(saving.todo)
      /\ file'[t] = Append(file[t], Head(saving.todo))
      /\ \A u \in Tables : u # t => file'[u] = file[u]
  BY <1>1, <1>2 DEF TablesOK, TablesTyped
<1>6. file'[t] \in Seq(Entries) /\ IsPrefix(file'[t], saving'.content)
  <2>1. SoFar(file'[t], saving'.todo, saving'.content)
    BY <1>3, <1>5
  <2>2. saving'.todo \in Seq(Entries) /\ saving'.content \in Seq(Entries)
    BY <1>2, <1>4, <1>5
  <2> QED
    BY <2>1, <2>2, SoFarStarts
<1>7. TablesTyped'
  <2>1. file'[t] \in Seq(Entries \cup {Torn})
    BY <1>6, SeqMonotonic
  <2> QED
    BY <1>1, <1>2, <1>4, <1>5, <2>1 DEF TablesOK, TablesTyped
<1>8. UnderWay(saving.table)'
  BY <1>3, <1>5, <1>6, PrefixRefl DEF UnderWay, StartOf
<1>9. \A u \in Tables : u # t => AtRest(u)'
  BY <1>1, <1>2, <1>5, StaysAtRest
<1> QED
  BY <1>2, <1>5, <1>7, <1>8, <1>9 DEF TablesOK, TablesInv

LEMMA WritesDroppedKeeps == ASSUME TablesOK, WritesDropped PROVE TablesOK'
<1> DEFINE t == saving.table
<1>1. /\ ~Idle /\ saving.todo # <<>> /\ saved' = saved
      /\ dropped < MaxDropped /\ dropped' = dropped + 1
      /\ saving' = [saving EXCEPT !.todo = <<>>]
  BY DEF WritesDropped, DropWrites
<1>2. PICK lines \in TornAfter(file[t]) : file' = [file EXCEPT ![t] = lines]
  BY DEF WritesDropped
<1>3. /\ t \in Tables /\ t # "none" /\ UnderWay(t)
      /\ saving.content \in Seq(Entries) /\ saving.todo \in Seq(Entries)
      /\ \A u \in Tables : u # t => AtRest(u)
  BY <1>1, Saving
<1>4. file[t] \in Seq(Entries) /\ IsPrefix(file[t], saving.content)
  BY <1>1, <1>3, SoFarStarts DEF UnderWay
<1>5. /\ saving'.table = t /\ saving'.content = saving.content /\ saving'.todo = <<>>
      /\ file'[t] = lines /\ \A u \in Tables : u # t => file'[u] = file[u]
  BY <1>1, <1>2, <1>3 DEF TablesOK, TablesTyped
<1>6. dropped' \in 0..MaxDropped /\ dropped' # 0
  BY <1>1, StorageAssumption DEF TablesOK, TablesTyped
<1>7. TablesTyped'
  <2>1. lines \in Seq(Entries \cup {Torn})
    BY <1>2, <1>4, TornLines
  <2> QED
    BY <1>1, <1>2, <1>6, <2>1, EmptyFile DEF TablesOK, TablesTyped
<1>8. UnderWay(saving.table)'
  BY <1>2, <1>4, <1>5, <1>6 DEF UnderWay, StartOf
<1>9. \A u \in Tables : u # t => AtRest(u)'
  BY <1>1, <1>3, <1>5, <1>6, StaysAtRest
<1> QED
  BY <1>3, <1>5, <1>7, <1>8, <1>9 DEF TablesOK, TablesInv

LEMMA ReturnKeeps == ASSUME TablesOK, Return PROVE TablesOK'
<1>0. ~Idle
  BY DEF Return
<1> PICK t \in Tables : t = saving.table
  BY <1>0, Saving
<1>1. /\ ~Idle /\ saving.todo = <<>> /\ file' = file /\ dropped' = dropped
      /\ saved' = [saved EXCEPT ![t] = saving.content] /\ saving' = NoSave
  BY DEF Return
<1>2. /\ t \in Tables /\ t # "none" /\ UnderWay(t)
      /\ saving.content \in Seq(Entries) /\ saving.todo \in Seq(Entries)
      /\ \A u \in Tables : u # t => AtRest(u)
  BY <1>1, Saving
<1>3. TablesTyped'
  BY <1>1, <1>2, EmptyFile DEF TablesOK, TablesTyped, NoSave
<1>4. saved'[t] = saving.content /\ \A u \in Tables : u # t => saved'[u] = saved[u]
  BY <1>1, <1>2 DEF TablesOK, TablesTyped
<1>5. AtRest(t)'
  <2>1. ASSUME dropped = 0 PROVE Without(file[t], Torn) = saving.content
    <3>1. file[t] = saving.content
      BY <1>1, <1>2, <2>1, SoFarStarts DEF UnderWay
    <3> QED
      BY <1>2, <3>1, PrefixRefl, TornLines
  <2> QED
    BY <1>1, <1>2, <1>4, <2>1 DEF UnderWay, AtRest, StartOf, TornAfter, Load
<1>6. \A u \in Tables : AtRest(u)'
  BY <1>1, <1>2, <1>4, <1>5, StaysAtRest
<1>7. saving' = NoSave /\ saving'.table = "none" /\ "none" \notin Tables
  BY <1>1 DEF NoSave, Tables
<1> QED
  BY <1>3, <1>6, <1>7 DEF TablesOK, TablesInv

LEMMA CrashInSaveKeeps == ASSUME TablesOK, CrashInSave PROVE TablesOK'
<1>0. ~Idle
  BY DEF CrashInSave
<1> PICK t \in Tables : t = saving.table
  BY <1>0, Saving
<1> DEFINE p == Without(file[t], Torn)
<1>1. /\ ~Idle /\ dropped' = dropped
      /\ saved' = [saved EXCEPT ![t] = p] /\ saving' = NoSave
  BY DEF CrashInSave, Load
<1>2. PICK lines \in IF saving.todo = <<>> THEN {file[t]} ELSE TornAfter(file[t]) :
        file' = [file EXCEPT ![t] = lines]
  BY DEF CrashInSave
<1>3. /\ t \in Tables /\ t # "none" /\ UnderWay(t)
      /\ saving.content \in Seq(Entries) /\ saving.todo \in Seq(Entries)
      /\ \A u \in Tables : u # t => AtRest(u)
  BY <1>1, Saving
<1>4. p \in Seq(Entries) /\ file[t] \in TornAfter(p)
  BY <1>3, StartLoads DEF UnderWay
<1>5. lines \in TornAfter(p)
  <2>1. CASE saving.todo = <<>>
    BY <1>2, <1>4, <2>1
  <2>2. CASE saving.todo # <<>>
    <3>1. file[t] \in Seq(Entries)
      BY <1>3, <2>2, SoFarStarts DEF UnderWay
    <3>2. p = file[t]
      BY <3>1, PrefixRefl, TornLines
    <3> QED
      BY <1>2, <2>2, <3>2
  <2> QED
    BY <2>1, <2>2
<1>6. lines \in Seq(Entries \cup {Torn}) /\ Without(lines, Torn) = p
  BY <1>4, <1>5, TornLines
<1> HIDE DEF p
<1>7. /\ saved'[t] = p /\ file'[t] = lines
      /\ \A u \in Tables : u # t => saved'[u] = saved[u] /\ file'[u] = file[u]
  BY <1>1, <1>2, <1>3 DEF TablesOK, TablesTyped
<1>8. TablesTyped'
  BY <1>1, <1>2, <1>4, <1>6, EmptyFile DEF TablesOK, TablesTyped, NoSave
<1>9. AtRest(t)'
  BY <1>4, <1>5, <1>6, <1>7, PrefixRefl DEF AtRest, StartOf, Load
<1>10. \A u \in Tables : AtRest(u)'
  BY <1>1, <1>3, <1>7, <1>9, StaysAtRest
<1>11. saving' = NoSave /\ saving'.table = "none" /\ "none" \notin Tables
  BY <1>1 DEF NoSave, Tables
<1> QED
  BY <1>8, <1>10, <1>11 DEF TablesOK, TablesInv

\* The records are in another file.
LEMMA TablesApart ==
    ASSUME TablesOK, UNCHANGED <<file, saving, saved>>, dropped' \in 0..MaxDropped,
           dropped' = 0 => dropped = 0
    PROVE  TablesOK'
<1>1. TablesTyped'
  BY DEF TablesOK, TablesTyped
<1>2. ASSUME NEW t \in Tables, saving.table = t PROVE UnderWay(t)'
  BY <1>2 DEF TablesOK, TablesInv, UnderWay, StartOf, TornAfter, SoFar
<1>3. ASSUME NEW t \in Tables, saving.table # t PROVE AtRest(t)'
  BY <1>3, StaysAtRest DEF TablesOK, TablesInv
<1> QED
  BY <1>1, <1>2, <1>3 DEF TablesOK, TablesInv, NoSave

(***************************************************************************)
(* The invariant of the records: they come in the order of their numbers,  *)
(* and a line that does not end yet may cost the next record, so it counts *)
(* as a record that is lost.                                               *)
(***************************************************************************)
Ends == Places \cup {"closed"}
Hanging == IF records # <<>> /\ Last(records).end # "closed" THEN 1 ELSE 0
Sound(line, n) ==
    line.shows \in 1..n \cup {Nothing} /\ (line.end = "id" => line.shows = Nothing)

RecordsTyped ==
    /\ records \in Seq(Line) /\ appended \in 0..MaxAppends /\ told \subseteq 1..appended
    /\ crashes \in 0..MaxCrashes /\ dropped \in 0..MaxDropped
LinesInv ==
    /\ \A i \in DOMAIN records : Sound(records[i], appended)
    /\ \A i, j \in DOMAIN records :
         i < j /\ records[i].shows # Nothing /\ records[j].shows # Nothing =>
           records[i].shows < records[j].shows
LossInv == Cardinality(told \ Shown) + Hanging <= crashes + 2 * dropped
RecordsOK == RecordsTyped /\ LinesInv /\ LossInv

LEMMA Counted ==
    ASSUME RecordsTyped
    PROVE  /\ appended \in Nat /\ crashes \in Nat /\ dropped \in Nat /\ appended + 1 \in Nat
           /\ Hanging \in {0, 1}
           /\ IsFiniteSet(told \ Shown) /\ Cardinality(told \ Shown) \in Nat
<1>1. appended \in Nat /\ crashes \in Nat /\ dropped \in Nat
  BY DEF RecordsTyped
<1>2. IsFiniteSet(1..appended)
  BY <1>1, FS_Interval
<1>3. told \ Shown \in SUBSET (1..appended)
  BY DEF RecordsTyped
<1>4. IsFiniteSet(told \ Shown)
  BY <1>2, <1>3, FS_Subset
<1> QED
  BY <1>1, <1>4, FS_CardinalityType DEF Hanging

LEMMA RecordsInit == Init => RecordsOK
<1> SUFFICES ASSUME Init PROVE RecordsOK
  OBVIOUS
<1>1. RecordsTyped
  <2>1. <<>> \in Seq(Line)
    OBVIOUS
  <2> QED
    BY <2>1, StorageAssumption DEF Init, RecordsTyped
<1>2. LinesInv
  BY DEF Init, LinesInv
<1>3. told \ Shown = {} /\ Hanging = 0
  BY DEF Init, Hanging
<1>4. LossInv
  BY <1>3, FS_EmptySet DEF Init, LossInv
<1> QED
  BY <1>1, <1>2, <1>4 DEF RecordsOK

\* A line that a record was written on.
LEMMA LineWritten ==
    ASSUME NEW line \in Line, NEW n \in Nat, Sound(line, n), NEW r \in Nat, r = n + 1,
           NEW end \in Ends
    PROVE  LET new == WrittenOn(line, r, end) IN
           /\ new \in Line /\ Sound(new, r)
           /\ new.shows = line.shows \/ (new.shows = r /\ line.shows = Nothing)
           /\ end = "closed" => new.end = "closed"
           /\ end = "closed" /\ line.end = "id" => new.shows = r
<1>1. line.shows \in 1..n \cup {Nothing} /\ line.end \in Ends
      /\ line = [shows |-> line.shows, end |-> line.end]
  BY DEF Sound, Line, Ends
<1>2. line.shows \in 1..r \cup {Nothing} /\ r \in 1..r /\ \A x \in 1..r : x \in Nat
  BY <1>1
<1>3. CASE line.end = "id"
  <2>1. WrittenOn(line, r, end)
          = [shows |-> IF end \in {"closed", "details"} THEN r ELSE Nothing, end |-> end]
    BY <1>3 DEF WrittenOn
  <2>2. line.shows = Nothing
    BY <1>3 DEF Sound
  <2>3. CASE end \in {"closed", "details"}
    <3>1. WrittenOn(line, r, end) = [shows |-> r, end |-> end]
      BY <2>1, <2>3
    <3> QED
      BY <2>2, <2>3, <3>1, <1>2 DEF Sound, Line, Ends
  <2>4. CASE end \notin {"closed", "details"}
    <3>1. WrittenOn(line, r, end) = [shows |-> Nothing, end |-> end]
      BY <2>1, <2>4
    <3> QED
      BY <2>2, <2>4, <3>1, <1>2 DEF Sound, Line, Ends
  <2> QED
    BY <2>3, <2>4
<1>4. CASE line.end # "id"
  <2>1. WrittenOn(line, r, end) = [line EXCEPT !.end = IF end = "closed" THEN end ELSE line.end]
    BY <1>4 DEF WrittenOn
  <2>2. CASE end = "closed"
    <3>1. WrittenOn(line, r, end) = [shows |-> line.shows, end |-> "closed"]
      BY <1>1, <2>1, <2>2
    <3> QED
      BY <1>2, <1>4, <3>1 DEF Sound, Line, Ends
  <2>3. CASE end # "closed"
    <3>1. WrittenOn(line, r, end) = [shows |-> line.shows, end |-> line.end]
      BY <1>1, <2>1, <2>3
    <3> QED
      BY <1>1, <1>2, <1>4, <2>3, <3>1 DEF Sound, Line, Ends
  <2> QED
    BY <2>2, <2>3
<1> QED
  BY <1>3, <1>4

\* The file once a record was written to it: the lines before the last stay, and
\* the last was new or did not end.
LEMMA WrittenIs ==
    ASSUME RecordsTyped, LinesInv, NEW r \in Nat, r = appended + 1, NEW end \in Ends
    PROVE  LET w == Written(r, end) IN
           /\ w \in Seq(Line) /\ Len(w) \in Nat /\ Len(w) >= 1 /\ DOMAIN w = 1..Len(w)
           /\ \A i \in 1..(Len(w) - 1) : i \in DOMAIN records /\ w[i] = records[i]
           /\ \E line \in Line :
                /\ Sound(line, appended) /\ w[Len(w)] = WrittenOn(line, r, end)
                /\ \/ Hanging = 0 /\ line = NewLine /\ Len(w) = Len(records) + 1
                   \/ /\ Hanging = 1 /\ Len(w) = Len(records) /\ Len(records) \in DOMAIN records
                      /\ line = records[Len(records)]
<1>1. /\ records \in Seq(Line) /\ Len(records) \in Nat /\ DOMAIN records = 1..Len(records)
      /\ \A i \in DOMAIN records : records[i] \in Line
  BY Elements DEF RecordsTyped
<1>2. appended \in Nat
  BY Counted
<1>3. NewLine \in Line /\ Sound(NewLine, appended)
  BY DEF NewLine, Line, Sound, Places
<1>4. CASE Hanging = 0
  <2> DEFINE new == WrittenOn(NewLine, r, end)
  <2>1. new \in Line
    BY <1>2, <1>3, LineWritten
  <2> HIDE DEF new
  <2>2. Written(r, end) = Append(records, new)
    <3>1. CASE records = <<>>
      BY <3>1, <2>1 DEF Written, new
    <3>2. CASE records # <<>>
      BY <1>4, <3>2 DEF Hanging, Written, new
    <3> QED
      BY <3>1, <3>2
  <2>3. /\ Append(records, new) \in Seq(Line) /\ Len(Append(records, new)) = Len(records) + 1
        /\ \A i \in 1..Len(records) : Append(records, new)[i] = records[i]
        /\ Append(records, new)[Len(records) + 1] = new
    BY <1>1, <2>1, AppendProperties
  <2>4. DOMAIN Append(records, new) = 1..(Len(records) + 1)
    BY <2>3, Elements
  <2> QED
    BY <1>1, <1>3, <1>4, <2>2, <2>3, <2>4 DEF new
<1>5. CASE Hanging # 0
  <2> DEFINE n == Len(records)  line == records[n]  new == WrittenOn(line, r, end)
  <2>1. records # <<>> /\ Last(records).end # "closed" /\ Hanging = 1
    BY <1>5 DEF Hanging
  <2>2. n >= 1 /\ n \in DOMAIN records
    BY <1>1, <2>1, EmptySeq
  <2>3. line \in Line /\ Sound(line, appended)
    BY <1>1, <2>2 DEF LinesInv
  <2>4. new \in Line
    BY <1>2, <2>3, LineWritten
  <2>5. /\ Front(records) \in Seq(Line) /\ Len(Front(records)) = n - 1
        /\ \A i \in 1..(n - 1) : Front(records)[i] = records[i]
    <3>1. \A i \in 1..(n - 1) : records[i] \in Line
      BY <1>1
    <3>2. \A i \in 1..(n - 1 - 1 + 1) : SubSeq(records, 1, n - 1)[i] = records[1 + i - 1]
      BY <1>1, <3>1, SubSeqProperties
    <3>3. /\ SubSeq(records, 1, n - 1) \in Seq(Line)
          /\ Len(SubSeq(records, 1, n - 1)) = IF 1 <= n - 1 THEN n - 1 - 1 + 1 ELSE 0
      BY <1>1, <3>1, SubSeqProperties
    <3> QED
      BY <1>1, <2>2, <3>1, <3>2, <3>3, SubSeqProperties DEF Front
  <2> HIDE DEF new
  <2>6. Written(r, end) = Append(Front(records), new)
    BY <2>1 DEF Written, Last, new
  <2> DEFINE front == Front(records)  w == Append(front, new)
  <2>7. front \in Seq(Line) /\ Len(front) = n - 1 /\ \A i \in 1..(n - 1) : front[i] = records[i]
    BY <2>5
  <2>8. w = Written(r, end)
    BY <2>6
  <2> HIDE DEF front
  <2>9. /\ w \in Seq(Line) /\ Len(w) = Len(front) + 1
        /\ \A i \in 1..Len(front) : w[i] = front[i]
        /\ w[Len(front) + 1] = new
    BY <2>4, <2>7, AppendProperties
  <2> HIDE DEF w
  <2>10. Len(w) = n /\ w[n] = new /\ \A i \in 1..(n - 1) : w[i] = records[i]
    BY <1>1, <2>7, <2>9
  <2>11. DOMAIN w = 1..n
    BY <2>9, <2>10, Elements
  <2>12. \A i \in 1..(Len(w) - 1) : i \in DOMAIN records /\ w[i] = records[i]
    BY <1>1, <2>10
  <2>13. \E l \in Line :
          /\ Sound(l, appended) /\ w[Len(w)] = WrittenOn(l, r, end)
          /\ Hanging = 1 /\ Len(w) = Len(records) /\ Len(records) \in DOMAIN records
          /\ l = records[Len(records)]
    BY <2>1, <2>2, <2>3, <2>10 DEF new
  <2> QED
    BY <1>1, <2>2, <2>8, <2>9, <2>10, <2>11, <2>12, <2>13
<1> QED
  BY <1>4, <1>5

LEMMA LinesAfter ==
    ASSUME RecordsTyped, LinesInv, NEW r \in Nat, r = appended + 1, NEW end \in Ends,
           records' = Written(r, end), appended' = r
    PROVE  /\ records' \in Seq(Line) /\ LinesInv' /\ Shown \subseteq Shown'
           /\ end = "closed" => Hanging' = 0
           /\ end = "closed" /\ Hanging = 0 => r \in Shown'
<1> DEFINE w == Written(r, end)
<1>1. /\ records \in Seq(Line) /\ Len(records) \in Nat /\ DOMAIN records = 1..Len(records)
      /\ appended \in Nat
  BY Elements, Counted DEF RecordsTyped
<1>2. /\ w \in Seq(Line) /\ Len(w) \in Nat /\ Len(w) >= 1 /\ DOMAIN w = 1..Len(w)
      /\ \A i \in 1..(Len(w) - 1) : i \in DOMAIN records /\ w[i] = records[i]
  BY WrittenIs
<1>3. PICK line \in Line :
        /\ Sound(line, appended) /\ w[Len(w)] = WrittenOn(line, r, end)
        /\ \/ Hanging = 0 /\ line = NewLine /\ Len(w) = Len(records) + 1
           \/ /\ Hanging = 1 /\ Len(w) = Len(records) /\ Len(records) \in DOMAIN records
              /\ line = records[Len(records)]
  BY WrittenIs
<1> DEFINE m == Len(w)  new == WrittenOn(line, r, end)
<1>4. /\ new \in Line /\ Sound(new, r)
      /\ new.shows = line.shows \/ (new.shows = r /\ line.shows = Nothing)
      /\ end = "closed" => new.end = "closed"
      /\ end = "closed" /\ line.end = "id" => new.shows = r
  BY <1>1, <1>3, LineWritten
<1> HIDE DEF w, new
<1>5. w[m] = new /\ m \in DOMAIN w
  <2>1. m \in DOMAIN w
    BY <1>2
  <2>2. w[m] = new
    BY <1>3 DEF new
  <2> QED
    BY <2>1, <2>2
<1>6. NewLine.shows = Nothing /\ NewLine.end = "id" /\ Nothing \notin Nat
  BY StorageAssumption DEF NewLine
<1>7. \A i \in DOMAIN w : i = m \/ i \in 1..(m - 1)
  BY <1>2
<1>8. \A i \in DOMAIN w : Sound(w[i], r)
  <2> TAKE i \in DOMAIN w
  <2>1. CASE i = m
    BY <1>4, <1>5, <2>1
  <2>2. CASE i \in 1..(m - 1)
    <3>1. Sound(records[i], appended) /\ w[i] = records[i]
      BY <1>2, <2>2 DEF LinesInv
    <3>2. 1..appended \subseteq 1..r
      BY <1>1
    <3> QED
      BY <3>1, <3>2 DEF Sound
  <2> QED
    BY <1>7, <2>1, <2>2
<1>9. ASSUME NEW i \in DOMAIN w, NEW j \in DOMAIN w, i < j, w[i].shows # Nothing, w[j].shows # Nothing
      PROVE  w[i].shows < w[j].shows
  <2>1. i \in 1..(m - 1) /\ i \in DOMAIN records /\ w[i] = records[i]
    BY <1>2, <1>7, <1>9
  <2>2. CASE j \in 1..(m - 1)
    BY <1>2, <1>9, <2>1, <2>2 DEF LinesInv
  <2>3. CASE j = m
    <3>1. w[i].shows \in 1..appended
      BY <1>9, <2>1 DEF LinesInv, Sound
    <3>2. CASE new.shows = r
      BY <1>1, <1>5, <2>3, <3>1, <3>2
    <3>3. CASE new.shows = line.shows /\ line.shows # Nothing
      <4>1. line = records[Len(records)] /\ m = Len(records) /\ m \in DOMAIN records
        BY <1>3, <1>6, <3>3
      <4> QED
        BY <1>5, <1>9, <2>1, <2>3, <3>3, <4>1 DEF LinesInv
    <3> QED
      BY <1>4, <1>5, <1>9, <2>3, <3>2, <3>3
  <2> QED
    BY <1>7, <2>2, <2>3
<1>10. records' = w /\ appended' = r
  BY DEF w
<1>11. LinesInv'
  BY <1>8, <1>9, <1>10 DEF LinesInv
<1>12. \A x \in 1..r : (\E i \in DOMAIN w : w[i].shows = x) => x \in Shown'
  BY <1>10 DEF Shown
<1>13. ASSUME NEW x \in Shown PROVE x \in Shown'
  <2>1. x \in 1..appended /\ x \in 1..r /\ x # Nothing
    BY <1>1, <1>6 DEF Shown
  <2>2. PICK i \in DOMAIN records : records[i].shows = x
    BY DEF Shown
  <2>3. CASE i \in 1..(m - 1)
    BY <1>2, <1>12, <2>1, <2>2, <2>3
  <2>4. CASE i \notin 1..(m - 1)
    <3>1. line = records[i] /\ i = m
      BY <1>1, <1>3, <2>4
    <3>2. w[m].shows = x
      BY <1>4, <1>5, <2>1, <2>2, <3>1
    <3> QED
      BY <1>5, <1>12, <2>1, <3>2
  <2> QED
    BY <2>3, <2>4
<1>14. ASSUME end = "closed" PROVE Hanging' = 0
  BY <1>4, <1>5, <1>10, <1>14 DEF Hanging, Last
<1>15. ASSUME end = "closed", Hanging = 0 PROVE r \in Shown'
  <2>1. line = NewLine /\ r \in 1..r
    BY <1>1, <1>3, <1>15
  <2>2. w[m].shows = r
    BY <1>4, <1>5, <1>6, <1>15, <2>1
  <2> QED
    BY <1>5, <1>12, <2>1, <2>2
<1> QED
  BY <1>2, <1>10, <1>11, <1>13, <1>14, <1>15

\* What is lost of the records that are told of, when one more record is told of.
LEMMA LostOneMore ==
    ASSUME RecordsTyped, NEW r, Shown \subseteq Shown'
    PROVE  LET before == Cardinality(told \ Shown) IN
           /\ told' = told => Cardinality((told \ Shown)') \in Nat
                              /\ Cardinality((told \ Shown)') <= before
           /\ told' = told \cup {r} => Cardinality((told \ Shown)') \in Nat
                                       /\ Cardinality((told \ Shown)') <= before + 1
           /\ told' = told \cup {r} /\ r \in Shown' => Cardinality((told \ Shown)') <= before
<1> DEFINE old == told \ Shown  new == (told \ Shown)'
<1>1. IsFiniteSet(old) /\ Cardinality(old) \in Nat
  BY Counted
<1>2. IsFiniteSet(old \cup {r}) /\ Cardinality(old \cup {r}) \in Nat
      /\ Cardinality(old \cup {r}) <= Cardinality(old) + 1
  <2>1. IsFiniteSet(old \cup {r})
        /\ Cardinality(old \cup {r}) = IF r \in old THEN Cardinality(old) ELSE Cardinality(old) + 1
    BY <1>1, FS_AddElement
  <2> QED
    BY <1>1, <2>1
<1>3. ASSUME new \in SUBSET old PROVE Cardinality(new) \in Nat /\ Cardinality(new) <= Cardinality(old)
  <2>1. IsFiniteSet(new) /\ Cardinality(new) <= Cardinality(old)
    BY <1>1, <1>3, FS_Subset
  <2> QED
    BY <2>1, FS_CardinalityType
<1>4. ASSUME new \in SUBSET (old \cup {r})
      PROVE  Cardinality(new) \in Nat /\ Cardinality(new) <= Cardinality(old) + 1
  <2>1. IsFiniteSet(new) /\ Cardinality(new) <= Cardinality(old \cup {r})
    BY <1>2, <1>4, FS_Subset
  <2>2. Cardinality(new) \in Nat
    BY <2>1, FS_CardinalityType
  <2> QED
    BY <1>1, <1>2, <2>1, <2>2
<1>5. /\ told' = told => new \in SUBSET old
      /\ told' = told \cup {r} => new \in SUBSET (old \cup {r})
      /\ told' = told \cup {r} /\ r \in Shown' => new \in SUBSET old
  OBVIOUS
<1> QED
  BY <1>3, <1>4, <1>5

LEMMA RecordTold ==
    ASSUME RecordsTyped, NextRecord
    PROVE  LET r == appended + 1 IN
           /\ appended' = r /\ r \in Nat /\ appended' \in 0..MaxAppends
           /\ told \subseteq 1..r /\ told \cup {r} \subseteq 1..r
<1>1. appended \in Nat /\ appended < MaxAppends /\ MaxAppends \in Nat /\ appended' = appended + 1
  BY Counted, StorageAssumption DEF NextRecord
<1>2. 1..appended \subseteq 1..(appended + 1) /\ appended + 1 \in 1..(appended + 1)
  BY <1>1
<1> QED
  BY <1>1, <1>2 DEF RecordsTyped

LEMMA AppendRecordKeeps == ASSUME RecordsOK, AppendRecord PROVE RecordsOK'
<1> DEFINE r == appended + 1
<1>1. RecordsTyped /\ LinesInv /\ LossInv /\ NextRecord
  BY DEF RecordsOK, AppendRecord
<1>2. /\ appended' = r /\ r \in Nat /\ appended' \in 0..MaxAppends /\ told \cup {r} \subseteq 1..r
  BY <1>1, RecordTold
<1>3. /\ records' = Written(r, "closed") /\ told' = told \cup {r}
      /\ crashes' = crashes /\ dropped' = dropped
  BY <1>2 DEF AppendRecord
<1>4. /\ records' \in Seq(Line) /\ LinesInv' /\ Shown \subseteq Shown' /\ Hanging' = 0
      /\ Hanging = 0 => r \in Shown'
  BY <1>1, <1>2, <1>3, LinesAfter DEF Ends
<1>5. RecordsTyped'
  BY <1>1, <1>2, <1>3, <1>4 DEF RecordsTyped
<1>6. Cardinality((told \ Shown)') \in Nat
      /\ Cardinality((told \ Shown)') <= Cardinality(told \ Shown) + Hanging
  <2>1. Hanging \in {0, 1} /\ Cardinality(told \ Shown) \in Nat
    BY <1>1, Counted
  <2>2. /\ Cardinality((told \ Shown)') \in Nat
        /\ Cardinality((told \ Shown)') <= Cardinality(told \ Shown) + 1
        /\ r \in Shown' => Cardinality((told \ Shown)') <= Cardinality(told \ Shown)
    BY <1>1, <1>3, <1>4, LostOneMore
  <2> QED
    BY <1>4, <2>1, <2>2
<1>7. LossInv'
  BY <1>1, <1>3, <1>4, <1>6, Counted DEF LossInv
<1> QED
  BY <1>4, <1>5, <1>7 DEF RecordsOK

LEMMA LossSum ==
    ASSUME NEW a \in Nat, NEW h \in Nat, NEW c \in Nat, NEW d \in Nat, a + h <= c + 2 * d,
           NEW b \in Nat, NEW k \in {0, 1}
    PROVE  /\ b <= a => b + k <= (c + 1) + 2 * d
           /\ b <= a + 1 => b + k <= c + 2 * (d + 1)
OBVIOUS

\* A record that is not told of, or is at the cost of a write that fails.
LEMMA LostWithinBounds ==
    ASSUME RecordsTyped, LossInv, RecordsTyped', NEW r, Shown \subseteq Shown',
           \/ told' = told /\ crashes' = crashes + 1 /\ dropped' = dropped
           \/ told' = told \cup {r} /\ crashes' = crashes /\ dropped' = dropped + 1
    PROVE  LossInv'
<1> DEFINE a == Cardinality(told \ Shown)  b == Cardinality((told \ Shown)')
<1>1. /\ a \in Nat /\ Hanging \in {0, 1} /\ crashes \in Nat /\ dropped \in Nat
      /\ a + Hanging <= crashes + 2 * dropped
  BY Counted DEF LossInv
<1>2. Hanging' \in {0, 1}
  BY DEF Hanging
<1>3. CASE told' = told /\ crashes' = crashes + 1 /\ dropped' = dropped
  <2>1. b \in Nat /\ b <= a
    BY <1>3, LostOneMore
  <2>2. b + Hanging' <= (crashes + 1) + 2 * dropped
    BY <1>1, <1>2, <2>1, LossSum
  <2> QED
    BY <1>3, <2>2 DEF LossInv
<1>4. CASE told' = told \cup {r} /\ crashes' = crashes /\ dropped' = dropped + 1
  <2>1. b \in Nat /\ b <= a + 1
    BY <1>4, LostOneMore
  <2>2. b + Hanging' <= crashes + 2 * (dropped + 1)
    BY <1>1, <1>2, <2>1, LossSum
  <2> QED
    BY <1>4, <2>2 DEF LossInv
<1> QED
  BY <1>3, <1>4

LEMMA CrashInAppendKeeps == ASSUME RecordsOK, CrashInAppend PROVE RecordsOK'
<1> DEFINE r == appended + 1
<1>1. RecordsTyped /\ LinesInv /\ LossInv /\ NextRecord
  BY DEF RecordsOK, CrashInAppend
<1>2. /\ appended' = r /\ r \in Nat /\ appended' \in 0..MaxAppends /\ told \subseteq 1..r
  BY <1>1, RecordTold
<1>3. told' = told /\ dropped' = dropped /\ crashes' = crashes + 1 /\ crashes < MaxCrashes
  BY DEF CrashInAppend, CountCrash
<1>4. PICK end \in Ends : records' = Written(r, end)
  BY <1>2 DEF CrashInAppend, Ends
<1>5. records' \in Seq(Line) /\ LinesInv' /\ Shown \subseteq Shown'
  BY <1>1, <1>2, <1>4, LinesAfter
<1>6. crashes' \in 0..MaxCrashes
  BY <1>1, <1>3, Counted, StorageAssumption
<1>7. RecordsTyped'
  BY <1>1, <1>2, <1>3, <1>5, <1>6 DEF RecordsTyped
<1>8. LossInv'
  BY <1>1, <1>3, <1>5, <1>7, LostWithinBounds
<1> QED
  BY <1>5, <1>7, <1>8 DEF RecordsOK

LEMMA AppendDroppedKeeps == ASSUME RecordsOK, AppendDropped PROVE RecordsOK'
<1> DEFINE r == appended + 1
<1>1. RecordsTyped /\ LinesInv /\ LossInv /\ NextRecord
  BY DEF RecordsOK, AppendDropped
<1>2. /\ appended' = r /\ r \in Nat /\ appended' \in 0..MaxAppends /\ told \cup {r} \subseteq 1..r
  BY <1>1, RecordTold
<1>3. told' = told \cup {r} /\ crashes' = crashes /\ dropped' = dropped + 1 /\ dropped < MaxDropped
  BY <1>2 DEF AppendDropped, DropWrites
<1>4. PICK end \in Ends : records' \in {records, Written(r, end)}
  BY <1>2 DEF AppendDropped, Ends
<1>5. records' \in Seq(Line) /\ LinesInv' /\ Shown \subseteq Shown'
  <2>1. CASE records' = Written(r, end)
    BY <1>1, <1>2, <2>1, LinesAfter
  <2>2. CASE records' = records
    <3>1. 1..appended \subseteq 1..r
      BY <1>1, Counted
    <3>2. records' \in Seq(Line) /\ LinesInv'
      BY <1>1, <1>2, <2>2, <3>1 DEF RecordsTyped, LinesInv, Sound
    <3>3. Shown \subseteq Shown'
      BY <1>2, <2>2, <3>1 DEF Shown
    <3> QED
      BY <3>2, <3>3
  <2> QED
    BY <1>4, <2>1, <2>2
<1>6. dropped' \in 0..MaxDropped
  BY <1>1, <1>3, Counted, StorageAssumption
<1>7. RecordsTyped'
  BY <1>1, <1>2, <1>3, <1>5, <1>6 DEF RecordsTyped
<1>8. LossInv'
  BY <1>1, <1>3, <1>5, <1>7, LostWithinBounds
<1> QED
  BY <1>5, <1>7, <1>8 DEF RecordsOK

LEMMA DeleteRecordsKeeps == ASSUME RecordsOK, DeleteRecords PROVE RecordsOK'
<1>1. RecordsTyped /\ LinesInv /\ LossInv
      /\ appended' = appended /\ crashes' = crashes /\ dropped' = dropped
  BY DEF RecordsOK, DeleteRecords
<1>2. CASE records' = <<>> /\ told' = {}
  <2>1. <<>> \in Seq(Line)
    OBVIOUS
  <2>2. RecordsTyped'
    BY <1>1, <1>2, <2>1 DEF RecordsTyped
  <2>3. LinesInv'
    BY <1>2 DEF LinesInv
  <2>4. Cardinality((told \ Shown)') = 0 /\ Hanging' = 0
    <3>1. (told \ Shown)' = {}
      BY <1>2
    <3> QED
      BY <1>2, <3>1, FS_EmptySet DEF Hanging
  <2>5. 0 + 0 <= crashes' + 2 * dropped'
    BY <1>1, Counted
  <2>6. LossInv'
    BY <2>4, <2>5 DEF LossInv
  <2> QED
    BY <2>2, <2>3, <2>6 DEF RecordsOK
<1>3. CASE UNCHANGED <<records, told>>
  BY <1>1, <1>3 DEF RecordsOK, RecordsTyped, LinesInv, LossInv, Hanging, Shown
<1> QED
  BY <1>2, <1>3 DEF DeleteRecords

\* The tables are in other files; a stop or a write that fails only adds to what
\* may be lost.
LEMMA RecordsApart ==
    ASSUME RecordsOK, UNCHANGED <<records, appended, told>>,
           crashes' \in 0..MaxCrashes, dropped' \in 0..MaxDropped,
           crashes' >= crashes, dropped' >= dropped
    PROVE  RecordsOK'
<1>1. RecordsTyped /\ LinesInv /\ LossInv
  BY DEF RecordsOK
<1>2. RecordsTyped' /\ LinesInv'
  BY <1>1 DEF RecordsTyped, LinesInv
<1>3. Hanging' = Hanging /\ (told \ Shown)' = told \ Shown
  BY DEF Hanging, Shown
<1>4. /\ Cardinality(told \ Shown) \in Nat /\ Hanging \in Nat /\ crashes \in Nat /\ dropped \in Nat
      /\ crashes' \in Nat /\ dropped' \in Nat
  BY <1>1, Counted
<1>5. Cardinality(told \ Shown) + Hanging <= crashes' + 2 * dropped'
  BY <1>1, <1>4 DEF LossInv
<1>6. LossInv'
  BY <1>3, <1>5 DEF LossInv
<1> QED
  BY <1>2, <1>6 DEF RecordsOK

(***************************************************************************)
(* The invariant, and what follows from it.                                *)
(***************************************************************************)
StorageInv == TablesOK /\ RecordsOK /\ saves \in 0..MaxSaves

LEMMA StorageInvInit == Init => StorageInv
BY TablesInit, RecordsInit, StorageAssumption DEF Init, StorageInv

LEMMA StorageInvNext == StorageInv /\ [Next]_vars => StorageInv'
<1> SUFFICES ASSUME StorageInv, [Next]_vars PROVE StorageInv'
  OBVIOUS
<1>1. /\ TablesOK /\ RecordsOK /\ saves \in 0..MaxSaves /\ MaxSaves \in Nat
      /\ crashes \in 0..MaxCrashes /\ MaxCrashes \in Nat
      /\ dropped \in 0..MaxDropped /\ MaxDropped \in Nat
  BY StorageAssumption DEF StorageInv, RecordsOK, RecordsTyped
<1>2. ASSUME NEW t \in Tables, NEW content \in Contents, Open(t, content) PROVE StorageInv'
  <2>1. UNCHANGED <<records, appended, told, crashes, dropped>> /\ saves' \in 0..MaxSaves
    BY <1>1, <1>2 DEF Open, StartSave
  <2> QED
    BY <1>1, <1>2, <2>1, OpenKeeps, RecordsApart DEF StorageInv
<1>3. CASE Step
  <2>1. UNCHANGED <<records, appended, told, crashes, saves>>
    BY <1>3 DEF Step, WriteLine, WritesDropped, Return
  <2>2. dropped' \in 0..MaxDropped /\ dropped' >= dropped
    BY <1>1, <1>3 DEF Step, WriteLine, WritesDropped, Return, DropWrites
  <2>3. RecordsOK'
    BY <1>1, <2>1, <2>2, RecordsApart
  <2> QED
    BY <1>1, <1>3, <2>1, <2>3, WriteLineKeeps, WritesDroppedKeeps, ReturnKeeps DEF Step, StorageInv
<1>4. CASE AppendRecord \/ AppendDropped \/ DeleteRecords \/ CrashInAppend
  <2>1. UNCHANGED <<file, saving, saved, saves>>
    BY <1>4 DEF AppendRecord, AppendDropped, DeleteRecords, CrashInAppend
  <2>2. RecordsOK'
    BY <1>1, <1>4, AppendRecordKeeps, AppendDroppedKeeps, DeleteRecordsKeeps, CrashInAppendKeeps
  <2>3. dropped' \in 0..MaxDropped
    BY <2>2 DEF RecordsOK, RecordsTyped
  <2>4. dropped' = 0 => dropped = 0
    BY <1>1, <1>4 DEF AppendRecord, AppendDropped, DeleteRecords, CrashInAppend, DropWrites
  <2> QED
    BY <1>1, <2>1, <2>2, <2>3, <2>4, TablesApart DEF StorageInv
<1>5. CASE CrashInSave
  <2>1. UNCHANGED <<records, appended, told, saves, dropped>> /\ crashes' = crashes + 1
        /\ crashes < MaxCrashes
    BY <1>5 DEF CrashInSave, CountCrash
  <2> QED
    BY <1>1, <1>5, <2>1, CrashInSaveKeeps, RecordsApart DEF StorageInv
<1>6. CASE UNCHANGED vars
  BY <1>1, <1>6, TablesApart, RecordsApart DEF vars, StorageInv
<1> QED
  BY <1>2, <1>3, <1>4, <1>5, <1>6 DEF Next

LEMMA StorageInvAlways == Spec => []StorageInv
BY StorageInvInit, StorageInvNext, PTL DEF Spec

\* The files hold lines, and a save and the histories what they may.
THEOREM StorageTypes == Spec => []TypeOK
<1>1. StorageInv => TypeOK
  BY DEF StorageInv, TablesOK, TablesTyped, RecordsOK, RecordsTyped, TypeOK
<1> QED
  BY <1>1, StorageInvAlways, PTL

\* Wherever a save is stopped or its writes fail, the next start reads a prefix of
\* what was being saved and leaves the other table as it was.
THEOREM StoppedSavesLeavePrefixes == Spec => []StopLeavesPrefix
<1>1. StorageInv => StopLeavesPrefix
  <2> SUFFICES ASSUME StorageInv, NEW t \in Tables
               PROVE  IF saving.table = t THEN IsPrefix(Load(t), saving.content)
                      ELSE IF dropped = 0 THEN Load(t) = saved[t]
                      ELSE IsPrefix(Load(t), saved[t])
    BY DEF StopLeavesPrefix
  <2>1. saving.content \in Seq(Entries) /\ saved[t] \in Seq(Entries)
    BY DEF StorageInv, TablesOK, TablesTyped
  <2>2. CASE saving.table = t
    <3>1. StartOf(file[t], saving.content)
      BY <2>2 DEF StorageInv, TablesOK, TablesInv, UnderWay
    <3> QED
      BY <2>1, <2>2, <3>1, StartLoads DEF Load
  <2>3. CASE saving.table # t
    <3>1. AtRest(t)
      BY <2>3 DEF StorageInv, TablesOK, TablesInv
    <3> QED
      BY <2>1, <2>3, <3>1, StartLoads DEF AtRest, Load
  <2> QED
    BY <2>2, <2>3
<1> QED
  BY <1>1, StorageInvAlways, PTL

\* No more records that are told of are lost than one for each stop and two for
\* each write that fails.
THEOREM LossIsBounded == Spec => []RecordLossBounded
<1>1. StorageInv => RecordLossBounded
  <2> SUFFICES ASSUME StorageInv PROVE Cardinality(told \ Shown) <= crashes + 2 * dropped
    BY DEF RecordLossBounded
  <2>1. LossInv /\ Hanging \in {0, 1} /\ Cardinality(told \ Shown) \in Nat
        /\ crashes \in Nat /\ dropped \in Nat
    BY Counted DEF StorageInv, RecordsOK
  <2> QED
    BY <2>1 DEF LossInv
<1> QED
  BY <1>1, StorageInvAlways, PTL

(***************************************************************************)
(* Paging.                                                                 *)
(***************************************************************************)
Newest == Reverse(AllRecords)

LEMMA NewestFirst ==
    ASSUME RecordsOK
    PROVE  /\ Newest \in Seq(Nat) /\ Len(Newest) \in Nat /\ Len(Newest) <= Len(records)
           /\ Len(records) \in Nat /\ DOMAIN Newest = 1..Len(Newest)
           /\ \A i \in 1..Len(Newest) : Newest[i] \in Shown
           /\ \A x \in Shown : \E i \in 1..Len(Newest) : Newest[i] = x
           /\ \A i, j \in 1..Len(Newest) : i < j => Newest[i] > Newest[j]
<1> DEFINE S == 1..appended \cup {Nothing}
           shows == [i \in DOMAIN records |-> records[i].shows]
           all == Without(shows, Nothing)
<1>1. /\ records \in Seq(Line) /\ Len(records) \in Nat /\ DOMAIN records = 1..Len(records)
      /\ appended \in Nat /\ LinesInv /\ Nothing \notin Nat
  BY Elements, Counted, StorageAssumption DEF RecordsOK, RecordsTyped
<1>2. \A i \in 1..Len(records) : records[i].shows \in S
  BY <1>1 DEF LinesInv, Sound
<1>3. /\ shows \in Seq(S) /\ Len(shows) = Len(records) /\ DOMAIN shows = 1..Len(records)
      /\ \A i \in 1..Len(records) : shows[i] = records[i].shows
  <2>1. shows = [i \in 1..Len(records) |-> records[i].shows]
    BY <1>1
  <2> QED
    BY <1>1, <1>2, <2>1, IsASeq
<1>4. all = AllRecords
  BY DEF AllRecords
<1> HIDE DEF shows, S
<1>5. /\ all \in Seq(S) /\ Len(all) <= Len(shows)
      /\ \A k \in DOMAIN all : \E i \in DOMAIN shows : shows[i] # Nothing /\ all[k] = shows[i]
      /\ \A i \in DOMAIN shows : shows[i] # Nothing => \E k \in DOMAIN all : all[k] = shows[i]
      /\ \A k, l \in DOMAIN all : k < l =>
           \E i, j \in DOMAIN shows : /\ i < j /\ shows[i] # Nothing /\ shows[j] # Nothing
                                      /\ all[k] = shows[i] /\ all[l] = shows[j]
  <2>1. shows \in Seq(S)
    BY <1>3
  <2> QED
    BY <2>1, WithoutKeeps
<1> HIDE DEF all
<1> DEFINE n == Len(all)
<1>6. n \in Nat /\ DOMAIN all = 1..n /\ n <= Len(records)
  BY <1>3, <1>5, Elements
<1>7. \A k \in 1..n : all[k] \in Shown
  <2> TAKE k \in 1..n
  <2>1. PICK i \in 1..Len(records) : records[i].shows # Nothing /\ all[k] = records[i].shows
    <3>1. PICK i \in DOMAIN shows : shows[i] # Nothing /\ all[k] = shows[i]
      BY <1>5, <1>6
    <3> QED
      BY <1>3, <3>1
  <2>2. all[k] \in 1..appended
    BY <1>2, <2>1 DEF S
  <2> QED
    BY <1>1, <2>1, <2>2 DEF Shown
<1>8. \A x \in Shown : \E k \in 1..n : all[k] = x
  <2> TAKE x \in Shown
  <2>1. x \in 1..appended /\ x # Nothing
    BY <1>1 DEF Shown
  <2>2. PICK i \in 1..Len(records) : records[i].shows = x
    BY <1>1 DEF Shown
  <2> QED
    BY <1>3, <1>5, <1>6, <2>1, <2>2
<1>9. \A k, l \in 1..n : k < l => all[k] < all[l]
  <2> SUFFICES ASSUME NEW k \in 1..n, NEW l \in 1..n, k < l PROVE all[k] < all[l]
    OBVIOUS
  <2>1. PICK i, j \in 1..Len(records) : /\ i < j /\ shows[i] # Nothing /\ shows[j] # Nothing
                                        /\ all[k] = shows[i] /\ all[l] = shows[j]
    <3>1. k \in DOMAIN all /\ l \in DOMAIN all
      BY <1>6
    <3>2. \E i, j \in DOMAIN shows : /\ i < j /\ shows[i] # Nothing /\ shows[j] # Nothing
                                      /\ all[k] = shows[i] /\ all[l] = shows[j]
      BY <1>5, <3>1
    <3> QED
      BY <1>3, <3>2
  <2> QED
    BY <1>1, <1>3, <2>1 DEF LinesInv
<1>10. \A x \in Shown : x \in Nat
  BY <1>1 DEF Shown
<1>11. Newest = [i \in 1..n |-> all[(n - i) + 1]]
  BY <1>4 DEF Newest, Reverse
<1>12. \A i \in 1..n : (n - i) + 1 \in 1..n
  BY <1>6
<1>13. Newest \in Seq(Nat) /\ Len(Newest) = n /\ \A i \in 1..n : Newest[i] = all[(n - i) + 1]
  BY <1>6, <1>7, <1>10, <1>11, <1>12, IsASeq
<1> HIDE DEF n
<1>14. \A i, j \in 1..n : i < j => Newest[i] > Newest[j]
  <2> SUFFICES ASSUME NEW i \in 1..n, NEW j \in 1..n, i < j PROVE Newest[i] > Newest[j]
    OBVIOUS
  <2>1. (n - j) + 1 < (n - i) + 1
    BY <1>6
  <2>2. all[(n - j) + 1] < all[(n - i) + 1]
    BY <1>9, <1>12, <2>1
  <2> QED
    BY <1>7, <1>10, <1>12, <1>13, <2>2
<1>15. \A x \in Shown : \E i \in 1..n : Newest[i] = x
  <2> TAKE x \in Shown
  <2>1. PICK k \in 1..n : all[k] = x
    BY <1>8
  <2>2. (n - k) + 1 \in 1..n /\ (n - ((n - k) + 1)) + 1 = k
    BY <1>6
  <2> QED
    BY <1>13, <2>1, <2>2
<1> QED
  BY <1>1, <1>6, <1>7, <1>12, <1>13, <1>14, <1>15, Elements

\* A page is the records from its offset on, as many as the limit.
LEMMA PageIs ==
    ASSUME RecordsOK, NEW offset \in Nat, NEW limit \in Nat
    PROVE  LET page == GetRecordRange(offset, limit) IN
           /\ \A i \in DOMAIN page : /\ i \in 1..limit /\ offset + i \in 1..Len(Newest)
                                     /\ page[i] = Newest[offset + i]
           /\ \A i \in 1..limit : offset + i <= Len(Newest) => i \in DOMAIN page
<1> DEFINE n == Len(Newest)
           end == IF offset + limit < n THEN offset + limit ELSE n
           page == SubSeq(Newest, offset + 1, end)
<1>1. n \in Nat /\ \A i \in 1..n : Newest[i] \in Nat
  BY NewestFirst, Elements
<1>2. CASE offset >= n
  <2>1. GetRecordRange(offset, limit) = <<>>
    BY <1>2 DEF GetRecordRange, Newest
  <2> QED
    BY <1>1, <1>2, <2>1
<1>3. CASE ~(offset >= n)
  <2>1. GetRecordRange(offset, limit) = page
    BY <1>3 DEF GetRecordRange, Newest
  <2>2. /\ end \in Nat /\ offset <= end /\ end <= n /\ end <= offset + limit
        /\ end = offset + limit \/ end = n
    BY <1>1, <1>3
  <2> HIDE DEF end
  <2>3. \A i \in (offset + 1)..end : Newest[i] \in Nat
    BY <1>1, <2>2
  <2>4. /\ page \in Seq(Nat)
        /\ Len(page) = IF offset + 1 <= end THEN (end - (offset + 1)) + 1 ELSE 0
    BY <2>2, <2>3, SubSeqProperties
  <2>5. \A i \in 1..((end - (offset + 1)) + 1) : page[i] = Newest[((offset + 1) + i) - 1]
    BY <2>2, <2>3, SubSeqProperties
  <2> HIDE DEF page
  <2>6. Len(page) = end - offset /\ DOMAIN page = 1..(end - offset)
    BY <2>2, <2>4, Elements
  <2>7. \A i \in 1..(end - offset) : page[i] = Newest[offset + i]
    BY <2>2, <2>5
  <2>8. \A i \in 1..(end - offset) : i \in 1..limit /\ offset + i \in 1..n
    BY <1>1, <2>2
  <2>9. \A i \in 1..limit : offset + i <= n => i \in 1..(end - offset)
    BY <1>1, <2>2
  <2> QED
    BY <2>1, <2>6, <2>7, <2>8, <2>9
<1> QED
  BY <1>2, <1>3

LEMMA Division ==
    ASSUME NEW a \in Nat, NEW h \in Nat \ {0}
    PROVE  \E q \in Nat : q * h \in Nat /\ q * h <= a /\ a < q * h + h /\ q <= a
<1>1. a \div h \in Int /\ h * (a \div h) <= a /\ a < h * (a \div h) + h
  BY SMT
<1>2. a \div h >= 0
  BY SMT
<1> DEFINE q == a \div h
<1>3. q \in Nat
  BY <1>1, <1>2
<1> HIDE DEF q
<1>4. q * h = h * q /\ q * h \in Nat /\ q <= q * h
  BY <1>3, SMT
<1> QED
  BY <1>1, <1>3, <1>4 DEF q

\* Paging through a history shows every record that can be read once, newest
\* first, for every page size.
THEOREM PagesShowEverything == Spec => []PagesCoverHistory
<1>1. StorageInv => PagesCoverHistory
  <2> SUFFICES ASSUME StorageInv, NEW limit \in PageSizes
               PROVE  LET page == [n \in 1..(Len(records) + 1) |->
                                     GetRecordRange((n - 1) * limit, limit)]
                      IN /\ UNION {ToSet(page[n]) : n \in DOMAIN page} = Shown
                         /\ \A m, n \in DOMAIN page : \A i \in DOMAIN page[m], j \in DOMAIN page[n] :
                              m < n \/ (m = n /\ i < j) => page[m][i] > page[n][j]
    BY DEF PagesCoverHistory
  <2> DEFINE pages == 1..(Len(records) + 1)
             page(n) == GetRecordRange((n - 1) * limit, limit)
             N == Len(Newest)
  <2>1. RecordsOK /\ limit \in Nat \ {0}
    BY StorageAssumption DEF StorageInv
  <2>2. /\ N \in Nat /\ N <= Len(records) /\ Len(records) \in Nat
        /\ \A i \in 1..N : Newest[i] \in Shown
        /\ \A x \in Shown : \E i \in 1..N : Newest[i] = x
        /\ \A i, j \in 1..N : i < j => Newest[i] > Newest[j]
    BY <2>1, NewestFirst
  <2>3. \A n \in pages : (n - 1) * limit \in Nat
    BY <2>1, <2>2, SMT
  <2>4. \A n \in pages : \A i \in DOMAIN page(n) :
          /\ i \in 1..limit /\ (n - 1) * limit + i \in 1..N
          /\ page(n)[i] = Newest[(n - 1) * limit + i]
    BY <2>1, <2>3, PageIs
  <2>5. \A n \in pages : \A i \in 1..limit : (n - 1) * limit + i <= N => i \in DOMAIN page(n)
    BY <2>1, <2>3, PageIs
  <2> HIDE DEF page
  <2>6. \A n \in pages : ToSet(page(n)) \subseteq Shown
    BY <2>2, <2>4 DEF ToSet
  <2>7. ASSUME NEW x \in Shown PROVE \E n \in pages : x \in ToSet(page(n))
    <3>1. PICK i \in 1..N : Newest[i] = x
      BY <2>2
    <3>2. PICK q \in Nat : q * limit \in Nat /\ q * limit <= i - 1 /\ i - 1 < q * limit + limit
                           /\ q <= i - 1
      <4>1. i - 1 \in Nat
        BY <2>2
      <4> QED
        BY <2>1, <4>1, Division
    <3> DEFINE n == q + 1  k == i - q * limit
    <3>3. n \in pages /\ (n - 1) * limit = q * limit
      <4>1. n \in pages
        BY <2>2, <3>2
      <4>2. n - 1 = q
        BY <3>2
      <4> QED
        BY <4>1, <4>2
    <3>4. k \in 1..limit /\ q * limit + k = i
      BY <2>1, <2>2, <3>2
    <3> HIDE DEF n, k
    <3>5. k \in DOMAIN page(n) /\ page(n)[k] = x
      BY <2>2, <2>4, <2>5, <3>1, <3>3, <3>4
    <3> QED
      BY <3>3, <3>5 DEF ToSet
  <2>8. ASSUME NEW m \in pages, NEW n \in pages, NEW i \in DOMAIN page(m), NEW j \in DOMAIN page(n),
               m < n \/ (m = n /\ i < j)
        PROVE  page(m)[i] > page(n)[j]
    <3> DEFINE a == (m - 1) * limit  b == (n - 1) * limit
    <3>1. a \in Nat /\ b \in Nat /\ i \in 1..limit /\ j \in 1..limit
          /\ a + i \in 1..N /\ b + j \in 1..N
      BY <2>3, <2>4
    <3>2. a + i < b + j
      <4>1. CASE m < n
        <5>1. a + limit = m * limit
          BY <2>1, <2>2, SMT
        <5>2. m * limit <= b
          <6>1. m \in Nat /\ n - 1 \in Nat /\ m <= n - 1 /\ limit \in Nat
            BY <2>1, <2>2, <4>1
          <6> DEFINE p == n - 1
          <6>2. m \in Nat /\ p \in Nat /\ m <= p /\ limit \in Nat
            BY <6>1
          <6> HIDE DEF p
          <6>3. m * limit <= p * limit
            BY <6>2, SMT
          <6> QED
            BY <6>3 DEF p
        <5> HIDE DEF a, b
        <5>3. a + limit <= b
          BY <5>1, <5>2
        <5> QED
          BY <2>1, <3>1, <5>3
      <4>2. CASE m = n /\ i < j
        <5>1. a = b
          BY <4>2
        <5> HIDE DEF a, b
        <5> QED
          BY <3>1, <4>2, <5>1
      <4> QED
        BY <2>8, <4>1, <4>2
    <3>3. page(m)[i] = Newest[a + i] /\ page(n)[j] = Newest[b + j]
      BY <2>4
    <3> HIDE DEF a, b
    <3> QED
      BY <2>2, <3>1, <3>2, <3>3
  <2> DEFINE f == [n \in pages |-> page(n)]
  <2>9. f = [n \in 1..(Len(records) + 1) |-> GetRecordRange((n - 1) * limit, limit)]
    BY DEF page
  <2>10. DOMAIN f = pages /\ \A n \in pages : f[n] = page(n)
    OBVIOUS
  <2> HIDE DEF f, pages
  <2>11. UNION {ToSet(f[n]) : n \in DOMAIN f} = Shown
    <3>1. \A x : x \in UNION {ToSet(f[n]) : n \in DOMAIN f} <=> \E n \in pages : x \in ToSet(page(n))
      BY <2>10
    <3> QED
      BY <2>6, <2>7, <3>1
  <2>12. \A m, n \in DOMAIN f : \A i \in DOMAIN f[m], j \in DOMAIN f[n] :
           m < n \/ (m = n /\ i < j) => f[m][i] > f[n][j]
    BY <2>8, <2>10
  <2> QED
    BY <2>9, <2>11, <2>12
<1> QED
  BY <1>1, StorageInvAlways, PTL
=============================================================================
