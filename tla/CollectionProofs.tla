--------------------------- MODULE CollectionProofs ---------------------------
(* What the operations of a CollectionStore do to its versions: the JSON that *)
(* is saved, those that are on their way, and the cache, in the order in      *)
(* which they were made.  A property of the versions is the set of contents   *)
(* that have it.                                                              *)
EXTENDS CollectionStore, Naturals, SequencesExt, SequenceTheorems, WellFoundedInduction, TLAPS

\* The versions are numbered 0 .. Len(store.writes) + 1.
Version(store, k) ==
    IF k = 0 THEN store.disk
    ELSE IF k \in DOMAIN store.writes THEN store.writes[k].json ELSE store.cache

\* Every version is in S.
Everywhere(store, S) == \A k \in 0 .. Len(store.writes) + 1 : Version(store, k) \in S

\* Every version from a write on that `by` awaits is in S.
Since(store, by, S) ==
    \A i \in DOMAIN store.writes : store.writes[i].by = by =>
        \A k \in i .. Len(store.writes) + 1 : Version(store, k) \in S

\* Nobody in B awaits two writes.
Single(store, B) ==
    \A i, j \in DOMAIN store.writes :
        store.writes[i].by \in B /\ store.writes[i].by = store.writes[j].by => i = j

\* The contents of T whose entry e is one of X.
Having(T, e, X) == {V \in T : V[e] \in X}

\* One of a's writes is older than one of b's.
Precedes(store, a, b) ==
    \E i, j \in DOMAIN store.writes : i < j /\ store.writes[i].by = a /\ store.writes[j].by = b

\* Two contents that differ in entry d at most.
OnlyAt(d, D, V, C) == \A e \in D : e # d => C[e] = V[e]

\* What is said of entry e in the whole collection, from a write on, or in the
\* cache, is still so.
Keeps(T, store, to, e, X) ==
    /\ Everywhere(store, Having(T, e, X)) => Everywhere(to, Having(T, e, X))
    /\ \A b \in Waiting(store) : Since(store, b, Having(T, e, X)) => Since(to, b, Having(T, e, X))
    /\ store.cache[e] \in X => to.cache[e] \in X

\* `by` writes a content that differs from the cache in entry d at most: from
\* the new write on the entry is the new one, and all else is kept.
EntryPut(T, D, store, by, d, C, to) ==
    /\ to.cache = C /\ OnlyAt(d, D, store.cache, C)
    /\ \A X : C[d] \in X => Since(to, by, Having(T, d, X))
    /\ \A X : Everywhere(store, Having(T, d, X)) /\ C[d] \in X => Everywhere(to, Having(T, d, X))
    /\ \A e \in D : \A X : (e = d /\ store.cache[d] \in X => C[d] \in X) => Keeps(T, store, to, e, X)

\* Collections of contents in T whose writes are awaited by members of B.
Collections(T, B) == [cache : T, disk : T, writes : Seq([by : B, json : T])]

----------------------------------------------------------------------------
(* Numbers and sequences                                                   *)

\* A set of numbers that has a member has a least one.
LEMMA LeastExists ==
    ASSUME NEW S \in SUBSET Nat, S # {}
    PROVE  \E i \in S : \A j \in S : i <= j
<1> DEFINE less == OpToRel(<, Nat)
<1>1. \E i \in S : \A j \in S : ~ (<<j, i>> \in less)
  <2>1. IsWellFoundedOn(less, Nat)
    BY NatLessThanWellFounded
  <2> HIDE DEF less
  <2> QED BY <2>1, WFMin
<1>2. PICK i \in S : \A j \in S : ~ (<<j, i>> \in less)
  BY <1>1
<1>3. ASSUME NEW j \in S PROVE i <= j
  <2>1. ~ (<<j, i>> \in less)
    BY <1>2
  <2>2. ~ (j < i)
    BY <2>1 DEF OpToRel
  <2> QED BY <2>2
<1> QED BY <1>3

\* A sequence without its i-th element.
LEMMA RemovedAt ==
    ASSUME NEW R, NEW s \in Seq(R), NEW i \in DOMAIN s
    PROVE  /\ RemoveAt(s, i) \in Seq(R) /\ DOMAIN RemoveAt(s, i) = 1..(Len(s) - 1)
           /\ \A j \in 1..(Len(s) - 1) :
                 RemoveAt(s, i)[j] = IF j < i THEN s[j] ELSE s[j + 1]
<1> DEFINE a == SubSeq(s, 1, i - 1)
           b == SubSeq(s, i + 1, Len(s))
<1>1. i \in 1..Len(s) /\ Len(s) \in Nat
  OBVIOUS
<1>2. a \in Seq(R) /\ Len(a) = i - 1 /\ \A j \in 1..(i - 1) : a[j] = s[j]
  BY <1>1
<1>3. b \in Seq(R) /\ Len(b) = Len(s) - i /\ \A j \in 1..(Len(s) - i) : b[j] = s[i + j]
  BY <1>1
<1> HIDE DEF a, b
<1>4. a \o b \in Seq(R) /\ Len(a \o b) = Len(s) - 1
  BY <1>1, <1>2, <1>3
<1>5. ASSUME NEW j \in 1..(Len(s) - 1)
      PROVE  (a \o b)[j] = IF j < i THEN s[j] ELSE s[j + 1]
  <2>1. (a \o b)[j] = IF j <= Len(a) THEN a[j] ELSE b[j - Len(a)]
    <3>1. a \in Seq(R) /\ b \in Seq(R) /\ j \in 1..(Len(a) + Len(b))
      BY <1>1, <1>2, <1>3
    <3> QED BY <3>1, ConcatProperties
  <2>2. CASE j < i
    BY <1>1, <1>2, <2>1, <2>2
  <2>3. CASE ~(j < i)
    <3>1. j - Len(a) \in 1..(Len(s) - i) /\ i + (j - Len(a)) = j + 1
      BY <1>1, <1>2, <2>3
    <3>2. b[j - Len(a)] = s[j + 1]
      BY <1>3, <3>1
    <3>3. ~(j <= Len(a))
      BY <1>1, <1>2, <2>3
    <3> QED BY <2>1, <2>3, <3>2, <3>3
  <2> QED BY <2>2, <2>3
<1>6. RemoveAt(s, i) = a \o b
  BY DEF RemoveAt, a, b
<1>7. DOMAIN (a \o b) = 1..(Len(s) - 1)
  BY <1>4
<1> QED BY <1>4, <1>5, <1>6, <1>7

----------------------------------------------------------------------------
\* An update puts its content at the end of the versions.
LEMMA UpdateVersions ==
    ASSUME NEW T, NEW B, NEW store \in Collections(T, B), NEW by \in B, NEW content \in T,
           NEW to, to = Update(store, by, content)
    PROVE  /\ to \in Collections(T, B)
           /\ Len(to.writes) = Len(store.writes) + 1
           /\ \A i \in DOMAIN store.writes : to.writes[i] = store.writes[i]
           /\ to.writes[Len(store.writes) + 1].by = by
           /\ \A k \in 0 .. Len(store.writes) : Version(to, k) = Version(store, k)
           /\ \A k \in {Len(store.writes) + 1, Len(store.writes) + 2} : Version(to, k) = content
           /\ to.cache = content /\ to.disk = store.disk
<1> DEFINE w == [by |-> by, json |-> content]
           W == store.writes
<1>1. /\ W \in Seq([by : B, json : T]) /\ store.cache \in T /\ store.disk \in T
      /\ w \in [by : B, json : T] /\ w.by = by /\ w.json = content
  BY DEF Collections
<1>2. to = [cache |-> content, disk |-> store.disk, writes |-> Append(W, w)]
  BY DEF Update
<1> HIDE DEF w
<1>3. /\ Append(W, w) \in Seq([by : B, json : T])
      /\ Len(Append(W, w)) = Len(W) + 1
      /\ Len(W) \in Nat /\ DOMAIN W = 1 .. Len(W)
      /\ DOMAIN Append(W, w) = 1 .. Len(W) + 1
      /\ \A i \in 1 .. Len(W) : Append(W, w)[i] = W[i]
      /\ Append(W, w)[Len(W) + 1] = w
  BY <1>1, AppendProperties
<1>4. to \in Collections(T, B)
  BY <1>1, <1>2, <1>3 DEF Collections
<1>5. /\ to.cache = content /\ to.disk = store.disk /\ to.writes = Append(W, w)
  BY <1>2
<1>6. \A k \in 0 .. Len(W) : Version(to, k) = Version(store, k)
  BY <1>3, <1>5 DEF Version
<1>7. \A k \in {Len(W) + 1, Len(W) + 2} : Version(to, k) = content
  BY <1>1, <1>3, <1>5 DEF Version
<1> QED BY <1>1, <1>3, <1>4, <1>5, <1>6, <1>7

\* What is left of a queue, and what goes.
LEMMA QueueFacts ==
    ASSUME NEW S, NEW W \in Seq(S), W # <<>>
    PROVE  /\ Head(W) \in S /\ Tail(W) \in Seq(S)
           /\ Len(W) \in Nat \ {0} /\ Len(Tail(W)) = Len(W) - 1 /\ Head(W) = W[1]
           /\ DOMAIN W = 1 .. Len(W) /\ DOMAIN Tail(W) = 1 .. Len(W) - 1
           /\ \A i \in 1 .. Len(W) - 1 : Tail(W)[i] = W[i + 1]
<1>1. Len(W) \in Nat /\ DOMAIN W = 1 .. Len(W) /\ Len(W) # 0
  OBVIOUS
<1>2. Head(W) \in S /\ Head(W) = W[1] /\ Tail(W) \in Seq(S)
  OBVIOUS
<1>3. Len(Tail(W)) = Len(W) - 1 /\ \A i \in 1 .. Len(W) - 1 : Tail(W)[i] = W[i + 1]
  OBVIOUS
<1> QED BY <1>1, <1>2, <1>3

\* The first version goes when the oldest write lands ...
LEMMA LandedVersions ==
    ASSUME NEW T, NEW B, NEW store \in Collections(T, B), store.writes # <<>>,
           NEW to, to = Landed(store)
    PROVE  /\ to \in Collections(T, B)
           /\ Len(store.writes) \in Nat \ {0} /\ Len(to.writes) = Len(store.writes) - 1
           /\ Head(store.writes) = store.writes[1] /\ 1 \in DOMAIN store.writes
           /\ Head(store.writes).by \in B
           /\ \A i \in DOMAIN to.writes : i + 1 \in DOMAIN store.writes /\ to.writes[i] = store.writes[i + 1]
           /\ \A k \in 0 .. Len(store.writes) : Version(to, k) = Version(store, k + 1)
           /\ to.cache = store.cache /\ to.disk = Head(store.writes).json
<1> DEFINE W == store.writes
<1>1. W \in Seq([by : B, json : T]) /\ store.cache \in T /\ store.disk \in T
  BY DEF Collections
<1>2. to = [cache |-> store.cache, disk |-> Head(W).json, writes |-> Tail(W)]
  BY DEF Landed
<1>3. /\ Head(W) \in [by : B, json : T] /\ Tail(W) \in Seq([by : B, json : T])
      /\ Len(W) \in Nat \ {0} /\ Len(Tail(W)) = Len(W) - 1 /\ Head(W) = W[1]
      /\ DOMAIN W = 1 .. Len(W) /\ DOMAIN Tail(W) = 1 .. Len(W) - 1
      /\ \A i \in 1 .. Len(W) - 1 : Tail(W)[i] = W[i + 1]
  BY <1>1, QueueFacts
<1>4. to \in Collections(T, B)
  BY <1>1, <1>2, <1>3 DEF Collections
<1>5. to.cache = store.cache /\ to.disk = Head(W).json /\ to.writes = Tail(W)
  BY <1>2
<1>6. \A k \in 0 .. Len(W) : Version(to, k) = Version(store, k + 1)
  BY <1>3, <1>5 DEF Version
<1> QED BY <1>3, <1>4, <1>5, <1>6

\* ... and the second one when it is rejected.
LEMMA RejectedVersions ==
    ASSUME NEW T, NEW B, NEW store \in Collections(T, B), store.writes # <<>>,
           NEW to, to = Rejected(store)
    PROVE  /\ to \in Collections(T, B)
           /\ Len(store.writes) \in Nat \ {0} /\ Len(to.writes) = Len(store.writes) - 1
           /\ Head(store.writes) = store.writes[1] /\ 1 \in DOMAIN store.writes
           /\ Head(store.writes).by \in B
           /\ \A i \in DOMAIN to.writes : i + 1 \in DOMAIN store.writes /\ to.writes[i] = store.writes[i + 1]
           /\ Version(to, 0) = Version(store, 0)
           /\ \A k \in 1 .. Len(store.writes) : Version(to, k) = Version(store, k + 1)
           /\ to.cache = store.cache /\ to.disk = store.disk
<1> DEFINE W == store.writes
<1>1. W \in Seq([by : B, json : T]) /\ store.cache \in T /\ store.disk \in T
  BY DEF Collections
<1>2. to = [cache |-> store.cache, disk |-> store.disk, writes |-> Tail(W)]
  BY DEF Rejected
<1>3. /\ Head(W) \in [by : B, json : T] /\ Tail(W) \in Seq([by : B, json : T])
      /\ Len(W) \in Nat \ {0} /\ Len(Tail(W)) = Len(W) - 1 /\ Head(W) = W[1]
      /\ DOMAIN W = 1 .. Len(W) /\ DOMAIN Tail(W) = 1 .. Len(W) - 1
      /\ \A i \in 1 .. Len(W) - 1 : Tail(W)[i] = W[i + 1]
  BY <1>1, QueueFacts
<1>4. to \in Collections(T, B)
  BY <1>1, <1>2, <1>3 DEF Collections
<1>5. to.cache = store.cache /\ to.disk = store.disk /\ to.writes = Tail(W)
  BY <1>2
<1>6. Version(to, 0) = Version(store, 0) /\ \A k \in 1 .. Len(W) : Version(to, k) = Version(store, k + 1)
  BY <1>3, <1>5 DEF Version
<1> QED BY <1>3, <1>4, <1>5, <1>6

\* After a start there is only what was loaded.
LEMMA LoadedVersions ==
    ASSUME NEW T, NEW B, NEW content \in T, NEW to, to = Loaded(content)
    PROVE  /\ to \in Collections(T, B)
           /\ to.writes = <<>> /\ Len(to.writes) = 0 /\ DOMAIN to.writes = {}
           /\ \A k \in 0 .. 1 : Version(to, k) = content
           /\ to.cache = content /\ to.disk = content
<1>1. to = [cache |-> content, disk |-> content, writes |-> <<>>]
  BY DEF Loaded
<1>2. <<>> \in Seq([by : B, json : T]) /\ Len(<<>>) = 0 /\ DOMAIN <<>> = {}
  BY EmptySeq
<1> QED BY <1>1, <1>2 DEF Collections, Version

----------------------------------------------------------------------------
\* The cache and the saved JSON are versions, and the cache is later than any
\* write; what nobody awaits is later than nothing.
LEMMA VersionFacts ==
    ASSUME NEW T, NEW B, NEW store \in Collections(T, B)
    PROVE  /\ store.cache \in T /\ store.disk \in T /\ Waiting(store) \subseteq B
           /\ \A S : Everywhere(store, S) => store.cache \in S /\ store.disk \in S
           /\ \A S, b : Everywhere(store, S) => Since(store, b, S)
           /\ \A S, b : b \notin Waiting(store) => Since(store, b, S)
           /\ \A S, b : b \in Waiting(store) /\ Since(store, b, S) => store.cache \in S
           /\ \A S, R : S \subseteq R /\ Everywhere(store, S) => Everywhere(store, R)
           /\ \A S, R, b : S \subseteq R /\ Since(store, b, S) => Since(store, b, R)
<1> DEFINE W == store.writes
<1>1. /\ W \in Seq([by : B, json : T]) /\ store.cache \in T /\ store.disk \in T
  BY DEF Collections
<1>2. Len(W) \in Nat /\ DOMAIN W = 1 .. Len(W) /\ \A i \in DOMAIN W : W[i].by \in B
  <2>1. Len(W) \in Nat /\ DOMAIN W = 1 .. Len(W)
    BY <1>1
  <2>2. \A i \in DOMAIN W : W[i] \in [by : B, json : T]
    BY <1>1, <2>1, ElementOfSeq
  <2> QED BY <2>1, <2>2
<1>3. Version(store, 0) = store.disk /\ Version(store, Len(W) + 1) = store.cache
  BY <1>2 DEF Version
<1>4. Waiting(store) \subseteq B
  BY <1>2 DEF Waiting
<1>5. \A S : Everywhere(store, S) => store.cache \in S /\ store.disk \in S
  BY <1>2, <1>3 DEF Everywhere
<1>6. \A S, b : Everywhere(store, S) => Since(store, b, S)
  BY <1>2 DEF Everywhere, Since
<1>7. \A S, b : b \notin Waiting(store) => Since(store, b, S)
  BY <1>2 DEF Since, Waiting
<1>8. \A S, b : b \in Waiting(store) /\ Since(store, b, S) => store.cache \in S
  BY <1>2, <1>3 DEF Since, Waiting
<1>9. /\ \A S, R : S \subseteq R /\ Everywhere(store, S) => Everywhere(store, R)
      /\ \A S, R, b : S \subseteq R /\ Since(store, b, S) => Since(store, b, R)
  BY DEF Everywhere, Since
<1> QED BY <1>1, <1>4, <1>5, <1>6, <1>7, <1>8, <1>9

\* What an update keeps.
LEMMA UpdateFacts ==
    ASSUME NEW T, NEW B, NEW store \in Collections(T, B), NEW by \in B, NEW content \in T,
           NEW to, to = Update(store, by, content)
    PROVE  /\ to \in Collections(T, B) /\ to.cache = content /\ to.disk = store.disk
           /\ Waiting(to) = Waiting(store) \cup {by}
           /\ \A S : Everywhere(store, S) /\ content \in S => Everywhere(to, S)
           /\ \A S, b : /\ Since(store, b, S)
                        /\ b = by => content \in S
                        /\ store.cache \in S => content \in S
                        => Since(to, b, S)
           /\ \A H : Single(store, H) /\ (by \in H => by \notin Waiting(store)) => Single(to, H)
<1> DEFINE W == store.writes
           n == Len(W)
<1>1. /\ to \in Collections(T, B) /\ to.cache = content /\ to.disk = store.disk
      /\ Len(to.writes) = n + 1
      /\ \A i \in DOMAIN W : to.writes[i] = W[i]
      /\ to.writes[n + 1].by = by
      /\ \A k \in 0 .. n : Version(to, k) = Version(store, k)
      /\ \A k \in {n + 1, n + 2} : Version(to, k) = content
  BY UpdateVersions
<1>2. n \in Nat /\ DOMAIN W = 1 .. n /\ DOMAIN to.writes = 1 .. n + 1
  BY <1>1 DEF Collections
<1>3. Waiting(to) = Waiting(store) \cup {by}
  <2>1. DOMAIN to.writes = DOMAIN W \cup {n + 1}
    BY <1>2
  <2> QED BY <1>1, <2>1 DEF Waiting
<1>4. \A k \in 0 .. n + 2 : k \in 0 .. n \/ k \in {n + 1, n + 2}
  BY <1>2
<1>5. \A S : Everywhere(store, S) /\ content \in S => Everywhere(to, S)
  BY <1>1, <1>2, <1>4 DEF Everywhere
<1>6. ASSUME NEW S, NEW b, Since(store, b, S), b = by => content \in S, store.cache \in S => content \in S
      PROVE  Since(to, b, S)
  <2> SUFFICES ASSUME NEW i \in 1 .. n + 1, to.writes[i].by = b, NEW k \in i .. n + 2
               PROVE  Version(to, k) \in S
    BY <1>1, <1>2 DEF Since
  <2>1. CASE i = n + 1
    BY <1>1, <1>2, <1>6, <2>1
  <2>2. CASE i # n + 1
    <3>1. i \in DOMAIN W /\ W[i].by = b
      <4>1. i \in DOMAIN W
        BY <1>2, <2>2
      <4>2. to.writes[i] = W[i]
        BY <1>1, <4>1
      <4> QED BY <4>1, <4>2
    <3>2. \A j \in i .. n + 1 : Version(store, j) \in S
      BY <1>6, <3>1 DEF Since
    <3>3. Version(store, n + 1) = store.cache
      BY <1>2 DEF Version
    <3>4. content \in S
      BY <1>2, <1>6, <3>1, <3>2, <3>3
    <3> QED BY <1>1, <1>2, <3>1, <3>2, <3>4
  <2> QED BY <2>1, <2>2
<1>7. ASSUME NEW H, Single(store, H), by \in H => by \notin Waiting(store)
      PROVE  Single(to, H)
  <2> SUFFICES ASSUME NEW i \in 1 .. n + 1, NEW j \in 1 .. n + 1,
                      to.writes[i].by \in H, to.writes[i].by = to.writes[j].by
               PROVE  i = j
    BY <1>2 DEF Single
  <2>1. by \in H => \A m \in DOMAIN W : W[m].by # by
    BY <1>7 DEF Waiting
  <2>2. CASE i \in 1 .. n /\ j \in 1 .. n
    BY <1>1, <1>2, <1>7, <2>2 DEF Single
  <2>3. CASE i = n + 1 /\ j = n + 1
    BY <2>3
  <2>4. CASE i = n + 1 /\ j \in 1 .. n
    BY <1>1, <1>2, <2>1, <2>4
  <2>5. CASE i \in 1 .. n /\ j = n + 1
    BY <1>1, <1>2, <2>1, <2>5
  <2> QED BY <1>2, <2>2, <2>3, <2>4, <2>5
<1> QED BY <1>1, <1>3, <1>5, <1>6, <1>7

\* What is kept when the oldest write goes, and the versions from the second
\* one on stay.
LEMMA ShiftFacts ==
    ASSUME NEW T, NEW B, NEW store \in Collections(T, B), NEW to \in Collections(T, B),
           Len(store.writes) \in Nat \ {0}, Len(to.writes) = Len(store.writes) - 1,
           Head(store.writes) = store.writes[1],
           \A i \in DOMAIN to.writes : to.writes[i] = store.writes[i + 1],
           \A k \in 1 .. Len(store.writes) : Version(to, k) = Version(store, k + 1)
    PROVE  /\ Waiting(to) \subseteq Waiting(store)
           /\ \A b \in Waiting(store) : b # Head(store.writes).by => b \in Waiting(to)
           /\ \A S, b : Since(store, b, S) => Since(to, b, S)
           /\ \A H : Single(store, H) => Single(to, H)
           /\ \A H : Single(store, H) /\ Head(store.writes).by \in H
                         => Head(store.writes).by \notin Waiting(to)
<1> DEFINE W == store.writes
           V == to.writes
           n == Len(W)
<1>1. n \in Nat \ {0} /\ DOMAIN W = 1 .. n /\ DOMAIN V = 1 .. n - 1
  BY DEF Collections
<1>2. \A i \in 1 .. n - 1 : i + 1 \in DOMAIN W /\ V[i] = W[i + 1]
  BY <1>1
<1>3. Waiting(to) \subseteq Waiting(store)
  BY <1>1, <1>2 DEF Waiting
<1>4. ASSUME NEW b \in Waiting(store), b # W[1].by PROVE b \in Waiting(to)
  <2>1. PICK i \in DOMAIN W : W[i].by = b
    BY DEF Waiting
  <2>2. i - 1 \in 1 .. n - 1 /\ V[i - 1] = W[i]
    BY <1>1, <1>2, <1>4, <2>1
  <2> QED BY <1>1, <2>1, <2>2 DEF Waiting
<1>5. ASSUME NEW S, NEW b, Since(store, b, S) PROVE Since(to, b, S)
  <2> SUFFICES ASSUME NEW i \in 1 .. n - 1, V[i].by = b, NEW k \in i .. n
               PROVE  Version(to, k) \in S
    BY <1>1 DEF Since
  <2>1. i + 1 \in DOMAIN W /\ W[i + 1].by = b
    BY <1>2
  <2>2. \A j \in i + 1 .. n + 1 : Version(store, j) \in S
    BY <1>5, <2>1 DEF Since
  <2> QED BY <1>1, <2>2
<1>6. ASSUME NEW H, Single(store, H) PROVE Single(to, H)
  <2> SUFFICES ASSUME NEW i \in 1 .. n - 1, NEW j \in 1 .. n - 1, V[i].by \in H, V[i].by = V[j].by
               PROVE  i = j
    BY <1>1 DEF Single
  <2>1. i + 1 \in DOMAIN W /\ j + 1 \in DOMAIN W /\ V[i] = W[i + 1] /\ V[j] = W[j + 1]
    BY <1>2
  <2>2. i + 1 = j + 1
    BY <1>6, <2>1 DEF Single
  <2> QED BY <1>1, <2>2
<1>7. ASSUME NEW H, Single(store, H), W[1].by \in H PROVE W[1].by \notin Waiting(to)
  <2>1. ASSUME NEW i \in 1 .. n - 1, V[i].by = W[1].by PROVE FALSE
    <3>1. i + 1 \in DOMAIN W /\ 1 \in DOMAIN W /\ W[i + 1].by = W[1].by
      BY <1>1, <1>2, <2>1
    <3>2. i + 1 = 1
      BY <1>7, <3>1 DEF Single
    <3> QED BY <1>1, <3>2
  <2> QED BY <1>1, <2>1 DEF Waiting
<1> QED BY <1>3, <1>4, <1>5, <1>6, <1>7

\* What is kept when a write lands: from then on all versions are what those
\* from the write on were.
LEMMA LandedFacts ==
    ASSUME NEW T, NEW B, NEW store \in Collections(T, B), store.writes # <<>>,
           NEW to, to = Landed(store)
    PROVE  /\ to \in Collections(T, B) /\ to.cache = store.cache
           /\ Head(store.writes).by \in Waiting(store)
           /\ Waiting(to) \subseteq Waiting(store)
           /\ \A b \in Waiting(store) : b # Head(store.writes).by => b \in Waiting(to)
           /\ \A S : Everywhere(store, S) => Everywhere(to, S)
           /\ \A S : Since(store, Head(store.writes).by, S) => Everywhere(to, S)
           /\ \A S, b : Since(store, b, S) => Since(to, b, S)
           /\ \A H : Single(store, H) => Single(to, H)
           /\ \A H : Single(store, H) /\ Head(store.writes).by \in H
                         => Head(store.writes).by \notin Waiting(to)
<1> DEFINE n == Len(store.writes)
<1>1. /\ to \in Collections(T, B) /\ to.cache = store.cache
      /\ n \in Nat \ {0} /\ Len(to.writes) = n - 1
      /\ Head(store.writes) = store.writes[1] /\ 1 \in DOMAIN store.writes
      /\ \A i \in DOMAIN to.writes : to.writes[i] = store.writes[i + 1]
      /\ \A k \in 0 .. n : Version(to, k) = Version(store, k + 1)
  BY LandedVersions
<1>2. \A k \in 1 .. n : Version(to, k) = Version(store, k + 1)
  BY <1>1
<1>3. Head(store.writes).by \in Waiting(store)
  BY <1>1 DEF Waiting
<1>4. \A S : Everywhere(store, S) => Everywhere(to, S)
  BY <1>1 DEF Everywhere
<1>5. ASSUME NEW S, Since(store, Head(store.writes).by, S) PROVE Everywhere(to, S)
  <2>1. \A k \in 1 .. n + 1 : Version(store, k) \in S
    BY <1>1, <1>5 DEF Since
  <2> QED BY <1>1, <2>1 DEF Everywhere
<1> HIDE DEF n
<1> QED BY <1>1, <1>2, <1>3, <1>4, <1>5, ShiftFacts DEF n

\* The same when it is rejected, but for what the write would have changed.
LEMMA RejectedFacts ==
    ASSUME NEW T, NEW B, NEW store \in Collections(T, B), store.writes # <<>>,
           NEW to, to = Rejected(store)
    PROVE  /\ to \in Collections(T, B) /\ to.cache = store.cache /\ to.disk = store.disk
           /\ Head(store.writes).by \in Waiting(store)
           /\ Waiting(to) \subseteq Waiting(store)
           /\ \A b \in Waiting(store) : b # Head(store.writes).by => b \in Waiting(to)
           /\ \A S : Everywhere(store, S) => Everywhere(to, S)
           /\ \A S, b : Since(store, b, S) => Since(to, b, S)
           /\ \A H : Single(store, H) => Single(to, H)
           /\ \A H : Single(store, H) /\ Head(store.writes).by \in H
                         => Head(store.writes).by \notin Waiting(to)
<1> DEFINE n == Len(store.writes)
<1>1. /\ to \in Collections(T, B) /\ to.cache = store.cache /\ to.disk = store.disk
      /\ n \in Nat \ {0} /\ Len(to.writes) = n - 1
      /\ Head(store.writes) = store.writes[1] /\ 1 \in DOMAIN store.writes
      /\ \A i \in DOMAIN to.writes : to.writes[i] = store.writes[i + 1]
      /\ Version(to, 0) = Version(store, 0)
      /\ \A k \in 1 .. n : Version(to, k) = Version(store, k + 1)
  BY RejectedVersions
<1>2. \A k \in 0 .. n : k = 0 \/ k \in 1 .. n
  BY <1>1
<1>3. Head(store.writes).by \in Waiting(store)
  BY <1>1 DEF Waiting
<1>4. \A S : Everywhere(store, S) => Everywhere(to, S)
  BY <1>1, <1>2 DEF Everywhere
<1> HIDE DEF n
<1> QED BY <1>1, <1>3, <1>4, ShiftFacts DEF n

\* A start leaves what was saved, and nobody waits.
LEMMA LoadedFacts ==
    ASSUME NEW T, NEW B, NEW content \in T, NEW to, to = Loaded(content)
    PROVE  /\ to \in Collections(T, B) /\ to.cache = content /\ to.disk = content
           /\ Waiting(to) = {}
           /\ \A S : content \in S => Everywhere(to, S)
           /\ \A S, b : Since(to, b, S)
           /\ \A H : Single(to, H)
<1>1. /\ to \in Collections(T, B) /\ to.cache = content /\ to.disk = content
      /\ Len(to.writes) = 0 /\ DOMAIN to.writes = {}
      /\ \A k \in 0 .. 1 : Version(to, k) = content
  BY LoadedVersions
<1> QED BY <1>1 DEF Waiting, Everywhere, Since, Single

\* So does a restart: what was not saved is gone.
LEMMA ReloadedFacts ==
    ASSUME NEW T, NEW B, NEW store \in Collections(T, B), NEW to, to = Reloaded(store)
    PROVE  /\ to \in Collections(T, B) /\ to.cache = store.disk /\ to.disk = store.disk
           /\ Waiting(to) = {}
           /\ \A S : Everywhere(store, S) => Everywhere(to, S)
           /\ \A S, b : Since(to, b, S)
           /\ \A H : Single(to, H)
<1>1. store.disk \in T /\ to = Loaded(store.disk)
  BY DEF Collections, Reloaded
<1>2. \A S : Everywhere(store, S) => store.disk \in S
  BY VersionFacts
<1> QED BY <1>1, <1>2, LoadedFacts

----------------------------------------------------------------------------
\* An entry is put.
LEMMA PutFacts ==
    ASSUME NEW D, NEW T, NEW B, NEW store \in Collections(T, B), NEW by \in B, by \notin Waiting(store),
           NEW d \in D, NEW C \in T, OnlyAt(d, D, store.cache, C),
           NEW to, to = Update(store, by, C)
    PROVE  EntryPut(T, D, store, by, d, C, to)
<1>1. /\ to.cache = C
      /\ \A S : Everywhere(store, S) /\ C \in S => Everywhere(to, S)
      /\ \A S, b : Since(store, b, S) /\ (b = by => C \in S) /\ (store.cache \in S => C \in S)
                       => Since(to, b, S)
  BY UpdateFacts
<1>2. store.cache \in T /\ \A S : Everywhere(store, S) => store.cache \in S
  BY VersionFacts
<1>3. ASSUME NEW X, C[d] \in X PROVE C \in Having(T, d, X)
  BY <1>3 DEF Having
<1>4. \A X : Everywhere(store, Having(T, d, X)) /\ C[d] \in X => Everywhere(to, Having(T, d, X))
  BY <1>1, <1>3
<1>5. ASSUME NEW X, C[d] \in X PROVE Since(to, by, Having(T, d, X))
  <2>1. Since(store, by, Having(T, d, X))
    BY VersionFacts
  <2> QED BY <1>1, <1>3, <1>5, <2>1
<1>6. ASSUME NEW e \in D, NEW X, e = d /\ store.cache[d] \in X => C[d] \in X PROVE Keeps(T, store, to, e, X)
  <2> DEFINE S == Having(T, e, X)
  <2>1. (store.cache \in S => C \in S) /\ (store.cache[e] \in X => to.cache[e] \in X)
    BY <1>1, <1>2, <1>6 DEF Having, OnlyAt
  <2> HIDE DEF S
  <2>2. Everywhere(store, S) => Everywhere(to, S)
    BY <1>1, <1>2, <2>1
  <2>3. ASSUME NEW b \in Waiting(store), Since(store, b, S) PROVE Since(to, b, S)
    <3>1. store.cache \in S
      BY <2>3, VersionFacts
    <3> QED BY <1>1, <2>1, <2>3, <3>1
  <2> QED BY <2>1, <2>2, <2>3 DEF Keeps, S
<1> QED BY <1>1, <1>4, <1>5, <1>6 DEF EntryPut

\* When the oldest write lands or is rejected, all that was said stays so.
LEMMA OldestFacts ==
    ASSUME NEW T, NEW B, NEW store \in Collections(T, B), NEW by, Settles(store, by),
           NEW to, to \in {Landed(store), Rejected(store)}
    PROVE  /\ to \in Collections(T, B) /\ by \in Waiting(store) /\ by \in B
           /\ to.cache = store.cache /\ Waiting(to) \subseteq Waiting(store)
           /\ \A b \in Waiting(store) : b # by => b \in Waiting(to)
           /\ \A H : Single(store, H) => Single(to, H)
           /\ \A H : Single(store, H) /\ by \in H => by \notin Waiting(to)
           /\ \A S : to = Landed(store) /\ Since(store, by, S) => Everywhere(to, S)
           /\ \A e, X : Keeps(T, store, to, e, X)
<1>1. store.writes # <<>> /\ by = Head(store.writes).by
  BY DEF Settles
<1>2. Waiting(store) \subseteq B
  BY VersionFacts
<1>3. /\ to \in Collections(T, B) /\ by \in Waiting(store)
      /\ to.cache = store.cache /\ Waiting(to) \subseteq Waiting(store)
      /\ \A b \in Waiting(store) : b # by => b \in Waiting(to)
      /\ \A H : Single(store, H) => Single(to, H)
      /\ \A H : Single(store, H) /\ by \in H => by \notin Waiting(to)
      /\ \A S : Everywhere(store, S) => Everywhere(to, S)
      /\ \A S, b : Since(store, b, S) => Since(to, b, S)
      /\ \A S : to = Landed(store) /\ Since(store, by, S) => Everywhere(to, S)
  <2>1. CASE to = Landed(store)
    BY <1>1, <2>1, LandedFacts
  <2>2. CASE to = Rejected(store) /\ to # Landed(store)
    BY <1>1, <2>2, RejectedFacts
  <2> QED BY <2>1, <2>2
<1>4. \A e, X : Keeps(T, store, to, e, X)
  BY <1>3 DEF Keeps
<1> QED BY <1>2, <1>3, <1>4

\* The handler whose write lands writes again at once.
LEMMA RewrittenFacts ==
    ASSUME NEW D, NEW T, NEW B, NEW store \in Collections(T, B), NEW by, Settles(store, by),
           Single(store, B), NEW d \in D, NEW C \in T, OnlyAt(d, D, store.cache, C),
           NEW to, to = Update(Landed(store), by, C)
    PROVE  EntryPut(T, D, store, by, d, C, to)
<1>1. PICK mid : mid = Landed(store)
  OBVIOUS
<1>2. /\ mid \in Collections(T, B) /\ by \in Waiting(store) /\ by \in B
      /\ mid.cache = store.cache
      /\ \A b \in Waiting(store) : b # by => b \in Waiting(mid)
      /\ by \notin Waiting(mid)
      /\ \A S : Since(store, by, S) => Everywhere(mid, S)
      /\ \A e, X : Keeps(T, store, mid, e, X)
  BY <1>1, OldestFacts
<1>3. EntryPut(T, D, mid, by, d, C, to)
  <2>1. OnlyAt(d, D, mid.cache, C) /\ to = Update(mid, by, C)
    BY <1>1, <1>2
  <2> QED BY <1>2, <2>1, PutFacts
<1>4. ASSUME NEW e \in D, NEW X, e = d /\ store.cache[d] \in X => C[d] \in X PROVE Keeps(T, store, to, e, X)
  <2>1. Keeps(T, store, mid, e, X)
    BY <1>2
  <2>2. Keeps(T, mid, to, e, X)
    BY <1>2, <1>3, <1>4 DEF EntryPut
  <2> DEFINE S == Having(T, e, X)
  <2>3. /\ Everywhere(store, S) => Everywhere(to, S)
        /\ store.cache[e] \in X => to.cache[e] \in X
        /\ Everywhere(mid, S) => Everywhere(to, S)
        /\ \A b \in Waiting(store) : Since(store, b, S) => Since(mid, b, S)
        /\ \A b \in Waiting(mid) : Since(mid, b, S) => Since(to, b, S)
    BY <2>1, <2>2 DEF Keeps
  <2>4. to \in Collections(T, B)
    BY <1>1, <1>2, UpdateFacts
  <2> HIDE DEF S
  <2>5. ASSUME NEW b \in Waiting(store), Since(store, b, S) PROVE Since(to, b, S)
    <3>1. CASE b = by
      <4>1. Everywhere(to, S)
        BY <1>2, <2>3, <2>5, <3>1
      <4> QED BY <2>4, <4>1, VersionFacts
    <3>2. CASE b # by
      BY <1>2, <2>3, <2>5, <3>2
    <3> QED BY <3>1, <3>2
  <2> QED BY <2>3, <2>5 DEF Keeps, S
<1>5. ASSUME NEW X, C[d] \in X, Everywhere(store, Having(T, d, X)) PROVE Everywhere(to, Having(T, d, X))
  <2>1. Everywhere(mid, Having(T, d, X))
    BY <1>2, <1>5 DEF Keeps
  <2> QED BY <1>3, <1>5, <2>1 DEF EntryPut
<1> QED BY <1>2, <1>3, <1>4, <1>5 DEF EntryPut

\* The order of the writes: a new one comes last, and who is first has none
\* before him.
LEMMA OrderFacts ==
    ASSUME NEW T, NEW B, NEW store \in Collections(T, B)
    PROVE  /\ \A by \in B, C \in T : \A a, b :
                 Precedes(store, a, b) => Precedes(Update(store, by, C), a, b)
           /\ \A by \in B, C \in T : \A a \in Waiting(store) : Precedes(Update(store, by, C), a, by)
           /\ \A by : Settles(store, by) /\ Single(store, B) => \A a : ~Precedes(store, a, by)
           /\ \A by, a, b : Settles(store, by) /\ a # by /\ Precedes(store, a, b) => Precedes(Landed(store), a, b)
<1>1. ASSUME NEW by \in B, NEW C \in T
      PROVE  /\ \A a, b : Precedes(store, a, b) => Precedes(Update(store, by, C), a, b)
             /\ \A a \in Waiting(store) : Precedes(Update(store, by, C), a, by)
  <2> DEFINE to == Update(store, by, C)
             n == Len(store.writes)
  <2>1. /\ to \in Collections(T, B) /\ Len(to.writes) = n + 1
        /\ \A i \in DOMAIN store.writes : to.writes[i] = store.writes[i]
        /\ to.writes[n + 1].by = by
    BY <1>1, UpdateVersions
  <2>2. n \in Nat /\ DOMAIN store.writes = 1 .. n /\ DOMAIN to.writes = 1 .. n + 1
    BY <2>1 DEF Collections
  <2> HIDE DEF to, n
  <2>3. \A a, b : Precedes(store, a, b) => Precedes(to, a, b)
    <3> SUFFICES ASSUME NEW a, NEW b, Precedes(store, a, b) PROVE Precedes(to, a, b)
      OBVIOUS
    <3>1. PICK i \in DOMAIN store.writes, j \in DOMAIN store.writes :
             i < j /\ store.writes[i].by = a /\ store.writes[j].by = b
      BY DEF Precedes
    <3> QED BY <2>1, <2>2, <3>1 DEF Precedes
  <2>4. ASSUME NEW a \in Waiting(store) PROVE Precedes(to, a, by)
    <3>1. PICK i \in DOMAIN store.writes : store.writes[i].by = a
      BY DEF Waiting
    <3>2. i < n + 1 /\ i \in DOMAIN to.writes /\ n + 1 \in DOMAIN to.writes
      BY <2>2, <3>1
    <3> QED BY <2>1, <3>1, <3>2 DEF Precedes
  <2> QED BY <2>3, <2>4 DEF to
<1>2. ASSUME NEW by, Settles(store, by)
      PROVE  /\ Single(store, B) => \A a : ~Precedes(store, a, by)
             /\ \A a, b : a # by /\ Precedes(store, a, b) => Precedes(Landed(store), a, b)
  <2> DEFINE to == Landed(store)
             n == Len(store.writes)
  <2>1. store.writes # <<>> /\ by = Head(store.writes).by
    BY <1>2 DEF Settles
  <2>2. to = Landed(store) /\ n = Len(store.writes)
    OBVIOUS
  <2> HIDE DEF to, n
  <2>3. /\ to \in Collections(T, B) /\ n \in Nat \ {0} /\ Len(to.writes) = n - 1
        /\ Head(store.writes) = store.writes[1] /\ 1 \in DOMAIN store.writes
        /\ Head(store.writes).by \in B
        /\ \A i \in DOMAIN to.writes : to.writes[i] = store.writes[i + 1]
    BY <2>1, <2>2, LandedVersions
  <2>4. by \in B /\ DOMAIN store.writes = 1 .. n /\ DOMAIN to.writes = 1 .. n - 1
    BY <2>1, <2>2, <2>3 DEF Collections
  <2>5. ASSUME Single(store, B), NEW a, Precedes(store, a, by) PROVE FALSE
    <3>1. PICK i \in DOMAIN store.writes, j \in DOMAIN store.writes : i < j /\ store.writes[j].by = by
      BY <2>5 DEF Precedes
    <3>2. j = 1
      BY <2>1, <2>3, <2>4, <2>5, <3>1 DEF Single
    <3> QED BY <2>3, <2>4, <3>1, <3>2
  <2>6. ASSUME NEW a, NEW b, a # by, Precedes(store, a, b) PROVE Precedes(to, a, b)
    <3>1. PICK i \in DOMAIN store.writes, j \in DOMAIN store.writes :
             i < j /\ store.writes[i].by = a /\ store.writes[j].by = b
      BY <2>6 DEF Precedes
    <3>2. i # 1
      BY <2>1, <2>3, <2>6, <3>1
    <3> DEFINE p == i - 1
               q == j - 1
    <3>3. p \in DOMAIN to.writes /\ q \in DOMAIN to.writes /\ p < q /\ p + 1 = i /\ q + 1 = j
      <4>1. i \in 1 .. n /\ j \in 1 .. n /\ i < j /\ i # 1 /\ n \in Nat
        BY <2>3, <2>4, <3>1, <3>2
      <4> QED BY <2>4, <4>1
    <3> HIDE DEF p, q
    <3>4. to.writes[p] = store.writes[i] /\ to.writes[q] = store.writes[j]
      BY <2>3, <3>3
    <3> QED BY <3>1, <3>3, <3>4 DEF Precedes
  <2> QED BY <2>5, <2>6 DEF to
<1> QED BY <1>1, <1>2
=============================================================================
