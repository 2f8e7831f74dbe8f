--------------------------- MODULE StorageProofs ----------------------------
(***************************************************************************)
(* Proofs about module Storage, for every mount table, configuration and   *)
(* number of rounds, remounts and restarts.                                *)
(***************************************************************************)
EXTENDS Storage, Recursion, SequenceTheorems, FiniteSetTheorems, TLAPS

(***************************************************************************)
(* Paths.                                                                  *)
(***************************************************************************)
AllPaths == Seq(Components)

LEMMA PrefixElements ==
  ASSUME NEW S, NEW s \in Seq(S), NEW t \in Seq(S)
  PROVE  IsPrefix(s, t) <=> Len(s) <= Len(t) /\ \A i \in 1..Len(s) : s[i] = t[i]
<1>1. /\ Len(s) \in Nat /\ Len(t) \in Nat
      /\ \A i \in 1..Len(s) : s[i] \in S
      /\ \A i \in 1..Len(t) : t[i] \in S
  OBVIOUS
<1>2. SUFFICES ASSUME Len(s) <= Len(t)
               PROVE  SubSeq(s, 1, Len(s)) = SubSeq(t, 1, Len(s)) <=> \A i \in 1..Len(s) : s[i] = t[i]
  BY DEF IsPrefix
<1> DEFINE a == SubSeq(s, 1, Len(s))
           b == SubSeq(t, 1, Len(s))
<1>3. a \in Seq(S) /\ Len(a) = Len(s) /\ \A i \in 1..Len(s) : a[i] = s[i]
  BY <1>1, SubSeqProperties
<1>4. b \in Seq(S) /\ Len(b) = Len(s) /\ \A i \in 1..Len(s) : b[i] = t[i]
  <2>1. \A i \in 1..Len(s) : t[i] \in S
    BY <1>1, <1>2
  <2> QED
    BY <1>1, <2>1, SubSeqProperties
<1> HIDE DEF a, b
<1>5. a = b <=> \A i \in 1..Len(s) : a[i] = b[i]
  BY <1>1, <1>3, <1>4, SeqEqual
<1>6. a = b <=> \A i \in 1..Len(s) : s[i] = t[i]
  BY <1>3, <1>4, <1>5
<1> QED
  BY <1>6 DEF a, b

\* f[n] is the length of the first n components of p.
Lengths(f, p) ==
  /\ f \in [0..Len(p) -> Nat] /\ f[0] = 0
  /\ \A n \in 1..Len(p) : f[n] = f[n - 1] + Length[p[n]] + 1
  /\ PathLen(p) = IF p = <<>> THEN 1 ELSE f[Len(p)]

LEMMA PathLenUnfold == ASSUME NEW p \in AllPaths PROVE \E f : Lengths(f, p)
<1> DEFINE N == Len(p)
           Step(v, n) == v + Length[p[n]] + 1
           step == [n \in 1..N |-> [v \in Nat |-> Step(v, n)]]
           Body(f) == [n \in 0..N |-> IF n = 0 THEN 0 ELSE f[n - 1] + Length[p[n]] + 1]
           c == CHOOSE f : f = Body(f)
<1>1. N \in Nat /\ 0 \in Nat
  BY DEF AllPaths
<1>2. step \in [1..N -> [Nat -> Nat]]
  <2>1. ASSUME NEW v \in Nat, NEW n \in 1..N PROVE Step(v, n) \in Nat
    <3>1. Length[p[n]] \in Nat
      BY LengthAssumption DEF AllPaths
    <3> QED
      BY <3>1
  <2> QED
    BY <2>1
<1>3. PICK g : Iterates(g, N, Nat, 0, step)
  BY <1>1, <1>2, RecursionExists
<1>4. g \in [0..N -> Nat] /\ g[0] = 0 /\ \A n \in 1..N : g[n] = g[n - 1] + Length[p[n]] + 1
  <2>1. g \in [0..N -> Nat] /\ g[0] = 0 /\ \A n \in 1..N : g[n] = step[n][g[n - 1]]
    BY <1>3 DEF Iterates
  <2>2. \A n \in 1..N : n - 1 \in 0..N /\ g[n - 1] \in Nat
    BY <1>1, <2>1
  <2> QED
    BY <2>1, <2>2
<1>5. g = Body(g)
  <2>1. \A n \in 0..N : g[n] = Body(g)[n]
    BY <1>1, <1>4
  <2> QED
    BY <1>4, <2>1
<1>6. c = Body(c)
  BY <1>5
<1>7. c[0] = 0 /\ \A n \in 1..N : c[n] = c[n - 1] + Length[p[n]] + 1
  <2> HIDE DEF c
  <2>1. \A n \in 0..N : c[n] = Body(c)[n]
    BY <1>6
  <2> QED
    BY <1>1, <2>1
<1>8. PathLen(p) = IF p = <<>> THEN 1 ELSE c[N]
  BY DEF PathLen
<1> HIDE DEF c
<1>9. SameSteps(g, c, N)
  BY <1>1, <1>4, <1>7 DEF SameSteps
<1>10. g[N] = c[N]
  BY <1>1, <1>9, RecursionUnique
<1> QED
  BY <1>4, <1>8, <1>10 DEF Lengths

LEMMA PathLenType == ASSUME NEW p \in AllPaths PROVE PathLen(p) \in Nat
<1>1. PICK f : Lengths(f, p)
  BY PathLenUnfold
<1> QED
  BY <1>1 DEF Lengths, AllPaths

\* A path is longer than the mount points above it.
LEMMA AboveIsShorter ==
  ASSUME NEW p \in AllPaths, NEW q \in AllPaths, IsPrefix(p, q), p # q
  PROVE  PathLen(p) < PathLen(q)
<1>1. /\ Len(p) \in Nat /\ Len(q) \in Nat /\ Len(p) <= Len(q)
      /\ \A i \in 1..Len(p) : p[i] = q[i]
  BY PrefixElements DEF AllPaths
<1>2. Len(p) < Len(q)
  <2>1. Len(p) = Len(q) => p = q
    BY <1>1, SeqEqual DEF AllPaths
  <2> QED
    BY <1>1, <2>1
<1>3. PICK f : Lengths(f, p)
  BY PathLenUnfold
<1>4. PICK g : Lengths(g, q)
  BY PathLenUnfold
<1>5. \A n \in 0..Len(p) : f[n] = g[n]
  <2>1. SameSteps(f, g, Len(p))
    BY <1>1, <1>3, <1>4 DEF Lengths, SameSteps
  <2> QED
    BY <1>1, <2>1, RecursionUnique
<1> DEFINE G == {n \in Nat : n > Len(p) /\ n <= Len(q) => g[n] > g[Len(p)] + 1}
<1>6. ASSUME NEW n \in 1..Len(q)
      PROVE  g[n - 1] \in Nat /\ g[n] \in Nat /\ g[n] > g[n - 1] + 1
  <2>1. g[n] = g[n - 1] + Length[q[n]] + 1
    BY <1>4 DEF Lengths
  <2>2. n \in 0..Len(q) /\ n - 1 \in 0..Len(q) /\ Length[q[n]] \in Nat \ {0}
    BY <1>1, LengthAssumption DEF AllPaths
  <2>3. g[n] \in Nat /\ g[n - 1] \in Nat
    BY <1>4, <2>2 DEF Lengths
  <2> QED
    BY <2>1, <2>2, <2>3
<1>7. 0 \in G
  BY <1>1
<1>8. ASSUME NEW n \in 1..Len(q), n - 1 \in G PROVE n \in G
  <2>1. g[Len(p)] \in Nat
    BY <1>1, <1>4 DEF Lengths
  <2>2. CASE n - 1 = Len(p)
    BY <1>1, <1>6, <2>1, <2>2
  <2>3. CASE n - 1 > Len(p)
    <3>1. g[n - 1] > g[Len(p)] + 1
      BY <1>1, <1>8, <2>3
    <3>2. g[n - 1] \in Nat /\ g[n] \in Nat /\ g[n] > g[n - 1] + 1
      BY <1>6
    <3> QED
      BY <2>1, <3>1, <3>2
  <2>4. CASE n - 1 < Len(p)
    BY <1>1, <2>4
  <2> QED
    BY <1>1, <2>2, <2>3, <2>4
<1> HIDE DEF G
<1>9. \A n \in 0..Len(q) : n \in G
  BY <1>1, <1>7, <1>8, InductionUpTo
<1>10. g[Len(q)] > g[Len(p)] + 1
  BY <1>1, <1>2, <1>9 DEF G
<1>11. /\ g[Len(q)] \in Nat /\ g[Len(p)] \in Nat
       /\ PathLen(q) = g[Len(q)]
       /\ PathLen(p) = IF p = <<>> THEN 1 ELSE g[Len(p)]
  <2>1. q # <<>>
    BY <1>1, <1>2
  <2>2. f[Len(p)] = g[Len(p)]
    BY <1>1, <1>5
  <2> QED
    BY <1>1, <1>3, <1>4, <2>1, <2>2 DEF Lengths
<1> QED
  BY <1>10, <1>11
(***************************************************************************)
(* Lookups in the mount table.                                             *)
(***************************************************************************)
HasRoot(entries) == \E i \in DOMAIN entries : entries[i].path = <<>>

LEMMA FilesystemPath ==
  ASSUME NEW e \in Filesystems
  PROVE  e # NoEntry /\ e.path \in AllPaths /\ e.path \in Paths
<1>1. e # NoEntry /\ e.path \in ToSet(Points)
  BY StorageAssumption
<1>2. ToSet(Points) \subseteq AllPaths
  BY StorageAssumption DEF ToSet, AllPaths
<1> QED
  BY <1>1, <1>2 DEF Paths

LEMMA PathsArePaths == Paths \subseteq AllPaths
  BY StorageAssumption DEF Paths, ToSet, AllPaths

\* Of some positions with lengths there is a last longest one.
LEMMA LastLongest ==
  ASSUME NEW N \in Nat, NEW len \in [1..N -> Nat], NEW H \in SUBSET (1..N), H # {}
  PROVE  \E i \in H : \A j \in H : len[i] > len[j] \/ (len[i] = len[j] /\ i >= j)
<1> DEFINE Better(i, j) == len[i] > len[j] \/ (len[i] = len[j] /\ i >= j)
           Best(i, n) == i \in H /\ i <= n /\ \A j \in H : j <= n => Better(i, j)
           G == {n \in Nat : n <= N /\ (\E j \in H : j <= n) => \E i \in H : Best(i, n)}
<1>1. 0 \in G
  OBVIOUS
<1>2. ASSUME NEW n \in 1..N, n - 1 \in G PROVE n \in G
  <2>1. SUFFICES ASSUME NEW k \in H, k <= n PROVE \E i \in H : Best(i, n)
    OBVIOUS
  <2>2. CASE n \notin H
    <3>1. \A j \in H : j <= n <=> j <= n - 1
      BY <2>2
    <3>2. PICK i \in H : Best(i, n - 1)
      BY <1>2, <2>1, <3>1
    <3> QED
      BY <3>1, <3>2
  <2>3. CASE n \in H /\ ~\E j \in H : j <= n - 1
    <3>1. \A j \in H : j <= n => j = n
      BY <2>3
    <3>2. len[n] \in Nat
      BY <2>3
    <3>3. Best(n, n)
      BY <2>3, <3>1, <3>2
    <3> QED
      BY <2>3, <3>3
  <2>4. CASE n \in H /\ \E j \in H : j <= n - 1
    <3>1. PICK i \in H : Best(i, n - 1)
      BY <1>2, <2>4
    <3>2. \A j \in H : len[j] \in Nat /\ j \in Nat
      OBVIOUS
    <3>3. CASE len[n] >= len[i]
      <4>1. ASSUME NEW j \in H, j <= n PROVE Better(n, j)
        <5>1. len[n] \in Nat /\ len[i] \in Nat /\ len[j] \in Nat
          BY <2>4, <3>2
        <5>2. j = n \/ Better(i, j)
          BY <3>1, <4>1
        <5> QED
          BY <3>3, <4>1, <5>1, <5>2
      <4> QED
        BY <2>4, <4>1
    <3>4. CASE ~(len[n] >= len[i])
      <4>1. Better(i, n)
        BY <2>4, <3>2, <3>4
      <4>2. \A j \in H : j <= n => j = n \/ j <= n - 1
        OBVIOUS
      <4>3. i \in H /\ i <= n
        BY <3>1, <3>2
      <4>4. ASSUME NEW j \in H, j <= n PROVE Better(i, j)
        <5>1. j = n \/ j <= n - 1
          BY <4>2, <4>4
        <5> QED
          BY <3>1, <4>1, <5>1
      <4> QED
        BY <4>3, <4>4
    <3> QED
      BY <3>3, <3>4
  <2> QED
    BY <2>2, <2>3, <2>4
<1> HIDE DEF G
<1>3. \A n \in 0..N : n \in G
  BY <1>1, <1>2, InductionUpTo
<1>4. (\A j \in H : j <= N) /\ (\E j \in H : j <= N) /\ N \in 0..N
  <2>1. \A j \in H : j <= N
    OBVIOUS
  <2>2. PICK j \in H : TRUE
    OBVIOUS
  <2> QED
    BY <2>1, <2>2
<1>5. \E i \in H : Best(i, N)
  <2>1. N \in G
    BY <1>3, <1>4
  <2> HIDE DEF Best
  <2> QED
    BY <1>4, <2>1 DEF G
<1>6. PICK i \in H : Best(i, N)
  BY <1>5
<1> QED
  BY <1>4, <1>6

LEMMA HoldersOK ==
  ASSUME NEW entries \in Seq(Filesystems), NEW path \in AllPaths
  PROVE  /\ Holders(entries, path) \in SUBSET (1..Len(entries))
         /\ \A i \in 1..Len(entries) :
              entries[i] \in Filesystems /\ entries[i].path \in AllPaths
         /\ HasRoot(entries) => Holders(entries, path) # {}
<1>1. DOMAIN entries = 1..Len(entries) /\ Len(entries) \in Nat
  OBVIOUS
<1>2. \A i \in 1..Len(entries) : entries[i] \in Filesystems /\ entries[i].path \in AllPaths
  BY FilesystemPath
<1>3. ASSUME NEW i \in DOMAIN entries, entries[i].path = <<>> PROVE i \in Holders(entries, path)
  <2> DEFINE e == <<>>
  <2>1. e \in Seq(Components) /\ path \in Seq(Components) /\ Len(e) = 0 /\ Len(path) \in Nat
    BY DEF AllPaths
  <2>2. entries[i].path = e
    BY <1>3
  <2> HIDE DEF e
  <2>3. IsPrefix(e, path)
    <3>1. Len(e) <= Len(path) /\ \A k \in 1..Len(e) : e[k] = path[k]
      BY <2>1
    <3> QED
      BY <2>1, <3>1, PrefixElements
  <2> QED
    BY <1>3, <2>2, <2>3 DEF Holders, HoldsPath
<1>4. Holders(entries, path) \in SUBSET (1..Len(entries))
  BY <1>1 DEF Holders
<1>5. HasRoot(entries) => Holders(entries, path) # {}
  BY <1>3 DEF HasRoot
<1> QED
  BY <1>2, <1>4, <1>5

\* The kernel finds the last filesystem that holds the path.
LEMMA ServingLast ==
  ASSUME NEW entries \in Seq(Filesystems), NEW path \in AllPaths, HasRoot(entries)
  PROVE  \E i \in Holders(entries, path) :
           Serving(entries, path) = entries[i] /\ \A j \in Holders(entries, path) : j <= i
<1> DEFINE N == Len(entries)
           H == Holders(entries, path)
           len == [i \in 1..N |-> 0]
<1>1. H \in SUBSET (1..N) /\ H # {} /\ N \in Nat
  BY HoldersOK
<1>2. len \in [1..N -> Nat]
  OBVIOUS
<1> HIDE DEF H, N
<1>3. \E i \in H : \A j \in H : len[i] > len[j] \/ (len[i] = len[j] /\ i >= j)
  <2> HIDE DEF len
  <2> QED
    BY <1>1, <1>2, LastLongest
<1>4. PICK i \in H : \A j \in H : i >= j
  BY <1>1, <1>3
<1>5. Max(H) \in H /\ \A j \in H : Max(H) >= j
  BY <1>4 DEF Max
<1>6. Serving(entries, path) = entries[Max(H)]
  BY <1>1 DEF Serving, H
<1> QED
  BY <1>1, <1>5, <1>6 DEF H

\* Find returns the last one of the longest.
LEMMA FindLongest ==
  ASSUME NEW entries \in Seq(Filesystems), NEW path \in AllPaths,
         Holders(entries, path) # {}
  PROVE  \E i \in Holders(entries, path) :
           /\ Find(entries, path) = entries[i]
           /\ \A j \in Holders(entries, path) : AtLeastAsLong(entries, i, j)
<1> DEFINE N == Len(entries)
           H == Holders(entries, path)
           len == [i \in 1..N |-> PathLen(entries[i].path)]
<1>1. H \in SUBSET (1..N) /\ H # {} /\ N \in Nat
  BY HoldersOK
<1>2. len \in [1..N -> Nat]
  BY HoldersOK, PathLenType
<1>3. \E i \in H : \A j \in H : AtLeastAsLong(entries, i, j)
  <2>1. \E i \in H : \A j \in H : len[i] > len[j] \/ (len[i] = len[j] /\ i >= j)
    <3> HIDE DEF len, H, N
    <3> QED
      BY <1>1, <1>2, LastLongest
  <2> HIDE DEF H
  <2> QED
    BY <1>1, <2>1 DEF AtLeastAsLong
<1> DEFINE best == CHOOSE i \in H : \A j \in H : AtLeastAsLong(entries, i, j)
<1>4. best \in H /\ \A j \in H : AtLeastAsLong(entries, best, j)
  <2> HIDE DEF H
  <2> QED
    BY <1>3
<1>5. Find(entries, path) = entries[best]
  BY <1>1 DEF Find
<1> HIDE DEF best
<1> QED
  BY <1>4, <1>5

\* The two agree unless a filesystem that holds the path is hidden by a later one.
LEMMA FindIsServing ==
  ASSUME NEW entries \in Seq(Filesystems), NEW path \in AllPaths, HasRoot(entries)
  PROVE  \/ Find(entries, path) = Serving(entries, path)
         \/ \E i \in Covered(entries) : HoldsPath(entries[i].path, path)
<1>1. Holders(entries, path) # {}
  BY HoldersOK
<1>2. PICK f \in Holders(entries, path) :
        /\ Find(entries, path) = entries[f]
        /\ \A j \in Holders(entries, path) : AtLeastAsLong(entries, f, j)
  BY <1>1, FindLongest
<1>3. PICK s \in Holders(entries, path) :
        Serving(entries, path) = entries[s] /\ \A j \in Holders(entries, path) : j <= s
  BY ServingLast
<1>4. CASE f = s
  BY <1>2, <1>3, <1>4
<1>5. CASE f # s
  <2> DEFINE p == entries[f].path
             q == entries[s].path
  <2>1. f \in 1..Len(entries) /\ s \in 1..Len(entries) /\ f < s
    BY <1>3, <1>5, HoldersOK
  <2>2. p \in AllPaths /\ q \in AllPaths /\ IsPrefix(p, path) /\ IsPrefix(q, path)
    BY <2>1, HoldersOK DEF Holders, HoldsPath
  <2>3. PathLen(p) > PathLen(q)
    <3>1. AtLeastAsLong(entries, f, s)
      BY <1>2
    <3> QED
      BY <2>1, <3>1 DEF AtLeastAsLong
  <2> HIDE DEF p, q
  <2>4. /\ Len(p) \in Nat /\ Len(q) \in Nat /\ Len(p) <= Len(path) /\ Len(q) <= Len(path)
        /\ \A i \in 1..Len(p) : p[i] = path[i]
        /\ \A i \in 1..Len(q) : q[i] = path[i]
    BY <2>2, PrefixElements DEF AllPaths
  <2>5. CASE Len(q) <= Len(p)
    <3>1. \A i \in 1..Len(q) : q[i] = p[i]
      BY <2>4, <2>5
    <3>2. IsPrefix(q, p)
      BY <2>2, <2>5, <3>1, PrefixElements DEF AllPaths
    <3>3. f \in Covered(entries)
      BY <2>1, <3>2 DEF Covered, HoldsPath, p, q
    <3> QED
      BY <2>2, <3>3 DEF HoldsPath, p
  <2>6. CASE Len(p) < Len(q)
    <3>1. \A i \in 1..Len(p) : p[i] = q[i]
      BY <2>4, <2>6
    <3>2. IsPrefix(p, q) /\ p # q
      BY <2>2, <2>4, <2>6, <3>1, PrefixElements DEF AllPaths
    <3>3. PathLen(p) < PathLen(q)
      BY <2>2, <3>2, AboveIsShorter
    <3> QED
      BY <2>2, <2>3, <3>3, PathLenType
  <2> QED
    BY <2>4, <2>5, <2>6
<1> QED
  BY <1>4, <1>5

\* A filesystem with nothing mounted over it is what the kernel finds there.
LEMMA UncoveredServes ==
  ASSUME NEW entries \in Seq(Filesystems), NEW i \in DOMAIN entries, i \notin Covered(entries),
         HasRoot(entries)
  PROVE  Serving(entries, entries[i].path) = entries[i]
<1> DEFINE p == entries[i].path
<1>1. i \in 1..Len(entries) /\ p \in AllPaths
  BY HoldersOK, FilesystemPath
<1>2. PICK s \in Holders(entries, p) :
        Serving(entries, p) = entries[s] /\ \A j \in Holders(entries, p) : j <= s
  BY <1>1, ServingLast
<1>3. i \in Holders(entries, p)
  <2>1. IsPrefix(p, p)
    BY <1>1, PrefixElements DEF AllPaths
  <2> QED
    BY <2>1 DEF Holders, HoldsPath
<1>4. s \in 1..Len(entries) /\ HoldsPath(entries[s].path, p) /\ i <= s
  BY <1>1, <1>2, <1>3, HoldersOK DEF Holders
<1>5. s = i
  BY <1>1, <1>4 DEF Covered
<1> QED
  BY <1>2, <1>5

Devs == {e.dev : e \in Filesystems} \cup {NoDev}

LEMMA DeviceTypes ==
  ASSUME NEW entries \in Seq(Filesystems), NEW path \in AllPaths
  PROVE  /\ HasRoot(entries) => Serving(entries, path).dev \in Devs
         /\ Find(entries, path) \in Filesystems \cup {NoEntry}
<1>1. ASSUME HasRoot(entries) PROVE Serving(entries, path).dev \in Devs
  <2>1. PICK s \in Holders(entries, path) : Serving(entries, path) = entries[s]
    BY <1>1, ServingLast
  <2> QED
    BY <2>1, HoldersOK DEF Devs
<1>2. Find(entries, path) \in Filesystems \cup {NoEntry}
  <2>1. CASE Holders(entries, path) = {}
    BY <2>1 DEF Find
  <2>2. CASE Holders(entries, path) # {}
    <3>1. PICK s \in Holders(entries, path) : Find(entries, path) = entries[s]
      BY <2>2, FindLongest
    <3> QED
      BY <3>1, HoldersOK
  <2> QED
    BY <2>1, <2>2
<1> QED
  BY <1>1, <1>2

(***************************************************************************)
(* What a round has to report.                                             *)
(***************************************************************************)
\* f[n] is the first n sequences in a row.
Flattens(f, seqs, V) ==
  /\ f \in [1..Len(seqs) -> V] /\ f[1] = seqs[1]
  /\ \A n \in 2..Len(seqs) : f[n] = f[n - 1] \o seqs[n]
  /\ FlattenSeq(seqs) = f[Len(seqs)]

LEMMA FlattenUnfold ==
  ASSUME NEW S, NEW seqs \in Seq(Seq(S)), Len(seqs) # 0
  PROVE  \E f : Flattens(f, seqs, Seq(S))
<1> DEFINE V == Seq(S)
           M == Len(seqs)
           N == M - 1
           step == [n \in 1..N |-> [v \in V |-> v \o seqs[n + 1]]]
           Body(f) == [n \in 1..M |-> IF n = 1 THEN seqs[n] ELSE f[n - 1] \o seqs[n]]
           c == CHOOSE f : f = Body(f)
<1>1. M \in Nat \ {0} /\ N \in Nat /\ seqs[1] \in V
  OBVIOUS
<1>2. step \in [1..N -> [V -> V]]
  <2>1. ASSUME NEW v \in V, NEW n \in 1..N PROVE v \o seqs[n + 1] \in V
    <3>1. n + 1 \in 1..M
      BY <1>1
    <3>2. seqs[n + 1] \in V
      BY <3>1
    <3> QED
      BY <3>2, ConcatProperties
  <2> QED
    BY <2>1
<1> HIDE DEF step
<1>3. PICK g : Iterates(g, N, V, seqs[1], step)
  BY <1>1, <1>2, RecursionExists
<1> DEFINE h == [n \in 1..M |-> g[n - 1]]
<1>4. h \in [1..M -> V] /\ h[1] = seqs[1] /\ \A n \in 2..M : h[n] = h[n - 1] \o seqs[n]
  <2>1. g \in [0..N -> V] /\ g[0] = seqs[1] /\ \A n \in 1..N : g[n] = step[n][g[n - 1]]
    BY <1>3 DEF Iterates
  <2>2. h \in [1..M -> V] /\ h[1] = seqs[1]
    BY <1>1, <2>1
  <2>3. ASSUME NEW n \in 2..M PROVE h[n] = h[n - 1] \o seqs[n]
    <3>1. n - 1 \in 1..N /\ n \in 1..M /\ n - 1 \in 1..M /\ (n - 1) - 1 \in 0..N /\ (n - 1) + 1 = n
      BY <1>1
    <3>2. g[(n - 1) - 1] \in V
      BY <2>1, <3>1
    <3>3. step[n - 1][g[(n - 1) - 1]] = g[(n - 1) - 1] \o seqs[(n - 1) + 1]
      BY <3>1, <3>2 DEF step
    <3>4. h[n] = g[n - 1] /\ h[n - 1] = g[(n - 1) - 1]
      BY <3>1
    <3> QED
      BY <2>1, <3>1, <3>3, <3>4
  <2> QED
    BY <2>2, <2>3
<1> HIDE DEF h
<1>5. h = Body(h)
  <2>1. ASSUME NEW n \in 1..M PROVE h[n] = Body(h)[n]
    <3>1. n = 1 \/ n \in 2..M
      BY <1>1
    <3> QED
      BY <1>4, <3>1
  <2> QED
    BY <1>4, <2>1
<1>6. c = Body(c)
  BY <1>5
<1>7. c[1] = seqs[1] /\ \A n \in 2..M : c[n] = c[n - 1] \o seqs[n]
  <2> HIDE DEF c
  <2>1. \A n \in 1..M : c[n] = Body(c)[n]
    BY <1>6
  <2>2. 1 \in 1..M /\ \A n \in 2..M : n \in 1..M /\ n # 1
    BY <1>1
  <2>3. \A n \in 1..M : c[n] = IF n = 1 THEN seqs[n] ELSE c[n - 1] \o seqs[n]
    BY <2>1
  <2> QED
    BY <2>2, <2>3
<1>8. FlattenSeq(seqs) = c[M]
  BY DEF FlattenSeq
<1> HIDE DEF c
<1>9. h[M] = c[M]
  <2> DEFINE hh == [n \in 0..N |-> h[n + 1]]
             cc == [n \in 0..N |-> c[n + 1]]
  <2>1. SameSteps(hh, cc, N)
    <3>1. hh[0] = cc[0]
      BY <1>1, <1>4, <1>7
    <3>2. ASSUME NEW n \in 1..N, hh[n - 1] = cc[n - 1] PROVE hh[n] = cc[n]
      <4>1. n \in 0..N /\ n - 1 \in 0..N /\ (n - 1) + 1 = n /\ n + 1 \in 2..M /\ (n + 1) - 1 = n
        BY <1>1
      <4>2. h[n] = c[n]
        BY <3>2, <4>1
      <4>3. h[n + 1] = h[(n + 1) - 1] \o seqs[n + 1] /\ c[n + 1] = c[(n + 1) - 1] \o seqs[n + 1]
        BY <1>4, <1>7, <4>1
      <4> QED
        BY <4>1, <4>2, <4>3
    <3> QED
      BY <3>1, <3>2 DEF SameSteps
  <2> HIDE DEF hh, cc
  <2>2. \A n \in 0..N : hh[n] = cc[n]
    BY <1>1, <2>1, RecursionUnique
  <2> QED
    <3>1. N \in 0..N /\ N + 1 = M
      BY <1>1
    <3>2. hh[N] = h[N + 1] /\ cc[N] = c[N + 1]
      BY <3>1 DEF hh, cc
    <3> QED
      BY <2>2, <3>1, <3>2
<1> QED
  BY <1>4, <1>8, <1>9 DEF Flattens

LEMMA FlattenHasAll ==
  ASSUME NEW S, NEW seqs \in Seq(Seq(S))
  PROVE  /\ FlattenSeq(seqs) \in Seq(S)
         /\ \A i \in DOMAIN seqs : ToSet(seqs[i]) \subseteq ToSet(FlattenSeq(seqs))
<1> DEFINE V == Seq(S)
           M == Len(seqs)
<1>1. CASE M = 0
  <2>1. FlattenSeq(seqs) = seqs /\ seqs = <<>>
    BY <1>1 DEF FlattenSeq
  <2> QED
    BY <2>1
<1>2. CASE M # 0
  <2>1. PICK f : Flattens(f, seqs, V)
    BY <1>2, FlattenUnfold
  <2>2. /\ f \in [1..M -> V] /\ f[1] = seqs[1] /\ FlattenSeq(seqs) = f[M]
        /\ \A n \in 2..M : f[n] = f[n - 1] \o seqs[n]
    BY <2>1 DEF Flattens
  <2>3. M \in Nat \ {0} /\ M \in 1..M /\ \A n \in 1..M : f[n] \in V /\ seqs[n] \in V
    <3>1. M \in Nat \ {0} /\ M \in 1..M /\ \A n \in 1..M : seqs[n] \in V
      BY <1>2
    <3>2. \A n \in 1..M : f[n] \in V
      BY <2>2
    <3> QED
      BY <3>1, <3>2
  <2> HIDE DEF M
  <2> DEFINE G == {n \in Nat : n \in 1..M => \A i \in 1..n : ToSet(seqs[i]) \subseteq ToSet(f[n])}
  <2>4. 0 \in G
    OBVIOUS
  <2>5. ASSUME NEW n \in 1..M, n - 1 \in G PROVE n \in G
    <3>1. SUFFICES ASSUME NEW i \in 1..n PROVE ToSet(seqs[i]) \subseteq ToSet(f[n])
      BY <2>3
    <3>2. CASE n = 1
      BY <2>2, <3>2
    <3>3. CASE n # 1
      <4>1. n \in 2..M /\ n - 1 \in 1..M /\ (i = n \/ i \in 1..(n - 1))
        BY <2>3, <3>3
      <4> DEFINE a == f[n - 1]
                 b == seqs[n]
      <4>2. a \in Seq(S) /\ b \in Seq(S) /\ f[n] = a \o b
        BY <2>2, <2>3, <4>1
      <4>3. i = n \/ ToSet(seqs[i]) \subseteq ToSet(a)
        BY <2>5, <4>1
      <4> HIDE DEF a, b
      <4>4. ToSet(a) \subseteq ToSet(a \o b) /\ ToSet(b) \subseteq ToSet(a \o b)
        <5>1. /\ a \o b \in Seq(S) /\ Len(a \o b) = Len(a) + Len(b) /\ Len(a) \in Nat /\ Len(b) \in Nat
              /\ \A k \in 1..(Len(a) + Len(b)) :
                   (a \o b)[k] = IF k <= Len(a) THEN a[k] ELSE b[k - Len(a)]
          BY <4>2, ConcatProperties
        <5> DEFINE ab == a \o b
        <5> HIDE DEF ab
        <5>2. DOMAIN a = 1..Len(a) /\ DOMAIN b = 1..Len(b) /\ DOMAIN ab = 1..(Len(a) + Len(b))
          BY <4>2, <5>1 DEF ab
        <5>3. ASSUME NEW k \in DOMAIN a PROVE k \in DOMAIN ab /\ ab[k] = a[k]
          BY <5>1, <5>2 DEF ab
        <5>4. ASSUME NEW k \in DOMAIN b PROVE k + Len(a) \in DOMAIN ab /\ ab[k + Len(a)] = b[k]
          <6>1. k \in Nat /\ k >= 1 /\ k <= Len(b)
            BY <5>2
          <6>2. k + Len(a) \in 1..(Len(a) + Len(b)) /\ ~(k + Len(a) <= Len(a)) /\ (k + Len(a)) - Len(a) = k
            BY <5>1, <6>1
          <6> QED
            BY <5>1, <5>2, <6>2 DEF ab
        <5>5. ToSet(a) \subseteq ToSet(ab)
          BY <5>3 DEF ToSet
        <5>6. ToSet(b) \subseteq ToSet(ab)
          BY <5>4 DEF ToSet
        <5> QED
          BY <5>5, <5>6 DEF ab
      <4> QED
        BY <4>2, <4>3, <4>4 DEF b
    <3> QED
      BY <3>2, <3>3
  <2> HIDE DEF G
  <2>6. \A n \in 0..M : n \in G
    BY <2>3, <2>4, <2>5, InductionUpTo
  <2>7. M \in G /\ DOMAIN seqs = 1..M
    BY <2>3, <2>6 DEF M
  <2> QED
    BY <2>2, <2>3, <2>7 DEF G
<1> QED
  BY <1>1, <1>2

Unstatted == {"", "mount table unreadable", "no mounts match"}
Items == [path : Paths, pattern : Paths \cup {NoPattern}, error : Unstatted]

LEMMA ItemOK ==
  ASSUME NEW p \in Paths, NEW pat \in Paths \cup {NoPattern}, NEW err \in Unstatted
  PROVE  Item(p, pat, err) \in Items /\ Item(p, pat, err).path = p
  BY DEF Item, Items

\* What is to be reported by its own name.
ByName(i) == ~HasWildcard(Config[i]) \/ Match(table.entries, Config[i]) = {}

LEMMA ExpandOK ==
  ASSUME NEW i \in DOMAIN Config
  PROVE  /\ Expand(Config[i]) \in Seq(Items)
         /\ ByName(i) => \E e \in ToSet(Expand(Config[i])) : e.path = Config[i]
<1> DEFINE c == Config[i]
           matching == Match(table.entries, c)
           P == {k \in DOMAIN Points : Points[k] \in matching}
           matches == Selected(Points, P)
           several == [j \in DOMAIN matches |-> Item(matches[j], c, "")]
<1>1. c \in Paths
  BY StorageAssumption DEF Paths, ToSet
<1>2. Points \in Seq(ToSet(Points)) /\ ToSet(Points) \subseteq Paths
  BY StorageAssumption DEF ToSet, Paths
<1> HIDE DEF P
<1>3. matches \in Seq(ToSet(Points))
  BY <1>2, SelectedType
<1> HIDE DEF matches, matching, c
<1>4. several \in Seq(Items)
  <2>1. DOMAIN matches = 1..Len(matches) /\ Len(matches) \in Nat
    BY <1>3
  <2>2. ASSUME NEW j \in DOMAIN matches PROVE Item(matches[j], c, "") \in Items
    <3>1. matches[j] \in Paths
      BY <1>2, <1>3
    <3> QED
      BY <1>1, <3>1, ItemOK DEF Unstatted
  <2>3. several \in [1..Len(matches) -> Items]
    BY <2>1, <2>2
  <2> QED
    BY <2>1, <2>3, SeqDef
<1> DEFINE one == Item(c, NoPattern, "")
           bad == Item(c, c, "mount table unreadable")
           none == Item(c, c, "no mounts match")
<1>5. /\ one \in Items /\ bad \in Items /\ none \in Items
      /\ one.path = c /\ bad.path = c /\ none.path = c
  BY <1>1, ItemOK DEF Unstatted
<1>6. Expand(c) = IF ~HasWildcard(c) THEN <<one>> ELSE IF ~table.ok THEN <<bad>>
                  ELSE IF matching = {} THEN <<none>> ELSE several
  BY DEF Expand, matches, matching, P
<1> HIDE DEF several, one, bad, none
<1>7. Expand(c) \in Seq(Items)
  <2>1. <<one>> \in Seq(Items) /\ <<bad>> \in Seq(Items) /\ <<none>> \in Seq(Items)
    BY <1>5
  <2> QED
    BY <1>4, <1>6, <2>1
<1>8. ~HasWildcard(c) \/ matching = {} => Expand(c) \in {<<one>>, <<bad>>, <<none>>}
  BY <1>6
<1>9. \A e : ToSet(<<e>>) = {e}
  BY DEF ToSet
<1> QED
  BY <1>5, <1>7, <1>8, <1>9 DEF ByName, c, matching

(***************************************************************************)
(* The inductive invariants.                                               *)
(***************************************************************************)
PCs == {"select", "server", "hung", "mounts", "wait", "done"}
Busy == pc \in {"server", "hung", "mounts", "wait"}

\* The table is what is mounted as long as nothing has changed since it was read.
WorldOK ==
  /\ pc \in PCs /\ round \in Nat /\ restarts \in Nat /\ changed \in BOOLEAN
  /\ mounted \in Seq(Filesystems) /\ HasRoot(mounted)
  /\ table \in [ok : BOOLEAN, entries : Seq(Filesystems)]
  /\ table.ok => HasRoot(table.entries)
  /\ ~table.ok => table.entries = <<>>
  /\ Busy /\ table.ok /\ ~changed => table.entries = mounted
  /\ ~Busy => table = NoTable /\ event = <<>> /\ read = <<>>

TodoOK ==
  /\ pc \in {"mounts", "wait"} => todo \in Seq(Items)
  /\ pc = "wait" => todo # <<>>

Ids == Nat \ {0}
Call ==
  [id : Ids, path : Paths, at : Nat, st : {"running", "ok", "err"}, of : Devs]

Unique(cs) == \A k, l \in cs : k.id = l.id => k = l

\* Some call has the number id and is for p.
Called(id, p, cs) == \E k \in cs : k.id = id /\ k.path = p

\* The call that is being waited for.
Awaited(k) ==
  /\ k.id = cur /\ k.path = Path /\ k.at = round
  /\ table.ok /\ ~changed => k.of = Serving(table.entries, Path).dev

\* The goroutines that nobody waits for any more, not even in a later round.
Orphans(p) == {k \in Outstanding(p) : ~Wanted(k)}

StatOK ==
  /\ pending \in [Paths -> Ids \cup {NoCall}] /\ cur \in Ids \cup {NoCall}
  /\ IsFiniteSet(calls) /\ calls \subseteq Call /\ Unique(calls)
  /\ \A p \in Paths : pending[p] # NoCall => Called(pending[p], p, calls)
  /\ pc # "wait" => cur = NoCall
  /\ pc = "wait" => pending[Path] = NoCall /\ \E k \in calls : Awaited(k)
  /\ \A p \in Paths : Cardinality(Orphans(p)) <= restarts

\* Until a restart mountFailing is what failed last and what the log says.
LogOK ==
  /\ opened \in [Paths -> Int]
  /\ restarts = 0 => mountFailing = down
  /\ restarts = 0 => \A p \in Paths : opened[p] = IF p \in mountFailing THEN 1 ELSE 0

Errors == Unstatted \cup {"timeout", "error"}
Reported == [item : Items, error : Errors, at : Nat, dev : Devs, of : Devs]

\* What is to be reported is in the event or still to do, and nothing is there twice.
ListedOnce == \A j, k \in DOMAIN event : event[j].item.path = event[k].item.path => j = k
ListedOrToDo ==
  pc \in {"mounts", "wait"} =>
    \A i \in DOMAIN Config : ByName(i) =>
      \/ \E j \in DOMAIN event : event[j].item.path = Config[i]
      \/ \E j \in DOMAIN todo : todo[j].path = Config[i]

EventOK == event \in Seq(Reported) /\ ListedOnce /\ ListedOrToDo /\ SizeTrue

Hidden == changed \/ Covered(table.entries) \cap Disks(table.entries) # {}

\* The local filesystems still to read are of different devices, none of which was read.
LocalToDo ==
  pc \in {"server", "hung"} =>
    /\ todo \in Seq(Filesystems)
    /\ \A j \in DOMAIN todo : \E i \in Disks(table.entries) : todo[j] = table.entries[i]
    /\ \A j, k \in DOMAIN todo : todo[j].dev = todo[k].dev => j = k
    /\ Hidden \/ \A j \in DOMAIN todo, k \in DOMAIN read : todo[j].dev # read[k]

ReadOK == read \in Seq(Devs) /\ LocalToDo /\ CountedOnce

(***************************************************************************)
(* WorldOK is preserved.                                                   *)
(***************************************************************************)
LEMMA RemoveAtKeeps ==
  ASSUME NEW S, NEW s \in Seq(S), NEW i \in DOMAIN s
  PROVE  /\ RemoveAt(s, i) \in Seq(S)
         /\ \A j \in DOMAIN s : j # i => \E k \in DOMAIN RemoveAt(s, i) : RemoveAt(s, i)[k] = s[j]
<1> DEFINE a == SubSeq(s, 1, i - 1)
           b == SubSeq(s, i + 1, Len(s))
           n == Len(s)
<1>1. n \in Nat /\ i \in 1..n /\ DOMAIN s = 1..n /\ \A j \in 1..n : s[j] \in S
  OBVIOUS
<1>2. /\ 1 \in Int /\ i - 1 \in Int /\ i + 1 \in Int /\ n \in Int
      /\ (\A j \in 1..(i - 1) : s[j] \in S) /\ (\A j \in (i + 1)..n : s[j] \in S)
      /\ (IF 1 <= i - 1 THEN (i - 1) - 1 + 1 ELSE 0) = i - 1
      /\ (IF i + 1 <= n THEN n - (i + 1) + 1 ELSE 0) = n - i
  BY <1>1
<1>3. a \in Seq(S) /\ Len(a) = i - 1 /\ \A j \in 1..((i - 1) - 1 + 1) : a[j] = s[1 + j - 1]
  BY ONLY <1>2, SubSeqProperties
<1>4. b \in Seq(S) /\ Len(b) = n - i /\ \A j \in 1..(n - (i + 1) + 1) : b[j] = s[(i + 1) + j - 1]
  BY ONLY <1>2, SubSeqProperties
<1> DEFINE r == a \o b
<1>5. RemoveAt(s, i) = r
  BY DEF RemoveAt
<1> HIDE DEF a, b, n
<1>6. /\ r \in Seq(S) /\ Len(r) = Len(a) + Len(b)
      /\ \A j \in 1..(Len(a) + Len(b)) : r[j] = IF j <= Len(a) THEN a[j] ELSE b[j - Len(a)]
  BY <1>3, <1>4, ConcatProperties
<1> HIDE DEF r
<1>7. DOMAIN r = 1..(n - 1)
  BY <1>1, <1>3, <1>4, <1>6
<1>8. ASSUME NEW j \in 1..n, j # i PROVE \E k \in DOMAIN r : r[k] = s[j]
  <2>1. CASE j < i
    <3>1. j \in 1..(n - 1) /\ j <= Len(a) /\ j \in 1..(Len(a) + Len(b)) /\ j \in 1..((i - 1) - 1 + 1) /\ 1 + j - 1 = j
      <4>1. n \in Nat /\ i \in 1..n /\ j \in 1..n /\ j < i /\ Len(a) = i - 1 /\ Len(b) = n - i
        BY <1>1, <1>3, <1>4, <1>8, <2>1
      <4> QED
        BY ONLY <4>1
    <3>2. r[j] = s[j]
      BY <1>3, <1>6, <3>1
    <3> QED
      BY <1>7, <3>1, <3>2
  <2>2. CASE j > i
    <3> DEFINE k == j - 1
               m == j - i
    <3>1. /\ k \in 1..(n - 1) /\ ~(k <= Len(a)) /\ k \in 1..(Len(a) + Len(b)) /\ k - Len(a) = m
          /\ m \in 1..(n - (i + 1) + 1) /\ (i + 1) + m - 1 = j
      <4>1. /\ n \in Nat /\ i \in 1..n /\ j \in 1..n /\ j > i
            /\ Len(a) = i - 1 /\ Len(b) = n - i
        BY <1>1, <1>3, <1>4, <1>8, <2>2
      <4>2. i \in Int /\ j \in Int /\ n \in Int /\ 1 <= i /\ i < j /\ j <= n
        BY <4>1
      <4>3. k \in 1..(n - 1) /\ ~(k <= i - 1) /\ k \in 1..((i - 1) + (n - i)) /\ k - (i - 1) = m
        BY <4>2
      <4>4. m \in 1..(n - (i + 1) + 1) /\ (i + 1) + m - 1 = j
        BY <4>2
      <4> QED
        BY <4>1, <4>3, <4>4
    <3> HIDE DEF k, m
    <3>2. r[k] = s[j]
      BY <1>4, <1>6, <3>1
    <3> QED
      BY <1>7, <3>1, <3>2
  <2> QED
    BY <1>1, <1>8, <2>1, <2>2
<1> QED
  BY <1>1, <1>5, <1>6, <1>8

LEMMA RootStays ==
  ASSUME NEW es \in Seq(Filesystems), HasRoot(es)
  PROVE  /\ \A e \in Filesystems : Append(es, e) \in Seq(Filesystems) /\ HasRoot(Append(es, e))
         /\ \A i \in DOMAIN es : es[i].path # <<>> =>
              RemoveAt(es, i) \in Seq(Filesystems) /\ HasRoot(RemoveAt(es, i))
<1>1. PICK r \in DOMAIN es : es[r].path = <<>>
  BY DEF HasRoot
<1>2. ASSUME NEW e \in Filesystems PROVE Append(es, e) \in Seq(Filesystems) /\ HasRoot(Append(es, e))
  <2> DEFINE t == Append(es, e)
  <2>1. t \in Seq(Filesystems) /\ r \in DOMAIN t /\ t[r] = es[r]
    OBVIOUS
  <2> QED
    BY <1>1, <2>1 DEF HasRoot
<1>3. ASSUME NEW i \in DOMAIN es, es[i].path # <<>>
      PROVE  RemoveAt(es, i) \in Seq(Filesystems) /\ HasRoot(RemoveAt(es, i))
  <2>1. r # i
    BY <1>1, <1>3
  <2>2. RemoveAt(es, i) \in Seq(Filesystems)
    BY RemoveAtKeeps
  <2>3. PICK k \in DOMAIN RemoveAt(es, i) : RemoveAt(es, i)[k] = es[r]
    BY <2>1, RemoveAtKeeps
  <2> QED
    BY <1>1, <2>2, <2>3 DEF HasRoot
<1> QED
  BY <1>2, <1>3

LEMMA InitWorld == Init => WorldOK
<1> SUFFICES ASSUME Init PROVE WorldOK
  OBVIOUS
<1>1. mounted \in Seq(Filesystems) /\ HasRoot(mounted)
  BY StorageAssumption DEF Init, HasRoot
<1>2. /\ pc = "select" /\ round = 0 /\ restarts = 0 /\ changed = FALSE /\ table = NoTable
      /\ event = <<>> /\ read = <<>>
  BY DEF Init
<1>3. NoTable \in [ok : BOOLEAN, entries : Seq(Filesystems)] /\ ~NoTable.ok /\ NoTable.entries = <<>>
  BY DEF NoTable
<1> QED
  BY <1>1, <1>2, <1>3 DEF WorldOK, PCs, Busy

\* A step that does not read a new table or remount.
LEMMA WorldSame ==
  ASSUME WorldOK, UNCHANGED <<mounted, changed, round, table>>, pc' \in PCs,
         restarts' \in Nat, Busy, Busy'
  PROVE  WorldOK'
  BY DEF WorldOK

LEMMA NextWorld == ASSUME WorldOK, [Next]_vars PROVE WorldOK'
<1>1. CASE UNCHANGED vars \/ Stopped
  <2>1. UNCHANGED <<mounted, changed, round, table, pc, restarts, event, read>>
    BY <1>1 DEF vars, env, work, Stopped
  <2> QED
    BY <2>1 DEF WorldOK, Busy
<1>2. ASSUME NEW e \in Mountable, Mount(e) PROVE WorldOK'
  <2>1. /\ mounted' \in Seq(Filesystems) /\ HasRoot(mounted')
    <3>1. e \in Filesystems
      BY DEF Filesystems
    <3> QED
      BY <1>2, <3>1, RootStays DEF WorldOK, Mount
  <2>2. UNCHANGED <<pc, round, table, restarts, event, read>> /\ changed' = ~At("select")
    BY <1>2 DEF Mount, Remount, work
  <2> QED
    BY <2>1, <2>2 DEF WorldOK, At, Busy, HasRoot
<1>3. ASSUME NEW i \in DOMAIN mounted, Unmount(i) PROVE WorldOK'
  <2>1. /\ mounted' \in Seq(Filesystems) /\ HasRoot(mounted')
    BY <1>3, RootStays DEF WorldOK, Unmount
  <2>2. UNCHANGED <<pc, round, table, restarts, event, read>> /\ changed' = ~At("select")
    BY <1>3 DEF Unmount, Remount, work
  <2> QED
    BY <2>1, <2>2 DEF WorldOK, At, Busy, HasRoot
<1>4. ASSUME NEW k \in calls, CallReturns(k) PROVE WorldOK'
  <2>1. UNCHANGED <<mounted, changed, round, table, pc, restarts, event, read>>
    BY <1>4 DEF CallReturns, env, work
  <2> QED
    BY <2>1 DEF WorldOK, Busy
<1>5. CASE BeginRound
  <2>1. /\ round' = round + 1 /\ UNCHANGED <<mounted, restarts>> /\ changed' = FALSE /\ pc' = "server"
        /\ table' \in {[ok |-> TRUE, entries |-> mounted], NoTable}
    BY <1>5 DEF BeginRound, Goto
  <2>4. round' \in Nat
    BY <2>1 DEF WorldOK
  <2>2. ASSUME table' = NoTable PROVE WorldOK'
    <3>1. table' \in [ok : BOOLEAN, entries : Seq(Filesystems)] /\ ~table'.ok /\ table'.entries = <<>>
      BY <2>2 DEF NoTable
    <3> QED
      BY <2>1, <2>4, <3>1 DEF WorldOK, PCs, Busy, HasRoot
  <2>3. ASSUME table' = [ok |-> TRUE, entries |-> mounted] PROVE WorldOK'
    <3>1. table' \in [ok : BOOLEAN, entries : Seq(Filesystems)] /\ table'.ok /\ table'.entries = mounted
      BY <2>3 DEF WorldOK
    <3> QED
      BY <2>1, <2>4, <3>1 DEF WorldOK, PCs, Busy, HasRoot
  <2> QED
    BY <2>1, <2>2, <2>3
<1>6. CASE Return
  <2>1. At("select") /\ pc' = "done" /\ UNCHANGED <<mounted, changed, round, table, restarts, event, read>>
    BY <1>6 DEF Return, Goto, env, work
  <2> QED
    BY <2>1 DEF WorldOK, Busy, At, PCs
<1>7. CASE StatLocal \/ HangLocal \/ AnswerLocal \/ BeginMounts
  <2>1. UNCHANGED <<mounted, changed, round, table, restarts>>
    BY <1>7 DEF StatLocal, HangLocal, AnswerLocal, BeginMounts, env, work
  <2>2. pc \in {"server", "hung"} /\ pc' \in {"server", "hung", "mounts"}
    BY <1>7 DEF StatLocal, HangLocal, AnswerLocal, BeginMounts, Goto, At
  <2>3. Busy /\ Busy' /\ pc' \in PCs
    BY <2>2 DEF Busy, PCs
  <2> QED
    BY <2>1, <2>3, WorldSame DEF WorldOK
<1>8. CASE NothingToStat \/ Statfs \/ Receive \/ Timeout
  <2>1. UNCHANGED <<mounted, changed, round, table, restarts>>
    BY <1>8 DEF NothingToStat, Statfs, Receive, Timeout, env
  <2>2. pc \in {"mounts", "wait"} /\ pc' \in {"mounts", "wait"}
    <3>1. CASE NothingToStat
      BY <3>1 DEF NothingToStat, At
    <3>2. CASE Statfs
      BY <3>2 DEF Statfs, TakeNew, StartCall, MountUsage, Goto, At
    <3>3. CASE Receive
      BY <3>3 DEF Receive, MountUsage, Goto, At
    <3>4. CASE Timeout
      BY <3>4 DEF Timeout, TimedOut, MountUsage, Goto, At
    <3> QED
      BY <1>8, <3>1, <3>2, <3>3, <3>4
  <2>3. Busy /\ Busy' /\ pc' \in PCs
    BY <2>2 DEF Busy, PCs
  <2> QED
    BY <2>1, <2>3, WorldSame DEF WorldOK
<1>9. CASE Publish \/ Panic
  <2>1. /\ pc' = "select" /\ table' = NoTable /\ event' = <<>> /\ read' = <<>>
        /\ UNCHANGED <<mounted, changed, round>> /\ restarts' \in {restarts, restarts + 1}
    BY <1>9 DEF Publish, Panic, EndRound, Goto, env
  <2>2. NoTable \in [ok : BOOLEAN, entries : Seq(Filesystems)] /\ ~NoTable.ok /\ NoTable.entries = <<>>
    BY DEF NoTable
  <2> QED
    BY <2>1, <2>2 DEF WorldOK, PCs, Busy
<1> QED
  BY <1>1, <1>2, <1>3, <1>4, <1>5, <1>6, <1>7, <1>8, <1>9 DEF Next, Collect, Environment

(***************************************************************************)
(* TodoOK is preserved.                                                    *)
(***************************************************************************)
LEMMA TodoHead ==
  ASSUME TodoOK, pc \in {"mounts", "wait"}, todo # <<>>
  PROVE  /\ Head(todo) \in Items /\ Path \in Paths /\ Path \in AllPaths
         /\ Tail(todo) \in Seq(Items)
         /\ \A j \in DOMAIN todo : j # 1 => \E k \in DOMAIN Tail(todo) : Tail(todo)[k] = todo[j]
         /\ todo[1] = Head(todo)
<1>1. todo \in Seq(Items) /\ Len(todo) \in Nat /\ DOMAIN todo = 1..Len(todo)
  BY DEF TodoOK
<1>2. Head(todo) \in Items /\ Tail(todo) \in Seq(Items)
  BY <1>1, HeadTailProperties
<1>3. Path \in Paths /\ Path \in AllPaths
  BY <1>2, PathsArePaths DEF Path, Items
<1>4. /\ Len(Tail(todo)) = Len(todo) - 1
      /\ \A k \in 1..Len(Tail(todo)) : Tail(todo)[k] = todo[k + 1]
  BY <1>1, HeadTailProperties
<1>5. ASSUME NEW j \in DOMAIN todo, j # 1
      PROVE  \E k \in DOMAIN Tail(todo) : Tail(todo)[k] = todo[j]
  <2>1. j - 1 \in 1..Len(Tail(todo)) /\ (j - 1) + 1 = j
    BY <1>1, <1>4, <1>5
  <2>2. Tail(todo)[j - 1] = todo[j]
    BY <1>4, <2>1
  <2>3. DOMAIN Tail(todo) = 1..Len(Tail(todo))
    BY <1>2
  <2> QED
    BY <2>1, <2>2, <2>3
<1>6. todo[1] = Head(todo)
  BY <1>1
<1> QED
  BY <1>2, <1>3, <1>5, <1>6

LEMMA ToReport ==
  LET all == [i \in DOMAIN Config |-> Expand(Config[i])]
  IN  /\ FlattenSeq(all) \in Seq(Items)
      /\ \A i \in DOMAIN Config : ByName(i) =>
           \E j \in DOMAIN FlattenSeq(all) : FlattenSeq(all)[j].path = Config[i]
<1> DEFINE all == [i \in DOMAIN Config |-> Expand(Config[i])]
<1>1. DOMAIN Config = 1..Len(Config) /\ Len(Config) \in Nat
  BY StorageAssumption
<1>2. all \in [1..Len(Config) -> Seq(Items)]
  BY <1>1, ExpandOK
<1>3. all \in Seq(Seq(Items))
  BY <1>1, <1>2, SeqDef
<1>4. DOMAIN all = DOMAIN Config /\ \A i \in DOMAIN Config : all[i] = Expand(Config[i])
  OBVIOUS
<1> HIDE DEF all
<1>5. /\ FlattenSeq(all) \in Seq(Items)
      /\ \A i \in DOMAIN all : ToSet(all[i]) \subseteq ToSet(FlattenSeq(all))
  BY <1>3, FlattenHasAll
<1>6. ASSUME NEW i \in DOMAIN Config, ByName(i)
      PROVE  \E j \in DOMAIN FlattenSeq(all) : FlattenSeq(all)[j].path = Config[i]
  <2>1. PICK e \in ToSet(Expand(Config[i])) : e.path = Config[i]
    BY <1>6, ExpandOK
  <2>2. e \in ToSet(FlattenSeq(all))
    BY <1>4, <1>5, <2>1
  <2> QED
    BY <2>1, <2>2 DEF ToSet
<1> QED
  BY <1>5, <1>6 DEF all

LEMMA NextTodo == ASSUME TodoOK, [Next]_vars PROVE TodoOK'
<1>1. CASE UNCHANGED <<pc, todo>>
  BY <1>1 DEF TodoOK
<1>2. CASE BeginMounts
  <2>1. pc' = "mounts" /\ todo' \in Seq(Items)
    BY <1>2, ToReport DEF BeginMounts, Goto
  <2> QED
    BY <2>1 DEF TodoOK
<1>3. CASE pc \in {"mounts", "wait"} /\ todo # <<>> /\ todo' = Tail(todo) /\ pc' = "mounts"
  BY <1>3, TodoHead DEF TodoOK
<1>4. CASE pc = "mounts" /\ todo # <<>> /\ todo' = todo /\ pc' = "wait"
  BY <1>4 DEF TodoOK
<1>5. CASE pc' \notin {"mounts", "wait"}
  BY <1>5 DEF TodoOK
<1>6. UNCHANGED vars \/ Stopped \/ (\E e \in Mountable : Mount(e)) \/ (\E i \in DOMAIN mounted : Unmount(i))
      \/ (\E k \in calls : CallReturns(k)) => UNCHANGED <<pc, todo>>
  BY DEF vars, Stopped, Mount, Unmount, Remount, CallReturns, work
<1>7. BeginRound \/ Return \/ StatLocal \/ HangLocal \/ AnswerLocal \/ Publish \/ Panic =>
        pc' \notin {"mounts", "wait"}
  BY DEF BeginRound, Return, StatLocal, HangLocal, AnswerLocal, Publish, Panic, EndRound, Goto, At
<1>8. NothingToStat => pc = "mounts" /\ todo # <<>> /\ todo' = Tail(todo) /\ pc' = "mounts"
  BY DEF NothingToStat, At
<1>9. Receive \/ Timeout => pc = "wait" /\ todo # <<>> /\ todo' = Tail(todo) /\ pc' = "mounts"
  BY DEF Receive, Timeout, TimedOut, MountUsage, At, Goto, TodoOK
<1>10. Statfs => /\ pc = "mounts" /\ todo # <<>>
                 /\ (todo' = Tail(todo) /\ pc' = "mounts") \/ (todo' = todo /\ pc' = "wait")
  BY DEF Statfs, TakeNew, StartCall, MountUsage, At, Goto, work
<1> QED
  BY <1>1, <1>2, <1>3, <1>4, <1>5, <1>6, <1>7, <1>8, <1>9, <1>10 DEF Next, Collect, Environment

(***************************************************************************)
(* StatOK is preserved.                                                    *)
(***************************************************************************)
LEMMA NewIdIsNew ==
  ASSUME NEW others, IsFiniteSet(others), others \subseteq Call
  PROVE  NewId(others) \in Ids /\ \A k \in others : k.id # NewId(others)
<1> DEFINE n == Cardinality(others)
           ids == {k.id : k \in others}
           f == [k \in others |-> k.id]
           free == (1..(n + 1)) \ ids
<1>1. n \in Nat
  BY FS_CardinalityType
<1>2. IsFiniteSet(ids) /\ Cardinality(ids) <= n
  <2>1. f \in Surjection(others, ids)
    BY DEF Surjection
  <2> HIDE DEF f, ids, n
  <2> QED
    BY <2>1, FS_Surjection DEF n
<1> HIDE DEF ids, n
<1>3. free # {}
  <2> SUFFICES ASSUME free = {} PROVE FALSE
    OBVIOUS
  <2> DEFINE I == 1..(n + 1)
  <2>1. IsFiniteSet(I) /\ Cardinality(I) = n + 1
    BY <1>1, FS_Interval
  <2>2. I \in SUBSET ids
    OBVIOUS
  <2> HIDE DEF I
  <2>3. Cardinality(I) <= Cardinality(ids)
    BY <1>2, <2>2, FS_Subset
  <2>4. Cardinality(ids) \in Nat
    BY <1>2, FS_CardinalityType
  <2> QED
    BY <1>1, <1>2, <2>1, <2>3, <2>4
<1>4. free \subseteq Nat /\ \A i \in free : i \in Ids
  BY <1>1 DEF Ids
<1> HIDE DEF free
<1>5. PICK m \in free : \A y \in free : ~(<<y, m>> \in OpToRel(<, Nat))
  BY <1>3, <1>4, WFMin, NatLessThanWellFounded
<1>6. \A y \in free : m <= y
  <2>1. \A y \in free : ~(y < m)
    BY <1>4, <1>5 DEF OpToRel
  <2> QED
    BY <1>4, <2>1
<1>7. Min(free) \in free
  BY <1>6 DEF Min
<1>8. NewId(others) = Min(free)
  BY DEF NewId, free, ids, n
<1> QED
  BY <1>4, <1>7, <1>8 DEF free, ids

LEMMA NoCallIsNone == NoCall \notin Ids
  BY StorageAssumption DEF Ids

\* Of the calls for a path at most one is waited for, now or in a later round.
LEMMA OneWanted ==
  ASSUME StatOK, NEW k \in calls, NEW l \in calls, k.path = l.path, Wanted(k), Wanted(l)
  PROVE  k = l
<1>1. k.id \in Ids /\ l.id \in Ids /\ k.path \in Paths
  BY DEF StatOK, Call
<1>2. CASE k.id = l.id
  BY <1>2 DEF StatOK, Unique
<1>3. ASSUME NEW a \in calls, NEW b \in calls, a.path = b.path, a.id = cur, b.id = pending[b.path],
             b.id \in Ids, a.id \in Ids
      PROVE  FALSE
  <2>1. pc = "wait"
    BY <1>3, NoCallIsNone DEF StatOK
  <2>2. PICK w \in calls : Awaited(w)
    BY <2>1 DEF StatOK
  <2>3. w = a
    BY <1>3, <2>2 DEF StatOK, Unique, Awaited
  <2>4. pending[Path] = NoCall /\ Path = a.path
    BY <2>1, <2>2, <2>3 DEF StatOK, Awaited
  <2> QED
    BY <1>3, <2>4, NoCallIsNone
<1>4. CASE k.id # l.id
  BY <1>1, <1>3, <1>4 DEF Wanted
<1> QED
  BY <1>2, <1>4

LEMMA OutstandingBound ==
  ASSUME StatOK, restarts \in Nat, NEW p \in Paths
  PROVE  Cardinality(Outstanding(p)) <= 1 + restarts
<1>1. IsFiniteSet(Outstanding(p)) /\ IsFiniteSet(Orphans(p))
  BY FS_Subset DEF StatOK, Outstanding, Orphans
<1>2. Cardinality(Orphans(p)) <= restarts /\ Cardinality(Orphans(p)) \in Nat
  BY <1>1, FS_CardinalityType DEF StatOK
<1>3. CASE \E w \in Outstanding(p) : Wanted(w)
  <2>1. PICK w \in Outstanding(p) : Wanted(w)
    BY <1>3
  <2>2. \A k \in Outstanding(p) : Wanted(k) => k = w
    BY <2>1, OneWanted DEF Outstanding
  <2>3. Outstanding(p) = Orphans(p) \cup {w}
    BY <2>1, <2>2 DEF Orphans
  <2>4. Cardinality(Orphans(p) \cup {w}) <= Cardinality(Orphans(p)) + 1
    <3> HIDE DEF Orphans
    <3>1. Cardinality(Orphans(p) \cup {w}) =
            IF w \in Orphans(p) THEN Cardinality(Orphans(p)) ELSE Cardinality(Orphans(p)) + 1
      BY <1>1, FS_AddElement
    <3> QED
      BY <1>2, <3>1
  <2>5. Cardinality(Orphans(p) \cup {w}) \in Nat
    BY <1>1, <2>3, FS_CardinalityType
  <2> QED
    BY <1>2, <2>3, <2>4, <2>5
<1>4. CASE ~\E w \in Outstanding(p) : Wanted(w)
  <2>1. Outstanding(p) = Orphans(p)
    BY <1>4 DEF Orphans
  <2> QED
    BY <1>2, <2>1
<1> QED
  BY <1>3, <1>4

\* No step but a restart makes orphans.
NoNewOrphans ==
  \A k \in calls' : k.st = "running" /\ k.id # cur' /\ k.id # pending'[k.path] =>
    k \in calls /\ ~Wanted(k)

LEMMA OrphansBounded ==
  ASSUME StatOK, restarts' = restarts, restarts \in Nat, NoNewOrphans
  PROVE  \A p \in Paths : Cardinality(Orphans(p)') <= restarts'
<1> SUFFICES ASSUME NEW p \in Paths PROVE Cardinality(Orphans(p)') <= restarts'
  OBVIOUS
<1> DEFINE after == {k \in calls' : /\ k.path = p /\ k.st = "running"
                                    /\ ~(k.id = cur' \/ k.id = pending'[k.path])}
<1>1. Orphans(p)' = after
  BY DEF Orphans, Outstanding, Wanted
<1>2. after \in SUBSET Orphans(p)
  BY DEF Orphans, Outstanding, NoNewOrphans
<1> HIDE DEF after
<1>3. IsFiniteSet(Orphans(p))
  BY FS_Subset DEF StatOK, Orphans, Outstanding
<1>4. Cardinality(after) <= Cardinality(Orphans(p))
  BY <1>2, <1>3, FS_Subset
<1>5. Cardinality(after) \in Nat /\ Cardinality(Orphans(p)) \in Nat
  BY <1>2, <1>3, FS_Subset, FS_CardinalityType
<1>6. Cardinality(Orphans(p)) <= restarts
  BY DEF StatOK
<1> QED
  BY <1>1, <1>4, <1>5, <1>6

\* The parts of StatOK that a step of statfs can disturb.
LEMMA StatParts ==
  ASSUME WorldOK, StatOK, restarts' = restarts,
         pending' \in [Paths -> Ids \cup {NoCall}], cur' \in Ids \cup {NoCall},
         IsFiniteSet(calls'), calls' \subseteq Call, Unique(calls'),
         \A p \in Paths : pending'[p] # NoCall => Called(pending'[p], p, calls'),
         pc' # "wait" => cur' = NoCall,
         pc' = "wait" => pending'[Path'] = NoCall /\ \E k \in calls' : Awaited(k)',
         NoNewOrphans
  PROVE  StatOK'
<1>1. \A p \in Paths : Cardinality(Orphans(p)') <= restarts'
  BY OrphansBounded DEF WorldOK
<1> QED
  BY <1>1 DEF StatOK, Unique, Called

\* A step that leaves the calls alone.
LEMMA StatSame ==
  ASSUME WorldOK, StatOK, restarts' = restarts, UNCHANGED stat,
         pc' = "wait" => pc = "wait" /\ Path' = Path /\ \A k \in calls : Awaited(k) => Awaited(k)',
         pc = "wait" => pc' = "wait"
  PROVE  StatOK'
<1>1. UNCHANGED <<pending, calls, cur>>
  BY DEF stat
<1>2. NoNewOrphans
  BY <1>1 DEF NoNewOrphans, Wanted
<1> QED
  BY <1>1, <1>2, StatParts DEF StatOK

LEMMA RemountStat == ASSUME WorldOK, TodoOK, StatOK, Remount PROVE StatOK'
<1>1. UNCHANGED <<pc, round, table, todo, restarts>> /\ UNCHANGED stat /\ changed' = ~At("select")
  BY DEF Remount, work
<1>2. UNCHANGED <<pending, calls, cur>> /\ Path' = Path
  BY <1>1 DEF stat, Path
<1>3. ASSUME pc = "wait", NEW k \in calls, Awaited(k) PROVE Awaited(k)'
  BY <1>1, <1>2, <1>3 DEF Awaited, At
<1> QED
  BY <1>1, <1>2, <1>3, StatSame

LEMMA CallReturnsStat ==
  ASSUME WorldOK, TodoOK, StatOK, NEW k \in calls, CallReturns(k) PROVE StatOK'
<1>1. /\ UNCHANGED <<pc, round, table, todo, restarts, pending, cur, changed>> /\ k.st = "running"
      /\ \E r \in {"ok", "err"} :
           calls' = (calls \ {k}) \cup (IF Wanted(k) THEN {[k EXCEPT !.st = r]} ELSE {})
  BY DEF CallReturns, env, work
<1>2. PICK r \in {"ok", "err"} :
        calls' = (calls \ {k}) \cup (IF Wanted(k) THEN {[k EXCEPT !.st = r]} ELSE {})
  BY <1>1
<1> DEFINE n == [k EXCEPT !.st = r]
<1>3. n \in Call /\ n.id = k.id /\ n.path = k.path /\ n.at = k.at /\ n.of = k.of /\ n.st = r
  BY DEF StatOK, Call
<1> HIDE DEF n
<1>4. calls' = (calls \ {k}) \cup (IF Wanted(k) THEN {n} ELSE {})
  BY <1>2 DEF n
<1>5. calls' \subseteq Call /\ IsFiniteSet(calls')
  <2>1. IsFiniteSet(calls \ {k}) /\ IsFiniteSet((calls \ {k}) \cup {n})
    BY FS_AddElement, FS_RemoveElement DEF StatOK
  <2> QED
    BY <1>3, <1>4, <2>1 DEF StatOK
<1>6. Unique(calls')
  BY <1>3, <1>4 DEF StatOK, Unique
<1>7. ASSUME NEW l \in calls, Wanted(l)
      PROVE  \E m \in calls' : m.id = l.id /\ m.path = l.path /\ m.at = l.at /\ m.of = l.of
  BY <1>3, <1>4, <1>7
<1>8. ASSUME NEW p \in Paths, pending'[p] # NoCall PROVE Called(pending'[p], p, calls')
  <2>1. PICK l \in calls : l.id = pending[p] /\ l.path = p
    BY <1>1, <1>8 DEF StatOK, Called
  <2> QED
    BY <1>1, <1>7, <2>1 DEF Wanted, Called
<1>9. ASSUME pc' = "wait" PROVE pending'[Path'] = NoCall /\ \E m \in calls' : Awaited(m)'
  <2>1. PICK l \in calls : Awaited(l)
    BY <1>1, <1>9 DEF StatOK
  <2>2. PICK m \in calls' : m.id = l.id /\ m.path = l.path /\ m.at = l.at /\ m.of = l.of
    BY <1>7, <2>1 DEF Wanted, Awaited
  <2>3. Path' = Path /\ pending[Path] = NoCall
    BY <1>1, <1>9 DEF Path, StatOK
  <2>4. Awaited(m)'
    BY <1>1, <2>1, <2>2, <2>3 DEF Awaited
  <2> QED
    BY <1>1, <2>3, <2>4
<1>10. NoNewOrphans
  BY <1>1, <1>3, <1>4 DEF NoNewOrphans, Wanted
<1> QED
  BY <1>1, <1>5, <1>6, <1>8, <1>9, <1>10, StatParts DEF StatOK

\* A new call, others being the calls that are still of use.
LEMMA StartCallStat ==
  ASSUME WorldOK, TodoOK, StatOK, pc = "mounts", todo # <<>>,
         NEW others \in SUBSET calls, StartCall(others),
         \A k \in calls \ others : k.path = Path, \A k \in others : k.id # pending[Path],
         pending' = [pending EXCEPT ![Path] = NoCall],
         UNCHANGED <<todo, table, round, changed, restarts>>
  PROVE  StatOK'
<1>0. PICK n : n = [id |-> cur', path |-> Path, at |-> round, st |-> "running",
                    of |-> Serving(mounted, Path).dev]
  OBVIOUS
<1>1. cur' = NewId(others) /\ calls' = others \cup {n} /\ pc' = "wait"
  BY <1>0 DEF StartCall, Goto
<1>2. IsFiniteSet(others) /\ others \subseteq Call
  BY FS_Subset DEF StatOK
<1>3. cur' \in Ids /\ \A k \in others : k.id # cur'
  BY <1>1, <1>2, NewIdIsNew
<1>4. Path \in Paths /\ Path \in AllPaths /\ Path' = Path
  BY TodoHead DEF Path
<1>5. /\ n \in Call /\ n.id = cur' /\ n.path = Path /\ n.at = round
      /\ n.of = Serving(mounted, Path).dev
  <2>1. Serving(mounted, Path).dev \in Devs
    <3>1. mounted \in Seq(Filesystems) /\ HasRoot(mounted)
      BY DEF WorldOK
    <3> QED
      BY <1>4, <3>1, DeviceTypes
  <2>2. round \in Nat
    BY DEF WorldOK
  <2> DEFINE d == Serving(mounted, Path).dev
  <2> HIDE DEF d
  <2>3. n = [id |-> cur', path |-> Path, at |-> round, st |-> "running", of |-> d]
    BY <1>0 DEF d
  <2>4. d \in Devs
    BY <2>1 DEF d
  <2>5. n \in Call /\ n.id = cur' /\ n.path = Path /\ n.at = round /\ n.of = d
    BY <1>3, <1>4, <2>2, <2>3, <2>4 DEF Call
  <2> QED
    BY <2>5 DEF d
<1>6. IsFiniteSet(calls') /\ calls' \subseteq Call /\ Unique(calls')
  <2>1. IsFiniteSet(others \cup {n})
    BY <1>2, FS_AddElement
  <2>2. calls' \subseteq Call
    BY <1>1, <1>2, <1>5
  <2>3. Unique(calls')
    BY <1>1, <1>3, <1>5 DEF StatOK, Unique
  <2> QED
    BY <1>1, <2>1, <2>2, <2>3
<1>7. /\ pending' \in [Paths -> Ids \cup {NoCall}]
      /\ pending'[Path] = NoCall
      /\ \A p \in Paths : p # Path => pending'[p] = pending[p]
  BY <1>4 DEF StatOK
<1>8. ASSUME NEW p \in Paths, pending'[p] # NoCall PROVE Called(pending'[p], p, calls')
  <2>1. p # Path /\ pending'[p] = pending[p]
    BY <1>7, <1>8
  <2>2. PICK l \in calls : l.id = pending[p] /\ l.path = p
    BY <1>8, <2>1 DEF StatOK, Called
  <2>3. l \in calls'
    BY <1>1, <2>1, <2>2
  <2> QED
    BY <2>1, <2>2, <2>3 DEF Called
<1>9. pending'[Path'] = NoCall /\ \E k \in calls' : Awaited(k)'
  <2>1. table.ok /\ ~changed => table.entries = mounted
    BY DEF WorldOK, Busy
  <2>2. Awaited(n)'
    BY <1>4, <1>5, <2>1 DEF Awaited
  <2> QED
    BY <1>1, <1>4, <1>7, <2>2
<1>10. NoNewOrphans
  <2> SUFFICES ASSUME NEW k \in calls', k.id # cur', k.id # pending'[k.path]
               PROVE  k \in calls /\ ~Wanted(k)
    BY DEF NoNewOrphans
  <2>1. k \in others /\ k \in calls
    BY <1>1, <1>5
  <2>2. k.id \in Ids /\ k.path \in Paths /\ cur = NoCall
    BY <1>2, <2>1 DEF Call, StatOK
  <2>3. k.id # pending[k.path]
    BY <1>7, <2>1, <2>2
  <2> QED
    BY <2>1, <2>2, <2>3, NoCallIsNone DEF Wanted
<1> QED
  BY <1>1, <1>3, <1>6, <1>7, <1>8, <1>9, <1>10, StatParts

LEMMA StatfsStat == ASSUME WorldOK, TodoOK, StatOK, Statfs PROVE StatOK'
<1>1. /\ pc = "mounts" /\ todo # <<>> /\ UNCHANGED <<table, round, changed, restarts>>
      /\ cur = NoCall
  BY DEF Statfs, At, env, StatOK
<1>2. Path \in Paths
  BY <1>1, TodoHead
<1>3. ASSUME pending[Path] = NoCall, StartCall(calls), UNCHANGED <<pending, work, log>> PROVE StatOK'
  <2>1. pending' = [pending EXCEPT ![Path] = NoCall] /\ todo' = todo
    BY <1>2, <1>3 DEF StatOK, work
  <2>2. \A k \in calls : k.id # pending[Path]
    BY <1>3, NoCallIsNone DEF StatOK, Call
  <2> QED
    BY <1>1, <1>3, <2>1, <2>2, StartCallStat
<1>4. ASSUME NEW k \in Stuck, TakeNew(k) PROVE StatOK'
  <2>1. k \in calls /\ k.id = pending[Path] /\ StartCall(calls \ {k}) /\ todo' = todo
        /\ pending' = [pending EXCEPT ![Path] = NoCall]
    BY <1>4 DEF Stuck, TakeNew, work
  <2>2. k.id \in Ids
    BY <2>1 DEF StatOK, Call
  <2>3. PICK l \in calls : l.id = pending[Path] /\ l.path = Path
    BY <1>2, <2>1, <2>2, NoCallIsNone DEF StatOK, Called
  <2>4. k.path = Path /\ \A m \in calls \ {k} : m.id # pending[Path]
    BY <2>1, <2>3 DEF StatOK, Unique
  <2> DEFINE others == calls \ {k}
  <2>5. others \in SUBSET calls /\ \A m \in calls \ others : m.path = Path
    BY <2>4
  <2>6. StartCall(others) /\ \A m \in others : m.id # pending[Path]
    BY <2>1, <2>4
  <2> HIDE DEF others
  <2> QED
    BY <1>1, <2>1, <2>5, <2>6, StartCallStat
<1>5. ASSUME MountUsage("timeout", 0, NoDev), UNCHANGED stat PROVE StatOK'
  BY <1>1, <1>5, StatSame DEF MountUsage, Goto
<1> QED
  BY <1>3, <1>4, <1>5 DEF Statfs

LEMMA ReceiveStat == ASSUME WorldOK, TodoOK, StatOK, Receive PROVE StatOK'
<1>1. /\ pc = "wait" /\ pc' = "mounts" /\ UNCHANGED <<pending, restarts>> /\ cur' = NoCall
      /\ \E k \in calls : k.id = cur /\ calls' = calls \ {k}
  BY DEF Receive, At, MountUsage, Goto
<1>2. PICK k \in calls : k.id = cur /\ calls' = calls \ {k}
  BY <1>1
<1>3. PICK a \in calls : Awaited(a)
  BY <1>1 DEF StatOK
<1>4. k = a /\ k.path = Path /\ pending[Path] = NoCall
  BY <1>1, <1>2, <1>3 DEF Awaited, StatOK, Unique
<1>5. IsFiniteSet(calls') /\ calls' \subseteq Call /\ Unique(calls')
  <2>1. IsFiniteSet(calls \ {k})
    BY FS_RemoveElement DEF StatOK
  <2> QED
    BY <1>2, <2>1 DEF StatOK, Unique
<1>6. ASSUME NEW p \in Paths, pending'[p] # NoCall PROVE Called(pending'[p], p, calls')
  <2>1. PICK l \in calls : l.id = pending[p] /\ l.path = p
    BY <1>1, <1>6 DEF StatOK, Called
  <2>2. l # k
    BY <1>1, <1>4, <1>6, <2>1
  <2> QED
    BY <1>1, <1>2, <2>1, <2>2 DEF Called
<1>7. NoNewOrphans
  <2> SUFFICES ASSUME NEW l \in calls', l.id # pending'[l.path]
               PROVE  l \in calls /\ ~Wanted(l)
    BY DEF NoNewOrphans
  <2>1. l \in calls /\ l # k
    BY <1>2
  <2>2. l.id # cur
    BY <1>2, <2>1 DEF StatOK, Unique
  <2> QED
    BY <1>1, <2>1, <2>2 DEF Wanted
<1> QED
  BY <1>1, <1>5, <1>6, <1>7, StatParts DEF StatOK

LEMMA TimeoutStat == ASSUME WorldOK, TodoOK, StatOK, Timeout PROVE StatOK'
<1>1. /\ pc = "wait" /\ pc' = "mounts" /\ UNCHANGED <<calls, restarts>> /\ cur' = NoCall
      /\ pending' = [pending EXCEPT ![Path] = cur]
  BY DEF Timeout, TimedOut, LeavePending, At, MountUsage, Goto
<1>2. PICK a \in calls : Awaited(a)
  BY <1>1 DEF StatOK
<1>3. Path \in Paths /\ a.path = Path /\ a.id = cur /\ pending[Path] = NoCall
  BY <1>1, <1>2, TodoHead DEF Awaited, StatOK, TodoOK
<1>4. /\ pending' \in [Paths -> Ids \cup {NoCall}]
      /\ pending'[Path] = cur
      /\ \A p \in Paths : p # Path => pending'[p] = pending[p]
  BY <1>1, <1>3 DEF StatOK
<1>5. ASSUME NEW p \in Paths, pending'[p] # NoCall PROVE Called(pending'[p], p, calls')
  <2>1. CASE p = Path
    BY <1>1, <1>3, <1>4, <2>1 DEF Called
  <2>2. CASE p # Path
    BY <1>1, <1>4, <1>5, <2>2 DEF StatOK
  <2> QED
    BY <2>1, <2>2
<1>6. NoNewOrphans
  <2> SUFFICES ASSUME NEW l \in calls, l.id # pending'[l.path]
               PROVE  ~Wanted(l)
    BY <1>1 DEF NoNewOrphans
  <2>1. l.path \in Paths /\ l.id \in Ids
    BY DEF StatOK, Call
  <2>2. l.id # cur
    <3>1. l.id = cur => l = a
      BY <1>3 DEF StatOK, Unique
    <3> QED
      BY <1>3, <1>4, <3>1
  <2>3. l.id # pending[l.path]
    BY <1>3, <1>4, <2>1, NoCallIsNone
  <2> QED
    BY <2>2, <2>3 DEF Wanted
<1> QED
  BY <1>1, <1>4, <1>5, <1>6, StatParts DEF StatOK

\* A restart forgets the calls that were being waited for: at most one for each path.
LEMMA PanicStat == ASSUME WorldOK, TodoOK, StatOK, Panic PROVE StatOK'
<1>1. /\ pc = "mounts" /\ pc' = "select" /\ restarts' = restarts + 1 /\ cur' = cur
      /\ pending' = [p \in Paths |-> NoCall] /\ calls' = {k \in calls : k.st = "running"}
  BY DEF Panic, At, EndRound, Goto
<1>2. IsFiniteSet(calls') /\ calls' \subseteq Call /\ Unique(calls')
  BY <1>1, FS_Subset DEF StatOK, Unique
<1>3. pending' \in [Paths -> Ids \cup {NoCall}] /\ \A p \in Paths : pending'[p] = NoCall
  BY <1>1
<1>4. ASSUME NEW p \in Paths PROVE Cardinality(Orphans(p)') <= restarts'
  <2> DEFINE after == {k \in calls' : /\ k.path = p /\ k.st = "running"
                                      /\ ~(k.id = cur' \/ k.id = pending'[k.path])}
  <2>1. Orphans(p)' = after
    BY DEF Orphans, Outstanding, Wanted
  <2>2. after \in SUBSET Outstanding(p)
    BY <1>1 DEF Outstanding
  <2> HIDE DEF after
  <2>3. IsFiniteSet(Outstanding(p))
    BY FS_Subset DEF StatOK, Outstanding
  <2>4. Cardinality(after) <= Cardinality(Outstanding(p))
    BY <2>2, <2>3, FS_Subset
  <2>5. Cardinality(after) \in Nat /\ Cardinality(Outstanding(p)) \in Nat
    BY <2>2, <2>3, FS_Subset, FS_CardinalityType
  <2>6. Cardinality(Outstanding(p)) <= 1 + restarts /\ restarts \in Nat
    BY OutstandingBound DEF WorldOK
  <2> QED
    BY <1>1, <2>1, <2>4, <2>5, <2>6
<1> QED
  BY <1>1, <1>2, <1>3, <1>4 DEF StatOK, Unique

LEMMA NextStat == ASSUME WorldOK, TodoOK, StatOK, [Next]_vars PROVE StatOK'
<1>1. CASE UNCHANGED vars \/ Stopped
  <2>1. UNCHANGED <<pc, todo, table, round, changed, restarts, cur>> /\ UNCHANGED stat
    BY <1>1 DEF vars, env, work, stat, Stopped
  <2>2. \A k \in calls : Awaited(k) => Awaited(k)'
    BY <2>1 DEF Awaited, Path
  <2> QED
    BY <2>1, <2>2, StatSame DEF Path
<1>2. ASSUME NEW e \in Mountable, Mount(e) PROVE StatOK'
  BY <1>2, RemountStat DEF Mount
<1>3. ASSUME NEW i \in DOMAIN mounted, Unmount(i) PROVE StatOK'
  BY <1>3, RemountStat DEF Unmount
<1>4. ASSUME NEW k \in calls, CallReturns(k) PROVE StatOK'
  BY <1>4, CallReturnsStat
<1>5. CASE BeginRound \/ Return \/ StatLocal \/ HangLocal \/ AnswerLocal \/ BeginMounts
           \/ NothingToStat \/ Publish
  <2>1. pc # "wait" /\ pc' # "wait"
    BY <1>5 DEF BeginRound, Return, StatLocal, HangLocal, AnswerLocal, BeginMounts, NothingToStat,
                Publish, EndRound, Goto, At
  <2>2. UNCHANGED stat /\ restarts' = restarts
    BY <1>5 DEF BeginRound, Return, StatLocal, HangLocal, AnswerLocal, BeginMounts, NothingToStat,
                Publish
  <2> QED
    BY <2>1, <2>2, StatSame
<1> QED
  BY <1>1, <1>2, <1>3, <1>4, <1>5, StatfsStat, ReceiveStat, TimeoutStat, PanicStat
  DEF Next, Collect, Environment

LEMMA InitStat == Init => TodoOK /\ StatOK
<1> SUFFICES ASSUME Init PROVE TodoOK /\ StatOK
  OBVIOUS
<1>1. /\ pc = "select" /\ pending = [p \in Paths |-> NoCall] /\ calls = {} /\ cur = NoCall
      /\ restarts = 0
  BY DEF Init
<1>2. IsFiniteSet(calls) /\ \A p \in Paths : Cardinality(Orphans(p)) = 0
  <2>1. \A p \in Paths : Orphans(p) = {}
    BY <1>1 DEF Orphans, Outstanding
  <2> QED
    BY <1>1, <2>1, FS_EmptySet
<1> QED
  BY <1>1, <1>2 DEF TodoOK, StatOK, Unique

LEMMA SpecStat == Spec => [](WorldOK /\ TodoOK /\ StatOK)
<1>1. Init => WorldOK /\ TodoOK /\ StatOK
  BY InitWorld, InitStat
<1>2. WorldOK /\ TodoOK /\ StatOK /\ [Next]_vars => (WorldOK /\ TodoOK /\ StatOK)'
  BY NextWorld, NextTodo, NextStat
<1> QED
  BY <1>1, <1>2, PTL DEF Spec

\* At any time a path has at most one statfs goroutine in flight, and one more for each
\* restart of the collector (statfs, collector.go), however many mounts hang.
THEOREM OneCallPerPathAlways == Spec => []OneCallPerPath
<1>1. WorldOK /\ TodoOK /\ StatOK => OneCallPerPath
  BY OutstandingBound DEF OneCallPerPath, WorldOK
<1> QED
  BY <1>1, SpecStat, PTL

(***************************************************************************)
(* LogOK is preserved.                                                     *)
(***************************************************************************)
\* The books that mountUsage keeps of p.
LEMMA LoggedOK ==
  ASSUME LogOK, restarts \in Nat, NEW p \in Paths, NEW failed \in BOOLEAN, restarts' = restarts,
         Logged(p, failed), mountFailing' = NowFailing(p, failed),
         down' = IF failed THEN down \cup {p} ELSE down \ {p}
  PROVE  LogOK'
<1> DEFINE in == IF failed /\ p \notin mountFailing THEN 1 ELSE 0
           out == IF ~failed /\ p \in mountFailing THEN 1 ELSE 0
<1>1. in \in {0, 1} /\ out \in {0, 1}
  OBVIOUS
<1>2. opened' = [opened EXCEPT ![p] = opened[p] + in - out]
  BY DEF Logged
<1> HIDE DEF in, out
<1>3. /\ opened' \in [Paths -> Int] /\ opened'[p] = opened[p] + in - out
      /\ \A q \in Paths : q # p => opened'[q] = opened[q]
  BY <1>1, <1>2 DEF LogOK
<1>4. ASSUME restarts' = 0 PROVE mountFailing' = down'
  BY <1>4 DEF LogOK, NowFailing
<1>5. ASSUME restarts' = 0, NEW q \in Paths
      PROVE  opened'[q] = IF q \in mountFailing' THEN 1 ELSE 0
  <2>1. opened[q] = IF q \in mountFailing THEN 1 ELSE 0
    BY <1>5 DEF LogOK
  <2>2. CASE q # p
    <3>1. q \in mountFailing' <=> q \in mountFailing
      BY <2>2 DEF NowFailing
    <3> QED
      BY <1>3, <2>1, <2>2, <3>1
  <2>3. CASE q = p /\ failed
    <3>1. p \in mountFailing' /\ out = 0 /\ in = IF p \in mountFailing THEN 0 ELSE 1
      BY <2>3 DEF NowFailing, in, out
    <3> QED
      BY <1>3, <2>1, <2>3, <3>1
  <2>4. CASE q = p /\ ~failed
    <3>1. p \notin mountFailing' /\ in = 0 /\ out = IF p \in mountFailing THEN 1 ELSE 0
      BY <2>4 DEF NowFailing, in, out
    <3> QED
      BY <1>3, <2>1, <2>4, <3>1
  <2> QED
    BY <2>2, <2>3, <2>4
<1> QED
  BY <1>3, <1>4, <1>5 DEF LogOK

LEMMA NextLog == ASSUME WorldOK, TodoOK, LogOK, [Next]_vars PROVE LogOK'
<1>1. CASE UNCHANGED log /\ restarts' = restarts
  BY <1>1 DEF LogOK, log
<1>2. ASSUME NEW err, NEW at, NEW of, MountUsage(err, at, of), restarts' = restarts,
             pc \in {"mounts", "wait"}, todo # <<>>
      PROVE  LogOK'
  <2> DEFINE p == Head(todo).path
             failed == err # ""
  <2>1. p \in Paths /\ failed \in BOOLEAN /\ restarts \in Nat
    BY <1>2, TodoHead DEF Path, WorldOK
  <2>2. /\ Logged(p, failed) /\ mountFailing' = NowFailing(p, failed)
        /\ down' = IF failed THEN down \cup {p} ELSE down \ {p}
    BY <1>2 DEF MountUsage
  <2> HIDE DEF p, failed
  <2> QED
    BY <1>2, <2>1, <2>2, LoggedOK
<1>3. CASE Panic
  <2>1. restarts' = restarts + 1 /\ opened' = opened /\ restarts \in Nat
    BY <1>3 DEF Panic, WorldOK
  <2>2. restarts' # 0
    BY <2>1
  <2> QED
    BY <2>1, <2>2 DEF LogOK
<1>4. CASE Statfs
  <2>1. pc = "mounts" /\ todo # <<>> /\ restarts' = restarts
    BY <1>4 DEF Statfs, At
  <2>2. UNCHANGED log \/ MountUsage("timeout", 0, NoDev)
    BY <1>4 DEF Statfs, TakeNew
  <2> QED
    BY <1>1, <1>2, <2>1, <2>2
<1>5. CASE Receive
  <2>1. PICK k \in calls : MountUsage(IF k.st = "ok" THEN "" ELSE "error", k.at, k.of)
    BY <1>5 DEF Receive
  <2>2. pc = "wait" /\ todo # <<>> /\ restarts' = restarts
    BY <1>5 DEF Receive, At, TodoOK
  <2> QED
    BY <1>2, <2>1, <2>2
<1>6. CASE Timeout
  <2>1. pc = "wait" /\ todo # <<>> /\ restarts' = restarts /\ MountUsage("timeout", 0, NoDev)
    BY <1>6 DEF Timeout, TimedOut, At, TodoOK
  <2> QED
    BY <1>2, <2>1
<1>7. UNCHANGED vars \/ Stopped \/ (\E e \in Mountable : Mount(e)) \/ (\E i \in DOMAIN mounted : Unmount(i))
      \/ (\E k \in calls : CallReturns(k)) => UNCHANGED log /\ restarts' = restarts
  BY DEF vars, Stopped, Mount, Unmount, Remount, CallReturns
<1>8. BeginRound \/ Return \/ StatLocal \/ HangLocal \/ AnswerLocal \/ BeginMounts
        \/ NothingToStat \/ Publish => UNCHANGED log /\ restarts' = restarts
  BY DEF BeginRound, Return, StatLocal, HangLocal, AnswerLocal, BeginMounts, NothingToStat, Publish
<1> QED
  BY <1>1, <1>3, <1>4, <1>5, <1>6, <1>7, <1>8 DEF Next, Collect, Environment

LEMMA SpecLog == Spec => [](WorldOK /\ TodoOK /\ LogOK)
<1>1. Init => WorldOK /\ TodoOK /\ LogOK
  BY InitWorld, InitStat DEF Init, LogOK
<1>2. WorldOK /\ TodoOK /\ LogOK /\ [Next]_vars => (WorldOK /\ TodoOK /\ LogOK)'
  BY NextWorld, NextTodo, NextLog
<1> QED
  BY <1>1, <1>2, PTL DEF Spec

\* Until a restart the log has one open failure for each path whose last statfs failed and
\* none for the others: c.mountFailing (mountUsage, collector.go) is exact.
THEOREM FailureLoggedOnceAlways == Spec => []FailureLoggedOnce
<1>1. LogOK => FailureLoggedOnce
  BY DEF LogOK, FailureLoggedOnce
<1> QED
  BY <1>1, SpecLog, PTL

(***************************************************************************)
(* EventOK is preserved.                                                   *)
(***************************************************************************)
\* What SizeTrue says of one entry.
TrueEntry(e) ==
  e.error = "" =>
    /\ e.at = round
    /\ \/ ~table.ok \/ changed
       \/ e.dev = e.of
       \/ \E i \in Covered(table.entries) : HoldsPath(table.entries[i].path, e.item.path)

\* A reading of this round, answered by the filesystem that is at the path.
TrueReading(err, at, of) ==
  err = "" =>
    /\ at = round
    /\ table.ok /\ ~changed => of = Serving(table.entries, Path).dev

LEMMA EntryOK ==
  ASSUME WorldOK, TodoOK, pc \in {"mounts", "wait"}, todo # <<>>,
         NEW err \in Errors, NEW at \in Nat, NEW of \in Devs, TrueReading(err, at, of)
  PROVE  /\ Entry(err, at, of) \in Reported /\ Entry(err, at, of).item.path = Path
         /\ TrueEntry(Entry(err, at, of))
<1> DEFINE d == Device(err)
           e == Entry(err, at, of)
           found == Find(table.entries, Path)
<1>1. Head(todo) \in Items /\ Path \in AllPaths /\ Path = Head(todo).path
  BY TodoHead DEF Path
<1>2. table.entries \in Seq(Filesystems) /\ (table.ok => HasRoot(table.entries))
  BY DEF WorldOK
<1>3. found \in Filesystems \cup {NoEntry}
  BY <1>1, <1>2, DeviceTypes
<1>4. d = IF found = NoEntry \/ err \notin {"", "timeout"} THEN NoDev ELSE found.dev
  BY <1>1 DEF Device
<1>5. d \in Devs
  BY <1>3, <1>4 DEF Devs
<1> HIDE DEF d
<1>6. /\ e \in Reported /\ e.item = Head(todo) /\ e.error = err /\ e.at = at /\ e.dev = d /\ e.of = of
  <2>1. e = [item |-> Head(todo), error |-> err, at |-> at, dev |-> d, of |-> of]
    BY DEF Entry, d
  <2> HIDE DEF e
  <2> QED
    BY <1>1, <1>5, <2>1 DEF Reported
<1> HIDE DEF e
<1>7. ASSUME err = "", table.ok, ~changed
      PROVE  d = of \/ \E i \in Covered(table.entries) : HoldsPath(table.entries[i].path, Path)
  <2>1. of = Serving(table.entries, Path).dev
    BY <1>7 DEF TrueReading
  <2>2. \/ found = Serving(table.entries, Path)
        \/ \E i \in Covered(table.entries) : HoldsPath(table.entries[i].path, Path)
    BY <1>1, <1>2, <1>7, FindIsServing
  <2>3. found # NoEntry
    <3>1. Holders(table.entries, Path) # {}
      BY <1>1, <1>2, <1>7, HoldersOK
    <3>2. PICK i \in Holders(table.entries, Path) : found = table.entries[i]
      BY <1>1, <1>2, <3>1, FindLongest
    <3>3. table.entries[i] \in Filesystems
      BY <1>1, <1>2, <3>2, HoldersOK
    <3> QED
      BY <3>2, <3>3, FilesystemPath
  <2>4. d = found.dev
    BY <1>4, <1>7, <2>3
  <2> HIDE DEF found
  <2> QED
    BY <2>1, <2>2, <2>4
<1>8. TrueEntry(e)
  <2>1. err = "" => at = round
    BY DEF TrueReading
  <2>2. e.item.path = Path
    BY <1>1, <1>6
  <2> QED
    BY <1>6, <1>7, <2>1, <2>2 DEF TrueEntry
<1> QED
  BY <1>1, <1>6, <1>8 DEF e

\* add: what was at the head of todo is listed now.
LEMMA ReportOK ==
  ASSUME WorldOK, TodoOK, EventOK, pc \in {"mounts", "wait"}, todo # <<>>,
         NEW err \in Errors, NEW at \in Nat, NEW of \in Devs, TrueReading(err, at, of),
         Report(err, at, of), todo' = Tail(todo), UNCHANGED <<table, round, changed>>
  PROVE  EventOK'
<1>1. PICK e : e = Entry(err, at, of)
  OBVIOUS
<1>2. e \in Reported /\ e.item.path = Path /\ TrueEntry(e)
  BY <1>1, EntryOK
<1>3. /\ event \in Seq(Reported) /\ Len(event) \in Nat /\ DOMAIN event = 1..Len(event)
      /\ \A j \in DOMAIN event : TrueEntry(event[j])
  <2>1. event \in Seq(Reported) /\ SizeTrue
    BY DEF EventOK
  <2>2. \A j \in DOMAIN event : TrueEntry(event[j])
    BY ONLY <2>1 DEF SizeTrue, TrueEntry
  <2>3. Len(event) \in Nat /\ DOMAIN event = 1..Len(event)
    BY <2>1
  <2> QED
    BY <2>1, <2>2, <2>3
<1>4. /\ event' \in Seq(Reported)
      /\ \A j \in DOMAIN event : j \in DOMAIN event' /\ event'[j] = event[j]
      /\ \E j \in DOMAIN event' : event'[j].item.path = Path
      /\ \A j \in DOMAIN event' : TrueEntry(event'[j])
      /\ \A j, k \in DOMAIN event' : event'[j].item.path = event'[k].item.path => j = k
  <2>1. CASE \E j \in DOMAIN event : event[j].item.path = Path
    <3>1. event' = event
      BY <2>1 DEF Report, Path
    <3> QED
      BY <1>3, <2>1, <3>1 DEF EventOK, ListedOnce
  <2>2. CASE ~\E j \in DOMAIN event : event[j].item.path = Path
    <3> DEFINE n == Len(event) + 1
    <3>1. event' = Append(event, e)
      BY <1>1, <2>2 DEF Report, Path
    <3>2. /\ event' \in Seq(Reported) /\ DOMAIN event' = 1..n /\ event'[n] = e /\ n \in 1..n
          /\ \A j \in 1..n : j = n \/ j \in DOMAIN event
          /\ \A j \in DOMAIN event : j \in 1..n /\ j # n /\ event'[j] = event[j]
      BY <1>2, <1>3, <3>1
    <3> HIDE DEF n
    <3>3. \A j \in 1..n : TrueEntry(event'[j])
      BY <1>2, <1>3, <3>2
    <3>4. ASSUME NEW j \in 1..n, NEW k \in 1..n, event'[j].item.path = event'[k].item.path
          PROVE  j = k
      BY <1>2, <2>2, <3>2, <3>4 DEF EventOK, ListedOnce
    <3> QED
      BY <1>2, <3>2, <3>3, <3>4
  <2> QED
    BY <2>1, <2>2
<1>5. SizeTrue'
  <2>1. \A j \in DOMAIN event' : TrueEntry(event'[j])
    BY <1>4
  <2> QED
    BY <2>1 DEF SizeTrue, TrueEntry
<1>6. ListedOrToDo'
  <2> SUFFICES ASSUME NEW i \in DOMAIN Config, ByName(i)
               PROVE  \/ \E j \in DOMAIN event' : event'[j].item.path = Config[i]
                      \/ \E j \in DOMAIN todo' : todo'[j].path = Config[i]
    BY DEF ListedOrToDo, ByName
  <2>1. \/ \E j \in DOMAIN event : event[j].item.path = Config[i]
        \/ \E j \in DOMAIN todo : todo[j].path = Config[i]
    BY DEF EventOK, ListedOrToDo
  <2>2. CASE \E j \in DOMAIN event : event[j].item.path = Config[i]
    BY <1>4, <2>2
  <2>3. ASSUME NEW j \in DOMAIN todo, todo[j].path = Config[i]
        PROVE  \/ \E k \in DOMAIN event' : event'[k].item.path = Config[i]
               \/ \E k \in DOMAIN todo' : todo'[k].path = Config[i]
    <3>1. CASE j = 1
      <4>1. Path = Config[i]
        BY <2>3, <3>1, TodoHead DEF Path
      <4> QED
        BY <1>4, <4>1
    <3>2. CASE j # 1
      <4>1. PICK k \in DOMAIN Tail(todo) : Tail(todo)[k] = todo[j]
        BY <3>2, TodoHead
      <4> QED
        BY <2>3, <4>1
    <3> QED
      BY <3>1, <3>2
  <2> QED
    BY <2>1, <2>2, <2>3
<1> QED
  BY <1>4, <1>5, <1>6 DEF EventOK, ListedOnce

LEMMA NoDevIsDev == NoDev \in Devs
  BY DEF Devs

LEMMA MountUsageEvent ==
  ASSUME WorldOK, TodoOK, EventOK, pc \in {"mounts", "wait"}, todo # <<>>,
         NEW err \in Errors, NEW at \in Nat, NEW of \in Devs, TrueReading(err, at, of),
         MountUsage(err, at, of), UNCHANGED <<table, round, changed>>
  PROVE  EventOK'
<1>1. Report(err, at, of) /\ todo' = Tail(todo)
  BY DEF MountUsage
<1> QED
  BY <1>1, ReportOK

\* A step that adds nothing to the event.
LEMMA EventSame ==
  ASSUME EventOK, UNCHANGED <<event, table, round, changed>>,
         pc' \in {"mounts", "wait"} => pc \in {"mounts", "wait"} /\ todo' = todo
  PROVE  EventOK'
<1>1. SizeTrue' /\ ListedOnce' /\ event' \in Seq(Reported)
  BY DEF EventOK, SizeTrue, ListedOnce
<1>2. ListedOrToDo'
  BY DEF EventOK, ListedOrToDo, ByName
<1> QED
  BY <1>1, <1>2 DEF EventOK

LEMMA EventEmpty ==
  ASSUME event' = <<>>, pc' \notin {"mounts", "wait"} PROVE EventOK'
  BY DEF EventOK, ListedOnce, ListedOrToDo, SizeTrue

LEMMA NextEvent == ASSUME WorldOK, TodoOK, StatOK, EventOK, [Next]_vars PROVE EventOK'
<1>1. CASE UNCHANGED vars \/ Stopped \/ \E k \in calls : CallReturns(k)
  <2>1. UNCHANGED <<event, table, round, changed, pc, todo>>
    BY <1>1 DEF vars, Stopped, CallReturns, env, work
  <2> QED
    BY <2>1, EventSame
<1>2. CASE (\E e \in Mountable : Mount(e)) \/ \E i \in DOMAIN mounted : Unmount(i)
  <2>1. UNCHANGED <<event, table, round, pc, todo>> /\ changed' = ~At("select")
    BY <1>2 DEF Mount, Unmount, Remount, work
  <2>2. ListedOnce' /\ ListedOrToDo' /\ event' \in Seq(Reported)
    BY <2>1 DEF EventOK, ListedOnce, ListedOrToDo, ByName
  <2>3. SizeTrue'
    <3>1. CASE Busy
      BY <2>1, <3>1 DEF EventOK, SizeTrue, At, Busy
    <3>2. CASE ~Busy
      <4>1. event' = <<>>
        BY <2>1, <3>2 DEF WorldOK
      <4>2. SizeTrue' /\ ListedOnce'
        BY ONLY <4>1 DEF SizeTrue, ListedOnce
      <4> QED
        BY <4>2
    <3> QED
      BY <3>1, <3>2
  <2> QED
    BY <2>2, <2>3 DEF EventOK
<1>3. CASE BeginRound \/ Publish \/ Panic
  <2>1. event' = <<>> /\ pc' \notin {"mounts", "wait"}
    BY <1>3 DEF BeginRound, Publish, Panic, EndRound, Goto
  <2> QED
    BY <2>1, EventEmpty
<1>4. CASE Return \/ StatLocal \/ HangLocal \/ AnswerLocal
  <2>1. UNCHANGED <<event, table, round, changed>>
    BY <1>4 DEF Return, StatLocal, HangLocal, AnswerLocal, env, work
  <2>2. pc' \notin {"mounts", "wait"}
    BY <1>4 DEF Return, StatLocal, HangLocal, AnswerLocal, Goto, At
  <2> QED
    BY <2>1, <2>2, EventSame
<1>5. CASE BeginMounts
  <2>1. UNCHANGED <<event, table, round, changed>>
        /\ todo' = FlattenSeq([i \in DOMAIN Config |-> Expand(Config[i])])
    BY <1>5 DEF BeginMounts, env
  <2>2. SizeTrue' /\ ListedOnce' /\ event' \in Seq(Reported)
    BY <2>1 DEF EventOK, SizeTrue, ListedOnce
  <2>3. ASSUME NEW i \in DOMAIN Config, ByName(i) PROVE \E j \in DOMAIN todo' : todo'[j].path = Config[i]
    BY <2>1, <2>3, ToReport
  <2>4. ListedOrToDo'
    BY <2>1, <2>3 DEF ListedOrToDo, ByName
  <2> QED
    BY <2>2, <2>4 DEF EventOK
<1>6. CASE NothingToStat
  <2> DEFINE err == Head(todo).error
  <2>1. /\ pc = "mounts" /\ todo # <<>> /\ err # "" /\ Report(err, 0, NoDev) /\ todo' = Tail(todo)
        /\ UNCHANGED <<table, round, changed>>
    BY <1>6 DEF NothingToStat, At, env
  <2>2. err \in Errors
    BY <2>1, TodoHead DEF Items, Errors
  <2>3. TrueReading(err, 0, NoDev)
    BY <2>1 DEF TrueReading
  <2> HIDE DEF err
  <2> QED
    BY <2>1, <2>2, <2>3, ReportOK, NoDevIsDev
<1>7. TrueReading("timeout", 0, NoDev) /\ "timeout" \in Errors /\ "error" \in Errors /\ "" \in Errors
  BY DEF TrueReading, Errors, Unstatted
<1>8. CASE Statfs
  <2>1. pc = "mounts" /\ todo # <<>> /\ UNCHANGED <<table, round, changed>>
    BY <1>8 DEF Statfs, At, env
  <2>2. UNCHANGED work \/ MountUsage("timeout", 0, NoDev)
    BY <1>8 DEF Statfs, TakeNew
  <2>3. CASE UNCHANGED work
    BY <2>1, <2>3, EventSame DEF work
  <2>4. CASE MountUsage("timeout", 0, NoDev)
    BY <1>7, <2>1, <2>4, MountUsageEvent, NoDevIsDev
  <2> QED
    BY <2>2, <2>3, <2>4
<1>9. CASE Receive
  <2>1. /\ pc = "wait" /\ todo # <<>> /\ UNCHANGED <<table, round, changed>>
    BY <1>9 DEF Receive, At, env, TodoOK
  <2>2. PICK k \in calls : k.id = cur /\ MountUsage(IF k.st = "ok" THEN "" ELSE "error", k.at, k.of)
    BY <1>9 DEF Receive
  <2>3. PICK a \in calls : Awaited(a)
    BY <2>1 DEF StatOK
  <2>4. k = a
    BY <2>2, <2>3 DEF StatOK, Unique, Awaited
  <2> DEFINE err == IF k.st = "ok" THEN "" ELSE "error"
  <2>5. err \in Errors /\ k.at \in Nat /\ k.of \in Devs
    BY <1>7 DEF StatOK, Call
  <2>6. TrueReading(err, k.at, k.of)
    BY <2>3, <2>4 DEF TrueReading, Awaited
  <2>7. MountUsage(err, k.at, k.of)
    BY <2>2
  <2> HIDE DEF err
  <2> QED
    BY <2>1, <2>5, <2>6, <2>7, MountUsageEvent
<1>10. CASE Timeout
  <2>1. /\ pc = "wait" /\ todo # <<>> /\ UNCHANGED <<table, round, changed>>
        /\ MountUsage("timeout", 0, NoDev)
    BY <1>10 DEF Timeout, TimedOut, At, env, TodoOK
  <2> QED
    BY <1>7, <2>1, MountUsageEvent, NoDevIsDev
<1> QED
  BY <1>1, <1>2, <1>3, <1>4, <1>5, <1>6, <1>8, <1>9, <1>10 DEF Next, Collect, Environment

LEMMA SpecEvent == Spec => [](WorldOK /\ TodoOK /\ StatOK /\ EventOK)
<1>1. Init => WorldOK /\ TodoOK /\ StatOK /\ EventOK
  <2> SUFFICES ASSUME Init PROVE WorldOK /\ TodoOK /\ StatOK /\ EventOK
    OBVIOUS
  <2>1. WorldOK /\ TodoOK /\ StatOK
    BY InitWorld, InitStat
  <2>2. event = <<>> /\ pc \notin {"mounts", "wait"}
    BY DEF Init
  <2>3. EventOK
    BY ONLY <2>2 DEF EventOK, ListedOnce, ListedOrToDo, SizeTrue
  <2> QED
    BY <2>1, <2>3
<1>2. WorldOK /\ TodoOK /\ StatOK /\ EventOK /\ [Next]_vars
        => (WorldOK /\ TodoOK /\ StatOK /\ EventOK)'
  BY NextWorld, NextTodo, NextStat, NextEvent
<1> QED
  BY <1>1, <1>2, PTL DEF Spec

\* A size in the event is of a statfs started in this round and answered by the device
\* named beside it, unless the table changed or a mount is hidden (mountUsage and statfs,
\* collector.go; Find, calculate.go).
THEOREM SizeTrueAlways == Spec => []SizeTrue
<1>1. EventOK => SizeTrue
  BY DEF EventOK
<1> QED
  BY <1>1, SpecEvent, PTL

\* At most one entry of the event is of a path.
LEMMA AtMostOneEntry ==
  ASSUME ListedOnce, NEW p PROVE Cardinality(Entries(p)) <= 1
<1>1. CASE Entries(p) = {}
  BY <1>1, FS_EmptySet
<1>2. ASSUME NEW j \in Entries(p) PROVE Cardinality(Entries(p)) <= 1
  <2>1. Entries(p) = {j}
    BY <1>2 DEF Entries, ListedOnce
  <2> QED
    BY <2>1, FS_Singleton
<1> QED
  BY <1>1, <1>2

\* When the event is published it has every configured path, and every pattern that
\* matched nothing, exactly once (mountUsages, collector.go).
THEOREM EveryPathOnceAlways == Spec => []EveryPathOnce
<1>1. EventOK => EveryPathOnce
  <2> SUFFICES ASSUME EventOK, pc = "mounts", todo = <<>>
               PROVE  /\ \A p \in Paths : Cardinality(Entries(p)) <= 1
                      /\ \A i \in DOMAIN Config : ByName(i) => Entries(Config[i]) # {}
    BY DEF EveryPathOnce, ByName, At
  <2>1. \A p \in Paths : Cardinality(Entries(p)) <= 1
    BY AtMostOneEntry DEF EventOK
  <2>2. ASSUME NEW i \in DOMAIN Config, ByName(i) PROVE Entries(Config[i]) # {}
    <3>1. DOMAIN todo = {}
      BY ONLY todo = <<>>
    <3>2. \E j \in DOMAIN event : event[j].item.path = Config[i]
      BY <2>2, <3>1 DEF EventOK, ListedOrToDo, ByName
    <3> QED
      BY <3>2 DEF Entries
  <2> QED
    BY <2>1, <2>2
<1> QED
  BY <1>1, SpecEvent, PTL

(***************************************************************************)
(* The local filesystems, sorted.                                          *)
(***************************************************************************)
LEMMA BeforeOrder ==
  ASSUME NEW entries \in Seq(Filesystems)
  PROVE  /\ \A i \in DOMAIN entries : ~Before(entries, i, i)
         /\ \A i, j \in DOMAIN entries :
              /\ i # j => Before(entries, i, j) \/ Before(entries, j, i)
              /\ ~(Before(entries, i, j) /\ Before(entries, j, i))
         /\ \A i, j, k \in DOMAIN entries :
              Before(entries, i, j) /\ Before(entries, j, k) => Before(entries, i, k)
<1> DEFINE len(i) == PathLen(entries[i].path)
<1>1. \A i \in DOMAIN entries : i \in Nat /\ len(i) \in Nat
  <2> SUFFICES ASSUME NEW i \in DOMAIN entries PROVE i \in Nat /\ len(i) \in Nat
    OBVIOUS
  <2>1. i \in Nat /\ entries[i] \in Filesystems
    OBVIOUS
  <2> QED
    BY <2>1, FilesystemPath, PathLenType
<1>2. \A i, j \in DOMAIN entries :
        Before(entries, i, j) <=> len(i) < len(j) \/ (len(i) = len(j) /\ i < j)
  BY DEF Before
<1> HIDE DEF len
<1>3. ASSUME NEW i \in DOMAIN entries, NEW j \in DOMAIN entries
      PROVE  /\ ~Before(entries, i, i)
             /\ i # j => Before(entries, i, j) \/ Before(entries, j, i)
             /\ ~(Before(entries, i, j) /\ Before(entries, j, i))
  <2>1. i \in Nat /\ j \in Nat /\ len(i) \in Nat /\ len(j) \in Nat
    BY <1>1
  <2> QED
    BY <1>2, <2>1
<1>4. ASSUME NEW i \in DOMAIN entries, NEW j \in DOMAIN entries, NEW k \in DOMAIN entries,
             Before(entries, i, j), Before(entries, j, k)
      PROVE  Before(entries, i, k)
  <2>1. /\ i \in Nat /\ j \in Nat /\ k \in Nat
        /\ len(i) \in Nat /\ len(j) \in Nat /\ len(k) \in Nat
    BY <1>1
  <2> QED
    BY <1>2, <1>4, <2>1
<1> QED
  BY <1>3, <1>4

LEMMA OnePerDeviceOK ==
  ASSUME NEW entries \in Seq(Filesystems)
  PROVE  /\ OnePerDevice(entries) \subseteq Disks(entries)
         /\ OnePerDevice(entries) \subseteq DOMAIN entries
         /\ IsFiniteSet(OnePerDevice(entries)) /\ Cardinality(OnePerDevice(entries)) \in Nat
         /\ \A i, j \in OnePerDevice(entries) : entries[i].dev = entries[j].dev => i = j
<1>1. OnePerDevice(entries) \subseteq Disks(entries) /\ Disks(entries) \subseteq DOMAIN entries
  BY DEF OnePerDevice, Disks
<1>2. IsFiniteSet(DOMAIN entries)
  BY FS_Interval
<1>3. IsFiniteSet(OnePerDevice(entries)) /\ Cardinality(OnePerDevice(entries)) \in Nat
  BY <1>1, <1>2, FS_Subset, FS_CardinalityType
<1>4. ASSUME NEW i \in OnePerDevice(entries), NEW j \in OnePerDevice(entries),
             entries[i].dev = entries[j].dev, i # j
      PROVE  FALSE
  <2>1. Before(entries, i, j) /\ Before(entries, j, i)
    BY <1>4 DEF OnePerDevice
  <2> QED
    BY <1>1, <2>1, BeforeOrder
<1> QED
  BY <1>1, <1>3, <1>4

\* There is an entry of every rank.
LEMMA RankOnto ==
  ASSUME NEW entries \in Seq(Filesystems), NEW k \in 1..Cardinality(OnePerDevice(entries))
  PROVE  \E i \in OnePerDevice(entries) : Rank(entries, i) = k - 1
<1> DEFINE S == OnePerDevice(entries)
           n == Cardinality(S)
           Less(i) == {j \in S : Before(entries, j, i)}
<1>1. S \subseteq DOMAIN entries /\ IsFiniteSet(S) /\ n \in Nat
  BY OnePerDeviceOK
<1>2. \A i \in S : Rank(entries, i) = Cardinality(Less(i))
  BY DEF Rank
<1>3. \A i \in S : /\ Less(i) \in SUBSET S /\ Less(i) # S /\ IsFiniteSet(Less(i))
                   /\ Cardinality(Less(i)) \in 0..(n - 1)
  <2> SUFFICES ASSUME NEW i \in S
               PROVE  /\ Less(i) \in SUBSET S /\ Less(i) # S /\ IsFiniteSet(Less(i))
                      /\ Cardinality(Less(i)) \in 0..(n - 1)
    OBVIOUS
  <2>1. Less(i) \in SUBSET S /\ i \notin Less(i)
    BY <1>1, BeforeOrder
  <2> HIDE DEF Less
  <2>2. /\ Less(i) # S /\ IsFiniteSet(Less(i)) /\ Cardinality(Less(i)) \in Nat
        /\ Cardinality(Less(i)) <= n /\ Cardinality(Less(i)) # n
    BY <1>1, <2>1, FS_Subset, FS_CardinalityType
  <2> HIDE DEF n
  <2> QED
    BY <1>1, <2>1, <2>2
<1>4. ASSUME NEW i \in S, NEW j \in S, Before(entries, i, j)
      PROVE  Cardinality(Less(i)) # Cardinality(Less(j))
  <2>1. Less(i) \in SUBSET Less(j)
    BY <1>1, <1>4, BeforeOrder
  <2>2. i \in Less(j) /\ i \notin Less(i)
    BY <1>1, <1>4, BeforeOrder
  <2>3. IsFiniteSet(Less(j))
    BY <1>3
  <2> HIDE DEF Less
  <2> QED
    BY <2>1, <2>2, <2>3, FS_Subset
<1> DEFINE f == [i \in S |-> Cardinality(Less(i))]
<1>5. ASSUME NEW i \in S, NEW j \in S, f[i] = f[j] PROVE i = j
  <2>1. i # j => Before(entries, i, j) \/ Before(entries, j, i)
    BY <1>1, BeforeOrder
  <2>2. Cardinality(Less(i)) = Cardinality(Less(j))
    BY <1>5
  <2> HIDE DEF S, Less
  <2> QED
    BY <1>4, <2>1, <2>2
<1>6. f \in [S -> 0..(n - 1)]
  <2> HIDE DEF n, S, Less
  <2> QED
    BY <1>3
<1>7. f \in Injection(S, 0..(n - 1))
  <2> HIDE DEF f, n, S
  <2> QED
    BY <1>5, <1>6 DEF Injection, IsInjective
<1>8. IsFiniteSet(0..(n - 1)) /\ Cardinality(0..(n - 1)) = n
  <2> HIDE DEF n
  <2> QED
    BY <1>1, FS_Interval
<1>9. f \in Surjection(S, 0..(n - 1))
  <2> HIDE DEF f, S
  <2> QED
    BY <1>7, <1>8, FS_Injection
<1>10. k - 1 \in 0..(n - 1)
  <2>1. k \in 1..n
    OBVIOUS
  <2> HIDE DEF n
  <2> QED
    BY <1>1, <2>1
<1>11. PICK i \in S : f[i] = k - 1
  <2> HIDE DEF f, S, n
  <2> QED
    BY <1>9, <1>10 DEF Surjection
<1> QED
  BY <1>2, <1>11

LEMMA LocalFilesystemsOK ==
  ASSUME NEW entries \in Seq(Filesystems)
  PROVE  LET local == LocalFilesystems(entries)
         IN  /\ local \in Seq(Filesystems)
             /\ \A j \in DOMAIN local : \E i \in Disks(entries) : local[j] = entries[i]
             /\ \A j, k \in DOMAIN local : local[j].dev = local[k].dev => j = k
<1> DEFINE local == LocalFilesystems(entries)
           S == OnePerDevice(entries)
           n == Cardinality(S)
           Ranked(k) == CHOOSE i \in S : Rank(entries, i) = k - 1
<1>1. /\ S \subseteq Disks(entries) /\ S \subseteq DOMAIN entries /\ n \in Nat
      /\ \A i, j \in S : entries[i].dev = entries[j].dev => i = j
  BY OnePerDeviceOK
<1>2. \A k \in 1..n : Ranked(k) \in S /\ Rank(entries, Ranked(k)) = k - 1
  BY RankOnto
<1>3. local = [k \in 1..n |-> entries[Ranked(k)]]
  BY DEF LocalFilesystems
<1> HIDE DEF local, S, n, Ranked
<1>4. \A k \in 1..n : local[k] = entries[Ranked(k)] /\ local[k] \in Filesystems
  BY <1>1, <1>2, <1>3
<1>5. local \in [1..n -> Filesystems]
  BY <1>3, <1>4
<1>6. local \in Seq(Filesystems) /\ DOMAIN local = 1..n
  BY <1>1, <1>5, SeqDef
<1>7. \A j \in 1..n : \E i \in Disks(entries) : local[j] = entries[i]
  BY <1>1, <1>2, <1>4
<1>8. ASSUME NEW j \in 1..n, NEW k \in 1..n, local[j].dev = local[k].dev PROVE j = k
  <2>1. Ranked(j) = Ranked(k)
    BY <1>1, <1>2, <1>4, <1>8
  <2>2. j - 1 = k - 1
    BY <1>2, <2>1
  <2> QED
    BY <2>2
<1> QED
  BY <1>6, <1>7, <1>8 DEF local

(***************************************************************************)
(* ReadOK is preserved.                                                    *)
(***************************************************************************)
LEMMA ReadEmpty ==
  ASSUME read' = <<>>, pc' \notin {"server", "hung"} PROVE ReadOK'
  BY DEF ReadOK, LocalToDo, CountedOnce, IsInjective

\* A step that reads nothing.
LEMMA ReadSame ==
  ASSUME ReadOK, UNCHANGED <<read, table>>, changed' \/ changed' = changed,
         pc' \in {"server", "hung"} => pc \in {"server", "hung"} /\ todo' = todo
  PROVE  ReadOK'
<1>1. Hidden => Hidden'
  BY DEF Hidden
<1>2. read' \in Seq(Devs) /\ CountedOnce'
  BY DEF ReadOK, CountedOnce
<1>3. LocalToDo'
  BY <1>1 DEF ReadOK, LocalToDo
<1> QED
  BY <1>2, <1>3 DEF ReadOK

\* disk.Read is answered by the filesystem that the table names at that mount point.
LEMMA AnsweredByItself ==
  ASSUME WorldOK, ReadOK, pc = "server", todo # <<>>, ~Hidden
  PROVE  Serving(mounted, Head(todo).path).dev = Head(todo).dev
<1>1. todo \in Seq(Filesystems) /\ 1 \in DOMAIN todo /\ Head(todo) = todo[1]
  BY DEF ReadOK, LocalToDo
<1>2. PICK i \in Disks(table.entries) : todo[1] = table.entries[i]
  BY <1>1 DEF ReadOK, LocalToDo
<1>3. i \in DOMAIN table.entries /\ i \notin Covered(table.entries) /\ ~changed
  BY <1>2 DEF Hidden, Disks
<1>4. table.ok
  <2>1. SUFFICES ASSUME table.entries = <<>> PROVE FALSE
    BY DEF WorldOK
  <2> QED
    BY <1>3, <2>1
<1>5. table.entries = mounted /\ mounted \in Seq(Filesystems) /\ HasRoot(mounted)
  BY <1>3, <1>4 DEF WorldOK, Busy
<1>6. Serving(mounted, mounted[i].path) = mounted[i]
  BY <1>3, <1>5, UncoveredServes
<1> QED
  BY <1>1, <1>2, <1>5, <1>6

LEMMA StatLocalRead == ASSUME WorldOK, ReadOK, StatLocal PROVE ReadOK'
<1> DEFINE d == Serving(mounted, Head(todo).path).dev
<1>1. /\ pc = "server" /\ pc' = "server" /\ todo # <<>> /\ todo' = Tail(todo)
      /\ UNCHANGED <<table, changed, mounted>> /\ read' \in {read, Append(read, d)}
  BY DEF StatLocal, At, env
<1>2. /\ todo \in Seq(Filesystems) /\ read \in Seq(Devs) /\ Len(todo) \in Nat /\ Len(todo) # 0
      /\ DOMAIN todo = 1..Len(todo)
  BY <1>1 DEF ReadOK, LocalToDo
<1>3. /\ todo' \in Seq(Filesystems) /\ Head(todo) = todo[1] /\ Head(todo) \in Filesystems
      /\ \A j \in DOMAIN todo' : j + 1 \in DOMAIN todo /\ j + 1 # 1 /\ todo'[j] = todo[j + 1]
      /\ 1 \in DOMAIN todo /\ \A j \in DOMAIN todo' : j \in Nat
  BY <1>1, <1>2
<1>4. d \in Devs
  <2>1. Head(todo).path \in AllPaths
    BY <1>3, FilesystemPath
  <2> QED
    BY <2>1, DeviceTypes DEF WorldOK
<1>5. read' \in Seq(Devs)
  BY <1>1, <1>2, <1>4
<1>6. Hidden' <=> Hidden
  BY <1>1 DEF Hidden
<1>7. /\ \A j \in DOMAIN todo' : \E i \in Disks(table.entries) : todo'[j] = table.entries[i]
      /\ \A j, k \in DOMAIN todo' : todo'[j].dev = todo'[k].dev => j = k
  <2>1. \A j \in DOMAIN todo' : \E i \in Disks(table.entries) : todo'[j] = table.entries[i]
    BY <1>1, <1>3 DEF ReadOK, LocalToDo
  <2>2. ASSUME NEW j \in DOMAIN todo', NEW k \in DOMAIN todo', todo'[j].dev = todo'[k].dev
        PROVE  j = k
    <3>1. j + 1 = k + 1
      BY <1>1, <1>3, <2>2 DEF ReadOK, LocalToDo
    <3> QED
      BY <1>3, <3>1
  <2> QED
    BY <2>1, <2>2
<1>8. CASE Hidden
  BY <1>1, <1>3, <1>5, <1>6, <1>7, <1>8 DEF ReadOK, LocalToDo, CountedOnce, Hidden
<1>9. CASE ~Hidden
  <2>1. d = todo[1].dev
    BY <1>1, <1>3, <1>9, AnsweredByItself
  <2>2. /\ \A j \in DOMAIN todo, k \in DOMAIN read : todo[j].dev # read[k]
        /\ \A j, k \in DOMAIN todo : todo[j].dev = todo[k].dev => j = k
        /\ \E i \in Disks(table.entries) : table.entries[i].dev = d
    BY <1>1, <1>3, <1>9, <2>1 DEF ReadOK, LocalToDo
  <2>3. /\ IsInjective(read)
        /\ \A k \in DOMAIN read : \E i \in Disks(table.entries) : table.entries[i].dev = read[k]
    BY <1>9 DEF ReadOK, CountedOnce, Hidden
  <2> HIDE DEF d
  <2>4. CASE read' = read
    <3>1. \A j \in DOMAIN todo', k \in DOMAIN read' : todo'[j].dev # read'[k]
      BY <1>3, <2>2, <2>4
    <3>2. CountedOnce'
      BY <1>1, <2>3, <2>4 DEF CountedOnce
    <3> QED
      BY <1>1, <1>3, <1>5, <1>7, <3>1, <3>2 DEF ReadOK, LocalToDo
  <2>5. CASE read' = Append(read, d)
    <3> DEFINE n == Len(read) + 1
    <3>1. /\ DOMAIN read' = 1..n /\ read'[n] = d /\ n \in 1..n
          /\ \A k \in 1..n : k = n \/ (k \in DOMAIN read /\ read'[k] = read[k])
      BY <1>2, <1>4, <2>5
    <3> HIDE DEF n
    <3>2. \A j \in DOMAIN todo', k \in DOMAIN read' : todo'[j].dev # read'[k]
      BY <1>3, <2>1, <2>2, <3>1
    <3>3. ASSUME NEW j \in 1..n, NEW k \in 1..n, read'[j] = read'[k] PROVE j = k
      BY <1>3, <2>1, <2>2, <2>3, <3>1, <3>3 DEF IsInjective
    <3>4. IsInjective(read')
      BY <3>1, <3>3 DEF IsInjective
    <3>5. \A k \in 1..n : \E i \in Disks(table.entries) : table.entries[i].dev = read'[k]
      BY <2>2, <2>3, <3>1
    <3>6. CountedOnce'
      BY <1>1, <3>1, <3>4, <3>5 DEF CountedOnce
    <3> QED
      BY <1>1, <1>3, <1>5, <1>7, <3>2, <3>6 DEF ReadOK, LocalToDo
  <2> QED
    BY <1>1, <2>4, <2>5
<1> QED
  BY <1>8, <1>9

LEMMA BeginRoundRead == ASSUME WorldOK, BeginRound PROVE ReadOK'
<1>1. /\ table' \in [ok : BOOLEAN, entries : Seq(Filesystems)] /\ read' = <<>>
      /\ todo' = LocalFilesystems(table'.entries)
  <2>1. WorldOK'
    BY NextWorld DEF Next
  <2> QED
    BY <2>1 DEF BeginRound, WorldOK
<1>2. PICK t \in Seq(Filesystems) : t = table'.entries
  BY <1>1
<1>3. /\ todo' \in Seq(Filesystems)
      /\ \A j \in DOMAIN todo' : \E i \in Disks(table'.entries) : todo'[j] = table'.entries[i]
      /\ \A j, k \in DOMAIN todo' : todo'[j].dev = todo'[k].dev => j = k
  BY <1>1, <1>2, LocalFilesystemsOK
<1>4. DOMAIN read' = {} /\ read' \in Seq(Devs)
  BY ONLY <1>1
<1>5. IsInjective(read')
  BY ONLY <1>4 DEF IsInjective
<1>6. CountedOnce'
  BY ONLY <1>4, <1>5 DEF CountedOnce
<1>7. LocalToDo'
  BY ONLY <1>3, <1>4 DEF LocalToDo
<1> QED
  BY <1>4, <1>6, <1>7 DEF ReadOK

LEMMA NextRead == ASSUME WorldOK, ReadOK, [Next]_vars PROVE ReadOK'
<1>1. CASE UNCHANGED vars \/ Stopped \/ \E k \in calls : CallReturns(k)
  <2>1. UNCHANGED <<read, table, changed, pc, todo>>
    BY <1>1 DEF vars, Stopped, CallReturns, env, work
  <2> QED
    BY <2>1, ReadSame
<1>2. CASE (\E e \in Mountable : Mount(e)) \/ \E i \in DOMAIN mounted : Unmount(i)
  <2>1. UNCHANGED <<read, table, pc, todo>> /\ changed' = ~At("select")
    BY <1>2 DEF Mount, Unmount, Remount, work
  <2>2. CASE Busy
    <3>1. changed'
      BY <2>1, <2>2 DEF At, Busy
    <3> QED
      BY <2>1, <3>1, ReadSame
  <2>3. CASE ~Busy
    <3>1. read' = <<>> /\ pc' \notin {"server", "hung"}
      BY <2>1, <2>3 DEF WorldOK, Busy
    <3> QED
      BY <3>1, ReadEmpty
  <2> QED
    BY <2>2, <2>3
<1>3. CASE BeginRound
  BY <1>3, BeginRoundRead
<1>4. CASE StatLocal
  BY <1>4, StatLocalRead
<1>5. CASE Publish \/ Panic
  <2>1. read' = <<>> /\ pc' \notin {"server", "hung"}
    BY <1>5 DEF Publish, Panic, EndRound, Goto
  <2> QED
    BY <2>1, ReadEmpty
<1>6. CASE HangLocal \/ AnswerLocal
  <2>1. UNCHANGED <<read, table, changed, todo>> /\ pc \in {"server", "hung"}
    BY <1>6 DEF HangLocal, AnswerLocal, At, env, work
  <2> QED
    BY <2>1, ReadSame
<1>7. CASE Return \/ BeginMounts
  <2>1. UNCHANGED <<read, table, changed>> /\ pc' \notin {"server", "hung"}
    BY <1>7 DEF Return, BeginMounts, Goto, env, work
  <2> QED
    BY <2>1, ReadSame
<1>8. CASE NothingToStat \/ Statfs \/ Receive \/ Timeout
  <2>1. UNCHANGED <<read, table, changed>>
    BY <1>8 DEF NothingToStat, Statfs, Receive, Timeout, env
  <2>2. pc' \notin {"server", "hung"}
    BY <1>8 DEF NothingToStat, Statfs, Receive, Timeout, TakeNew, StartCall, MountUsage, Goto, At
  <2> QED
    BY <2>1, <2>2, ReadSame
<1> QED
  BY <1>1, <1>2, <1>3, <1>4, <1>5, <1>6, <1>7, <1>8 DEF Next, Collect, Environment

\* The server's total counts no device twice and only disks of the table: serverStorage
\* (collector.go) on what LocalFilesystems (calculate.go) picks, unless the table changed
\* or one disk is mounted over another.
THEOREM CountedOnceAlways == Spec => []CountedOnce
<1>1. Init => WorldOK /\ ReadOK
  <2> SUFFICES ASSUME Init PROVE WorldOK /\ ReadOK
    OBVIOUS
  <2>1. WorldOK
    BY InitWorld
  <2>2. read = <<>> /\ pc \notin {"server", "hung"}
    BY DEF Init
  <2>3. ReadOK
    BY ONLY <2>2 DEF ReadOK, LocalToDo, CountedOnce, IsInjective
  <2> QED
    BY <2>1, <2>3
<1>2. WorldOK /\ ReadOK /\ [Next]_vars => (WorldOK /\ ReadOK)'
  BY NextWorld, NextRead
<1>3. WorldOK /\ ReadOK => CountedOnce
  BY DEF ReadOK
<1> QED
  BY <1>1, <1>2, <1>3, PTL DEF Spec
=============================================================================
