---------------------------- MODULE SdEmu_proofs ----------------------------
(***************************************************************************)
(* The FAT describes the files as they are served, and read delivers what  *)
(* it promises outside the clusters that padding shadows: for every        *)
(* cluster size, every directory and every order of seeks and reads.       *)
(*                                                                         *)
(* BytesStored is not inductive: a read that is served from the cache is   *)
(* right because of what earlier reads left behind (HostInPlace), and a    *)
(* look-up finds the right file because the files lie in order, each in    *)
(* clusters of its own (LaidOut).                                          *)
(***************************************************************************)
EXTENDS SdEmu, SequenceTheorems, TLAPS

USE GeometryAssumption

-----------------------------------------------------------------------------
(* Arithmetic of clusters *)

\* Longer runs of clusters have more bytes.
LEMMA Monotone ==
  ASSUME NEW a \in Int, NEW b \in Int, a <= b
  PROVE  a * ClusterSize <= b * ClusterSize
<1>1. (b - a) * ClusterSize >= 0 BY SMT
<1>2. (b - a) * ClusterSize = b * ClusterSize - a * ClusterSize BY SMT
<1>3. a * ClusterSize \in Int /\ b * ClusterSize \in Int BY SMT
<1> QED BY <1>1, <1>2, <1>3

\* An address is a cluster and a place in it.
LEMMA Division ==
  ASSUME NEW p \in Nat
  PROVE  /\ p \div ClusterSize \in Nat /\ p % ClusterSize \in 0 .. ClusterSize - 1
         /\ p = (p \div ClusterSize) * ClusterSize + (p % ClusterSize)
BY SMT

\* And is so in one way only.
LEMMA DivisionUnique ==
  ASSUME NEW p \in Nat, NEW q \in Nat, NEW r \in 0 .. ClusterSize - 1,
         p = q * ClusterSize + r
  PROVE  p \div ClusterSize = q
<1> DEFINE d == p \div ClusterSize
           e == p % ClusterSize
<1>1. d \in Nat /\ e \in 0 .. ClusterSize - 1 /\ p = d * ClusterSize + e BY Division
<1> HIDE DEF d, e
<1>2. CASE d < q
  <2>1. (d + 1) * ClusterSize <= q * ClusterSize BY <1>1, <1>2, Monotone
  <2>2. (d + 1) * ClusterSize = d * ClusterSize + ClusterSize BY <1>1, SMT
  <2>3. d * ClusterSize \in Int /\ q * ClusterSize \in Int BY <1>1, SMT
  <2> QED BY <1>1, <2>1, <2>2, <2>3
<1>3. CASE d > q
  <2>1. (q + 1) * ClusterSize <= d * ClusterSize BY <1>1, <1>3, Monotone
  <2>2. (q + 1) * ClusterSize = q * ClusterSize + ClusterSize BY <1>1, SMT
  <2>3. d * ClusterSize \in Int /\ q * ClusterSize \in Int BY <1>1, SMT
  <2> QED BY <1>1, <2>1, <2>2, <2>3
<1>4. d = q BY <1>1, <1>2, <1>3
<1> QED BY <1>4 DEF d

\* How many clusters a file has, against the quotient that the look-up uses.
LEMMA Count ==
  ASSUME NEW s \in Nat
  PROVE  /\ ClustersCount(s) \in Nat
         /\ s % ClusterSize = 0 => ClustersCount(s) = s \div ClusterSize
         /\ s % ClusterSize # 0 => ClustersCount(s) = s \div ClusterSize + 1
         /\ s > 0 => ClustersCount(s) = (s - 1) \div ClusterSize + 1
         /\ s = 0 => ClustersCount(s) = 0
         /\ ClustersCount(s) = 0 => s = 0
         /\ s <= ClustersCount(s) * ClusterSize
<1> DEFINE q == s \div ClusterSize
           r == s % ClusterSize
           n == ClustersCount(s)
<1>1. q \in Nat /\ r \in 0 .. ClusterSize - 1 /\ s = q * ClusterSize + r BY Division
<1>2. n = (s + ClusterSize - 1) \div ClusterSize BY DEF ClustersCount
<1>3. q * ClusterSize \in Nat BY <1>1, SMT
<1>4. (q + 1) * ClusterSize = q * ClusterSize + ClusterSize BY <1>1, SMT
<1> HIDE DEF q, r, n
<1>5. CASE r = 0
  <2>1. s + ClusterSize - 1 = q * ClusterSize + (ClusterSize - 1) BY <1>1, <1>3, <1>5
  <2>2. n = q BY <1>1, <1>2, <2>1, DivisionUnique
  <2>3. s > 0 => (s - 1) \div ClusterSize = q - 1
    <3> SUFFICES ASSUME s > 0 PROVE (s - 1) \div ClusterSize = q - 1 OBVIOUS
    <3>1. q >= 1 BY <1>1, <1>5, SMT
    <3>2. (q - 1) * ClusterSize = q * ClusterSize - ClusterSize BY <1>1, SMT
    <3>3. s - 1 = (q - 1) * ClusterSize + (ClusterSize - 1) BY <1>1, <1>3, <1>5, <3>2
    <3>4. q - 1 \in Nat /\ s - 1 \in Nat BY <1>1, <3>1
    <3> QED BY <3>3, <3>4, DivisionUnique
  <2>4. q = 0 => s = 0 BY <1>1, <1>5, SMT
  <2>5. s = 0 => q = 0 BY <1>1, <1>5, SMT
  <2> QED BY <1>1, <1>3, <1>5, <2>2, <2>3, <2>4, <2>5 DEF n, q, r
<1>6. CASE r # 0
  <2>1. s + ClusterSize - 1 = (q + 1) * ClusterSize + (r - 1) BY <1>1, <1>3, <1>4, <1>6
  <2>2. n = q + 1 BY <1>1, <1>2, <1>6, <2>1, DivisionUnique
  <2>3. (s - 1) \div ClusterSize = q
    <3>1. s - 1 = q * ClusterSize + (r - 1) /\ s - 1 \in Nat BY <1>1, <1>3, <1>6
    <3> QED BY <1>1, <1>6, <3>1, DivisionUnique
  <2>4. s > 0 BY <1>1, <1>3, <1>6
  <2>5. s <= (q + 1) * ClusterSize BY <1>1, <1>3, <1>4
  <2> QED BY <1>1, <1>6, <2>2, <2>3, <2>4, <2>5 DEF n, q, r
<1> QED BY <1>5, <1>6

\* An address lies in the range that is served as a file's without a look-up just
\* when the look-up takes its cluster to be the file's.
LEMMA ClusterRange ==
  ASSUME NEW p \in Nat, NEW f \in Nat, f >= 2, NEW s \in Nat
  PROVE  LET first == (f - 2) * ClusterSize
         IN  (first <= p /\ p <= first + (s \div ClusterSize + 1) * ClusterSize - 1)
             <=> (f <= Cluster(p) /\ Cluster(p) <= f + s \div ClusterSize)
<1> DEFINE q == p \div ClusterSize
           r == p % ClusterSize
           n == s \div ClusterSize
           g == f - 2
<1>1. q \in Nat /\ r \in 0 .. ClusterSize - 1 /\ p = q * ClusterSize + r BY Division
<1>2. n \in Nat /\ g \in Nat BY Division
<1>3. Cluster(p) = q + 2 BY DEF Cluster
<1> HIDE DEF q, r, n
<1>4. q * ClusterSize \in Int /\ g * ClusterSize \in Int /\ (n + 1) * ClusterSize \in Int
  BY <1>1, <1>2, SMT
<1>5. g * ClusterSize <= p <=> g <= q
  <2>1. CASE g <= q BY <1>1, <1>2, <1>4, <2>1, Monotone
  <2>2. CASE g > q
    <3>1. (q + 1) * ClusterSize <= g * ClusterSize BY <1>1, <1>2, <2>2, Monotone
    <3>2. (q + 1) * ClusterSize = q * ClusterSize + ClusterSize BY <1>1, SMT
    <3>3. g * ClusterSize > p BY <1>1, <1>4, <3>1, <3>2
    <3> QED BY <1>1, <1>2, <1>4, <2>2, <3>3
  <2> QED BY <1>1, <1>2, <2>1, <2>2
<1>6. p <= g * ClusterSize + (n + 1) * ClusterSize - 1 <=> q <= g + n
  <2> DEFINE e == g + n + 1
  <2>1. e * ClusterSize = g * ClusterSize + (n + 1) * ClusterSize BY <1>2, SMT
  <2>2. e \in Nat BY <1>2
  <2> HIDE DEF e
  <2>3. CASE q < e
    <3>1. (q + 1) * ClusterSize <= e * ClusterSize BY <1>1, <2>2, <2>3, Monotone
    <3>2. (q + 1) * ClusterSize = q * ClusterSize + ClusterSize BY <1>1, SMT
    <3>3. p <= e * ClusterSize - 1 BY <1>1, <1>4, <2>1, <3>1, <3>2
    <3> QED BY <1>1, <1>2, <1>4, <2>1, <2>3, <3>3 DEF e
  <2>4. CASE q >= e
    <3>1. e * ClusterSize <= q * ClusterSize BY <1>1, <2>2, <2>4, Monotone
    <3>2. p >= e * ClusterSize BY <1>1, <1>4, <2>1, <3>1
    <3> QED BY <1>1, <1>2, <1>4, <2>1, <2>4, <3>2 DEF e
  <2> QED BY <1>1, <2>2, <2>3, <2>4
<1> QED BY <1>1, <1>2, <1>3, <1>5, <1>6 DEF n

\* The addresses of a file's bytes are in the file's clusters.
LEMMA BytesInClusters ==
  ASSUME NEW p \in Nat, NEW f \in Nat, f >= 2, NEW s \in Nat,
         (f - 2) * ClusterSize <= p, p < (f - 2) * ClusterSize + s
  PROVE  f <= Cluster(p) /\ Cluster(p) < f + ClustersCount(s)
<1> DEFINE q == p \div ClusterSize
           r == p % ClusterSize
           n == ClustersCount(s)
           g == f - 2
<1>1. q \in Nat /\ r \in 0 .. ClusterSize - 1 /\ p = q * ClusterSize + r BY Division
<1>2. n \in Nat /\ s <= n * ClusterSize BY Count
<1>3. g \in Nat /\ g * ClusterSize <= p /\ p < g * ClusterSize + s OBVIOUS
<1>4. Cluster(p) = q + 2 BY DEF Cluster
<1>5. f = g + 2 OBVIOUS
<1> HIDE DEF q, r, n, g
<1>6. q * ClusterSize \in Int /\ g * ClusterSize \in Int /\ n * ClusterSize \in Int
  BY <1>1, <1>2, <1>3, SMT
<1>7. g <= q
  <2> SUFFICES ASSUME g > q PROVE FALSE BY <1>1, <1>3
  <2>1. (q + 1) * ClusterSize <= g * ClusterSize BY <1>1, <1>3, Monotone
  <2>2. (q + 1) * ClusterSize = q * ClusterSize + ClusterSize BY <1>1, SMT
  <2> QED BY <1>1, <1>3, <1>6, <2>1, <2>2
<1>8. q < g + n
  <2> SUFFICES ASSUME g + n <= q PROVE FALSE BY <1>1, <1>2, <1>3
  <2>1. (g + n) * ClusterSize <= q * ClusterSize BY <1>1, <1>2, <1>3, Monotone
  <2>2. (g + n) * ClusterSize = g * ClusterSize + n * ClusterSize BY <1>2, <1>3, SMT
  <2> QED BY <1>1, <1>2, <1>3, <1>6, <2>1, <2>2
<1> QED BY <1>1, <1>2, <1>3, <1>4, <1>5, <1>7, <1>8 DEF n

-----------------------------------------------------------------------------
(* What a look-up finds *)

\* The files lie in the order of the directory, each in clusters of its own.
LaidOut ==
    /\ \A k \in 1 .. Len(toc) :
           /\ toc[k].cluster_no >= 2
           /\ toc[k].cluster_no + ClustersCount(toc[k].filesize) <= freecluster
    /\ \A j, k \in 1 .. Len(toc) : j < k =>
           toc[j].cluster_no + ClustersCount(toc[j].filesize) <= toc[k].cluster_no

\* The types of an entry of the directory.
LEMMA Entry ==
  ASSUME TypeOK, NEW k \in 1 .. Len(toc)
  PROVE  toc[k].cluster_no \in Nat /\ toc[k].filesize \in Nat
<1>1. toc \in Seq(File) BY DEF TypeOK
<1>2. toc[k] \in File BY <1>1
<1> QED BY <1>2 DEF File

\* Clusters are numbered.
LEMMA ClusterType == ASSUME NEW p \in Nat PROVE Cluster(p) \in Nat
<1>1. p \div ClusterSize \in Nat BY Division
<1> QED BY <1>1 DEF Cluster

\* A file begins at an address.
LEMMA StartType ==
  ASSUME TypeOK, LaidOut, NEW k \in 1 .. Len(toc)
  PROVE  Start(k) \in Nat /\ End(k) \in Nat
<1> DEFINE g == toc[k].cluster_no - 2
           n == toc[k].filesize \div ClusterSize + 1
<1>1. g \in Nat BY Entry DEF LaidOut
<1>2. toc[k].filesize \div ClusterSize \in Nat
  <2>1. toc[k].filesize \in Nat BY Entry
  <2> QED BY <2>1, Division
<1>5. n \in Nat /\ n >= 1 BY <1>2
<1> HIDE DEF g, n
<1>3. g * ClusterSize \in Nat BY <1>1, SMT
<1>4. n * ClusterSize \in Nat /\ n * ClusterSize >= 1 BY <1>5, SMT
<1> QED BY <1>3, <1>4 DEF Start, End, g, n

\* The address of a file's byte is in a cluster of the file.
LEMMA WithinClusters ==
  ASSUME TypeOK, LaidOut, NEW k \in 1 .. Len(toc), NEW pos \in Nat, Within(k, pos)
  PROVE  /\ toc[k].cluster_no <= Cluster(pos)
         /\ Cluster(pos) < toc[k].cluster_no + ClustersCount(toc[k].filesize)
<1>1. toc[k].cluster_no \in Nat /\ toc[k].filesize \in Nat BY Entry
<1>2. toc[k].cluster_no >= 2 BY DEF LaidOut
<1>3. /\ (toc[k].cluster_no - 2) * ClusterSize <= pos
      /\ pos < (toc[k].cluster_no - 2) * ClusterSize + toc[k].filesize
  BY DEF Within, Start
<1> QED BY <1>1, <1>2, <1>3, BytesInClusters

\* The quotient of a size, against the number of clusters.
LEMMA Quotient ==
  ASSUME NEW s \in Nat
  PROVE  /\ s \div ClusterSize \in Nat /\ ClustersCount(s) \in Nat
         /\ ClustersCount(s) <= s \div ClusterSize + 1
         /\ s \div ClusterSize <= ClustersCount(s)
         /\ s \div ClusterSize = ClustersCount(s) => s % ClusterSize = 0
<1>1. s \div ClusterSize \in Nat /\ s % ClusterSize \in Nat BY Division
<1>2. ClustersCount(s) \in Nat BY Count
<1>3. s % ClusterSize = 0 => ClustersCount(s) = s \div ClusterSize BY Count
<1>4. s % ClusterSize # 0 => ClustersCount(s) = s \div ClusterSize + 1 BY Count
<1> QED BY <1>1, <1>2, <1>3, <1>4

\* A file that claims a cluster without shadowing another is the one whose bytes
\* are there.
LEMMA ReadRight ==
  ASSUME TypeOK, LaidOut, NEW k \in 1 .. Len(toc), NEW pos \in Nat,
         Claims(k, Cluster(pos)), ~Shadowed(pos)
  PROVE  Stored(IF pos < Start(k) + toc[k].filesize THEN <<k, pos - Start(k)>> ELSE Zero, pos)
<1> DEFINE c == Cluster(pos)
           Cc(i) == ClustersCount(toc[i].filesize)
           Dv(i) == toc[i].filesize \div ClusterSize
<1>1. c \in Nat BY ClusterType
<1>2. c >= toc[k].cluster_no /\ c <= toc[k].cluster_no + Dv(k) BY DEF Claims
<1>3. \A i \in 1 .. Len(toc) : toc[i].cluster_no \in Nat /\ toc[i].filesize \in Nat BY Entry
<1>4. \A i \in 1 .. Len(toc) : /\ Dv(i) \in Nat /\ Cc(i) \in Nat
                               /\ Dv(i) = Cc(i) => toc[i].filesize % ClusterSize = 0
                               /\ Dv(i) <= Cc(i)
  BY <1>3, Quotient
<1>5. \A i, j \in 1 .. Len(toc) : i < j => toc[i].cluster_no + Cc(i) <= toc[j].cluster_no
  BY DEF LaidOut
<1>6. ASSUME NEW j \in 1 .. Len(toc), Within(j, pos) PROVE j = k
  <2>1. toc[j].cluster_no <= c /\ c < toc[j].cluster_no + Cc(j) BY <1>6, WithinClusters
  <2>2. Len(toc) \in Nat BY DEF TypeOK
  <2> HIDE DEF c, Cc, Dv
  <2>3. ~(j < k)
    <3> SUFFICES ASSUME j < k PROVE FALSE OBVIOUS
    <3>1. toc[j].cluster_no + Cc(j) <= toc[k].cluster_no BY <1>5
    <3>2. Cc(j) \in Nat /\ toc[j].cluster_no \in Nat /\ toc[k].cluster_no \in Nat BY <1>3, <1>4
    <3> QED BY <1>1, <1>2, <2>1, <3>1, <3>2
  <2>4. CASE k < j
    <3>1. k + 1 \in 2 .. Len(toc) /\ k + 1 \in 1 .. Len(toc) BY <2>2, <2>4
    <3>2. toc[k].cluster_no + Cc(k) <= toc[k + 1].cluster_no BY <1>5, <3>1
    <3>3. toc[k + 1].cluster_no <= toc[j].cluster_no
      <4>1. CASE j = k + 1 BY <1>3, <4>1
      <4>2. CASE k + 1 < j BY <1>3, <1>4, <1>5, <3>1, <4>2
      <4> QED BY <2>4, <4>1, <4>2
    <3>8. /\ Dv(k) \in Nat /\ Cc(k) \in Nat /\ Dv(k) <= Cc(k) /\ toc[k].cluster_no \in Nat
          /\ toc[k + 1].cluster_no \in Nat /\ toc[j].cluster_no \in Nat
      BY <1>3, <1>4, <3>1
    <3>9. toc[k + 1].cluster_no <= c BY <1>1, <2>1, <3>3, <3>8
    <3>10. Cc(k) <= Dv(k) BY <1>1, <1>2, <3>2, <3>8, <3>9
    <3>11. Dv(k) = Cc(k) BY <3>8, <3>10
    <3>12. toc[k + 1].cluster_no = c BY <1>1, <1>2, <3>2, <3>8, <3>9, <3>11
    <3>4. Dv(k) = Cc(k) /\ toc[k + 1].cluster_no = c BY <3>11, <3>12
    <3>5. toc[k].filesize % ClusterSize = 0 BY <1>4, <3>4
    <3>6. (k + 1) - 1 = k OBVIOUS
    <3>7. Shadowed(pos) BY <3>1, <3>4, <3>5, <3>6 DEF Shadowed, c
    <3> QED BY <3>7
  <2> QED BY <2>3, <2>4
<1>7. Start(k) <= pos
  <2>1. toc[k].cluster_no >= 2 BY DEF LaidOut
  <2>2. (toc[k].cluster_no - 2) * ClusterSize <= pos
    BY <1>2, <1>3, <2>1, ClusterRange
  <2> QED BY <2>2 DEF Start
<1>8. DOMAIN toc = 1 .. Len(toc) BY DEF TypeOK
<1>9. CASE pos < Start(k) + toc[k].filesize
  <2>1. Within(k, pos) BY <1>7, <1>9 DEF Within
  <2> QED BY <1>6, <1>8, <1>9, <2>1 DEF Stored
<1>10. CASE ~(pos < Start(k) + toc[k].filesize)
  <2>1. ~Within(k, pos) BY <1>10 DEF Within
  <2> QED BY <1>6, <1>8, <1>10, <2>1 DEF Stored
<1> QED BY <1>9, <1>10

\* Where no file claims the cluster, no file has a byte.
LEMMA NowhereRight ==
  ASSUME TypeOK, LaidOut, NEW pos \in Nat,
         \A k \in DOMAIN toc : ~Claims(k, Cluster(pos))
  PROVE  Stored(Zero, pos)
<1>1. DOMAIN toc = 1 .. Len(toc) BY DEF TypeOK
<1>2. ASSUME NEW k \in 1 .. Len(toc), Within(k, pos) PROVE FALSE
  <2>1. toc[k].cluster_no \in Nat /\ toc[k].filesize \in Nat BY Entry
  <2>2. /\ toc[k].cluster_no <= Cluster(pos)
        /\ Cluster(pos) < toc[k].cluster_no + ClustersCount(toc[k].filesize)
    BY <1>2, WithinClusters
  <2>3. Cluster(pos) \in Nat BY ClusterType
  <2>4. Cluster(pos) <= toc[k].cluster_no + toc[k].filesize \div ClusterSize
    <3> DEFINE d == toc[k].filesize \div ClusterSize
    <3>1. d \in Nat /\ ClustersCount(toc[k].filesize) <= d + 1
          /\ ClustersCount(toc[k].filesize) \in Nat BY <2>1, Quotient
    <3> HIDE DEF d
    <3>2. Cluster(pos) <= toc[k].cluster_no + d BY <2>1, <2>2, <2>3, <3>1
    <3> QED BY <3>2 DEF d
  <2>5. Claims(k, Cluster(pos)) BY <2>2, <2>3, <2>4, <2>1 DEF Claims
  <2> QED BY <1>1, <2>5
<1> QED BY <1>1, <1>2 DEF Stored

-----------------------------------------------------------------------------
(* The inductive invariant *)

\* Nothing is read before the volume is complete.
UnreadBefore == ~mounted => lastfile = None /\ at = -1

IInv == TypeOK /\ LaidOut /\ FatChains /\ HostInPlace /\ BytesStored /\ UnreadBefore

\* The volume has an end.
LEMMA VolumeEnd ==
  /\ posDataSector \in Nat /\ CardEnd \in Nat
  /\ posDataSector >= 1
<1>1. posDataSector \in Nat /\ posDataSector >= 1
  BY DEF posDataSector, posRootDir, posFatSector
<1>2. (FatEntries - 2) * ClusterSize \in Nat
  <2> DEFINE n == FatEntries - 2
  <2>1. n \in Nat OBVIOUS
  <2> HIDE DEF n
  <2>2. n * ClusterSize \in Nat BY <2>1, SMT
  <2> QED BY <2>2 DEF n
<1> QED BY <1>1, <1>2 DEF CardEnd

\* The first card is empty.
LEMMA InitIInv == Init => IInv
<1> SUFFICES ASSUME Init PROVE IInv OBVIOUS
<1> USE DEF Init
<1>1. TypeOK
  <2>1. toc \in Seq(File) /\ Len(toc) = 0 OBVIOUS
  <2>2. clusters \in [0 .. 2 * FatEntries - 1 -> Nat \cup {EOC}] OBVIOUS
  <2>3. position \in 0 .. CardEnd BY VolumeEnd
  <2>4. byte \in (0 .. Len(toc)) \X Int BY <2>1 DEF Zero
  <2>5. /\ freecluster \in 2 .. FatEntries /\ Len(toc) <= MaxFiles
        /\ lastfile \in 0 .. Len(toc) /\ fp \in 0 .. Len(toc)
    BY <2>1 DEF None
  <2>7. mounted \in BOOLEAN OBVIOUS
  <2>6. /\ lastfileStart \in Nat /\ lastfileEnd \in Nat
        /\ offset \in Int /\ lastPos \in Int /\ at \in Int
    OBVIOUS
  <2> HIDE DEF Init
  <2> QED BY <2>1, <2>2, <2>3, <2>4, <2>5, <2>6, <2>7 DEF TypeOK
<1>2. LaidOut BY DEF LaidOut
<1>3. FatChains BY DEF FatChains
<1>4. HostInPlace /\ BytesStored /\ UnreadBefore
  BY DEF HostInPlace, BytesStored, UnreadBefore
<1> QED BY <1>1, <1>2, <1>3, <1>4 DEF IInv

\* A step that leaves the volume, the cache and what was read leaves the invariant.
LEMMA KeptIInv ==
  ASSUME IInv, UNCHANGED <<toc, clusters, freecluster, cache, at, byte>>,
         position' \in 0 .. CardEnd, mounted' \in BOOLEAN, mounted => mounted'
  PROVE  IInv'
<1> USE DEF IInv, cache
<1>1. TypeOK' BY DEF TypeOK
<1>2. LaidOut' BY DEF LaidOut
<1>3. FatChains' BY DEF FatChains, LastCluster
<1>4. HostInPlace' BY DEF HostInPlace, Start, End, Cached, Within
<1>5. BytesStored' BY DEF BytesStored, Shadowed, Stored, Within, Start
<1>6. UnreadBefore' BY DEF UnreadBefore
<1> QED BY <1>1, <1>2, <1>3, <1>4, <1>5, <1>6

\* A chain ends in its file's last cluster.
LEMMA LastClusterType ==
  ASSUME NEW f \in Nat, NEW s \in Nat, s > 0
  PROVE  /\ f + (s - 1) \div ClusterSize \in Nat
         /\ f <= f + (s - 1) \div ClusterSize
         /\ f + (s - 1) \div ClusterSize + 1 = f + ClustersCount(s)
<1> DEFINE d == (s - 1) \div ClusterSize
<1>1. s - 1 \in Nat OBVIOUS
<1>2. d \in Nat BY <1>1, Division
<1>3. ClustersCount(s) = d + 1 BY Count
<1> HIDE DEF d
<1>4. f + d \in Nat /\ f <= f + d /\ f + d + 1 = f + ClustersCount(s) BY <1>2, <1>3
<1> QED BY <1>4 DEF d

\* A file that is added lies behind the others, with a chain of its own.
LEMMA AddFileIInv ==
  ASSUME IInv, NEW size \in Sizes, AddFile(size)
  PROVE  IInv'
<1> USE DEF IInv
<1> DEFINE n == ClustersCount(size)
           m == Len(toc)
<1>1. size \in Nat BY SizesAssumption
<1>2. n \in Nat BY <1>1, Count
<1>3. /\ toc \in Seq(File) /\ m \in Nat /\ freecluster \in 2 .. FatEntries
      /\ clusters \in [0 .. 2 * FatEntries - 1 -> Nat \cup {EOC}]
  BY DEF TypeOK
<1>4. /\ ~mounted /\ m < MaxFiles /\ freecluster + n <= FatEntries
      /\ toc' = Append(toc, [cluster_no |-> freecluster, filesize |-> size])
      /\ clusters' = Chained(freecluster, n) /\ freecluster' = freecluster + n
      /\ UNCHANGED <<mounted, position, cache, at, byte>>
  BY DEF AddFile, Room
<1>5. [cluster_no |-> freecluster, filesize |-> size] \in File BY <1>1, <1>3 DEF File
<1>6. /\ toc' \in Seq(File) /\ Len(toc') = m + 1 /\ DOMAIN toc' = 1 .. m + 1
      /\ \A k \in 1 .. m : toc'[k] = toc[k]
      /\ toc'[m + 1] = [cluster_no |-> freecluster, filesize |-> size]
  BY <1>3, <1>4, <1>5, AppendProperties
<1>7. lastfile = None /\ at = -1 /\ lastfile' = None /\ at' = -1
  BY <1>4 DEF UnreadBefore, cache
<1>8. \A c \in 0 .. 2 * FatEntries - 1 :
         clusters'[c] = IF freecluster <= c /\ c < freecluster + n - 1 THEN c + 1
                        ELSE IF c = freecluster + n - 1 THEN EOC
                        ELSE clusters[c]
  BY <1>3, <1>4 DEF Chained
<1>9. clusters' \in [0 .. 2 * FatEntries - 1 -> Nat \cup {EOC}]
  <2>1. DOMAIN clusters' = 0 .. 2 * FatEntries - 1
        /\ clusters' = [c \in 0 .. 2 * FatEntries - 1 |-> clusters'[c]]
    BY <1>3, <1>4 DEF Chained
  <2>2. \A c \in 0 .. 2 * FatEntries - 1 : clusters'[c] \in Nat \cup {EOC}
    BY <1>3, <1>8
  <2> QED BY <2>1, <2>2
<1>10. \A k \in 1 .. m : toc[k].cluster_no \in Nat /\ toc[k].filesize \in Nat BY Entry
<1>11. \A k \in 1 .. m : /\ toc[k].cluster_no >= 2
                         /\ ClustersCount(toc[k].filesize) \in Nat
                         /\ toc[k].cluster_no + ClustersCount(toc[k].filesize) <= freecluster
  BY <1>10, Count DEF LaidOut
<1> HIDE DEF n, m
<1>12. TypeOK'
  <2>1. freecluster' \in 2 .. FatEntries BY <1>2, <1>3, <1>4
  <2>2. Len(toc') <= MaxFiles BY <1>3, <1>4, <1>6
  <2>3. /\ lastfile' \in 0 .. Len(toc') /\ fp' \in 0 .. Len(toc')
        /\ byte' \in (0 .. Len(toc')) \X Int
    <3>1. 0 .. m \subseteq 0 .. m + 1 BY <1>3
    <3>2. lastfile \in 0 .. m /\ fp \in 0 .. m /\ byte \in (0 .. m) \X Int BY DEF TypeOK, m
    <3> QED BY <1>4, <1>6, <3>1, <3>2 DEF cache
  <2>4. /\ mounted' \in BOOLEAN /\ position' \in 0 .. CardEnd
        /\ lastfileStart' \in Nat /\ lastfileEnd' \in Nat
        /\ offset' \in Int /\ lastPos' \in Int /\ at' \in Int
    BY <1>4 DEF TypeOK, cache
  <2> QED BY <1>6, <1>9, <2>1, <2>2, <2>3, <2>4 DEF TypeOK
<1>13. LaidOut'
  <2>1. ASSUME NEW k \in 1 .. m + 1
        PROVE  /\ toc'[k].cluster_no >= 2
               /\ toc'[k].cluster_no + ClustersCount(toc'[k].filesize) <= freecluster'
    <3>1. CASE k = m + 1
      <4>1. toc'[k].cluster_no = freecluster /\ toc'[k].filesize = size BY <1>6, <3>1
      <4>2. freecluster >= 2 /\ freecluster + n <= freecluster' BY <1>2, <1>3, <1>4
      <4> QED BY <4>1, <4>2 DEF n
    <3>2. CASE k \in 1 .. m
      <4>1. freecluster <= freecluster' BY <1>2, <1>3, <1>4
      <4>2. toc'[k] = toc[k] BY <1>6, <3>2
      <4> DEFINE e == toc[k].cluster_no + ClustersCount(toc[k].filesize)
      <4>3. e \in Nat /\ e <= freecluster /\ toc[k].cluster_no >= 2 BY <1>10, <1>11, <3>2
      <4> HIDE DEF e
      <4>4. e <= freecluster' BY <1>2, <1>3, <1>4, <4>1, <4>3
      <4> QED BY <4>2, <4>3, <4>4 DEF e
    <3> QED BY <1>3, <3>1, <3>2
  <2>2. ASSUME NEW j \in 1 .. m + 1, NEW k \in 1 .. m + 1, j < k
        PROVE  toc'[j].cluster_no + ClustersCount(toc'[j].filesize) <= toc'[k].cluster_no
    <3>1. j \in 1 .. m BY <1>3, <2>2
    <3>2. CASE k = m + 1 BY <1>3, <1>6, <1>11, <3>1, <3>2
    <3>3. CASE k \in 1 .. m
      <4>1. toc[j].cluster_no + ClustersCount(toc[j].filesize) <= toc[k].cluster_no
        BY <2>2, <3>1, <3>3 DEF LaidOut, m
      <4> QED BY <1>6, <3>1, <3>3, <4>1
    <3> QED BY <1>3, <3>2, <3>3
  <2> QED BY <1>6, <2>1, <2>2 DEF LaidOut
<1>14. FatChains'
  <2> SUFFICES ASSUME NEW k \in 1 .. m + 1, toc'[k].filesize > 0
               PROVE  LET f == toc'[k].cluster_no
                          l == f + (toc'[k].filesize - 1) \div ClusterSize
                      IN  /\ \A c \in f .. l - 1 : clusters'[c] = c + 1
                          /\ clusters'[l] = EOC
                          /\ l < freecluster'
                          /\ \A j \in 1 .. k - 1 : toc'[j].filesize > 0 =>
                               toc'[j].cluster_no + (toc'[j].filesize - 1) \div ClusterSize < f
    BY <1>6 DEF FatChains, LastCluster
  <2> DEFINE f == toc'[k].cluster_no
             l == f + (toc'[k].filesize - 1) \div ClusterSize
  <2>1. \A i \in 1 .. m + 1 : toc'[i].cluster_no \in Nat /\ toc'[i].filesize \in Nat
    <3>1. \A i \in 1 .. m + 1 : toc'[i] \in File BY <1>6
    <3> QED BY <3>1 DEF File
  <2>2. \A i \in 1 .. m + 1 : toc'[i].filesize > 0 =>
           /\ toc'[i].cluster_no + (toc'[i].filesize - 1) \div ClusterSize \in Nat
           /\ toc'[i].cluster_no <= toc'[i].cluster_no + (toc'[i].filesize - 1) \div ClusterSize
           /\ toc'[i].cluster_no + (toc'[i].filesize - 1) \div ClusterSize + 1
              = toc'[i].cluster_no + ClustersCount(toc'[i].filesize)
    BY <2>1, LastClusterType
  <2>3. \A j \in 1 .. k - 1 : toc'[j].filesize > 0 =>
           toc'[j].cluster_no + (toc'[j].filesize - 1) \div ClusterSize < f
    <3> SUFFICES ASSUME NEW j \in 1 .. k - 1, toc'[j].filesize > 0
                 PROVE  toc'[j].cluster_no + (toc'[j].filesize - 1) \div ClusterSize < f
      OBVIOUS
    <3> DEFINE e == toc'[j].cluster_no + (toc'[j].filesize - 1) \div ClusterSize
               h == toc'[j].cluster_no + ClustersCount(toc'[j].filesize)
    <3>1. j \in 1 .. m + 1 /\ j < k BY <1>3
    <3>2. h <= f BY <1>6, <1>13, <3>1 DEF LaidOut
    <3>3. e \in Nat /\ e + 1 = h BY <2>2, <3>1
    <3>4. f \in Nat BY <2>1
    <3> HIDE DEF e, f, h
    <3>5. e < f BY <3>2, <3>3, <3>4
    <3> QED BY <3>5 DEF e
  <2>4. l \in Nat /\ f \in Nat /\ f >= 2 /\ f <= l BY <1>6, <1>13, <2>1, <2>2 DEF LaidOut
  <2>5. l < freecluster'
    <3> DEFINE h == f + ClustersCount(toc'[k].filesize)
    <3>1. l + 1 = h BY <2>2
    <3>2. h <= freecluster' BY <1>6, <1>13 DEF LaidOut
    <3>3. freecluster' \in Int BY <1>2, <1>3, <1>4
    <3> HIDE DEF h, l
    <3> QED BY <2>4, <3>1, <3>2, <3>3
  <2>6. (\A c \in f .. l - 1 : clusters'[c] = c + 1) /\ clusters'[l] = EOC
    <3>1. CASE k = m + 1
      <4>1. f = freecluster /\ toc'[k].filesize = size BY <1>6, <3>1
      <4>2. l + 1 = freecluster + n BY <2>2, <4>1 DEF n
      <4> HIDE DEF f, l
      <4>3. \A c \in f .. l : c \in 0 .. 2 * FatEntries - 1
        BY <1>2, <1>3, <1>4, <2>4, <4>1, <4>2
      <4>4. \A c \in f .. l - 1 : clusters'[c] = c + 1
        <5> SUFFICES ASSUME NEW c \in f .. l - 1 PROVE clusters'[c] = c + 1 OBVIOUS
        <5>1. c \in Nat /\ c < l /\ f <= c /\ c \in f .. l BY <2>4
        <5>2. freecluster <= c /\ c < freecluster + n - 1 BY <1>2, <1>3, <2>4, <4>1, <4>2, <5>1
        <5> QED BY <1>8, <4>3, <5>1, <5>2
      <4>5. clusters'[l] = EOC
        <5>1. l \in f .. l BY <2>4
        <5>4. l \in Nat /\ n \in Nat /\ freecluster \in Nat BY <1>2, <1>3, <2>4
        <5>5. l = freecluster + n - 1 BY <4>2, <5>4
        <5>2. l = freecluster + n - 1 /\ ~(l < freecluster + n - 1) BY <5>4, <5>5
        <5>3. l \in 0 .. 2 * FatEntries - 1 BY <4>3, <5>1
        <5> QED BY <1>8, <5>2, <5>3
      <4> QED BY <4>4, <4>5
    <3>2. CASE k \in 1 .. m
      <4>1. toc'[k] = toc[k] BY <1>6, <3>2
      <4>2. LastCluster(k) = l /\ toc[k].filesize > 0 BY <4>1 DEF LastCluster
      <4>3. /\ \A c \in f .. l - 1 : clusters[c] = c + 1
            /\ clusters[l] = EOC /\ l < freecluster
        BY <1>3, <3>2, <4>1, <4>2 DEF FatChains, m
      <4> HIDE DEF f, l
      <4>4. \A c \in f .. l : c \in 0 .. 2 * FatEntries - 1 BY <1>3, <2>4, <4>3
      <4>5. \A c \in f .. l - 1 : clusters'[c] = c + 1
        <5> SUFFICES ASSUME NEW c \in f .. l - 1 PROVE clusters'[c] = c + 1 OBVIOUS
        <5>1. c \in Nat /\ c < l /\ c \in f .. l BY <2>4
        <5>2. clusters[c] = c + 1 BY <4>3
        <5>3. ~(freecluster <= c) /\ c # freecluster + n - 1 BY <1>2, <1>3, <2>4, <4>3, <5>1
        <5> QED BY <1>8, <4>4, <5>1, <5>2, <5>3
      <4>6. clusters'[l] = EOC
        <5>1. l \in f .. l BY <2>4
        <5>2. ~(freecluster <= l) BY <1>3, <2>4, <4>3
        <5>3. l \in 0 .. 2 * FatEntries - 1 BY <4>4, <5>1
        <5> QED BY <1>8, <4>3, <5>2, <5>3
      <4> QED BY <4>5, <4>6
    <3> QED BY <1>3, <3>1, <3>2
  <2> QED BY <2>3, <2>5, <2>6
<1>15. HostInPlace' /\ BytesStored' /\ UnreadBefore'
  BY <1>7 DEF HostInPlace, BytesStored, UnreadBefore
<1> QED BY <1>12, <1>13, <1>14, <1>15

\* A read of the data area, by where the byte comes from.
LEMMA ReadDataIInv ==
  ASSUME IInv, ReadData
  PROVE  IInv'
<1> USE DEF IInv
<1> DEFINE pos == position - posDataSector
<1>1. /\ mounted /\ pos >= 0 /\ position < CardEnd
      /\ at' = pos /\ position' = position + 1
      /\ UNCHANGED <<toc, clusters, freecluster, mounted>>
  BY DEF ReadData, volume
<1>2. ReadCached(pos) \/ (\E k \in 1 .. MaxFiles : ReadOpened(pos, k)) \/ ReadNowhere(pos)
  BY DEF ReadData
<1>3. pos \in Nat
  <2>1. position \in Int BY DEF TypeOK
  <2> QED BY <1>1, <2>1, VolumeEnd
<1>4. position' \in 0 .. CardEnd
  <2>1. position \in 0 .. CardEnd BY DEF TypeOK
  <2> QED BY <1>1, <2>1, VolumeEnd
<1>5. DOMAIN toc = 1 .. Len(toc) /\ Len(toc) \in Nat BY DEF TypeOK
<1> HIDE DEF pos
<1>6. LaidOut' /\ FatChains' /\ UnreadBefore'
  <2>1. LaidOut' BY <1>1 DEF LaidOut
  <2>2. FatChains' BY <1>1 DEF FatChains, LastCluster
  <2>3. UnreadBefore' BY <1>1 DEF UnreadBefore
  <2> QED BY <2>1, <2>2, <2>3
<1>7. /\ \A k : Start(k)' = Start(k) /\ End(k)' = End(k)
      /\ \A k, p : Within(k, p)' <=> Within(k, p)
      /\ \A p : Shadowed(p)' <=> Shadowed(p)
  <2>1. \A k : Start(k)' = Start(k) /\ End(k)' = End(k) BY <1>1 DEF Start, End
  <2>2. \A k, p : Within(k, p)' <=> Within(k, p) BY <1>1, <2>1 DEF Within
  <2>3. \A p : Shadowed(p)' <=> Shadowed(p) BY <1>1 DEF Shadowed
  <2> QED BY <2>1, <2>2, <2>3
<1>8. ASSUME /\ lastfile' \in 0 .. Len(toc) /\ lastfileStart' \in Nat /\ lastfileEnd' \in Nat
             /\ fp' \in 0 .. Len(toc) /\ offset' \in Int /\ lastPos' \in Int
             /\ byte' \in (0 .. Len(toc)) \X Int
      PROVE  TypeOK'
  BY <1>1, <1>3, <1>4, <1>8 DEF TypeOK
<1>9. ASSUME ~Shadowed(pos) /\ ~(lastfile' # None /\ fp' = None) => Stored(byte', pos)
      PROVE  BytesStored'
  <2>1. Stored(byte', pos) => Stored(byte, at)' BY <1>1, <1>7 DEF Stored
  <2> QED BY <1>1, <1>7, <1>9, <2>1 DEF BytesStored
\* The byte that is delivered from file k, when the host stands in its place.
<1>10. ASSUME NEW k \in 1 .. Len(toc), NEW o \in Int, NEW last \in Int,
              Deliver(k, k, o, last, pos), Claims(k, Cluster(pos)),
              pos = last + 1 /\ Within(k, pos) => o = pos - Start(k),
              lastfile' = k, lastfileStart' = Start(k), lastfileEnd' = End(k)
       PROVE  IInv'
  <2> DEFINE from == IF pos # last + 1 THEN pos - Start(k) ELSE o
             inside == pos < Start(k) + toc[k].filesize
  <2>1. /\ byte' = IF inside THEN <<k, from>> ELSE Zero
        /\ offset' = IF inside THEN from + 1 ELSE from
        /\ lastPos' = pos /\ fp' = k
    BY <1>10 DEF Deliver
  <2>2. Start(k) \in Nat /\ End(k) \in Nat BY StartType
  <2>3. from \in Int BY <1>3, <2>2
  <2>4. Start(k) <= pos /\ pos <= End(k)
    <3>1. toc[k].cluster_no \in Nat /\ toc[k].filesize \in Nat BY Entry
    <3>2. toc[k].cluster_no >= 2 BY DEF LaidOut
    <3> QED BY <1>3, <1>10, <3>1, <3>2, ClusterRange DEF Claims, Start, End
  <2>5. inside => from = pos - Start(k) BY <1>10, <2>4 DEF Within
  <2>6. TypeOK'
    <3>1. byte' \in (0 .. Len(toc)) \X Int
      <4>1. CASE inside BY <1>5, <2>1, <2>3, <4>1
      <4>2. CASE ~inside BY <1>5, <2>1, <4>2 DEF Zero
      <4> QED BY <4>1, <4>2
    <3>2. offset' \in Int BY <2>1, <2>3
    <3>3. k \in 0 .. Len(toc) BY <1>5
    <3> QED BY <1>3, <1>8, <1>10, <2>1, <2>2, <3>1, <3>2, <3>3
  <2>7. BytesStored'
    <3>1. ~Shadowed(pos) => Stored(IF inside THEN <<k, pos - Start(k)>> ELSE Zero, pos)
      BY <1>3, <1>10, ReadRight
    <3>2. byte' = IF inside THEN <<k, pos - Start(k)>> ELSE Zero BY <2>1, <2>5
    <3> HIDE DEF inside
    <3> QED BY <1>9, <3>1, <3>2
  <2>8. HostInPlace'
    <3>1. k # None BY DEF None
    <3>2. Cached(lastPos)' BY <1>10, <2>1, <2>4, <3>1 DEF Cached
    <3>3. Within(k, pos + 1) => offset' = pos + 1 - Start(k)
      <4> SUFFICES ASSUME Within(k, pos + 1) PROVE offset' = pos + 1 - Start(k) OBVIOUS
      <4>1. toc[k].filesize \in Nat BY Entry
      <4>2. inside BY <1>3, <2>2, <4>1 DEF Within
      <4>3. from = pos - Start(k) BY <2>5, <4>2
      <4>4. offset' = from + 1 BY <2>1, <4>2
      <4> QED BY <1>3, <2>2, <4>3, <4>4
    <3>4. Within(k, lastPos + 1)' <=> Within(k, pos + 1) BY <1>7, <2>1
    <3> QED BY <1>7, <1>10, <2>1, <3>2, <3>3, <3>4 DEF HostInPlace
  <2> QED BY <1>6, <2>6, <2>7, <2>8
<1>11. CASE ReadCached(pos)
  <2> DEFINE k == lastfile
  <2>1. /\ Cached(pos) /\ UNCHANGED <<lastfile, lastfileStart, lastfileEnd>>
        /\ \/ Deliver(lastfile, fp, offset, lastPos, pos)
           \/ fp = None /\ DeliverNothing(offset, lastPos)
    BY <1>11 DEF ReadCached
  <2>2. k \in 1 .. Len(toc) /\ offset \in Int /\ lastPos \in Int
    BY <1>5, <2>1 DEF TypeOK, Cached, None
  <2>3. lastfileStart = Start(k) /\ lastfileEnd = End(k)
    BY <2>1 DEF HostInPlace, Cached
  <2>4. CASE Deliver(lastfile, fp, offset, lastPos, pos)
    <3>1. fp = k BY <2>1, <2>4 DEF HostInPlace, Cached, Deliver
    <3>2. Claims(k, Cluster(pos))
      <4>1. toc[k].cluster_no \in Nat /\ toc[k].filesize \in Nat BY <2>2, Entry
      <4>2. toc[k].cluster_no >= 2 BY <2>2 DEF LaidOut
      <4>3. Start(k) <= pos /\ pos <= End(k) BY <2>1, <2>3 DEF Cached
      <4> QED BY <1>3, <4>1, <4>2, <4>3, ClusterRange DEF Claims, Start, End
    <3>3. pos = lastPos + 1 /\ Within(k, pos) => offset = pos - Start(k)
      <4>1. lastfile # None /\ fp # None BY <2>1, <2>4 DEF Cached, Deliver
      <4>2. Within(lastfile, lastPos + 1) => offset = lastPos + 1 - lastfileStart
        BY <4>1 DEF HostInPlace
      <4> SUFFICES ASSUME pos = lastPos + 1, Within(k, pos) PROVE offset = pos - Start(k)
        OBVIOUS
      <4>3. Within(lastfile, lastPos + 1) OBVIOUS
      <4>4. offset = lastPos + 1 - lastfileStart BY <4>2, <4>3
      <4>5. lastPos + 1 - lastfileStart = pos - lastfileStart
        <5>1. lastfileStart \in Nat BY DEF TypeOK
        <5> QED BY <2>2, <5>1
      <4> QED BY <2>3, <4>4, <4>5
    <3> QED BY <1>10, <2>1, <2>2, <2>3, <2>4, <3>1, <3>2, <3>3
  <2>5. CASE fp = None /\ DeliverNothing(offset, lastPos)
    <3>1. byte' = Zero /\ offset' = offset /\ lastPos' = lastPos /\ fp' = None
      BY <2>5 DEF DeliverNothing
    <3>2. lastfile' # None BY <2>1 DEF Cached
    <3>3. BytesStored' BY <1>9, <3>1, <3>2
    <3>4. HostInPlace' BY <1>7, <2>1, <2>3, <3>1 DEF HostInPlace
    <3>5. TypeOK'
      <4>1. byte' \in (0 .. Len(toc)) \X Int /\ None \in 0 .. Len(toc)
        BY <1>5, <3>1 DEF Zero, None
      <4>2. lastfile \in 0 .. Len(toc) /\ lastfileStart \in Nat /\ lastfileEnd \in Nat
        BY DEF TypeOK
      <4> QED BY <1>8, <2>1, <2>2, <3>1, <4>1, <4>2
    <3> QED BY <1>6, <3>3, <3>4, <3>5
  <2> QED BY <2>1, <2>4, <2>5
<1>12. ASSUME NEW k \in 1 .. MaxFiles, ReadOpened(pos, k)
       PROVE  IInv'
  <2>1. /\ k \in 1 .. Len(toc) /\ Claims(k, Cluster(pos))
        /\ lastfile' = k /\ lastfileStart' = Start(k) /\ lastfileEnd' = End(k)
        /\ Deliver(k, k, 0, -1, pos) \/ DeliverNothing(0, -1)
    BY <1>5, <1>12 DEF ReadOpened, Found
  <2>2. CASE Deliver(k, k, 0, -1, pos)
    <3>1. Start(k) \in Nat BY <2>1, StartType
    <3>2. pos = -1 + 1 /\ Within(k, pos) => 0 = pos - Start(k) BY <3>1 DEF Within
    <3>3. -1 \in Int /\ 0 \in Int OBVIOUS
    <3> QED BY <1>10, <2>1, <2>2, <3>2, <3>3
  <2>3. CASE DeliverNothing(0, -1)
    <3>1. byte' = Zero /\ offset' = 0 /\ lastPos' = -1 /\ fp' = None
      BY <2>3 DEF DeliverNothing
    <3>2. lastfile' # None BY <2>1 DEF None
    <3>3. BytesStored' BY <1>9, <3>1, <3>2
    <3>4. HostInPlace' BY <1>7, <2>1, <3>1 DEF HostInPlace
    <3>5. TypeOK'
      <4>1. byte' \in (0 .. Len(toc)) \X Int /\ None \in 0 .. Len(toc) /\ k \in 0 .. Len(toc)
        BY <1>5, <2>1, <3>1 DEF Zero, None
      <4>2. Start(k) \in Nat /\ End(k) \in Nat BY <2>1, StartType
      <4> QED BY <1>8, <2>1, <3>1, <4>1, <4>2
    <3> QED BY <1>6, <3>3, <3>4, <3>5
  <2> QED BY <2>1, <2>2, <2>3
<1>13. CASE ReadNowhere(pos)
  <2>1. /\ \A k \in DOMAIN toc : ~Claims(k, Cluster(pos))
        /\ lastfile' = None /\ byte' = Zero
        /\ UNCHANGED <<lastfileStart, lastfileEnd, fp, offset, lastPos>>
    BY <1>13 DEF ReadNowhere
  <2>2. BytesStored' BY <1>3, <1>9, <2>1, NowhereRight
  <2>3. HostInPlace' BY <2>1 DEF HostInPlace
  <2>4. TypeOK'
    <3>1. byte' \in (0 .. Len(toc)) \X Int /\ None \in 0 .. Len(toc)
      BY <1>5, <2>1 DEF Zero, None
    <3>2. /\ lastfileStart \in Nat /\ lastfileEnd \in Nat /\ fp \in 0 .. Len(toc)
          /\ offset \in Int /\ lastPos \in Int
      BY DEF TypeOK
    <3> QED BY <1>8, <2>1, <3>1, <3>2
  <2> QED BY <1>6, <2>2, <2>3, <2>4
<1> QED BY <1>2, <1>11, <1>12, <1>13

\* No step leaves the invariant.
LEMMA NextIInv == IInv /\ [Next]_vars => IInv'
<1> SUFFICES ASSUME IInv, [Next]_vars PROVE IInv' OBVIOUS
<1>1. position \in 0 .. CardEnd /\ mounted \in BOOLEAN BY DEF IInv, TypeOK
<1>2. ASSUME NEW size \in Sizes, AddFile(size) PROVE IInv' BY <1>2, AddFileIInv
<1>3. CASE Mounted BY <1>1, <1>3, KeptIInv DEF Mounted
<1>4. ASSUME NEW to \in 0 .. CardEnd - 1, Seek(to) PROVE IInv'
  <2>1. to \in 0 .. CardEnd BY VolumeEnd
  <2> QED BY <1>1, <1>4, <2>1, KeptIInv DEF Seek, volume
<1>5. CASE ReadTables
  <2>1. posDataSector <= CardEnd
    <3> DEFINE n == FatEntries - 2
    <3>1. n \in Nat OBVIOUS
    <3> HIDE DEF n
    <3>2. n * ClusterSize \in Nat BY <3>1, SMT
    <3> QED BY <3>2, VolumeEnd DEF CardEnd, n
  <2>2. position + 1 \in 0 .. CardEnd BY <1>1, <1>5, <2>1, VolumeEnd DEF ReadTables
  <2> QED BY <1>1, <1>5, <2>2, KeptIInv DEF ReadTables, volume
<1>6. CASE ReadData BY <1>6, ReadDataIInv
<1>7. CASE UNCHANGED vars BY <1>1, <1>7, KeptIInv DEF vars, cache
<1> QED BY <1>2, <1>3, <1>4, <1>5, <1>6, <1>7 DEF Next

\* The inductive invariant holds of every card (SDEmulator.cpp).
THEOREM Invariance == Spec => []IInv
<1> QED BY InitIInv, NextIInv, PTL DEF Spec

\* Every variable keeps its type.
THEOREM TypeCorrect == Spec => []TypeOK
<1>1. IInv => TypeOK BY DEF IInv
<1> QED BY <1>1, Invariance, PTL

\* The FAT that init_with_directory fills holds a chain for each file, and no two
\* files share a cluster (SDEmulator.cpp:142-154).
THEOREM FatCorrect == Spec => []FatChains
<1>1. IInv => FatChains BY DEF IInv
<1> QED BY <1>1, Invariance, PTL

\* The host stands where the next address needs it (SDEmulator.cpp:216-227).
THEOREM HostStandsInPlace == Spec => []HostInPlace
<1>1. IInv => HostInPlace BY DEF IInv
<1> QED BY <1>1, Invariance, PTL

\* What read delivers outside the clusters that padding shadows is what the FAT
\* promises, after whatever was sought and read before (SDEmulator.cpp:191-230).
THEOREM BytesServed == Spec => []BytesStored
<1>1. IInv => BytesStored BY DEF IInv
<1> QED BY <1>1, Invariance, PTL
=============================================================================
