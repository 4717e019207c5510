-------------------------------- MODULE SdEmu --------------------------------
(***************************************************************************)
(* The SD card that src/SDEmulator.cpp makes of a directory of the host: a *)
(* FAT16 volume of which only the tables exist, and whose data area is     *)
(* read from the host's files, with the file last read kept open and read  *)
(* on as long as addresses follow one another.                             *)
(*                                                                         *)
(* A byte is <<file, offset>> or Zero; an entry of the FAT or of the root  *)
(* directory has one address here, as the boot sector has.  Names, dates   *)
(* and the volume label, which occupies no cluster, are left out.          *)
(***************************************************************************)
EXTENDS Integers, Sequences

CONSTANTS
    ClusterSize,   \* bytes in a cluster: 32768
    FatEntries,    \* entries of one copy of the FAT
    MaxFiles,      \* MAX_FILES, without the volume label
    RootEntries,   \* entries of the root directory that the card shows
    Sizes          \* sizes of the host's files; below 2^24, where float is exact

ASSUME GeometryAssumption == /\ ClusterSize \in Nat /\ ClusterSize >= 1
                             /\ FatEntries \in Nat /\ FatEntries >= 3
                             /\ MaxFiles \in Nat /\ RootEntries \in Nat
ASSUME SizesAssumption == Sizes \subseteq Nat

EOC  == -1          \* 0xffff: the end of a chain of clusters
Zero == <<0, 0>>    \* no file's byte
None == 0           \* -1, or a null pointer

\* The areas of the volume; the data area begins with cluster 2.
posFatSector  == 1
posRootDir    == posFatSector + 2 * FatEntries
posDataSector == posRootDir + RootEntries
CardEnd       == posDataSector + (FatEntries - 2) * ClusterSize

VARIABLES
    toc,           \* the files: their first cluster and size
    clusters,      \* the FAT
    freecluster,
    mounted,       \* init_with_directory has returned
    position,
    lastfile, lastfileStart, lastfileEnd,
    fp, offset,    \* the file that is open, and the host's position in it
    lastPos,
    at, byte       \* history: the address last read in the data area, and the byte

volume == <<toc, clusters, freecluster, mounted>>
cache  == <<lastfile, lastfileStart, lastfileEnd, fp, offset, lastPos>>
vars   == <<toc, clusters, freecluster, mounted, position, lastfile, lastfileStart,
            lastfileEnd, fp, offset, lastPos, at, byte>>

Init ==
    /\ toc = <<>>
    /\ clusters = [c \in 0 .. 2 * FatEntries - 1 |-> 0]
    /\ freecluster = 2
    /\ mounted = FALSE
    /\ position = 0
    /\ lastfile = None /\ lastfileStart = 0 /\ lastfileEnd = 0
    /\ fp = None /\ offset = 0 /\ lastPos = 0
    /\ at = -1 /\ byte = Zero
-----------------------------------------------------------------------------
(* init_with_directory *)

\* ceil(size / ClusterSize). Mutated form: one more for exact multiples.
ClustersCountMore(size) == size \div ClusterSize + 1
ClustersCount(size) == (size + ClusterSize - 1) \div ClusterSize

\* The chain of n clusters from first on; the mark of its end is written even
\* when it is empty.
Chained(first, n) ==
    [c \in DOMAIN clusters |->
        IF first <= c /\ c < first + n - 1 THEN c + 1
        ELSE IF c = first + n - 1 THEN EOC
        ELSE clusters[c]]

\* Mutated form: the loop ends one file too late.
RoomOneMore == Len(toc) <= MaxFiles
Room == Len(toc) < MaxFiles

\* One entry of the directory. That the FAT has room for it, nobody checks.
AddFile(size) ==
    /\ ~mounted
    /\ Room
    /\ freecluster + ClustersCount(size) <= FatEntries
    /\ toc' = Append(toc, [cluster_no |-> freecluster, filesize |-> size])
    /\ clusters' = Chained(freecluster, ClustersCount(size))
    /\ freecluster' = freecluster + ClustersCount(size)
    /\ UNCHANGED <<mounted, position, cache, at, byte>>

\* The directory has no more entries.
Mounted ==
    /\ ~mounted
    /\ mounted' = TRUE
    /\ UNCHANGED <<toc, clusters, freecluster, position, cache, at, byte>>
-----------------------------------------------------------------------------
(* seek, read *)

Seek(to) ==
    /\ mounted
    /\ position' = to
    /\ UNCHANGED <<volume, cache, at, byte>>

\* The boot sector, the FAT and the root directory do not touch the cache.
ReadTables ==
    /\ mounted
    /\ position < posDataSector
    /\ position' = position + 1
    /\ UNCHANGED <<volume, cache, at, byte>>

Cluster(pos) == pos \div ClusterSize + 2
Start(k) == (toc[k].cluster_no - 2) * ClusterSize
End(k) == Start(k) + (toc[k].filesize \div ClusterSize + 1) * ClusterSize - 1

\* The file that a cluster is taken to belong to: the first that reaches it.
Claims(k, c) ==
    /\ c >= toc[k].cluster_no
    /\ c <= toc[k].cluster_no + toc[k].filesize \div ClusterSize
Found(k, c) == k \in DOMAIN toc /\ Claims(k, c) /\ \A j \in 1 .. k - 1 : ~Claims(j, c)

\* Mutated form: the end of the file kept open is not looked at.
CachedFromStart(pos) == lastfile # None /\ lastfileStart <= pos
Cached(pos) == lastfile # None /\ lastfileStart <= pos /\ pos <= lastfileEnd

\* A byte of file k, which is open in f at offset o after address last was read.
\* Mutated form: sought only when going back.
DeliverForward(k, f, o, last, pos) ==
    LET from == IF pos < last + 1 THEN pos - Start(k) ELSE o
        inside == pos < Start(k) + toc[k].filesize
    IN  /\ f # None
        /\ byte' = IF inside THEN <<f, from>> ELSE Zero
        /\ offset' = IF inside THEN from + 1 ELSE from
        /\ lastPos' = pos
        /\ fp' = f

Deliver(k, f, o, last, pos) ==
    LET from == IF pos # last + 1 THEN pos - Start(k) ELSE o
        inside == pos < Start(k) + toc[k].filesize
    IN  /\ f # None
        /\ byte' = IF inside THEN <<f, from>> ELSE Zero
        /\ offset' = IF inside THEN from + 1 ELSE from
        /\ lastPos' = pos
        /\ fp' = f

\* The host could not open the file.
DeliverNothing(o, last) == byte' = Zero /\ offset' = o /\ lastPos' = last /\ fp' = None

ReadCached(pos) ==
    /\ Cached(pos)
    /\ \/ Deliver(lastfile, fp, offset, lastPos, pos)
       \/ fp = None /\ DeliverNothing(offset, lastPos)
    /\ UNCHANGED <<lastfile, lastfileStart, lastfileEnd>>

\* The file read before is closed.
ReadOpened(pos, k) ==
    /\ ~Cached(pos)
    /\ Found(k, Cluster(pos))
    /\ lastfile' = k /\ lastfileStart' = Start(k) /\ lastfileEnd' = End(k)
    /\ \/ Deliver(k, k, 0, -1, pos)
       \/ DeliverNothing(0, -1)

ReadNowhere(pos) ==
    /\ ~Cached(pos)
    /\ \A k \in DOMAIN toc : ~Claims(k, Cluster(pos))
    /\ lastfile' = None
    /\ byte' = Zero
    /\ UNCHANGED <<lastfileStart, lastfileEnd, fp, offset, lastPos>>

ReadData ==
    LET pos == position - posDataSector
    IN  /\ mounted
        /\ pos >= 0 /\ position < CardEnd
        /\ \/ ReadCached(pos)
           \/ \E k \in 1 .. MaxFiles : ReadOpened(pos, k)
           \/ ReadNowhere(pos)
        /\ at' = pos
        /\ position' = position + 1
        /\ UNCHANGED volume

Next ==
    \/ \E size \in Sizes : AddFile(size)
    \/ Mounted
    \/ \E to \in 0 .. CardEnd - 1 : Seek(to)
    \/ ReadTables
    \/ ReadData

Spec == Init /\ [][Next]_vars
-----------------------------------------------------------------------------
(* Properties *)

File == [cluster_no : Nat, filesize : Nat]

\* Every variable keeps its type.
TypeOK ==
    /\ toc \in Seq(File) /\ Len(toc) <= MaxFiles
    /\ clusters \in [0 .. 2 * FatEntries - 1 -> Nat \cup {EOC}]
    /\ freecluster \in 2 .. FatEntries /\ mounted \in BOOLEAN
    /\ position \in 0 .. CardEnd
    /\ lastfile \in 0 .. Len(toc) /\ lastfileStart \in Nat /\ lastfileEnd \in Nat
    /\ fp \in 0 .. Len(toc) /\ offset \in Int /\ lastPos \in Int /\ at \in Int
    /\ byte \in (0 .. Len(toc)) \X Int

\* The cluster of a file's last byte.
LastCluster(k) == toc[k].cluster_no + (toc[k].filesize - 1) \div ClusterSize

\* "Fill the FAT with the file's cluster chain" (SDEmulator.cpp:142): each file's
\* clusters follow one another to the one its last byte is in, where the chain
\* ends, whatever the sizes of the files before and behind it; no two files
\* share one.
FatChains ==
    \A k \in DOMAIN toc : toc[k].filesize > 0 =>
        /\ \A c \in toc[k].cluster_no .. LastCluster(k) - 1 : clusters[c] = c + 1
        /\ clusters[LastCluster(k)] = EOC
        /\ LastCluster(k) < freecluster
        /\ \A j \in 1 .. k - 1 : toc[j].filesize > 0 => LastCluster(j) < toc[k].cluster_no

\* What the FAT promises of an address: the byte of the file whose it is.
Within(k, pos) == Start(k) <= pos /\ pos < Start(k) + toc[k].filesize
Stored(b, pos) ==
    /\ \A k \in DOMAIN toc : Within(k, pos) => b = <<k, pos - Start(k)>>
    /\ (\A k \in DOMAIN toc : ~Within(k, pos)) => b = Zero

\* What read delivers, at any address and after whatever was read before, is
\* what the file there holds: the exception is "account for cluster size padding"
\* (SDEmulator.cpp:202) where there is none.
EveryByteStored == at # -1 /\ ~(lastfile # None /\ fp = None) => Stored(byte, at)

\* The first cluster of a file behind one that fills its clusters.
Shadowed(pos) ==
    \E k \in 2 .. Len(toc) : /\ toc[k].cluster_no = Cluster(pos)
                             /\ toc[k - 1].filesize % ClusterSize = 0

\* What read delivers outside those clusters, of files that the host can open, is
\* what the FAT promises: neither the file kept open nor the place in it are ever
\* those of another address (SDEmulator.cpp:191-230).
BytesStored ==
    at # -1 /\ ~Shadowed(at) /\ ~(lastfile # None /\ fp = None) => Stored(byte, at)

\* The range that is served without a look-up is the cached file's, and its next
\* address needs no seek: the host stands there (SDEmulator.cpp:216-227).
HostInPlace ==
    lastfile # None =>
        /\ lastfileStart = Start(lastfile) /\ lastfileEnd = End(lastfile)
        /\ fp # None => /\ fp = lastfile
                        /\ Cached(lastPos)
                        /\ Within(lastfile, lastPos + 1) => offset = lastPos + 1 - lastfileStart
==============================================================================
