-------------------------- MODULE FileSystemProofs --------------------------
(***************************************************************************)
(* Proofs about FileSystem, for any names, sizes and number of handles.    *)
(***************************************************************************)
EXTENDS FileSystem, FifoProofs

HandleRecord == [fd : Nat, file : Nat, pos : Nat]
SavedLine == [fd : Nat, pos : Nat, name : AllNames]

\* A name is mounted once, and read-only or writable as its name says.
NamesOnce ==
  /\ \A i, k \in DOMAIN files : files[i].name = files[k].name => i = k
  /\ \A i \in DOMAIN files : /\ files[i].writable <=> files[i].name \in Writable
                             /\ files[i].kind = "host_out" => files[i].writable
                             /\ files[i].writable => files[i].kind \in {"regular", "host_out"}

\* What mb_fs_save_handles wrote could be the table of a sound list.
SavedSound ==
  \A rec \in saved :
    /\ rec \in Seq(SavedLine)
    /\ \A j, k \in DOMAIN rec :
         j # k => rec[j].fd # rec[k].fd /\ (rec[j].name = rec[k].name => rec[j].name \notin Writable)
    /\ \A k \in DOMAIN rec : rec[k].fd <= MaxHandles + 2

\* The lowest free descriptor is never far up.
FdsBounded == \A j \in DOMAIN hs : hs[j].fd <= MaxHandles + 2

\* The inductive invariant.
FsInv == FsTypeOK /\ NamesOnce /\ SavedSound /\ FdsBounded /\ HandlesSound /\ PositionsWithin

\* An element of a sequence, by its place in the domain.
LEMMA ElementAt ==
  ASSUME NEW S, NEW q \in Seq(S), NEW k \in DOMAIN q
  PROVE  q[k] \in S
BY LenProperties, ElementOfSeq

\* FreeFd is a descriptor, and not one in use.
LEMMA FreeFdIsFree ==
  ASSUME FsTypeOK
  PROVE  FreeFd \in 0 .. Len(hs) /\ \A j \in DOMAIN hs : hs[j].fd # FreeFd
<1> DEFINE n == Len(hs)
           S == (0 .. n) \ Descriptors
<1>1. n \in Nat /\ DOMAIN hs = 1 .. n /\ S \in SUBSET (0 .. n)
  BY LenProperties DEF FsTypeOK
<1>2. S # {}
  <2>1. SUFFICES ASSUME S = {} PROVE FALSE
    OBVIOUS
  <2>2. \A x \in 0 .. n : \E j \in DOMAIN hs : hs[j].fd = x
    BY <2>1 DEF Descriptors
  <2> DEFINE f == [x \in 0 .. n |-> CHOOSE j \in DOMAIN hs : hs[j].fd = x]
  <2>3. \A x \in 0 .. n : f[x] \in 1 .. n /\ hs[f[x]].fd = x
    BY <1>1, <2>2, Zenon
  <2>4. f \in [0 .. n -> 1 .. n]
    BY <2>3
  <2>5. IsFiniteSet(0 .. n) /\ IsFiniteSet(1 .. n) /\ Cardinality(1 .. n) < Cardinality(0 .. n)
    BY <1>1, FS_Interval
  <2> HIDE DEF f
  <2>6. PICK x, y \in 0 .. n : x # y /\ f[x] = f[y]
    BY <2>4, <2>5, FS_PigeonHole
  <2> QED BY <2>3, <2>6
<1> HIDE DEF S
<1>3. Least(S) \in S
  BY <1>1, <1>2, LeastExists
<1>4. FreeFd = Least(S)
  BY DEF FreeFd, S
<1>5. FreeFd \in 0 .. n /\ FreeFd \notin Descriptors
  <2>1. FreeFd \in S
    BY <1>3, <1>4
  <2> QED BY <2>1 DEF S
<1>6. \A j \in DOMAIN hs : hs[j].fd \in Descriptors
  BY DEF Descriptors
<1> QED BY <1>1, <1>5, <1>6

\* A step that mounts, unmounts, opens and closes nothing keeps the invariant
\* when every handle is left within its file.
LEMMA SameTables ==
  ASSUME FsInv, FsTypeOK', PositionsWithin', saved' = saved,
         DOMAIN files' = DOMAIN files, DOMAIN hs' = DOMAIN hs,
         \A i \in DOMAIN files : /\ files'[i].name = files[i].name
                                 /\ files'[i].kind = files[i].kind
                                 /\ files'[i].writable = files[i].writable,
         \A j \in DOMAIN hs : hs'[j].fd = hs[j].fd /\ hs'[j].file = hs[j].file
  PROVE  FsInv'
<1>1. NamesOnce'
  BY DEF FsInv, NamesOnce, has_bytes
<1>2. SavedSound'
  BY DEF FsInv, SavedSound
<1>3. HandlesSound'
  BY DEF FsInv, HandlesSound
<1>4. FdsBounded'
  BY DEF FsInv, FdsBounded
<1> QED BY <1>1, <1>2, <1>3, <1>4 DEF FsInv

\* A handle moved to p, within its file when it must be.
LEMMA MoveHandle ==
  ASSUME FsInv, NEW j \in DOMAIN hs, NEW p \in Nat,
         hs' = [hs EXCEPT ![j].pos = p], UNCHANGED <<files, saved, linux>>,
         ~linux /\ has_bytes(files[hs[j].file]) => p <= files[hs[j].file].len
  PROVE  FsInv'
<1>1. hs \in Seq(HandleRecord) /\ DOMAIN hs = 1 .. Len(hs)
  BY LenProperties DEF FsInv, FsTypeOK, HandleRecord
<1>2. hs[j] \in HandleRecord
  BY <1>1, ElementOfSeq
<1>3. /\ hs' \in Seq(HandleRecord) /\ DOMAIN hs' = DOMAIN hs
      /\ \A k \in DOMAIN hs : hs'[k].fd = hs[k].fd /\ hs'[k].file = hs[k].file
      /\ \A k \in DOMAIN hs : hs'[k].pos = IF k = j THEN p ELSE hs[k].pos
  <2>1. [hs[j] EXCEPT !.pos = p] \in HandleRecord
    BY <1>2 DEF HandleRecord
  <2>2. hs' = [hs EXCEPT ![j] = [hs[j] EXCEPT !.pos = p]]
    OBVIOUS
  <2>3. hs' \in Seq(HandleRecord)
    BY <1>1, <2>1, <2>2, ExceptSeq
  <2> QED BY <1>1, <1>2, <2>2, <2>3 DEF HandleRecord
<1>4. FsTypeOK'
  BY <1>3 DEF FsInv, FsTypeOK, HandleRecord
<1>5. PositionsWithin'
  BY <1>3 DEF FsInv, PositionsWithin, has_bytes
<1> QED BY <1>3, <1>4, <1>5, SameTables

\* A handle added on file i, which may be emptied when no other is on it.
LEMMA AddHandle ==
  ASSUME FsInv, NEW i \in DOMAIN files, NEW p \in Nat,
         files[i].writable => ~file_is_open(i), Len(hs) < MaxHandles,
         hs' = handle_add(i, p), UNCHANGED <<saved, linux>>,
         files' \in Seq(FileRecord), DOMAIN files' = DOMAIN files,
         \A k \in DOMAIN files : /\ files'[k].name = files[k].name
                                 /\ files'[k].kind = files[k].kind
                                 /\ files'[k].writable = files[k].writable,
         \A j \in DOMAIN hs : files'[hs[j].file].len = files[hs[j].file].len,
         ~linux /\ has_bytes(files[i]) => p <= files'[i].len
  PROVE  FsInv'
<1> DEFINE h == [fd |-> FreeFd, file |-> i, pos |-> p]
           n == Len(hs)
<1>1. hs \in Seq(HandleRecord) /\ n \in Nat /\ DOMAIN hs = 1 .. n
  BY LenProperties DEF FsInv, FsTypeOK, HandleRecord
<1>2. FreeFd \in Nat /\ FreeFd <= MaxHandles + 2 /\ \A j \in DOMAIN hs : hs[j].fd # FreeFd
  BY <1>1, FreeFdIsFree, FsAssumption DEF FsInv
<1>3. i \in Nat
  BY LenProperties DEF FsInv, FsTypeOK
<1>4. h \in HandleRecord
  BY <1>2, <1>3 DEF HandleRecord
<1> HIDE DEF h
<1>5. hs' = Append(hs, h)
  BY DEF handle_add, h
<1>6. /\ hs' \in Seq(HandleRecord) /\ DOMAIN hs' = 1 .. n + 1
      /\ \A j \in DOMAIN hs : hs'[j] = hs[j]
      /\ hs'[n + 1] = h
  BY <1>1, <1>4, <1>5, AppendProperties
<1>7. h.fd = FreeFd /\ h.file = i /\ h.pos = p
  BY DEF h
<1>8. \A j \in DOMAIN hs' : j \in DOMAIN hs \/ j = n + 1
  BY <1>1, <1>6
<1>9. FsTypeOK'
  BY <1>6 DEF FsInv, FsTypeOK, HandleRecord
<1>10. HandlesSound'
  <2>0. /\ \A j, k \in DOMAIN hs : j # k => hs[j].fd # hs[k].fd
        /\ \A j \in DOMAIN hs : hs[j].file \in DOMAIN files
    BY DEF FsInv, HandlesSound
  <2>1. ASSUME NEW j \in DOMAIN hs', NEW k \in DOMAIN hs', j # k
        PROVE  hs'[j].fd # hs'[k].fd
    <3>1. CASE j \in DOMAIN hs /\ k \in DOMAIN hs
      BY <3>1, <2>0, <2>1, <1>6
    <3>2. CASE j \in DOMAIN hs /\ k = n + 1
      BY <3>2, <1>2, <1>6, <1>7
    <3>3. CASE j = n + 1 /\ k \in DOMAIN hs
      BY <3>3, <1>2, <1>6, <1>7
    <3> QED BY <2>1, <3>1, <3>2, <3>3, <1>8
  <2>2. \A j \in DOMAIN hs' : hs'[j].file \in DOMAIN files'
    BY <2>0, <1>6, <1>7, <1>8
  <2>3. \A j, k \in DOMAIN hs' :
          j # k /\ hs'[j].file = hs'[k].file => ~files'[hs'[j].file].writable
    BY <1>6, <1>7, <1>8 DEF FsInv, HandlesSound, file_is_open
  <2> QED BY <2>1, <2>2, <2>3 DEF HandlesSound
<1>11. PositionsWithin'
  <2>1. \A j \in DOMAIN hs : hs[j].file \in DOMAIN files
    BY DEF FsInv, HandlesSound
  <2> QED BY <1>6, <1>7, <1>8, <2>1 DEF FsInv, PositionsWithin, has_bytes
<1>12. NamesOnce' /\ SavedSound'
  BY DEF FsInv, NamesOnce, SavedSound, has_bytes
<1>13. FdsBounded'
  BY <1>2, <1>6, <1>7, <1>8 DEF FsInv, FdsBounded
<1> QED BY <1>9, <1>10, <1>11, <1>12, <1>13 DEF FsInv

\* File i with other bytes and another length, handles put within it.
LEMMA ChangeFile ==
  ASSUME FsInv, NEW i \in DOMAIN files, NEW g \in FileRecord,
         g.name = files[i].name, g.kind = files[i].kind, g.writable = files[i].writable,
         files' = [files EXCEPT ![i] = g], UNCHANGED <<saved, linux>>,
         hs' \in Seq(HandleRecord), DOMAIN hs' = DOMAIN hs,
         \A j \in DOMAIN hs : hs'[j].fd = hs[j].fd /\ hs'[j].file = hs[j].file,
         ~linux => \A j \in DOMAIN hs : IF hs[j].file = i
                                        THEN has_bytes(g) => hs'[j].pos <= g.len
                                        ELSE hs'[j].pos <= hs[j].pos
  PROVE  FsInv'
<1>1. files \in Seq(FileRecord) /\ files' \in Seq(FileRecord) /\ DOMAIN files' = DOMAIN files
  BY ExceptSeq DEF FsInv, FsTypeOK
<1>2. \A k \in DOMAIN files : files'[k] = IF k = i THEN g ELSE files[k]
  BY <1>1
<1>3. \A j \in DOMAIN hs : hs[j].file \in DOMAIN files
  BY DEF FsInv, HandlesSound
<1>4. FsTypeOK'
  BY <1>1 DEF FsInv, FsTypeOK, HandleRecord
<1>5. ASSUME ~linux, NEW j \in DOMAIN hs', has_bytes(files'[hs'[j].file])
      PROVE  hs'[j].pos <= files'[hs'[j].file].len
  <2>1. j \in DOMAIN hs /\ hs'[j].file = hs[j].file /\ hs[j].file \in DOMAIN files
    BY <1>3
  <2>2. CASE hs[j].file = i
    BY <1>2, <1>5, <2>1, <2>2
  <2>3. CASE hs[j].file # i
    <3>1. files'[hs[j].file] = files[hs[j].file]
      BY <1>2, <2>1, <2>3
    <3>2. hs[j].pos <= files[hs[j].file].len
      BY <1>5, <2>1, <3>1 DEF FsInv, PositionsWithin, has_bytes
    <3>3. hs[j] \in HandleRecord /\ hs'[j] \in HandleRecord /\ files[hs[j].file] \in FileRecord
      BY <1>1, <2>1, ElementAt DEF FsInv, FsTypeOK, HandleRecord
    <3>4. hs'[j].pos <= hs[j].pos
      BY <1>5, <2>1, <2>3
    <3> QED BY <2>1, <3>1, <3>2, <3>3, <3>4 DEF HandleRecord, FileRecord
  <2> QED BY <2>2, <2>3
<1>6. PositionsWithin'
  BY <1>5 DEF PositionsWithin, has_bytes
<1> QED BY <1>1, <1>2, <1>4, <1>6, SameTables

\* Where a read leaves a handle: no earlier, and within the file if it was.
LEMMA AfterReadWithin ==
  ASSUME NEW f \in FileRecord, NEW pos \in Nat, NEW n \in Nat, NEW p \in AfterRead(f, pos, n)
  PROVE  p \in Nat /\ (pos <= f.len => p <= f.len) /\ (~has_bytes(f) => p = pos)
<1> DEFINE avail == IF pos < f.len THEN f.len - pos ELSE 0
           take == Smaller(n, avail)
<1>1. f.len \in Nat
  BY DEF FileRecord
<1>2. take \in Nat /\ take <= avail
  BY <1>1 DEF Smaller
<1>3. p \in pos .. pos + take
  <2>1. CASE ~has_bytes(f)
    BY <1>2, <2>1 DEF AfterRead
  <2>2. CASE has_bytes(f) /\ host_file(f)
    BY <1>2, <2>2 DEF AfterRead
  <2>3. CASE has_bytes(f) /\ ~host_file(f)
    BY <1>2, <2>3 DEF AfterRead
  <2> QED BY <2>1, <2>2, <2>3
<1>4. ~has_bytes(f) => p = pos
  BY DEF AfterRead
<1> QED BY <1>1, <1>2, <1>3, <1>4

\* A file keeps its record through a write, whatever comes of it.
LEMMA WriteRecord ==
  ASSUME FsInv, NEW f \in FileRecord, NEW at \in Nat, NEW buf \in Buffers,
         NEW o \in Outcomes(f, at, buf)
  PROVE  /\ o.file \in FileRecord
         /\ o.file.name = f.name /\ o.file.kind = f.kind /\ o.file.writable = f.writable
         /\ o.file.len >= f.len /\ o.ok \in BOOLEAN
         /\ o.ok => o.file.len >= at + Len(buf)
<1> DEFINE B == Bytes \cup {0, Junk}
           n == Len(buf)
<1>1. /\ n \in Nat /\ buf \in [1 .. n -> B] /\ n \in Sizes
  <2>1. PICK k \in Sizes : buf \in [1 .. k -> Bytes]
    BY DEF Buffers
  <2>2. k \in Nat
    BY <2>1, FsAssumption
  <2>3. buf \in Seq(Bytes) /\ Len(buf) = k
    BY <2>1, <2>2, IsASeq, LenProperties
  <2> QED BY <2>1, <2>2, <2>3
<1>2. /\ f.data \in Seq(B) /\ f.len \in Nat /\ Len(f.data) \in Nat
      /\ DOMAIN f.data = 1 .. Len(f.data)
      /\ \A i \in 1 .. Len(f.data) : f.data[i] \in B
  <2>1. f.data \in Seq(B) /\ f.len \in Nat
    BY DEF FileRecord
  <2> QED BY <2>1, LenProperties, ElementOfSeq
<1>4. CASE f.kind = "host_out"
  <2>1. ASSUME NEW c, NEW k \in Nat, k <= n, c \in [1 .. k -> B]
        PROVE  OnDisk(f.data, at, c) \in Seq(B)
    <3>1. c \in Seq(B) /\ Len(c) = k
      BY <2>1, IsASeq, LenProperties
    <3> DEFINE m == Larger(Len(f.data), at + Len(c))
    <3>2. m \in Nat
      BY <1>2, <3>1 DEF Larger
    <3>3. CASE c = << >>
      BY <1>2, <3>3 DEF OnDisk
    <3>4. CASE c # << >>
      <4>1. \A i \in 1 .. m : (IF i > at /\ i <= at + Len(c) THEN c[i - at]
                              ELSE IF i <= Len(f.data) THEN f.data[i] ELSE 0) \in B
        BY <1>2, <2>1, <3>1
      <4> QED BY <3>2, <3>4, <4>1, IsASeq DEF OnDisk
    <3> QED BY <3>3, <3>4
  <2>2. CASE o = [file |-> HostWritten(f, at, buf), ok |-> TRUE]
    <3>1. OnDisk(f.data, at, buf) \in Seq(B)
      BY <1>1, <2>1
    <3>2. Larger(f.len, at + n) \in Nat /\ Larger(f.len, at + n) >= f.len
          /\ Larger(f.len, at + n) >= at + n
      BY <1>1, <1>2 DEF Larger
    <3> QED BY <2>2, <3>1, <3>2 DEF HostWritten, FileRecord
  <2>3. CASE \E k \in 0 .. n - 1 :
               o = [file |-> [f EXCEPT !.data = OnDisk(@, at, SubSeq(buf, 1, k))], ok |-> FALSE]
    <3>1. PICK k \in 0 .. n - 1 :
               o = [file |-> [f EXCEPT !.data = OnDisk(@, at, SubSeq(buf, 1, k))], ok |-> FALSE]
      BY <2>3
    <3>2. k \in Nat /\ k <= n /\ SubSeq(buf, 1, k) \in [1 .. k -> B]
      <4>1. buf \in Seq(B)
        BY <1>1, IsASeq
      <4>2. k \in Nat /\ k <= n /\ k <= Len(buf)
        BY <1>1, <3>1
      <4>3. \A x \in 1 .. k : buf[x] \in B
        BY <1>1, <4>2
      <4>4. SubSeq(buf, 1, k) \in Seq(B) /\ Len(SubSeq(buf, 1, k)) = k
        BY <4>2, <4>3, SubSeqProperties
      <4> HIDE DEF B
      <4> QED BY <4>2, <4>4, LenProperties
    <3>3. OnDisk(f.data, at, SubSeq(buf, 1, k)) \in Seq(B)
      BY <2>1, <3>2
    <3> QED BY <1>2, <3>1, <3>3 DEF FileRecord
  <2> QED BY <1>4, <2>2, <2>3 DEF Outcomes
<1>5. CASE f.kind # "host_out"
  <2>1. CASE o = [file |-> f, ok |-> FALSE]
    BY <1>2, <2>1
  <2>2. CASE o = [file |-> Written(f, at, buf), ok |-> TRUE]
    <3> DEFINE end == at + n
               d == IF end > Len(f.data) THEN Realloc(f.data, end) ELSE f.data
               m == Larger(Len(f.data), end)
               z == Zeroed(d, f.len, at)
               c == Copied(z, at, buf)
    <3>1. m \in Nat /\ end \in Nat /\ m >= end
      BY <1>1, <1>2 DEF Larger
    <3>2. d \in [1 .. m -> B]
      BY <1>1, <1>2, <3>1 DEF Realloc, Larger
    <3>3. z \in [1 .. m -> B]
      BY <3>2 DEF Zeroed
    <3>4. c \in [1 .. m -> B]
      BY <1>1, <3>1, <3>3 DEF Copied
    <3>5. c \in Seq(B)
      BY <3>1, <3>4, IsASeq
    <3>6. Larger(f.len, end) \in Nat /\ Larger(f.len, end) >= f.len /\ Larger(f.len, end) >= end
      BY <1>2, <3>1 DEF Larger
    <3>7. Written(f, at, buf) = [f EXCEPT !.data = c, !.len = Larger(f.len, end)]
      BY DEF Written
    <3> HIDE DEF c
    <3> QED BY <2>2, <3>5, <3>6, <3>7 DEF FileRecord
  <2> QED BY <1>5, <2>1, <2>2 DEF Outcomes
<1> QED BY <1>4, <1>5

-----------------------------------------------------------------------------
\* One lemma per operation that changes which files are mounted or open.

\* The invariant holds with one file added to the table.
LEMMA AddedKeeps ==
  ASSUME FsInv, NEW f \in FileRecord, f.writable <=> f.name \in Writable,
         f.kind = "host_out" => f.writable,
         f.writable => f.kind \in {"regular", "host_out"}, Added(f)
  PROVE  FsInv'
<1> DEFINE n == Len(files)
<1>1. /\ files \in Seq(FileRecord) /\ n \in Nat /\ DOMAIN files = 1 .. n
      /\ files' = Append(files, f) /\ hs' = hs /\ saved' = saved /\ linux' = linux
      /\ \A i \in DOMAIN files : files[i].name # f.name
  BY LenProperties DEF FsInv, FsTypeOK, Added, by_name
<1>2. /\ files' \in Seq(FileRecord) /\ DOMAIN files' = 1 .. n + 1
      /\ \A i \in DOMAIN files : files'[i] = files[i]
      /\ files'[n + 1] = f
  BY <1>1, AppendProperties
<1>3. \A i \in DOMAIN files' : i \in DOMAIN files \/ i = n + 1
  BY <1>1, <1>2
<1>4. \A i \in DOMAIN files : i \in DOMAIN files'
  BY <1>1, <1>2
<1>5. FsTypeOK'
  BY <1>1, <1>2 DEF FsInv, FsTypeOK
<1>6. NamesOnce'
  BY <1>1, <1>2, <1>3 DEF FsInv, NamesOnce, has_bytes
<1>7. SavedSound' /\ FdsBounded'
  BY <1>1 DEF FsInv, SavedSound, FdsBounded
<1>8. HandlesSound'
  BY <1>1, <1>2, <1>4 DEF FsInv, HandlesSound
<1>9. PositionsWithin'
  BY <1>1, <1>2 DEF FsInv, HandlesSound, PositionsWithin, has_bytes
<1> QED BY <1>5, <1>6, <1>7, <1>8, <1>9 DEF FsInv

\* mb_fs_unmount keeps the invariant.
LEMMA UnmountKeeps ==
  ASSUME FsInv, NEW n, mb_fs_unmount(n)
  PROVE  FsInv'
<1>1. PICK i \in by_name(n) :
        /\ ~file_is_open(i)
        /\ files' = [k \in 1 .. Len(files) - 1 |-> IF k < i THEN files[k] ELSE files[k + 1]]
        /\ hs' = [j \in DOMAIN hs |->
                    IF hs[j].file > i THEN [hs[j] EXCEPT !.file = @ - 1] ELSE hs[j]]
        /\ saved' = saved /\ linux' = linux
  BY DEF mb_fs_unmount
<1> DEFINE m == Len(files)
           old(k) == IF k < i THEN k ELSE k + 1
<1>2. /\ files \in Seq(FileRecord) /\ m \in Nat /\ DOMAIN files = 1 .. m
      /\ hs \in Seq(HandleRecord) /\ Len(hs) \in Nat /\ DOMAIN hs = 1 .. Len(hs)
  BY LenProperties DEF FsInv, FsTypeOK, HandleRecord
<1>3. i \in 1 .. m /\ m - 1 \in Nat
  BY <1>2 DEF by_name
<1>4. /\ \A k \in 1 .. m - 1 : /\ old(k) \in DOMAIN files /\ files'[k] = files[old(k)]
                              /\ files[k] \in FileRecord /\ files[k + 1] \in FileRecord
      /\ \A k, l \in 1 .. m - 1 : old(k) = old(l) => k = l
      /\ DOMAIN files' = 1 .. m - 1
  <2>1. \A k \in 1 .. m : files[k] \in FileRecord
    BY <1>2, ElementOfSeq
  <2> QED BY <1>1, <1>2, <1>3, <2>1
<1>5. files' \in Seq(FileRecord)
  <2>1. \A k \in 1 .. m - 1 : (IF k < i THEN files[k] ELSE files[k + 1]) \in FileRecord
    BY <1>4
  <2> QED BY <1>1, <1>3, <2>1, IsASeq
<1>6. \A j \in DOMAIN hs :
        /\ hs[j] \in HandleRecord /\ hs[j].file \in 1 .. m /\ hs[j].file # i
        /\ hs'[j] \in HandleRecord
        /\ hs'[j].fd = hs[j].fd /\ hs'[j].pos = hs[j].pos
        /\ hs'[j].file \in 1 .. m - 1 /\ old(hs'[j].file) = hs[j].file
  <2> SUFFICES ASSUME NEW j \in DOMAIN hs
               PROVE  /\ hs[j] \in HandleRecord /\ hs[j].file \in 1 .. m /\ hs[j].file # i
                      /\ hs'[j] \in HandleRecord
                      /\ hs'[j].fd = hs[j].fd /\ hs'[j].pos = hs[j].pos
                      /\ hs'[j].file \in 1 .. m - 1 /\ old(hs'[j].file) = hs[j].file
    OBVIOUS
  <2>1. hs[j] \in HandleRecord
    BY <1>2, ElementAt
  <2>2. hs[j].file \in 1 .. m /\ hs[j].file # i
    BY <1>1, <1>2 DEF FsInv, HandlesSound, file_is_open
  <2>3. hs'[j] = IF hs[j].file > i THEN [hs[j] EXCEPT !.file = @ - 1] ELSE hs[j]
    BY <1>1
  <2>4. CASE hs[j].file > i
    <3>1. hs'[j] = [hs[j] EXCEPT !.file = hs[j].file - 1] /\ hs[j].file - 1 \in Nat
      BY <1>2, <1>3, <2>2, <2>3, <2>4
    <3>2. /\ hs'[j].fd = hs[j].fd /\ hs'[j].pos = hs[j].pos
          /\ hs'[j].file = hs[j].file - 1 /\ hs'[j] \in HandleRecord
      BY <2>1, <3>1 DEF HandleRecord
    <3> QED BY <1>2, <1>3, <2>1, <2>2, <2>4, <3>2
  <2>5. CASE ~(hs[j].file > i)
    BY <1>2, <1>3, <2>1, <2>2, <2>3, <2>5
  <2> QED BY <2>4, <2>5
<1>7. hs' \in Seq(HandleRecord) /\ DOMAIN hs' = DOMAIN hs
  <2> DEFINE e(j) == IF hs[j].file > i THEN [hs[j] EXCEPT !.file = @ - 1] ELSE hs[j]
  <2>1. hs' = [j \in 1 .. Len(hs) |-> e(j)]
    BY <1>1, <1>2
  <2>2. \A j \in 1 .. Len(hs) : e(j) \in HandleRecord
    BY <1>2, <1>6, <2>1
  <2>3. [j \in 1 .. Len(hs) |-> e(j)] \in Seq(HandleRecord)
    BY <1>2, <2>2, IsASeq
  <2> QED BY <1>2, <2>1, <2>3
<1>8. \A j \in DOMAIN hs : files'[hs'[j].file] = files[hs[j].file]
  BY <1>4, <1>6
<1> HIDE DEF old
<1>9. FsTypeOK'
  BY <1>1, <1>5, <1>7 DEF FsInv, FsTypeOK, HandleRecord
<1>10. NamesOnce'
  <2>1. \A k \in DOMAIN files' : old(k) \in DOMAIN files /\ files'[k] = files[old(k)]
    BY <1>4
  <2>2. \A k, l \in DOMAIN files' : files'[k].name = files'[l].name => k = l
    BY <1>4, <2>1 DEF FsInv, NamesOnce
  <2>3. \A k \in DOMAIN files' : /\ files'[k].writable <=> files'[k].name \in Writable
                                 /\ files'[k].kind = "host_out" => files'[k].writable
                                 /\ files'[k].writable => files'[k].kind \in {"regular", "host_out"}
    BY <2>1 DEF FsInv, NamesOnce, has_bytes
  <2> QED BY <2>2, <2>3 DEF NamesOnce, has_bytes
<1>11. SavedSound' /\ FdsBounded'
  BY <1>1, <1>6, <1>7 DEF FsInv, SavedSound, FdsBounded
<1>12. HandlesSound'
  <2>1. \A j, k \in DOMAIN hs' : j # k => hs'[j].fd # hs'[k].fd
    BY <1>6, <1>7 DEF FsInv, HandlesSound
  <2>2. \A j \in DOMAIN hs' : hs'[j].file \in DOMAIN files'
    BY <1>4, <1>6, <1>7
  <2>3. ASSUME NEW j \in DOMAIN hs', NEW k \in DOMAIN hs', j # k, hs'[j].file = hs'[k].file
        PROVE  ~files'[hs'[j].file].writable
    <3>1. hs[j].file = hs[k].file
      BY <1>6, <1>7, <2>3
    <3> QED BY <1>7, <1>8, <2>3, <3>1 DEF FsInv, HandlesSound
  <2> QED BY <2>1, <2>2, <2>3 DEF HandlesSound
<1>13. PositionsWithin'
  BY <1>1, <1>6, <1>7, <1>8 DEF FsInv, PositionsWithin, has_bytes
<1> QED BY <1>9, <1>10, <1>11, <1>12, <1>13 DEF FsInv

\* mb_fs_close keeps the invariant.
LEMMA CloseKeeps ==
  ASSUME FsInv, NEW fd, mb_fs_close(fd)
  PROVE  FsInv'
<1>1. PICK j \in DOMAIN hs :
        /\ hs' = [k \in 1 .. Len(hs) - 1 |-> IF k = j THEN hs[Len(hs)] ELSE hs[k]]
        /\ UNCHANGED <<files, saved, linux>>
  BY DEF mb_fs_close, handle_by_fd
<1> DEFINE n == Len(hs)
           old(k) == IF k = j THEN n ELSE k
<1>2. hs \in Seq(HandleRecord) /\ n \in Nat /\ DOMAIN hs = 1 .. n
  BY LenProperties DEF FsInv, FsTypeOK, HandleRecord
<1>3. n - 1 \in Nat /\ DOMAIN hs' = 1 .. n - 1
  BY <1>1, <1>2
<1>4. /\ \A k \in 1 .. n - 1 : old(k) \in DOMAIN hs /\ hs'[k] = hs[old(k)]
      /\ \A k, l \in 1 .. n - 1 : old(k) = old(l) => k = l
  BY <1>1, <1>2
<1>5. hs' \in Seq(HandleRecord)
  <2>1. \A k \in 1 .. n : hs[k] \in HandleRecord
    BY <1>2, ElementAt
  <2>2. \A k \in 1 .. n - 1 : (IF k = j THEN hs[Len(hs)] ELSE hs[k]) \in HandleRecord
    BY <1>2, <2>1
  <2> QED BY <1>1, <1>3, <2>2, IsASeq
<1> HIDE DEF old
<1>6. FsTypeOK'
  BY <1>1, <1>5 DEF FsInv, FsTypeOK, HandleRecord
<1>7. NamesOnce' /\ SavedSound' /\ FdsBounded'
  BY <1>1, <1>3, <1>4 DEF FsInv, NamesOnce, SavedSound, FdsBounded, has_bytes
<1>8. HandlesSound'
  BY <1>1, <1>3, <1>4 DEF FsInv, HandlesSound
<1>9. PositionsWithin'
  BY <1>1, <1>3, <1>4 DEF FsInv, PositionsWithin, has_bytes
<1> QED BY <1>6, <1>7, <1>8, <1>9 DEF FsInv

\* A name of a saved record, found again in the list of files.
LEMMA FileCalledIs ==
  ASSUME NEW n, by_name(n) # {}
  PROVE  FileCalled(n) \in DOMAIN files /\ files[FileCalled(n)].name = n
BY DEF FileCalled, by_name

\* Saving the table of open files keeps the invariant.
LEMMA SaveKeeps ==
  ASSUME FsInv, mb_fs_save_handles
  PROVE  FsInv'
<1> DEFINE D == Descriptors
           n == Len(hs)
           Line(h) == [fd |-> h.fd, pos |-> h.pos, name |-> files[h.file].name]
           rec == [k \in 1 .. n |-> Line(HandleOf(Nth(D, k)))]
<1>1. hs \in Seq(HandleRecord) /\ n \in Nat /\ DOMAIN hs = 1 .. n /\ files \in Seq(FileRecord)
  BY LenProperties DEF FsInv, FsTypeOK, HandleRecord
<1>2. \A j \in 1 .. n : hs[j] \in HandleRecord /\ hs[j].file \in DOMAIN files
  BY <1>1, ElementAt DEF FsInv, HandlesSound
<1>3. D \in SUBSET (0 .. MaxHandles + 2) /\ MaxHandles + 2 \in Nat
  BY <1>1, <1>2, FsAssumption DEF FsInv, FdsBounded, Descriptors, HandleRecord
<1>4. Cardinality(D) = n
  <2> DEFINE f == [j \in 1 .. n |-> hs[j].fd]
  <2>1. f \in Bijection(1 .. n, D)
    <3>1. \A j, k \in 1 .. n : j # k => hs[j].fd # hs[k].fd
      BY <1>1 DEF FsInv, HandlesSound
    <3>2. f \in Injection(1 .. n, D)
      BY <1>1, <3>1 DEF Injection, IsInjective, Descriptors
    <3>3. \A d \in D : \E j \in 1 .. n : f[j] = d
      BY <1>1 DEF Descriptors
    <3>4. f \in Surjection(1 .. n, D)
      BY <1>1, <3>2, <3>3 DEF Surjection, Injection
    <3> QED BY <3>2, <3>4 DEF Bijection
  <2> QED BY <1>1, <2>1, FS_CountingElements DEF ExistsBijection
<1>5. ASSUME NEW d \in D
      PROVE  \E j \in 1 .. n : HandleOf(d) = hs[j] /\ hs[j].fd = d
  BY <1>1 DEF Descriptors, HandleOf
<1>6. /\ \A k \in 1 .. n : Nth(D, k) \in D
      /\ \A k, l \in 1 .. n : Nth(D, k) = Nth(D, l) => k = l
  <2> HIDE DEF D
  <2>1. \A k \in 1 .. Cardinality(D) : Nth(D, k) \in D /\ Rank(D, Nth(D, k)) = k
    BY <1>3, NthProperties
  <2>2. \A k \in 1 .. n : Nth(D, k) \in D /\ Rank(D, Nth(D, k)) = k
    BY <1>4, <2>1
  <2> QED BY <2>2, Zenon
<1>7. \A k \in 1 .. n : \E j \in 1 .. n :
        /\ Line(HandleOf(Nth(D, k))) = Line(hs[j])
        /\ hs[j].fd = Nth(D, k)
  BY <1>5, <1>6
<1>8. \A j \in 1 .. n : Line(hs[j]) \in SavedLine /\ hs[j].fd <= MaxHandles + 2
  <2>1. \A i \in DOMAIN files : files[i] \in FileRecord
    BY <1>1, ElementAt
  <2>2. \A i \in DOMAIN files : files[i].name \in AllNames
    BY <2>1 DEF FileRecord
  <2> QED BY <1>1, <1>2, <2>2 DEF HandleRecord, SavedLine, FsInv, FdsBounded
<1>9. rec \in Seq(SavedLine)
  <2>1. \A k \in 1 .. n : Line(HandleOf(Nth(D, k))) \in SavedLine
    BY <1>7, <1>8
  <2> QED BY <1>1, <2>1, IsASeq
<1>10. \A k \in 1 .. n : \E j \in 1 .. n :
         /\ rec[k].fd = hs[j].fd /\ rec[k].name = files[hs[j].file].name
         /\ hs[j].fd = Nth(D, k)
  BY <1>7
<1>11. DOMAIN rec = 1 .. n /\ saved' = {rec} /\ UNCHANGED <<files, hs, linux>>
  BY DEF mb_fs_save_handles
<1> HIDE DEF rec, D
<1>12. ASSUME NEW k \in 1 .. n, NEW l \in 1 .. n, k # l
       PROVE  rec[k].fd # rec[l].fd /\ (rec[k].name = rec[l].name => rec[k].name \notin Writable)
  <2>1. PICK j \in 1 .. n : /\ rec[k].fd = hs[j].fd /\ rec[k].name = files[hs[j].file].name
                            /\ hs[j].fd = Nth(D, k)
    BY <1>10
  <2>2. PICK i \in 1 .. n : /\ rec[l].fd = hs[i].fd /\ rec[l].name = files[hs[i].file].name
                            /\ hs[i].fd = Nth(D, l)
    BY <1>10
  <2>3. hs[j].fd # hs[i].fd /\ i # j
    BY <1>6, <1>12, <2>1, <2>2
  <2>4. ASSUME rec[k].name = rec[l].name PROVE rec[k].name \notin Writable
    <3>1. hs[j].file = hs[i].file
      BY <1>2, <2>1, <2>2, <2>4 DEF FsInv, NamesOnce
    <3>2. ~files[hs[j].file].writable
      BY <1>1, <2>3, <3>1 DEF FsInv, HandlesSound
    <3> QED BY <1>2, <2>1, <3>2 DEF FsInv, NamesOnce
  <2> QED BY <2>1, <2>2, <2>3, <2>4
<1>13. SavedSound'
  <2>1. \A k \in 1 .. n : rec[k].fd <= MaxHandles + 2
    BY <1>8, <1>10
  <2> QED BY <1>9, <1>11, <1>12, <2>1 DEF SavedSound
<1>14. /\ FsTypeOK' /\ NamesOnce' /\ FdsBounded' /\ HandlesSound' /\ PositionsWithin'
  BY <1>11 DEF FsInv, FsTypeOK, NamesOnce, FdsBounded, HandlesSound, PositionsWithin, has_bytes
<1> QED BY <1>13, <1>14 DEF FsInv

\* Loading a table of open files keeps the invariant.
LEMMA LoadKeeps ==
  ASSUME FsInv, NEW rec \in saved, mb_fs_load_handles(rec)
  PROVE  FsInv'
<1> DEFINE Pos(r) == LET len == files[FileCalled(r.name)].len
                     IN  IF r.pos < len \/ linux THEN r.pos ELSE len
           e(k) == [fd |-> rec[k].fd, file |-> FileCalled(rec[k].name), pos |-> Pos(rec[k])]
           n == Len(rec)
<1>1. /\ \A k \in DOMAIN rec : by_name(rec[k].name) # {}
      /\ hs' = [k \in DOMAIN rec |-> e(k)]
      /\ UNCHANGED <<files, saved, linux>>
  BY DEF mb_fs_load_handles
<1>2. rec \in Seq(SavedLine) /\ n \in Nat /\ DOMAIN rec = 1 .. n
  BY LenProperties DEF FsInv, SavedSound
<1>3. files \in Seq(FileRecord) /\ DOMAIN files \subseteq Nat
  BY LenProperties DEF FsInv, FsTypeOK
<1>4. ASSUME NEW k \in 1 .. n
      PROVE  /\ rec[k] \in SavedLine /\ rec[k].fd <= MaxHandles + 2
             /\ FileCalled(rec[k].name) \in DOMAIN files
             /\ files[FileCalled(rec[k].name)].name = rec[k].name
             /\ files[FileCalled(rec[k].name)] \in FileRecord
             /\ e(k).fd = rec[k].fd /\ e(k).file = FileCalled(rec[k].name)
             /\ e(k) \in HandleRecord
             /\ ~linux => e(k).pos <= files[FileCalled(rec[k].name)].len
  <2>1. rec[k] \in SavedLine /\ rec[k].fd <= MaxHandles + 2
    BY <1>2, ElementAt DEF FsInv, SavedSound
  <2>2. FileCalled(rec[k].name) \in DOMAIN files /\ files[FileCalled(rec[k].name)].name = rec[k].name
    BY <1>1, <1>2, FileCalledIs
  <2>3. files[FileCalled(rec[k].name)] \in FileRecord
    BY <1>3, <2>2, ElementAt
  <2>4. Pos(rec[k]) \in Nat /\ (~linux => Pos(rec[k]) <= files[FileCalled(rec[k].name)].len)
    BY <2>1, <2>3 DEF SavedLine, FileRecord
  <2> HIDE DEF Pos
  <2> QED BY <1>3, <2>1, <2>2, <2>3, <2>4 DEF HandleRecord, SavedLine
<1> HIDE DEF e
<1>5. hs' \in Seq(HandleRecord)
  BY <1>1, <1>2, <1>4, IsASeq
<1>6. DOMAIN hs' = 1 .. n /\ \A k \in 1 .. n : hs'[k] = e(k)
  BY <1>1, <1>2
<1>7. FsTypeOK'
  BY <1>1, <1>5 DEF FsInv, FsTypeOK, HandleRecord
<1>8. NamesOnce' /\ SavedSound' /\ FdsBounded'
  BY <1>1, <1>4, <1>6 DEF FsInv, NamesOnce, SavedSound, FdsBounded, has_bytes
<1>9. HandlesSound'
  <2>1. \A j, k \in 1 .. n : j # k =>
          rec[j].fd # rec[k].fd /\ (rec[j].name = rec[k].name => rec[j].name \notin Writable)
    BY <1>2 DEF FsInv, SavedSound
  <2>2. \A j, k \in 1 .. n : e(j).file = e(k).file => rec[j].name = rec[k].name
    BY <1>4
  <2>3. \A j \in 1 .. n : files[e(j).file].writable <=> rec[j].name \in Writable
    BY <1>4 DEF FsInv, NamesOnce
  <2>4. \A j \in 1 .. n : e(j).fd = rec[j].fd /\ e(j).file \in DOMAIN files
    BY <1>4
  <2> QED BY <1>1, <1>6, <2>1, <2>2, <2>3, <2>4 DEF HandlesSound
<1>10. PositionsWithin'
  BY <1>1, <1>4, <1>6 DEF PositionsWithin, has_bytes
<1> QED BY <1>7, <1>8, <1>9, <1>10 DEF FsInv

-----------------------------------------------------------------------------
\* The other operations: they move a handle, or change a file in place.

\* What the invariant says of a handle and of the file it is on.
LEMMA AHandle ==
  ASSUME FsInv, NEW j \in DOMAIN hs
  PROVE  /\ hs[j] \in HandleRecord /\ hs[j].file \in DOMAIN files
         /\ files[hs[j].file] \in FileRecord
         /\ ~linux /\ has_bytes(files[hs[j].file]) => hs[j].pos <= files[hs[j].file].len
<1>1. hs \in Seq(HandleRecord) /\ files \in Seq(FileRecord)
  BY DEF FsInv, FsTypeOK, HandleRecord
<1>2. hs[j].file \in DOMAIN files
  BY DEF FsInv, HandlesSound
<1> QED BY <1>1, <1>2, ElementAt DEF FsInv, PositionsWithin

\* The reads keep the invariant.
LEMMA ReadKeeps ==
  ASSUME FsInv, NEW fd, NEW n \in Nat, NEW m \in Nat,
         mb_fs_read(fd, n) \/ ReadV(fd, n, m)
  PROVE  FsInv'
<1>1. CASE mb_fs_read(fd, n)
  <2>1. PICK j \in DOMAIN hs : \E p \in AfterRead(files[hs[j].file], hs[j].pos, n) :
               hs' = [hs EXCEPT ![j].pos = p] /\ UNCHANGED <<files, saved, linux>>
    BY <1>1 DEF mb_fs_read, handle_by_fd
  <2>2. PICK p \in AfterRead(files[hs[j].file], hs[j].pos, n) :
               hs' = [hs EXCEPT ![j].pos = p] /\ UNCHANGED <<files, saved, linux>>
    BY <2>1
  <2>3. files[hs[j].file] \in FileRecord /\ hs[j].pos \in Nat
    BY AHandle DEF HandleRecord
  <2>4. /\ p \in Nat
        /\ hs[j].pos <= files[hs[j].file].len => p <= files[hs[j].file].len
    BY <2>3, AfterReadWithin
  <2> QED BY <2>2, <2>4, AHandle, MoveHandle
<1>2. CASE ReadV(fd, n, m)
  <2>1. PICK j \in DOMAIN hs : \E p \in AfterRead(files[hs[j].file], hs[j].pos, n) :
               \E q \in AfterRead(files[hs[j].file], p, m) :
                 hs' = [hs EXCEPT ![j].pos = q] /\ UNCHANGED <<files, saved, linux>>
    BY <1>2 DEF ReadV, handle_by_fd
  <2>2. PICK p \in AfterRead(files[hs[j].file], hs[j].pos, n) :
               \E q \in AfterRead(files[hs[j].file], p, m) :
                 hs' = [hs EXCEPT ![j].pos = q] /\ UNCHANGED <<files, saved, linux>>
    BY <2>1
  <2>3. PICK q \in AfterRead(files[hs[j].file], p, m) :
               hs' = [hs EXCEPT ![j].pos = q] /\ UNCHANGED <<files, saved, linux>>
    BY <2>2
  <2>4. files[hs[j].file] \in FileRecord /\ hs[j].pos \in Nat
    BY AHandle DEF HandleRecord
  <2>5. /\ p \in Nat
        /\ hs[j].pos <= files[hs[j].file].len => p <= files[hs[j].file].len
    BY <2>4, AfterReadWithin
  <2>6. /\ q \in Nat
        /\ p <= files[hs[j].file].len => q <= files[hs[j].file].len
    BY <2>4, <2>5, AfterReadWithin
  <2> QED BY <2>3, <2>5, <2>6, AHandle, MoveHandle
<1> QED BY <1>1, <1>2

\* Seeking, and the positioned read that seeks, keep the invariant.
LEMMA SeekKeeps ==
  ASSUME FsInv, NEW fd, NEW n \in Nat, NEW at \in Nat,
         mb_fs_seek(fd, at) \/ PRead64(fd, n, at)
  PROVE  FsInv'
<1>1. CASE mb_fs_seek(fd, at)
  <2>1. PICK j \in DOMAIN hs : /\ SeekTaken(files[hs[j].file], at) /\ hs' = [hs EXCEPT ![j].pos = at]
                               /\ UNCHANGED <<files, saved, linux>>
    BY <1>1 DEF mb_fs_seek, handle_by_fd
  <2>2. ~linux => at <= files[hs[j].file].len
    BY <2>1 DEF SeekTaken
  <2> QED BY <2>1, <2>2, MoveHandle
<1>2. CASE PRead64(fd, n, at)
  <2>1. PICK j \in DOMAIN hs : \E p \in AfterRead(files[hs[j].file], at, n) :
           /\ SeekTaken(files[hs[j].file], hs[j].pos)
           /\ hs' = [hs EXCEPT ![j].pos = IF SeekTaken(files[hs[j].file], @) THEN @ ELSE p]
           /\ UNCHANGED <<files, saved, linux>>
    BY <1>2 DEF PRead64, handle_by_fd
  <2>2. hs' = [hs EXCEPT ![j].pos = hs[j].pos]
    BY <2>1
  <2>3. hs[j].pos \in Nat
    BY AHandle DEF HandleRecord
  <2> QED BY <2>1, <2>2, <2>3, AHandle, MoveHandle
<1> QED BY <1>1, <1>2

\* A truncated file's record.
LEMMA ResizedRecord ==
  ASSUME NEW f \in FileRecord, NEW size \in Nat
  PROVE  /\ Resized(f, size) \in FileRecord /\ Resized(f, size).len = size
         /\ Resized(f, size).name = f.name /\ Resized(f, size).kind = f.kind
         /\ Resized(f, size).writable = f.writable
<1> DEFINE B == Bytes \cup {0, Junk}
           d == IF f.kind = "host_out" THEN DiskCut(f.data, size)
                ELSE Zeroed(Realloc(f.data, size), f.len, size)
<1>1. f.data \in Seq(B)
  BY DEF FileRecord
<1>2. Len(f.data) \in Nat /\ \A i \in 1 .. Len(f.data) : f.data[i] \in B
  BY <1>1, ElementOfSeq, LenProperties
<1>3. DiskCut(f.data, size) \in [1 .. size -> B]
  BY <1>2 DEF DiskCut
<1>4. Realloc(f.data, size) \in [1 .. size -> B]
  BY <1>2 DEF Realloc
<1>5. Zeroed(Realloc(f.data, size), f.len, size) \in [1 .. size -> B]
  BY <1>4 DEF Zeroed
<1>6. d \in Seq(B)
  BY <1>3, <1>5, IsASeq
<1>7. Resized(f, size) = [f EXCEPT !.data = d, !.len = size]
  BY DEF Resized
<1> HIDE DEF d
<1> QED BY <1>6, <1>7 DEF FileRecord

\* A truncation by name keeps the invariant.
LEMMA TruncateKeeps ==
  ASSUME FsInv, NEW n, NEW size \in Nat, mb_fs_truncate_name(n, size)
  PROVE  FsInv'
<1>1. PICK i \in DOMAIN files :
        /\ files' = [files EXCEPT ![i] = Resized(files[i], size)]
        /\ hs' = Clamped(hs, i, size) /\ UNCHANGED <<saved, linux>>
  BY DEF mb_fs_truncate_name, by_name
<1>2. files[i] \in FileRecord
  BY ElementAt DEF FsInv, FsTypeOK
<1>3. hs \in Seq(HandleRecord) /\ Len(hs) \in Nat /\ DOMAIN hs = 1 .. Len(hs)
  BY LenProperties DEF FsInv, FsTypeOK, HandleRecord
<1> DEFINE e(j) == IF hs[j].file = i /\ hs[j].pos > size THEN [hs[j] EXCEPT !.pos = size] ELSE hs[j]
<1>4. ASSUME NEW j \in DOMAIN hs
      PROVE  /\ e(j) \in HandleRecord /\ e(j).fd = hs[j].fd /\ e(j).file = hs[j].file
             /\ IF hs[j].file = i THEN e(j).pos <= size ELSE e(j).pos <= hs[j].pos
  <2>1. hs[j] \in HandleRecord
    BY AHandle
  <2>2. CASE hs[j].file = i /\ hs[j].pos > size
    BY <2>1, <2>2 DEF HandleRecord
  <2>3. CASE ~(hs[j].file = i /\ hs[j].pos > size)
    BY <2>1, <2>3 DEF HandleRecord
  <2> QED BY <2>2, <2>3
<1> HIDE DEF e
<1>5. hs' = [j \in 1 .. Len(hs) |-> e(j)]
  BY <1>1, <1>3 DEF Clamped, e
<1>6. hs' \in Seq(HandleRecord)
  BY <1>3, <1>4, <1>5, IsASeq
<1>7. /\ Resized(files[i], size) \in FileRecord /\ Resized(files[i], size).len = size
      /\ Resized(files[i], size).name = files[i].name
      /\ Resized(files[i], size).kind = files[i].kind
      /\ Resized(files[i], size).writable = files[i].writable
  BY <1>2, ResizedRecord
<1>8. DOMAIN hs' = DOMAIN hs /\ \A j \in DOMAIN hs : hs'[j] = e(j)
  BY <1>3, <1>5
<1> DEFINE g == Resized(files[i], size)
<1>9. \A j \in DOMAIN hs : /\ hs'[j].fd = hs[j].fd /\ hs'[j].file = hs[j].file
                            /\ IF hs[j].file = i THEN hs'[j].pos <= g.len ELSE hs'[j].pos <= hs[j].pos
  BY <1>4, <1>7, <1>8
<1> HIDE DEF g
<1> QED BY <1>1, <1>6, <1>7, <1>8, <1>9, ChangeFile DEF g

\* Opening a file, truncated or not, keeps the invariant.
LEMMA OpenKeeps ==
  ASSUME FsInv, NEW n, NEW access, NEW fails,
         mb_fs_open(n, access) \/ open_file(n, access, fails)
  PROVE  FsInv'
<1>1. PICK i \in DOMAIN files :
        /\ Len(hs) < MaxHandles /\ MayOpen(i, access) /\ UNCHANGED <<saved, linux>>
        /\ \/ hs' = handle_add(i, 0) /\ files' = files
           \/ /\ CanTruncate(files[i]) /\ files' = [files EXCEPT ![i] = Resized(files[i], 0)]
              /\ hs' = Clamped(handle_add(i, 0), i, 0)
  BY DEF mb_fs_open, open_file, by_name
<1>2. files \in Seq(FileRecord) /\ files[i] \in FileRecord /\ files[i].len \in Nat
  <2>1. files \in Seq(FileRecord) /\ files[i] \in FileRecord
    BY ElementAt DEF FsInv, FsTypeOK
  <2> QED BY <2>1 DEF FileRecord
<1>3. files[i].writable => ~file_is_open(i)
  BY <1>1 DEF MayOpen, FsInv, NamesOnce, has_bytes
<1>4. CASE hs' = handle_add(i, 0) /\ files' = files
  BY <1>1, <1>2, <1>3, <1>4, AddHandle
<1>5. CASE /\ CanTruncate(files[i]) /\ files' = [files EXCEPT ![i] = Resized(files[i], 0)]
           /\ hs' = Clamped(handle_add(i, 0), i, 0)
  <2>1. ~file_is_open(i)
    BY <1>3, <1>5 DEF CanTruncate, FsInv, NamesOnce
  <2> DEFINE h == [fd |-> FreeFd, file |-> i, pos |-> 0]
             w == Len(hs)
  <2>2. hs \in Seq(HandleRecord) /\ w \in Nat /\ DOMAIN hs = 1 .. w
    BY LenProperties DEF FsInv, FsTypeOK, HandleRecord
  <2>3. h \in HandleRecord
    <3>1. FreeFd \in Nat
      BY <2>2, FreeFdIsFree DEF FsInv
    <3>2. i \in Nat
      BY <1>2, LenProperties
    <3> QED BY <3>1, <3>2 DEF HandleRecord
  <2>4. h.pos = 0
    OBVIOUS
  <2> HIDE DEF h
  <2> DEFINE t == handle_add(i, 0)
  <2>5. /\ t \in Seq(HandleRecord) /\ DOMAIN t = 1 .. w + 1
        /\ \A j \in DOMAIN hs : t[j] = hs[j]
        /\ t[w + 1] = h
    BY <2>2, <2>3, AppendProperties DEF handle_add, h
  <2>6. \A j \in DOMAIN t : ~(t[j].file = i /\ t[j].pos > 0)
    BY <2>1, <2>2, <2>4, <2>5 DEF file_is_open
  <2>7. t = [j \in DOMAIN t |-> t[j]]
    BY <2>5
  <2> HIDE DEF t
  <2>8. Clamped(t, i, 0) = t
    BY <2>6, <2>7 DEF Clamped
  <2>9. hs' = handle_add(i, 0)
    BY <1>5, <2>8 DEF t
  <2> DEFINE g == Resized(files[i], 0)
  <2>10. /\ g \in FileRecord /\ g.len = 0 /\ g.name = files[i].name /\ g.kind = files[i].kind
         /\ g.writable = files[i].writable
    BY <1>2, ResizedRecord
  <2> HIDE DEF g
  <2>11. files' = [files EXCEPT ![i] = g]
    BY <1>5 DEF g
  <2>12. /\ files' \in Seq(FileRecord) /\ DOMAIN files' = DOMAIN files
         /\ \A k \in DOMAIN files : files'[k] = IF k = i THEN g ELSE files[k]
    BY <1>2, <2>10, <2>11, ExceptSeq
  <2>13. \A j \in DOMAIN hs : files'[hs[j].file].len = files[hs[j].file].len
    BY <2>1, <2>12 DEF file_is_open, FsInv, HandlesSound
  <2>14. \A k \in DOMAIN files : /\ files'[k].name = files[k].name
                                 /\ files'[k].kind = files[k].kind
                                 /\ files'[k].writable = files[k].writable
    BY <2>10, <2>12
  <2>15. 0 \in Nat /\ 0 <= files'[i].len
    BY <2>10, <2>12
  <2> QED BY <1>1, <1>3, <2>9, <2>12, <2>13, <2>14, <2>15, AddHandle
<1> QED BY <1>1, <1>4, <1>5

\* Duplicating a descriptor keeps the invariant.
LEMMA DupKeeps ==
  ASSUME FsInv, NEW fd, mb_fs_dup(fd)
  PROVE  FsInv'
<1>1. PICK j \in DOMAIN hs :
        /\ Len(hs) < MaxHandles
        /\ ~(has_bytes(files[hs[j].file]) /\ files[hs[j].file].writable)
        /\ hs' = handle_add(hs[j].file, hs[j].pos) /\ UNCHANGED <<files, saved, linux>>
  BY DEF mb_fs_dup, handle_by_fd
<1>2. hs[j].pos \in Nat /\ hs[j].file \in DOMAIN files
  BY AHandle DEF HandleRecord
<1>3. ~files[hs[j].file].writable
  BY <1>1, <1>2 DEF FsInv, NamesOnce, has_bytes
<1>4. files' \in Seq(FileRecord)
  BY <1>1 DEF FsInv, FsTypeOK
<1> QED BY <1>1, <1>2, <1>3, <1>4, AHandle, AddHandle

\* File i after a write at an offset, and a handle on it moved to q.
LEMMA WrittenKeeps ==
  ASSUME FsInv, NEW j \in DOMAIN hs, NEW g \in FileRecord, NEW q \in Nat,
         g.name = files[hs[j].file].name, g.kind = files[hs[j].file].kind,
         g.writable = files[hs[j].file].writable, g.len >= files[hs[j].file].len,
         files' = [files EXCEPT ![hs[j].file] = g], UNCHANGED <<saved, linux>>,
         hs' = [hs EXCEPT ![j].pos = q],
         ~linux /\ has_bytes(g) => q <= g.len
  PROVE  FsInv'
<1> DEFINE i == hs[j].file
<1>1. hs \in Seq(HandleRecord) /\ DOMAIN hs = 1 .. Len(hs) /\ hs[j] \in HandleRecord
  BY AHandle, LenProperties DEF FsInv, FsTypeOK, HandleRecord
<1>2. [hs[j] EXCEPT !.pos = q] \in HandleRecord
  BY <1>1 DEF HandleRecord
<1>3. hs' = [hs EXCEPT ![j] = [hs[j] EXCEPT !.pos = q]]
  OBVIOUS
<1>4. hs' \in Seq(HandleRecord) /\ DOMAIN hs' = DOMAIN hs
  BY <1>1, <1>2, <1>3, ExceptSeq
<1>5. ASSUME NEW k \in DOMAIN hs
      PROVE  /\ hs'[k].fd = hs[k].fd /\ hs'[k].file = hs[k].file
             /\ hs'[k].pos = IF k = j THEN q ELSE hs[k].pos
             /\ hs[k].pos \in Nat
  <2>1. hs[k] \in HandleRecord
    BY AHandle
  <2> QED BY <1>1, <1>3, <2>1 DEF HandleRecord
<1>6. i \in DOMAIN files /\ files[i] \in FileRecord
  BY AHandle
<1>7. ASSUME ~linux, NEW k \in DOMAIN hs
      PROVE  IF hs[k].file = i THEN has_bytes(g) => hs'[k].pos <= g.len
             ELSE hs'[k].pos <= hs[k].pos
  <2>1. CASE k = j
    BY <1>5, <1>7, <2>1
  <2>2. CASE k # j /\ hs[k].file = i
    <3>1. has_bytes(g) => hs[k].pos <= files[i].len
      BY <1>7, <2>2 DEF FsInv, PositionsWithin, has_bytes
    <3> QED BY <1>5, <1>6, <2>2, <3>1 DEF FileRecord
  <2>3. CASE k # j /\ hs[k].file # i
    BY <1>5, <2>3
  <2> QED BY <2>1, <2>2, <2>3
<1> QED BY <1>4, <1>5, <1>6, <1>7, ChangeFile

\* A buffer a write is given has a length.
LEMMA BufferLength ==
  ASSUME NEW buf \in Buffers
  PROVE  Len(buf) \in Nat
<1>1. PICK k \in Sizes : buf \in [1 .. k -> Bytes]
  BY DEF Buffers
<1>2. k \in Nat
  BY FsAssumption
<1>3. buf \in Seq(Bytes)
  BY <1>1, <1>2, IsASeq
<1> QED BY <1>3, LenProperties

\* A handle on a writable file, where it is.
LEMMA SameHandle ==
  ASSUME FsInv, NEW j \in DOMAIN hs
  PROVE  hs = [hs EXCEPT ![j].pos = hs[j].pos]
<1>1. hs[j] \in HandleRecord /\ hs \in Seq(HandleRecord)
  BY AHandle DEF FsInv, FsTypeOK, HandleRecord
<1>2. hs[j] = [hs[j] EXCEPT !.pos = hs[j].pos]
  BY <1>1 DEF HandleRecord
<1>3. hs = [hs EXCEPT ![j] = hs[j]]
  BY <1>1, LenProperties
<1> QED BY <1>2, <1>3

\* The writes keep the invariant.
LEMMA WriteKeeps ==
  ASSUME FsInv, NEW fd, NEW buf \in Buffers, NEW at \in Nat,
         mb_fs_write(fd, buf) \/ mb_fs_pwrite(fd, buf, at)
  PROVE  FsInv'
<1>1. Len(buf) \in Nat
  BY BufferLength
<1>2. CASE mb_fs_write(fd, buf)
  <2>1. PICK j \in DOMAIN hs : \E o \in Outcomes(files[hs[j].file], hs[j].pos, buf) :
                /\ InBounds(o.file)
                /\ files' = [files EXCEPT ![hs[j].file] = o.file]
                /\ hs' = IF o.ok THEN [hs EXCEPT ![j].pos = @ + Len(buf)] ELSE hs
                /\ UNCHANGED <<saved, linux>>
    BY <1>2 DEF mb_fs_write, handle_by_fd
  <2>2. PICK o \in Outcomes(files[hs[j].file], hs[j].pos, buf) :
                /\ InBounds(o.file)
                /\ files' = [files EXCEPT ![hs[j].file] = o.file]
                /\ hs' = IF o.ok THEN [hs EXCEPT ![j].pos = @ + Len(buf)] ELSE hs
                /\ UNCHANGED <<saved, linux>>
    BY <2>1
  <2>3. files[hs[j].file] \in FileRecord /\ hs[j].pos \in Nat /\ files[hs[j].file].len \in Nat
    BY AHandle DEF HandleRecord, FileRecord
  <2>4. /\ o.file \in FileRecord /\ o.file.len \in Nat
        /\ o.file.name = files[hs[j].file].name /\ o.file.kind = files[hs[j].file].kind
        /\ o.file.writable = files[hs[j].file].writable
        /\ o.file.len >= files[hs[j].file].len /\ o.ok \in BOOLEAN
        /\ o.ok => o.file.len >= hs[j].pos + Len(buf)
    BY <2>2, <2>3, WriteRecord DEF FileRecord
  <2> DEFINE q == IF o.ok THEN hs[j].pos + Len(buf) ELSE hs[j].pos
  <2>5. q \in Nat /\ hs' = [hs EXCEPT ![j].pos = q]
    <3>1. CASE o.ok
      BY <1>1, <2>2, <2>3, <3>1
    <3>2. CASE ~o.ok
      BY <2>2, <2>3, <3>2, SameHandle
    <3> QED BY <3>1, <3>2
  <2>6. ~linux /\ has_bytes(o.file) => q <= o.file.len
    <3>1. ~linux /\ has_bytes(o.file) => hs[j].pos <= files[hs[j].file].len
      BY <2>4, AHandle DEF has_bytes
    <3> QED BY <1>1, <2>3, <2>4, <3>1
  <2> HIDE DEF q
  <2> QED BY <2>2, <2>4, <2>5, <2>6, WrittenKeeps
<1>3. CASE mb_fs_pwrite(fd, buf, at)
  <2>1. PICK j \in DOMAIN hs : \E o \in Outcomes(files[hs[j].file], at, buf) :
                /\ InBounds(o.file)
                /\ files' = [files EXCEPT ![hs[j].file] = o.file]
                /\ UNCHANGED <<hs, saved, linux>>
    BY <1>3 DEF mb_fs_pwrite, handle_by_fd
  <2>2. PICK o \in Outcomes(files[hs[j].file], at, buf) :
                /\ InBounds(o.file)
                /\ files' = [files EXCEPT ![hs[j].file] = o.file]
                /\ UNCHANGED <<hs, saved, linux>>
    BY <2>1
  <2>3. files[hs[j].file] \in FileRecord /\ hs[j].pos \in Nat /\ files[hs[j].file].len \in Nat
    BY AHandle DEF HandleRecord, FileRecord
  <2>4. /\ o.file \in FileRecord /\ o.file.len \in Nat
        /\ o.file.name = files[hs[j].file].name /\ o.file.kind = files[hs[j].file].kind
        /\ o.file.writable = files[hs[j].file].writable
        /\ o.file.len >= files[hs[j].file].len
    BY <2>2, <2>3, WriteRecord DEF FileRecord
  <2>5. hs' = [hs EXCEPT ![j].pos = hs[j].pos]
    BY <2>2, SameHandle
  <2>6. ~linux /\ has_bytes(o.file) => hs[j].pos <= o.file.len
    <3>1. ~linux /\ has_bytes(o.file) => hs[j].pos <= files[hs[j].file].len
      BY <2>4, AHandle DEF has_bytes
    <3> QED BY <2>3, <2>4, <3>1
  <2> QED BY <2>2, <2>3, <2>4, <2>5, <2>6, WrittenKeeps
<1> QED BY <1>2, <1>3

\* A gathered write keeps the invariant.
LEMMA WriteVKeeps ==
  ASSUME FsInv, NEW fd, NEW buf \in Buffers, NEW next \in Buffers, WriteV(fd, buf, next)
  PROVE  FsInv'
<1>1. Len(buf) \in Nat /\ Len(next) \in Nat
  BY BufferLength
<1>2. PICK j \in DOMAIN hs : \E o \in Outcomes(files[hs[j].file], hs[j].pos, buf) :
        \E p \in Outcomes(o.file, hs[j].pos + Len(buf), next) :
          /\ o.ok /\ InBounds(p.file)
          /\ files' = [files EXCEPT ![hs[j].file] = p.file]
          /\ hs' = [hs EXCEPT ![j].pos = IF p.ok THEN hs[j].pos + Len(buf) + Len(next)
                                         ELSE hs[j].pos + Len(buf)]
          /\ UNCHANGED <<saved, linux>>
  BY DEF WriteV, handle_by_fd
<1>3. PICK o \in Outcomes(files[hs[j].file], hs[j].pos, buf) :
        \E p \in Outcomes(o.file, hs[j].pos + Len(buf), next) :
          /\ o.ok /\ InBounds(p.file)
          /\ files' = [files EXCEPT ![hs[j].file] = p.file]
          /\ hs' = [hs EXCEPT ![j].pos = IF p.ok THEN hs[j].pos + Len(buf) + Len(next)
                                         ELSE hs[j].pos + Len(buf)]
          /\ UNCHANGED <<saved, linux>>
  BY <1>2
<1>4. PICK p \in Outcomes(o.file, hs[j].pos + Len(buf), next) :
          /\ o.ok /\ InBounds(p.file)
          /\ files' = [files EXCEPT ![hs[j].file] = p.file]
          /\ hs' = [hs EXCEPT ![j].pos = IF p.ok THEN hs[j].pos + Len(buf) + Len(next)
                                         ELSE hs[j].pos + Len(buf)]
          /\ UNCHANGED <<saved, linux>>
  BY <1>3
<1>5. files[hs[j].file] \in FileRecord /\ hs[j].pos \in Nat /\ files[hs[j].file].len \in Nat
  BY AHandle DEF HandleRecord, FileRecord
<1> DEFINE mid == hs[j].pos + Len(buf)
           q == IF p.ok THEN mid + Len(next) ELSE mid
<1>6. /\ o.file \in FileRecord /\ o.file.len \in Nat
      /\ o.file.name = files[hs[j].file].name /\ o.file.kind = files[hs[j].file].kind
      /\ o.file.writable = files[hs[j].file].writable
      /\ o.file.len >= files[hs[j].file].len /\ o.file.len >= mid
  BY <1>4, <1>5, WriteRecord DEF FileRecord
<1>7. mid \in Nat
  BY <1>1, <1>5
<1> HIDE DEF mid
<1>8. /\ p.file \in FileRecord /\ p.file.len \in Nat
      /\ p.file.name = o.file.name /\ p.file.kind = o.file.kind
      /\ p.file.writable = o.file.writable
      /\ p.file.len >= o.file.len /\ p.ok \in BOOLEAN
      /\ p.ok => p.file.len >= mid + Len(next)
  BY <1>4, <1>6, <1>7, WriteRecord DEF FileRecord, mid
<1>9. q \in Nat /\ q <= p.file.len /\ p.file.len >= files[hs[j].file].len
  BY <1>1, <1>5, <1>6, <1>7, <1>8
<1>10. hs' = [hs EXCEPT ![j].pos = q]
  BY <1>4 DEF mid
<1> HIDE DEF q
<1> DEFINE g == p.file
<1>11. /\ g \in FileRecord /\ g.name = files[hs[j].file].name /\ g.kind = files[hs[j].file].kind
       /\ g.writable = files[hs[j].file].writable /\ g.len >= files[hs[j].file].len
       /\ files' = [files EXCEPT ![hs[j].file] = g] /\ q <= g.len
  BY <1>4, <1>6, <1>8, <1>9
<1> HIDE DEF g
<1> QED BY <1>4, <1>9, <1>10, <1>11, WrittenKeeps

-----------------------------------------------------------------------------

\* A new file system satisfies the invariant.
LEMMA InitKeeps == mb_fs_new => FsInv
<1> SUFFICES ASSUME mb_fs_new PROVE FsInv
  OBVIOUS
<1>1. << >> \in Seq(Bytes \cup {0, Junk})
  BY EmptySeq
<1>2. /\ Stream(Stdin, "empty") \in FileRecord /\ Stream(Out[1], "sysout") \in FileRecord
      /\ Stream(Out[2], "sysout") \in FileRecord
  BY <1>1 DEF Stream, FileRecord, AllNames
<1>3. files = <<Stream(Stdin, "empty"), Stream(Out[1], "sysout"), Stream(Out[2], "sysout")>>
  BY DEF mb_fs_new
<1>4. files \in Seq(FileRecord) /\ DOMAIN files = 1 .. 3
  BY <1>2, <1>3
<1>5. /\ files[1] = Stream(Stdin, "empty") /\ files[2] = Stream(Out[1], "sysout")
      /\ files[3] = Stream(Out[2], "sysout")
  BY <1>3
<1>6. hs = [j \in 1 .. 3 |-> [fd |-> j - 1, file |-> j, pos |-> 0]]
  BY DEF mb_fs_new
<1>7. \A j \in 1 .. 3 : [fd |-> j - 1, file |-> j, pos |-> 0] \in HandleRecord
  BY DEF HandleRecord
<1>8. hs \in Seq(HandleRecord)
  BY <1>6, <1>7, IsASeq
<1>9. FsTypeOK
  BY <1>4, <1>8 DEF FsTypeOK, HandleRecord, mb_fs_new
<1>10. \A j \in 1 .. 3 : j = 1 \/ j = 2 \/ j = 3
  OBVIOUS
<1>11. \A j \in 1 .. 3 : ~files[j].writable /\ ~has_bytes(files[j])
  BY <1>5, <1>10 DEF Stream, has_bytes
<1>12. NamesOnce
  <2>1. files[1].name = Stdin /\ files[2].name = Out[1] /\ files[3].name = Out[2]
    BY <1>5 DEF Stream
  <2>2. \A j \in 1 .. 3 : files[j].name \notin Writable
    BY <1>10, <2>1, FsAssumption
  <2>3. \A i, k \in 1 .. 3 : files[i].name = files[k].name => i = k
    BY <1>10, <2>1, FsAssumption
  <2> QED BY <1>4, <1>11, <2>2, <2>3 DEF NamesOnce, has_bytes
<1>13. SavedSound
  BY DEF SavedSound, mb_fs_new
<1>14. FdsBounded
  BY <1>6, FsAssumption DEF FdsBounded
<1>15. HandlesSound
  BY <1>4, <1>6, <1>11 DEF HandlesSound
<1>16. PositionsWithin
  BY <1>6, <1>11 DEF PositionsWithin
<1> QED BY <1>9, <1>12, <1>13, <1>14, <1>15, <1>16 DEF FsInv

\* The mounts keep the invariant.
LEMMA MountKeeps ==
  ASSUME FsInv, NEW n \in AllNames, NEW buf \in Buffers,
         mb_fs_mount(n, buf) \/ mb_fs_mount_path(n, buf)
  PROVE  FsInv'
<1>1. buf \in Seq(Bytes \cup {0, Junk}) /\ Len(buf) \in Nat
  <2>1. PICK k \in Sizes : buf \in [1 .. k -> Bytes]
    BY DEF Buffers
  <2>2. k \in Nat
    BY FsAssumption
  <2>3. buf \in Seq(Bytes \cup {0, Junk})
    BY <2>1, <2>2, IsASeq
  <2> QED BY <2>3, LenProperties
<1>3. CASE mb_fs_mount(n, buf)
  <2> DEFINE f == [name |-> n, kind |-> "regular", writable |-> n \in Writable,
                   data |-> buf, len |-> Len(buf)]
  <2>1. /\ f \in FileRecord /\ (f.writable <=> f.name \in Writable)
        /\ f.kind # "host_out" /\ (f.writable => f.kind = "regular")
    <3>1. CASE n \in Writable
      <4>1. f = [name |-> n, kind |-> "regular", writable |-> TRUE, data |-> buf, len |-> Len(buf)]
        BY <3>1
      <4> HIDE DEF f
      <4> QED BY <1>1, <3>1, <4>1 DEF FileRecord, has_bytes
    <3>2. CASE n \notin Writable
      <4>1. f = [name |-> n, kind |-> "regular", writable |-> FALSE, data |-> buf, len |-> Len(buf)]
        <5>1. (n \in Writable) = FALSE
          BY <3>2
        <5> QED BY <5>1
      <4> HIDE DEF f
      <4> QED BY <1>1, <3>2, <4>1 DEF FileRecord, has_bytes
    <3> QED BY <3>1, <3>2
  <2>2. Added(f)
    BY <1>3 DEF mb_fs_mount
  <2> HIDE DEF f
  <2> QED BY <2>1, <2>2, AddedKeeps
<1>4. CASE mb_fs_mount_path(n, buf)
  <2> DEFINE f == [name |-> n, kind |-> "host", writable |-> FALSE,
                   data |-> buf, len |-> Len(buf)]
  <2>1. /\ f \in FileRecord /\ (f.writable <=> f.name \in Writable)
        /\ f.kind # "host_out" /\ (f.writable => f.kind = "regular")
    BY <1>1, <1>4 DEF FileRecord, has_bytes, mb_fs_mount_path
  <2>2. Added(f)
    BY <1>4 DEF mb_fs_mount_path
  <2> HIDE DEF f
  <2> QED BY <2>1, <2>2, AddedKeeps
<1> QED BY <1>3, <1>4

\* Every step keeps the invariant.
LEMMA StepKeeps == FsInv /\ [FsNext]_fsVars => FsInv'
<1> SUFFICES ASSUME FsInv, [FsNext]_fsVars PROVE FsInv'
  OBVIOUS
<1>1. Sizes \subseteq Nat /\ Names \subseteq AllNames
  BY FsAssumption DEF AllNames
<1>2. CASE Tables(AllNames, Names, Buffers, Descriptors)
  <2>1. CASE \E n \in AllNames, b \in Buffers : mb_fs_mount(n, b)
    BY <2>1, MountKeeps
  <2>2. CASE \E n \in Names, b \in Buffers : mb_fs_mount_path(n, b)
    BY <1>1, <2>2, MountKeeps
  <2>3. CASE \E n \in Names : mb_fs_mount_path_writable(n)
    <3> PICK n \in Names : mb_fs_mount_path_writable(n)
      BY <2>3
    <3> DEFINE f == [name |-> n, kind |-> "host_out", writable |-> TRUE, data |-> << >>, len |-> 0]
    <3>1. << >> \in Seq(Bytes \cup {0, Junk})
      BY EmptySeq
    <3>2. /\ f \in FileRecord /\ (f.writable <=> f.name \in Writable)
          /\ f.writable /\ f.kind = "host_out"
      BY <1>1, <3>1 DEF FileRecord, has_bytes, mb_fs_mount_path_writable
    <3>3. Added(f)
      BY DEF mb_fs_mount_path_writable
    <3> HIDE DEF f
    <3> QED BY <3>2, <3>3, AddedKeeps
  <2>4. CASE \E n \in AllNames : mb_fs_unmount(n)
    BY <2>4, UnmountKeeps
  <2>5. CASE \E n \in AllNames, access \in {"read", "write", "both"} :
               mb_fs_open(n, access) \/ (\E fails \in BOOLEAN : open_file(n, access, fails))
    BY <2>5, OpenKeeps
  <2>6. CASE \E fd \in Descriptors \cap Descriptors : mb_fs_dup(fd) \/ mb_fs_close(fd)
    BY <2>6, DupKeeps, CloseKeeps
  <2> QED BY <1>2, <2>1, <2>2, <2>3, <2>4, <2>5, <2>6 DEF Tables
<1>3. CASE States
  BY <1>3, SaveKeeps, LoadKeeps DEF States
<1>4. CASE Moves(Sizes)
  <2>1. CASE \E n \in Names, s \in Sizes : mb_fs_truncate_name(n, s)
    BY <1>1, <2>1, TruncateKeeps
  <2>2. CASE \E fd \in Descriptors, s \in Sizes : mb_fs_truncate_fd(fd, s)
    BY <1>1, <2>2, TruncateKeeps DEF mb_fs_truncate_fd
  <2>3. CASE \E fd \in Descriptors, s \in Sizes : mb_fs_seek(fd, s)
    BY <1>1, <2>3, SeekKeeps
  <2> QED BY <1>4, <2>1, <2>2, <2>3 DEF Moves
<1>5. CASE Transfers(Buffers)
  <2> PICK fd \in Descriptors :
       \/ \E n \in Sizes : mb_fs_read(fd, n)
       \/ \E n, m \in Sizes : ReadV(fd, n, m) \/ PRead64(fd, n, m)
       \/ \E b \in Buffers : mb_fs_write(fd, b)
       \/ \E b, c \in Buffers : WriteV(fd, b, c)
       \/ \E b \in Buffers, at \in Sizes : mb_fs_pwrite(fd, b, at)
    BY <1>5 DEF Transfers
  <2>1. CASE \E n \in Sizes : mb_fs_read(fd, n)
    BY <1>1, <2>1, ReadKeeps
  <2>2. CASE \E n, m \in Sizes : ReadV(fd, n, m) \/ PRead64(fd, n, m)
    BY <1>1, <2>2, ReadKeeps, SeekKeeps
  <2>3. CASE \E b \in Buffers : mb_fs_write(fd, b)
    <3>1. 0 \in Nat
      OBVIOUS
    <3> QED BY <2>3, <3>1, WriteKeeps
  <2>4. CASE \E b, c \in Buffers : WriteV(fd, b, c)
    BY <2>4, WriteVKeeps
  <2>5. CASE \E b \in Buffers, at \in Sizes : mb_fs_pwrite(fd, b, at)
    BY <1>1, <2>5, WriteKeeps
  <2> QED BY <2>1, <2>2, <2>3, <2>4, <2>5
<1>6. CASE UNCHANGED fsVars
  BY <1>6 DEF fsVars, FsInv, FsTypeOK, NamesOnce, SavedSound, FdsBounded, HandlesSound,
              PositionsWithin, has_bytes
<1> QED BY <1>2, <1>3, <1>4, <1>5, <1>6 DEF FsNext

\* Every reachable state satisfies the inductive invariant.
THEOREM FsInvariant == FsSpec => []FsInv
BY InitKeeps, StepKeeps, PTL DEF FsSpec

\* The descriptor table of fs.c is sound whatever is mounted, unmounted,
\* opened, duplicated, closed, saved and loaded, in any order: one handle per
\* descriptor, each on a mounted file, and one handle at most on a writable one.
THEOREM HandlesAlwaysSound == FsSpec => []HandlesSound
<1>1. FsInv => HandlesSound
  BY DEF FsInv
<1> QED BY <1>1, FsInvariant, PTL

\* Without Linux seeks no handle is past the end of its file, ever: what
\* pread64 of host.c needs to find its own way back.
THEOREM PositionsAlwaysWithin == FsSpec => []PositionsWithin
<1>1. FsInv => PositionsWithin
  BY DEF FsInv
<1> QED BY <1>1, FsInvariant, PTL

-----------------------------------------------------------------------------
\* No byte of the host's heap is part of a file.

\* A regular file's buffer reaches its length and holds nothing of the heap
\* before it; the others hold nothing of the heap at all.
CleanFile(f) ==
  /\ f.kind = "regular" => Len(f.data) >= f.len
  /\ \A k \in DOMAIN f.data : k <= f.len \/ f.kind # "regular" => f.data[k] # Junk

CleanFiles == \A i \in DOMAIN files : CleanFile(files[i])

\* A buffer a write is given holds no heap bytes.
LEMMA CleanBuffer ==
  ASSUME NEW buf \in Buffers
  PROVE  /\ Len(buf) \in Nat /\ DOMAIN buf = 1 .. Len(buf)
         /\ \A k \in 1 .. Len(buf) : buf[k] \in Bytes /\ buf[k] # Junk
<1>1. PICK k \in Sizes : buf \in [1 .. k -> Bytes]
  BY DEF Buffers
<1>2. k \in Nat
  BY FsAssumption
<1>3. buf \in Seq(Bytes)
  BY <1>1, <1>2, IsASeq
<1>4. Len(buf) \in Nat /\ DOMAIN buf = 1 .. Len(buf)
  BY <1>3, LenProperties
<1> QED BY <1>1, <1>4, FsAssumption

\* The bytes of a sequence made by a rule.
LEMMA LenOfFunction ==
  ASSUME NEW S, NEW n \in Nat, NEW q \in [1 .. n -> S]
  PROVE  Len(q) = n /\ DOMAIN q = 1 .. n
<1>1. q \in Seq(S)
  BY IsASeq
<1> QED BY <1>1, LenProperties

\* A file grown or cut shows no heap bytes.
LEMMA CleanResized ==
  ASSUME NEW f \in FileRecord, CleanFile(f), CanTruncate(f), NEW size \in Nat
  PROVE  CleanFile(Resized(f, size))
<1> DEFINE B == Bytes \cup {0, Junk}
           d == IF f.kind = "host_out" THEN DiskCut(f.data, size)
                ELSE Zeroed(Realloc(f.data, size), f.len, size)
           n == Len(f.data)
<1>1. f.len \in Nat /\ f.data \in Seq(B)
  BY DEF FileRecord
<1>2. n \in Nat /\ DOMAIN f.data = 1 .. n /\ \A i \in 1 .. n : f.data[i] \in B
  BY <1>1, ElementOfSeq, LenProperties
<1>3. Junk # 0
  BY FsAssumption
<1>4. Resized(f, size).data = d /\ Resized(f, size).len = size /\ Resized(f, size).kind = f.kind
  BY DEF Resized, FileRecord
<1>5. CASE f.kind = "host_out"
  <2>1. d = [i \in 1 .. size |-> IF i <= n THEN f.data[i] ELSE 0]
    BY <1>5 DEF DiskCut
  <2>2. \A i \in 1 .. size : d[i] # Junk
    BY <1>2, <1>3, <1>5, <2>1 DEF CleanFile
  <2> HIDE DEF d
  <2> QED BY <1>4, <1>5, <2>1, <2>2 DEF CleanFile
<1>6. CASE f.kind # "host_out"
  <2>1. Realloc(f.data, size) \in [1 .. size -> B]
    BY <1>2 DEF Realloc
  <2>2. d \in [1 .. size -> B]
    BY <1>6, <2>1 DEF Zeroed
  <2>3. \A i \in 1 .. size : d[i] = IF i > f.len THEN 0 ELSE IF i <= n THEN f.data[i] ELSE Junk
    BY <1>1, <1>6 DEF Zeroed, Realloc
  <2>4. Len(d) = size /\ DOMAIN d = 1 .. size
    BY <2>2, LenOfFunction
  <2>5. \A i \in 1 .. size : i <= size
    OBVIOUS
  <2> HIDE DEF d
  <2>6. f.kind = "regular"
    BY <1>6 DEF CanTruncate
  <2>7. \A i \in 1 .. size : d[i] # Junk
    BY <1>1, <1>2, <1>3, <2>3, <2>6 DEF CleanFile
  <2> QED BY <1>4, <2>4, <2>7 DEF CleanFile
<1> QED BY <1>5, <1>6

\* Whatever becomes of a write, the file shows no heap bytes.
LEMMA CleanOutcomes ==
  ASSUME NEW f \in FileRecord, CleanFile(f), NEW at \in Nat, NEW buf \in Buffers,
         NEW o \in Outcomes(f, at, buf), f.kind \in {"regular", "host_out"}
  PROVE  CleanFile(o.file)
<1> DEFINE B == Bytes \cup {0, Junk}
           n == Len(buf)
           m == Len(f.data)
<1>1. n \in Nat /\ DOMAIN buf = 1 .. n /\ \A k \in 1 .. n : buf[k] \in Bytes /\ buf[k] # Junk
  BY CleanBuffer
<1>2. f.len \in Nat /\ f.data \in Seq(B)
  BY DEF FileRecord
<1>3. m \in Nat /\ DOMAIN f.data = 1 .. m /\ \A i \in 1 .. m : f.data[i] \in B
  BY <1>2, ElementOfSeq, LenProperties
<1>4. Junk # 0
  BY FsAssumption
<1>5. CASE f.kind = "host_out"
  <2>1. \A k \in 1 .. m : f.data[k] # Junk
    BY <1>3, <1>5 DEF CleanFile
  <2>2. ASSUME NEW c, NEW w \in Nat, Len(c) = w, \A i \in 1 .. w : c[i] # Junk
        PROVE  \A k \in DOMAIN OnDisk(f.data, at, c) : OnDisk(f.data, at, c)[k] # Junk
    <3>1. CASE c = << >>
      BY <1>3, <2>1, <3>1 DEF OnDisk
    <3>2. CASE c # << >>
      <4> DEFINE top == Larger(Len(f.data), at + Len(c))
      <4>1. top \in Nat
        BY <1>3, <2>2 DEF Larger
      <4>2. OnDisk(f.data, at, c) = [i \in 1 .. top |->
                IF i > at /\ i <= at + Len(c) THEN c[i - at]
                ELSE IF i <= Len(f.data) THEN f.data[i] ELSE 0]
        BY <3>2 DEF OnDisk
      <4>3. \A i \in 1 .. top : (IF i > at /\ i <= at + Len(c) THEN c[i - at]
                ELSE IF i <= Len(f.data) THEN f.data[i] ELSE 0) # Junk
        BY <1>3, <1>4, <2>1, <2>2
      <4> QED BY <4>2, <4>3
    <3> QED BY <3>1, <3>2
  <2>3. CASE o = [file |-> HostWritten(f, at, buf), ok |-> TRUE]
    <3>1. o.file.kind = f.kind /\ o.file.data = OnDisk(f.data, at, buf)
      BY <2>3 DEF HostWritten, FileRecord
    <3>2. \A k \in DOMAIN o.file.data : o.file.data[k] # Junk
      BY <1>1, <2>2, <3>1
    <3> QED BY <1>5, <3>1, <3>2 DEF CleanFile
  <2>4. CASE \E k \in 0 .. n - 1 :
               o = [file |-> [f EXCEPT !.data = OnDisk(@, at, SubSeq(buf, 1, k))], ok |-> FALSE]
    <3>1. PICK k \in 0 .. n - 1 :
               o = [file |-> [f EXCEPT !.data = OnDisk(@, at, SubSeq(buf, 1, k))], ok |-> FALSE]
      BY <2>4
    <3>2. k \in Nat /\ k <= n
      BY <1>1
    <3>3. \A x \in 1 .. k : buf[x] \in Bytes
      BY <1>1, <3>2
    <3>4. /\ SubSeq(buf, 1, k) \in Seq(Bytes) /\ Len(SubSeq(buf, 1, k)) = k
      BY <3>2, <3>3, SubSeqProperties
    <3>5. \A i \in 1 .. k : SubSeq(buf, 1, k)[i] # Junk
      <4>1. \A i \in 1 .. k : SubSeq(buf, 1, k)[i] \in Bytes
        BY <3>2, <3>4, ElementOfSeq
      <4> QED BY <4>1, FsAssumption
    <3>6. o.file.kind = f.kind /\ o.file.data = OnDisk(f.data, at, SubSeq(buf, 1, k))
      BY <3>1 DEF FileRecord
    <3>7. \A x \in DOMAIN o.file.data : o.file.data[x] # Junk
      BY <2>2, <3>2, <3>4, <3>5, <3>6
    <3> QED BY <1>5, <3>6, <3>7 DEF CleanFile
  <2> QED BY <1>5, <2>3, <2>4 DEF Outcomes
<1>6. CASE f.kind = "regular"
  <2>1. CASE o = [file |-> f, ok |-> FALSE]
    BY <2>1
  <2>2. CASE o = [file |-> Written(f, at, buf), ok |-> TRUE]
    <3> DEFINE end == at + n
               d == IF end > m THEN Realloc(f.data, end) ELSE f.data
               top == Larger(m, end)
               c == Copied(Zeroed(d, f.len, at), at, buf)
               len == Larger(f.len, end)
    <3>1. top \in Nat /\ end \in Nat /\ top >= end /\ top >= m /\ m >= f.len
      BY <1>1, <1>2, <1>3, <1>6 DEF Larger, CleanFile
    <3>2. /\ DOMAIN d = 1 .. top
          /\ \A i \in 1 .. top : d[i] = IF i <= m THEN f.data[i] ELSE Junk
      BY <1>1, <1>3, <3>1 DEF Realloc, Larger
    <3>3. /\ DOMAIN c = 1 .. top
          /\ \A i \in 1 .. top : c[i] = IF i > at /\ i <= end THEN buf[i - at]
                                        ELSE IF i > f.len /\ i <= at THEN 0 ELSE d[i]
      BY <3>2 DEF Copied, Zeroed
    <3>4. len \in Nat /\ len <= top /\ \A i \in 1 .. top : i <= len => i <= f.len \/ i <= end
      BY <1>2, <3>1 DEF Larger
    <3>5. \A i \in 1 .. top : i <= f.len => i <= m /\ d[i] # Junk
      BY <1>2, <1>3, <1>6, <3>1, <3>2 DEF CleanFile
    <3>6. ASSUME NEW i \in 1 .. top, i <= len PROVE c[i] # Junk
      <4>1. CASE i > at /\ i <= end
        BY <1>1, <3>1, <3>3, <4>1
      <4>2. CASE ~(i > at /\ i <= end) /\ i > f.len
        <5>1. i <= end /\ i <= at
          BY <1>2, <3>1, <3>4, <3>6, <4>2
        <5>2. c[i] = 0
          BY <3>3, <4>2, <5>1
        <5> HIDE DEF c
        <5> QED BY <1>4, <5>2
      <4>3. CASE ~(i > at /\ i <= end) /\ i <= f.len
        <5>0. ~(i > f.len)
          BY <1>2, <4>3
        <5> HIDE DEF c, d
        <5>1. c[i] = d[i]
          BY <3>3, <4>3, <5>0
        <5> QED BY <3>5, <4>3, <5>1
      <4> QED BY <1>2, <4>1, <4>2, <4>3
    <3>7. Len(c) = top
      BY <3>1, <3>3 DEF Copied, Zeroed
    <3>8. o.file.kind = f.kind /\ o.file.data = c /\ o.file.len = len
      BY <2>2 DEF Written, FileRecord
    <3> HIDE DEF c, len, top
    <3> QED BY <3>3, <3>4, <3>6, <3>7, <3>8, <1>6 DEF CleanFile
  <2> QED BY <1>6, <2>1, <2>2 DEF Outcomes
<1> QED BY <1>5, <1>6

\* Files with other bytes in one place, clean as before.
LEMMA CleanChange ==
  ASSUME CleanFiles, FsInv, NEW i \in DOMAIN files, NEW g, CleanFile(g),
         files' = [files EXCEPT ![i] = g]
  PROVE  CleanFiles'
<1>1. ASSUME NEW k \in DOMAIN files' PROVE CleanFile(files'[k])
  <2>1. k \in DOMAIN files /\ files'[k] = IF k = i THEN g ELSE files[k]
    OBVIOUS
  <2>2. CleanFile(files[k])
    BY <2>1 DEF CleanFiles
  <2> QED BY <2>1, <2>2
<1> QED BY <1>1 DEF CleanFiles, CleanFile

\* A file added to clean files.
LEMMA CleanAdded ==
  ASSUME CleanFiles, FsInv, NEW f, CleanFile(f), Added(f)
  PROVE  CleanFiles'
<1>1. files \in Seq(FileRecord) /\ files' = Append(files, f)
  BY DEF FsInv, FsTypeOK, Added
<1>2. ASSUME NEW k \in DOMAIN files' PROVE CleanFile(files'[k])
  <2> files \in Seq(FileRecord \cup {f})
    BY <1>1
  <2>1. /\ Len(files) \in Nat /\ DOMAIN files = 1 .. Len(files)
        /\ DOMAIN files' = 1 .. Len(files) + 1
        /\ \A x \in 1 .. Len(files) : files'[x] = files[x]
        /\ files'[Len(files) + 1] = f
    BY <1>1, AppendProperties, LenProperties
  <2>2. CASE k \in DOMAIN files
    BY <2>1, <2>2 DEF CleanFiles
  <2>3. CASE k = Len(files) + 1
    BY <2>1, <2>3
  <2> QED BY <2>1, <2>2, <2>3
<1> QED BY <1>2 DEF CleanFiles, CleanFile

\* The mounts bring no heap bytes.
LEMMA CleanMount ==
  ASSUME CleanFiles, FsInv, NEW n \in AllNames, NEW buf \in Buffers,
         mb_fs_mount(n, buf) \/ mb_fs_mount_path(n, buf)
  PROVE  CleanFiles'
<1>1. /\ Len(buf) \in Nat /\ DOMAIN buf = 1 .. Len(buf)
      /\ \A k \in 1 .. Len(buf) : buf[k] \in Bytes /\ buf[k] # Junk
  BY CleanBuffer
<1>2. CASE mb_fs_mount(n, buf)
  <2> DEFINE f == [name |-> n, kind |-> "regular", writable |-> n \in Writable,
                   data |-> buf, len |-> Len(buf)]
  <2>1. CleanFile(f)
    BY <1>1 DEF CleanFile
  <2>2. Added(f)
    BY <1>2 DEF mb_fs_mount
  <2> HIDE DEF f
  <2> QED BY <2>1, <2>2, CleanAdded
<1>3. CASE mb_fs_mount_path(n, buf)
  <2> DEFINE f == [name |-> n, kind |-> "host", writable |-> FALSE,
                   data |-> buf, len |-> Len(buf)]
  <2>1. CleanFile(f)
    BY <1>1 DEF CleanFile
  <2>2. Added(f)
    BY <1>3 DEF mb_fs_mount_path
  <2> HIDE DEF f
  <2> QED BY <2>1, <2>2, CleanAdded
<1> QED BY <1>2, <1>3

\* A file mounted for output starts empty and brings no heap bytes.
LEMMA CleanEmpty ==
  ASSUME CleanFiles, FsInv, NEW n, mb_fs_mount_path_writable(n)
  PROVE  CleanFiles'
<1> DEFINE f == [name |-> n, kind |-> "host_out", writable |-> TRUE, data |-> << >>, len |-> 0]
<1>1. CleanFile(f)
  BY DEF CleanFile
<1>2. Added(f)
  BY DEF mb_fs_mount_path_writable
<1> HIDE DEF f
<1> QED BY <1>1, <1>2, CleanAdded

\* No step brings heap bytes into a file.
LEMMA CleanStep == FsInv /\ CleanFiles /\ [FsNext]_fsVars => CleanFiles'
<1> SUFFICES ASSUME FsInv, CleanFiles, [FsNext]_fsVars PROVE CleanFiles'
  OBVIOUS
<1>1. Sizes \subseteq Nat /\ Names \subseteq AllNames
  BY FsAssumption DEF AllNames
<1>2. ASSUME UNCHANGED files PROVE CleanFiles'
  BY <1>2 DEF CleanFiles, CleanFile
<1>3. \A i \in DOMAIN files : files[i] \in FileRecord /\ CleanFile(files[i])
  BY ElementAt DEF FsInv, FsTypeOK, CleanFiles
<1>4. ASSUME NEW n, NEW size \in Nat, mb_fs_truncate_name(n, size) PROVE CleanFiles'
  <2>1. PICK i \in DOMAIN files : CanTruncate(files[i]) /\ files' = [files EXCEPT ![i] = Resized(files[i], size)]
    BY <1>4 DEF mb_fs_truncate_name, by_name
  <2>2. CleanFile(Resized(files[i], size))
    BY <1>3, <2>1, CleanResized
  <2> QED BY <2>1, <2>2, CleanChange
<1>5. ASSUME NEW n, NEW access, NEW fails,
             mb_fs_open(n, access) \/ open_file(n, access, fails)
      PROVE  CleanFiles'
  <2>1. CASE files' = files
    BY <1>2, <2>1
  <2>2. CASE files' # files
    <3>1. PICK i \in DOMAIN files : CanTruncate(files[i]) /\ files' = [files EXCEPT ![i] = Resized(files[i], 0)]
      BY <1>5, <2>2 DEF mb_fs_open, open_file, by_name
    <3>2. CleanFile(Resized(files[i], 0))
      BY <1>3, <3>1, CleanResized
    <3> QED BY <3>1, <3>2, CleanChange
  <2> QED BY <2>1, <2>2
<1>6. ASSUME NEW n, mb_fs_unmount(n) PROVE CleanFiles'
  <2>1. PICK i \in DOMAIN files :
          files' = [k \in 1 .. Len(files) - 1 |-> IF k < i THEN files[k] ELSE files[k + 1]]
    BY <1>6 DEF mb_fs_unmount, by_name
  <2>2. Len(files) \in Nat /\ DOMAIN files = 1 .. Len(files)
    BY LenProperties DEF FsInv, FsTypeOK
  <2>3. ASSUME NEW k \in DOMAIN files' PROVE CleanFile(files'[k])
    <3>1. files'[k] = files[k] \/ files'[k] = files[k + 1]
      BY <2>1
    <3>2. k \in DOMAIN files /\ k + 1 \in DOMAIN files
      BY <2>1, <2>2
    <3> QED BY <1>3, <3>1, <3>2
  <2> QED BY <2>3 DEF CleanFiles, CleanFile
<1>7. ASSUME NEW j \in DOMAIN hs, files[hs[j].file].writable,
             NEW at \in Nat, NEW buf \in Buffers, NEW o \in Outcomes(files[hs[j].file], at, buf)
      PROVE  /\ CleanFile(o.file) /\ o.file \in FileRecord
             /\ o.file.kind \in {"regular", "host_out"}
             /\ files' = [files EXCEPT ![hs[j].file] = o.file] => CleanFiles'
  <2>1. hs[j].file \in DOMAIN files
    BY AHandle
  <2>2. files[hs[j].file].kind \in {"regular", "host_out"}
    BY <1>7, <2>1 DEF FsInv, NamesOnce
  <2>3. CleanFile(o.file)
    BY <1>3, <2>1, <2>2, CleanOutcomes
  <2>4. o.file \in FileRecord /\ o.file.kind = files[hs[j].file].kind
    BY <1>3, <2>1, WriteRecord
  <2> QED BY <2>1, <2>2, <2>3, <2>4, CleanChange
<1>8. ASSUME NEW fd, NEW buf \in Buffers, NEW at \in Nat,
             mb_fs_write(fd, buf) \/ mb_fs_pwrite(fd, buf, at)
      PROVE  CleanFiles'
  <2>1. CASE mb_fs_write(fd, buf)
    <3>1. PICK j \in DOMAIN hs : \E o \in Outcomes(files[hs[j].file], hs[j].pos, buf) :
            files[hs[j].file].writable /\ files' = [files EXCEPT ![hs[j].file] = o.file]
      BY <2>1 DEF mb_fs_write, handle_by_fd
    <3>2. hs[j].pos \in Nat
      BY AHandle DEF HandleRecord
    <3>3. PICK o \in Outcomes(files[hs[j].file], hs[j].pos, buf) :
            files[hs[j].file].writable /\ files' = [files EXCEPT ![hs[j].file] = o.file]
      BY <3>1
    <3> QED BY <1>7, <3>2, <3>3
  <2>2. CASE mb_fs_pwrite(fd, buf, at)
    <3>1. PICK j \in DOMAIN hs : \E o \in Outcomes(files[hs[j].file], at, buf) :
            files[hs[j].file].writable /\ files' = [files EXCEPT ![hs[j].file] = o.file]
      BY <2>2 DEF mb_fs_pwrite, handle_by_fd
    <3> QED BY <1>7, <3>1
  <2> QED BY <1>8, <2>1, <2>2
<1>9. ASSUME NEW fd, NEW buf \in Buffers, NEW next \in Buffers, WriteV(fd, buf, next)
      PROVE  CleanFiles'
  <2>1. PICK j \in DOMAIN hs : \E o \in Outcomes(files[hs[j].file], hs[j].pos, buf) :
          \E p \in Outcomes(o.file, hs[j].pos + Len(buf), next) :
            files[hs[j].file].writable /\ files' = [files EXCEPT ![hs[j].file] = p.file]
    BY <1>9 DEF WriteV, handle_by_fd
  <2>2. PICK o \in Outcomes(files[hs[j].file], hs[j].pos, buf) :
          \E p \in Outcomes(o.file, hs[j].pos + Len(buf), next) :
            files[hs[j].file].writable /\ files' = [files EXCEPT ![hs[j].file] = p.file]
    BY <2>1
  <2>3. PICK p \in Outcomes(o.file, hs[j].pos + Len(buf), next) :
            files[hs[j].file].writable /\ files' = [files EXCEPT ![hs[j].file] = p.file]
    BY <2>2
  <2>4. hs[j].pos \in Nat /\ hs[j].file \in DOMAIN files
    BY AHandle DEF HandleRecord
  <2>5. CleanFile(o.file) /\ o.file \in FileRecord /\ o.file.kind \in {"regular", "host_out"}
    BY <1>7, <2>3, <2>4
  <2>6. hs[j].pos + Len(buf) \in Nat
    BY <2>4, BufferLength
  <2>7. CleanFile(p.file)
    BY <2>5, <2>6, CleanOutcomes
  <2> QED BY <2>3, <2>4, <2>7, CleanChange
<1>10. CASE Tables(AllNames, Names, Buffers, Descriptors)
  <2>1. CASE \E n \in AllNames, b \in Buffers : mb_fs_mount(n, b)
    BY <2>1, CleanMount
  <2>2. CASE \E n \in Names, b \in Buffers : mb_fs_mount_path(n, b)
    BY <1>1, <2>2, CleanMount
  <2>3. CASE \E n \in Names : mb_fs_mount_path_writable(n)
    BY <2>3, CleanEmpty
  <2>4. CASE \E n \in AllNames : mb_fs_unmount(n)
    BY <1>6, <2>4
  <2>5. CASE \E n \in AllNames, access \in {"read", "write", "both"} :
               mb_fs_open(n, access) \/ (\E fails \in BOOLEAN : open_file(n, access, fails))
    BY <1>5, <2>5
  <2>6. CASE \E fd \in Descriptors \cap Descriptors : mb_fs_dup(fd) \/ mb_fs_close(fd)
    BY <1>2, <2>6 DEF mb_fs_dup, mb_fs_close
  <2> QED BY <1>10, <2>1, <2>2, <2>3, <2>4, <2>5, <2>6 DEF Tables
<1>11. CASE States
  BY <1>2, <1>11 DEF States, mb_fs_save_handles, mb_fs_load_handles
<1>12. CASE Moves(Sizes)
  <2>1. CASE \E n \in Names, s \in Sizes : mb_fs_truncate_name(n, s)
    BY <1>1, <1>4, <2>1
  <2>2. CASE \E fd \in Descriptors, s \in Sizes : mb_fs_truncate_fd(fd, s)
    BY <1>1, <1>4, <2>2 DEF mb_fs_truncate_fd
  <2>3. CASE \E fd \in Descriptors, s \in Sizes : mb_fs_seek(fd, s)
    BY <1>2, <2>3 DEF mb_fs_seek
  <2> QED BY <1>12, <2>1, <2>2, <2>3 DEF Moves
<1>13. CASE Transfers(Buffers)
  <2> PICK fd \in Descriptors :
       \/ \E n \in Sizes : mb_fs_read(fd, n)
       \/ \E n, m \in Sizes : ReadV(fd, n, m) \/ PRead64(fd, n, m)
       \/ \E b \in Buffers : mb_fs_write(fd, b)
       \/ \E b, c \in Buffers : WriteV(fd, b, c)
       \/ \E b \in Buffers, at \in Sizes : mb_fs_pwrite(fd, b, at)
    BY <1>13 DEF Transfers
  <2>1. CASE \/ \E n \in Sizes : mb_fs_read(fd, n)
             \/ \E n, m \in Sizes : ReadV(fd, n, m) \/ PRead64(fd, n, m)
    BY <1>2, <2>1 DEF mb_fs_read, ReadV, PRead64
  <2>2. CASE \E b \in Buffers : mb_fs_write(fd, b)
    <3>1. 0 \in Nat
      OBVIOUS
    <3> QED BY <1>8, <2>2, <3>1
  <2>3. CASE \E b, c \in Buffers : WriteV(fd, b, c)
    BY <1>9, <2>3
  <2>4. CASE \E b \in Buffers, at \in Sizes : mb_fs_pwrite(fd, b, at)
    BY <1>1, <1>8, <2>4
  <2> QED BY <2>1, <2>2, <2>3, <2>4
<1>14. CASE UNCHANGED fsVars
  BY <1>2, <1>14 DEF fsVars
<1> QED BY <1>10, <1>11, <1>12, <1>13, <1>14 DEF FsNext

\* No byte that realloc brought from the host's heap ever comes to be within a
\* file's length, whatever sequence of writes, gaps and truncations made it:
\* nothing of the host's memory reaches the guest or a save file.
THEOREM NeverHeapBytes == FsSpec => []NoHeapBytes
<1>1. mb_fs_new => CleanFiles
  <2> SUFFICES ASSUME mb_fs_new, NEW i \in DOMAIN files PROVE CleanFile(files[i])
    BY DEF CleanFiles
  <2>1. i = 1 \/ i = 2 \/ i = 3
    BY DEF mb_fs_new
  <2>2. files[i].kind # "regular" /\ files[i].data = << >>
    BY <2>1 DEF mb_fs_new, Stream
  <2> QED BY <2>2 DEF CleanFile
<1>2. FsInv /\ CleanFiles => NoHeapBytes
  BY DEF CleanFiles, CleanFile, NoHeapBytes
<1> QED BY <1>1, <1>2, CleanStep, FsInvariant, PTL DEF FsSpec
=============================================================================
