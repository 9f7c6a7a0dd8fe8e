------------------------------ MODULE FileSystem ------------------------------
(***************************************************************************)
(* The virtual file system of src/source/host/fs.c as it is kept: a list   *)
(* of mounted files, and a list of open handles that name a file by its    *)
(* PLACE in that list; with the calls of host.c that are made of several   *)
(* of its operations (open with O_TRUNC, pread64, readv, writev).  A call  *)
(* that refuses changes nothing and is no step here.                       *)
(*                                                                         *)
(* A file's bytes are a short sequence.  Junk is a byte that realloc       *)
(* brought and nothing has written: the host's heap, different every run.  *)
(***************************************************************************)
EXTENDS Integers, Sequences, Fifo

CONSTANTS Names, Stdin, Out, Bytes, Sizes,
          Writable,      \* the names the frontend mounts writable, every time
          Junk,          \* what realloc brings
          MaxHandles     \* bound: descriptors open at once

ASSUME FsAssumption ==
  /\ Sizes \subseteq Nat /\ MaxHandles \in Nat
  /\ Writable \subseteq Names
  /\ Names \cap {Stdin, Out[1], Out[2]} = {}
  /\ Stdin # Out[1] /\ Stdin # Out[2] /\ Out[1] # Out[2]
  /\ Junk \notin Bytes \cup {0}

VARIABLES files,   \* fs->files: sequence of [name, kind, writable, data, len]
          hs,      \* fs->hs: sequence of [fd, file, pos]
          saved,   \* the last OpenFileTable record written, {} before one
          linux    \* fs->linux_answers

AllNames == Names \cup {Stdin, Out[1], Out[2]}

fsVars == <<files, hs, saved, linux>>

has_bytes(f) == f.kind \in {"regular", "host", "host_out"}
host_file(f) == f.kind \in {"host", "host_out"}

Larger(a, b) == IF a > b THEN a ELSE b
Smaller(a, b) == IF a < b THEN a ELSE b

\* Places of the files called n: one or none.
by_name(n) == {i \in DOMAIN files : files[i].name = n}

file_is_open(i) == \E j \in DOMAIN hs : hs[j].file = i

\* Places of the handles with descriptor fd: one or none.
handle_by_fd(fd) == {j \in DOMAIN hs : hs[j].fd = fd}

Descriptors == {hs[j].fd : j \in DOMAIN hs}

\* The lowest descriptor not in use.
FreeFd == Least((0 .. Len(hs)) \ Descriptors)

\* The one file called n, and the one handle with descriptor fd.
FileCalled(n) == CHOOSE i \in DOMAIN files : files[i].name = n
HandleOf(fd) == hs[CHOOSE j \in DOMAIN hs : hs[j].fd = fd]

handle_add(i, pos) == Append(hs, [fd |-> FreeFd, file |-> i, pos |-> pos])

\* A buffer resized by realloc: what it gains is junk.
Realloc(data, size) == [i \in 1 .. size |-> IF i <= Len(data) THEN data[i] ELSE Junk]

\* memset(data + from, 0, to - from), when there is anything between them.
Zeroed(data, from, to) ==
  [i \in DOMAIN data |-> IF i > from /\ i <= to THEN 0 ELSE data[i]]

\* memcpy(data + at, buf, n)
Copied(data, at, buf) ==
  [i \in DOMAIN data |-> IF i > at /\ i <= at + Len(buf) THEN buf[i - at] ELSE data[i]]

\* A host file after n bytes at an offset: the host fills a gap with zeros,
\* and writing no bytes makes no file longer.
OnDisk(data, at, buf) ==
  IF buf = << >> THEN data
  ELSE [i \in 1 .. Larger(Len(data), at + Len(buf)) |->
          IF i > at /\ i <= at + Len(buf) THEN buf[i - at]
          ELSE IF i <= Len(data) THEN data[i] ELSE 0]

\* ftruncate: cut, or filled with zeros.
DiskCut(data, size) == [i \in 1 .. size |-> IF i <= Len(data) THEN data[i] ELSE 0]

Buffers == UNION {[1 .. k -> Bytes] : k \in Sizes}

-----------------------------------------------------------------------------
\* Mounting.  A second file of one name is refused.  A name is read-only or
\* writable in every mount of it: docs/MACHINE-SPEC.md section 8 asks the
\* frontend for the identical read-only file set at every load.

Stream(n, kind) == [name |-> n, kind |-> kind, writable |-> FALSE, data |-> << >>, len |-> 0]

mb_fs_new ==
  /\ linux \in BOOLEAN
  /\ files = <<Stream(Stdin, "empty"), Stream(Out[1], "sysout"), Stream(Out[2], "sysout")>>
  /\ hs = [j \in 1 .. 3 |-> [fd |-> j - 1, file |-> j, pos |-> 0]]
  /\ saved = {}

Added(f) == by_name(f.name) = {} /\ files' = Append(files, f) /\ UNCHANGED <<hs, saved, linux>>

mb_fs_mount(n, data) ==
  Added([name |-> n, kind |-> "regular", writable |-> n \in Writable, data |-> data, len |-> Len(data)])

\* The length is taken here, once.
mb_fs_mount_path(n, data) ==
  n \notin Writable /\
  Added([name |-> n, kind |-> "host", writable |-> FALSE, data |-> data, len |-> Len(data)])

mb_fs_mount_path_writable(n) ==
  n \in Writable /\
  Added([name |-> n, kind |-> "host_out", writable |-> TRUE, data |-> << >>, len |-> 0])

\* Mutated unmount: the handles keep their places.
UnmountKeepsPlaces(n) ==
  \E i \in by_name(n) :
    /\ has_bytes(files[i])
    /\ ~file_is_open(i)
    /\ files' = [k \in 1 .. Len(files) - 1 |-> IF k < i THEN files[k] ELSE files[k + 1]]
    /\ UNCHANGED <<hs, saved, linux>>

\* The files after it move down one place, and the handles on them follow.  A
\* host file whose close fails is gone all the same.
mb_fs_unmount(n) ==
  \E i \in by_name(n) :
    /\ has_bytes(files[i])
    /\ ~file_is_open(i)
    /\ files' = [k \in 1 .. Len(files) - 1 |-> IF k < i THEN files[k] ELSE files[k + 1]]
    /\ hs' = [j \in DOMAIN hs |->
                IF hs[j].file > i THEN [hs[j] EXCEPT !.file = @ - 1] ELSE hs[j]]
    /\ UNCHANGED <<saved, linux>>

-----------------------------------------------------------------------------
\* Truncating, and opening.

\* File i with a new size; every handle past its end is put at its end.
Resized(f, size) ==
  [f EXCEPT !.data = IF f.kind = "host_out" THEN DiskCut(f.data, size)
                     ELSE Zeroed(Realloc(f.data, size), f.len, size),
            !.len = size]

\* Mutated clamp: not for a core whose positions may be past the end.
ClampedBeforeLinux(table, i, len) ==
  [j \in DOMAIN table |-> IF ~linux /\ table[j].file = i /\ table[j].pos > len
                          THEN [table[j] EXCEPT !.pos = len] ELSE table[j]]

Clamped(table, i, len) ==
  [j \in DOMAIN table |-> IF table[j].file = i /\ table[j].pos > len
                          THEN [table[j] EXCEPT !.pos = len] ELSE table[j]]

CanTruncate(f) == f.kind = "host_out" \/ (f.kind = "regular" /\ f.writable)

mb_fs_truncate_name(n, size) ==
  \E i \in by_name(n) :
    /\ CanTruncate(files[i])
    /\ files' = [files EXCEPT ![i] = Resized(@, size)]
    /\ hs' = Clamped(hs, i, size)
    /\ UNCHANGED <<saved, linux>>

\* By descriptor: the file is looked up again by its name.
mb_fs_truncate_fd(fd, size) ==
  \E j \in handle_by_fd(fd) : mb_fs_truncate_name(files[hs[j].file].name, size)

\* Whether access ("read", "write" or "both") is one file i may be opened
\* for, and it is not a writable file already open.
MayOpen(i, access) ==
  LET f == files[i]
      can_read == f.kind # "sysout"
      can_write == f.kind = "sysout" \/ (has_bytes(f) /\ f.writable)
  IN  /\ ~(has_bytes(f) /\ f.writable /\ file_is_open(i))
      /\ access \in {"read", "both"} => can_read
      /\ access \in {"write", "both"} => can_write

mb_fs_open(n, access) ==
  /\ Len(hs) < MaxHandles
  /\ \E i \in by_name(n) : MayOpen(i, access) /\ hs' = handle_add(i, 0)
  /\ UNCHANGED <<files, saved, linux>>

\* open with O_TRUNC, machine v3: not for reading only; the file is emptied
\* after it is open, unless it is a stream.  When that fails the call is an
\* error and the descriptor stays open.
open_file(n, access, fails) ==
  /\ Len(hs) < MaxHandles
  /\ access # "read"
  /\ \E i \in by_name(n) :
       LET emptied == CanTruncate(files[i]) /\ ~fails
       IN  /\ MayOpen(i, access)
           /\ files' = IF emptied THEN [files EXCEPT ![i] = Resized(@, 0)] ELSE files
           /\ hs' = IF emptied THEN Clamped(handle_add(i, 0), i, 0) ELSE handle_add(i, 0)
  /\ UNCHANGED <<saved, linux>>

mb_fs_dup(fd) ==
  /\ Len(hs) < MaxHandles
  /\ \E j \in handle_by_fd(fd) :
       LET f == files[hs[j].file]
       IN  /\ ~(has_bytes(f) /\ f.writable)
           /\ hs' = handle_add(hs[j].file, hs[j].pos)
  /\ UNCHANGED <<files, saved, linux>>

\* Mutated close: the list is shortened, and the last handle is lost.
CloseDropsLast(fd) ==
  /\ \E j \in handle_by_fd(fd) : hs' = SubSeq(hs, 1, Len(hs) - 1)
  /\ UNCHANGED <<files, saved, linux>>

\* The last handle takes the closed one's place.
mb_fs_close(fd) ==
  /\ \E j \in handle_by_fd(fd) :
       hs' = [k \in 1 .. Len(hs) - 1 |-> IF k = j THEN hs[Len(hs)] ELSE hs[k]]
  /\ UNCHANGED <<files, saved, linux>>

-----------------------------------------------------------------------------
\* Reading.  Of a read only the position is state.

\* Where a handle on f at pos may be after a read of n.  A host file is read
\* from the disk, which may end early or fail; a read that fails part-way
\* returns what it has and leaves the position.
AfterRead(f, pos, n) ==
  LET avail == IF pos < f.len THEN f.len - pos ELSE 0
      take == Smaller(n, avail)
  IN  IF ~has_bytes(f) THEN {pos}
      ELSE IF host_file(f) THEN pos .. pos + take
      ELSE {pos + take}

mb_fs_read(fd, n) ==
  /\ \E j \in handle_by_fd(fd) : \E p \in AfterRead(files[hs[j].file], hs[j].pos, n) :
       hs' = [hs EXCEPT ![j].pos = p]
  /\ UNCHANGED <<files, saved, linux>>

\* readv: one read per buffer, ended by the first that is refused.
ReadV(fd, n, m) ==
  /\ \E j \in handle_by_fd(fd) :
       \E p \in AfterRead(files[hs[j].file], hs[j].pos, n) :
         \E q \in AfterRead(files[hs[j].file], p, m) : hs' = [hs EXCEPT ![j].pos = q]
  /\ UNCHANGED <<files, saved, linux>>

\* Whether a seek of a handle on f to p is taken.
SeekTaken(f, p) == has_bytes(f) /\ (linux \/ p <= f.len)

mb_fs_seek(fd, p) ==
  /\ \E j \in handle_by_fd(fd) :
       SeekTaken(files[hs[j].file], p) /\ hs' = [hs EXCEPT ![j].pos = p]
  /\ UNCHANGED <<files, saved, linux>>

\* pread64: seek there, read, seek back; whether the last is taken is not
\* looked at.
PRead64(fd, n, at) ==
  /\ \E j \in handle_by_fd(fd) :
       LET f == files[hs[j].file]
       IN  /\ SeekTaken(f, hs[j].pos) /\ SeekTaken(f, at)
           /\ \E p \in AfterRead(f, at, n) :
                hs' = [hs EXCEPT ![j].pos = IF SeekTaken(f, @) THEN @ ELSE p]
  /\ UNCHANGED <<files, saved, linux>>

-----------------------------------------------------------------------------
\* Writing.

\* Mutated write: the gap is left as realloc brought it.
WrittenOverJunk(f, at, buf) ==
  LET end == at + Len(buf)
      data == IF end > Len(f.data) THEN Realloc(f.data, end) ELSE f.data
  IN  [f EXCEPT !.data = Copied(data, at, buf), !.len = Larger(@, end)]

\* A regular file after buf at an offset: grown when it must be, a gap before
\* the offset made zeros.
Written(f, at, buf) ==
  LET end == at + Len(buf)
      data == IF end > Len(f.data) THEN Realloc(f.data, end) ELSE f.data
  IN  [f EXCEPT !.data = Copied(Zeroed(data, f.len, at), at, buf),
                !.len = Larger(@, end)]

\* host_write: on the disk, then in the length.
HostWritten(f, at, buf) ==
  [f EXCEPT !.data = OnDisk(@, at, buf), !.len = Larger(@, at + Len(buf))]

\* What a write of buf at an offset may do to f: all of it, or nothing (no
\* memory), or, on the host's disk, the start of it without the length.
Outcomes(f, at, buf) ==
  IF f.kind = "host_out"
  THEN {[file |-> HostWritten(f, at, buf), ok |-> TRUE]} \cup
       {[file |-> [f EXCEPT !.data = OnDisk(@, at, SubSeq(buf, 1, k))], ok |-> FALSE] :
          k \in 0 .. Len(buf) - 1}
  ELSE {[file |-> Written(f, at, buf), ok |-> TRUE], [file |-> f, ok |-> FALSE]}

InBounds(f) == Len(f.data) \in Sizes /\ f.len \in Sizes

\* A write to a stream goes to the host's output and moves nothing here.
mb_fs_write(fd, buf) ==
  /\ \E j \in handle_by_fd(fd) :
       LET i == hs[j].file
       IN  /\ files[i].writable
           /\ \E o \in Outcomes(files[i], hs[j].pos, buf) :
                /\ InBounds(o.file)
                /\ files' = [files EXCEPT ![i] = o.file]
                /\ hs' = IF o.ok THEN [hs EXCEPT ![j].pos = @ + Len(buf)] ELSE hs
  /\ UNCHANGED <<saved, linux>>

\* writev: one write per buffer, ended by the first that fails; the call is
\* then an error, and what the earlier buffers wrote stays.
WriteV(fd, buf, next) ==
  /\ \E j \in handle_by_fd(fd) :
       LET i == hs[j].file
           mid == hs[j].pos + Len(buf)
       IN  /\ files[i].writable
           /\ \E o \in {x \in Outcomes(files[i], hs[j].pos, buf) : x.ok} :
                \E p \in Outcomes(o.file, mid, next) :
                  /\ InBounds(p.file)
                  /\ files' = [files EXCEPT ![i] = p.file]
                  /\ hs' = [hs EXCEPT ![j].pos = IF p.ok THEN mid + Len(next) ELSE mid]
  /\ UNCHANGED <<saved, linux>>

\* The position is left alone, and nothing written is nothing grown.
mb_fs_pwrite(fd, buf, at) ==
  /\ buf # << >>
  /\ \E j \in handle_by_fd(fd) :
       LET i == hs[j].file
       IN  /\ files[i].writable
           /\ \E o \in Outcomes(files[i], at, buf) :
                InBounds(o.file) /\ files' = [files EXCEPT ![i] = o.file]
  /\ UNCHANGED <<hs, saved, linux>>

-----------------------------------------------------------------------------
\* The descriptor table in a state: by name, in descriptor order.

mb_fs_save_handles ==
  LET Line(h) == [fd |-> h.fd, pos |-> h.pos, name |-> files[h.file].name]
  IN  /\ saved' = {[k \in 1 .. Len(hs) |-> Line(HandleOf(Nth(Descriptors, k)))]}
      /\ UNCHANGED <<files, hs, linux>>

\* Mutated load: positions are taken as they were saved.
LoadUnclamped(rec) ==
  /\ rec \in saved
  /\ \A k \in DOMAIN rec : by_name(rec[k].name) # {}
  /\ hs' = [k \in DOMAIN rec |->
              [fd |-> rec[k].fd, file |-> FileCalled(rec[k].name), pos |-> rec[k].pos]]
  /\ UNCHANGED <<files, saved, linux>>

\* A record that names a file not mounted here leaves the table as it is.
mb_fs_load_handles(rec) ==
  LET Pos(r) == LET len == files[FileCalled(r.name)].len
                IN  IF r.pos < len \/ linux THEN r.pos ELSE len
  IN  /\ rec \in saved
      /\ \A k \in DOMAIN rec : by_name(rec[k].name) # {}
      /\ hs' = [k \in DOMAIN rec |->
                  [fd |-> rec[k].fd, file |-> FileCalled(rec[k].name), pos |-> Pos(rec[k])]]
      /\ UNCHANGED <<files, saved, linux>>

-----------------------------------------------------------------------------
\* The frontend mounts and unmounts; the guest opens and closes.
Tables(names, onDisk, bufs, fds) ==
  \/ \E n \in names, b \in bufs : mb_fs_mount(n, b)
  \/ \E n \in onDisk, b \in bufs : mb_fs_mount_path(n, b)
  \/ \E n \in onDisk : mb_fs_mount_path_writable(n)
  \/ \E n \in names : mb_fs_unmount(n)
  \/ \E n \in names, access \in {"read", "write", "both"} :
       mb_fs_open(n, access) \/ (\E fails \in BOOLEAN : open_file(n, access, fails))
  \/ \E fd \in Descriptors \cap fds : mb_fs_dup(fd) \/ mb_fs_close(fd)

States == mb_fs_save_handles \/ (\E rec \in saved : mb_fs_load_handles(rec))

\* The guest resizes, moves, reads and writes.
Moves(sizes) ==
  \/ \E n \in Names, s \in sizes : mb_fs_truncate_name(n, s)
  \/ \E fd \in Descriptors, s \in sizes :
       mb_fs_truncate_fd(fd, s) \/ mb_fs_seek(fd, s)

Transfers(bufs) ==
  \E fd \in Descriptors :
    \/ \E n \in Sizes : mb_fs_read(fd, n)
    \/ \E n, m \in Sizes : ReadV(fd, n, m) \/ PRead64(fd, n, m)
    \/ \E b \in bufs : mb_fs_write(fd, b)
    \/ \E b, c \in bufs : WriteV(fd, b, c)
    \/ \E b \in bufs, at \in Sizes : mb_fs_pwrite(fd, b, at)

FsNext ==
  \/ Tables(AllNames, Names, Buffers, Descriptors)
  \/ States
  \/ Moves(Sizes)
  \/ Transfers(Buffers)

FsSpec == mb_fs_new /\ [][FsNext]_fsVars

-----------------------------------------------------------------------------
\* Properties.

FileRecord ==
  [name : AllNames, kind : {"empty", "sysout", "regular", "host", "host_out"},
   writable : BOOLEAN, data : Seq(Bytes \cup {0, Junk}), len : Nat]

\* The lists hold records of fs.c's two structures.
FsTypeOK ==
  /\ files \in Seq(FileRecord)
  /\ hs \in Seq([fd : Nat, file : Nat, pos : Nat])
  /\ linux \in BOOLEAN

\* A descriptor is one handle's, every handle is on a file of the list, and a
\* writable file (memory card, save file) has at most one handle: mb_fs_open
\* and mb_fs_dup refuse a second, and unmounting, closing and loading a state
\* bring none about, whatever order the lists are in.
HandlesSound ==
  /\ \A j, k \in DOMAIN hs : j # k => hs[j].fd # hs[k].fd
  /\ \A j \in DOMAIN hs : hs[j].file \in DOMAIN files
  /\ \A j, k \in DOMAIN hs :
       j # k /\ hs[j].file = hs[k].file => ~files[hs[j].file].writable

\* For a core whose seeks may not pass the end (guest kit before revision 2)
\* no handle is ever past the end of its file, whatever other handles,
\* truncations and loaded states do to it: pread64 starts by seeking to where
\* the handle is, and would be refused there.
PositionsWithin ==
  ~linux => \A j \in DOMAIN hs :
              has_bytes(files[hs[j].file]) => hs[j].pos <= files[hs[j].file].len

\* No byte of the host's heap is ever part of a file: what realloc brings is
\* zeroed or written before the length takes it in (fs.c, mb_fs_write,
\* mb_fs_pwrite and mb_fs_truncate_name).
NoHeapBytes ==
  \A i \in DOMAIN files : \A k \in DOMAIN files[i].data :
    k <= files[i].len => files[i].data[k] # Junk

\* The record of a state as a table of descriptors.
TableOf(rec) ==
  [fd \in {rec[k].fd : k \in DOMAIN rec} |->
     LET r == rec[CHOOSE k \in DOMAIN rec : rec[k].fd = fd] IN [name |-> r.name, pos |-> r.pos]]

Table == INSTANCE FileTable WITH
  file <- [n \in {files[i].name : i \in DOMAIN files} |->
             LET f == files[FileCalled(n)]
             IN  [kind |-> f.kind, writable |-> f.writable, len |-> f.len,
                  bytes |-> DiskCut(f.data, Larger(f.len, Len(f.data)))]],
  open <- [fd \in Descriptors |->
             [name |-> files[HandleOf(fd).file].name, pos |-> HandleOf(fd).pos]],
  kept <- {TableOf(rec) : rec \in saved}

\* The arrays and indices above do what FileTable promises of names: whatever
\* is called, no descriptor comes to be on another file, a gap reads as zeros
\* and a file made shorter takes its descriptors with it.
ImplementsFileTable == Table!TableSpec

\* And each call keeps its own promise: an unmount or a close takes away that
\* file or that descriptor and moves no other, dup copies its descriptor's
\* place, a load brings back the table that was saved, by name, and pread64
\* leaves the position where it was.
CallsKeepPromises ==
  [][/\ \A n \in Names : mb_fs_unmount(n) => Table!UnmountFile(n)
     /\ \A fd \in Descriptors : /\ mb_fs_close(fd) => Table!CloseDescriptor(fd)
                                /\ mb_fs_dup(fd) => Table!DupDescriptor(fd)
     /\ \A rec \in saved : mb_fs_load_handles(rec) => Table!Restore(TableOf(rec))
     /\ \A fd \in Descriptors, n, at \in Sizes : PRead64(fd, n, at) => UNCHANGED hs]_fsVars

=============================================================================
