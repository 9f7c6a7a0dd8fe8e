------------------------------ MODULE FileTable ------------------------------
(***************************************************************************)
(* What a guest and the frontend may rely on from miniBox's virtual file   *)
(* system (src/source/host/fs.c), whatever order its lists are kept in: a  *)
(* set of named files and a set of descriptors, each naming one file by    *)
(* NAME with a position of its own.  FileSystem.tla, which has the code's  *)
(* arrays and indices, is shown to implement this specification.           *)
(***************************************************************************)
EXTENDS Integers, Sequences, FiniteSets

CONSTANTS Names,       \* the names the frontend may mount
          Stdin, Out,  \* /dev/stdin, and the names of the output streams
          Bytes,       \* what guests write and mounts hold
          Sizes        \* the lengths and offsets in use

VARIABLES file,    \* mounted name -> [kind, writable, bytes, len]
          open,    \* open descriptor -> [name, pos]
          kept,    \* the descriptor table of the state taken last, if any
          linux    \* answers are Linux's (guest kit revision 2)

tableVars == <<file, open, kept, linux>>

Bigger(a, b) == IF a > b THEN a ELSE b

HasBytes(f) == f.kind \in {"regular", "host", "host_out"}

OpenOn(n) == {fd \in DOMAIN open : open[fd].name = n}

Writers == {fd \in DOMAIN open : file[open[fd].name].writable}

LowestFree == CHOOSE fd \in 0 .. Cardinality(DOMAIN open) :
                fd \notin DOMAIN open /\ \A k \in 0 .. fd - 1 : k \in DOMAIN open

\* buf laid over bytes from offset at on; a gap before it reads as zeros.
Put(bytes, at, buf) ==
  [i \in 1 .. Bigger(Len(bytes), at + Len(buf)) |->
     IF i > at /\ i <= at + Len(buf) THEN buf[i - at]
     ELSE IF i <= Len(bytes) THEN bytes[i] ELSE 0]

\* bytes cut, or filled with zeros, to size.
Fit(bytes, size) == [i \in 1 .. size |-> IF i <= Len(bytes) THEN bytes[i] ELSE 0]

Without(f, x) == [y \in DOMAIN f \ {x} |-> f[y]]
With(f, x, v) == [y \in DOMAIN f \cup {x} |-> IF y = x THEN v ELSE f[y]]

Stream(kind) == [kind |-> kind, writable |-> FALSE, bytes |-> << >>, len |-> 0]

AtStart(n) == [name |-> n, pos |-> 0]

\* The three streams, on descriptors 0, 1 and 2.
TableInit ==
  /\ linux \in BOOLEAN
  /\ file = [n \in {Stdin, Out[1], Out[2]} |-> Stream(IF n = Stdin THEN "empty" ELSE "sysout")]
  /\ open = [fd \in 0 .. 2 |-> AtStart(IF fd = 0 THEN Stdin ELSE Out[fd])]
  /\ kept = {}

\* A name is mounted once; descriptors do not notice.
MountFile(n, f) ==
  /\ n \notin DOMAIN file
  /\ HasBytes(f) /\ f.len = Len(f.bytes)
  /\ file' = With(file, n, f)
  /\ UNCHANGED <<open, kept, linux>>

\* Only a file with bytes and without descriptors goes, and no descriptor
\* comes to name another file by it.
UnmountFile(n) ==
  /\ n \in DOMAIN file /\ HasBytes(file[n])
  /\ OpenOn(n) = {}
  /\ file' = Without(file, n)
  /\ UNCHANGED <<open, kept, linux>>

\* The lowest free descriptor, at the start; a writable file has only one.
OpenFile(n) ==
  /\ n \in DOMAIN file
  /\ file[n].writable => OpenOn(n) = {}
  /\ open' = With(open, LowestFree, AtStart(n))
  /\ UNCHANGED <<file, kept, linux>>

\* The same, and the file is emptied.
OpenEmptied(n) ==
  /\ n \in DOMAIN file /\ HasBytes(file[n]) /\ file[n].writable
  /\ OpenOn(n) = {}
  /\ open' = With(open, LowestFree, AtStart(n))
  /\ file' = [file EXCEPT ![n].bytes = << >>, ![n].len = 0]
  /\ UNCHANGED <<kept, linux>>

\* A second descriptor on the same file, where the first one is.
DupDescriptor(fd) ==
  /\ fd \in DOMAIN open
  /\ ~file[open[fd].name].writable
  /\ open' = With(open, LowestFree, open[fd])
  /\ UNCHANGED <<file, kept, linux>>

CloseDescriptor(fd) ==
  /\ fd \in DOMAIN open
  /\ open' = Without(open, fd)
  /\ UNCHANGED <<file, kept, linux>>

\* A read moves only its own descriptor, never past the end.
Advance(fd, k) ==
  /\ fd \in DOMAIN open /\ HasBytes(file[open[fd].name])
  /\ open[fd].pos + k <= file[open[fd].name].len
  /\ open' = [open EXCEPT ![fd].pos = @ + k]
  /\ UNCHANGED <<file, kept, linux>>

Reposition(fd, p) ==
  /\ fd \in DOMAIN open /\ HasBytes(file[open[fd].name])
  /\ linux \/ p <= file[open[fd].name].len
  /\ open' = [open EXCEPT ![fd].pos = p]
  /\ UNCHANGED <<file, kept, linux>>

\* What the host's disk keeps of a write it did not finish.
Spill(bytes, at, part) == IF part = << >> THEN bytes ELSE Put(bytes, at, part)

WriteAt(fd, at, buf) ==
  /\ file' = [file EXCEPT ![open[fd].name].bytes = Put(@, at, buf),
                          ![open[fd].name].len = Bigger(@, at + Len(buf))]
  /\ UNCHANGED <<open, kept, linux>>

\* buf is in the file where the descriptor was, and the descriptor is after
\* it.  A vector's next buffer may have failed: see WriteSpilt.
WriteHere(fd, buf, part) ==
  LET n == open[fd].name
      at == open[fd].pos
  IN  /\ part # << >> => file[n].kind = "host_out"
      /\ file' = [file EXCEPT ![n].bytes = Spill(Put(@, at, buf), at + Len(buf), part),
                              ![n].len = Bigger(@, at + Len(buf))]
      /\ open' = [open EXCEPT ![fd].pos = @ + Len(buf)]
      /\ UNCHANGED <<kept, linux>>

\* The host's disk took only part of a write: the part is on the disk, and
\* neither the length nor the position says so.
WriteSpilt(fd, at, part) ==
  /\ file[open[fd].name].kind = "host_out"
  /\ file' = [file EXCEPT ![open[fd].name].bytes = Spill(@, at, part)]
  /\ UNCHANGED <<open, kept, linux>>

\* Every descriptor of the file is within it afterwards.
Resize(n, size) ==
  /\ n \in DOMAIN file /\ file[n].writable
  /\ file' = [file EXCEPT ![n].bytes = Fit(@, size), ![n].len = size]
  /\ open' = [fd \in DOMAIN open |->
                IF open[fd].name = n /\ open[fd].pos > size
                THEN [open[fd] EXCEPT !.pos = size] ELSE open[fd]]
  /\ UNCHANGED <<kept, linux>>

Keep == kept' = {open} /\ UNCHANGED <<file, open, linux>>

\* Each descriptor of the kept table is on the file it was on, by name, and
\* where it was, or at the end of a file that is shorter now.
Restore(t) ==
  /\ t \in kept
  /\ \A fd \in DOMAIN t : t[fd].name \in DOMAIN file
  /\ open' = [fd \in DOMAIN t |->
                IF t[fd].pos < file[t[fd].name].len \/ linux THEN t[fd]
                ELSE [t[fd] EXCEPT !.pos = file[t[fd].name].len]]
  /\ UNCHANGED <<file, kept, linux>>

Buffers == UNION {[1 .. k -> Bytes] : k \in Sizes}

TableNext ==
  \/ \E n \in Names \ DOMAIN file, kind \in {"regular", "host", "host_out"}, w \in BOOLEAN, b \in Buffers :
       MountFile(n, [kind |-> kind, writable |-> w, bytes |-> b, len |-> Len(b)])
  \/ \E n \in Names : UnmountFile(n)
  \/ \E n \in DOMAIN file : OpenFile(n) \/ OpenEmptied(n)
  \/ \E n \in DOMAIN file, s \in Sizes : Resize(n, s)
  \/ \E fd \in DOMAIN open : DupDescriptor(fd) \/ CloseDescriptor(fd)
  \/ \E fd \in DOMAIN open, k \in Sizes : Advance(fd, k) \/ Reposition(fd, k)
  \/ \E fd \in Writers, b, part \in Buffers : WriteHere(fd, b, part)
  \/ \E fd \in Writers, at \in Sizes, b \in Buffers :
       WriteAt(fd, at, b) \/ WriteSpilt(fd, at, b)
  \/ Keep
  \/ \E t \in kept : Restore(t)

TableSpec == TableInit /\ [][TableNext]_tableVars

=============================================================================
