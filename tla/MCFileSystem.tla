---------------------------- MODULE MCFileSystem ----------------------------
(***************************************************************************)
(* FileSystem on a read-only name and a writable one.  The run looks at    *)
(* the two halves of it in turn.  In the job "tables" files of at most one *)
(* byte are mounted, opened, closed, saved, loaded and resized in every    *)
(* order, with stdin and stdout left open; in the job "bytes" one file of  *)
(* at most two bytes is read and written in every way.  The job "output"   *)
(* is OutputTail: a guest that writes to its streams.                      *)
(***************************************************************************)
EXTENDS FileSystem, OutputTail, TLC

CONSTANTS ro, rw   \* the names

VARIABLE job

Streams == <<"stdout", "stderr">>
Mounts == {ro, rw}
Lengths == 0 .. 2

mcInit == mb_fs_new /\ OutInit /\ job \in {"tables", "bytes", "output"}

mcNext ==
  \/ job = "tables" /\ Tables(Mounts, {rw}, {<<1>>}, {2, 3}) /\ UNCHANGED <<job, outVars>>
  \/ job = "tables" /\ States /\ UNCHANGED <<job, outVars>>
  \/ job = "tables" /\ Moves({0, 1}) /\ UNCHANGED <<job, outVars>>
  \/ job = "bytes" /\ Len(files) = 3 /\ Tables(Mounts, Mounts, Buffers, {}) /\ UNCHANGED <<job, outVars>>
  \/ job = "bytes" /\ Len(files) = 4 /\ Len(hs) = 3 /\ Tables(Mounts, {}, {}, {}) /\ UNCHANGED <<job, outVars>>
  \/ job = "bytes" /\ Moves(Sizes) /\ UNCHANGED <<job, outVars>>
  \/ job = "bytes" /\ Transfers(Buffers) /\ UNCHANGED <<job, outVars>>
  \/ job = "output" /\ OutNext /\ UNCHANGED <<job, fsVars>>

mcSpec == mcInit /\ [][mcNext]_<<fsVars, outVars, job>>
=============================================================================
