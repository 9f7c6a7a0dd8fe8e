----------------------------- MODULE MCVkBridge -----------------------------
(***************************************************************************)
(* Five questions in one run, chosen at the start: the handle table and    *)
(* what dies with what (VkNext); slots given out again; the bytes of       *)
(* mapped memory, with work that writes them; mappings across loads; and   *)
(* the answers about submitted work.                                       *)
(*                                                                         *)
(* A second specification lets another process take the guest over: it     *)
(* starts, and loads the state the guest is in.                            *)
(***************************************************************************)
EXTENDS VkWork

CONSTANTS TableMade, BytesMade,  \* bounds: objects made, in two of the questions
          MaxLive                \* bound: objects at once, where memory is mapped

VARIABLES job, kept

mcVars == <<vkVars, workVars, job, kept>>

BridgeInit ==
  /\ VkInit /\ WorkInit /\ kept = {}
  /\ job \in {"table", "reuse", "bytes", "loads", "answers"}

Small(most) == made' <= most /\ Cardinality(DOMAIN driver') <= MaxLive

BridgeNext ==
  \/ job = "table" /\ VkNext /\ made' <= TableMade /\ UNCHANGED <<workVars, job, kept>>
  \/ job = "reuse" /\ (Contexts \/ Objects({"DescriptorPool"})) /\ made' <= TableMade + 1 /\ UNCHANGED <<workVars, job, kept>>
  \/ job = "bytes" /\ (Rebuilds \/ Mappings \/ Bytes \/ Work({FALSE})) /\ Small(BytesMade) /\ UNCHANGED <<job, kept>>
  \/ job = "loads" /\ (Rebuilds \/ Mappings \/ Loads) /\ Small(MaxMade) /\ UNCHANGED <<job, kept>>
  \/ job = "answers" /\ (Rebuilds \/ Work(BOOLEAN) \/ Questions) /\ UNCHANGED <<job, kept>>

BridgeSpec == BridgeInit /\ [][BridgeNext]_mcVars

-----------------------------------------------------------------------------
ProcessInit == VkInit /\ WorkInit /\ job = "process" /\ kept = {}

\* Whatever this process had is gone with it; in the next, s_ordinal is what
\* it starts as and what a load adds.
LoadInNewProcess ==
  /\ driver' = << >>
  /\ instance' = 0 /\ physical' = 0 /\ device' = 0
  /\ table' = [entry |-> << >>, free |-> << >>]
  /\ ordinal' = 1 + 2
  /\ kept' = given
  /\ UNCHANGED <<made, given, workVars, job>>

LoadInThisProcess ==
  /\ chimera_vk_host_state_loaded
  /\ kept' = given
  /\ UNCHANGED <<workVars, job>>

ProcessNext ==
  \/ VkNext /\ UNCHANGED <<workVars, job, kept>>
  \/ LoadInThisProcess
  \/ LoadInNewProcess

ProcessSpec == ProcessInit /\ [][ProcessNext]_mcVars

\* After a load the ordinal has moved, so every handle in the loaded memory
\* names nothing (source/vk/README.md).
LoadedNamesNothing ==
  \A g \in kept : vkb_entry(table, g.id, g.kind) = {}

=============================================================================
