------------------------------- MODULE VkWork -------------------------------
(***************************************************************************)
(* Mapped memory and submitted work of the Vulkan bridge: the host half of *)
(* src/source/vk/vk-host.c (vkAllocateMemory to copy_range, settle_before, *)
(* dispatch_one) and the guest half of src/source/vk/vk-guest.c, over the  *)
(* handle table of VkBridge.  The GPU (external) works through what was    *)
(* submitted in its own time, and writes memory.                           *)
(*                                                                         *)
(* A mapping is a buffer of the guest's; a byte is "u" (nothing has        *)
(* written it), "j" (what the guest's allocator left), "g" (the guest      *)
(* wrote it) or "d" (the device wrote it).                                 *)
(***************************************************************************)
EXTENDS VkBridge, TLC

CONSTANTS Size,     \* bytes of an allocation
          MaxWork   \* bound: submissions

VARIABLES
  mem,     \* memory_state and the driver's bytes, of every live DeviceMemory
  maps,    \* the guest's s_maps, with the contents of the buffers
  saved,   \* s_maps in the savestate
  work,    \* s_work
  queued,  \* how many submissions the driver took
  done,    \* how many of them the GPU has finished
  fence,   \* the submission that signals the guest's fence, or 0
  answer   \* history: the last question about the fence

workVars == <<mem, maps, saved, work, queued, done, fence, answer>>

NoMapping == [host |-> FALSE, offset |-> 0, size |-> 0, shadow |-> 0]

WorkInit ==
  /\ mem = << >> /\ maps = {} /\ saved = {}
  /\ work = 0 /\ queued = 0 /\ done = 0 /\ fence = 0
  /\ answer = [submitted |-> FALSE, said |-> FALSE]

\* The memory a handle names.
Memory(id) == {table.entry[s].host : s \in vkb_entry(table, id, "DeviceMemory")}

-----------------------------------------------------------------------------
\* Allocations and mappings.

vkAllocateMemory(device_) ==
  /\ Create(device_, "DeviceMemory")
  /\ mem' = mem @@ (made + 1 :> [born |-> work, since |-> queued, written |-> FALSE, map |-> NoMapping,
                                 bytes |-> [a \in 0 .. Size - 1 |-> "u"]])
  /\ UNCHANGED <<maps, saved, work, queued, done, fence, answer>>

\* The guest's list without a memory's buffer: take_mapping and free.
take_mapping(id) == {m \in maps : m.memory # id}

\* An address the guest's allocator has free: the lowest.
NewBlock == Least(1 .. Cardinality(maps) + 1 \ {m.block : m \in maps})

\* map_attach copies, unless nothing has written the memory.
HandsOver(m) == m.written \/ m.born # work

\* The host half: memory that is not mapped, and a range inside it.
vkMapMemory(o, offset, size) ==
  /\ ~mem[o].map.host /\ offset < Size /\ size <= Size - offset
  /\ mem' = [mem EXCEPT ![o].map = [host |-> TRUE, offset |-> offset, size |-> size, shadow |-> NewBlock]]

\* The guest half: the host maps, the buffer is made, the host is told where
\* it is and fills it.  A mapping that fails is undone.
vkb_g_vkMapMemory(id, offset, size) ==
  \E o \in Memory(id) :
    LET m == mem[o]
    IN  /\ vkMapMemory(o, offset, size)
        /\ maps' = maps \cup {[memory |-> id, block |-> NewBlock,
                               data |-> [a \in 0 .. size - 1 |->
                                           IF HandsOver(m) THEN m.bytes[offset + a] ELSE "j"]]}
        /\ UNCHANGED vkVars /\ UNCHANGED <<saved, work, queued, done, fence, answer>>

\* The bytes of one range that are in the mapping.
InRange(map, from, to) == {a \in map.offset .. map.offset + map.size - 1 : from <= a /\ a < to}

\* The guest's buffer that the host's shadow points into.
Shadow(map) == {m \in maps : m.block = map.shadow}

\* Mutated unmapping: the driver's mapping goes, and the shadow's address stays.
UnmapKeepingShadow(o) == mem' = [mem EXCEPT ![o].map.host = FALSE]

vkUnmapMemory(o) == mem' = [mem EXCEPT ![o].map = NoMapping]

\* The call, and then the guest's own list, whatever the call came to.
vkb_g_vkUnmapMemory(id) ==
  /\ IF \E o \in Memory(id) : mem[o].map.host
     THEN \E o \in Memory(id) : vkUnmapMemory(o)
     ELSE UNCHANGED mem
  /\ maps' = take_mapping(id)
  /\ UNCHANGED vkVars /\ UNCHANGED <<saved, work, queued, done, fence, answer>>

\* The memory states of the objects that are left.
ForgetMemory == mem' = [o \in DOMAIN mem \cap DOMAIN driver' |-> mem[o]]

vkb_g_vkFreeMemory(id) ==
  /\ IF Memory(id) # {} THEN Destroy(id, "DeviceMemory") ELSE UNCHANGED vkVars
  /\ ForgetMemory
  /\ maps' = take_mapping(id)
  /\ UNCHANGED <<saved, work, queued, done, fence, answer>>

\* The guest writes a byte of a buffer of its own.
GuestWrites(m, a) ==
  /\ maps' = (maps \ {m}) \cup {[m EXCEPT !.data[a] = "g"]}
  /\ UNCHANGED vkVars /\ UNCHANGED <<mem, saved, work, queued, done, fence, answer>>

vkFlushMappedMemoryRanges(id, from, to) ==
  \E o \in Memory(id) : \E m \in Shadow(mem[o].map) :
    /\ mem[o].map.host
    /\ mem' = [mem EXCEPT ![o].written = TRUE,
                          ![o].bytes = [a \in 0 .. Size - 1 |->
                             IF a \in InRange(mem[o].map, from, to) THEN m.data[a - mem[o].map.offset] ELSE @[a]]]
    /\ UNCHANGED vkVars /\ UNCHANGED <<maps, saved, work, queued, done, fence, answer>>

vkInvalidateMappedMemoryRanges(id, from, to) ==
  \E o \in Memory(id) : \E m \in Shadow(mem[o].map) :
    LET map == mem[o].map
    IN  /\ map.host
        /\ maps' = (maps \ {m}) \cup
             {[m EXCEPT !.data = [a \in DOMAIN @ |->
                 IF a + map.offset \in InRange(map, from, to) THEN mem[o].bytes[a + map.offset] ELSE @[a]]]}
        /\ UNCHANGED vkVars /\ UNCHANGED <<mem, saved, work, queued, done, fence, answer>>

\* A core that sees the context's id changed drops what it had mapped.
chimera_vk_forget_mappings ==
  /\ \A m \in maps : m.memory.ordinal # ordinal
  /\ maps' = {}
  /\ UNCHANGED vkVars /\ UNCHANGED <<mem, saved, work, queued, done, fence, answer>>

-----------------------------------------------------------------------------
\* Work.

\* Mutated count: vkQueueSubmit2 is not counted.
CountsSubmitOnly(op) == op = "vkQueueSubmit"

CountsAsWork(op) == op \in {"vkQueueSubmit", "vkQueueSubmit2"}

\* The device is given something to do, with or without the fence.  A call
\* that is refused is counted all the same.
Submit(op, fenced, refused) ==
  /\ device # 0 /\ work < MaxWork
  /\ work' = IF CountsAsWork(op) THEN work + 1 ELSE work
  /\ queued' = IF refused THEN queued ELSE queued + 1
  /\ fence' = IF fenced /\ ~refused THEN queued' ELSE fence
  /\ UNCHANGED vkVars /\ UNCHANGED <<mem, maps, saved, done, answer>>

\* The GPU finishes a submission, which may have written any memory that was
\* there when it was made.
GpuFinishes ==
  /\ done < queued
  /\ done' = done + 1
  /\ \/ UNCHANGED mem
     \/ \E o \in DOMAIN mem, a \in 0 .. Size - 1 :
          /\ mem[o].since <= done
          /\ mem' = [mem EXCEPT ![o].bytes[a] = "d"]
  /\ UNCHANGED vkVars /\ UNCHANGED <<maps, saved, work, queued, fence, answer>>

\* The questions about how far the GPU has got.  The last three can be asked
\* to wait for ever.
Looks == {"vkGetFenceStatus", "vkGetEventStatus", "vkGetSemaphoreCounterValue"}
Waits == {"vkGetQueryPoolResults", "vkWaitForFences", "vkWaitSemaphores"}

\* Mutated settling: a wait with a timeout is left to the driver.
SettlesLooks(op, forever) == op \in Looks

Settles(op, forever) == op \in Looks \/ (op \in Waits /\ ~forever)

\* settle_before, then the call: an answer tells how far the GPU has got, and
\* a wait for ever is answered when there is something to say.
Ask(op, forever) ==
  /\ device # 0
  /\ forever => op \in Waits
  /\ done' = IF Settles(op, forever) THEN queued ELSE done
  /\ LET said == fence # 0 /\ fence <= done'
     IN  /\ forever => said
         /\ answer' = [submitted |-> fence # 0, said |-> said]
  /\ UNCHANGED vkVars /\ UNCHANGED <<mem, maps, saved, work, queued, fence>>

vkResetFences ==
  /\ fence # 0 /\ fence <= done
  /\ fence' = 0
  /\ UNCHANGED vkVars /\ UNCHANGED <<mem, maps, saved, work, queued, done, answer>>

-----------------------------------------------------------------------------
\* Contexts.

\* destroy_objects waits for the device before it destroys anything.
vkDeviceWaitIdle == done' = queued

\* A table step that may end the device.
ContextStep ==
  /\ IF device # 0 /\ device' = 0
     THEN vkDeviceWaitIdle /\ fence' = 0 ELSE UNCHANGED <<done, fence>>
  /\ ForgetMemory
  /\ UNCHANGED <<saved, work, queued, answer>>

\* The guest's memory is what it was when the state was saved, and the
\* context is a new one.
LoadState ==
  /\ chimera_vk_host_state_loaded /\ ContextStep
  /\ maps' = saved

SaveState ==
  /\ saved' = maps
  /\ UNCHANGED vkVars /\ UNCHANGED <<mem, maps, work, queued, done, fence, answer>>

Restarts ==
  \/ vkCreateInstance
  \/ \E id \in Held("Instance") : vkEnumeratePhysicalDevices(id) \/ vkDestroyInstance(id)
  \/ \E id \in Held("PhysicalDevice") : vkCreateDevice(id)
  \/ \E id \in Held("Device") : vkDestroyDevice(id)

Mappings ==
  \/ \E id \in Held("Device") : vkAllocateMemory(id)
  \/ \E id \in Held("DeviceMemory") :
       \/ \E offset \in 0 .. Size, size \in 1 .. Size : vkb_g_vkMapMemory(id, offset, size)
       \/ vkb_g_vkUnmapMemory(id)
       \/ vkb_g_vkFreeMemory(id)

Bytes ==
  \/ \E m \in maps : \E a \in DOMAIN m.data : GuestWrites(m, a)
  \/ \E id \in Held("DeviceMemory"), from, to \in 0 .. Size :
       vkFlushMappedMemoryRanges(id, from, to) \/ vkInvalidateMappedMemoryRanges(id, from, to)

Loads == SaveState \/ LoadState \/ chimera_vk_forget_mappings

Rebuilds == Restarts /\ ContextStep /\ UNCHANGED maps

Work(fences) ==
  \/ \E op \in {"vkQueueSubmit", "vkQueueSubmit2"}, fenced \in fences, refused \in BOOLEAN :
       Submit(op, fenced, refused)
  \/ GpuFinishes

Questions ==
  \/ \E op \in Looks \cup Waits, forever \in BOOLEAN : Ask(op, forever)
  \/ vkResetFences

WorkNext == Mappings \/ Bytes \/ Loads \/ Rebuilds \/ Work(BOOLEAN) \/ Questions

WorkSpec == VkInit /\ WorkInit /\ [][WorkNext]_<<vkVars, workVars>>

-----------------------------------------------------------------------------
\* Properties.

\* A mapping that is made shows the guest everything the device and its own
\* flushes have put in those bytes, though memory nothing has written is not
\* copied (map_attach).
MapShowsWritten ==
  [][\A o \in DOMAIN mem' : \A m \in maps' :
       (o \in DOMAIN mem /\ ~mem[o].map.host /\ mem'[o].map.host /\ m.block = mem'[o].map.shadow) =>
         \A a \in DOMAIN m.data :
           mem'[o].bytes[mem'[o].map.offset + a] \in {"u", m.data[a]}]_<<vkVars, workVars>>

\* Where the host will copy to or from is the buffer the guest has for that
\* memory now, of the mapping's length: never one the guest has freed, handed
\* to another mapping, or got back with a load.
ShadowLent ==
  \A s \in Slots(table) :
    LET o == table.entry[s].host
    IN  (o # 0 /\ table.entry[s].kind = "DeviceMemory" /\ mem[o].map.shadow # 0) =>
          \E m \in maps : /\ m.block = mem[o].map.shadow
                          /\ m.memory = Id(table, s)
                          /\ DOMAIN m.data = 0 .. mem[o].map.size - 1

\* The answer to a question about the GPU is the same however fast it is: it
\* tells what was submitted.
AnswersSettled == answer.said = answer.submitted

=============================================================================
