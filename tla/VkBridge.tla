------------------------------ MODULE VkBridge ------------------------------
(***************************************************************************)
(* The host half of the Vulkan bridge, src/source/vk/vk-host.c: the table  *)
(* that turns a guest's handles into the driver's objects, what dies with  *)
(* a pool, and the ends of a device, an instance and a context.            *)
(*                                                                         *)
(* The driver (external) is the set of objects it has made and not yet     *)
(* destroyed; an object is the number of its making.  The guest may use    *)
(* any handle it was ever given: a savestate brings old ones back.  A call *)
(* that is refused, or that the driver fails, changes nothing here.        *)
(***************************************************************************)
EXTENDS Integers, Sequences, FiniteSets, Fifo

CONSTANTS Gens,        \* how many generations a slot has: 2^8
          Plain,       \* kinds made and destroyed by one generated call each
          MaxMade,     \* bound: objects the driver makes
          MaxOrdinal   \* bound: where loads and shutdowns take the ordinal

ASSUME VkAssumption == Gens \in Nat \ {0} /\ MaxMade \in Nat /\ MaxOrdinal \in Nat

VARIABLES
  table,     \* [entry: s_entries from 1, free: s_free]
  ordinal,   \* s_ordinal
  instance, physical, device,   \* s_instance, s_physical, s_device: 0 or an object
  driver,    \* the driver's live objects: object -> [kind, pool]
  made,      \* how many it has made
  given      \* history: what the guest was given, [id, kind, host]

vkVars == <<table, ordinal, instance, physical, device, driver, made, given>>

\* What dies with a pool.
ChildOf == [CommandPool |-> "CommandBuffer", DescriptorPool |-> "DescriptorSet"]
Pools == DOMAIN ChildOf

\* The kinds destroy_objects destroys.
OfDevice == Plain \cup Pools \cup {"DeviceMemory", "DescriptorUpdateTemplate"}

-----------------------------------------------------------------------------
\* The table.

Slots(t) == DOMAIN t.entry

\* A handle: (context ordinal << 32) | (slot generation << 24) | slot.
Id(t, slot) == [ordinal |-> ordinal, gen |-> t.entry[slot].gen, slot |-> slot]

\* The slot vkb_register takes: the one given back last, or a new one.
NewSlot(t) == IF t.free = << >> THEN Len(t.entry) + 1 ELSE t.free[Len(t.free)]

vkb_register(t, kind, host, parent) ==
  LET slot == NewSlot(t)
      gen == IF t.free = << >> THEN 0 ELSE t.entry[slot].gen
      e == [host |-> host, kind |-> kind, parent |-> parent, kids |-> << >>, gen |-> gen]
      put == IF t.free = << >> THEN Append(t.entry, e) ELSE [t.entry EXCEPT ![slot] = e]
  IN  [entry |-> IF parent = 0 THEN put ELSE [put EXCEPT ![parent].kids = <<slot>> \o @],
       free |-> IF t.free = << >> THEN t.free ELSE SubSeq(t.free, 1, Len(t.free) - 1)]

\* Mutated lookup: the generation is not compared.
EntryOfAnyGeneration(t, id, kind) ==
  {s \in Slots(t) : /\ id.ordinal = ordinal /\ id.slot = s
                    /\ t.entry[s].host # 0 /\ t.entry[s].kind = kind}

\* The slot a handle names, if it is one of this context's, the slot has not
\* been given out since, and it holds a live object of the kind.
vkb_entry(t, id, kind) ==
  {s \in Slots(t) : /\ id.ordinal = ordinal /\ id.slot = s
                    /\ t.entry[s].gen = id.gen
                    /\ t.entry[s].host # 0 /\ t.entry[s].kind = kind}

\* The slots that hold a driver's object already: it is given out again.
Interned(t, kind, host) == {s \in Slots(t) : t.entry[s].host = host /\ t.entry[s].kind = kind}

vkb_give_back(t, slots) == [t EXCEPT !.free = @ \o slots]

Aged(e) == [e EXCEPT !.host = 0, !.gen = (@ + 1) % Gens]

\* Mutated forget: a child's slot is given back at once, and again with its pool.
ForgetChildToo(t, slot) ==
  vkb_give_back([t EXCEPT !.entry[slot] = Aged(@)], <<slot>>)

\* A child's slot waits for its pool.
vkb_forget(t, slot) ==
  LET e == t.entry[slot]
  IN  IF e.parent = 0 /\ e.kids = << >>
      THEN vkb_give_back([t EXCEPT !.entry[slot] = Aged(@)], <<slot>>)
      ELSE [t EXCEPT !.entry[slot].host = 0]

\* Everything on the pool's list, newest first.
vkb_forget_children(t, pool) ==
  LET kids == t.entry[pool].kids
      child == {kids[k] : k \in DOMAIN kids}
  IN  vkb_give_back([t EXCEPT !.entry = [s \in Slots(t) |->
                       IF s = pool THEN [@[s] EXCEPT !.kids = << >>]
                       ELSE IF s \in child THEN Aged(@[s]) ELSE @[s]]],
                    kids)

-----------------------------------------------------------------------------
\* The driver.

\* The driver destroys some objects, and what those of them that are pools hold.
Destroyed(objects) ==
  driver' = [o \in {x \in DOMAIN driver : x \notin objects /\ driver[x].pool \notin objects} |-> driver[o]]

\* It makes objects of these kinds, in a pool or in none (0).
Makes(kinds, pool) ==
  /\ made + Len(kinds) <= MaxMade
  /\ made' = made + Len(kinds)
  /\ driver' = [o \in DOMAIN driver \cup (made + 1 .. made + Len(kinds)) |->
                  IF o \in DOMAIN driver THEN driver[o] ELSE [kind |-> kinds[o - made], pool |-> pool]]

\* The guest is handed the handle of a slot.
Gives(t, slot) ==
  given' = given \cup {[id |-> Id(t, slot), kind |-> t.entry[slot].kind, host |-> t.entry[slot].host]}

\* Handles of a kind the guest has ever been given.
Held(kind) == {g.id : g \in {x \in given : x.kind = kind}}

-----------------------------------------------------------------------------
\* The instance and the device.

VkInit ==
  /\ table = [entry |-> << >>, free |-> << >>]
  /\ ordinal = 1
  /\ instance = 0 /\ physical = 0 /\ device = 0
  /\ driver = << >> /\ made = 0
  /\ given = {}

\* One at a time; the device is chosen with it.  An instance with no device
\* to choose is destroyed again, and refused.
vkCreateInstance ==
  /\ instance = 0
  /\ Makes(<<"Instance", "PhysicalDevice">>, 0)
  /\ instance' = made + 1 /\ physical' = made + 2
  /\ table' = vkb_register(table, "Instance", made + 1, 0)
  /\ Gives(table', NewSlot(table))
  /\ UNCHANGED <<ordinal, device>>

\* The same object is the same handle, however often it is asked for.
Intern(kind, host) ==
  IF Interned(table, kind, host) # {}
  THEN Gives(table, Least(Interned(table, kind, host))) /\ UNCHANGED table
  ELSE table' = vkb_register(table, kind, host, 0) /\ Gives(table', NewSlot(table))

vkEnumeratePhysicalDevices(id) ==
  /\ vkb_entry(table, id, "Instance") # {}
  /\ Intern("PhysicalDevice", physical)
  /\ UNCHANGED <<ordinal, instance, physical, device, driver, made>>

\* The driver makes the device's one queue with it, which is never destroyed
\* by itself.
vkCreateDevice(id) ==
  /\ vkb_entry(table, id, "PhysicalDevice") # {}
  /\ device = 0
  /\ Makes(<<"Device", "Queue">>, 0)
  /\ device' = made + 1
  /\ table' = vkb_register(table, "Device", made + 1, 0)
  /\ Gives(table', NewSlot(table))
  /\ UNCHANGED <<ordinal, instance, physical>>

vkGetDeviceQueue(id) ==
  /\ vkb_entry(table, id, "Device") # {}
  /\ \E o \in DOMAIN driver : driver[o].kind = "Queue" /\ Intern("Queue", o)
  /\ UNCHANGED <<ordinal, instance, physical, device, driver, made>>

-----------------------------------------------------------------------------
\* Objects of the device.

\* A generated create.
Create(id, kind) ==
  /\ vkb_entry(table, id, "Device") # {}
  /\ Makes(<<kind>>, 0)
  /\ table' = vkb_register(table, kind, made + 1, 0)
  /\ Gives(table', NewSlot(table))
  /\ UNCHANGED <<ordinal, instance, physical, device>>

\* A generated destroy or free, of an object that is no pool.
Destroy(id, kind) ==
  \E s \in vkb_entry(table, id, kind) :
    /\ Destroyed({table.entry[s].host})
    /\ table' = vkb_forget(table, s)
    /\ UNCHANGED <<ordinal, instance, physical, device, made, given>>

\* A template is an object like others, with a copy of its entries that goes
\* where its table entry goes.
vkCreateDescriptorUpdateTemplate(id) == Create(id, "DescriptorUpdateTemplate")

vkDestroyDescriptorUpdateTemplate(id) == Destroy(id, "DescriptorUpdateTemplate")

\* vkAllocateCommandBuffers and vkAllocateDescriptorSets, for one or for two.
AllocateOne(id, pool) ==
  \E p \in vkb_entry(table, id, pool) :
    /\ Makes(<<ChildOf[pool]>>, table.entry[p].host)
    /\ table' = vkb_register(table, ChildOf[pool], made + 1, p)
    /\ Gives(table', NewSlot(table))
    /\ UNCHANGED <<ordinal, instance, physical, device>>

AllocateTwo(id, pool) ==
  \E p \in vkb_entry(table, id, pool) :
    LET once == vkb_register(table, ChildOf[pool], made + 1, p)
        twice == vkb_register(once, ChildOf[pool], made + 2, p)
    IN  /\ Makes(<<ChildOf[pool], ChildOf[pool]>>, table.entry[p].host)
        /\ table' = twice
        /\ given' = given \cup {[id |-> Id(twice, s), kind |-> ChildOf[pool], host |-> twice.entry[s].host] :
                                  s \in {NewSlot(table), NewSlot(once)}}
        /\ UNCHANGED <<ordinal, instance, physical, device>>

DestroyPool(id, pool) ==
  \E p \in vkb_entry(table, id, pool) :
    /\ Destroyed({table.entry[p].host})
    /\ table' = vkb_forget(vkb_forget_children(table, p), p)
    /\ UNCHANGED <<ordinal, instance, physical, device, made, given>>

vkResetDescriptorPool(id) ==
  \E p \in vkb_entry(table, id, "DescriptorPool") :
    LET pool == table.entry[p].host
    IN  /\ Destroyed({o \in DOMAIN driver : driver[o].pool = pool})
        /\ table' = vkb_forget_children(table, p)
        /\ UNCHANGED <<ordinal, instance, physical, device, made, given>>

-----------------------------------------------------------------------------
\* The end of a device, an instance, a context.

\* Mutated sweep: the last slot is not looked at.
LeftBehindButLast(t) ==
  {s \in 1 .. Len(t.entry) - 1 : t.entry[s].host # 0 /\ t.entry[s].parent = 0 /\ t.entry[s].kind \in OfDevice}

\* What the guest did not destroy, apart from what goes with its pool.
LeftBehind(t) ==
  {s \in Slots(t) : t.entry[s].host # 0 /\ t.entry[s].parent = 0 /\ t.entry[s].kind \in OfDevice}

\* destroy_objects, then vkDestroyDevice; a device takes its queue with it.
EndDevice(more) ==
  LET left == LeftBehind(table)
  IN  Destroyed({table.entry[s].host : s \in left} \cup {device} \cup more \cup
                {o \in DOMAIN driver : driver[o].kind = "Queue"})

\* The device's entries are emptied; their slots are not given back, and not
\* the instance's and the physical device's.
forget_device_entries(t) ==
  [t EXCEPT !.entry = [s \in Slots(t) |->
     IF @[s].kind \in {"Instance", "PhysicalDevice"} THEN @[s] ELSE [@[s] EXCEPT !.host = 0]]]

vkDestroyDevice(id) ==
  /\ vkb_entry(table, id, "Device") # {}
  /\ device # 0
  /\ EndDevice({})
  /\ device' = 0
  /\ table' = forget_device_entries(table)
  /\ UNCHANGED <<ordinal, instance, physical, made, given>>

\* The slots start again, under another ordinal.
destroy_context(steps) ==
  /\ IF device # 0 THEN EndDevice({instance, physical})
     ELSE Destroyed(IF instance # 0 THEN {instance, physical} ELSE {})
  /\ device' = 0 /\ instance' = 0 /\ physical' = 0
  /\ table' = [entry |-> << >>, free |-> << >>]
  /\ ordinal' = ordinal + steps
  /\ UNCHANGED <<made, given>>

vkDestroyInstance(id) == vkb_entry(table, id, "Instance") # {} /\ destroy_context(1)

\* A load is a new context, whatever was going on.
chimera_vk_host_state_loaded == ordinal + 2 <= MaxOrdinal /\ destroy_context(2)

chimera_vk_host_shutdown == ordinal + 1 <= MaxOrdinal /\ destroy_context(1)

-----------------------------------------------------------------------------
Contexts ==
  \/ vkCreateInstance
  \/ \E id \in Held("Instance") : vkEnumeratePhysicalDevices(id) \/ vkDestroyInstance(id)
  \/ \E id \in Held("PhysicalDevice") : vkCreateDevice(id)
  \/ \E id \in Held("Device") : vkGetDeviceQueue(id) \/ vkDestroyDevice(id)
  \/ chimera_vk_host_state_loaded
  \/ chimera_vk_host_shutdown

Objects(pools) ==
  \/ \E id \in Held("Device"), kind \in Plain \cup pools : Create(id, kind)
  \/ \E kind \in Plain : \E id \in Held(kind) : Destroy(id, kind)
  \/ \E pool \in pools : \E id \in Held(pool) :
       AllocateOne(id, pool) \/ AllocateTwo(id, pool) \/ DestroyPool(id, pool)
  \/ \E pool \in pools : \E id \in Held(ChildOf[pool]) : Destroy(id, ChildOf[pool])
  \/ \E id \in Held("DescriptorPool") : vkResetDescriptorPool(id)

Templates ==
  \/ \E id \in Held("Device") : vkCreateDescriptorUpdateTemplate(id)
  \/ \E id \in Held("DescriptorUpdateTemplate") : vkDestroyDescriptorUpdateTemplate(id)

VkNext == Contexts \/ Objects(Pools) \/ Templates

VkSpec == VkInit /\ [][VkNext]_vkVars

-----------------------------------------------------------------------------
\* Properties.

Kinds == OfDevice \cup {"Instance", "PhysicalDevice", "Device", "Queue", "CommandBuffer", "DescriptorSet"}

\* A handle the guest was given, in whatever context and however long ago,
\* names the object it was given for or nothing, and never an object the
\* driver no longer has: slots given out again, sets that went with a pool's
\* reset, a destroyed device and a load included.
NamesOwnObject ==
  \A g \in given : \A kind \in Kinds : \A s \in vkb_entry(table, g.id, kind) :
    table.entry[s].host = g.host /\ g.host \in DOMAIN driver /\ kind = g.kind

\* Nothing of a device outlives it, and nothing of a context: what the guest
\* left behind is destroyed first, in whatever slots it lies.
NothingLeft ==
  /\ device = 0 => \A o \in DOMAIN driver : driver[o].kind \in {"Instance", "PhysicalDevice"}
  /\ instance = 0 => DOMAIN driver = {}

\* A slot is waiting to be given out once or not at all, and while it waits it
\* holds nothing and is on no pool's list; a pool's list holds its children
\* once each: no two handles are ever made of one slot.
FreeSlotsSound ==
  LET F == table.free
      E == table.entry
  IN  /\ \A i, k \in DOMAIN F : F[i] = F[k] => i = k
      /\ \A i \in DOMAIN F : F[i] \in DOMAIN E /\ E[F[i]].host = 0 /\ E[F[i]].kids = << >>
      /\ \A s \in DOMAIN E : \A i, k \in DOMAIN E[s].kids :
           /\ E[s].kids[i] = E[s].kids[k] => i = k
           /\ E[s].kids[i] \in DOMAIN E
           /\ E[E[s].kids[i]].parent = s
           /\ \A j \in DOMAIN F : E[s].kids[i] # F[j]

=============================================================================
