-------------------------- MODULE VulkanLayer_proofs --------------------------
(***************************************************************************)
(* Proofs about VulkanLayer, for any number of threads, handles, queues    *)
(* and images.  The argument is one of ownership: a handle of the driver's *)
(* is held by the game or owned by one call (Claims, Apart); what the      *)
(* game holds is in the registry exactly once (Lists); and what a call has *)
(* taken from the lists is in no list and taken by no other.               *)
(***************************************************************************)
EXTENDS VulkanLayer, FiniteSetTheorems, TLAPS

Labels == {"idle", "add_instance", "destroy_instance", "create_device",
           "add_device", "free_device", "destroy_device", "create_swapchain",
           "add_swapchain", "destroy_swapchain"} \cup Presenting

Plain == [handle : Instances \cup Devices]

Draw == {"none", "ready", "failed"}
Fence == {"signalled", "pending", "reset"}
Item == [handle : Swapchains, dev : Nat, draw : Draw,
         disabled : BOOLEAN, uploaded : BOOLEAN, atlas : BOOLEAN,
         fence : [Images -> Fence]]

Physical == [handle : Instances, inst : Nat, graphics : BOOLEAN]
Queue == [handle : Devices \X Queues, dev : Nat, graphics : BOOLEAN]

LocT == [inst : Instances \cup {Null}, dev : Devices \cup {Null},
         swap : Swapchains \cup {Null}, image : Images \cup {Null},
         queue : Queues \cup {Null}, ptr : Nat, owner : Nat, item : Nat,
         items : SUBSET Nat, color : BOOLEAN, graphics : BOOLEAN,
         replaced : BOOLEAN, waits : Nat]

\* Every object has its kind, and the driver's objects a parent of theirs.
HeapOK ==
    /\ next \in Nat \ {0}
    /\ \A a \in DOMAIN heap : a \in Nat /\ 0 < a /\ a < next
    /\ \A a \in DOMAIN heap : heap[a] \in Plain \/ heap[a] \in Item

DriverOK ==
    /\ DOMAIN driver \subseteq Instances \cup Devices \cup Swapchains
    /\ \A i \in DOMAIN driver \cap Instances : driver[i] = Null
    /\ \A d \in DOMAIN driver \cap Devices : driver[d] \in Instances
    /\ \A s \in DOMAIN driver \cap Swapchains : driver[s] \in Devices
    /\ held \subseteq DOMAIN driver

LocOK ==
    /\ pc \in [Threads -> Labels]
    /\ loc \in [Threads -> LocT]

\* The registry's lists against the handles the game holds.
InstancesOK ==
    /\ instances \subseteq DOMAIN heap \ Items
    /\ \A a \in instances : heap[a].handle \in held \cap Instances
    /\ \A i \in held \cap Instances : \E a \in instances : heap[a].handle = i
    /\ \A a, b \in instances : heap[a].handle = heap[b].handle => a = b

PhysicalsOK ==
    /\ physicals \subseteq Physical
    /\ \A p \in physicals : p.inst \in instances /\ heap[p.inst].handle = p.handle

DevicesOK ==
    /\ devices \subseteq DOMAIN heap \ Items
    /\ \A a \in devices : heap[a].handle \in held \cap Devices
    /\ \A d \in held \cap Devices : \E a \in devices : heap[a].handle = d
    /\ \A a, b \in devices : heap[a].handle = heap[b].handle => a = b

QueuesOK ==
    /\ queues \subseteq Queue
    /\ \A q \in queues : q.dev \in devices /\ heap[q.dev].handle = q.handle[1]
    /\ \A d \in held \cap Devices, k \in Queues :
         \E q \in queues : q.handle = <<d, k>>
    /\ \A q, r \in queues : q.handle = r.handle => q = r

SwapchainsOK ==
    /\ swapchains \subseteq Items
    /\ \A a \in swapchains :
         /\ heap[a].handle \in held \cap Swapchains
         /\ heap[a].dev \in devices
         /\ driver[heap[a].handle] = heap[heap[a].dev].handle
    /\ \A a, b \in swapchains : heap[a].handle = heap[b].handle => a = b

\* A swapchain the game holds is of a device it holds.
HeldOK == \A s \in held \cap Swapchains : driver[s] \in held

\* What a call has of its own: a handle of the driver's that the game does
\* not hold, or holds no more.
OwnsInstance(t) == pc[t] \in {"add_instance", "destroy_instance"}
OwnsDevice(t) == pc[t] \in {"add_device", "free_device", "destroy_device"}
OwnsSwapchain(t) == pc[t] \in {"add_swapchain", "destroy_swapchain"}

\* What it uses while the game holds it.
UsesInstance(t) == pc[t] \in {"create_device", "add_device"}
UsesDevice(t) == pc[t] \in {"create_swapchain", "add_swapchain"} \cup Presenting
UsesItem(t) == pc[t] \in {"check", "overlay"} /\ loc[t].item # 0

\* What it has taken from the lists and not yet freed.
Taken(t) ==
    IF pc[t] = "free_device" THEN loc[t].items \cup {loc[t].ptr}
    ELSE IF pc[t] = "destroy_swapchain" THEN {loc[t].item} \ {0}
    ELSE {}

InstanceClaim(t) ==
    /\ OwnsInstance(t) =>
         loc[t].inst \in (DOMAIN driver \cap Instances) \ held
    /\ UsesInstance(t) =>
         /\ loc[t].inst \in held \cap Instances
         /\ loc[t].ptr \in instances /\ heap[loc[t].ptr].handle = loc[t].inst

DeviceClaim(t) ==
    /\ OwnsDevice(t) => loc[t].dev \in (DOMAIN driver \cap Devices) \ held
    /\ UsesDevice(t) =>
         /\ loc[t].dev \in held \cap Devices
         /\ loc[t].ptr \in devices /\ heap[loc[t].ptr].handle = loc[t].dev
    /\ pc[t] = "destroy_swapchain" =>
         loc[t].dev \in held \cap Devices /\ loc[t].ptr = 0

SwapchainClaim(t) ==
    /\ OwnsSwapchain(t) =>
         /\ loc[t].swap \in (DOMAIN driver \cap Swapchains) \ held
         /\ driver[loc[t].swap] = loc[t].dev
    /\ pc[t] \in Presenting =>
         /\ loc[t].swap \in held \cap Swapchains
         /\ driver[loc[t].swap] = loc[t].dev
         /\ loc[t].image \in Images

ItemClaim(t) ==
    /\ UsesItem(t) =>
         /\ loc[t].item \in swapchains
         /\ heap[loc[t].item].handle = loc[t].swap
    /\ pc[t] = "overlay" => loc[t].item # 0 /\ ~heap[loc[t].item].disabled

TakenClaim(t) ==
    /\ Taken(t) \subseteq DOMAIN heap \ (instances \cup devices \cup swapchains)
    /\ pc[t] = "free_device" =>
         /\ loc[t].ptr \notin Items
         /\ \A a \in loc[t].items : a \in Items /\ heap[a].dev = loc[t].ptr
    /\ pc[t] = "destroy_swapchain" /\ loc[t].item # 0 =>
         /\ loc[t].item \in Items /\ heap[loc[t].item].dev \in devices
         /\ heap[heap[loc[t].item].dev].handle = loc[t].dev

Claims(t) == /\ InstanceClaim(t) /\ DeviceClaim(t) /\ SwapchainClaim(t)
             /\ ItemClaim(t) /\ TakenClaim(t)

\* Two calls at once own, present and have taken different things.
Apart(t, u) ==
    /\ OwnsInstance(t) /\ OwnsInstance(u) => loc[t].inst # loc[u].inst
    /\ OwnsDevice(t) /\ OwnsDevice(u) => loc[t].dev # loc[u].dev
    /\ OwnsSwapchain(t) /\ OwnsSwapchain(u) => loc[t].swap # loc[u].swap
    /\ pc[t] \in Presenting /\ pc[u] \in Presenting => loc[t].swap # loc[u].swap
    /\ Taken(t) \cap Taken(u) = {}

\* No device of the driver's is without one who holds it.
Accounted ==
    \A d \in DOMAIN driver \cap Devices :
        d \in held \/ \E t \in Threads : OwnsDevice(t) /\ loc[t].dev = d

Lists == /\ InstancesOK /\ PhysicalsOK /\ DevicesOK /\ QueuesOK
         /\ SwapchainsOK /\ HeldOK

Types == HeapOK /\ DriverOK /\ LocOK

LInv == /\ Types /\ Lists /\ Accounted
        /\ \A t \in Threads : Claims(t)
        /\ \A t, u \in Threads : t # u => Apart(t, u)

\* The overlay's own state.
Sound(item) ==
    /\ item.disabled \/ \A m \in Images : item.fence[m] # "reset"
    /\ (\E m \in Images : item.fence[m] = "pending") => item.atlas
    /\ item.uploaded /\ ~item.disabled => item.atlas

Overlays == \A a \in Items : Sound(heap[a])

Waited(t) ==
    /\ pc[t] \in {"draw_resources", "find_item", "check", "overlay"} =>
         ~loc[t].replaced /\ loc[t].waits = 0
    /\ pc[t] = "forward" => loc[t].waits = IF loc[t].replaced THEN 1 ELSE 0
    /\ pc[t] = "presented" => loc[t].waits = 1

Semaphores == \A t \in Threads : Waited(t)


\* The locals of a thread that is in no call.
LEMMA IdleType == Idle \in LocT
BY DEF Idle, LocT

\* A step of one thread leaves the others where they are.
LEMMA Moved ==
    ASSUME LocOK, NEW t \in Threads, NEW l \in Labels, NEW r \in LocT,
           Goto(t, l, r)
    PROVE  /\ LocOK'
           /\ pc'[t] = l /\ loc'[t] = r
           /\ \A u \in Threads : u # t => pc'[u] = pc[u] /\ loc'[u] = loc[u]
BY DEF LocOK, Goto

\* The four things that happen to the heap.
LEMMA PlainKind == ASSUME NEW x \in Plain PROVE "fence" \notin DOMAIN x
BY DEF Plain

LEMMA ItemKind == ASSUME NEW x \in Item PROVE "fence" \in DOMAIN x
BY DEF Item

LEMMA HeapKept ==
    ASSUME HeapOK, UNCHANGED <<heap, next>>
    PROVE  HeapOK' /\ Items' = Items
BY DEF HeapOK, Items

\* With: a new address and nothing else.
LEMMA HeapGrows ==
    ASSUME HeapOK, NEW r, r \in Plain \/ r \in Item,
           heap' = With(heap, next, r), next' = next + 1
    PROVE  /\ HeapOK'
           /\ next \notin DOMAIN heap /\ next # 0
           /\ DOMAIN heap' = DOMAIN heap \cup {next}
           /\ heap'[next] = r
           /\ \A a \in DOMAIN heap : heap'[a] = heap[a]
           /\ Items' = IF r \in Item THEN Items \cup {next} ELSE Items
<1>1. /\ next \notin DOMAIN heap /\ next # 0
      /\ DOMAIN heap' = DOMAIN heap \cup {next}
      /\ heap'[next] = r
      /\ \A a \in DOMAIN heap : heap'[a] = heap[a]
  BY DEF HeapOK, With
<1>2. HeapOK'
  <2>1. \A a \in DOMAIN heap' : a \in Nat /\ 0 < a /\ a < next'
    BY <1>1 DEF HeapOK
  <2>2. \A a \in DOMAIN heap' : heap'[a] \in Plain \/ heap'[a] \in Item
    BY <1>1 DEF HeapOK
  <2> QED BY <2>1, <2>2 DEF HeapOK
<1>3. ASSUME r \in Item PROVE Items' = Items \cup {next}
  <2>1. "fence" \in DOMAIN heap'[next]
    BY <1>1, <1>3, ItemKind
  <2> QED BY <1>1, <2>1 DEF Items
<1>4. ASSUME r \notin Item PROVE Items' = Items
  <2>1. "fence" \notin DOMAIN heap'[next]
    BY <1>1, <1>4, PlainKind
  <2> QED BY <1>1, <2>1 DEF Items
<1>5. Items' = IF r \in Item THEN Items \cup {next} ELSE Items
  BY <1>3, <1>4
<1> QED BY <1>1, <1>2, <1>5

\* Without.
LEMMA HeapShrinks ==
    ASSUME HeapOK, NEW gone, heap' = Without(heap, gone), next' = next
    PROVE  /\ HeapOK'
           /\ DOMAIN heap' = DOMAIN heap \ gone
           /\ \A a \in DOMAIN heap' : heap'[a] = heap[a]
           /\ Items' = Items \ gone
<1>1. /\ DOMAIN heap' = DOMAIN heap \ gone
      /\ \A a \in DOMAIN heap' : heap'[a] = heap[a]
  BY DEF Without, Restrict
<1> QED BY <1>1 DEF HeapOK, Items

\* An item's new value, of the same swapchain and device.
LEMMA HeapChanges ==
    ASSUME HeapOK, NEW i \in Items, NEW r \in Item,
           r.handle = heap[i].handle, r.dev = heap[i].dev,
           heap' = [heap EXCEPT ![i] = r], next' = next
    PROVE  /\ HeapOK'
           /\ DOMAIN heap' = DOMAIN heap
           /\ heap'[i] = r
           /\ \A a \in DOMAIN heap : a # i => heap'[a] = heap[a]
           /\ \A a \in DOMAIN heap : heap'[a].handle = heap[a].handle
           /\ \A a \in Items : heap'[a].dev = heap[a].dev
           /\ Items' = Items
<1>1. /\ i \in DOMAIN heap /\ DOMAIN heap' = DOMAIN heap
      /\ heap'[i] = r
      /\ \A a \in DOMAIN heap : a # i => heap'[a] = heap[a]
  BY DEF Items
<1>2. /\ \A a \in DOMAIN heap : heap'[a].handle = heap[a].handle
      /\ \A a \in Items : heap'[a].dev = heap[a].dev
  BY <1>1 DEF Items
<1>3. HeapOK'
  BY <1>1 DEF HeapOK
<1>4. Items' = Items
  BY <1>1, ItemKind DEF Items
<1> QED BY <1>1, <1>2, <1>3, <1>4

\* The kind of an object by where it is.
LEMMA ItemType == ASSUME HeapOK, NEW a \in Items PROVE heap[a] \in Item
BY PlainKind DEF HeapOK, Items

LEMMA PlainType ==
    ASSUME HeapOK, NEW a \in DOMAIN heap \ Items PROVE heap[a] \in Plain
BY ItemKind DEF HeapOK, Items

\* What the driver gives out and takes back.
LEMMA DriverGives ==
    ASSUME NEW h, NEW p, Gives(h, p)
    PROVE  /\ h \notin DOMAIN driver
           /\ DOMAIN driver' = DOMAIN driver \cup {h}
           /\ driver'[h] = p
           /\ \A x \in DOMAIN driver : driver'[x] = driver[x]
BY DEF Gives, With

LEMMA DriverTakes ==
    ASSUME NEW gone, driver' = Without(driver, gone)
    PROVE  /\ DOMAIN driver' = DOMAIN driver \ gone
           /\ \A x \in DOMAIN driver' : driver'[x] = driver[x]
BY DEF Without, Restrict

\* The invariant, from what one thread's step leaves to be shown.
LEMMA Assembled ==
    ASSUME LInv, NEW t \in Threads, NEW l \in Labels, NEW r \in LocT,
           Goto(t, l, r), HeapOK', DriverOK', Lists', Accounted', Claims(t)',
           \A u \in Threads : u # t => Claims(u)' /\ Apart(t, u)'
    PROVE  LInv'
<1>1. /\ LocOK'
      /\ \A u \in Threads : u # t => pc'[u] = pc[u] /\ loc'[u] = loc[u]
  BY Moved DEF LInv, Types
<1>2. ASSUME NEW u \in Threads, NEW v \in Threads, u # v, u # t, v # t
      PROVE  Apart(u, v)'
  <2>1. Apart(u, v)
    BY <1>2 DEF LInv
  <2> QED BY <1>1, <1>2, <2>1
          DEF Apart, OwnsInstance, OwnsDevice, OwnsSwapchain, Taken
<1>3. ASSUME NEW u \in Threads, u # t PROVE Apart(u, t)'
  <2>1. Apart(t, u)'
    BY <1>3
  <2> QED BY <2>1 DEF Apart
<1>4. \A u, v \in Threads : u # v => Apart(u, v)'
  BY <1>2, <1>3
<1> QED BY <1>1, <1>4 DEF LInv, Types

\* A step that leaves everything but its thread alone.
LEMMA Quiet ==
    ASSUME LInv, NEW t \in Threads, NEW l \in Labels, NEW r \in LocT,
           Goto(t, l, r), UNCHANGED <<driver, held, heap, next, registry>>,
           ~OwnsDevice(t), Claims(t)',
           \A u \in Threads : u # t => Apart(t, u)'
    PROVE  LInv'
<1>1. /\ HeapOK' /\ Items' = Items
      /\ \A u \in Threads : u # t => pc'[u] = pc[u] /\ loc'[u] = loc[u]
  BY Moved, HeapKept DEF LInv, Types
<1>2. DriverOK' /\ Lists'
  <2>1. DriverOK' /\ HeldOK'
    BY DEF LInv, Types, Lists, DriverOK, HeldOK
  <2>2. InstancesOK' /\ DevicesOK'
    BY <1>1 DEF LInv, Lists, registry, InstancesOK, DevicesOK
  <2>3. PhysicalsOK' /\ QueuesOK'
    BY DEF LInv, Lists, registry, PhysicalsOK, QueuesOK
  <2>4. SwapchainsOK'
    BY <1>1 DEF LInv, Lists, registry, SwapchainsOK
  <2> QED BY <2>1, <2>2, <2>3, <2>4 DEF Lists
<1>3. Accounted'
  BY <1>1 DEF LInv, Accounted, OwnsDevice
<1>4. ASSUME NEW u \in Threads, u # t PROVE Claims(u)'
  <2>1. Claims(u)
    BY DEF LInv
  <2>2. InstanceClaim(u)' /\ DeviceClaim(u)' /\ SwapchainClaim(u)'
    BY <1>1, <1>4, <2>1
       DEF Claims, InstanceClaim, DeviceClaim, SwapchainClaim, registry,
           OwnsInstance, OwnsDevice, OwnsSwapchain, UsesInstance, UsesDevice
  <2>3. ItemClaim(u)' /\ TakenClaim(u)'
    BY <1>1, <1>4, <2>1
       DEF Claims, ItemClaim, TakenClaim, Taken, UsesItem, registry
  <2> QED BY <2>2, <2>3 DEF Claims
<1> QED BY <1>1, <1>2, <1>3, <1>4, Assembled

\* What is found in a list is the one entry there is.
LEMMA FoundDevice ==
    ASSUME LInv, NEW d \in held \cap Devices
    PROVE  Found(devices, d) \in devices /\ heap[Found(devices, d)].handle = d
<1>1. PICK a \in devices : heap[a].handle = d
  BY DEF LInv, Lists, DevicesOK
<1>2. {b \in devices : heap[b].handle = d} = {a}
  BY <1>1 DEF LInv, Lists, DevicesOK
<1>3. devices \subseteq Nat
  BY DEF LInv, Types, HeapOK, Lists, DevicesOK
<1>4. a = CHOOSE x \in {a} : \A b \in {a} : b <= x
  BY <1>3
<1> QED BY <1>1, <1>2, <1>4 DEF Found

LEMMA FoundInstance ==
    ASSUME LInv, NEW i \in held \cap Instances
    PROVE  /\ Found(instances, i) \in instances
           /\ heap[Found(instances, i)].handle = i
<1>1. PICK a \in instances : heap[a].handle = i
  BY DEF LInv, Lists, InstancesOK
<1>2. {b \in instances : heap[b].handle = i} = {a}
  BY <1>1 DEF LInv, Lists, InstancesOK
<1>3. instances \subseteq Nat
  BY DEF LInv, Types, HeapOK, Lists, InstancesOK
<1>4. a = CHOOSE x \in {a} : \A b \in {a} : b <= x
  BY <1>3
<1> QED BY <1>1, <1>2, <1>4 DEF Found

LEMMA FoundSwapchain ==
    ASSUME LInv, NEW s
    PROVE  \/ /\ Found(swapchains, s) = 0
              /\ \A a \in swapchains : heap[a].handle # s
           \/ /\ Found(swapchains, s) \in swapchains
              /\ heap[Found(swapchains, s)].handle = s
<1>1. CASE \E a \in swapchains : heap[a].handle = s
  <2>1. PICK a \in swapchains : heap[a].handle = s
    BY <1>1
  <2>2. {b \in swapchains : heap[b].handle = s} = {a}
    BY <2>1 DEF LInv, Lists, SwapchainsOK
  <2>3. swapchains \subseteq Nat
    BY DEF LInv, Types, HeapOK, Lists, SwapchainsOK, Items
  <2>4. a = CHOOSE x \in {a} : \A b \in {a} : b <= x
    BY <2>3
  <2> QED BY <2>1, <2>2, <2>4 DEF Found
<1>2. CASE ~\E a \in swapchains : heap[a].handle = s
  BY <1>2 DEF Found
<1> QED BY <1>1, <1>2

LEMMA FoundQueueOK ==
    ASSUME LInv, NEW d \in held \cap Devices, NEW k \in Queues
    PROVE  /\ FoundQueue(d, k) \in queues
           /\ FoundQueue(d, k).dev \in devices
           /\ FoundQueue(d, k).graphics \in BOOLEAN
           /\ heap[FoundQueue(d, k).dev].handle = d
<1>1. PICK q \in queues : q.handle = <<d, k>>
  BY DEF LInv, Lists, QueuesOK
<1>2. {r \in queues : r.handle = <<d, k>>} = {q}
  BY <1>1 DEF LInv, Lists, QueuesOK
<1>3. q.dev \in Nat /\ q.graphics \in BOOLEAN
  BY DEF LInv, Lists, QueuesOK, Queue
<1>4. q = CHOOSE x \in {q} : \A r \in {q} : r.dev <= x.dev
  BY <1>3
<1>5. FoundQueue(d, k) = q
  BY <1>2, <1>4 DEF FoundQueue
<1>6. q.dev \in devices /\ heap[q.dev].handle = q.handle[1]
  BY DEF LInv, Lists, QueuesOK
<1> QED BY <1>1, <1>3, <1>5, <1>6

USE DEF OwnsInstance, OwnsDevice, OwnsSwapchain, UsesInstance, UsesDevice,
        UsesItem

\* One lemma per action: the invariant is kept.  First the steps that read.
LEMMA FindPhysicalStep ==
    ASSUME LInv, NEW t \in Threads, FindPhysical(t) PROVE LInv'
<1>1. PICK i \in held \cap Instances, p \in physicals :
        /\ p.handle = i
        /\ Goto(t, "create_device", [Idle EXCEPT !.inst = i, !.ptr = p.inst,
                                                 !.graphics = p.graphics])
  BY DEF FindPhysical
<1> DEFINE r == [Idle EXCEPT !.inst = i, !.ptr = p.inst, !.graphics = p.graphics]
<1>2. p.inst \in instances /\ heap[p.inst].handle = i /\ p \in Physical
  BY <1>1 DEF LInv, Lists, PhysicalsOK
<1>3. r \in LocT /\ r.inst = i /\ r.ptr = p.inst
  BY <1>2 DEF Idle, LocT, Physical
<1>4. UNCHANGED <<driver, held, heap, next, registry>> /\ pc[t] = "idle"
  BY DEF FindPhysical
<1>5. /\ pc'[t] = "create_device" /\ loc'[t] = r /\ "create_device" \in Labels
      /\ \A u \in Threads : u # t => pc'[u] = pc[u] /\ loc'[u] = loc[u]
  BY <1>1, <1>3, Moved DEF LInv, Types, Labels
<1> HIDE DEF r
<1>6. Claims(t)'
  BY <1>1, <1>2, <1>3, <1>4, <1>5
     DEF Claims, InstanceClaim, DeviceClaim, SwapchainClaim, ItemClaim,
         TakenClaim, Taken, Presenting, registry
<1>7. \A u \in Threads : u # t => Apart(t, u)'
  BY <1>5 DEF Apart, Taken, Presenting
<1> QED BY <1>1, <1>3, <1>4, <1>5, <1>6, <1>7, Quiet DEF r

\* A call that has returned claims nothing.
LEMMA IdleClaims ==
    ASSUME NEW t \in Threads, pc'[t] = "idle"
    PROVE  Claims(t)' /\ \A u \in Threads : Apart(t, u)'
BY DEF Claims, InstanceClaim, DeviceClaim, SwapchainClaim, ItemClaim,
       TakenClaim, Taken, Presenting, Apart

LEMMA Returned ==
    ASSUME LocOK, NEW t \in Threads, Return(t)
    PROVE  /\ "idle" \in Labels /\ Idle \in LocT /\ Goto(t, "idle", Idle)
           /\ LocOK' /\ pc'[t] = "idle"
           /\ Claims(t)' /\ \A u \in Threads : Apart(t, u)'
           /\ \A u \in Threads : u # t => pc'[u] = pc[u] /\ loc'[u] = loc[u]
BY IdleType, Moved, IdleClaims DEF Return, Labels

LEMMA QuietReturn ==
    ASSUME LInv, NEW t \in Threads, Return(t), ~OwnsDevice(t),
           UNCHANGED <<driver, held, heap, next, registry>>
    PROVE  LInv'
<1>1. LocOK
  BY DEF LInv, Types
<1> QED BY <1>1, Returned, Quiet

LEMMA FindDeviceStep ==
    ASSUME LInv, NEW t \in Threads, FindDevice(t) PROVE LInv'
<1>1. PICK d \in held \cap Devices :
        Goto(t, "create_swapchain",
             [Idle EXCEPT !.dev = d, !.ptr = Found(devices, d)])
  BY DEF FindDevice
<1> DEFINE r == [Idle EXCEPT !.dev = d, !.ptr = Found(devices, d)]
<1>2. Found(devices, d) \in devices /\ heap[Found(devices, d)].handle = d
  BY FoundDevice
<1>3. r \in LocT /\ r.dev = d /\ r.ptr = Found(devices, d)
  <2>1. Found(devices, d) \in Nat
    BY <1>2 DEF LInv, Types, HeapOK, Lists, DevicesOK
  <2> QED BY <2>1 DEF Idle, LocT
<1>4. UNCHANGED <<driver, held, heap, next, registry>> /\ pc[t] = "idle"
  BY DEF FindDevice
<1>5. /\ pc'[t] = "create_swapchain" /\ loc'[t] = r
      /\ "create_swapchain" \in Labels
      /\ \A u \in Threads : u # t => pc'[u] = pc[u] /\ loc'[u] = loc[u]
  BY <1>1, <1>3, Moved DEF LInv, Types, Labels
<1> HIDE DEF r
<1>6. Claims(t)'
  BY <1>2, <1>3, <1>4, <1>5
     DEF Claims, InstanceClaim, DeviceClaim, SwapchainClaim, ItemClaim,
         TakenClaim, Taken, Presenting, registry
<1>7. \A u \in Threads : u # t => Apart(t, u)'
  BY <1>5 DEF Apart, Taken, Presenting
<1> QED BY <1>1, <1>3, <1>4, <1>5, <1>6, <1>7, Quiet DEF r

\* Exclusion by the handle: whoever names it is in a call.
LEMMA NotInUse ==
    ASSUME NEW h, NEW t \in Threads, pc[t] # "idle"
    PROVE  /\ ~InUse("inst", h) => loc[t].inst # h
           /\ ~InUse("dev", h) => loc[t].dev # h
           /\ ~InUse("swap", h) => loc[t].swap # h
BY DEF InUse

\* A present starts: the swapchain is in no other call.
LEMMA PresentStep ==
    ASSUME LInv, NEW t \in Threads, Present(t) PROVE LInv'
<1>1. PICK s \in held \cap Swapchains, k \in Queues, m \in Images :
        /\ ~InUse("swap", s)
        /\ Goto(t, "draw_resources",
                [Idle EXCEPT !.dev = driver[s], !.queue = k, !.swap = s,
                             !.image = m,
                             !.ptr = FoundQueue(driver[s], k).dev])
  BY DEF Present
<1> DEFINE d == driver[s]
           p == FoundQueue(driver[s], k).dev
           r == [Idle EXCEPT !.dev = d, !.queue = k, !.swap = s, !.image = m,
                             !.ptr = p]
<1>2. d \in held \cap Devices /\ s \in DOMAIN driver
  BY DEF LInv, Types, Lists, DriverOK, HeldOK
<1>3. p \in devices /\ heap[p].handle = d
  BY <1>2, FoundQueueOK
<1>4. p \in Nat
  BY <1>3 DEF LInv, Types, HeapOK, Lists, DevicesOK
<1> HIDE DEF p
<1>5. /\ r \in LocT /\ r.dev = d /\ r.ptr = p /\ r.swap = s /\ r.image = m
  BY <1>2, <1>4 DEF Idle, LocT
<1>6. UNCHANGED <<driver, held, heap, next, registry>> /\ pc[t] = "idle"
  BY DEF Present
<1>7. /\ pc'[t] = "draw_resources" /\ loc'[t] = r
      /\ "draw_resources" \in Labels
      /\ \A u \in Threads : u # t => pc'[u] = pc[u] /\ loc'[u] = loc[u]
  BY <1>1, <1>5, Moved DEF LInv, Types, Labels, Presenting, p
<1> HIDE DEF r
<1>8. Claims(t)'
  BY <1>2, <1>3, <1>5, <1>6, <1>7
     DEF Claims, InstanceClaim, DeviceClaim, SwapchainClaim, ItemClaim,
         TakenClaim, Taken, Presenting, registry
<1>9. ASSUME NEW u \in Threads, u # t PROVE Apart(t, u)'
  <2>1. pc[u] \in Presenting => loc[u].swap # s
    BY <1>1, NotInUse DEF Presenting
  <2> QED BY <1>5, <1>7, <1>9, <2>1 DEF Apart, Taken, Presenting
<1> QED BY <1>1, <1>5, <1>6, <1>7, <1>8, <1>9, Quiet DEF r, p

\* A step from one point of a present to the next.
LEMMA PresentMoves ==
    ASSUME LInv, NEW t \in Threads, NEW l \in Presenting, NEW r \in LocT,
           pc[t] \in Presenting, Goto(t, l, r),
           r.swap = loc[t].swap, r.dev = loc[t].dev, r.ptr = loc[t].ptr,
           r.image = loc[t].image
    PROVE  /\ l \in Labels /\ ~OwnsDevice(t)
           /\ pc'[t] = l /\ loc'[t] = r
           /\ \A u \in Threads : u # t => pc'[u] = pc[u] /\ loc'[u] = loc[u]
           /\ \A u \in Threads : u # t => Apart(t, u)'
<1>1. /\ l \in Labels /\ ~OwnsDevice(t)
      /\ pc'[t] = l /\ loc'[t] = r
      /\ \A u \in Threads : u # t => pc'[u] = pc[u] /\ loc'[u] = loc[u]
  BY Moved DEF LInv, Types, Labels, Presenting
<1>2. ASSUME NEW u \in Threads, u # t PROVE Apart(t, u)'
  <2>1. Apart(t, u)
    BY <1>2 DEF LInv
  <2> QED BY <1>1, <1>2, <2>1 DEF Apart, Taken, Presenting
<1> QED BY <1>1, <1>2

LEMMA PresentClaims ==
    ASSUME LInv, NEW t \in Threads, pc[t] \in Presenting, pc'[t] \in Presenting,
           UNCHANGED <<driver, held, heap, next, registry>>,
           loc'[t].swap = loc[t].swap, loc'[t].dev = loc[t].dev,
           loc'[t].ptr = loc[t].ptr, loc'[t].image = loc[t].image, ItemClaim(t)'
    PROVE  Claims(t)'
<1>1. Claims(t)
  BY DEF LInv
<1>2. InstanceClaim(t)' /\ TakenClaim(t)'
  BY DEF InstanceClaim, TakenClaim, Taken, Presenting
<1>3. DeviceClaim(t)' /\ SwapchainClaim(t)'
  BY <1>1 DEF Claims, DeviceClaim, SwapchainClaim, Presenting, registry
<1> QED BY <1>2, <1>3 DEF Claims

\* The points of a present.
LEMMA FindItemStep ==
    ASSUME LInv, NEW t \in Threads, FindItem(t) PROVE LInv'
<1>1. /\ UNCHANGED <<driver, held, heap, next, registry>>
      /\ pc[t] = "find_item" /\ pc[t] \in Presenting
  BY DEF FindItem, Presenting
<1>2. loc[t] \in LocT
  BY DEF LInv, Types, LocOK
<1>3. CASE Goto(t, "forward", loc[t])
  <2>1. /\ "forward" \in Labels /\ ~OwnsDevice(t) /\ pc'[t] = "forward"
        /\ loc'[t] = loc[t] /\ \A u \in Threads : u # t => Apart(t, u)'
    BY <1>1, <1>2, <1>3, PresentMoves DEF Presenting
  <2>2. ItemClaim(t)'
    BY <2>1 DEF ItemClaim
  <2>3. Claims(t)'
    BY <1>1, <2>1, <2>2, PresentClaims DEF Presenting
  <2> QED BY <1>1, <1>2, <1>3, <2>1, <2>3, Quiet
<1>4. CASE ~Goto(t, "forward", loc[t])
  <2> DEFINE queue == FoundQueue(loc[t].dev, loc[t].queue)
             item == Found(swapchains, loc[t].swap)
             r == [loc[t] EXCEPT !.item = item, !.owner = queue.dev,
                                 !.graphics = queue.graphics]
  <2>1. Goto(t, "check", r)
    BY <1>4 DEF FindItem
  <2>2. /\ queue.dev \in Nat /\ queue.graphics \in BOOLEAN
    <3>1. /\ \A q \in queues : q.dev \in Nat /\ q.graphics \in BOOLEAN
      BY DEF LInv, Lists, QueuesOK, Queue
    <3> DEFINE match == {q \in queues : q.handle = <<loc[t].dev, loc[t].queue>>}
    <3>2. CASE match = {}
      BY <3>2 DEF FoundQueue
    <3>3. CASE match # {}
      <4>1. PICK q \in match : TRUE
        BY <3>3
      <4>2. match = {q}
        BY <4>1 DEF LInv, Lists, QueuesOK
      <4>3. q = CHOOSE x \in {q} : \A y \in {q} : y.dev <= x.dev
        BY <3>1, <4>1
      <4> QED BY <3>1, <4>1, <4>2, <4>3 DEF FoundQueue
    <3> QED BY <3>2, <3>3
  <2>3. \/ item = 0
        \/ item \in swapchains /\ heap[item].handle = loc[t].swap /\ item \in Nat
    BY FoundSwapchain DEF LInv, Types, HeapOK, Lists, SwapchainsOK, Items
  <2> DEFINE dev == queue.dev
             graphics == queue.graphics
  <2>a. item \in Nat /\ dev \in Nat /\ graphics \in BOOLEAN
    BY <2>2, <2>3
  <2> HIDE DEF item, dev, graphics
  <2>b. r = [loc[t] EXCEPT !.item = item, !.owner = dev, !.graphics = graphics]
    BY DEF dev, graphics
  <2> HIDE DEF r, queue
  <2>4. /\ r \in LocT /\ r.item = item /\ r.swap = loc[t].swap
        /\ r.dev = loc[t].dev /\ r.ptr = loc[t].ptr /\ r.image = loc[t].image
    BY <1>2, <2>a, <2>b DEF LocT
  <2>5. /\ "check" \in Labels /\ ~OwnsDevice(t) /\ pc'[t] = "check"
        /\ loc'[t] = r /\ \A u \in Threads : u # t => Apart(t, u)'
    BY <1>1, <2>1, <2>4, PresentMoves DEF Presenting
  <2>6. ItemClaim(t)'
    BY <1>1, <2>3, <2>4, <2>5 DEF ItemClaim, registry
  <2>7. Claims(t)'
    BY <1>1, <2>4, <2>5, <2>6, PresentClaims DEF Presenting
  <2> QED BY <1>1, <2>1, <2>4, <2>5, <2>7, Quiet
<1> QED BY <1>3, <1>4

LEMMA CheckStep ==
    ASSUME LInv, NEW t \in Threads, Check(t) PROVE LInv'
<1> DEFINE item == loc[t].item
           l == IF /\ Drawable(item, [dev |-> loc[t].owner,
                                      graphics |-> loc[t].graphics])
                   /\ ~heap[item].disabled /\ heap[item].draw = "ready"
                THEN "overlay" ELSE "forward"
<1>1. /\ UNCHANGED <<driver, held, heap, next, registry>>
      /\ pc[t] = "check" /\ pc[t] \in Presenting /\ Goto(t, l, loc[t])
      /\ l \in Presenting /\ loc[t] \in LocT
  BY DEF Check, Presenting, LInv, Types, LocOK
<1>2. l = "overlay" => item # 0 /\ ~heap[item].disabled
  BY DEF Drawable
<1>3. l \in {"overlay", "forward"}
  OBVIOUS
<1> HIDE DEF l
<1>4. /\ l \in Labels /\ ~OwnsDevice(t) /\ pc'[t] = l
      /\ loc'[t] = loc[t] /\ \A u \in Threads : u # t => Apart(t, u)'
  BY <1>1, PresentMoves
<1>5. ItemClaim(t)'
  BY <1>1, <1>2, <1>3, <1>4 DEF ItemClaim, registry, LInv, Claims
<1>6. Claims(t)'
  BY <1>1, <1>4, <1>5, PresentClaims
<1> QED BY <1>1, <1>4, <1>6, Quiet

LEMMA ForwardStep ==
    ASSUME LInv, NEW t \in Threads, Forward(t) PROVE LInv'
<1> DEFINE r == [loc[t] EXCEPT !.waits = IF loc[t].replaced THEN @ ELSE @ + 1]
<1>1. /\ UNCHANGED <<driver, held, heap, next, registry>>
      /\ pc[t] = "forward" /\ pc[t] \in Presenting
      /\ Goto(t, "presented", r) /\ "presented" \in Presenting /\ loc[t] \in LocT
  BY DEF Forward, Presenting, LInv, Types, LocOK
<1>2. /\ r \in LocT /\ r.swap = loc[t].swap
      /\ r.dev = loc[t].dev /\ r.ptr = loc[t].ptr /\ r.image = loc[t].image
  BY <1>1 DEF LocT
<1> HIDE DEF r
<1>3. /\ "presented" \in Labels /\ ~OwnsDevice(t) /\ pc'[t] = "presented"
      /\ loc'[t] = r /\ \A u \in Threads : u # t => Apart(t, u)'
  BY <1>1, <1>2, PresentMoves
<1>4. ItemClaim(t)'
  BY <1>3 DEF ItemClaim
<1>5. Claims(t)'
  BY <1>1, <1>2, <1>3, <1>4, PresentClaims
<1> QED BY <1>1, <1>2, <1>3, <1>5, Quiet

LEMMA PresentedStep ==
    ASSUME LInv, NEW t \in Threads, Presented(t) PROVE LInv'
BY QuietReturn DEF Presented

\* A step that changes only what the driver has, outside what the game holds
\* and other calls own.
LEMMA DriverMoves ==
    ASSUME LInv, NEW t \in Threads, NEW l \in Labels, NEW r \in LocT,
           Goto(t, l, r), UNCHANGED <<held, heap, next, registry>>,
           NEW gone, gone \cap held = {}, DriverOK',
           \A x \in DOMAIN driver \ gone :
               x \in DOMAIN driver' /\ driver'[x] = driver[x],
           \A u \in Threads : u # t =>
               /\ OwnsInstance(u) => loc[u].inst \notin gone
               /\ OwnsDevice(u) => loc[u].dev \notin gone
               /\ OwnsSwapchain(u) => loc[u].swap \notin gone,
           Accounted', Claims(t)',
           \A u \in Threads : u # t => Apart(t, u)'
    PROVE  LInv'
<1>1. /\ HeapOK' /\ Items' = Items
      /\ \A u \in Threads : u # t => pc'[u] = pc[u] /\ loc'[u] = loc[u]
  BY Moved, HeapKept DEF LInv, Types
<1>2. \A x \in held : x \in DOMAIN driver' /\ driver'[x] = driver[x]
  BY DEF LInv, Types, DriverOK
<1>3. Lists'
  <2>1. InstancesOK' /\ DevicesOK'
    BY <1>1 DEF LInv, Lists, registry, InstancesOK, DevicesOK
  <2>2. PhysicalsOK' /\ QueuesOK'
    BY DEF LInv, Lists, registry, PhysicalsOK, QueuesOK
  <2>3. SwapchainsOK'
    BY <1>1, <1>2 DEF LInv, Lists, registry, SwapchainsOK
  <2>4. HeldOK'
    BY <1>2 DEF LInv, Lists, HeldOK
  <2> QED BY <2>1, <2>2, <2>3, <2>4 DEF Lists
<1>4. ASSUME NEW u \in Threads, u # t PROVE Claims(u)'
  <2>1. Claims(u)
    BY DEF LInv
  <2>2. InstanceClaim(u)' /\ DeviceClaim(u)'
    BY <1>1, <1>4, <2>1 DEF Claims, InstanceClaim, DeviceClaim, registry
  <2>3. SwapchainClaim(u)'
    BY <1>1, <1>2, <1>4, <2>1 DEF Claims, SwapchainClaim
  <2>4. ItemClaim(u)' /\ TakenClaim(u)'
    BY <1>1, <1>4, <2>1 DEF Claims, ItemClaim, TakenClaim, Taken, registry
  <2> QED BY <2>2, <2>3, <2>4 DEF Claims
<1> QED BY <1>1, <1>3, <1>4, Assembled

LEMMA DriverGrows ==
    ASSUME LInv, NEW t \in Threads, NEW l \in Labels, NEW r \in LocT,
           Goto(t, l, r), UNCHANGED <<held, heap, next, registry>>, DriverOK',
           \A x \in DOMAIN driver : x \in DOMAIN driver' /\ driver'[x] = driver[x],
           Accounted', Claims(t)',
           \A u \in Threads : u # t => Apart(t, u)'
    PROVE  LInv'
<1>1. {} \cap held = {}
  OBVIOUS
<1>2. \A x \in DOMAIN driver \ {} : x \in DOMAIN driver' /\ driver'[x] = driver[x]
  OBVIOUS
<1>3. \A u \in Threads : u # t =>
               /\ OwnsInstance(u) => loc[u].inst \notin {}
               /\ OwnsDevice(u) => loc[u].dev \notin {}
               /\ OwnsSwapchain(u) => loc[u].swap \notin {}
  OBVIOUS
<1> HIDE DEF OwnsInstance, OwnsDevice, OwnsSwapchain
<1> QED BY <1>1, <1>2, <1>3, DriverMoves

\* The downstream calls that make and destroy.
LEMMA CreateInstanceStep ==
    ASSUME LInv, NEW t \in Threads, CreateInstance(t) PROVE LInv'
<1>1. PICK i \in Instances :
        Gives(i, Null) /\ Goto(t, "add_instance", [Idle EXCEPT !.inst = i])
  BY DEF CreateInstance
<1> DEFINE r == [Idle EXCEPT !.inst = i]
<1>2. r \in LocT /\ r.inst = i
  BY DEF Idle, LocT
<1>3. UNCHANGED <<held, heap, next, registry>> /\ pc[t] = "idle"
  BY DEF CreateInstance
<1>4. /\ pc'[t] = "add_instance" /\ loc'[t] = r /\ "add_instance" \in Labels
      /\ \A u \in Threads : u # t => pc'[u] = pc[u] /\ loc'[u] = loc[u]
  BY <1>1, <1>2, Moved DEF LInv, Types, Labels
<1> HIDE DEF r
<1>5. /\ i \notin DOMAIN driver /\ DOMAIN driver' = DOMAIN driver \cup {i}
      /\ driver'[i] = Null /\ \A x \in DOMAIN driver : driver'[x] = driver[x]
  BY <1>1, DriverGives
<1>6. DriverOK' /\ i \notin held
  BY <1>3, <1>5, LayerAssumption DEF LInv, Types, DriverOK
<1>7. Accounted'
  BY <1>3, <1>4, <1>5, LayerAssumption DEF LInv, Accounted
<1>8. Claims(t)'
  BY <1>2, <1>3, <1>4, <1>5, <1>6
     DEF Claims, InstanceClaim, DeviceClaim, SwapchainClaim, ItemClaim,
         TakenClaim, Taken, Presenting
<1>9. ASSUME NEW u \in Threads, u # t PROVE Apart(t, u)'
  <2>1. OwnsInstance(u) => loc[u].inst # i
    BY <1>5 DEF LInv, Claims, InstanceClaim
  <2> QED BY <1>2, <1>4, <1>9, <2>1 DEF Apart, Taken, Presenting
<1> QED BY <1>1, <1>2, <1>3, <1>4, <1>6, <1>7, <1>8, <1>5, <1>9, DriverGrows DEF r

LEMMA UndoInstanceStep ==
    ASSUME LInv, NEW t \in Threads, UndoInstance(t) \/ DestroyInstance(t)
    PROVE  LInv'
<1> DEFINE i == loc[t].inst
<1>1. /\ OwnsInstance(t) /\ driver' = Without(driver, {i}) /\ Return(t)
      /\ UNCHANGED <<held, heap, next, registry>>
  BY DEF UndoInstance, DestroyInstance
<1>2. i \in (DOMAIN driver \cap Instances) \ held
  BY <1>1 DEF LInv, Claims, InstanceClaim
<1>3. /\ "idle" \in Labels /\ Idle \in LocT /\ Goto(t, "idle", Idle)
      /\ Claims(t)' /\ \A u \in Threads : Apart(t, u)'
      /\ \A u \in Threads : u # t => pc'[u] = pc[u] /\ loc'[u] = loc[u]
  BY <1>1, Returned DEF LInv, Types
<1>4. /\ DOMAIN driver' = DOMAIN driver \ {i}
      /\ \A x \in DOMAIN driver' : driver'[x] = driver[x]
  BY <1>1, DriverTakes
<1> HIDE DEF i
<1>5. DriverOK'
  BY <1>1, <1>2, <1>4 DEF LInv, Types, DriverOK
<1>6. Accounted'
  BY <1>1, <1>3, <1>4 DEF LInv, Accounted
<1>7. ASSUME NEW u \in Threads, u # t
      PROVE  /\ OwnsInstance(u) => loc[u].inst \notin {i}
             /\ OwnsDevice(u) => loc[u].dev \notin {i}
             /\ OwnsSwapchain(u) => loc[u].swap \notin {i}
  <2>1. Apart(t, u) /\ Claims(u)
    BY <1>7 DEF LInv
  <2> QED BY <1>1, <1>2, <2>1, LayerAssumption
          DEF Apart, Claims, DeviceClaim, SwapchainClaim, i
<1>8. {i} \cap held = {}
  BY <1>2
<1> QED BY <1>1, <1>3, <1>4, <1>5, <1>6, <1>7, <1>8, DriverMoves

LEMMA CreateDeviceStep ==
    ASSUME LInv, NEW t \in Threads, CreateDevice(t) PROVE LInv'
<1>1. /\ UNCHANGED <<held, heap, next, registry>>
      /\ pc[t] = "create_device" /\ loc[t] \in LocT /\ ~OwnsDevice(t)
  BY DEF CreateDevice, LInv, Types, LocOK
<1>2. CASE Return(t) /\ UNCHANGED driver
  BY <1>1, <1>2, QuietReturn
<1>3. ASSUME NEW d \in Devices, Gives(d, heap[loc[t].ptr].handle),
             Goto(t, "add_device", [loc[t] EXCEPT !.dev = d])
      PROVE  LInv'
  <2> DEFINE r == [loc[t] EXCEPT !.dev = d]
             i == loc[t].inst
  <2>1. /\ i \in held \cap Instances /\ loc[t].ptr \in instances
        /\ heap[loc[t].ptr].handle = i
    BY <1>1 DEF LInv, Claims, InstanceClaim
  <2>2. r \in LocT /\ r.dev = d /\ r.inst = i /\ r.ptr = loc[t].ptr
    BY <1>1 DEF LocT
  <2>3. /\ pc'[t] = "add_device" /\ loc'[t] = r /\ "add_device" \in Labels
        /\ \A u \in Threads : u # t => pc'[u] = pc[u] /\ loc'[u] = loc[u]
    BY <1>3, <2>2, Moved DEF LInv, Types, Labels
  <2>4. Goto(t, "add_device", r)
    BY <1>3
  <2> HIDE DEF r, i
  <2>5. /\ d \notin DOMAIN driver /\ DOMAIN driver' = DOMAIN driver \cup {d}
        /\ driver'[d] = i /\ \A x \in DOMAIN driver : driver'[x] = driver[x]
    BY <1>3, <2>1, DriverGives
  <2>6. DriverOK' /\ d \notin held
    BY <1>1, <2>1, <2>5, LayerAssumption DEF LInv, Types, DriverOK
  <2>7. Accounted'
    <3>1. ASSUME NEW e \in DOMAIN driver \cap Devices
          PROVE  e \in held' \/ \E u \in Threads : OwnsDevice(u)' /\ loc'[u].dev = e
      BY <1>1, <2>3 DEF LInv, Accounted
    <3>2. OwnsDevice(t)' /\ loc'[t].dev = d
      BY <2>2, <2>3
    <3> QED BY <2>5, <3>1, <3>2 DEF Accounted
  <2>8. Claims(t)'
    BY <1>1, <2>1, <2>2, <2>3, <2>5, <2>6
       DEF Claims, InstanceClaim, DeviceClaim, SwapchainClaim, ItemClaim,
           TakenClaim, Taken, Presenting, registry
  <2>9. ASSUME NEW u \in Threads, u # t PROVE Apart(t, u)'
    <3>1. OwnsDevice(u) => loc[u].dev # d
      BY <2>5 DEF LInv, Claims, DeviceClaim
    <3> QED BY <2>2, <2>3, <2>9, <3>1 DEF Apart, Taken, Presenting
  <2> QED BY <1>1, <2>2, <2>3, <2>4, <2>6, <2>7, <2>8, <2>5, <2>9, DriverGrows
<1> QED BY <1>2, <1>3 DEF CreateDevice

\* What goes with a device: its swapchains, which the game does not hold.
LEMMA DeviceGone ==
    ASSUME LInv, NEW t \in Threads, pc[t] \in {"add_device", "destroy_device"},
           Return(t), UNCHANGED <<held, heap, next, registry>>,
           NEW gone, driver' = Without(driver, gone), loc[t].dev \in gone,
           gone \subseteq {loc[t].dev} \cup
                             {s \in DOMAIN driver : driver[s] = loc[t].dev}
    PROVE  LInv'
<1> DEFINE d == loc[t].dev
<1>1. d \in (DOMAIN driver \cap Devices) \ held
  BY DEF LInv, Claims, DeviceClaim
<1>2. ASSUME NEW x \in gone PROVE x = d \/ (x \in Swapchains /\ driver[x] = d)
  <2>1. x # d => x \in DOMAIN driver /\ driver[x] = d
    OBVIOUS
  <2>2. x \notin Instances \/ x \notin DOMAIN driver \/ driver[x] = Null
    BY DEF LInv, Types, DriverOK
  <2>3. x \notin Devices \/ x \notin DOMAIN driver \/ driver[x] \in Instances
    BY DEF LInv, Types, DriverOK
  <2>4. DOMAIN driver \subseteq Instances \cup Devices \cup Swapchains
    BY DEF LInv, Types, DriverOK
  <2>5. d \notin Instances /\ d # Null
    BY <1>1, LayerAssumption
  <2> HIDE DEF d
  <2> QED BY <1>1, <2>1, <2>2, <2>3, <2>4, <2>5
<1>3. gone \cap held = {}
  BY <1>1, <1>2 DEF LInv, Lists, HeldOK
<1>4. /\ "idle" \in Labels /\ Idle \in LocT /\ Goto(t, "idle", Idle)
      /\ Claims(t)' /\ \A u \in Threads : Apart(t, u)'
      /\ \A u \in Threads : u # t => pc'[u] = pc[u] /\ loc'[u] = loc[u]
  BY Returned DEF LInv, Types
<1>5. /\ DOMAIN driver' = DOMAIN driver \ gone
      /\ \A x \in DOMAIN driver' : driver'[x] = driver[x]
  BY DriverTakes
<1>6. DriverOK'
  BY <1>3, <1>5 DEF LInv, Types, DriverOK
<1>7. Accounted'
  BY <1>4, <1>5 DEF LInv, Accounted
<1>8. ASSUME NEW u \in Threads, u # t
      PROVE  /\ OwnsInstance(u) => loc[u].inst \notin gone
             /\ OwnsDevice(u) => loc[u].dev \notin gone
             /\ OwnsSwapchain(u) => loc[u].swap \notin gone
  <2>1. Apart(t, u) /\ Claims(u)
    BY <1>8 DEF LInv
  <2>2. OwnsInstance(u) => loc[u].inst \notin gone
    BY <1>1, <1>2, <2>1, LayerAssumption DEF Claims, InstanceClaim
  <2>3. OwnsDevice(u) => loc[u].dev \notin gone
    BY <1>1, <1>2, <2>1, LayerAssumption DEF Claims, DeviceClaim, Apart
  <2>4. OwnsSwapchain(u) => loc[u].swap \notin gone
    BY <1>1, <1>2, <2>1, LayerAssumption
       DEF Claims, SwapchainClaim, DeviceClaim
  <2> QED BY <2>2, <2>3, <2>4
<1> QED BY <1>3, <1>4, <1>5, <1>6, <1>7, <1>8, DriverMoves

LEMMA UndoDeviceStep ==
    ASSUME LInv, NEW t \in Threads, UndoDevice(t) PROVE LInv'
BY DeviceGone DEF UndoDevice

LEMMA DestroyDeviceStep ==
    ASSUME LInv, NEW t \in Threads, DestroyDevice(t) PROVE LInv'
BY DeviceGone DEF DestroyDevice

LEMMA CreateSwapchainStep ==
    ASSUME LInv, NEW t \in Threads, CreateSwapchain(t) PROVE LInv'
<1>1. /\ UNCHANGED <<held, heap, next, registry>>
      /\ pc[t] = "create_swapchain" /\ loc[t] \in LocT /\ ~OwnsDevice(t)
  BY DEF CreateSwapchain, LInv, Types, LocOK
<1>2. CASE Return(t) /\ UNCHANGED driver
  BY <1>1, <1>2, QuietReturn
<1>3. ASSUME NEW color \in BOOLEAN,
             NEW s \in Swapchains, Gives(s, heap[loc[t].ptr].handle),
             Goto(t, "add_swapchain",
                  [loc[t] EXCEPT !.swap = s, !.color = color])
      PROVE  LInv'
  <2> DEFINE r == [loc[t] EXCEPT !.swap = s, !.color = color]
             d == loc[t].dev
  <2>1. /\ d \in held \cap Devices /\ loc[t].ptr \in devices
        /\ heap[loc[t].ptr].handle = d
    BY <1>1 DEF LInv, Claims, DeviceClaim
  <2>2. r \in LocT /\ r.dev = d /\ r.swap = s /\ r.ptr = loc[t].ptr
    BY <1>1 DEF LocT
  <2>3. /\ pc'[t] = "add_swapchain" /\ loc'[t] = r /\ "add_swapchain" \in Labels
        /\ \A u \in Threads : u # t => pc'[u] = pc[u] /\ loc'[u] = loc[u]
    BY <1>3, <2>2, Moved DEF LInv, Types, Labels
  <2>4. Goto(t, "add_swapchain", r)
    BY <1>3
  <2> HIDE DEF r, d
  <2>5. /\ s \notin DOMAIN driver /\ DOMAIN driver' = DOMAIN driver \cup {s}
        /\ driver'[s] = d /\ \A x \in DOMAIN driver : driver'[x] = driver[x]
    BY <1>3, <2>1, DriverGives
  <2>6. DriverOK' /\ s \notin held
    BY <1>1, <2>1, <2>5, LayerAssumption DEF LInv, Types, DriverOK
  <2>7. Accounted'
    BY <1>1, <2>3, <2>5, LayerAssumption DEF LInv, Accounted
  <2>8. Claims(t)'
    BY <1>1, <2>1, <2>2, <2>3, <2>5, <2>6
       DEF Claims, InstanceClaim, DeviceClaim, SwapchainClaim, ItemClaim,
           TakenClaim, Taken, Presenting, registry
  <2>9. ASSUME NEW u \in Threads, u # t PROVE Apart(t, u)'
    <3>1. OwnsSwapchain(u) => loc[u].swap # s
      BY <2>5 DEF LInv, Claims, SwapchainClaim
    <3> QED BY <2>2, <2>3, <2>9, <3>1 DEF Apart, Taken, Presenting
  <2> QED BY <1>1, <2>2, <2>3, <2>4, <2>6, <2>7, <2>8, <2>5, <2>9, DriverGrows
<1>4. ASSUME NEW asked \in BOOLEAN, NEW supported \in BOOLEAN,
             NEW first \in BOOLEAN, NEW second \in BOOLEAN
      PROVE  create_swapchain(asked, supported, first, second).color \in BOOLEAN
  BY DEF create_swapchain
<1>5. PICK asked, supported, first, second \in BOOLEAN :
        LET outcome == create_swapchain(asked, supported, first, second) IN
        \/ /\ outcome.made
           /\ \E s \in Swapchains :
                /\ Gives(s, heap[loc[t].ptr].handle)
                /\ Goto(t, "add_swapchain",
                        [loc[t] EXCEPT !.swap = s, !.color = outcome.color])
        \/ ~outcome.made /\ Return(t) /\ UNCHANGED driver
  BY DEF CreateSwapchain
<1>6. create_swapchain(asked, supported, first, second).color \in BOOLEAN
  BY <1>4, <1>5
<1> QED BY <1>2, <1>3, <1>5, <1>6

LEMMA PlainNotItem == ASSUME NEW x \in Plain PROVE x \notin Item
BY PlainKind, ItemKind

\* What other calls claim survives an addition.
LEMMA OthersGrow ==
    ASSUME LInv, NEW t \in Threads, NEW u \in Threads, u # t, Apart(t, u),
           pc'[u] = pc[u], loc'[u] = loc[u], UNCHANGED driver,
           NEW h, held' = held \cup {h},
           OwnsInstance(u) => loc[u].inst # h,
           OwnsDevice(u) => loc[u].dev # h,
           OwnsSwapchain(u) => loc[u].swap # h,
           NEW n, n \notin DOMAIN heap, DOMAIN heap \subseteq DOMAIN heap',
           \A a \in DOMAIN heap :
               heap'[a] = heap[a] /\ (a \in Items' <=> a \in Items),
           instances \subseteq instances', instances' \subseteq instances \cup {n},
           devices \subseteq devices', devices' \subseteq devices \cup {n},
           swapchains \subseteq swapchains',
           swapchains' \subseteq swapchains \cup {n}
    PROVE  Claims(u)'
<1>1. Claims(u)
  BY DEF LInv
<1>2. /\ instances \subseteq DOMAIN heap /\ devices \subseteq DOMAIN heap
      /\ swapchains \subseteq DOMAIN heap
  BY DEF LInv, Lists, InstancesOK, DevicesOK, SwapchainsOK, Items
<1>3. InstanceClaim(u)'
  BY <1>1, <1>2 DEF Claims, InstanceClaim
<1>4. DeviceClaim(u)'
  BY <1>1, <1>2 DEF Claims, DeviceClaim
<1>5. SwapchainClaim(u)'
  BY <1>1 DEF Claims, SwapchainClaim
<1>6. ItemClaim(u)'
  BY <1>1, <1>2 DEF Claims, ItemClaim
<1>7. TakenClaim(u)'
  <2>1. /\ Taken(u)' = Taken(u)
        /\ Taken(u) \subseteq DOMAIN heap \ (instances \cup devices \cup swapchains)
    BY <1>1 DEF Taken, Claims, TakenClaim
  <2>2. Taken(u)' \subseteq
          DOMAIN heap' \ (instances' \cup devices' \cup swapchains')
    BY <2>1
  <2>3. pc[u] = "free_device" =>
          /\ loc[u].ptr \in DOMAIN heap
          /\ \A a \in loc[u].items : a \in DOMAIN heap
    BY <2>1 DEF Taken
  <2>4. pc[u] = "destroy_swapchain" /\ loc[u].item # 0 => loc[u].item \in DOMAIN heap
    BY <2>1 DEF Taken
  <2> QED BY <1>1, <1>2, <2>2, <2>3, <2>4 DEF Claims, TakenClaim
<1> QED BY <1>3, <1>4, <1>5, <1>6, <1>7 DEF Claims

\* What is created is entered under the lock.
LEMMA AddInstanceStep ==
    ASSUME LInv, NEW t \in Threads, AddInstance(t) PROVE LInv'
<1> DEFINE i == loc[t].inst
           r == [handle |-> i]
<1>1. /\ OwnsInstance(t) /\ Return(t) /\ pc[t] = "add_instance"
      /\ heap' = With(heap, next, r) /\ next' = next + 1
      /\ instances' = instances \cup {next} /\ held' = held \cup {i}
      /\ UNCHANGED <<driver, devices, queues, swapchains>>
  BY DEF AddInstance
<1>2. i \in (DOMAIN driver \cap Instances) \ held
  BY <1>1 DEF LInv, Claims, InstanceClaim
<1>3. r \in Plain /\ r \notin Item
  BY <1>2, PlainNotItem DEF Plain
<1>4. /\ HeapOK' /\ next \notin DOMAIN heap /\ next # 0
      /\ DOMAIN heap' = DOMAIN heap \cup {next}
      /\ heap'[next] = r
      /\ \A a \in DOMAIN heap : heap'[a] = heap[a]
      /\ Items' = Items
  BY <1>1, <1>3, HeapGrows DEF LInv, Types
<1>5. r.handle = i
  OBVIOUS
<1> HIDE DEF r
<1>6. /\ "idle" \in Labels /\ Idle \in LocT /\ Goto(t, "idle", Idle)
      /\ Claims(t)' /\ \A u \in Threads : Apart(t, u)'
      /\ \A u \in Threads : u # t => pc'[u] = pc[u] /\ loc'[u] = loc[u]
  BY <1>1, Returned DEF LInv, Types
<1>7. DriverOK'
  BY <1>1, <1>2 DEF LInv, Types, DriverOK
<1>8. Lists'
  <2>1. InstancesOK'
    <3>1. /\ instances \subseteq DOMAIN heap \ Items
          /\ \A a \in instances : heap'[a] = heap[a] /\ heap[a].handle # i
      BY <1>2, <1>4 DEF LInv, Lists, InstancesOK
    <3> HIDE DEF i
    <3>2. /\ instances' \subseteq DOMAIN heap' \ Items'
      BY <1>1, <1>4, <3>1 DEF Items
    <3>3. \A a \in instances' : heap'[a].handle \in held' \cap Instances
      BY <1>1, <1>2, <1>4, <1>5, <3>1 DEF LInv, Lists, InstancesOK
    <3>4. \A x \in held' \cap Instances : \E a \in instances' : heap'[a].handle = x
      BY <1>1, <1>2, <1>4, <1>5, <3>1 DEF LInv, Lists, InstancesOK
    <3>5. \A a, b \in instances' : heap'[a].handle = heap'[b].handle => a = b
      BY <1>1, <1>4, <1>5, <3>1 DEF LInv, Lists, InstancesOK
    <3> QED BY <3>2, <3>3, <3>4, <3>5 DEF InstancesOK
  <2>2. PhysicalsOK'
    <3>1. PICK found \in SUBSET {TRUE, FALSE} :
            physicals' = physicals \cup
              {[handle |-> i, inst |-> next, graphics |-> g] : g \in found}
      BY DEF AddInstance
    <3>2. ASSUME NEW p \in physicals
          PROVE  /\ p \in Physical /\ p.inst \in instances'
                 /\ heap'[p.inst].handle = p.handle
      BY <1>1, <1>4 DEF LInv, Lists, PhysicalsOK, InstancesOK
    <3>3. ASSUME NEW g \in found, NEW p,
                 p = [handle |-> i, inst |-> next, graphics |-> g]
          PROVE  /\ p \in Physical /\ p.inst \in instances'
                 /\ heap'[p.inst].handle = p.handle
      BY <1>1, <1>2, <1>4, <1>5, <3>3 DEF Physical, LInv, Types, HeapOK
    <3> QED BY <3>1, <3>2, <3>3 DEF PhysicalsOK
  <2>3. DevicesOK'
    BY <1>1, <1>2, <1>4, LayerAssumption DEF LInv, Lists, DevicesOK
  <2>4. QueuesOK'
    <3>1. \A q \in queues : heap'[q.dev] = heap[q.dev]
      BY <1>4 DEF LInv, Lists, QueuesOK, DevicesOK
    <3>2. held' \cap Devices = held \cap Devices
      BY <1>1, <1>2, LayerAssumption
    <3> QED BY <1>1, <3>1, <3>2 DEF LInv, Lists, QueuesOK
  <2>5. SwapchainsOK'
    BY <1>1, <1>2, <1>4 DEF LInv, Lists, SwapchainsOK, DevicesOK, Items
  <2>6. HeldOK'
    BY <1>1, <1>2, LayerAssumption DEF LInv, Lists, HeldOK
  <2> QED BY <2>1, <2>2, <2>3, <2>4, <2>5, <2>6 DEF Lists
<1>9. Accounted'
  BY <1>1, <1>6 DEF LInv, Accounted
<1>10. ASSUME NEW u \in Threads, u # t PROVE Claims(u)'
  <2>1. Apart(t, u) /\ Claims(u)
    BY <1>10 DEF LInv
  <2>2. /\ OwnsInstance(u) => loc[u].inst # i
        /\ OwnsDevice(u) => loc[u].dev # i
        /\ OwnsSwapchain(u) => loc[u].swap # i
    BY <1>1, <1>2, <2>1, LayerAssumption
       DEF Apart, Claims, DeviceClaim, SwapchainClaim
  <2> QED BY <1>1, <1>4, <1>6, <1>10, <2>1, <2>2, OthersGrow
<1> QED BY <1>4, <1>6, <1>7, <1>8, <1>9, <1>10, Assembled

LEMMA AddDeviceStep ==
    ASSUME LInv, NEW t \in Threads, AddDevice(t) PROVE LInv'
<1> DEFINE d == loc[t].dev
           r == [handle |-> d]
           new == {[handle |-> <<d, k>>, dev |-> next,
                    graphics |-> loc[t].graphics] : k \in Queues}
<1>1. /\ OwnsDevice(t) /\ Return(t) /\ pc[t] = "add_device"
      /\ heap' = With(heap, next, r) /\ next' = next + 1
      /\ devices' = devices \cup {next} /\ held' = held \cup {d}
      /\ queues' = queues \cup new
      /\ UNCHANGED <<driver, instances, physicals, swapchains>>
  BY DEF AddDevice
<1>2. d \in (DOMAIN driver \cap Devices) \ held
  BY <1>1 DEF LInv, Claims, DeviceClaim
<1>3. r \in Plain /\ r \notin Item
  BY <1>2, PlainNotItem DEF Plain
<1>4. /\ HeapOK' /\ next \notin DOMAIN heap /\ next # 0
      /\ DOMAIN heap' = DOMAIN heap \cup {next}
      /\ heap'[next] = r
      /\ \A a \in DOMAIN heap : heap'[a] = heap[a]
      /\ Items' = Items
  BY <1>1, <1>3, HeapGrows DEF LInv, Types
<1>5. r.handle = d
  OBVIOUS
<1> HIDE DEF r
<1>6. /\ "idle" \in Labels /\ Idle \in LocT /\ Goto(t, "idle", Idle)
      /\ Claims(t)' /\ \A u \in Threads : Apart(t, u)'
      /\ \A u \in Threads : u # t => pc'[u] = pc[u] /\ loc'[u] = loc[u]
  BY <1>1, Returned DEF LInv, Types
<1>7. DriverOK'
  BY <1>1, <1>2 DEF LInv, Types, DriverOK
<1>8. Lists'
  <2>1. DevicesOK'
    <3>1. /\ devices \subseteq DOMAIN heap \ Items
          /\ \A a \in devices : heap'[a] = heap[a] /\ heap[a].handle # d
      BY <1>2, <1>4 DEF LInv, Lists, DevicesOK
    <3> HIDE DEF d
    <3>2. /\ devices' \subseteq DOMAIN heap' \ Items'
      BY <1>1, <1>4, <3>1 DEF Items
    <3>3. \A a \in devices' : heap'[a].handle \in held' \cap Devices
      BY <1>1, <1>2, <1>4, <1>5, <3>1 DEF LInv, Lists, DevicesOK
    <3>4. \A x \in held' \cap Devices : \E a \in devices' : heap'[a].handle = x
      BY <1>1, <1>2, <1>4, <1>5, <3>1 DEF LInv, Lists, DevicesOK
    <3>5. \A a, b \in devices' : heap'[a].handle = heap'[b].handle => a = b
      BY <1>1, <1>4, <1>5, <3>1 DEF LInv, Lists, DevicesOK
    <3> QED BY <3>2, <3>3, <3>4, <3>5 DEF DevicesOK
  <2>2. InstancesOK'
    BY <1>1, <1>2, <1>4, LayerAssumption DEF LInv, Lists, InstancesOK
  <2>3. PhysicalsOK'
    BY <1>1, <1>4 DEF LInv, Lists, PhysicalsOK, InstancesOK
  <2>4. QueuesOK'
    <3>1. ASSUME NEW q \in queues
          PROVE  /\ q \in Queue /\ q.dev \in devices'
                 /\ heap'[q.dev].handle = q.handle[1] /\ q.handle[1] # d
      BY <1>1, <1>2, <1>4 DEF LInv, Lists, QueuesOK, DevicesOK
    <3>2. ASSUME NEW q \in new
          PROVE  /\ q \in Queue /\ q.dev \in devices'
                 /\ heap'[q.dev].handle = q.handle[1] /\ q.handle[1] = d
                 /\ q.dev = next /\ q.graphics = loc[t].graphics
      <4>1. PICK k \in Queues : q = [handle |-> <<d, k>>, dev |-> next,
                                     graphics |-> loc[t].graphics]
        OBVIOUS
      <4>2. loc[t].graphics \in BOOLEAN /\ next \in Nat
        BY DEF LInv, Types, LocOK, LocT, HeapOK
      <4> QED BY <1>1, <1>2, <1>4, <1>5, <4>1, <4>2 DEF Queue
    <3>3. \A e \in held' \cap Devices, k \in Queues :
            \E q \in queues' : q.handle = <<e, k>>
      <4>1. ASSUME NEW k \in Queues PROVE \E q \in new : q.handle = <<d, k>>
        <5>1. [handle |-> <<d, k>>, dev |-> next,
               graphics |-> loc[t].graphics] \in new
          OBVIOUS
        <5> QED BY <5>1
      <4> HIDE DEF new
      <4> QED BY <1>1, <4>1 DEF LInv, Lists, QueuesOK
    <3>4. \A q, s \in new : q.handle = s.handle => q = s
      OBVIOUS
    <3> HIDE DEF new, d
    <3>5. \A q, s \in queues' : q.handle = s.handle => q = s
      BY <1>1, <3>1, <3>2, <3>4 DEF LInv, Lists, QueuesOK
    <3> QED BY <1>1, <3>1, <3>2, <3>3, <3>5 DEF QueuesOK
  <2>5. SwapchainsOK'
    BY <1>1, <1>2, <1>4 DEF LInv, Lists, SwapchainsOK, DevicesOK, Items
  <2>6. HeldOK'
    BY <1>1, <1>2, LayerAssumption DEF LInv, Lists, HeldOK
  <2> QED BY <2>1, <2>2, <2>3, <2>4, <2>5, <2>6 DEF Lists
<1>9. Accounted'
  BY <1>1, <1>6 DEF LInv, Accounted
<1>10. ASSUME NEW u \in Threads, u # t PROVE Claims(u)'
  <2>1. Apart(t, u) /\ Claims(u)
    BY <1>10 DEF LInv
  <2>2. /\ OwnsInstance(u) => loc[u].inst # d
        /\ OwnsDevice(u) => loc[u].dev # d
        /\ OwnsSwapchain(u) => loc[u].swap # d
    BY <1>1, <1>2, <2>1, LayerAssumption
       DEF Apart, Claims, InstanceClaim, SwapchainClaim
  <2> QED BY <1>1, <1>4, <1>6, <1>10, <2>1, <2>2, OthersGrow
<1> QED BY <1>4, <1>6, <1>7, <1>8, <1>9, <1>10, Assembled

LEMMA AddSwapchainStep ==
    ASSUME LInv, NEW t \in Threads, AddSwapchain(t) PROVE LInv'
<1> DEFINE s == loc[t].swap
           d == loc[t].dev
           r == NewItem(t)
<1>1. /\ OwnsSwapchain(t) /\ Return(t) /\ pc[t] = "add_swapchain"
      /\ held' = held \cup {s}
      /\ UNCHANGED <<driver, instances, physicals, devices, queues>>
  BY DEF AddSwapchain
<1>2. /\ s \in (DOMAIN driver \cap Swapchains) \ held /\ driver[s] = d
      /\ d \in held \cap Devices /\ loc[t].ptr \in devices
      /\ heap[loc[t].ptr].handle = d
  BY <1>1 DEF LInv, Claims, SwapchainClaim, DeviceClaim
<1>3. r \in Item /\ r.handle = s /\ r.dev = loc[t].ptr
  <2>1. loc[t].ptr \in Nat
    BY DEF LInv, Types, LocOK, LocT
  <2> QED BY <1>2, <2>1 DEF NewItem, Item, Draw, Fence
<1> HIDE DEF r
<1>4. /\ HeapOK' /\ next \notin DOMAIN heap /\ next # 0
      /\ DOMAIN heap \subseteq DOMAIN heap'
      /\ \A a \in DOMAIN heap :
           heap'[a] = heap[a] /\ (a \in Items' <=> a \in Items)
      /\ \/ swapchains' = swapchains
         \/ /\ swapchains' = swapchains \cup {next}
            /\ next \in Items' /\ heap'[next] = r
  <2>1. CASE UNCHANGED <<heap, next, swapchains>>
    BY <2>1, HeapKept DEF LInv, Types, HeapOK
  <2>2. CASE /\ heap' = With(heap, next, r) /\ next' = next + 1
             /\ swapchains' = swapchains \cup {next}
    <3>1. /\ HeapOK' /\ next \notin DOMAIN heap /\ next # 0
          /\ DOMAIN heap' = DOMAIN heap \cup {next}
          /\ heap'[next] = r
          /\ \A a \in DOMAIN heap : heap'[a] = heap[a]
          /\ Items' = Items \cup {next}
      BY <1>3, <2>2, HeapGrows DEF LInv, Types
    <3> QED BY <2>2, <3>1
  <2> QED BY <2>1, <2>2 DEF AddSwapchain, r
<1>5. \A a \in swapchains : heap[a].handle # s
  BY <1>2 DEF LInv, Lists, SwapchainsOK
<1>6. /\ "idle" \in Labels /\ Idle \in LocT /\ Goto(t, "idle", Idle)
      /\ Claims(t)' /\ \A u \in Threads : Apart(t, u)'
      /\ \A u \in Threads : u # t => pc'[u] = pc[u] /\ loc'[u] = loc[u]
  BY <1>1, Returned DEF LInv, Types
<1>7. DriverOK'
  BY <1>1, <1>2 DEF LInv, Types, DriverOK
<1>8. Lists'
  <2>0. /\ instances \subseteq DOMAIN heap /\ devices \subseteq DOMAIN heap
        /\ swapchains \subseteq DOMAIN heap
    BY DEF LInv, Lists, InstancesOK, DevicesOK, SwapchainsOK, Items
  <2>1. InstancesOK'
    BY <1>1, <1>2, <1>4, LayerAssumption DEF LInv, Lists, InstancesOK
  <2>2. DevicesOK'
    BY <1>1, <1>2, <1>4, LayerAssumption DEF LInv, Lists, DevicesOK
  <2>3. PhysicalsOK'
    BY <1>1, <1>4, <2>0 DEF LInv, Lists, PhysicalsOK
  <2>4. QueuesOK'
    <3>1. QueuesOK /\ queues' = queues /\ devices' = devices
      BY <1>1 DEF LInv, Lists
    <3>2. \A a \in devices : a \in DOMAIN heap /\ heap'[a] = heap[a]
      BY <1>4, <2>0
    <3>3. held' \cap Devices = held \cap Devices
      BY <1>1, <1>2, LayerAssumption
    <3> QED BY <3>1, <3>2, <3>3 DEF QueuesOK
  <2>5. SwapchainsOK'
    <3>1. ASSUME NEW a \in swapchains'
          PROVE  \/ /\ a \in swapchains /\ heap'[a] = heap[a] /\ a \in Items'
                    /\ heap'[heap[a].dev] = heap[heap[a].dev]
                 \/ /\ a = next /\ next \in Items' /\ heap'[next] = r
                    /\ heap'[r.dev] = heap[r.dev] /\ swapchains' # swapchains
      BY <1>2, <1>3, <1>4, <2>0 DEF LInv, Lists, SwapchainsOK
    <3>2. ASSUME NEW a \in swapchains'
          PROVE  /\ heap'[a].handle \in held' \cap Swapchains
                 /\ heap'[a].dev \in devices'
                 /\ driver'[heap'[a].handle] = heap'[heap'[a].dev].handle
      BY <1>1, <1>2, <1>3, <3>1 DEF LInv, Lists, SwapchainsOK
    <3>3. \A a, b \in swapchains' : heap'[a].handle = heap'[b].handle => a = b
      BY <1>3, <1>5, <3>1 DEF LInv, Lists, SwapchainsOK
    <3> QED BY <3>1, <3>2, <3>3 DEF SwapchainsOK
  <2>6. HeldOK'
    BY <1>1, <1>2 DEF LInv, Lists, HeldOK
  <2> QED BY <2>1, <2>2, <2>3, <2>4, <2>5, <2>6 DEF Lists
<1>9. Accounted'
  BY <1>1, <1>6 DEF LInv, Accounted
<1>10. ASSUME NEW u \in Threads, u # t PROVE Claims(u)'
  <2>1. Apart(t, u) /\ Claims(u)
    BY <1>10 DEF LInv
  <2>2. /\ OwnsInstance(u) => loc[u].inst # s
        /\ OwnsDevice(u) => loc[u].dev # s
        /\ OwnsSwapchain(u) => loc[u].swap # s
    BY <1>1, <1>2, <2>1, LayerAssumption
       DEF Apart, Claims, InstanceClaim, DeviceClaim
  <2>3. swapchains \subseteq swapchains' /\ swapchains' \subseteq swapchains \cup {next}
    BY <1>4
  <2> QED BY <1>1, <1>4, <1>6, <1>10, <2>1, <2>2, <2>3, OthersGrow
<1> QED BY <1>4, <1>6, <1>7, <1>8, <1>9, <1>10, Assembled

\* What other calls claim survives a removal.
LEMMA OthersShrink ==
    ASSUME LInv, NEW u \in Threads, pc'[u] = pc[u], loc'[u] = loc[u],
           held' \subseteq held,
           UsesInstance(u) => loc[u].inst \in held' /\ loc[u].ptr \in instances',
           UsesDevice(u) => loc[u].dev \in held' /\ loc[u].ptr \in devices',
           UsesItem(u) => loc[u].item \in swapchains',
           pc[u] \in Presenting => loc[u].swap \in held',
           pc[u] = "destroy_swapchain" =>
               /\ loc[u].dev \in held'
               /\ loc[u].item # 0 => heap[loc[u].item].dev \in devices',
           instances' \subseteq instances, instances' \subseteq DOMAIN heap',
           devices' \subseteq devices, devices' \subseteq DOMAIN heap',
           swapchains' \subseteq swapchains, swapchains' \subseteq DOMAIN heap',
           Taken(u) \subseteq DOMAIN heap',
           DOMAIN heap' \subseteq DOMAIN heap,
           \A a \in DOMAIN heap' : heap'[a] = heap[a],
           Items' = Items \cap DOMAIN heap',
           NEW gone, gone \cap held' = {},
           \A x \in DOMAIN driver \ gone :
               x \in DOMAIN driver' /\ driver'[x] = driver[x],
           OwnsInstance(u) => loc[u].inst \notin gone,
           OwnsDevice(u) => loc[u].dev \notin gone,
           OwnsSwapchain(u) => loc[u].swap \notin gone
    PROVE  Claims(u)'
<1>1. Claims(u)
  BY DEF LInv
<1>2. InstanceClaim(u)'
  BY <1>1 DEF Claims, InstanceClaim
<1>3. DeviceClaim(u)'
  BY <1>1 DEF Claims, DeviceClaim
<1>4. SwapchainClaim(u)'
  BY <1>1 DEF Claims, SwapchainClaim, LInv, Types, DriverOK
<1>5. ItemClaim(u)'
  BY <1>1 DEF Claims, ItemClaim
<1>6. TakenClaim(u)'
  <2>1. /\ Taken(u)' = Taken(u)
        /\ Taken(u) \subseteq DOMAIN heap \ (instances \cup devices \cup swapchains)
    BY <1>1 DEF Taken, Claims, TakenClaim
  <2>2. Taken(u)' \subseteq
          DOMAIN heap' \ (instances' \cup devices' \cup swapchains')
    BY <2>1
  <2>3. pc[u] = "free_device" =>
          /\ loc[u].ptr \in DOMAIN heap'
          /\ \A a \in loc[u].items : a \in DOMAIN heap'
    BY DEF Taken
  <2>4. pc[u] = "destroy_swapchain" /\ loc[u].item # 0 => loc[u].item \in DOMAIN heap'
    BY DEF Taken
  <2> QED BY <1>1, <2>2, <2>3, <2>4 DEF Claims, TakenClaim
<1> QED BY <1>2, <1>3, <1>4, <1>5, <1>6 DEF Claims

\* What is destroyed is taken out under the lock.
LEMMA RemoveInstanceStep ==
    ASSUME LInv, NEW t \in Threads, RemoveInstance(t) PROVE LInv'
<1>1. PICK i \in held \cap Instances :
        /\ ~InUse("inst", i) /\ held' = held \ {i}
        /\ physicals' = {p \in physicals : p.inst # Found(instances, i)}
        /\ instances' = instances \ {Found(instances, i)}
        /\ heap' = Without(heap, {Found(instances, i)})
        /\ Goto(t, "destroy_instance", [Idle EXCEPT !.inst = i])
  BY DEF RemoveInstance
<1> DEFINE item == Found(instances, i)
           r == [Idle EXCEPT !.inst = i]
<1>2. item \in instances /\ heap[item].handle = i
  BY FoundInstance
<1>3. r \in LocT /\ r.inst = i
  BY DEF Idle, LocT
<1>4. /\ UNCHANGED <<driver, next, devices, queues, swapchains>>
      /\ pc[t] = "idle"
  BY DEF RemoveInstance
<1>5. /\ pc'[t] = "destroy_instance" /\ loc'[t] = r
      /\ "destroy_instance" \in Labels
      /\ \A u \in Threads : u # t => pc'[u] = pc[u] /\ loc'[u] = loc[u]
  BY <1>1, <1>3, Moved DEF LInv, Types, Labels
<1>6. Goto(t, "destroy_instance", r)
  BY <1>1
<1> HIDE DEF r, item
<1>7. /\ HeapOK' /\ DOMAIN heap' = DOMAIN heap \ {item}
      /\ \A a \in DOMAIN heap' : heap'[a] = heap[a]
      /\ Items' = Items \ {item}
  BY <1>1, <1>4, HeapShrinks DEF LInv, Types, item
<1>8. /\ held' = held \ {i} /\ instances' = instances \ {item}
      /\ physicals' = {p \in physicals : p.inst # item}
      /\ i \in DOMAIN driver
  BY <1>1 DEF item, LInv, Types, DriverOK
<1>9. /\ item \notin devices /\ item \notin swapchains
      /\ devices \subseteq DOMAIN heap' /\ swapchains \subseteq DOMAIN heap'
      /\ instances' \subseteq DOMAIN heap'
      /\ instances \subseteq DOMAIN heap \ Items
  BY <1>2, <1>7, <1>8, LayerAssumption
     DEF LInv, Lists, InstancesOK, DevicesOK, SwapchainsOK, Items
<1>10. DriverOK'
  BY <1>4, <1>8 DEF LInv, Types, DriverOK
<1>11. Lists'
  <2>1. InstancesOK'
    <3>1. \A a \in instances' : heap'[a] = heap[a] /\ heap[a].handle # i
      BY <1>2, <1>7, <1>8, <1>9 DEF LInv, Lists, InstancesOK
    <3>2. instances' \subseteq DOMAIN heap' \ Items'
      BY <1>7, <1>8, <1>9
    <3>3. \A a \in instances' : heap'[a].handle \in held' \cap Instances
      BY <1>8, <3>1 DEF LInv, Lists, InstancesOK
    <3>4. \A x \in held' \cap Instances : \E a \in instances' : heap'[a].handle = x
      BY <1>2, <1>8, <3>1 DEF LInv, Lists, InstancesOK
    <3>5. \A a, b \in instances' : heap'[a].handle = heap'[b].handle => a = b
      BY <1>8, <3>1 DEF LInv, Lists, InstancesOK
    <3> QED BY <3>2, <3>3, <3>4, <3>5 DEF InstancesOK
  <2>2. PhysicalsOK'
    BY <1>7, <1>8, <1>9 DEF LInv, Lists, PhysicalsOK
  <2>3. DevicesOK'
    BY <1>4, <1>7, <1>8, <1>9, LayerAssumption DEF LInv, Lists, DevicesOK
  <2>4. QueuesOK'
    <3>1. \A q \in queues : heap'[q.dev] = heap[q.dev]
      BY <1>7, <1>9 DEF LInv, Lists, QueuesOK
    <3>2. held' \cap Devices = held \cap Devices
      BY <1>8, LayerAssumption
    <3> QED BY <1>4, <3>1, <3>2 DEF LInv, Lists, QueuesOK
  <2>5. SwapchainsOK'
    <3>1. \A a \in swapchains : /\ heap'[a] = heap[a] /\ a \in Items'
                                /\ heap'[heap[a].dev] = heap[heap[a].dev]
      BY <1>7, <1>9 DEF LInv, Lists, SwapchainsOK
    <3>2. held' \cap Swapchains = held \cap Swapchains
      BY <1>8, LayerAssumption
    <3> QED BY <1>4, <3>1, <3>2 DEF LInv, Lists, SwapchainsOK
  <2>6. HeldOK'
    BY <1>4, <1>8, LayerAssumption DEF LInv, Lists, HeldOK, Types, DriverOK
  <2> QED BY <2>1, <2>2, <2>3, <2>4, <2>5, <2>6 DEF Lists
<1>12. Accounted'
  BY <1>4, <1>5, <1>8, LayerAssumption DEF LInv, Accounted
<1>13. Claims(t)'
  BY <1>3, <1>4, <1>5, <1>8
     DEF Claims, InstanceClaim, DeviceClaim, SwapchainClaim, ItemClaim,
         TakenClaim, Taken, Presenting
<1>14. ASSUME NEW u \in Threads, u # t PROVE Claims(u)' /\ Apart(t, u)'
  <2>1. Claims(u)
    BY DEF LInv
  <2>2. OwnsInstance(u) => loc[u].inst # i
    BY <2>1 DEF Claims, InstanceClaim
  <2>3. Apart(t, u)'
    BY <1>3, <1>5, <1>14, <2>2 DEF Apart, Taken, Presenting
  <2>4. UsesInstance(u) => loc[u].inst \in held' /\ loc[u].ptr \in instances'
    <3>1. UsesInstance(u) => loc[u].inst # i
      BY <1>1, NotInUse
    <3> QED BY <1>2, <1>8, <2>1, <3>1 DEF Claims, InstanceClaim
  <2>5. UsesDevice(u) => loc[u].dev \in held' /\ loc[u].ptr \in devices'
    BY <1>4, <1>8, <2>1, LayerAssumption DEF Claims, DeviceClaim
  <2>6. UsesItem(u) => loc[u].item \in swapchains'
    BY <1>4, <2>1 DEF Claims, ItemClaim
  <2>7. pc[u] \in Presenting => loc[u].swap \in held'
    BY <1>8, <2>1, LayerAssumption DEF Claims, SwapchainClaim
  <2>8. pc[u] = "destroy_swapchain" =>
          /\ loc[u].dev \in held'
          /\ loc[u].item # 0 => heap[loc[u].item].dev \in devices'
    BY <1>4, <1>8, <2>1, LayerAssumption DEF Claims, DeviceClaim, TakenClaim
  <2>9. Taken(u) \subseteq DOMAIN heap'
    BY <1>2, <1>7, <2>1 DEF Claims, TakenClaim
  <2>10. Items' = Items \cap DOMAIN heap'
    BY <1>7 DEF Items
  <2>11. \A x \in DOMAIN driver \ {i} : x \in DOMAIN driver' /\ driver'[x] = driver[x]
    BY <1>4
  <2>12. /\ OwnsInstance(u) => loc[u].inst \notin {i}
         /\ OwnsDevice(u) => loc[u].dev \notin {i}
         /\ OwnsSwapchain(u) => loc[u].swap \notin {i}
         /\ {i} \cap held' = {}
    BY <1>8, <2>1, <2>2, LayerAssumption DEF Claims, DeviceClaim, SwapchainClaim
  <2>13. /\ instances' \subseteq instances
         /\ devices' \subseteq devices /\ devices' \subseteq DOMAIN heap'
         /\ swapchains' \subseteq swapchains /\ swapchains' \subseteq DOMAIN heap'
         /\ held' \subseteq held /\ DOMAIN heap' \subseteq DOMAIN heap
         /\ pc'[u] = pc[u] /\ loc'[u] = loc[u]
    BY <1>4, <1>5, <1>7, <1>8, <1>9, <1>14
  <2> HIDE DEF UsesInstance, UsesDevice, UsesItem, OwnsInstance, OwnsDevice,
               OwnsSwapchain
  <2>14. Claims(u)'
    BY <1>7, <1>9, <2>4, <2>5, <2>6, <2>7, <2>8, <2>9, <2>10, <2>11, <2>12,
       <2>13, OthersShrink
  <2> QED BY <2>3, <2>14
<1> QED BY <1>3, <1>5, <1>6, <1>7, <1>10, <1>11, <1>12, <1>13, <1>14, Assembled

\* A device goes with its queues and the swapchains left behind.
LEMMA RemoveDeviceStep ==
    ASSUME LInv, NEW t \in Threads, RemoveDevice(t) PROVE LInv'
<1> DEFINE gone(d) == {d} \cup {s \in DOMAIN driver : driver[s] = d}
<1>1. PICK d \in held \cap Devices :
        /\ ~InUse("dev", d) /\ held' = held \ gone(d)
        /\ swapchains' =
             swapchains \ take_device_swapchains(Found(devices, d))
        /\ devices' = devices \ {Found(devices, d)}
        /\ queues' = {q \in queues : q.dev # Found(devices, d)}
        /\ Goto(t, "free_device",
                [Idle EXCEPT !.dev = d, !.ptr = Found(devices, d),
                    !.items = take_device_swapchains(Found(devices, d))])
  BY DEF RemoveDevice
<1> DEFINE item == Found(devices, d)
           left == take_device_swapchains(item)
           r == [Idle EXCEPT !.dev = d, !.ptr = item, !.items = left]
<1>2. item \in devices /\ heap[item].handle = d
  BY FoundDevice
<1>3. left = {a \in swapchains : heap[a].dev = item}
  BY DEF take_device_swapchains
<1> HIDE DEF item
<1>4. item \in Nat /\ left \subseteq Nat
  BY <1>2, <1>3 DEF LInv, Types, HeapOK, Lists, DevicesOK, SwapchainsOK, Items
<1> HIDE DEF left
<1>5. r \in LocT /\ r.dev = d /\ r.ptr = item /\ r.items = left
  BY <1>4 DEF Idle, LocT
<1>6. /\ UNCHANGED <<driver, heap, next, instances, physicals>>
      /\ pc[t] = "idle"
  BY DEF RemoveDevice
<1>7. Goto(t, "free_device", r)
  BY <1>1 DEF item, left
<1> HIDE DEF r
<1>8. /\ pc'[t] = "free_device" /\ loc'[t] = r /\ "free_device" \in Labels
      /\ \A u \in Threads : u # t => pc'[u] = pc[u] /\ loc'[u] = loc[u]
  BY <1>5, <1>7, Moved DEF LInv, Types, Labels
<1>9. /\ held' = held \ gone(d) /\ devices' = devices \ {item}
      /\ swapchains' = swapchains \ left
      /\ queues' = {q \in queues : q.dev # item}
  BY <1>1 DEF item, left
<1>10. ASSUME NEW x \in gone(d) PROVE x = d \/ (x \in Swapchains /\ driver[x] = d)
  <2>1. x # d => x \in DOMAIN driver /\ driver[x] = d
    OBVIOUS
  <2>2. x \notin Instances \/ x \notin DOMAIN driver \/ driver[x] = Null
    BY DEF LInv, Types, DriverOK
  <2>3. x \notin Devices \/ x \notin DOMAIN driver \/ driver[x] \in Instances
    BY DEF LInv, Types, DriverOK
  <2>4. DOMAIN driver \subseteq Instances \cup Devices \cup Swapchains
    BY DEF LInv, Types, DriverOK
  <2>5. d \notin Instances /\ d # Null
    BY <1>1, LayerAssumption
  <2> QED BY <1>1, <2>1, <2>2, <2>3, <2>4, <2>5
<1>11. /\ d \in gone(d)
       /\ \A s \in held \cap Swapchains : s \in gone(d) <=> driver[s] = d
  BY LayerAssumption DEF LInv, Types, DriverOK
<1> HIDE DEF gone
<1>12. /\ held' \cap Instances = held \cap Instances
       /\ held' \cap Devices = (held \cap Devices) \ {d}
       /\ \A s \in Swapchains : s \in held' <=> s \in held /\ driver[s] # d
  BY <1>1, <1>9, <1>10, <1>11, LayerAssumption
<1>13. HeapOK' /\ Items' = Items
  BY <1>6, HeapKept DEF LInv, Types
<1>14. DriverOK'
  BY <1>6, <1>9 DEF LInv, Types, DriverOK
<1>15. Lists'
  <2>1. InstancesOK' /\ PhysicalsOK'
    BY <1>6, <1>12, <1>13 DEF LInv, Lists, InstancesOK, PhysicalsOK
  <2>2. \A a \in devices' : a \in devices /\ heap[a].handle # d
    BY <1>2, <1>9 DEF LInv, Lists, DevicesOK
  <2>3. DevicesOK'
    <3>1. \A x \in held' \cap Devices : \E a \in devices' : heap'[a].handle = x
      BY <1>2, <1>6, <1>9, <1>12 DEF LInv, Lists, DevicesOK
    <3>2. \A a \in devices' : heap'[a].handle \in held' \cap Devices
      BY <1>6, <1>12, <2>2 DEF LInv, Lists, DevicesOK
    <3>3. \A a, b \in devices' : heap'[a].handle = heap'[b].handle => a = b
      BY <1>6, <2>2 DEF LInv, Lists, DevicesOK
    <3>4. devices' \subseteq DOMAIN heap' \ Items'
      BY <1>6, <1>9, <1>13 DEF LInv, Lists, DevicesOK
    <3> QED BY <3>1, <3>2, <3>3, <3>4 DEF DevicesOK
  <2>4. QueuesOK'
    <3>1. \A e \in held' \cap Devices, k \in Queues :
            \E q \in queues' : q.handle = <<e, k>>
      <4>1. SUFFICES ASSUME NEW e \in held' \cap Devices, NEW k \in Queues
                     PROVE  \E q \in queues' : q.handle = <<e, k>>
        OBVIOUS
      <4>2. PICK q \in queues : q.handle = <<e, k>>
        BY <1>12 DEF LInv, Lists, QueuesOK
      <4>3. heap[q.dev].handle = e
        BY <4>2 DEF LInv, Lists, QueuesOK
      <4>4. q.dev # item
        BY <1>2, <1>12, <4>3
      <4> QED BY <1>9, <4>2, <4>4
    <3>2. \A q \in queues' : q.dev \in devices' /\ heap'[q.dev].handle = q.handle[1]
      BY <1>6, <1>9 DEF LInv, Lists, QueuesOK
    <3>3. queues' \subseteq queues
      BY <1>9
    <3> QED BY <3>1, <3>2, <3>3 DEF LInv, Lists, QueuesOK
  <2>5. SwapchainsOK'
    <3>1. ASSUME NEW a \in swapchains'
          PROVE  /\ a \in swapchains /\ heap[a].dev \in devices'
                 /\ heap[a].handle \in held'
      <4>1. a \in swapchains /\ heap[a].dev \in devices'
        BY <1>3, <1>9 DEF LInv, Lists, SwapchainsOK
      <4>2. /\ heap[a].handle \in held \cap Swapchains
            /\ driver[heap[a].handle] = heap[heap[a].dev].handle
        BY <4>1 DEF LInv, Lists, SwapchainsOK
      <4> QED BY <1>12, <2>2, <4>1, <4>2
    <3> QED BY <1>6, <1>13, <3>1 DEF LInv, Lists, SwapchainsOK
  <2>6. HeldOK'
    <3>1. ASSUME NEW s \in held' \cap Swapchains PROVE driver[s] \in held'
      BY <1>12 DEF LInv, Lists, HeldOK, Types, DriverOK
    <3> QED BY <1>6, <3>1 DEF HeldOK
  <2> QED BY <2>1, <2>3, <2>4, <2>5, <2>6 DEF Lists
<1>16. Accounted'
  <2>1. OwnsDevice(t)' /\ loc'[t].dev = d
    BY <1>5, <1>8
  <2>2. \A u \in Threads : OwnsDevice(u) => u # t /\ OwnsDevice(u)' /\ loc'[u] = loc[u]
    BY <1>6, <1>8
  <2> HIDE DEF OwnsDevice
  <2> QED BY <1>6, <1>12, <2>1, <2>2 DEF LInv, Accounted
<1>17. Claims(t)'
  <2>1. DeviceClaim(t)'
    BY <1>1, <1>5, <1>6, <1>8, <1>9, <1>11
       DEF DeviceClaim, LInv, Types, DriverOK, Presenting
  <2>2. TakenClaim(t)'
    <3>1. Taken(t)' = left \cup {item}
      BY <1>5, <1>8 DEF Taken
    <3>2. item \notin instances /\ item \notin swapchains /\ item \notin Items
      BY <1>2, LayerAssumption
         DEF LInv, Lists, InstancesOK, DevicesOK, SwapchainsOK
    <3>3. left \subseteq swapchains /\ \A a \in left : heap[a].dev = item
      BY <1>3
    <3>4. left \cap (instances \cup devices) = {} /\ left \subseteq Items
      BY <3>3 DEF LInv, Lists, InstancesOK, DevicesOK, SwapchainsOK
    <3>5. item \in DOMAIN heap /\ left \subseteq DOMAIN heap
      BY <1>2, <3>4 DEF LInv, Lists, DevicesOK, Items
    <3>6. Taken(t)' \subseteq DOMAIN heap' \ (instances' \cup devices' \cup swapchains')
      BY <1>6, <1>9, <3>1, <3>2, <3>3, <3>4, <3>5
    <3> QED BY <1>5, <1>6, <1>8, <1>13, <3>2, <3>3, <3>4, <3>6 DEF TakenClaim
  <2>3. InstanceClaim(t)' /\ SwapchainClaim(t)' /\ ItemClaim(t)'
    BY <1>8 DEF InstanceClaim, SwapchainClaim, ItemClaim, Presenting
  <2> QED BY <2>1, <2>2, <2>3 DEF Claims
<1>18. ASSUME NEW u \in Threads, u # t PROVE Claims(u)' /\ Apart(t, u)'
  <2>1. Claims(u)
    BY DEF LInv
  <2>2. OwnsDevice(u) => loc[u].dev # d
    BY <2>1 DEF Claims, DeviceClaim
  <2>3. Apart(t, u)'
    <3>1. Taken(t)' \subseteq devices \cup swapchains
      BY <1>2, <1>3, <1>5, <1>8 DEF Taken
    <3>2. Taken(u)' = Taken(u)
      BY <1>8, <1>18 DEF Taken
    <3>3. Taken(u) \cap (devices \cup swapchains) = {}
      BY <2>1 DEF Claims, TakenClaim
    <3> QED BY <1>5, <1>8, <1>18, <2>2, <3>1, <3>2, <3>3 DEF Apart, Presenting
  <2>4. UsesInstance(u) => loc[u].inst \in held' /\ loc[u].ptr \in instances'
    BY <1>6, <1>12, <2>1 DEF Claims, InstanceClaim
  <2>d. pc[u] # "idle" => loc[u].dev # d
    BY <1>1, NotInUse
  <2>5. UsesDevice(u) => loc[u].dev \in held' /\ loc[u].ptr \in devices'
    BY <1>2, <1>9, <1>12, <2>1, <2>d DEF Claims, DeviceClaim, Presenting
  <2>7. pc[u] \in Presenting => loc[u].swap \in held'
    BY <1>12, <2>1, <2>d DEF Claims, SwapchainClaim, Presenting
  <2>6. UsesItem(u) => loc[u].item \in swapchains'
    <3>1. SUFFICES ASSUME UsesItem(u) PROVE loc[u].item \in swapchains'
      OBVIOUS
    <3>2. /\ loc[u].item \in swapchains /\ heap[loc[u].item].handle = loc[u].swap
          /\ driver[loc[u].swap] = loc[u].dev
      BY <2>1, <3>1 DEF Claims, ItemClaim, SwapchainClaim, Presenting
    <3>3. heap[heap[loc[u].item].dev].handle = loc[u].dev
      BY <3>2 DEF LInv, Lists, SwapchainsOK
    <3>4. heap[loc[u].item].dev # item
      BY <1>2, <2>d, <3>1, <3>3
    <3> QED BY <1>3, <1>9, <3>2, <3>4
  <2>8. pc[u] = "destroy_swapchain" =>
          /\ loc[u].dev \in held'
          /\ loc[u].item # 0 => heap[loc[u].item].dev \in devices'
    BY <1>2, <1>9, <1>12, <2>1, <2>d DEF Claims, DeviceClaim, TakenClaim
  <2>9. Taken(u) \subseteq DOMAIN heap'
    BY <1>6, <2>1 DEF Claims, TakenClaim
  <2>10. Items' = Items \cap DOMAIN heap'
    BY <1>6, <1>13 DEF Items
  <2>11. \A x \in DOMAIN driver \ {d} : x \in DOMAIN driver' /\ driver'[x] = driver[x]
    BY <1>6
  <2>12. /\ OwnsInstance(u) => loc[u].inst \notin {d}
         /\ OwnsDevice(u) => loc[u].dev \notin {d}
         /\ OwnsSwapchain(u) => loc[u].swap \notin {d}
         /\ {d} \cap held' = {}
    BY <1>9, <1>11, <2>1, <2>2, LayerAssumption
       DEF Claims, InstanceClaim, SwapchainClaim
  <2>13. /\ instances' \subseteq instances /\ instances' \subseteq DOMAIN heap'
         /\ devices' \subseteq devices /\ devices' \subseteq DOMAIN heap'
         /\ swapchains' \subseteq swapchains /\ swapchains' \subseteq DOMAIN heap'
         /\ held' \subseteq held /\ DOMAIN heap' \subseteq DOMAIN heap
         /\ \A a \in DOMAIN heap' : heap'[a] = heap[a]
         /\ pc'[u] = pc[u] /\ loc'[u] = loc[u]
    BY <1>6, <1>8, <1>9, <1>18
       DEF LInv, Lists, InstancesOK, DevicesOK, SwapchainsOK, Items
  <2> HIDE DEF UsesInstance, UsesDevice, UsesItem, OwnsInstance, OwnsDevice,
               OwnsSwapchain
  <2>14. Claims(u)'
    BY <2>4, <2>5, <2>6, <2>7, <2>8, <2>9, <2>10, <2>11, <2>12, <2>13,
       OthersShrink
  <2> QED BY <2>3, <2>14
<1> QED BY <1>5, <1>7, <1>8, <1>13, <1>14, <1>15, <1>16, <1>17, <1>18, Assembled

\* What a call has taken is in no list, so that freeing it disturbs none.
LEMMA ListsSurvive ==
    ASSUME LInv, NEW gone, HeapOK,
           gone \cap (instances \cup devices \cup swapchains) = {},
           DOMAIN heap' = DOMAIN heap \ gone,
           \A a \in DOMAIN heap' : heap'[a] = heap[a], Items' = Items \ gone,
           UNCHANGED <<held, registry>>,
           \A x \in held : driver'[x] = driver[x]
    PROVE  /\ Lists'
           /\ instances' \subseteq DOMAIN heap' /\ devices' \subseteq DOMAIN heap'
           /\ swapchains' \subseteq DOMAIN heap'
<1>1. /\ instances \subseteq DOMAIN heap' \ Items'
      /\ devices \subseteq DOMAIN heap' \ Items'
      /\ swapchains \subseteq DOMAIN heap' \cap Items'
  BY DEF LInv, Lists, InstancesOK, DevicesOK, SwapchainsOK, Items
<1>2. InstancesOK' /\ DevicesOK'
  BY <1>1 DEF LInv, Lists, InstancesOK, DevicesOK, registry
<1>3. PhysicalsOK'
  BY <1>1 DEF LInv, Lists, PhysicalsOK, registry
<1>4. QueuesOK'
  <2>1. \A q \in queues : heap'[q.dev] = heap[q.dev]
    BY <1>1 DEF LInv, Lists, QueuesOK
  <2> QED BY <2>1 DEF LInv, Lists, QueuesOK, registry
<1>5. SwapchainsOK'
  <2>1. \A a \in swapchains : /\ heap'[a] = heap[a]
                              /\ heap'[heap[a].dev] = heap[heap[a].dev]
    BY <1>1 DEF LInv, Lists, SwapchainsOK
  <2> QED BY <1>1, <2>1 DEF LInv, Lists, SwapchainsOK, registry
<1>6. HeldOK'
  BY DEF LInv, Lists, HeldOK
<1> QED BY <1>1, <1>2, <1>3, <1>4, <1>5, <1>6 DEF Lists, registry

LEMMA OthersSurvive ==
    ASSUME LInv, NEW t \in Threads, NEW u \in Threads, u # t,
           pc'[u] = pc[u], loc'[u] = loc[u],
           NEW freed, freed \cap DOMAIN heap \subseteq Taken(t),
           DOMAIN heap' = DOMAIN heap \ freed,
           \A a \in DOMAIN heap' : heap'[a] = heap[a], Items' = Items \ freed,
           instances' \subseteq DOMAIN heap', devices' \subseteq DOMAIN heap',
           swapchains' \subseteq DOMAIN heap',
           UNCHANGED <<held, registry>>,
           NEW gone, gone \cap held = {},
           \A x \in DOMAIN driver \ gone :
               x \in DOMAIN driver' /\ driver'[x] = driver[x],
           OwnsInstance(u) => loc[u].inst \notin gone,
           OwnsDevice(u) => loc[u].dev \notin gone,
           OwnsSwapchain(u) => loc[u].swap \notin gone
    PROVE  Claims(u)'
<1>1. Claims(u) /\ Apart(t, u)
  BY DEF LInv
<1>2. Taken(u) \subseteq DOMAIN heap'
  BY <1>1 DEF Claims, TakenClaim, Apart
<1>3. UsesInstance(u) => loc[u].inst \in held' /\ loc[u].ptr \in instances'
  BY <1>1 DEF Claims, InstanceClaim, registry
<1>4. UsesDevice(u) => loc[u].dev \in held' /\ loc[u].ptr \in devices'
  BY <1>1 DEF Claims, DeviceClaim, registry
<1>5. UsesItem(u) => loc[u].item \in swapchains'
  BY <1>1 DEF Claims, ItemClaim, registry
<1>6. pc[u] \in Presenting => loc[u].swap \in held'
  BY <1>1 DEF Claims, SwapchainClaim
<1>7. pc[u] = "destroy_swapchain" =>
        /\ loc[u].dev \in held'
        /\ loc[u].item # 0 => heap[loc[u].item].dev \in devices'
  BY <1>1 DEF Claims, DeviceClaim, TakenClaim, registry
<1>8. /\ instances' \subseteq instances /\ devices' \subseteq devices
      /\ swapchains' \subseteq swapchains /\ held' \subseteq held
      /\ DOMAIN heap' \subseteq DOMAIN heap /\ gone \cap held' = {}
      /\ Items' = Items \cap DOMAIN heap'
  BY DEF registry, Items
<1> HIDE DEF UsesInstance, UsesDevice, UsesItem, OwnsInstance, OwnsDevice,
             OwnsSwapchain
<1> QED BY <1>2, <1>3, <1>4, <1>5, <1>6, <1>7, <1>8, OthersShrink

\* What was taken is freed.
LEMMA FreeDeviceStep ==
    ASSUME LInv, NEW t \in Threads, FreeDevice(t) PROVE LInv'
<1> DEFINE d == loc[t].dev
           freed == loc[t].items \cup {loc[t].ptr}
           r == [Idle EXCEPT !.dev = d]
<1>1. /\ pc[t] = "free_device" /\ heap' = Without(heap, freed)
      /\ Goto(t, "destroy_device", r)
      /\ UNCHANGED <<driver, held, next, registry>>
  BY DEF FreeDevice
<1>2. d \in (DOMAIN driver \cap Devices) \ held
  BY <1>1 DEF LInv, Claims, DeviceClaim
<1>3. r \in LocT /\ r.dev = d
  BY <1>2 DEF Idle, LocT
<1> HIDE DEF r
<1>4. /\ pc'[t] = "destroy_device" /\ loc'[t] = r /\ "destroy_device" \in Labels
      /\ \A u \in Threads : u # t => pc'[u] = pc[u] /\ loc'[u] = loc[u]
  BY <1>1, <1>3, Moved DEF LInv, Types, Labels
<1>5. /\ HeapOK' /\ DOMAIN heap' = DOMAIN heap \ freed
      /\ \A a \in DOMAIN heap' : heap'[a] = heap[a]
      /\ Items' = Items \ freed
  BY <1>1, HeapShrinks DEF LInv, Types
<1>6. /\ freed = Taken(t)
      /\ freed \cap (instances \cup devices \cup swapchains) = {}
  BY <1>1 DEF Taken, LInv, Claims, TakenClaim
<1> HIDE DEF freed
<1>7. /\ Lists'
      /\ instances' \subseteq DOMAIN heap' /\ devices' \subseteq DOMAIN heap'
      /\ swapchains' \subseteq DOMAIN heap'
  BY <1>1, <1>5, <1>6, ListsSurvive DEF LInv, Types
<1>8. DriverOK'
  BY <1>1 DEF LInv, Types, DriverOK
<1>9. Accounted'
  <2>1. \A u \in Threads : OwnsDevice(u) => OwnsDevice(u)' /\ loc'[u].dev = loc[u].dev
    BY <1>3, <1>4
  <2> HIDE DEF OwnsDevice
  <2> QED BY <1>1, <2>1 DEF LInv, Accounted
<1>10. Claims(t)'
  BY <1>1, <1>2, <1>3, <1>4
     DEF Claims, InstanceClaim, DeviceClaim, SwapchainClaim, ItemClaim,
         TakenClaim, Taken, Presenting
<1>11. ASSUME NEW u \in Threads, u # t PROVE Claims(u)' /\ Apart(t, u)'
  <2>1. Apart(t, u) /\ freed \cap DOMAIN heap \subseteq Taken(t)
    BY <1>6, <1>11 DEF LInv
  <2>2. Apart(t, u)'
    BY <1>1, <1>3, <1>4, <1>11, <2>1 DEF Apart, Taken, Presenting
  <2>3. /\ {} \cap held = {} /\ loc[u].inst \notin {} /\ loc[u].dev \notin {}
        /\ loc[u].swap \notin {}
        /\ \A x \in DOMAIN driver \ {} :
             x \in DOMAIN driver' /\ driver'[x] = driver[x]
    BY <1>1
  <2>4. Claims(u)'
    BY <1>1, <1>4, <1>5, <1>7, <1>11, <2>1, <2>3, OthersSurvive
  <2> QED BY <2>2, <2>4
<1> QED BY <1>1, <1>3, <1>4, <1>5, <1>7, <1>8, <1>9, <1>10, <1>11, Assembled

LEMMA DestroySwapchainStep ==
    ASSUME LInv, NEW t \in Threads, DestroySwapchain(t) PROVE LInv'
<1> DEFINE s == loc[t].swap
           freed == {loc[t].item}
<1>1. /\ pc[t] = "destroy_swapchain" /\ OwnsSwapchain(t)
      /\ heap' = Without(heap, freed)
      /\ driver' = Without(driver, {s}) /\ Return(t)
      /\ UNCHANGED <<held, next, registry>>
  BY DEF DestroySwapchain
<1>2. s \in (DOMAIN driver \cap Swapchains) \ held
  BY <1>1 DEF LInv, Claims, SwapchainClaim
<1>3. /\ "idle" \in Labels /\ Idle \in LocT /\ Goto(t, "idle", Idle)
      /\ Claims(t)' /\ \A u \in Threads : Apart(t, u)'
      /\ \A u \in Threads : u # t => pc'[u] = pc[u] /\ loc'[u] = loc[u]
  BY <1>1, Returned DEF LInv, Types
<1>4. /\ DOMAIN driver' = DOMAIN driver \ {s}
      /\ \A x \in DOMAIN driver' : driver'[x] = driver[x]
  BY <1>1, DriverTakes
<1>5. /\ HeapOK' /\ DOMAIN heap' = DOMAIN heap \ freed
      /\ \A a \in DOMAIN heap' : heap'[a] = heap[a]
      /\ Items' = Items \ freed
  BY <1>1, HeapShrinks DEF LInv, Types
<1>6. /\ freed \cap DOMAIN heap \subseteq Taken(t)
      /\ freed \cap (instances \cup devices \cup swapchains) = {}
  <2>1. 0 \notin DOMAIN heap
    BY DEF LInv, Types, HeapOK
  <2>2. Taken(t) = freed \ {0}
    BY <1>1 DEF Taken
  <2>3. Taken(t) \cap (instances \cup devices \cup swapchains) = {}
    BY DEF LInv, Claims, TakenClaim
  <2>4. instances \cup devices \cup swapchains \subseteq DOMAIN heap
    BY DEF LInv, Lists, InstancesOK, DevicesOK, SwapchainsOK, Items
  <2> HIDE DEF freed
  <2> QED BY <2>1, <2>2, <2>3, <2>4
<1> HIDE DEF freed, s
<1>7. \A x \in held : driver'[x] = driver[x]
  BY <1>2, <1>4 DEF LInv, Types, DriverOK
<1>8. /\ Lists'
      /\ instances' \subseteq DOMAIN heap' /\ devices' \subseteq DOMAIN heap'
      /\ swapchains' \subseteq DOMAIN heap'
  BY <1>1, <1>5, <1>6, <1>7, ListsSurvive DEF LInv, Types
<1>9. DriverOK'
  BY <1>1, <1>2, <1>4 DEF LInv, Types, DriverOK
<1>10. Accounted'
  BY <1>1, <1>3, <1>4 DEF LInv, Accounted
<1>11. ASSUME NEW u \in Threads, u # t PROVE Claims(u)'
  <2>1. Apart(t, u) /\ Claims(u)
    BY <1>11 DEF LInv
  <2>2. /\ OwnsInstance(u) => loc[u].inst \notin {s}
        /\ OwnsDevice(u) => loc[u].dev \notin {s}
        /\ OwnsSwapchain(u) => loc[u].swap \notin {s}
        /\ {s} \cap held = {}
    BY <1>1, <1>2, <2>1, LayerAssumption
       DEF Apart, Claims, DeviceClaim, InstanceClaim, s
  <2>3. \A x \in DOMAIN driver \ {s} :
             x \in DOMAIN driver' /\ driver'[x] = driver[x]
    BY <1>4
  <2> HIDE DEF OwnsInstance, OwnsDevice, OwnsSwapchain
  <2> QED BY <1>1, <1>3, <1>5, <1>6, <1>8, <1>11, <2>2, <2>3, OthersSurvive
<1> QED BY <1>3, <1>5, <1>8, <1>9, <1>10, <1>11, Assembled

\* A swapchain's item is taken, if it has one.
LEMMA TakeSwapchainStep ==
    ASSUME LInv, NEW t \in Threads, TakeSwapchain(t) PROVE LInv'
<1>1. PICK s \in held \cap Swapchains :
        /\ ~InUse("swap", s) /\ held' = held \ {s}
        /\ swapchains' = swapchains \ {Found(swapchains, s)}
        /\ Goto(t, "destroy_swapchain",
                [Idle EXCEPT !.dev = driver[s], !.swap = s,
                             !.item = Found(swapchains, s)])
  BY DEF TakeSwapchain
<1> DEFINE item == Found(swapchains, s)
           d == driver[s]
           r == [Idle EXCEPT !.dev = d, !.swap = s, !.item = item]
<1>2. /\ \/ item = 0 /\ \A a \in swapchains : heap[a].handle # s
         \/ item \in swapchains /\ heap[item].handle = s
      /\ item \in Nat /\ 0 \notin DOMAIN heap
  BY FoundSwapchain DEF LInv, Types, HeapOK, Lists, SwapchainsOK, Items
<1> HIDE DEF item
<1>3. d \in held \cap Devices /\ s \in DOMAIN driver
  BY DEF LInv, Types, Lists, DriverOK, HeldOK
<1> HIDE DEF d
<1>4. r \in LocT /\ r.dev = d /\ r.swap = s /\ r.item = item /\ r.ptr = 0
  BY <1>2, <1>3 DEF Idle, LocT
<1>5. /\ UNCHANGED <<driver, heap, next, instances, physicals, devices, queues>>
      /\ pc[t] = "idle" /\ held' = held \ {s}
      /\ swapchains' = swapchains \ {item} /\ Goto(t, "destroy_swapchain", r)
  BY <1>1 DEF TakeSwapchain, item, d
<1> HIDE DEF r
<1>6. /\ pc'[t] = "destroy_swapchain" /\ loc'[t] = r
      /\ "destroy_swapchain" \in Labels
      /\ \A u \in Threads : u # t => pc'[u] = pc[u] /\ loc'[u] = loc[u]
  BY <1>4, <1>5, Moved DEF LInv, Types, Labels
<1>7. HeapOK' /\ Items' = Items
  BY <1>5, HeapKept DEF LInv, Types
<1>8. DriverOK'
  BY <1>5 DEF LInv, Types, DriverOK
<1>9. /\ held' \cap Instances = held \cap Instances
      /\ held' \cap Devices = held \cap Devices
  BY <1>5, LayerAssumption
<1>10. Lists'
  <2>1. InstancesOK' /\ DevicesOK'
    BY <1>5, <1>7, <1>9 DEF LInv, Lists, InstancesOK, DevicesOK
  <2>2. PhysicalsOK' /\ QueuesOK'
    BY <1>5, <1>9 DEF LInv, Lists, PhysicalsOK, QueuesOK
  <2>3. SwapchainsOK'
    <3>1. \A a \in swapchains' : a \in swapchains /\ heap[a].handle # s
      BY <1>2, <1>5 DEF LInv, Lists, SwapchainsOK
    <3> QED BY <1>5, <1>7, <3>1 DEF LInv, Lists, SwapchainsOK
  <2>4. HeldOK'
    BY <1>5, <1>9 DEF LInv, Lists, HeldOK, Types, DriverOK
  <2> QED BY <2>1, <2>2, <2>3, <2>4 DEF Lists
<1>11. Accounted'
  <2>1. \A u \in Threads : OwnsDevice(u) => OwnsDevice(u)' /\ loc'[u].dev = loc[u].dev
    BY <1>5, <1>6
  <2> HIDE DEF OwnsDevice
  <2> QED BY <1>5, <1>9, <2>1 DEF LInv, Accounted
<1>12. Claims(t)'
  <2>1. SwapchainClaim(t)' /\ DeviceClaim(t)'
    BY <1>1, <1>3, <1>4, <1>5, <1>6, <1>9
       DEF SwapchainClaim, DeviceClaim, Presenting, d
  <2>2. TakenClaim(t)'
    <3>1. Taken(t)' = {item} \ {0}
      BY <1>4, <1>6 DEF Taken
    <3>2. item # 0 =>
            /\ item \in swapchains /\ item \in Items /\ item \in DOMAIN heap
            /\ item \notin instances /\ item \notin devices
            /\ heap[item].dev \in devices
            /\ heap[heap[item].dev].handle = d
      BY <1>2 DEF LInv, Lists, SwapchainsOK, InstancesOK, DevicesOK, Items, d
    <3>3. Taken(t)' \subseteq DOMAIN heap' \ (instances' \cup devices' \cup swapchains')
      BY <1>5, <3>1, <3>2
    <3> QED BY <1>4, <1>5, <1>6, <1>7, <3>2, <3>3 DEF TakenClaim
  <2>3. InstanceClaim(t)' /\ ItemClaim(t)'
    BY <1>6 DEF InstanceClaim, ItemClaim
  <2> QED BY <2>1, <2>2, <2>3 DEF Claims
<1>13. ASSUME NEW u \in Threads, u # t PROVE Claims(u)' /\ Apart(t, u)'
  <2>1. Claims(u)
    BY DEF LInv
  <2>2. OwnsSwapchain(u) => loc[u].swap # s
    BY <2>1 DEF Claims, SwapchainClaim
  <2>3. Apart(t, u)'
    <3>1. Taken(t)' \subseteq swapchains
      BY <1>2, <1>4, <1>6 DEF Taken
    <3>2. Taken(u)' = Taken(u)
      BY <1>6, <1>13 DEF Taken
    <3>3. Taken(u) \cap swapchains = {}
      BY <2>1 DEF Claims, TakenClaim
    <3> QED BY <1>4, <1>6, <1>13, <2>2, <3>1, <3>2, <3>3 DEF Apart, Presenting
  <2>4. UsesInstance(u) => loc[u].inst \in held' /\ loc[u].ptr \in instances'
    BY <1>5, <1>9, <2>1 DEF Claims, InstanceClaim
  <2>5. UsesDevice(u) => loc[u].dev \in held' /\ loc[u].ptr \in devices'
    BY <1>5, <1>9, <2>1 DEF Claims, DeviceClaim
  <2>d. pc[u] # "idle" => loc[u].swap # s
    BY <1>1, NotInUse
  <2>6. UsesItem(u) => loc[u].item \in swapchains'
    BY <1>2, <1>5, <2>1, <2>d DEF Claims, ItemClaim
  <2>7. pc[u] \in Presenting => loc[u].swap \in held'
    BY <1>5, <2>1, <2>d DEF Claims, SwapchainClaim, Presenting
  <2>8. pc[u] = "destroy_swapchain" =>
          /\ loc[u].dev \in held'
          /\ loc[u].item # 0 => heap[loc[u].item].dev \in devices'
    BY <1>5, <1>9, <2>1 DEF Claims, DeviceClaim, TakenClaim
  <2>9. Taken(u) \subseteq DOMAIN heap'
    BY <1>5, <2>1 DEF Claims, TakenClaim
  <2>10. Items' = Items \cap DOMAIN heap'
    BY <1>5, <1>7 DEF Items
  <2>11. \A x \in DOMAIN driver \ {s} : x \in DOMAIN driver' /\ driver'[x] = driver[x]
    BY <1>5
  <2>12. /\ OwnsInstance(u) => loc[u].inst \notin {s}
         /\ OwnsDevice(u) => loc[u].dev \notin {s}
         /\ OwnsSwapchain(u) => loc[u].swap \notin {s}
         /\ {s} \cap held' = {}
    BY <1>5, <2>1, <2>2, LayerAssumption
       DEF Claims, InstanceClaim, DeviceClaim
  <2>13. /\ instances' \subseteq instances /\ instances' \subseteq DOMAIN heap'
         /\ devices' \subseteq devices /\ devices' \subseteq DOMAIN heap'
         /\ swapchains' \subseteq swapchains /\ swapchains' \subseteq DOMAIN heap'
         /\ held' \subseteq held /\ DOMAIN heap' \subseteq DOMAIN heap
         /\ \A a \in DOMAIN heap' : heap'[a] = heap[a]
         /\ pc'[u] = pc[u] /\ loc'[u] = loc[u]
    BY <1>5, <1>6, <1>13
       DEF LInv, Lists, InstancesOK, DevicesOK, SwapchainsOK, Items
  <2> HIDE DEF UsesInstance, UsesDevice, UsesItem, OwnsInstance, OwnsDevice,
               OwnsSwapchain
  <2>14. Claims(u)'
    BY <2>4, <2>5, <2>6, <2>7, <2>8, <2>9, <2>10, <2>11, <2>12, <2>13,
       OthersShrink
  <2> QED BY <2>3, <2>14
<1> QED BY <1>4, <1>5, <1>6, <1>7, <1>8, <1>10, <1>11, <1>12, <1>13, Assembled

\* An item changes and stays what it is: a swapchain's, of its device.
LEMMA ItemSet ==
    ASSUME LInv, NEW i \in Items, NEW r \in Item,
           r.handle = heap[i].handle, r.dev = heap[i].dev,
           heap' = [heap EXCEPT ![i] = r],
           UNCHANGED <<driver, held, next, registry>>
    PROVE  /\ HeapOK' /\ DriverOK' /\ Lists' /\ Items' = Items
           /\ heap'[i] = r /\ \A a \in Items : a # i => heap'[a] = heap[a]
           /\ \A u \in Threads :
                /\ pc'[u] = pc[u] /\ loc'[u] = loc[u]
                /\ pc[u] = "overlay" /\ loc[u].item = i => ~r.disabled
                => Claims(u)'
<1>1. /\ HeapOK'
      /\ DOMAIN heap' = DOMAIN heap
      /\ heap'[i] = r
      /\ \A a \in DOMAIN heap : a # i => heap'[a] = heap[a]
      /\ \A a \in DOMAIN heap : heap'[a].handle = heap[a].handle
      /\ \A a \in Items : heap'[a].dev = heap[a].dev
      /\ Items' = Items
  BY HeapChanges DEF LInv, Types
<1>2. DriverOK'
  BY DEF LInv, Types, DriverOK
<1>3. /\ instances \subseteq DOMAIN heap /\ devices \subseteq DOMAIN heap
      /\ swapchains \subseteq DOMAIN heap /\ swapchains \subseteq Items
  BY DEF LInv, Lists, InstancesOK, DevicesOK, SwapchainsOK, Items
<1>4. Lists'
  <2>1. InstancesOK' /\ DevicesOK'
    BY <1>1, <1>3 DEF LInv, Lists, InstancesOK, DevicesOK, registry
  <2>2. PhysicalsOK'
    BY <1>1, <1>3 DEF LInv, Lists, PhysicalsOK, registry
  <2>3. QueuesOK'
    <3>1. \A q \in queues : heap'[q.dev].handle = heap[q.dev].handle
      BY <1>1, <1>3 DEF LInv, Lists, QueuesOK
    <3> QED BY <3>1 DEF LInv, Lists, QueuesOK, registry
  <2>4. SwapchainsOK'
    <3>1. \A a \in swapchains :
            /\ heap'[a].handle = heap[a].handle /\ heap'[a].dev = heap[a].dev
            /\ heap'[heap[a].dev].handle = heap[heap[a].dev].handle
      BY <1>1, <1>3 DEF LInv, Lists, SwapchainsOK
    <3> QED BY <1>1, <3>1 DEF LInv, Lists, SwapchainsOK, registry
  <2>5. HeldOK'
    BY DEF LInv, Lists, HeldOK
  <2> QED BY <2>1, <2>2, <2>3, <2>4, <2>5 DEF Lists
<1>5. ASSUME NEW u \in Threads, pc'[u] = pc[u], loc'[u] = loc[u],
             pc[u] = "overlay" /\ loc[u].item = i => ~r.disabled
      PROVE  Claims(u)'
  <2>1. Claims(u)
    BY DEF LInv
  <2>2. InstanceClaim(u)' /\ DeviceClaim(u)'
    BY <1>1, <1>3, <1>5, <2>1 DEF Claims, InstanceClaim, DeviceClaim, registry
  <2>3. SwapchainClaim(u)'
    BY <1>5, <2>1 DEF Claims, SwapchainClaim
  <2>4. ItemClaim(u)'
    BY <1>1, <1>3, <1>5, <2>1 DEF Claims, ItemClaim, registry
  <2>5. TakenClaim(u)'
    <3>1. /\ Taken(u)' = Taken(u)
          /\ pc[u] = "destroy_swapchain" /\ loc[u].item # 0 =>
               /\ loc[u].item \in Items
               /\ heap[heap[loc[u].item].dev].handle = loc[u].dev
               /\ heap[loc[u].item].dev \in devices
      BY <1>5, <2>1 DEF Taken, Claims, TakenClaim
    <3> QED BY <1>1, <1>3, <1>5, <2>1, <3>1 DEF Claims, TakenClaim, registry
  <2> QED BY <2>2, <2>3, <2>4, <2>5 DEF Claims
<1> QED BY <1>1, <1>2, <1>4, <1>5 DEF Items

\* A present goes on after it has changed its item.
LEMMA PresentSets ==
    ASSUME LInv, NEW t \in Threads, NEW i \in Items, NEW x \in Item,
           pc[t] \in Presenting, i \in swapchains, heap[i].handle = loc[t].swap,
           x.handle = heap[i].handle, x.dev = heap[i].dev,
           heap' = [heap EXCEPT ![i] = x],
           UNCHANGED <<driver, held, next, registry>>,
           NEW l \in {"find_item", "forward"}, NEW r \in LocT, Goto(t, l, r),
           r.swap = loc[t].swap, r.dev = loc[t].dev, r.ptr = loc[t].ptr,
           r.image = loc[t].image
    PROVE  LInv'
<1>1. /\ HeapOK' /\ DriverOK' /\ Lists'
      /\ \A u \in Threads :
           /\ pc'[u] = pc[u] /\ loc'[u] = loc[u]
           /\ pc[u] = "overlay" /\ loc[u].item = i => ~x.disabled
           => Claims(u)'
  BY ItemSet
<1>2. /\ l \in Labels /\ ~OwnsDevice(t)
      /\ pc'[t] = l /\ loc'[t] = r
      /\ \A u \in Threads : u # t => pc'[u] = pc[u] /\ loc'[u] = loc[u]
      /\ \A u \in Threads : u # t => Apart(t, u)'
  BY PresentMoves DEF Presenting
<1>3. ASSUME NEW u \in Threads, u # t PROVE Claims(u)'
  <2>1. Apart(t, u) /\ Claims(u)
    BY <1>3 DEF LInv
  <2>2. ~(pc[u] = "overlay" /\ loc[u].item = i)
    BY <2>1 DEF Apart, Claims, ItemClaim, Presenting
  <2> QED BY <1>1, <1>2, <1>3, <2>2
<1>4. Claims(t)'
  <2>1. Claims(t)
    BY DEF LInv
  <2>2. InstanceClaim(t)' /\ TakenClaim(t)' /\ ItemClaim(t)'
    BY <1>2 DEF InstanceClaim, TakenClaim, Taken, ItemClaim
  <2>3. /\ loc[t].dev \in held \cap Devices
        /\ loc[t].ptr \in devices /\ heap[loc[t].ptr].handle = loc[t].dev
    BY <2>1 DEF Claims, DeviceClaim
  <2>4. heap'[loc[t].ptr].handle = loc[t].dev
    <3>1. loc[t].ptr \in DOMAIN heap
      BY <2>3 DEF LInv, Lists, DevicesOK
    <3> QED BY <2>3, <3>1
  <2>5. DeviceClaim(t)'
    BY <1>2, <2>3, <2>4 DEF DeviceClaim, registry
  <2>6. SwapchainClaim(t)'
    BY <1>2, <2>1 DEF Claims, SwapchainClaim, Presenting
  <2> QED BY <2>2, <2>5, <2>6 DEF Claims
<1>5. Accounted'
  BY <1>2 DEF LInv, Accounted
<1> QED BY <1>1, <1>2, <1>3, <1>4, <1>5, Assembled

\* The steps that change an item.
LEMMA DrawResourcesStep ==
    ASSUME LInv, NEW t \in Threads, DrawResources(t) PROVE LInv'
<1> DEFINE item == Found(swapchains, loc[t].swap)
<1>1. /\ pc[t] = "draw_resources" /\ pc[t] \in Presenting
      /\ UNCHANGED <<driver, held, next, registry>>
      /\ Goto(t, "find_item", loc[t]) /\ loc[t] \in LocT
  BY DEF DrawResources, Presenting, LInv, Types, LocOK
<1>2. CASE UNCHANGED heap
  <2>1. /\ "find_item" \in Labels /\ ~OwnsDevice(t) /\ pc'[t] = "find_item"
        /\ loc'[t] = loc[t] /\ \A u \in Threads : u # t => Apart(t, u)'
    BY <1>1, PresentMoves DEF Presenting
  <2>2. ItemClaim(t)'
    BY <2>1 DEF ItemClaim
  <2>3. Claims(t)'
    BY <1>1, <1>2, <2>1, <2>2, PresentClaims DEF Presenting
  <2> QED BY <1>1, <1>2, <2>1, <2>3, Quiet
<1>3. ASSUME item # 0, NEW outcome \in {"ready", "failed"},
             heap' = [heap EXCEPT ![item].draw = outcome]
      PROVE  LInv'
  <2>1. item \in swapchains /\ heap[item].handle = loc[t].swap
    BY <1>3, FoundSwapchain
  <2>2. item \in Items /\ heap[item] \in Item
    BY <2>1, ItemType DEF LInv, Types, Lists, SwapchainsOK
  <2> DEFINE x == [heap[item] EXCEPT !.draw = outcome]
  <2>3. heap' = [heap EXCEPT ![item] = x]
    BY <1>3
  <2> HIDE DEF item
  <2>4. x \in Item /\ x.handle = heap[item].handle /\ x.dev = heap[item].dev
    BY <2>2 DEF Item, Draw
  <2> HIDE DEF x
  <2> QED BY <1>1, <2>1, <2>2, <2>3, <2>4, PresentSets
<1> QED BY <1>2, <1>3 DEF DrawResources, Drawable

\* A thread in the overlay has an item, in the list and not disabled.
LEMMA OverlayItem ==
    ASSUME LInv, NEW t \in Threads, pc[t] = "overlay"
    PROVE  /\ loc[t].item \in swapchains /\ loc[t].item \in Items
           /\ heap[loc[t].item].handle = loc[t].swap
           /\ heap[loc[t].item] \in Item /\ ~heap[loc[t].item].disabled
           /\ loc[t].image \in Images /\ pc[t] \in Presenting
           /\ loc[t] \in LocT
<1>1. Claims(t)
  BY DEF LInv
<1>2. /\ loc[t].item \in swapchains /\ loc[t].item \in Items
      /\ heap[loc[t].item].handle = loc[t].swap
      /\ ~heap[loc[t].item].disabled
      /\ loc[t].image \in Images /\ pc[t] \in Presenting
  BY <1>1 DEF Claims, ItemClaim, SwapchainClaim, Presenting, LInv, Lists,
              SwapchainsOK
<1> QED BY <1>2, ItemType DEF LInv, Types, LocOK

\* What an overlay that was submitted makes of its item.
Drawn(item, m) == [item EXCEPT !.fence[m] = "pending", !.uploaded = TRUE,
                               !.atlas = @ \/ ~item.uploaded]

LEMMA OverlayEffect ==
    ASSUME LInv, NEW t \in Threads, Overlay(t)
    PROVE  /\ heap' = [heap EXCEPT ![loc[t].item] =
                                     Drawn(heap[loc[t].item], loc[t].image)]
           /\ Drawn(heap[loc[t].item], loc[t].image) \in Item
<1> DEFINE i == loc[t].item
           m == loc[t].image
           x == heap[i]
<1>1. i \in DOMAIN heap /\ x \in Item /\ m \in Images
  BY OverlayItem DEF Overlay, Items
<1>2. heap' = [heap EXCEPT ![i] = Drawn(x, m)]
  BY <1>1 DEF Overlay, Drawn, Item
<1> HIDE DEF i, m, x
<1>3. Drawn(x, m) \in Item
  <2>1. (x.atlas \/ ~x.uploaded) \in BOOLEAN
    OBVIOUS
  <2>2. [x.fence EXCEPT ![m] = "pending"] \in [Images -> Fence]
    BY <1>1 DEF Item, Fence
  <2> QED BY <1>1, <2>1, <2>2 DEF Drawn, Item
<1> QED BY <1>2, <1>3 DEF i, m, x

LEMMA OverlayStep ==
    ASSUME LInv, NEW t \in Threads, Overlay(t) PROVE LInv'
<1> DEFINE i == loc[t].item
           x == Drawn(heap[i], loc[t].image)
           r == [loc[t] EXCEPT !.replaced = TRUE, !.waits = @ + 1]
<1>1. /\ pc[t] = "overlay" /\ Goto(t, "forward", r)
      /\ UNCHANGED <<driver, held, next, registry>>
  BY DEF Overlay
<1>2. /\ i \in swapchains /\ i \in Items /\ heap[i].handle = loc[t].swap
      /\ heap[i] \in Item /\ pc[t] \in Presenting /\ loc[t] \in LocT
  BY <1>1, OverlayItem
<1>3. heap' = [heap EXCEPT ![i] = x] /\ x \in Item
  BY OverlayEffect
<1>4. x.handle = heap[i].handle /\ x.dev = heap[i].dev
  BY <1>2 DEF Drawn, Item
<1>5. /\ r \in LocT /\ r.swap = loc[t].swap /\ r.dev = loc[t].dev
      /\ r.ptr = loc[t].ptr /\ r.image = loc[t].image
  <2> DEFINE w == loc[t].waits + 1
             b == TRUE
  <2>1. w \in Nat /\ b \in BOOLEAN
    BY <1>2 DEF LocT
  <2>2. r = [loc[t] EXCEPT !.replaced = b, !.waits = w]
    OBVIOUS
  <2> HIDE DEF w, b, r
  <2> QED BY <1>2, <2>1, <2>2 DEF LocT
<1> HIDE DEF i, x, r
<1> QED BY <1>1, <1>2, <1>3, <1>4, <1>5, PresentSets

\* What an overlay that failed makes of its item.
LEMMA OverlayFailsEffect ==
    ASSUME LInv, NEW t \in Threads, OverlayFails(t)
    PROVE  \E far \in Progress :
             LET x == [Failed(heap[loc[t].item], loc[t].image, far)
                          EXCEPT !.disabled = TRUE] IN
             /\ heap' = [heap EXCEPT ![loc[t].item] = x]
             /\ x \in Item /\ x.handle = heap[loc[t].item].handle
             /\ x.dev = heap[loc[t].item].dev /\ x.disabled
             /\ x.atlas = heap[loc[t].item].atlas
             /\ \A m \in Images : x.fence[m] = "pending" =>
                    heap[loc[t].item].fence[m] = "pending"
<1> DEFINE i == loc[t].item
           m == loc[t].image
           y == heap[i]
<1>1. i \in DOMAIN heap /\ y \in Item /\ m \in Images
  BY OverlayItem DEF OverlayFails, Items
<1>2. PICK far \in Progress :
        heap' = [heap EXCEPT ![i] = [Failed(y, m, far) EXCEPT !.disabled = TRUE]]
  BY DEF OverlayFails
<1> DEFINE x == [Failed(y, m, far) EXCEPT !.disabled = TRUE]
<1> HIDE DEF i, m, y
<1>3. /\ x \in Item /\ x.handle = y.handle /\ x.dev = y.dev /\ x.disabled
      /\ x.atlas = y.atlas
      /\ x.fence = [y.fence EXCEPT ![m] = IF far.reset THEN "reset" ELSE @]
  <2>2. (y.uploaded \/ far.recorded) \in BOOLEAN
    OBVIOUS
  <2>3. [y.fence EXCEPT ![m] = IF far.reset THEN "reset" ELSE @]
          \in [Images -> Fence]
    BY <1>1 DEF Item, Fence
  <2> QED BY <1>1, <2>2, <2>3 DEF Failed, Item
<1>4. \A n \in Images : x.fence[n] = "pending" => y.fence[n] = "pending"
  BY <1>1, <1>3 DEF Item
<1> QED BY <1>2, <1>3, <1>4 DEF i, m, y

LEMMA OverlayFailsStep ==
    ASSUME LInv, NEW t \in Threads, OverlayFails(t) PROVE LInv'
<1>1. /\ pc[t] = "overlay" /\ Goto(t, "forward", loc[t])
      /\ UNCHANGED <<driver, held, next, registry>>
  BY DEF OverlayFails
<1>2. /\ loc[t].item \in swapchains /\ loc[t].item \in Items
      /\ heap[loc[t].item].handle = loc[t].swap
      /\ pc[t] \in Presenting /\ loc[t] \in LocT
  BY <1>1, OverlayItem
<1>3. PICK x \in Item :
        /\ heap' = [heap EXCEPT ![loc[t].item] = x]
        /\ x.handle = heap[loc[t].item].handle /\ x.dev = heap[loc[t].item].dev
  BY OverlayFailsEffect
<1> QED BY <1>1, <1>2, <1>3, PresentSets

\* What the GPU makes of it.
LEMMA GpuEffect ==
    ASSUME LInv, GpuDone
    PROVE  \E a \in Items : \E m \in Images :
             LET x == [heap[a] EXCEPT !.fence[m] = "signalled"] IN
             /\ heap' = [heap EXCEPT ![a] = x]
             /\ x \in Item /\ x.handle = heap[a].handle /\ x.dev = heap[a].dev
             /\ x.disabled = heap[a].disabled /\ x.uploaded = heap[a].uploaded
             /\ x.atlas = heap[a].atlas
             /\ \A n \in Images : \/ x.fence[n] = heap[a].fence[n]
                                  \/ x.fence[n] = "signalled"
<1>1. PICK a \in DOMAIN heap : \E m \in Images :
        /\ "fence" \in DOMAIN heap[a] /\ heap[a].fence[m] = "pending"
        /\ heap' = [heap EXCEPT ![a].fence[m] = "signalled"]
  BY DEF GpuDone
<1>2. PICK m \in Images :
        /\ "fence" \in DOMAIN heap[a] /\ heap[a].fence[m] = "pending"
        /\ heap' = [heap EXCEPT ![a].fence[m] = "signalled"]
  BY <1>1
<1>3. a \in Items /\ heap[a] \in Item
  BY <1>2, ItemType DEF Items, LInv, Types
<1> DEFINE x == [heap[a] EXCEPT !.fence[m] = "signalled"]
<1>4. heap' = [heap EXCEPT ![a] = x]
  BY <1>2
<1>5. [heap[a].fence EXCEPT ![m] = "signalled"] \in [Images -> Fence]
  BY <1>3 DEF Item, Fence
<1>6. /\ x \in Item /\ x.handle = heap[a].handle /\ x.dev = heap[a].dev
      /\ x.disabled = heap[a].disabled /\ x.uploaded = heap[a].uploaded
      /\ x.atlas = heap[a].atlas
      /\ x.fence = [heap[a].fence EXCEPT ![m] = "signalled"]
  BY <1>3, <1>5 DEF Item
<1>7. \A n \in Images : \/ x.fence[n] = heap[a].fence[n]
                        \/ x.fence[n] = "signalled"
  BY <1>3, <1>6 DEF Item
<1> QED BY <1>2, <1>3, <1>4, <1>6, <1>7

LEMMA GpuDoneStep == ASSUME LInv, GpuDone PROVE LInv'
<1>1. UNCHANGED <<driver, held, next, registry, pc, loc>>
  BY DEF GpuDone
<1>2. PICK a \in Items, x \in Item :
        /\ heap' = [heap EXCEPT ![a] = x]
        /\ x.handle = heap[a].handle /\ x.dev = heap[a].dev
        /\ x.disabled = heap[a].disabled
  BY GpuEffect
<1>3. /\ HeapOK' /\ DriverOK' /\ Lists'
      /\ \A u \in Threads :
           /\ pc'[u] = pc[u] /\ loc'[u] = loc[u]
           /\ pc[u] = "overlay" /\ loc[u].item = a => ~x.disabled
           => Claims(u)'
  BY <1>1, <1>2, ItemSet
<1>4. ASSUME NEW u \in Threads PROVE Claims(u)'
  <2>1. pc[u] = "overlay" /\ loc[u].item = a => ~x.disabled
    BY <1>2 DEF LInv, Claims, ItemClaim
  <2> QED BY <1>1, <1>3, <2>1
<1>5. LocOK' /\ Accounted'
  BY <1>1 DEF LInv, Types, LocOK, Accounted
<1>6. \A t, u \in Threads : t # u => Apart(t, u)'
  BY <1>1 DEF LInv, Apart, Taken
<1> QED BY <1>3, <1>4, <1>5, <1>6 DEF LInv, Types

\* The invariant at the start, and over every step.
LEMMA LayerInit == Init => LInv /\ Overlays /\ Semaphores
<1> SUFFICES ASSUME Init PROVE LInv /\ Overlays /\ Semaphores
  OBVIOUS
<1>1. DOMAIN driver = {} /\ DOMAIN heap = {} /\ Items = {}
  BY DEF Init, Items
<1>2. LocOK
  BY IdleType DEF Init, LocOK, Labels
<1>3. HeapOK /\ DriverOK
  BY <1>1 DEF Init, HeapOK, DriverOK
<1>4. Lists
  BY <1>1 DEF Init, Lists, InstancesOK, PhysicalsOK, DevicesOK, QueuesOK,
              SwapchainsOK, HeldOK
<1>5. Accounted
  BY <1>1 DEF Accounted
<1>6. \A t \in Threads : pc[t] = "idle"
  BY DEF Init
<1>7. \A t \in Threads : Claims(t)
  BY <1>6 DEF Claims, InstanceClaim, DeviceClaim, SwapchainClaim, ItemClaim,
              TakenClaim, Taken, Presenting
<1>8. \A t, u \in Threads : t # u => Apart(t, u)
  BY <1>6 DEF Apart, Taken, Presenting
<1>9. Overlays /\ Semaphores
  BY <1>1, <1>6 DEF Overlays, Semaphores, Waited
<1> QED BY <1>2, <1>3, <1>4, <1>5, <1>7, <1>8, <1>9 DEF LInv, Types

LEMMA LayerStutter == ASSUME LInv, UNCHANGED vars PROVE LInv'
<1>1. UNCHANGED <<driver, held, heap, next, registry, pc, loc>>
  BY DEF vars, registry
<1>2. HeapOK' /\ Items' = Items
  BY <1>1, HeapKept DEF LInv, Types
<1>3. DriverOK' /\ LocOK' /\ Accounted'
  BY <1>1 DEF LInv, Types, DriverOK, LocOK, Accounted
<1>4. InstancesOK' /\ DevicesOK'
  BY <1>1, <1>2 DEF LInv, Lists, InstancesOK, DevicesOK, registry
<1>5. PhysicalsOK' /\ QueuesOK' /\ HeldOK'
  BY <1>1 DEF LInv, Lists, PhysicalsOK, QueuesOK, HeldOK, registry
<1>6. SwapchainsOK'
  BY <1>1, <1>2 DEF LInv, Lists, SwapchainsOK, registry
<1>7. ASSUME NEW t \in Threads PROVE Claims(t)'
  <2>1. Claims(t)
    BY DEF LInv
  <2>2. InstanceClaim(t)' /\ DeviceClaim(t)' /\ SwapchainClaim(t)'
    BY <1>1, <2>1 DEF Claims, InstanceClaim, DeviceClaim, SwapchainClaim, registry
  <2>3. ItemClaim(t)' /\ TakenClaim(t)'
    BY <1>1, <1>2, <2>1 DEF Claims, ItemClaim, TakenClaim, Taken, registry
  <2> QED BY <2>2, <2>3 DEF Claims
<1>8. \A t, u \in Threads : t # u => Apart(t, u)'
  BY <1>1 DEF LInv, Apart, Taken
<1> QED BY <1>2, <1>3, <1>4, <1>5, <1>6, <1>7, <1>8 DEF LInv, Types, Lists

LEMMA LayerStep == ASSUME LInv, [Next]_vars PROVE LInv'
<1>1. ASSUME NEW t \in Threads, Thread(t) PROVE LInv'
  BY <1>1, CreateInstanceStep, AddInstanceStep, UndoInstanceStep,
     RemoveInstanceStep, FindPhysicalStep, CreateDeviceStep, AddDeviceStep,
     UndoDeviceStep, RemoveDeviceStep, FreeDeviceStep, DestroyDeviceStep,
     FindDeviceStep, CreateSwapchainStep, AddSwapchainStep, TakeSwapchainStep,
     DestroySwapchainStep, PresentStep, DrawResourcesStep, FindItemStep,
     CheckStep, OverlayStep, OverlayFailsStep, ForwardStep, PresentedStep
     DEF Thread
<1> QED BY <1>1, GpuDoneStep, LayerStutter DEF Next

\* Only an overlay, and the GPU, touch what Sound is about.
LEMMA OverlaysStep == ASSUME LInv, Overlays, [Next]_vars PROVE Overlays'
<1> DEFINE Kept == \A a \in Items' : \/ a \in Items /\ heap'[a] = heap[a]
                                     \/ Sound(heap'[a])
<1>1. ASSUME Kept PROVE Overlays'
  BY <1>1 DEF Overlays, Sound
<1> HIDE DEF Kept
<1>2. ASSUME UNCHANGED heap PROVE Overlays'
  BY <1>2 DEF Overlays, Items, Sound
<1>3. ASSUME NEW gone, heap' = Without(heap, gone) PROVE Overlays'
  BY <1>1, <1>3 DEF Kept, Items, Without, Restrict
<1>4. ASSUME NEW t \in Threads, AddInstance(t) PROVE Overlays'
  <2>1. [handle |-> loc[t].inst] \in Plain
    BY <1>4 DEF AddInstance, LInv, Claims, InstanceClaim, Plain
  <2>2. /\ DOMAIN heap' = DOMAIN heap \cup {next} /\ Items' = Items
        /\ \A a \in DOMAIN heap : heap'[a] = heap[a]
    BY <1>4, <2>1, PlainNotItem, HeapGrows DEF AddInstance, LInv, Types
  <2> QED BY <1>1, <2>2 DEF Kept, Items
<1>5. ASSUME NEW t \in Threads, AddDevice(t) PROVE Overlays'
  <2>1. [handle |-> loc[t].dev] \in Plain
    BY <1>5 DEF AddDevice, LInv, Claims, DeviceClaim, Plain
  <2>2. /\ DOMAIN heap' = DOMAIN heap \cup {next} /\ Items' = Items
        /\ \A a \in DOMAIN heap : heap'[a] = heap[a]
    BY <1>5, <2>1, PlainNotItem, HeapGrows DEF AddDevice, LInv, Types
  <2> QED BY <1>1, <2>2 DEF Kept, Items
<1>6. ASSUME NEW t \in Threads, AddSwapchain(t) PROVE Overlays'
  <2>1. CASE UNCHANGED heap
    BY <1>2, <2>1
  <2>2. CASE heap' = With(heap, next, NewItem(t)) /\ next' = next + 1
    <3>1. NewItem(t) \in Item
      <4>1. loc[t].swap \in Swapchains /\ loc[t].ptr \in Nat
        BY <1>6 DEF AddSwapchain, LInv, Claims, SwapchainClaim, Types, LocOK, LocT
      <4> QED BY <4>1 DEF NewItem, Item, Draw, Fence
    <3>2. /\ Items' = Items \cup {next} /\ heap'[next] = NewItem(t)
          /\ \A a \in DOMAIN heap : heap'[a] = heap[a]
      BY <2>2, <3>1, HeapGrows DEF LInv, Types
    <3>3. Sound(NewItem(t))
      BY DEF Sound, NewItem
    <3> QED BY <1>1, <3>2, <3>3 DEF Kept, Items
  <2> QED BY <1>6, <2>1, <2>2 DEF AddSwapchain
<1>7. ASSUME NEW i \in Items, NEW x \in Item, Sound(x),
             heap' = [heap EXCEPT ![i] = x], next' = next,
             x.handle = heap[i].handle, x.dev = heap[i].dev
      PROVE  Overlays'
  <2>1. /\ Items' = Items /\ heap'[i] = x
        /\ \A a \in DOMAIN heap : a # i => heap'[a] = heap[a]
    BY <1>7, HeapChanges DEF LInv, Types
  <2> QED BY <1>1, <1>7, <2>1 DEF Kept, Items
<1>8. ASSUME NEW t \in Threads, DrawResources(t) PROVE Overlays'
  <2> DEFINE item == Found(swapchains, loc[t].swap)
  <2>1. CASE UNCHANGED heap
    BY <1>2, <2>1
  <2>2. ASSUME item # 0, NEW outcome \in {"ready", "failed"},
               heap' = [heap EXCEPT ![item].draw = outcome]
        PROVE  Overlays'
    <3>1. item \in Items /\ heap[item] \in Item
      BY <2>2, FoundSwapchain, ItemType DEF LInv, Types, Lists, SwapchainsOK
    <3> DEFINE x == [heap[item] EXCEPT !.draw = outcome]
    <3>2. heap' = [heap EXCEPT ![item] = x] /\ next' = next
      BY <1>8, <2>2 DEF DrawResources
    <3> HIDE DEF item
    <3>3. /\ x \in Item /\ x.handle = heap[item].handle
          /\ x.dev = heap[item].dev /\ x.fence = heap[item].fence
          /\ (x.disabled <=> heap[item].disabled)
          /\ (x.uploaded <=> heap[item].uploaded)
          /\ (x.atlas <=> heap[item].atlas)
      BY <3>1 DEF Item, Draw
    <3> HIDE DEF x
    <3>4. Sound(x)
      BY <3>1, <3>3 DEF Overlays, Sound
    <3> QED BY <1>7, <3>1, <3>2, <3>3, <3>4
  <2> QED BY <1>8, <2>1, <2>2 DEF DrawResources, Drawable
<1>9. ASSUME NEW t \in Threads, Overlay(t) PROVE Overlays'
  <2> DEFINE i == loc[t].item
             m == loc[t].image
             y == heap[i]
             x == Drawn(y, m)
  <2>1. /\ i \in Items /\ y \in Item /\ ~y.disabled /\ m \in Images
    BY <1>9, OverlayItem DEF Overlay
  <2>2. heap' = [heap EXCEPT ![i] = x] /\ x \in Item /\ next' = next
    BY <1>9, OverlayEffect DEF Overlay
  <2>3. Sound(y)
    BY <2>1 DEF Overlays
  <2> HIDE DEF i, m
  <2>4. /\ x.handle = y.handle /\ x.dev = y.dev
        /\ (x.disabled <=> y.disabled)
        /\ (x.atlas <=> y.atlas \/ ~y.uploaded)
        /\ x.fence = [y.fence EXCEPT ![m] = "pending"]
    BY <2>1 DEF Drawn, Item
  <2>5. \A n \in Images : x.fence[n] # "reset"
    BY <2>1, <2>3, <2>4 DEF Sound, Item
  <2> HIDE DEF x, y
  <2>6. x.atlas
    BY <2>1, <2>3, <2>4 DEF Sound
  <2>7. Sound(x)
    BY <2>5, <2>6 DEF Sound
  <2> QED BY <1>7, <2>1, <2>2, <2>4, <2>7 DEF y
<1>10. ASSUME NEW t \in Threads, OverlayFails(t) PROVE Overlays'
  <2> DEFINE i == loc[t].item
             y == heap[i]
  <2>1. i \in Items /\ Sound(y) /\ next' = next
    BY <1>10, OverlayItem DEF OverlayFails, Overlays
  <2>2. PICK x \in Item :
          /\ heap' = [heap EXCEPT ![i] = x]
          /\ x.handle = y.handle /\ x.dev = y.dev /\ x.disabled
          /\ x.atlas = y.atlas
          /\ \A m \in Images : x.fence[m] = "pending" => y.fence[m] = "pending"
    BY <1>10, OverlayFailsEffect
  <2> HIDE DEF y, i
  <2>3. Sound(x)
    BY <2>1, <2>2 DEF Sound
  <2> QED BY <1>7, <2>1, <2>2, <2>3 DEF y
<1>11. ASSUME GpuDone PROVE Overlays'
  <2>1. PICK a \in Items, x \in Item :
          /\ heap' = [heap EXCEPT ![a] = x]
          /\ x.handle = heap[a].handle /\ x.dev = heap[a].dev
          /\ x.disabled = heap[a].disabled /\ x.uploaded = heap[a].uploaded
          /\ x.atlas = heap[a].atlas
          /\ \A n \in Images : \/ x.fence[n] = heap[a].fence[n]
                               \/ x.fence[n] = "signalled"
    BY <1>11, GpuEffect
  <2>2. next' = next /\ Sound(heap[a])
    BY <1>11 DEF GpuDone, Overlays
  <2>3. Sound(x)
    BY <2>1, <2>2 DEF Sound
  <2> QED BY <1>7, <2>1, <2>2, <2>3
<1>12. ASSUME NEW t \in Threads, Thread(t) PROVE Overlays'
  <2>1. CASE \/ CreateInstance(t) \/ UndoInstance(t) \/ DestroyInstance(t)
             \/ FindPhysical(t) \/ CreateDevice(t) \/ UndoDevice(t)
             \/ RemoveDevice(t) \/ DestroyDevice(t) \/ FindDevice(t)
             \/ CreateSwapchain(t) \/ TakeSwapchain(t) \/ Present(t)
             \/ FindItem(t) \/ Check(t) \/ Forward(t) \/ Presented(t)
    <3>1. UNCHANGED heap
      BY <2>1 DEF CreateInstance, UndoInstance, DestroyInstance, FindPhysical,
           CreateDevice, UndoDevice, RemoveDevice, DestroyDevice, FindDevice,
           CreateSwapchain, TakeSwapchain, Present, FindItem, Check, Forward,
           Presented
    <3> QED BY <1>2, <3>1
  <2>2. CASE RemoveInstance(t) \/ FreeDevice(t) \/ DestroySwapchain(t)
    BY <1>3, <2>2 DEF RemoveInstance, FreeDevice, DestroySwapchain
  <2> QED BY <1>4, <1>5, <1>6, <1>8, <1>9, <1>10, <1>12, <2>1, <2>2 DEF Thread
<1>13. CASE UNCHANGED vars
  BY <1>2, <1>13 DEF vars
<1> QED BY <1>11, <1>12, <1>13 DEF Next

\* Who waits for the game's semaphores, over every step.
LEMMA SemaphoresStep == ASSUME LInv, Semaphores, [Next]_vars PROVE Semaphores'
<1>1. ASSUME NEW t \in Threads, Waited(t)',
             \A u \in Threads : u # t => pc'[u] = pc[u] /\ loc'[u] = loc[u]
      PROVE  Semaphores'
  BY <1>1 DEF Semaphores, Waited
<1>2. ASSUME NEW t \in Threads, NEW l, NEW r, Goto(t, l, r)
      PROVE  /\ pc'[t] = l /\ loc'[t] = r
             /\ \A u \in Threads : u # t => pc'[u] = pc[u] /\ loc'[u] = loc[u]
  BY <1>2 DEF Goto, LInv, Types, LocOK
<1>3. ASSUME NEW t \in Threads, NEW l, NEW r, Goto(t, l, r), l \notin Presenting
      PROVE  Semaphores'
  <2>1. Waited(t)'
    BY <1>2, <1>3 DEF Waited, Presenting
  <2> QED BY <1>1, <1>2, <1>3, <2>1
<1>4. ASSUME NEW t \in Threads, Thread(t) PROVE Semaphores'
  <2>1. Waited(t) /\ loc[t] \in LocT
    BY DEF Semaphores, LInv, Types, LocOK
  <2>2. CASE \/ AddInstance(t) \/ UndoInstance(t) \/ DestroyInstance(t)
             \/ AddDevice(t) \/ UndoDevice(t) \/ DestroyDevice(t)
             \/ AddSwapchain(t) \/ DestroySwapchain(t) \/ Presented(t)
    <3>1. Return(t)
      BY <2>2 DEF AddInstance, UndoInstance, DestroyInstance, AddDevice, UndoDevice, DestroyDevice, AddSwapchain, DestroySwapchain, Presented
    <3> QED BY <1>3, <3>1 DEF Return, Presenting
  <2>3. CASE \/ CreateInstance(t) \/ RemoveInstance(t) \/ FindPhysical(t)
             \/ RemoveDevice(t) \/ FreeDevice(t) \/ FindDevice(t)
             \/ TakeSwapchain(t)
    <3>1. \E r, l : Goto(t, l, r) /\ l \notin Presenting
      <4>1. CASE CreateInstance(t)
        BY <4>1 DEF CreateInstance, Presenting
      <4>2. CASE RemoveInstance(t)
        BY <4>2 DEF RemoveInstance, Presenting
      <4>3. CASE FindPhysical(t)
        BY <4>3 DEF FindPhysical, Presenting
      <4>4. CASE RemoveDevice(t)
        BY <4>4 DEF RemoveDevice, Presenting
      <4>5. CASE FreeDevice(t)
        BY <4>5 DEF FreeDevice, Presenting
      <4>6. CASE FindDevice(t)
        BY <4>6 DEF FindDevice, Presenting
      <4>7. CASE TakeSwapchain(t)
        BY <4>7 DEF TakeSwapchain, Presenting
      <4> QED BY <2>3, <4>1, <4>2, <4>3, <4>4, <4>5, <4>6, <4>7
    <3> QED BY <1>3, <3>1
  <2>4. CASE CreateDevice(t) \/ CreateSwapchain(t)
    <3>1. \/ Return(t)
          \/ \E r, l : Goto(t, l, r) /\ l \notin Presenting
      <4>1. CASE CreateDevice(t)
        <5>1. \/ Return(t)
              \/ \E d \in Devices :
                   Goto(t, "add_device", [loc[t] EXCEPT !.dev = d])
          BY <4>1 DEF CreateDevice
        <5>2. "add_device" \notin Presenting
          BY DEF Presenting
        <5> QED BY <5>1, <5>2
      <4>2. CASE CreateSwapchain(t)
        <5>1. \/ Return(t)
              \/ \E s, c :
                   Goto(t, "add_swapchain",
                        [loc[t] EXCEPT !.swap = s, !.color = c])
          BY <4>2 DEF CreateSwapchain
        <5>2. "add_swapchain" \notin Presenting
          BY DEF Presenting
        <5> QED BY <5>1, <5>2
      <4> QED BY <2>4, <4>1, <4>2
    <3> QED BY <1>3, <3>1 DEF Return, Presenting
  <2>5. CASE Present(t)
    <3>0. PICK s \in held \cap Swapchains, k \in Queues, m \in Images :
            Goto(t, "draw_resources",
                 [Idle EXCEPT !.dev = driver[s], !.queue = k, !.swap = s,
                              !.image = m,
                              !.ptr = FoundQueue(driver[s], k).dev])
      BY <2>5 DEF Present
    <3> DEFINE r == [Idle EXCEPT !.dev = driver[s], !.queue = k, !.swap = s,
                                 !.image = m,
                                 !.ptr = FoundQueue(driver[s], k).dev]
    <3>1. Goto(t, "draw_resources", r) /\ ~r.replaced /\ r.waits = 0
      BY <3>0 DEF Idle
    <3> HIDE DEF r
    <3>2. Waited(t)'
      BY <1>2, <3>1 DEF Waited
    <3> QED BY <1>1, <1>2, <3>1, <3>2
  <2>6. CASE DrawResources(t) \/ Check(t) \/ OverlayFails(t)
    <3>1. PICK l \in {"find_item", "overlay", "forward"} : Goto(t, l, loc[t])
      BY <2>6 DEF DrawResources, Check, OverlayFails
    <3>2. pc[t] \in {"draw_resources", "check", "overlay"}
      BY <2>6 DEF DrawResources, Check, OverlayFails
    <3>3. Waited(t)'
      BY <1>2, <2>1, <3>1, <3>2 DEF Waited
    <3> QED BY <1>1, <1>2, <3>1, <3>3
  <2>7. CASE FindItem(t)
    <3>1. PICK r : \E l \in {"check", "forward"} :
            /\ Goto(t, l, r) /\ r.replaced = loc[t].replaced
            /\ r.waits = loc[t].waits
      <4>1. CASE Goto(t, "forward", loc[t])
        BY <4>1
      <4>2. CASE ~Goto(t, "forward", loc[t])
        <5> DEFINE queue == FoundQueue(loc[t].dev, loc[t].queue)
                   r == [loc[t] EXCEPT
                           !.item = Found(swapchains, loc[t].swap),
                           !.owner = queue.dev, !.graphics = queue.graphics]
        <5>1. Goto(t, "check", r)
          BY <2>7, <4>2 DEF FindItem
        <5>2. r.replaced = loc[t].replaced /\ r.waits = loc[t].waits
          BY <2>1 DEF LocT
        <5> QED BY <5>1, <5>2
      <4> QED BY <4>1, <4>2
    <3>2. pc[t] = "find_item"
      BY <2>7 DEF FindItem
    <3>3. Waited(t)'
      BY <1>2, <2>1, <3>1, <3>2 DEF Waited
    <3> QED BY <1>1, <1>2, <3>1, <3>3
  <2>8. CASE Overlay(t)
    <3> DEFINE r == [loc[t] EXCEPT !.replaced = TRUE, !.waits = @ + 1]
    <3>1. Goto(t, "forward", r) /\ pc[t] = "overlay"
      BY <2>8 DEF Overlay
    <3>2. r.replaced /\ r.waits = 1
      BY <2>1, <3>1 DEF Waited, LocT
    <3> HIDE DEF r
    <3>3. Waited(t)'
      BY <1>2, <3>1, <3>2 DEF Waited
    <3> QED BY <1>1, <1>2, <3>1, <3>3
  <2>9. CASE Forward(t)
    <3> DEFINE r == [loc[t] EXCEPT
                       !.waits = IF loc[t].replaced THEN @ ELSE @ + 1]
    <3>1. Goto(t, "presented", r) /\ pc[t] = "forward"
      BY <2>9 DEF Forward
    <3>2. r.waits = 1
      BY <2>1, <3>1 DEF Waited, LocT
    <3> HIDE DEF r
    <3>3. Waited(t)'
      BY <1>2, <3>1, <3>2 DEF Waited
    <3> QED BY <1>1, <1>2, <3>1, <3>3
  <2> QED BY <1>4, <2>2, <2>3, <2>4, <2>5, <2>6, <2>7, <2>8, <2>9 DEF Thread
<1>5. CASE UNCHANGED vars \/ GpuDone
  <2>1. UNCHANGED <<pc, loc>>
    BY <1>5 DEF vars, GpuDone
  <2> QED BY <2>1 DEF Semaphores, Waited
<1> QED BY <1>4, <1>5 DEF Next

\* Where a thread follows what.
LEMMA FollowsExisting ==
    ASSUME LInv, NEW t \in Threads PROVE Follows(t) \subseteq DOMAIN heap
<1>1. Claims(t)
  BY DEF LInv
<1>2. /\ instances \subseteq DOMAIN heap /\ devices \subseteq DOMAIN heap
      /\ swapchains \subseteq DOMAIN heap
  BY DEF LInv, Lists, InstancesOK, DevicesOK, SwapchainsOK, Items
<1>3. CASE pc[t] \in {"create_device", "add_device", "create_swapchain",
                      "add_swapchain", "draw_resources", "find_item", "forward"}
  <2>1. loc[t].ptr \in DOMAIN heap
    BY <1>1, <1>2, <1>3 DEF Claims, InstanceClaim, DeviceClaim, Presenting
  <2> QED BY <1>3, <2>1 DEF Follows
<1>4. CASE pc[t] \in {"check", "overlay"}
  <2>1. loc[t].ptr \in DOMAIN heap
    BY <1>1, <1>2, <1>4 DEF Claims, DeviceClaim, Presenting
  <2>2. loc[t].item # 0 => loc[t].item \in swapchains
    BY <1>1, <1>4 DEF Claims, ItemClaim
  <2>3. loc[t].item \in Items => heap[loc[t].item].dev \in DOMAIN heap
    <3>1. loc[t].item \in Items => loc[t].item # 0
      BY DEF LInv, Types, HeapOK, Items
    <3> QED BY <1>2, <2>2, <3>1 DEF LInv, Lists, SwapchainsOK
  <2> QED BY <1>2, <1>4, <2>1, <2>2, <2>3 DEF Follows
<1>5. CASE pc[t] = "destroy_swapchain"
  <2>1. loc[t].item # 0 => /\ loc[t].item \in DOMAIN heap
                           /\ heap[loc[t].item].dev \in DOMAIN heap
    BY <1>1, <1>2, <1>5 DEF Claims, TakenClaim, Items
  <2>2. loc[t].item \in Items => loc[t].item # 0
    BY DEF LInv, Types, HeapOK, Items
  <2>3. loc[t].ptr = 0
    BY <1>1, <1>5 DEF Claims, DeviceClaim
  <2> QED BY <1>5, <2>1, <2>2, <2>3 DEF Follows
<1>6. CASE pc[t] = "free_device"
  <2>1. loc[t].items \cup {loc[t].ptr} \subseteq DOMAIN heap
    BY <1>1, <1>6 DEF Claims, TakenClaim, Taken
  <2> QED BY <1>6, <2>1 DEF Follows
<1>7. CASE pc[t] \in {"idle", "add_instance", "destroy_instance",
                      "destroy_device", "presented"}
  BY <1>7 DEF Follows
<1>8. pc[t] \in Labels
  BY DEF LInv, Types, LocOK
<1> QED BY <1>3, <1>4, <1>5, <1>6, <1>7, <1>8 DEF Labels, Presenting

\* The three invariants, together.
LEMMA LayerInvariant == Spec => [](LInv /\ Overlays /\ Semaphores)
<1>1. LInv /\ Overlays /\ Semaphores /\ [Next]_vars
        => (LInv /\ Overlays /\ Semaphores)'
  BY LayerStep, OverlaysStep, SemaphoresStep
<1> QED BY <1>1, LayerInit, PTL DEF Spec

\* vulkan_layer_registry.c:176-217, frame_pacer_layer.c:370-438 and 515-562:
\* no call follows a pointer to a freed instance, device or item, and no list
\* leads to one, although nothing is counted and the lock is dropped between.
THEOREM NothingDangles == Spec => []NoDangling
<1>1. LInv => NoDangling
  BY FollowsExisting
     DEF NoDangling, LInv, Lists, PhysicalsOK, QueuesOK, SwapchainsOK
<1> QED BY <1>1, LayerInvariant, PTL

\* A set with one element has one.
LEMMA OneOf ==
    ASSUME NEW S, NEW x \in S, \A y \in S : y = x PROVE Cardinality(S) = 1
<1>1. S = {x}
  OBVIOUS
<1> QED BY <1>1, FS_Singleton

\* frame_pacer_layer.c:515-562 and 392-438: a handle the driver gives out again
\* is never mistaken for its predecessor, and none is lost.
THEOREM RegistryFindsTheDrivers == Spec => []RegistryMatchesDriver
<1>1. ASSUME LInv PROVE RegistryMatchesDriver
  <2>1. ASSUME NEW d \in held \cap Devices
        PROVE  Cardinality({a \in devices : heap[a].handle = d}) = 1
    <3>1. PICK a \in devices : heap[a].handle = d
      BY <1>1 DEF LInv, Lists, DevicesOK
    <3>2. \A b \in {b \in devices : heap[b].handle = d} : b = a
      BY <1>1, <3>1 DEF LInv, Lists, DevicesOK
    <3> QED BY <3>1, <3>2, OneOf
  <2>2. ASSUME NEW d \in held \cap Devices, NEW k \in Queues
        PROVE  Cardinality({q \in queues : q.handle = <<d, k>>}) = 1
    <3>1. PICK q \in queues : q.handle = <<d, k>>
      BY <1>1 DEF LInv, Lists, QueuesOK
    <3>2. \A r \in {r \in queues : r.handle = <<d, k>>} : r = q
      BY <1>1, <3>1 DEF LInv, Lists, QueuesOK
    <3> QED BY <3>1, <3>2, OneOf
  <2>3. \A d \in DOMAIN driver \cap Devices : d \in held \/ InUse("dev", d)
    BY <1>1 DEF LInv, Accounted, InUse
  <2> QED BY <1>1, <2>1, <2>2, <2>3
          DEF RegistryMatchesDriver, LInv, Lists, SwapchainsOK
<1> QED BY <1>1, LayerInvariant, PTL

\* hud_vulkan_present.c:43-48: no present waits for ever for a fence that an
\* overlay reset and did not submit.
THEOREM FencesSignal == Spec => []FenceWillSignal
<1>1. LInv /\ Overlays => FenceWillSignal
  BY OverlayItem DEF FenceWillSignal, Overlays, Sound
<1> QED BY <1>1, LayerInvariant, PTL

\* hud_vulkan_record.c:66 and 94: no overlay is in flight that samples an atlas
\* nothing has uploaded.
THEOREM AtlasBeforeUse == Spec => []AtlasUploaded
<1>1. Overlays => AtlasUploaded
  BY DEF AtlasUploaded, Overlays, Sound
<1> QED BY <1>1, LayerInvariant, PTL

\* hud_vulkan_present.c:14-22 and 49-51: the game's semaphores are waited for
\* once, by the overlay or by the present.
THEOREM SemaphoresOnce == Spec => []WaitsOnce
<1>1. Semaphores => WaitsOnce
  BY DEF WaitsOnce, Semaphores, Waited
<1> QED BY <1>1, LayerInvariant, PTL
==============================================================================
