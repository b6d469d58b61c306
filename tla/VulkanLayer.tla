----------------------------- MODULE VulkanLayer -----------------------------
(***************************************************************************)
(* The Vulkan layer's registry (vulkan_layer_registry.c), its entry points *)
(* (frame_pacer_layer.c) and the HUD's per-swapchain state                 *)
(* (vulkan_layer_hud.c), as threads of a game call them.                   *)
(*                                                                         *)
(* The game keeps Vulkan's rules of external synchronization and no more:  *)
(* it uses handles it holds, and destroys one, or presents to a queue or a *)
(* swapchain, while no other call uses it.  A handle is free for the       *)
(* driver to give out again the moment the driver has destroyed it.        *)
(* Pointers are addresses that are never given out twice, so that a use    *)
(* after free is a use of an address outside the heap.  The lists are      *)
(* sets; what is found is the newest entry, the first of the list.         *)
(*                                                                         *)
(* Left out: the queues' fallback state, the FPS tracker and the log.      *)
(***************************************************************************)
EXTENDS Integers, FiniteSets, Functions

CONSTANTS
    Threads,                        \* the game's threads
    Instances, Devices, Swapchains, \* the handles the driver gives out
    Queues,                         \* queues of a device
    Images,                         \* images of a swapchain
    Null,
    MaxObjects                      \* bound: allocations

\* A handle is of one kind.
ASSUME LayerAssumption ==
    /\ MaxObjects \in Nat
    /\ Instances \cap Devices = {} /\ Instances \cap Swapchains = {}
    /\ Devices \cap Swapchains = {}
    /\ Null \notin Instances \cup Devices \cup Swapchains

VARIABLES
    driver,       \* the driver's objects: handle -> handle of the parent
    held,         \* handles the game has and has not begun to destroy
    heap,         \* the layer's objects by address
    next,         \* the next address
    instances,    \* registry->instances
    physicals,    \* registry->physical_devices, one for an instance
    devices,      \* registry->devices
    queues,       \* registry->queues
    swapchains,   \* hud->swapchains
    pc, loc       \* per thread: where it is, and its local variables

vars == <<driver, held, heap, next, instances, physicals, devices, queues,
          swapchains, pc, loc>>
registry == <<instances, physicals, devices, queues, swapchains>>

Idle == [inst |-> Null, dev |-> Null, swap |-> Null, image |-> Null,
         queue |-> Null, ptr |-> 0, owner |-> 0, item |-> 0, items |-> {},
         color |-> FALSE, graphics |-> FALSE, replaced |-> FALSE,
         waits |-> 0]

Init ==
    /\ driver = <<>> /\ held = {} /\ heap = <<>> /\ next = 1
    /\ instances = {} /\ physicals = {} /\ devices = {} /\ queues = {}
    /\ swapchains = {}
    /\ pc = [t \in Threads |-> "idle"]
    /\ loc = [t \in Threads |-> Idle]

\* Some call in progress names the handle.
InUse(field, handle) ==
    \E t \in Threads : pc[t] # "idle" /\ loc[t][field] = handle

Goto(t, label, local) ==
    /\ pc' = [pc EXCEPT ![t] = label]
    /\ loc' = [loc EXCEPT ![t] = local]

Return(t) == Goto(t, "idle", Idle)

With(f, x, v) == [y \in DOMAIN f \cup {x} |-> IF y = x THEN v ELSE f[y]]

\* The downstream vkCreate*, and vkDestroy* for a set of handles.
Gives(handle, parent) == /\ handle \notin DOMAIN driver
                         /\ driver' = With(driver, handle, parent)

Without(f, gone) == Restrict(f, DOMAIN f \ gone)

\* The first of the list with this handle, 0 when there is none.
Found(list, handle) ==
    LET match == {a \in list : heap[a].handle = handle} IN
    IF match = {} THEN 0 ELSE CHOOSE a \in match : \A b \in match : b <= a

\* The same for queues, whose handles go with the device's.
FoundQueue(d, k) ==
    LET match == {q \in queues : q.handle = <<d, k>>} IN
    IF match = {} THEN [handle |-> <<d, k>>, dev |-> 0, graphics |-> FALSE]
    ELSE CHOOSE q \in match : \A r \in match : r.dev <= q.dev
----------------------------------------------------------------------------
\* vkCreateInstance up to the downstream call.
CreateInstance(t) ==
    /\ pc[t] = "idle"
    /\ \E i \in Instances :
         /\ Gives(i, Null)
         /\ Goto(t, "add_instance", [Idle EXCEPT !.inst = i])
    /\ UNCHANGED <<held, heap, next, registry>>

\* add_instance and remember_physical_devices, which may remember nothing.
AddInstance(t) ==
    /\ pc[t] = "add_instance" /\ next <= MaxObjects
    /\ heap' = With(heap, next, [handle |-> loc[t].inst])
    /\ next' = next + 1
    /\ instances' = instances \cup {next}
    /\ \E found \in SUBSET {TRUE, FALSE} :
         /\ Cardinality(found) <= 1
         /\ physicals' = physicals \cup
              {[handle |-> loc[t].inst, inst |-> next, graphics |-> g] :
                   g \in found}
    /\ held' = held \cup {loc[t].inst}
    /\ Return(t)
    /\ UNCHANGED <<driver, devices, queues, swapchains>>

\* The bookkeeping of an instance could not be allocated.
UndoInstance(t) ==
    /\ pc[t] = "add_instance"
    /\ driver' = Without(driver, {loc[t].inst})
    /\ Return(t)
    /\ UNCHANGED <<held, heap, next, registry>>

\* vkDestroyInstance: remove_instance and free.
RemoveInstance(t) ==
    /\ pc[t] = "idle"
    /\ \E i \in held \cap Instances :
         /\ ~InUse("inst", i) /\ i \notin Range(driver)
         /\ held' = held \ {i}
         /\ LET item == Found(instances, i) IN
              /\ physicals' = {p \in physicals : p.inst # item}
              /\ instances' = instances \ {item}
              /\ heap' = Without(heap, {item})
         /\ Goto(t, "destroy_instance", [Idle EXCEPT !.inst = i])
    /\ UNCHANGED <<driver, next, devices, queues, swapchains>>

\* vkDestroyInstance's downstream call.
DestroyInstance(t) ==
    /\ pc[t] = "destroy_instance"
    /\ driver' = Without(driver, {loc[t].inst})
    /\ Return(t)
    /\ UNCHANGED <<held, heap, next, registry>>
----------------------------------------------------------------------------
\* vkCreateDevice: the physical device, and the instance, under the lock;
\* both are used after it.  Without one the call fails and nothing changes.
FindPhysical(t) ==
    /\ pc[t] = "idle"
    /\ \E i \in held \cap Instances : \E p \in physicals :
         /\ p.handle = i
         /\ Goto(t, "create_device", [Idle EXCEPT !.inst = i, !.ptr = p.inst,
                                                  !.graphics = p.graphics])
    /\ UNCHANGED <<driver, held, heap, next, registry>>

\* The downstream vkCreateDevice, through the instance's gipa.
CreateDevice(t) ==
    /\ pc[t] = "create_device"
    /\ \/ \E d \in Devices :
            /\ Gives(d, heap[loc[t].ptr].handle)
            /\ Goto(t, "add_device", [loc[t] EXCEPT !.dev = d])
       \/ Return(t) /\ UNCHANGED driver
    /\ UNCHANGED <<held, heap, next, registry>>

\* collect_queues reads the physical device's families; add_device links.
AddDevice(t) ==
    /\ pc[t] = "add_device" /\ next <= MaxObjects
    /\ heap' = With(heap, next, [handle |-> loc[t].dev])
    /\ next' = next + 1
    /\ devices' = devices \cup {next}
    /\ queues' = queues \cup
         {[handle |-> <<loc[t].dev, k>>, dev |-> next,
           graphics |-> loc[t].graphics] : k \in Queues}
    /\ held' = held \cup {loc[t].dev}
    /\ Return(t)
    /\ UNCHANGED <<driver, instances, physicals, swapchains>>

\* The device or a queue could not be registered.
UndoDevice(t) ==
    /\ pc[t] = "add_device"
    /\ driver' = Without(driver, {loc[t].dev})
    /\ Return(t)
    /\ UNCHANGED <<held, heap, next, registry>>

\* Mutant: the HUD keeps the swapchains of the device.
RemoveDevice_keeps_swapchains(t) ==
    /\ pc[t] = "idle"
    /\ \E d \in held \cap Devices :
         /\ ~InUse("dev", d)
         /\ held' = held \ ({d} \cup {s \in DOMAIN driver : driver[s] = d})
         /\ LET item == Found(devices, d) IN
              /\ devices' = devices \ {item}
              /\ queues' = {q \in queues : q.dev # item}
              /\ Goto(t, "free_device",
                      [Idle EXCEPT !.dev = d, !.ptr = item])
    /\ UNCHANGED <<driver, heap, next, instances, physicals, swapchains>>

take_device_swapchains(dev) == {a \in swapchains : heap[a].dev = dev}

\* vkDestroyDevice under the lock: the swapchains the game left behind are
\* taken from the HUD, the device and its queues from the registry.
RemoveDevice(t) ==
    /\ pc[t] = "idle"
    /\ \E d \in held \cap Devices :
         /\ ~InUse("dev", d)
         /\ held' = held \ ({d} \cup {s \in DOMAIN driver : driver[s] = d})
         /\ LET item == Found(devices, d)
                left == take_device_swapchains(item) IN
              /\ swapchains' = swapchains \ left
              /\ devices' = devices \ {item}
              /\ queues' = {q \in queues : q.dev # item}
              /\ Goto(t, "free_device",
                      [Idle EXCEPT !.dev = d, !.ptr = item, !.items = left])
    /\ UNCHANGED <<driver, heap, next, instances, physicals>>

\* destroy_swapchain_list, which needs the device, then free.
FreeDevice(t) ==
    /\ pc[t] = "free_device"
    /\ heap' = Without(heap, loc[t].items \cup {loc[t].ptr})
    /\ Goto(t, "destroy_device", [Idle EXCEPT !.dev = loc[t].dev])
    /\ UNCHANGED <<driver, held, next, registry>>

DestroyDevice(t) ==
    /\ pc[t] = "destroy_device"
    /\ driver' = Without(driver, {loc[t].dev} \cup
                     {s \in DOMAIN driver : driver[s] = loc[t].dev})
    /\ Return(t)
    /\ UNCHANGED <<held, heap, next, registry>>
----------------------------------------------------------------------------
\* vkCreateSwapchainKHR: the device is found under the lock and used after.
FindDevice(t) ==
    /\ pc[t] = "idle"
    /\ \E d \in held \cap Devices :
         Goto(t, "create_swapchain",
              [Idle EXCEPT !.dev = d, !.ptr = Found(devices, d)])
    /\ UNCHANGED <<driver, held, heap, next, registry>>

\* frame_pacer_hud_create_swapchain: a request without colour attachment is
\* tried with it where the surface has it, then as the game made it.  The
\* outcome is whether a swapchain was made, and with colour attachment.
create_swapchain(asked, supported, first, second) ==
    IF asked THEN [made |-> first, color |-> first]
    ELSE IF ~supported THEN [made |-> first, color |-> FALSE]
    ELSE IF first THEN [made |-> TRUE, color |-> TRUE]
    ELSE [made |-> second, color |-> FALSE]

CreateSwapchain(t) ==
    /\ pc[t] = "create_swapchain"
    /\ \E asked, supported, first, second \in BOOLEAN :
         LET outcome == create_swapchain(asked, supported, first, second) IN
         \/ /\ outcome.made
            /\ \E s \in Swapchains :
                 /\ Gives(s, heap[loc[t].ptr].handle)
                 /\ Goto(t, "add_swapchain",
                         [loc[t] EXCEPT !.swap = s, !.color = outcome.color])
         \/ ~outcome.made /\ Return(t) /\ UNCHANGED driver
    /\ UNCHANGED <<held, heap, next, registry>>

NewItem(t) == [handle |-> loc[t].swap, dev |-> loc[t].ptr, draw |-> "none",
               disabled |-> FALSE, uploaded |-> FALSE, atlas |-> FALSE,
               fence |-> [m \in Images |-> "signalled"]]

\* create_image_views: none without colour attachment.
create_image_views(color) == IF color THEN {TRUE, FALSE} ELSE {FALSE}

\* create_swapchain_resources: without colour attachment, a command, memory
\* or a view the swapchain has no HUD, and the game has its swapchain.
AddSwapchain(t) ==
    /\ pc[t] = "add_swapchain"
    /\ held' = held \cup {loc[t].swap}
    /\ \/ /\ TRUE \in create_image_views(loc[t].color)
          /\ next <= MaxObjects
          /\ heap' = With(heap, next, NewItem(t))
          /\ next' = next + 1
          /\ swapchains' = swapchains \cup {next}
       \/ UNCHANGED <<heap, next, swapchains>>
    /\ Return(t)
    /\ UNCHANGED <<driver, instances, physicals, devices, queues>>

\* Mutant: the HUD is not told that the swapchain goes.
TakeSwapchain_forgotten(t) ==
    /\ pc[t] = "idle"
    /\ \E s \in held \cap Swapchains :
         /\ ~InUse("swap", s)
         /\ held' = held \ {s}
         /\ Goto(t, "destroy_swapchain",
                 [Idle EXCEPT !.dev = driver[s], !.swap = s])
    /\ UNCHANGED <<driver, heap, next, registry>>

\* vkDestroySwapchainKHR under the lock.
TakeSwapchain(t) ==
    /\ pc[t] = "idle"
    /\ \E s \in held \cap Swapchains :
         /\ ~InUse("swap", s)
         /\ held' = held \ {s}
         /\ swapchains' = swapchains \ {Found(swapchains, s)}
         /\ Goto(t, "destroy_swapchain",
                 [Idle EXCEPT !.dev = driver[s], !.swap = s,
                              !.item = Found(swapchains, s)])
    /\ UNCHANGED <<driver, heap, next, instances, physicals, devices, queues>>

\* destroy_swapchain, then the downstream call.
DestroySwapchain(t) ==
    /\ pc[t] = "destroy_swapchain"
    /\ heap' = Without(heap, {loc[t].item})
    /\ driver' = Without(driver, {loc[t].swap})
    /\ Return(t)
    /\ UNCHANGED <<held, next, registry>>
----------------------------------------------------------------------------
Presenting == {"draw_resources", "find_item", "check", "overlay", "forward",
               "presented"}

\* vkQueuePresentKHR: the queue's device, under the lock, used to the end.
Present(t) ==
    /\ pc[t] = "idle"
    /\ \E s \in held \cap Swapchains, k \in Queues, m \in Images :
         LET d == driver[s] IN
         /\ ~InUse("swap", s)
         /\ \A u \in Threads : pc[u] \in Presenting =>
                                 <<loc[u].dev, loc[u].queue>> # <<d, k>>
         /\ FoundQueue(d, k).dev # 0
         /\ Goto(t, "draw_resources",
                 [Idle EXCEPT !.dev = d, !.queue = k, !.swap = s,
                              !.image = m, !.ptr = FoundQueue(d, k).dev])
    /\ UNCHANGED <<driver, held, heap, next, registry>>

\* The HUD draws for this item on this queue.
Drawable(item, queue) ==
    item # 0 /\ queue.dev = heap[item].dev /\ queue.graphics

\* create_draw_resources, once for a swapchain, all under the lock; only if
\* the configuration shows the HUD.  Any of its parts may fail.
DrawResources(t) ==
    /\ pc[t] = "draw_resources"
    /\ LET item == Found(swapchains, loc[t].swap) IN
         \/ /\ Drawable(item, FoundQueue(loc[t].dev, loc[t].queue)) /\ heap[item].draw = "none"
            /\ \E outcome \in {"ready", "failed"} :
                 heap' = [heap EXCEPT ![item].draw = outcome]
         \/ UNCHANGED heap
    /\ Goto(t, "find_item", loc[t])
    /\ UNCHANGED <<driver, held, next, registry>>

\* prepare_present under the lock: the item, used after the lock; not if
\* the HUD has been switched off meanwhile.
FindItem(t) ==
    /\ pc[t] = "find_item"
    /\ LET queue == FoundQueue(loc[t].dev, loc[t].queue) IN
       \/ Goto(t, "check", [loc[t] EXCEPT
                              !.item = Found(swapchains, loc[t].swap),
                              !.owner = queue.dev,
                              !.graphics = queue.graphics])
       \/ Goto(t, "forward", loc[t])
    /\ UNCHANGED <<driver, held, heap, next, registry>>

Check(t) ==
    /\ pc[t] = "check"
    /\ LET item == loc[t].item IN
         Goto(t, IF /\ Drawable(item, [dev |-> loc[t].owner,
                                       graphics |-> loc[t].graphics])
                    /\ ~heap[item].disabled /\ heap[item].draw = "ready"
                 THEN "overlay" ELSE "forward", loc[t])
    /\ UNCHANGED <<driver, held, heap, next, registry>>

\* Mutant: the game's present keeps its own semaphores.
Overlay_returns_info(t) ==
    /\ pc[t] = "overlay"
    /\ heap[loc[t].item].fence[loc[t].image] = "signalled"
    /\ heap' = [heap EXCEPT
                  ![loc[t].item].fence[loc[t].image] = "pending",
                  ![loc[t].item].uploaded = TRUE,
                  ![loc[t].item].atlas = @ \/ ~heap[loc[t].item].uploaded]
    /\ Goto(t, "forward", [loc[t] EXCEPT !.waits = @ + 1])
    /\ UNCHANGED <<driver, held, next, registry>>

\* frame_pacer_hud_prepare_present: the image's fence is waited for and
\* reset, the overlay recorded (with the atlas, if none was recorded yet)
\* and submitted.  The submission waits for the game's semaphores and the
\* present for it.
Overlay(t) ==
    /\ pc[t] = "overlay"
    /\ heap[loc[t].item].fence[loc[t].image] = "signalled"
    /\ heap' = [heap EXCEPT
                  ![loc[t].item].fence[loc[t].image] = "pending",
                  ![loc[t].item].uploaded = TRUE,
                  ![loc[t].item].atlas = @ \/ ~heap[loc[t].item].uploaded]
    /\ Goto(t, "forward", [loc[t] EXCEPT !.replaced = TRUE,
                                         !.waits = @ + 1])
    /\ UNCHANGED <<driver, held, next, registry>>

\* How far it came before it failed: the wait or the reset of the fence,
\* the recording, or the submission.
Progress == {[reset |-> FALSE, recorded |-> FALSE],
             [reset |-> TRUE, recorded |-> FALSE],
             [reset |-> TRUE, recorded |-> TRUE]}

Failed(item, m, far) ==
    [item EXCEPT !.fence[m] = IF far.reset THEN "reset" ELSE @,
                 !.uploaded = @ \/ far.recorded]

\* Mutant: the HUD is tried again with the next frame.
OverlayFails_tries_again(t) ==
    /\ pc[t] = "overlay"
    /\ \E far \in Progress :
         /\ far.reset => heap[loc[t].item].fence[loc[t].image] = "signalled"
         /\ heap' = [heap EXCEPT ![loc[t].item] =
                        Failed(@, loc[t].image, far)]
    /\ Goto(t, "forward", loc[t])
    /\ UNCHANGED <<driver, held, next, registry>>

\* Mutant: the reset fence is replaced by a signalled one, and the HUD is
\* tried again with the next frame.
OverlayFails_renews_fence(t) ==
    /\ pc[t] = "overlay"
    /\ \E far \in Progress :
         heap' = [heap EXCEPT ![loc[t].item].uploaded = @ \/ far.recorded]
    /\ Goto(t, "forward", loc[t])
    /\ UNCHANGED <<driver, held, next, registry>>

\* The swapchain's HUD is disabled for good and the game's own request
\* goes on.
OverlayFails(t) ==
    /\ pc[t] = "overlay"
    /\ \E far \in Progress :
         /\ far.reset => heap[loc[t].item].fence[loc[t].image] = "signalled"
         /\ heap' = [heap EXCEPT ![loc[t].item] =
                        [Failed(@, loc[t].image, far) EXCEPT
                            !.disabled = TRUE]]
    /\ Goto(t, "forward", loc[t])
    /\ UNCHANGED <<driver, held, next, registry>>

\* pace() and the downstream vkQueuePresentKHR through the device.
Forward(t) ==
    /\ pc[t] = "forward"
    /\ Goto(t, "presented", [loc[t] EXCEPT
                               !.waits = IF loc[t].replaced THEN @ ELSE @ + 1])
    /\ UNCHANGED <<driver, held, heap, next, registry>>

\* The present is noted (if it succeeded) and the call returns.
Presented(t) ==
    /\ pc[t] = "presented"
    /\ Return(t)
    /\ UNCHANGED <<driver, held, heap, next, registry>>

\* The GPU has executed an overlay.
GpuDone ==
    /\ \E a \in DOMAIN heap : \E m \in Images :
         /\ "fence" \in DOMAIN heap[a] /\ heap[a].fence[m] = "pending"
         /\ heap' = [heap EXCEPT ![a].fence[m] = "signalled"]
    /\ UNCHANGED <<driver, held, next, registry, pc, loc>>

Thread(t) ==
    \/ CreateInstance(t) \/ AddInstance(t) \/ UndoInstance(t)
    \/ RemoveInstance(t) \/ DestroyInstance(t)
    \/ FindPhysical(t) \/ CreateDevice(t) \/ AddDevice(t) \/ UndoDevice(t)
    \/ RemoveDevice(t) \/ FreeDevice(t) \/ DestroyDevice(t)
    \/ FindDevice(t) \/ CreateSwapchain(t) \/ AddSwapchain(t)
    \/ TakeSwapchain(t) \/ DestroySwapchain(t)
    \/ Present(t) \/ DrawResources(t) \/ FindItem(t) \/ Check(t)
    \/ Overlay(t) \/ OverlayFails(t) \/ Forward(t) \/ Presented(t)

Next == GpuDone \/ \E t \in Threads : Thread(t)

Spec == Init /\ [][Next]_vars
----------------------------------------------------------------------------
Items == {a \in DOMAIN heap : "fence" \in DOMAIN heap[a]}

\* The addresses a thread follows without the lock from here on.
Follows(t) ==
    CASE pc[t] \in {"create_device", "add_device", "create_swapchain",
                    "add_swapchain", "draw_resources", "find_item",
                    "forward"} -> {loc[t].ptr}
      [] pc[t] \in {"check", "overlay", "destroy_swapchain"} ->
             ({loc[t].ptr, loc[t].item} \ {0}) \cup
             (IF loc[t].item \in Items THEN {heap[loc[t].item].dev} ELSE {})
      [] pc[t] = "free_device" -> loc[t].items \cup {loc[t].ptr}
      [] OTHER -> {}

\* vulkan_layer_registry.c:176-217, 322-349, frame_pacer_layer.c:370-438,
\* 471-536 and 606-638, vulkan_layer_hud.c:308-340.  The layer uses what it
\* found under the lock long after it let go of it, with no reference count.
\* Vulkan's rules for the game are enough: no thread ever follows a pointer
\* to something another thread has freed, and no list leads to one.
NoDangling ==
    /\ \A p \in physicals : p.inst \in instances
    /\ \A q \in queues : q.dev \in devices
    /\ \A a \in swapchains : heap[a].dev \in devices
    /\ \A t \in Threads : Follows(t) \subseteq DOMAIN heap

\* frame_pacer_layer.c:515-562 (unregister, then destroy downstream) and the
\* undoing of failed creations at 392-438.  A handle the driver gives out
\* again is never mistaken for its predecessor: what the registry finds under
\* a handle the game holds is one entry, with the driver's own parent; and a
\* driver object the game was not given does not outlive the call.
RegistryMatchesDriver ==
    /\ \A d \in held \cap Devices :
         /\ Cardinality({a \in devices : heap[a].handle = d}) = 1
         /\ \A k \in Queues :
              Cardinality({q \in queues : q.handle = <<d, k>>}) = 1
    /\ \A a \in swapchains :
         /\ heap[a].handle \in held
         /\ driver[heap[a].handle] = heap[heap[a].dev].handle
         /\ \A b \in swapchains : heap[a].handle = heap[b].handle => a = b
    /\ \A d \in DOMAIN driver \cap Devices : d \in held \/ InUse("dev", d)

\* hud_vulkan_present.c:43-48, vulkan_layer_hud.c:319-330.  The wait for an
\* image's fence has no timeout.  No present waits for a fence that was reset
\* by an overlay whose submission failed: nothing would ever signal it.
FenceWillSignal ==
    \A t \in Threads :
        pc[t] = "overlay" => heap[loc[t].item].fence[loc[t].image] # "reset"

\* hud_vulkan_record.c:66 and 94, docs/technical-details.md:123-124.  An
\* overlay samples the atlas only after a submission that uploads it, though
\* the atlas counts as uploaded when recorded and the submission may fail.
AtlasUploaded ==
    \A a \in Items :
        (\E m \in Images : heap[a].fence[m] = "pending") => heap[a].atlas

\* hud_vulkan_present.c:14-22 and 49-51.  The game's semaphores are waited
\* for exactly once, by the overlay or by the present, whatever fails.
WaitsOnce == \A t \in Threads : pc[t] = "presented" => loc[t].waits = 1
==============================================================================
