------------------------------ MODULE GlBackend ------------------------------
(***************************************************************************)
(* The OpenGL backend: the preloaded shim (gl_pacer_shim.c), the renderer  *)
(* library behind it (gl_pacer_interposer.c), its table of downstream      *)
(* functions (gl_pacer_dispatch.c) and the HUD it draws into the game's    *)
(* contexts (gl_hud_renderer.c).                                           *)
(*                                                                         *)
(* A library exports some functions of GLX and EGL and gives others, those *)
(* of extensions, only through its GetProcAddress.  A context is known by  *)
(* its API, display and handle; drivers reuse handles, so it also has an   *)
(* incarnation.  As in GLX and EGL, a context destroyed while current      *)
(* lives on until it is released.  A drawing holds the renderer's mutex    *)
(* and touches only the GL state of the caller's context: it is one step.  *)
(***************************************************************************)
EXTENDS Naturals

CONSTANTS
    Threads,    \* threads of the game
    Libraries,  \* what can be loaded: records [soname, exports, offers]
    Keys,       \* contexts: records [api, display, context]
    Atlases,    \* font atlases, one per HUD size
    NoKey,      \* no context
    MaxBirths   \* bound: contexts created

\* The functions that are interposed, as <<family, what it does>>; "damage" is
\* each of eglSwapBuffersWithDamageKHR and EXT, "proc" GetProcAddress.
Functions ==
    ({"glx", "egl"} \X {"swap", "destroy", "proc"})
        \cup ({"egl"} \X {"damage", "terminate"})

\* What a library exports its GetProcAddress gives as well.  A context's key
\* begins with its family; textures and the other objects of a context have
\* names of their own.
ASSUME GlAssumption ==
    /\ \A l \in Libraries : /\ l.exports \subseteq l.offers
                            /\ l.offers \subseteq Functions
    /\ \A k \in Keys : k.api \in {"glx", "egl"}
    /\ NoKey \notin Keys /\ MaxBirths \in Nat
    /\ Atlases \cap {"program", "vao", "vbo"} = {}

VARIABLES
    libc,       \* glibc's dlsym was found
    loaded,     \* the libraries that are loaded
    shim,       \* [renderer, real]: what the shim's constructor found
    dispatch,   \* [resolved, next, hud]: dispatch_, filled in by init_once,
                \* and (history) `at', what was loaded then, or at start
    life,       \* per context: "none", "live" or "doomed" (destroyed, current)
    birth,      \* per context: its incarnation
    births,     \* contexts created so far
    current,    \* per thread: its current context
    resources,  \* renderer->resources: [Keys known -> resource]
    gl,         \* per context: its GL state
    unit,       \* per context: the texture unit the game has chosen
    objects,    \* per context: the GL objects the HUD has in it
    pc,         \* per thread: the call under way
    lost,       \* history: the last call that found no function, as
                \* [fn, first]: whether it was the renderer's first
    late,       \* history: contexts drawn into after their destruction
    orphaned,   \* history: contexts whose resource was forgotten too early
    stale       \* history: contexts drawn into with another one's names

gvars == <<libc, loaded, shim, dispatch, life, birth, births, current,
           resources, gl, unit, objects, pc, lost, late, orphaned, stale>>

Families == {"glx", "egl"}

NoLoss == [fn |-> <<"none", "none">>, first |-> FALSE]

Idle == [at |-> "idle", gone |-> {}]

driverVars == <<loaded, life, birth, births, current, unit>>

\* The GL state the drawing may touch: the active unit, the 2D texture of
\* units 0 and 1 (2 stands for the HUD's), and the other state it changed.
GameState(u) == [unit |-> u, tex |-> [n \in {0, 1} |-> n], changed |-> {}]

Exports(libraries) == UNION {l.exports : l \in libraries}

Offers(libraries) == UNION {l.offers : l \in libraries}

\* At start the libraries the program is linked with are loaded.  The shim's
\* constructor looks each function up behind itself (RTLD_NEXT), which is in
\* those, whatever their names.
Init ==
    /\ libc \in BOOLEAN
    /\ loaded \in SUBSET Libraries
    /\ \A l, m \in loaded : l.soname = m.soname => l = m
    /\ shim \in [renderer : IF libc THEN BOOLEAN ELSE {FALSE},
                 real : {IF libc THEN Exports(loaded) ELSE {}}]
    /\ dispatch = [resolved |-> FALSE, next |-> {}, hud |-> FALSE,
                   at |-> loaded]
    /\ life = [k \in Keys |-> "none"]
    /\ birth = [k \in Keys |-> 0]
    /\ births = 0
    /\ current = [t \in Threads |-> NoKey]
    /\ resources = [k \in {} |-> 0]
    /\ gl = [k \in Keys |-> GameState(0)]
    /\ unit = [k \in Keys |-> 0]
    /\ objects = [k \in Keys |-> {}]
    /\ pc = [t \in Threads |-> Idle]
    /\ lost = NoLoss /\ late = {} /\ orphaned = {} /\ stale = {}

-----------------------------------------------------------------------------
(* The game and its driver.                                                *)

\* The handle dlopen(name, RTLD_NOLOAD) gives, if any.
Named(name) == {l \in loaded : l.soname = name}

\* dlopen by the game, or by what it uses.
Load(l) ==
    /\ Named(l.soname) = {}
    /\ loaded' = loaded \cup {l}
    /\ UNCHANGED <<libc, shim, dispatch, life, birth, births, current,
                   resources, gl, unit, objects, pc, lost, late, orphaned,
                   stale>>

Create(k) ==
    /\ <<k.api, "swap">> \in Exports(loaded)
    /\ life[k] = "none" /\ births < MaxBirths
    /\ life' = [life EXCEPT ![k] = "live"]
    /\ births' = births + 1
    /\ birth' = [birth EXCEPT ![k] = births + 1]
    /\ gl' = [gl EXCEPT ![k] = GameState(0)]
    /\ unit' = [unit EXCEPT ![k] = 0]
    /\ objects' = [objects EXCEPT ![k] = {}]
    /\ stale' = stale \ {k}
    /\ orphaned' = orphaned \ {k}
    /\ UNCHANGED <<libc, loaded, shim, dispatch, current, resources, pc, lost,
                   late>>

MakeCurrent(t, k) ==
    /\ pc[t] = Idle /\ current[t] = NoKey
    /\ life[k] = "live" /\ \A s \in Threads : current[s] # k
    /\ current' = [current EXCEPT ![t] = k]
    /\ UNCHANGED <<libc, loaded, shim, dispatch, life, birth, births, resources,
                   gl, unit, objects, pc, lost, late, orphaned, stale>>

Release(t) ==
    /\ pc[t] = Idle /\ current[t] # NoKey
    /\ life' = [life EXCEPT ![current[t]] = IF @ = "doomed" THEN "none" ELSE @]
    /\ current' = [current EXCEPT ![t] = NoKey]
    /\ UNCHANGED <<libc, loaded, shim, dispatch, birth, births, resources, gl,
                   unit, objects, pc, lost, late, orphaned, stale>>

\* glActiveTexture by the game.
ChooseUnit(t) ==
    LET k == current[t] IN
    /\ pc[t] = Idle /\ k # NoKey /\ unit[k] = 0
    /\ unit' = [unit EXCEPT ![k] = 1]
    /\ gl' = [gl EXCEPT ![k].unit = 1]
    /\ UNCHANGED <<libc, loaded, shim, dispatch, life, birth, births, current,
                   resources, objects, pc, lost, late, orphaned, stale>>

-----------------------------------------------------------------------------
(* Resolution of the downstream functions.                                 *)

EglFunctions == {fn \in Functions : fn[1] = "egl"}

\* dlsym(RTLD_NEXT) called by the renderer, which the shim opened with
\* RTLD_LOCAL: it searches behind the renderer in the renderer's own scope,
\* which ends with libdl and libpthread.
RendererNext == {}

\* Mutant: libEGL is left out when libGL is there.
Downstream_gl ==
    IF Named("libGL.so.1") # {} THEN Exports(Named("libGL.so.1"))
    ELSE Exports(Named("libEGL.so.1")) \cap EglFunctions

\* What frame_pacer_gl_dispatch_init finds: everything libGL.so.1 exports, the
\* functions of EGL that are missing then and libEGL.so.1 exports, and the
\* rest behind the renderer.
Downstream ==
    Exports(Named("libGL.so.1"))
        \cup (Exports(Named("libEGL.so.1")) \cap EglFunctions)
        \cup RendererNext

\* init_once: the table is filled in with what is loaded at this moment; the
\* HUD needs many more functions.
Dispatches ==
    LET found == IF libc THEN Downstream ELSE {} IN
    IF dispatch.resolved THEN {dispatch}
    ELSE {[resolved |-> TRUE, next |-> found, hud |-> h, at |-> loaded] :
              h \in {FALSE} \cup {found # {}}}

\* The game calls fn, which is found downstream or not.  It has fn's address
\* from the dynamic linker or dlsym, when a library exports it, or else from
\* GetProcAddress.  With the renderer all of these lead to its function, which
\* looks in the table (`next'); GetProcAddress has filled that in.  Without
\* it, the symbol is the shim's, which hands on to what it found at start, and
\* dlsym and GetProcAddress give the library's function itself.
Call(fn, next, found) ==
    /\ \/ /\ shim.renderer
          /\ fn \in (IF dispatch.resolved THEN Offers(loaded)
                    ELSE Exports(loaded))
          /\ dispatch' \in Dispatches
          /\ found = (fn \in next)
       \/ /\ ~shim.renderer
          /\ IF found THEN libc /\ fn \in Offers(loaded)
                      ELSE fn \in Exports(loaded) \ shim.real
          /\ UNCHANGED dispatch
    /\ lost' = IF found THEN lost
               ELSE [fn |-> fn, first |-> ~dispatch.resolved]

\* glXGetProcAddress or eglGetProcAddress of a name that is not interposed.
Lookup(f) ==
    /\ \E found \in BOOLEAN : Call(<<f, "proc">>, dispatch'.next, found)
    /\ UNCHANGED <<libc, shim, driverVars, resources, gl, objects, pc, late,
                   orphaned, stale>>

-----------------------------------------------------------------------------
(* Drawing the HUD: frame_pacer_gl_hud_render.                             *)

\* Mutant: the sampler of unit 0 is not saved.
Saved_but_sampler ==
    {"framebuffer", "program", "vao", "array_buffer", "viewport",
     "scissor_box", "color_mask", "blend_func", "blend_equation", "blend",
     "cull", "depth", "stencil", "scissor", "srgb"}

\* What save_state reads besides the active unit and the texture of unit 0.
Saved ==
    {"framebuffer", "sampler", "program", "vao", "array_buffer", "viewport",
     "scissor_box", "color_mask", "blend_func", "blend_equation", "blend",
     "cull", "depth", "stencil", "scissor", "srgb"}

save_state(g) == [unit |-> g.unit, texture |-> g.tex[0], rest |-> Saved]

\* What restore_state sets besides these two, to what was saved of it.
Restored ==
    {"program", "sampler", "vao", "array_buffer", "blend_equation",
     "blend_func", "blend", "cull", "depth", "stencil", "scissor", "srgb",
     "viewport", "scissor_box", "color_mask", "framebuffer"}

restore_state(g, saved) ==
    [unit |-> saved.unit, tex |-> [g.tex EXCEPT ![0] = saved.texture],
     changed |-> g.changed \ (saved.rest \cap Restored)]

\* Where create_resources may fail, in order, with what it has made by then.
Stages == {"vertex", "fragment", "program", "link", "vao", "vbo"}

Made(stage) ==
    CASE stage = "vertex" -> {}
      [] stage = "fragment" -> {"vertex"}
      [] stage = "program" -> {"vertex", "fragment"}
      [] stage = "link" -> {"program"}
      [] stage = "vao" -> {"program", "vbo"}
      [] stage = "vbo" -> {"program", "vao"}

Complete == {"program", "vao", "vbo"}

\* Mutant: the failure path forgets the program.
Deleted_but_program == {"vertex", "fragment", "vao", "vbo"}

\* What the failure path deletes if it was made.
Deleted == {"vertex", "fragment", "program", "vao", "vbo"}

\* create_resources: a new resource is listed, usable or not; the objects of
\* an unusable one are gone.  `stage' is "ok" or where it failed.
NewResource(k, stage) ==
    [birth |-> birth[k], available |-> stage = "ok", texture |-> {},
     names |-> IF stage = "ok" THEN Complete ELSE {}]

\* upload_atlas deletes the old texture once the new one has its storage.
Replaced(r) == r.texture

\* By API, display and handle.
find_resource(k) == {j \in DOMAIN resources : j = k}

\* What upload_atlas changes and puts back itself, before it looks at the
\* storage the texture got.
UnpackState == {"unpack_buffer", "unpack_store"}

\* The GL state after upload_atlas, whether or not the texture got storage.
\* Binding the vertex array of a new resource came before it.
Uploaded(g) ==
    [unit |-> 0, tex |-> [g.tex EXCEPT ![0] = 2],
     changed |-> (g.changed \cup {"vao", "array_buffer"} \cup UnpackState)
                   \ UnpackState]

\* What frame_pacer_gl_hud_render sets for the drawing, and how it leaves it.
Set ==
    {"framebuffer", "sampler", "viewport", "scissor_box", "depth", "cull",
     "stencil", "srgb", "blend", "blend_equation", "blend_func", "scissor",
     "color_mask", "program", "vao", "array_buffer"}

Drawn(g) == [Uploaded(g) EXCEPT !.changed = @ \cup Set]

\* One drawing into context k with atlas a: laying out the text may fail,
\* and so may any stage of the resources and of the texture.
Render(k, a) ==
    LET g == gl[k]
        saved == save_state(g)
        known == find_resource(k)
        r == IF known = {} THEN 0 ELSE resources[CHOOSE j \in known : TRUE]
        Put(q) == resources' = [j \in DOMAIN resources \cup {k} |->
                                  IF j = k THEN q ELSE resources[j]]
        Finish(s) == gl' = [gl EXCEPT ![k] = restore_state(s, saved)]
        Upload(q, base) ==
            \/ /\ q.texture # {a}
               /\ Put(q)                             \* no texture, or no room
               /\ objects' = [objects EXCEPT ![k] = base]
               /\ Finish(Uploaded(g))
            \/ /\ Put([q EXCEPT !.texture = {a}])
               /\ objects' = [objects EXCEPT ![k] =
                                (base \ Replaced(q)) \cup {a}]
               /\ Finish(Drawn(g))
    IN
    /\ late' = IF life[k] = "doomed" THEN late \cup {k} ELSE late
    /\ stale' = IF known # {} /\ r.available /\ r.birth # birth[k]
                THEN stale \cup {k} ELSE stale
    /\ \/ /\ Finish([g EXCEPT !.unit = 0])           \* layout, or no memory
          /\ UNCHANGED <<resources, objects>>
       \/ /\ known = {}
          /\ \E s \in Stages :
                /\ Put(NewResource(k, s))
                /\ objects' = [objects EXCEPT ![k] = @ \cup (Made(s) \ Deleted)]
                /\ Finish([g EXCEPT !.unit = 0])
       \/ /\ known = {}
          /\ Upload(NewResource(k, "ok"), objects[k] \cup Complete)
       \/ /\ known # {} /\ ~r.available
          /\ Finish([g EXCEPT !.unit = 0])
          /\ UNCHANGED <<resources, objects>>
       \/ /\ known # {} /\ r.available /\ r.birth = birth[k]
          /\ Upload(r, objects[k])
       \/ /\ known # {} /\ r.available /\ r.birth # birth[k]
          /\ Finish(Drawn(g))                        \* with foreign names
          /\ UNCHANGED <<resources, objects>>

\* render_hud: nothing without a table, a current context or a viewport, or
\* with the HUD switched off.
SkipHud == UNCHANGED <<resources, gl, objects, late, stale>>

\* A swap up to pace(), which looked in `next' for what to forward it to.
\* Without the renderer there is neither HUD nor pacing.
Swapping(t, fn, next) ==
    LET k == current[t] IN
    /\ pc[t] = Idle
    /\ \/ /\ Call(fn, next, FALSE)
          /\ SkipHud
          /\ UNCHANGED pc
       \/ /\ Call(fn, next, TRUE)
          /\ pc' = [pc EXCEPT ![t].at = "pace"]
          /\ \/ SkipHud
             \/ /\ dispatch'.hud /\ k # NoKey /\ k.api = fn[1]
                /\ \E a \in Atlases : Render(k, a)
    /\ UNCHANGED <<libc, shim, driverVars, orphaned>>

\* glXSwapBuffers and eglSwapBuffers look at the table once it is filled in.
Swap(t, f) == Swapping(t, <<f, "swap">>, dispatch'.next)

\* eglSwapBuffersWithDamageKHR and EXT read the table before swap_damage has
\* it filled in: as the first call of the renderer they find nothing.
SwapDamage(t) == Swapping(t, <<"egl", "damage">>, dispatch.next)

\* pace(), the downstream swap, and the count of an accepted present.
SwapReturns(t) ==
    /\ pc[t].at = "pace"
    /\ pc' = [pc EXCEPT ![t] = Idle]
    /\ UNCHANGED <<libc, shim, dispatch, driverVars, resources, gl, objects,
                   lost, late, orphaned, stale>>

-----------------------------------------------------------------------------
(* Destruction.                                                            *)

IsCurrent(k) == \E s \in Threads : current[s] = k

\* What the driver makes of destroyed contexts.
Destroyed(gone) ==
    [k \in Keys |-> IF k \in gone /\ life[k] = "live"
                    THEN (IF IsCurrent(k) THEN "doomed" ELSE "none")
                    ELSE life[k]]

\* glXDestroyContext, eglDestroyContext or eglTerminate goes down first; the
\* resources are forgotten after it has returned.
Destroy(t, fn, gone, at) ==
    /\ pc[t] = Idle
    /\ \E k \in gone : life[k] = "live"
    /\ \/ /\ Call(fn, dispatch'.next, FALSE)
          /\ UNCHANGED <<life, pc>>
       \/ /\ Call(fn, dispatch'.next, TRUE)
          /\ life' = Destroyed(gone)
          /\ pc' = IF shim.renderer
                   THEN [pc EXCEPT ![t] = [at |-> at, gone |-> gone]] ELSE pc
    /\ UNCHANGED <<libc, loaded, shim, birth, births, current, resources, gl,
                   unit, objects, late, orphaned, stale>>

DestroyContext(t, k) == Destroy(t, <<k.api, "destroy">>, {k}, "forget")

Terminate(t, d) ==
    Destroy(t, <<"egl", "terminate">>,
            {k \in Keys : k.api = "egl" /\ k.display = d}, "forget_display")

\* Mutant: the resources of a terminated display stay.
Forgotten_one(p) == IF p.at = "forget" THEN p.gone ELSE {}

\* frame_pacer_gl_hud_forget drops one context's, or all of a display.
Forgotten(p) == p.gone

Forget(t) ==
    /\ pc[t].at \in {"forget", "forget_display"}
    /\ resources' = [k \in DOMAIN resources \ Forgotten(pc[t]) |-> resources[k]]
    /\ late' = late \ pc[t].gone
    /\ orphaned' = orphaned \cup
         {k \in pc[t].gone \cap DOMAIN resources :
             life[k] # "none" /\ resources[k].birth = birth[k]}
    /\ pc' = [pc EXCEPT ![t] = Idle]
    /\ UNCHANGED <<libc, shim, dispatch, driverVars, gl, objects, lost, stale>>

Next ==
    \/ \E l \in Libraries : Load(l)
    \/ \E f \in Families : Lookup(f)
    \/ \E k \in Keys : Create(k)
    \/ \E t \in Threads :
          \/ \E k \in Keys : MakeCurrent(t, k) \/ DestroyContext(t, k)
          \/ Release(t) \/ ChooseUnit(t)
          \/ \E f \in Families : Swap(t, f)
          \/ SwapDamage(t)
          \/ SwapReturns(t)
          \/ \E d \in {k.display : k \in Keys} : Terminate(t, d)
          \/ Forget(t)

Spec == Init /\ [][Next]_gvars

-----------------------------------------------------------------------------
\* Contexts whose destruction is under way in some call.
Pending == UNION {pc[t].gone : t \in Threads}

\* gl_hud_renderer.c:318-383, docs/technical-details.md:122: whatever fails on
\* the way, the game finds its GL state as it left it after a drawing.
StateRestored ==
    \A k \in Keys : life[k] # "none" => gl[k] = GameState(unit[k])

\* gl_hud_renderer.c:229-268 and 307-314: the HUD's objects in a context are
\* those its resource names, after every failure too, in a context whose
\* resource was not forgotten before its end, nor kept after it.
NoGlLeak ==
    \A k \in Keys \ (late \cup stale \cup orphaned \cup Pending) :
        life[k] = "live" =>
        objects[k] =
            IF k \in DOMAIN resources
            THEN resources[k].names \cup resources[k].texture ELSE {}

\* gl_hud_renderer.c:229-268 and 318-383: a drawing, and a failure at any of
\* its stages, leaves the game's state as it was and no object without a name.
ContextUntouched == StateRestored /\ NoGlLeak

\* gl_pacer_interposer.c:348-386: a listed resource belongs to the context
\* that now has its handle, unless a destruction of that handle is under way
\* or the context was drawn into after its destruction.
NamesOfContext ==
    \A k \in DOMAIN resources \ (late \cup Pending) :
        life[k] = "live" => resources[k].birth = birth[k]

\* The library's functions that the table is filled from.
Forwarded(l) ==
    CASE l.soname = "libGL.so.1" -> l.exports
      [] l.soname = "libEGL.so.1" -> l.exports \cap EglFunctions
      [] OTHER -> {}

\* gl_pacer_dispatch.c:141-212, gl_pacer_shim.c:109-155: with glibc's dlsym no
\* call of a function that is there is lost.  With the renderer: of none that
\* libGL.so.1 or libEGL.so.1 exported when the renderer was first called,
\* whichever call that was, whatever else was loaded and whatever is loaded
\* later, but for a damage swap that read the table before it was filled in.
\* Without it: of none that any library exported at start.
KnownCallsForwarded ==
    libc => \A l \in dispatch.at :
        IF shim.renderer
        THEN lost.fn \in Forwarded(l) =>
                 lost = [fn |-> <<"egl", "damage">>, first |-> TRUE]
        ELSE lost.fn \notin l.exports

\* tests/test_gl_pacer.c:139: "Destroyed handles and terminated EGL displays
\* must never retain stale object names when a provider later reuses the same
\* opaque value": no drawing uses the names of another context.
NoStaleNames == stale = {}
=============================================================================
