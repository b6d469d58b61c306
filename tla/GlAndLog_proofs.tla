-------------------------- MODULE GlAndLog_proofs --------------------------
(***************************************************************************)
(* What is proved about the OpenGL backend (GlBackend) and about the       *)
(* runtime log (LogRetention, here under the name Log).                    *)
(***************************************************************************)
EXTENDS MCGlAndLog, FiniteSetTheorems, SequenceTheorems, TLAPS

(***************************************************************************)
(* The OpenGL backend.                                                     *)
(***************************************************************************)

\* What a listed resource may be.
Resource == [birth : Nat, available : BOOLEAN, texture : SUBSET Atlases,
             names : SUBSET Complete]

Calls == [at : {"idle", "pace", "forget", "forget_display"},
          gone : SUBSET Keys]

Tables == [resolved : BOOLEAN, next : SUBSET Functions, hud : BOOLEAN,
           at : SUBSET Libraries]

GlTypeOK ==
    /\ libc \in BOOLEAN /\ loaded \subseteq Libraries
    /\ shim \in [renderer : BOOLEAN, real : SUBSET Functions]
    /\ dispatch \in Tables /\ (~shim.renderer => ~dispatch.hud)
    /\ life \in [Keys -> {"none", "live", "doomed"}]
    /\ birth \in [Keys -> Nat] /\ births \in Nat
    /\ current \in [Threads -> Keys \cup {NoKey}]
    /\ unit \in [Keys -> {0, 1}]
    /\ DOMAIN resources \subseteq Keys
    /\ \A k \in DOMAIN resources : resources[k] \in Resource
    /\ objects \in [Keys -> SUBSET (Complete \cup Atlases)]
    /\ pc \in [Threads -> Calls]
    /\ \A t \in Threads : pc[t].at \in {"idle", "pace"} => pc[t].gone = {}

\* The game's GL state is as the game has left it.
Untouched == gl = [k \in Keys |-> GameState(unit[k])]

\* Restoring what was saved gives the game's state back, after each of the
\* ways a drawing may end.
LEMMA Restores ==
    ASSUME NEW u \in {0, 1}
    PROVE  LET g == GameState(u)
               saved == save_state(g)
           IN /\ restore_state([g EXCEPT !.unit = 0], saved) = g
              /\ restore_state(Uploaded(g), saved) = g
              /\ restore_state(Drawn(g), saved) = g
  <1> DEFINE g == GameState(u)
             saved == save_state(g)
  <1>1. /\ g = [unit |-> u, tex |-> [n \in {0, 1} |-> n], changed |-> {}]
        /\ saved.unit = u /\ saved.texture = 0
    BY DEF GameState, save_state
  <1>2. \A h : h.changed \subseteq Set =>
          restore_state(h, saved) =
              [unit |-> u, tex |-> [h.tex EXCEPT ![0] = 0], changed |-> {}]
    <2>1. Set \ (Saved \cap Restored) = {}
      BY DEF Set, Saved, Restored
    <2>2. saved.rest = Saved
      BY DEF save_state
    <2> QED BY <1>1, <2>1, <2>2 DEF restore_state
  <1>3. restore_state([g EXCEPT !.unit = 0], saved) = g
    BY <1>1, <1>2
  <1>4. /\ Uploaded(g).tex = [n \in {0, 1} |-> IF n = 0 THEN 2 ELSE 1]
        /\ Uploaded(g).changed \subseteq Set
    BY <1>1 DEF Uploaded, UnpackState, Set
  <1>5. restore_state(Uploaded(g), saved) = g
    BY <1>1, <1>2, <1>4
  <1>6. /\ Drawn(g).tex = Uploaded(g).tex
        /\ Drawn(g).changed = Uploaded(g).changed \cup Set
    BY DEF Drawn, Uploaded
  <1>7. restore_state(Drawn(g), saved) = g
    BY <1>1, <1>2, <1>4, <1>6
  <1> QED BY <1>3, <1>5, <1>7

\* The objects a listed resource names.
Owned(r) == r.names \cup r.texture

\* The resource of context k is put into the list, with objects to match.
Lists(k) ==
    /\ DOMAIN resources' = DOMAIN resources \cup {k}
    /\ \A j \in DOMAIN resources \ {k} : resources'[j] = resources[j]
    /\ resources'[k] \in Resource /\ resources'[k].birth = birth[k]
    /\ k \in DOMAIN resources => resources[k].birth = birth[k]
    /\ objects' \in [Keys -> SUBSET (Complete \cup Atlases)]
    /\ \A j \in Keys \ {k} : objects'[j] = objects[j]
    /\ objects[k] = (IF k \in DOMAIN resources THEN Owned(resources[k]) ELSE {})
         => objects'[k] = Owned(resources'[k])

\* What a drawing into context k does, whichever of its stages fails.
Draws(k) ==
    /\ gl' = gl
    /\ late' = IF life[k] = "doomed" THEN late \cup {k} ELSE late
    /\ stale \subseteq stale'
    /\ UNCHANGED <<resources, objects>> \/ Lists(k)

\* The list gets an entry, and k the objects it names.
LEMMA Putting ==
    ASSUME GlTypeOK, NEW k \in Keys, NEW q \in Resource, NEW o,
           q.birth = birth[k],
           k \in DOMAIN resources => resources[k].birth = birth[k],
           resources' = [j \in DOMAIN resources \cup {k} |->
                           IF j = k THEN q ELSE resources[j]],
           objects' = [objects EXCEPT ![k] = o],
           o \subseteq Complete \cup Atlases,
           objects[k] = (IF k \in DOMAIN resources THEN Owned(resources[k])
                         ELSE {}) => o = Owned(q)
    PROVE  Lists(k)
  <1>1. DOMAIN resources' = DOMAIN resources \cup {k} /\ resources'[k] = q
    OBVIOUS
  <1>2. \A j \in DOMAIN resources \ {k} : resources'[j] = resources[j]
    OBVIOUS
  <1>3. /\ objects' \in [Keys -> SUBSET (Complete \cup Atlases)]
        /\ objects'[k] = o
        /\ \A j \in Keys \ {k} : objects'[j] = objects[j]
    BY DEF GlTypeOK
  <1> QED BY <1>1, <1>2, <1>3 DEF Lists

\* Every failure in create_resources deletes what was made.
LEMMA FailureDeletes ==
    ASSUME NEW s \in Stages
    PROVE  Made(s) \ Deleted = {}
  BY DEF Stages, Made, Deleted

\* A drawing keeps the game's state and the list.
LEMMA RenderDraws ==
    ASSUME GlTypeOK, Untouched, NEW k \in Keys, NEW a \in Atlases,
           Render(k, a)
    PROVE  Draws(k)
  <1> DEFINE g == gl[k]
             saved == save_state(g)
             r == resources[k]
             Put(q) == resources' = [j \in DOMAIN resources \cup {k} |->
                                       IF j = k THEN q ELSE resources[j]]
             Finish(s) == gl' = [gl EXCEPT ![k] = restore_state(s, saved)]
             Upload(q, base) ==
                 \/ /\ Put(q)
                    /\ objects' = [objects EXCEPT ![k] = base]
                    /\ Finish(Uploaded(g))
                 \/ /\ Put([q EXCEPT !.texture = {a}])
                    /\ objects' = [objects EXCEPT ![k] =
                                     (base \ Replaced(q)) \cup {a}]
                    /\ Finish(Drawn(g))
  <1>1. find_resource(k) = {} <=> k \notin DOMAIN resources
    BY DEF find_resource
  <1>2. k \in DOMAIN resources =>
            (CHOOSE j \in find_resource(k) : TRUE) = k
    BY DEF find_resource
  <1>3. /\ late' = IF life[k] = "doomed" THEN late \cup {k} ELSE late
        /\ stale \subseteq stale'
    BY DEF Render
  <1>4. \/ /\ Finish([g EXCEPT !.unit = 0])
           /\ UNCHANGED <<resources, objects>>
        \/ /\ k \notin DOMAIN resources
           /\ \E s \in Stages :
                 /\ Put(NewResource(k, s))
                 /\ objects' =
                      [objects EXCEPT ![k] = @ \cup (Made(s) \ Deleted)]
                 /\ Finish([g EXCEPT !.unit = 0])
        \/ /\ k \notin DOMAIN resources
           /\ Upload(NewResource(k, "ok"), objects[k] \cup Complete)
        \/ /\ k \in DOMAIN resources /\ r.birth = birth[k]
           /\ Upload(r, objects[k])
        \/ /\ Finish(Drawn(g))
           /\ UNCHANGED <<resources, objects>>
    BY <1>1, <1>2 DEF Render
  <1>5. unit[k] \in {0, 1} /\ g = GameState(unit[k])
    BY DEF GlTypeOK, Untouched
  <1>6. ASSUME NEW s, Finish(s), restore_state(s, saved) = g
        PROVE  gl' = gl
    BY <1>6 DEF Untouched
  <1>7. /\ restore_state([g EXCEPT !.unit = 0], saved) = g
        /\ restore_state(Uploaded(g), saved) = g
        /\ restore_state(Drawn(g), saved) = g
    BY <1>5, Restores
  <1>8. ASSUME NEW q \in Resource, q.birth = birth[k],
               NEW base \in SUBSET (Complete \cup Atlases),
               k \in DOMAIN resources => resources[k].birth = birth[k],
               objects[k] = (IF k \in DOMAIN resources
                             THEN Owned(resources[k]) ELSE {})
                 => base = Owned(q),
               Upload(q, base)
        PROVE  gl' = gl /\ Lists(k)
    <2> HIDE DEF Finish, g, saved
    <2>1. CASE /\ Put(q) /\ Finish(Uploaded(g))
               /\ objects' = [objects EXCEPT ![k] = base]
      BY <1>6, <1>7, <1>8, <2>1, Putting
    <2>2. CASE /\ Put([q EXCEPT !.texture = {a}]) /\ Finish(Drawn(g))
               /\ objects' = [objects EXCEPT ![k] =
                                (base \ Replaced(q)) \cup {a}]
      <3> DEFINE w == [q EXCEPT !.texture = {a}]
                 o == (base \ Replaced(q)) \cup {a}
      <3>1. w \in Resource /\ w.birth = birth[k]
        BY <1>8 DEF Resource
      <3>2. o \subseteq Complete \cup Atlases
        BY <1>8
      <3>3. base = Owned(q) => o = Owned(w)
        BY <1>8, GlAssumption DEF Owned, Replaced, Resource, Complete
      <3> HIDE DEF w, o
      <3>4. Lists(k)
        BY <1>8, <2>2, <3>1, <3>2, <3>3, Putting DEF w, o
      <3> QED BY <1>6, <1>7, <2>2, <3>4
    <2> QED BY <1>8, <2>1, <2>2
  <1>9. objects[k] \in SUBSET (Complete \cup Atlases)
    BY DEF GlTypeOK
  <1>10. \A s : /\ NewResource(k, s) \in Resource
                /\ NewResource(k, s).birth = birth[k]
    BY DEF NewResource, Resource, GlTypeOK
  <1>11. CASE Finish([g EXCEPT !.unit = 0]) /\ UNCHANGED <<resources, objects>>
    <2> HIDE DEF Finish, g, saved
    <2>1. gl' = gl
      BY <1>6, <1>7, <1>11
    <2> QED BY <1>3, <1>11, <2>1 DEF Draws
  <1>12. ASSUME k \notin DOMAIN resources, NEW s \in Stages,
                Put(NewResource(k, s)),
                objects' = [objects EXCEPT ![k] = @ \cup (Made(s) \ Deleted)],
                Finish([g EXCEPT !.unit = 0])
         PROVE  Draws(k)
    <2> HIDE DEF Finish, g, saved
    <2>1. gl' = gl
      BY <1>6, <1>7, <1>12
    <2>2. objects' = [objects EXCEPT ![k] = objects[k]]
      BY <1>12, FailureDeletes
    <2>3. Owned(NewResource(k, s)) = {}
      BY <1>12 DEF Owned, NewResource, Stages
    <2> DEFINE q == NewResource(k, s)
               o == objects[k]
    <2>4. q \in Resource /\ q.birth = birth[k]
      BY <1>10
    <2>5. o \subseteq Complete \cup Atlases
      BY <1>9
    <2>6. objects[k] = (IF k \in DOMAIN resources THEN Owned(resources[k])
                        ELSE {}) => o = Owned(q)
      BY <1>12, <2>3
    <2>7. resources' = [j \in DOMAIN resources \cup {k} |->
                          IF j = k THEN q ELSE resources[j]]
      BY <1>12
    <2>8. k \notin DOMAIN resources /\ objects' = [objects EXCEPT ![k] = o]
      BY <1>12, <2>2
    <2> HIDE DEF q, o
    <2>9. Lists(k)
      BY <2>4, <2>5, <2>6, <2>7, <2>8, Putting
    <2> QED BY <1>3, <2>1, <2>9 DEF Draws
  <1>13. CASE /\ k \notin DOMAIN resources
              /\ Upload(NewResource(k, "ok"), objects[k] \cup Complete)
    <2>1. Owned(NewResource(k, "ok")) = Complete
      BY DEF Owned, NewResource
    <2> HIDE DEF Upload
    <2>2. gl' = gl /\ Lists(k)
      BY <1>8, <1>9, <1>10, <1>13, <2>1
    <2> QED BY <1>3, <2>2 DEF Draws
  <1>14. CASE /\ k \in DOMAIN resources /\ r.birth = birth[k]
              /\ Upload(r, objects[k])
    <2>1. r \in Resource
      BY <1>14 DEF GlTypeOK
    <2> HIDE DEF Upload
    <2>2. gl' = gl /\ Lists(k)
      BY <1>8, <1>9, <1>14, <2>1
    <2> QED BY <1>3, <2>2 DEF Draws
  <1>15. CASE Finish(Drawn(g)) /\ UNCHANGED <<resources, objects>>
    <2> HIDE DEF Finish, g, saved
    <2>1. gl' = gl
      BY <1>6, <1>7, <1>15
    <2> QED BY <1>3, <1>15, <2>1 DEF Draws
  <1> HIDE DEF g, saved, r, Put, Finish, Upload
  <1> QED BY <1>4, <1>11, <1>12, <1>13, <1>14, <1>15
-----------------------------------------------------------------------------
\* What is found is a function of some library, and all that is to be found.
LEMMA DownstreamFinds ==
    ASSUME GlTypeOK
    PROVE  /\ Downstream \subseteq Functions
           /\ \A l \in loaded : Forwarded(l) \subseteq Downstream
  <1>1. \A l \in loaded : l.exports \subseteq Functions
    BY GlAssumption DEF GlTypeOK
  <1>2. \A n : Named(n) \subseteq loaded
    BY DEF Named
  <1>3. Downstream \subseteq Functions
    BY <1>1, <1>2 DEF Downstream, Exports, RendererNext
  <1>4. ASSUME NEW l \in loaded
        PROVE  Forwarded(l) \subseteq Downstream
    <2>1. l \in Named(l.soname)
      BY DEF Named
    <2>2. CASE l.soname = "libGL.so.1"
      BY <2>1, <2>2 DEF Forwarded, Downstream, Exports
    <2>3. CASE l.soname = "libEGL.so.1"
      BY <2>1, <2>3 DEF Forwarded, Downstream, Exports
    <2>4. CASE l.soname \notin {"libGL.so.1", "libEGL.so.1"}
      BY <2>4 DEF Forwarded
    <2> QED BY <2>2, <2>3, <2>4
  <1> QED BY <1>3, <1>4

\* A table that is filled in stays; one that is not gets all there is.
LEMMA DispatchNext ==
    ASSUME GlTypeOK, dispatch' \in Dispatches
    PROVE  /\ dispatch' \in Tables /\ dispatch'.resolved
           /\ dispatch.resolved => dispatch' = dispatch
           /\ ~dispatch.resolved /\ libc =>
                  \A l \in dispatch'.at : Forwarded(l) \subseteq dispatch'.next
  <1>1. CASE dispatch.resolved
    BY <1>1 DEF Dispatches, GlTypeOK
  <1>2. CASE ~dispatch.resolved
    <2> DEFINE found == IF libc THEN Downstream ELSE {}
    <2>1. PICK h \in {FALSE} \cup {found # {}} :
            dispatch' = [resolved |-> TRUE, next |-> found, hud |-> h,
                         at |-> loaded]
      BY <1>2 DEF Dispatches
    <2>2. h \in BOOLEAN
      OBVIOUS
    <2>3. found \in SUBSET Functions /\ loaded \in SUBSET Libraries
      BY DownstreamFinds DEF GlTypeOK
    <2>4. libc => \A l \in loaded : Forwarded(l) \subseteq found
      BY DownstreamFinds
    <2> HIDE DEF found
    <2>5. dispatch' \in Tables
      BY <2>1, <2>2, <2>3 DEF Tables
    <2> QED BY <1>2, <2>1, <2>4, <2>5
  <1> QED BY <1>1, <1>2 DEF GlTypeOK, Tables

DamageSwap == <<"egl", "damage">>

\* What a call does to the table and to the account of calls that were lost.
Answers ==
    /\ dispatch' = dispatch \/ (shim.renderer /\ dispatch' \in Dispatches)
    /\ \/ lost' = lost
       \/ \E fn : /\ lost' = [fn |-> fn, first |-> ~dispatch.resolved]
                  /\ IF shim.renderer
                     THEN /\ dispatch' \in Dispatches
                          /\ \/ fn \notin dispatch'.next
                             \/ fn = DamageSwap /\ ~dispatch.resolved
                     ELSE fn \notin shim.real

LEMMA CallAnswers ==
    ASSUME GlTypeOK, NEW fn, NEW ACTION next, NEW found \in BOOLEAN,
           \/ next = dispatch'.next
           \/ next = dispatch.next /\ fn = DamageSwap,
           Call(fn, next, found)
    PROVE  Answers
  <1>1. dispatch' = dispatch \/ (shim.renderer /\ dispatch' \in Dispatches)
    BY DEF Call
  <1>2. CASE found
    BY <1>1, <1>2 DEF Call, Answers
  <1>3. CASE ~found /\ shim.renderer
    <2>1. /\ dispatch' \in Dispatches /\ fn \notin next
          /\ lost' = [fn |-> fn, first |-> ~dispatch.resolved]
      BY <1>3 DEF Call
    <2>2. dispatch.resolved => fn \notin dispatch'.next
      BY <2>1, DispatchNext
    <2> QED BY <1>1, <1>3, <2>1, <2>2 DEF Answers
  <1>4. CASE ~found /\ ~shim.renderer
    BY <1>1, <1>4 DEF Call, Answers
  <1> QED BY <1>2, <1>3, <1>4

\* What a lookup does.
Looks ==
    /\ Answers
    /\ UNCHANGED <<libc, shim, driverVars, resources, gl, objects, pc, late,
                   orphaned, stale>>

LEMMA LookupLooks ==
    ASSUME GlTypeOK, NEW f, Lookup(f)
    PROVE  Looks
  <1>1. PICK found \in BOOLEAN : Call(<<f, "proc">>, dispatch'.next, found)
    BY DEF Lookup
  <1>2. Answers
    BY <1>1, CallAnswers
  <1> QED BY <1>2 DEF Lookup, Looks

\* What a swap does before it goes down.
Swaps(t) ==
    /\ Answers
    /\ UNCHANGED <<libc, shim, loaded, life, birth, births, current, unit,
                   orphaned>>
    /\ pc[t] = Idle /\ pc' \in {pc, [pc EXCEPT ![t].at = "pace"]}
    /\ \/ UNCHANGED <<resources, gl, objects, late, stale>>
       \/ shim.renderer /\ current[t] \in Keys /\ Draws(current[t])

LEMMA SwappingSwaps ==
    ASSUME GlTypeOK, Untouched, NEW t \in Threads, NEW fn,
           NEW ACTION next,
           \/ next = dispatch'.next
           \/ next = dispatch.next /\ fn = DamageSwap,
           Swapping(t, fn, next)
    PROVE  Swaps(t)
  <1> DEFINE k == current[t]
  <1>1. \/ SkipHud
        \/ dispatch'.hud /\ k # NoKey /\ \E a \in Atlases : Render(k, a)
    BY DEF Swapping
  <1>2. k # NoKey => k \in Keys
    BY DEF GlTypeOK
  <1>3. Call(fn, next, FALSE) \/ Call(fn, next, TRUE)
    BY DEF Swapping
  <1>4. Answers
    BY <1>3, CallAnswers
  <1>5. dispatch'.hud => shim.renderer
    BY <1>4 DEF Answers, GlTypeOK
  <1>6. \/ UNCHANGED <<resources, gl, objects, late, stale>>
        \/ shim.renderer /\ k \in Keys /\ Draws(k)
    BY <1>1, <1>2, <1>5, RenderDraws DEF SkipHud
  <1>7. /\ UNCHANGED <<libc, shim, loaded, life, birth, births, current, unit,
                       orphaned>>
        /\ pc[t] = Idle
        /\ pc' \in {pc, [pc EXCEPT ![t].at = "pace"]}
    BY DEF Swapping, driverVars
  <1> QED BY <1>4, <1>6, <1>7 DEF Swaps

\* What a destruction does before it forgets the resources of `gone'.
Destroys(t, gone) ==
    /\ Answers
    /\ UNCHANGED <<libc, loaded, shim, birth, births, current, resources, gl,
                   unit, objects, late, orphaned, stale>>
    /\ pc[t] = Idle
    /\ \/ UNCHANGED <<life, pc>>
       \/ /\ life' = Destroyed(gone)
          /\ \E at \in {"forget", "forget_display"} :
               pc' = [pc EXCEPT ![t] = [at |-> at, gone |-> gone]]
       \/ /\ ~shim.renderer /\ life' = Destroyed(gone) /\ UNCHANGED pc

LEMMA DestroyDestroys ==
    ASSUME GlTypeOK, NEW t \in Threads, NEW fn, NEW gone,
           NEW at \in {"forget", "forget_display"}, Destroy(t, fn, gone, at)
    PROVE  Destroys(t, gone)
  <1>1. /\ UNCHANGED <<libc, loaded, shim, birth, births, current, resources,
                       gl, unit, objects, late, orphaned, stale>>
        /\ pc[t] = Idle
    BY DEF Destroy
  <1>2. \/ UNCHANGED <<life, pc>>
        \/ /\ life' = Destroyed(gone)
           /\ pc' = [pc EXCEPT ![t] = [at |-> at, gone |-> gone]]
        \/ /\ ~shim.renderer /\ life' = Destroyed(gone) /\ UNCHANGED pc
    BY DEF Destroy
  <1>3. \/ Call(fn, dispatch'.next, FALSE)
        \/ Call(fn, dispatch'.next, TRUE)
    BY DEF Destroy
  <1>4. Answers
    BY <1>3, CallAnswers
  <1> QED BY <1>1, <1>2, <1>4 DEF Destroys

\* The steps of the system, with the swaps and destructions by their effect.
LEMMA Steps ==
    ASSUME GlTypeOK, Untouched, [Next]_gvars
    PROVE  \/ UNCHANGED gvars
           \/ \E l \in Libraries : Load(l)
           \/ Looks
           \/ \E k \in Keys : Create(k)
           \/ \E t \in Threads :
                 \/ \E k \in Keys : MakeCurrent(t, k)
                 \/ \E gone \in SUBSET Keys : Destroys(t, gone)
                 \/ Release(t) \/ ChooseUnit(t)
                 \/ Swaps(t)
                 \/ SwapReturns(t)
                 \/ Forget(t)
  <1>1. ASSUME NEW t \in Threads, NEW k \in Keys, DestroyContext(t, k)
        PROVE  \E gone \in SUBSET Keys : Destroys(t, gone)
    <2>1. {k} \in SUBSET Keys
      OBVIOUS
    <2> QED BY <1>1, <2>1, DestroyDestroys DEF DestroyContext
  <1>2. ASSUME NEW t \in Threads, NEW d, Terminate(t, d)
        PROVE  \E gone \in SUBSET Keys : Destroys(t, gone)
    <2> DEFINE G == {k \in Keys : k.api = "egl" /\ k.display = d}
    <2>1. G \in SUBSET Keys
      OBVIOUS
    <2>2. Destroys(t, G)
      BY <1>2, DestroyDestroys DEF Terminate
    <2> QED BY <2>1, <2>2
  <1>3. ASSUME NEW t \in Threads, NEW f, Swap(t, f)
        PROVE  Swaps(t)
    BY <1>3, SwappingSwaps DEF Swap
  <1>4. ASSUME NEW t \in Threads, SwapDamage(t)
        PROVE  Swaps(t)
    BY <1>4, SwappingSwaps DEF SwapDamage, DamageSwap
  <1>5. ASSUME NEW f, Lookup(f)
        PROVE  Looks
    BY <1>5, LookupLooks
  <1> QED BY <1>1, <1>2, <1>3, <1>4, <1>5 DEF Next

\* No two threads have the same context, and none a context that is gone.
Currents ==
    /\ \A t \in Threads :
         current[t] # NoKey => life[current[t]] \in {"live", "doomed"}
    /\ \A s, t \in Threads :
         current[s] = current[t] /\ current[s] # NoKey => s = t

\* A call that begins or goes on to pace() has nothing to forget.
LEMMA PaceCall ==
    ASSUME GlTypeOK, NEW t \in Threads, pc[t] = Idle,
           pc' \in {pc, [pc EXCEPT ![t].at = "pace"]}
    PROVE  /\ pc' \in [Threads -> Calls]
           /\ \A s \in Threads : /\ pc'[s].gone = pc[s].gone
                                 /\ pc'[s].at \in {"idle", "pace"}
                                      => pc'[s].gone = {}
  <1>1. CASE pc' = pc
    BY <1>1 DEF GlTypeOK
  <1>2. CASE pc' = [pc EXCEPT ![t].at = "pace"]
    <2>0. [Idle EXCEPT !.at = "pace"] = [at |-> "pace", gone |-> {}]
      BY DEF Idle
    <2>1. pc' = [pc EXCEPT ![t] = [at |-> "pace", gone |-> {}]]
      BY <1>2, <2>0
    <2>2. [at |-> "pace", gone |-> {}] \in Calls
      BY DEF Calls
    <2>3. pc \in [Threads -> Calls] /\ pc[t].gone = {}
      BY DEF GlTypeOK, Idle
    <2> DEFINE c == [at |-> "pace", gone |-> {}]
    <2>4. c \in Calls /\ c.gone = {} /\ pc' = [pc EXCEPT ![t] = c]
      BY <2>1, <2>2
    <2> HIDE DEF c
    <2>5. /\ pc' \in [Threads -> Calls] /\ pc'[t] = c
          /\ \A s \in Threads \ {t} : pc'[s] = pc[s]
      BY <2>3, <2>4
    <2>6. \A s \in Threads : pc[s].at \in {"idle", "pace"} => pc[s].gone = {}
      BY DEF GlTypeOK
    <2> QED BY <2>3, <2>4, <2>5, <2>6
  <1> QED BY <1>1, <1>2

\* Every step keeps the types.
LEMMA GlTypeStep ==
    ASSUME GlTypeOK, Untouched, [Next]_gvars
    PROVE  GlTypeOK'
  <1> USE GlAssumption DEF GlTypeOK, Families, Calls, Idle
  <1>0. CASE UNCHANGED gvars
    BY <1>0 DEF gvars
  <1>1. ASSUME NEW l \in Libraries, Load(l)
        PROVE  GlTypeOK'
    BY <1>1 DEF Load
  <1>2. ASSUME Looks
        PROVE  GlTypeOK'
    <2>1. dispatch' \in Tables /\ (~shim'.renderer => ~dispatch'.hud)
      BY <1>2, DispatchNext DEF Looks, Answers
    <2> QED BY <1>2, <2>1 DEF Looks, driverVars
  <1>3. ASSUME NEW k \in Keys, Create(k)
        PROVE  GlTypeOK'
    BY <1>3 DEF Create
  <1>4. ASSUME NEW t \in Threads, NEW k \in Keys, MakeCurrent(t, k)
        PROVE  GlTypeOK'
    BY <1>4 DEF MakeCurrent
  <1>5. ASSUME NEW t \in Threads, NEW gone \in SUBSET Keys,
               Destroys(t, gone)
        PROVE  GlTypeOK'
    <2>1. dispatch' \in Tables /\ (~shim'.renderer => ~dispatch'.hud)
      BY <1>5, DispatchNext DEF Destroys, Answers
    <2>2. /\ life' \in [Keys -> {"none", "live", "doomed"}]
          /\ pc' \in [Threads -> Calls]
          /\ \A s \in Threads :
               pc'[s].at \in {"idle", "pace"} => pc'[s].gone = {}
      <3>1. Destroyed(gone) \in [Keys -> {"none", "live", "doomed"}]
        BY DEF Destroyed
      <3>2. CASE UNCHANGED pc
        BY <1>5, <3>1, <3>2 DEF Destroys
      <3>3. ASSUME NEW at \in {"forget", "forget_display"},
                   pc' = [pc EXCEPT ![t] = [at |-> at, gone |-> gone]],
                   life' = Destroyed(gone)
            PROVE  /\ life' \in [Keys -> {"none", "live", "doomed"}]
                   /\ pc' \in [Threads -> Calls]
                   /\ \A s \in Threads :
                        pc'[s].at \in {"idle", "pace"} => pc'[s].gone = {}
        <4>1. [at |-> at, gone |-> gone] \in Calls
          OBVIOUS
        <4> HIDE DEF Calls
        <4> QED BY <3>1, <3>3, <4>1
      <3> QED BY <1>5, <3>1, <3>2, <3>3 DEF Destroys
    <2> QED BY <1>5, <2>1, <2>2 DEF Destroys
  <1>6. ASSUME NEW t \in Threads, Release(t)
        PROVE  GlTypeOK'
    BY <1>6 DEF Release
  <1>7. ASSUME NEW t \in Threads, ChooseUnit(t)
        PROVE  GlTypeOK'
    BY <1>7 DEF ChooseUnit
  <1>8. ASSUME NEW t \in Threads, Swaps(t)
        PROVE  GlTypeOK'
    <2>1. dispatch' \in Tables /\ (~shim'.renderer => ~dispatch'.hud)
      BY <1>8, DispatchNext DEF Swaps, Answers
    <2>2. /\ pc' \in [Threads -> Calls]
          /\ \A s \in Threads :
               pc'[s].at \in {"idle", "pace"} => pc'[s].gone = {}
      BY <1>8, PaceCall DEF Swaps
    <2>3. /\ DOMAIN resources' \subseteq Keys
          /\ \A k \in DOMAIN resources' : resources'[k] \in Resource
          /\ objects' \in [Keys -> SUBSET (Complete \cup Atlases)]
      <3>1. CASE UNCHANGED <<resources, objects>>
        BY <3>1
      <3>2. CASE current[t] \in Keys /\ Lists(current[t])
        BY <3>2 DEF Lists
      <3> QED BY <1>8, <3>1, <3>2 DEF Swaps, Draws
    <2> QED BY <1>8, <2>1, <2>2, <2>3 DEF Swaps
  <1>9. ASSUME NEW t \in Threads, SwapReturns(t)
        PROVE  GlTypeOK'
    BY <1>9 DEF SwapReturns, driverVars
  <1>10. ASSUME NEW t \in Threads, Forget(t)
        PROVE  GlTypeOK'
    BY <1>10 DEF Forget, Forgotten, driverVars
  <1> QED
    BY <1>0, <1>1, <1>2, <1>3, <1>4, <1>5, <1>6, <1>7, <1>8, <1>9, <1>10, Steps

\* Choosing a unit is all the game does to its state here.
LEMMA OtherUnit ==
    ASSUME NEW u
    PROVE  [GameState(u) EXCEPT !.unit = 1] = GameState(1)
  <1> DEFINE w == [n \in {0, 1} |-> n]
  <1>1. \A v : GameState(v) = [unit |-> v, tex |-> w, changed |-> {}]
    BY DEF GameState
  <1> HIDE DEF w
  <1> QED BY <1>1

\* Every step leaves the game's GL state to the game.
LEMMA UntouchedStep ==
    ASSUME GlTypeOK, Untouched, [Next]_gvars
    PROVE  Untouched'
  <1> USE DEF Untouched, GlTypeOK
  <1>0. CASE UNCHANGED gvars
    BY <1>0 DEF gvars
  <1>1. ASSUME NEW l \in Libraries, Load(l)
        PROVE  Untouched'
    BY <1>1 DEF Load
  <1>2. ASSUME Looks
        PROVE  Untouched'
    BY <1>2 DEF Looks, driverVars
  <1>3. ASSUME NEW k \in Keys, Create(k)
        PROVE  Untouched'
    BY <1>3 DEF Create
  <1>4. ASSUME NEW t \in Threads, NEW k \in Keys, MakeCurrent(t, k)
        PROVE  Untouched'
    BY <1>4 DEF MakeCurrent
  <1>5. ASSUME NEW t \in Threads, NEW gone \in SUBSET Keys,
               Destroys(t, gone)
        PROVE  Untouched'
    BY <1>5 DEF Destroys, Destroyed, IsCurrent
  <1>6. ASSUME NEW t \in Threads, Release(t)
        PROVE  Untouched'
    BY <1>6 DEF Release
  <1>7. ASSUME NEW t \in Threads, ChooseUnit(t)
        PROVE  Untouched'
    <2> DEFINE k == current[t]
    <2>1. k \in Keys /\ unit' = [unit EXCEPT ![k] = 1]
      BY <1>7 DEF ChooseUnit
    <2>2. gl' = [gl EXCEPT ![k].unit = 1]
      BY <1>7 DEF ChooseUnit
    <2>3. [gl[k] EXCEPT !.unit = 1] = GameState(1)
      <3>1. gl[k] = GameState(unit[k])
        BY <2>1
      <3> QED BY <3>1, OtherUnit
    <2>4. gl' = [gl EXCEPT ![k] = GameState(1)]
      BY <2>2, <2>3
    <2> HIDE DEF k
    <2> QED BY <2>1, <2>4
  <1>8. ASSUME NEW t \in Threads, Swaps(t)
        PROVE  Untouched'
    BY <1>8 DEF Swaps, Draws, Lists
  <1>9. ASSUME NEW t \in Threads, SwapReturns(t)
        PROVE  Untouched'
    BY <1>9 DEF SwapReturns, driverVars
  <1>10. ASSUME NEW t \in Threads, Forget(t)
        PROVE  Untouched'
    BY <1>10 DEF Forget, Forgotten, driverVars
  <1> QED
    BY <1>0, <1>1, <1>2, <1>3, <1>4, <1>5, <1>6, <1>7, <1>8, <1>9, <1>10, Steps

\* A destroyed context lives on while it is current.
LEMMA CurrentStep ==
    ASSUME GlTypeOK, Untouched, Currents, [Next]_gvars
    PROVE  Currents'
  <1> USE GlAssumption DEF Currents, GlTypeOK
  <1>0. CASE UNCHANGED gvars
    BY <1>0 DEF gvars
  <1>1. ASSUME NEW l \in Libraries, Load(l)
        PROVE  Currents'
    BY <1>1 DEF Load
  <1>2. ASSUME Looks
        PROVE  Currents'
    BY <1>2 DEF Looks, driverVars
  <1>3. ASSUME NEW k \in Keys, Create(k)
        PROVE  Currents'
    BY <1>3 DEF Create
  <1>4. ASSUME NEW t \in Threads, NEW k \in Keys, MakeCurrent(t, k)
        PROVE  Currents'
    BY <1>4 DEF MakeCurrent
  <1>5. ASSUME NEW t \in Threads, NEW gone \in SUBSET Keys,
               Destroys(t, gone)
        PROVE  Currents'
    BY <1>5 DEF Destroys, Destroyed, IsCurrent
  <1>6. ASSUME NEW t \in Threads, Release(t)
        PROVE  Currents'
    BY <1>6 DEF Release
  <1>7. ASSUME NEW t \in Threads, ChooseUnit(t)
        PROVE  Currents'
    BY <1>7 DEF ChooseUnit
  <1>8. ASSUME NEW t \in Threads, Swaps(t)
        PROVE  Currents'
    BY <1>8 DEF Swaps, Draws, Lists
  <1>9. ASSUME NEW t \in Threads, SwapReturns(t)
        PROVE  Currents'
    BY <1>9 DEF SwapReturns, driverVars
  <1>10. ASSUME NEW t \in Threads, Forget(t)
        PROVE  Currents'
    BY <1>10 DEF Forget, Forgotten, driverVars
  <1> QED
    BY <1>0, <1>1, <1>2, <1>3, <1>4, <1>5, <1>6, <1>7, <1>8, <1>9, <1>10, Steps

\* While the table is empty the renderer has lost nothing; then it is all
\* there was to find, as is what the shim found for a game without it.
LostInv ==
    /\ shim.renderer /\ ~dispatch.resolved => lost = NoLoss
    /\ libc => \A l \in dispatch.at :
                  IF shim.renderer
                  THEN dispatch.resolved => Forwarded(l) \subseteq dispatch.next
                  ELSE l.exports \subseteq shim.real
    /\ KnownCallsForwarded

\* No library has the function of which no loss is recorded.
LEMMA NothingLost ==
    ASSUME NEW l \in Libraries
    PROVE  NoLoss.fn \notin Forwarded(l) \cup l.exports
  <1>1. NoLoss.fn \notin Functions
    BY DEF NoLoss, Functions
  <1>2. l.exports \subseteq Functions
    BY GlAssumption
  <1>3. Forwarded(l) \subseteq l.exports
    BY DEF Forwarded
  <1> QED BY <1>1, <1>2, <1>3

\* Calls that lose something, and calls that fill the table in, keep that.
LEMMA AnswersKeep ==
    ASSUME GlTypeOK, LostInv, UNCHANGED <<libc, shim>>, Answers
    PROVE  LostInv'
  <1>1. dispatch \in Tables /\ dispatch' \in Tables
    BY DispatchNext DEF Answers, GlTypeOK
  <1>2. dispatch'.at \subseteq Libraries
    BY <1>1 DEF Tables
  <1>3. CASE ~libc
    <2>1. CASE lost' = lost
      BY <1>3, <2>1, DispatchNext
      DEF Answers, LostInv, KnownCallsForwarded
    <2>2. CASE shim.renderer => dispatch' \in Dispatches
      BY <1>3, <2>2, DispatchNext DEF LostInv, KnownCallsForwarded
    <2> QED BY <2>1, <2>2 DEF Answers
  <1>4. CASE libc /\ ~shim.renderer
    <2>1. dispatch' = dispatch
      BY <1>4 DEF Answers
    <2>2. \A l \in dispatch.at : lost'.fn \notin l.exports
      <3>1. CASE lost' = lost
        BY <1>4, <3>1 DEF LostInv, KnownCallsForwarded
      <3>2. CASE lost'.fn \notin shim.real
        BY <1>4, <3>2 DEF LostInv
      <3> QED BY <1>4, <3>1, <3>2 DEF Answers
    <2> QED BY <1>4, <2>1, <2>2 DEF LostInv, KnownCallsForwarded
  <1>5. CASE libc /\ shim.renderer
    <2>1. \/ dispatch' = dispatch
          \/ ~dispatch.resolved /\ dispatch'.resolved
      BY DispatchNext DEF Answers
    <2>2. \A l \in dispatch'.at :
            dispatch'.resolved => Forwarded(l) \subseteq dispatch'.next
      BY <1>5, DispatchNext DEF Answers, LostInv
    <2>3. \A l \in dispatch'.at :
            lost'.fn \in Forwarded(l) =>
                lost' = [fn |-> DamageSwap, first |-> TRUE]
      <3>1. CASE lost' = lost /\ dispatch' = dispatch
        BY <1>5, <3>1 DEF LostInv, KnownCallsForwarded, DamageSwap
      <3>2. CASE lost' = lost /\ ~dispatch.resolved
        BY <1>2, <1>5, <3>2, NothingLost DEF LostInv
      <3>3. CASE lost' # lost
        <4>1. PICK fn : /\ lost' = [fn |-> fn, first |-> ~dispatch.resolved]
                        /\ dispatch' \in Dispatches
                        /\ \/ fn \notin dispatch'.next
                           \/ fn = DamageSwap /\ ~dispatch.resolved
          BY <1>5, <3>3 DEF Answers
        <4>2. dispatch'.resolved
          BY <4>1, DispatchNext
        <4> QED BY <2>2, <4>1, <4>2
      <3> QED BY <2>1, <3>1, <3>2, <3>3
    <2>4. ~dispatch'.resolved => lost' = NoLoss
      <3>1. CASE dispatch' \in Dispatches
        BY <3>1, DispatchNext
      <3>2. CASE dispatch' = dispatch /\ lost' = lost
        BY <1>5, <3>2 DEF LostInv
      <3> QED BY <1>5, <3>1, <3>2 DEF Answers
    <2> QED
      BY <1>5, <2>2, <2>3, <2>4 DEF LostInv, KnownCallsForwarded, DamageSwap
  <1> QED BY <1>3, <1>4, <1>5

\* Every step keeps the account of lost calls.
LEMMA LostStep ==
    ASSUME GlTypeOK, Untouched, LostInv, [Next]_gvars
    PROVE  LostInv'
  <1> USE DEF Answers
  <1>0. CASE UNCHANGED gvars
    BY <1>0, AnswersKeep DEF gvars
  <1>1. ASSUME NEW l \in Libraries, Load(l)
        PROVE  LostInv'
    BY <1>1, AnswersKeep DEF Load
  <1>2. ASSUME Looks
        PROVE  LostInv'
    BY <1>2, AnswersKeep DEF Looks, driverVars
  <1>3. ASSUME NEW k \in Keys, Create(k)
        PROVE  LostInv'
    BY <1>3, AnswersKeep DEF Create
  <1>4. ASSUME NEW t \in Threads, NEW k \in Keys, MakeCurrent(t, k)
        PROVE  LostInv'
    BY <1>4, AnswersKeep DEF MakeCurrent
  <1>5. ASSUME NEW t \in Threads, NEW gone \in SUBSET Keys,
               Destroys(t, gone)
        PROVE  LostInv'
    BY <1>5, AnswersKeep DEF Destroys, Destroyed, IsCurrent
  <1>6. ASSUME NEW t \in Threads, Release(t)
        PROVE  LostInv'
    BY <1>6, AnswersKeep DEF Release
  <1>7. ASSUME NEW t \in Threads, ChooseUnit(t)
        PROVE  LostInv'
    BY <1>7, AnswersKeep DEF ChooseUnit
  <1>8. ASSUME NEW t \in Threads, Swaps(t)
        PROVE  LostInv'
    BY <1>8, AnswersKeep DEF Swaps, Draws, Lists
  <1>9. ASSUME NEW t \in Threads, SwapReturns(t)
        PROVE  LostInv'
    BY <1>9, AnswersKeep DEF SwapReturns, driverVars
  <1>10. ASSUME NEW t \in Threads, Forget(t)
        PROVE  LostInv'
    BY <1>10, AnswersKeep DEF Forget, Forgotten, driverVars
  <1> QED
    BY <1>0, <1>1, <1>2, <1>3, <1>4, <1>5, <1>6, <1>7, <1>8, <1>9, <1>10, Steps

\* The destruction of context k is under way in some call.
InGone(k) == \E t \in Threads : k \in pc[t].gone

\* Resources are listed for contexts that live, or whose end is being dealt
\* with, or that were drawn into after it; no incarnation comes twice.
NamesInv ==
    /\ \A k \in Keys : birth[k] <= births
    /\ \A k \in DOMAIN resources :
         /\ resources[k].birth <= births
         /\ \/ k \in late \/ InGone(k)
            \/ life[k] = "live" /\ resources[k].birth = birth[k]
    /\ ~shim.renderer => DOMAIN resources = {}

\* Every step keeps the list in order.
LEMMA NamesStep ==
    ASSUME GlTypeOK, Untouched, Currents, NamesInv, [Next]_gvars
    PROVE  NamesInv'
  <1> USE GlAssumption DEF NamesInv, InGone, GlTypeOK
  <1>0. CASE UNCHANGED gvars
    BY <1>0 DEF gvars
  <1>1. ASSUME NEW l \in Libraries, Load(l)
        PROVE  NamesInv'
    BY <1>1 DEF Load
  <1>2. ASSUME Looks
        PROVE  NamesInv'
    BY <1>2 DEF Looks, driverVars
  <1>3. ASSUME NEW k \in Keys, Create(k)
        PROVE  NamesInv'
    <2>1. \A j \in DOMAIN resources : resources[j].birth \in Nat
      BY DEF Resource
    <2>2. UNCHANGED <<resources, pc, late, shim>> /\ births' = births + 1
      BY <1>3 DEF Create
    <2>3. \A j \in Keys \ {k} : birth'[j] = birth[j] /\ life'[j] = life[j]
      BY <1>3 DEF Create
    <2>4. birth'[k] = births + 1 /\ life[k] = "none"
      BY <1>3 DEF Create
    <2>5. \A j \in Keys : birth'[j] <= births'
      <3>1. births \in Nat /\ \A j \in Keys : birth[j] \in Nat
        OBVIOUS
      <3>2. \A j \in Keys : birth[j] <= births
        OBVIOUS
      <3> HIDE GlAssumption DEF NamesInv, InGone, GlTypeOK
      <3> QED BY <2>2, <2>3, <2>4, <3>1, <3>2
    <2>6. \A j \in DOMAIN resources : resources[j].birth <= births'
      BY <2>1, <2>2
    <2>7. \A j \in DOMAIN resources :
            \/ j \in late \/ InGone(j)
            \/ life'[j] = "live" /\ resources[j].birth = birth'[j]
      BY <2>3, <2>4
    <2> QED BY <2>2, <2>5, <2>6, <2>7
  <1>4. ASSUME NEW t \in Threads, NEW k \in Keys, MakeCurrent(t, k)
        PROVE  NamesInv'
    BY <1>4 DEF MakeCurrent
  <1>5. ASSUME NEW t \in Threads, NEW gone \in SUBSET Keys,
               Destroys(t, gone)
        PROVE  NamesInv'
    <2>0. /\ UNCHANGED <<shim, birth, births, resources, late>>
          /\ \A j \in Keys : life'[j] # life[j] => j \in gone
          /\ pc[t].gone = {}
      BY <1>5 DEF Destroys, Destroyed, Idle
    <2>1. CASE UNCHANGED <<life, pc>>
      BY <2>0, <2>1
    <2>2. CASE \E at \in {"forget", "forget_display"} :
                 pc' = [pc EXCEPT ![t] = [at |-> at, gone |-> gone]]
      <3>1. \A j : InGone(j) \/ j \in gone => InGone(j)'
        <4>1. pc'[t].gone = gone /\ \A s \in Threads \ {t} : pc'[s] = pc[s]
          BY <2>2
        <4> QED BY <2>0, <4>1
      <3> HIDE DEF InGone
      <3> QED BY <2>0, <3>1
    <2>3. CASE ~shim.renderer
      BY <2>0, <2>3
    <2> QED BY <1>5, <2>1, <2>2, <2>3 DEF Destroys
  <1>6. ASSUME NEW t \in Threads, Release(t)
        PROVE  NamesInv'
    BY <1>6 DEF Release
  <1>7. ASSUME NEW t \in Threads, ChooseUnit(t)
        PROVE  NamesInv'
    BY <1>7 DEF ChooseUnit
  <1>8. ASSUME NEW t \in Threads, Swaps(t)
        PROVE  NamesInv'
    <2>1. \A s \in Threads : pc'[s].gone = pc[s].gone
      BY <1>8, PaceCall DEF Swaps
    <2>2. UNCHANGED <<shim, life, birth, births, current>>
      BY <1>8 DEF Swaps
    <2>3. CASE UNCHANGED <<resources, late>>
      BY <2>1, <2>2, <2>3
    <2>4. ASSUME NEW k \in Keys, k = current[t], Draws(k), shim.renderer
          PROVE  NamesInv'
      <3>1. life[k] = "live" \/ k \in late'
        BY <2>4 DEF Draws, Currents
      <3>2. late \subseteq late'
        BY <2>4 DEF Draws
      <3>3. CASE UNCHANGED resources
        BY <2>1, <2>2, <3>2, <3>3
      <3>4. CASE Lists(k)
        BY <2>1, <2>2, <2>4, <3>1, <3>2, <3>4 DEF Lists
      <3> QED BY <2>4, <3>3, <3>4 DEF Draws
    <2> QED BY <1>8, <2>3, <2>4 DEF Swaps
  <1>9. ASSUME NEW t \in Threads, SwapReturns(t)
        PROVE  NamesInv'
    BY <1>9 DEF SwapReturns, driverVars
  <1>10. ASSUME NEW t \in Threads, Forget(t)
        PROVE  NamesInv'
    BY <1>10 DEF Forget, Forgotten, driverVars
  <1> QED
    BY <1>0, <1>1, <1>2, <1>3, <1>4, <1>5, <1>6, <1>7, <1>8, <1>9, <1>10, Steps

\* The HUD's objects in a context are those of its own resource.
LeakInv ==
    \A k \in Keys \ orphaned :
        life[k] # "none" =>
            objects[k] =
                IF k \in DOMAIN resources /\ resources[k].birth = birth[k]
                THEN Owned(resources[k]) ELSE {}

\* Every step keeps the account of objects.
LEMMA LeakStep ==
    ASSUME GlTypeOK, Untouched, Currents, NamesInv, LeakInv, [Next]_gvars
    PROVE  LeakInv'
  <1> USE DEF NamesInv, LeakInv, GlTypeOK
  <1>0. CASE UNCHANGED gvars
    BY <1>0 DEF gvars
  <1>1. ASSUME NEW l \in Libraries, Load(l)
        PROVE  LeakInv'
    BY <1>1 DEF Load
  <1>2. ASSUME Looks
        PROVE  LeakInv'
    BY <1>2 DEF Looks, driverVars
  <1>3. ASSUME NEW k \in Keys, Create(k)
        PROVE  LeakInv'
    <2>1. \A j \in DOMAIN resources : resources[j].birth \in Nat
      BY DEF Resource
    <2>2. /\ resources' = resources /\ birth'[k] = births + 1
          /\ objects'[k] = {}
      BY <1>3 DEF Create
    <2>3. \A j \in Keys \ {k} : /\ birth'[j] = birth[j] /\ life'[j] = life[j]
                                /\ objects'[j] = objects[j]
                                /\ j \in orphaned' <=> j \in orphaned
      BY <1>3 DEF Create
    <2>4. k \in DOMAIN resources => resources[k].birth # birth'[k]
      BY <2>1, <2>2
    <2> SUFFICES ASSUME NEW j \in Keys, j \notin orphaned', life'[j] # "none"
                 PROVE  objects'[j] =
                          IF /\ j \in DOMAIN resources
                             /\ resources[j].birth = birth'[j]
                          THEN Owned(resources[j]) ELSE {}
      BY <2>2 DEF Owned
    <2>5. CASE j = k
      BY <2>2, <2>4, <2>5
    <2>6. CASE j # k
      <3>1. /\ birth'[j] = birth[j] /\ objects'[j] = objects[j]
            /\ life[j] # "none" /\ j \notin orphaned
        BY <2>3, <2>6
      <3>2. objects[j] = IF /\ j \in DOMAIN resources
                            /\ resources[j].birth = birth[j]
                         THEN Owned(resources[j]) ELSE {}
        BY <3>1
      <3> QED BY <3>1, <3>2
    <2> QED BY <2>5, <2>6
  <1>4. ASSUME NEW t \in Threads, NEW k \in Keys, MakeCurrent(t, k)
        PROVE  LeakInv'
    BY <1>4 DEF MakeCurrent
  <1>5. ASSUME NEW t \in Threads, NEW gone \in SUBSET Keys,
               Destroys(t, gone)
        PROVE  LeakInv'
    BY <1>5 DEF Destroys, Destroyed, IsCurrent
  <1>6. ASSUME NEW t \in Threads, Release(t)
        PROVE  LeakInv'
    BY <1>6 DEF Release
  <1>7. ASSUME NEW t \in Threads, ChooseUnit(t)
        PROVE  LeakInv'
    BY <1>7 DEF ChooseUnit
  <1>8. ASSUME NEW t \in Threads, Swaps(t)
        PROVE  LeakInv'
    <2>1. UNCHANGED <<life, birth, orphaned>>
      BY <1>8 DEF Swaps
    <2>2. CASE UNCHANGED <<resources, objects>>
      BY <2>1, <2>2
    <2>3. ASSUME NEW k \in Keys, Lists(k)
          PROVE  LeakInv'
      <3>1. k \notin orphaned /\ life[k] # "none" =>
                objects'[k] = Owned(resources'[k])
        BY <2>3 DEF Lists
      <3> QED BY <2>1, <2>3, <3>1 DEF Lists
    <2> QED BY <1>8, <2>2, <2>3 DEF Swaps, Draws
  <1>9. ASSUME NEW t \in Threads, SwapReturns(t)
        PROVE  LeakInv'
    BY <1>9 DEF SwapReturns, driverVars
  <1>10. ASSUME NEW t \in Threads, Forget(t)
        PROVE  LeakInv'
    BY <1>10 DEF Forget, Forgotten, driverVars
  <1> QED
    BY <1>0, <1>1, <1>2, <1>3, <1>4, <1>5, <1>6, <1>7, <1>8, <1>9, <1>10, Steps

-----------------------------------------------------------------------------
\* The inductive invariant of the OpenGL backend.
GlInv == /\ GlTypeOK /\ Untouched /\ Currents /\ LostInv /\ NamesInv /\ LeakInv

LEMMA GlInitInv == Init => GlInv
  <1> SUFFICES ASSUME Init PROVE GlInv
    OBVIOUS
  <1>1. GlTypeOK
    <2>1. shim \in [renderer : BOOLEAN, real : SUBSET Functions]
      <3>1. loaded \subseteq Libraries
        BY DEF Init
      <3>2. Exports(loaded) \subseteq Functions
        BY <3>1, GlAssumption DEF Exports
      <3>3. shim \in [renderer : IF libc THEN BOOLEAN ELSE {FALSE},
                     real : {IF libc THEN Exports(loaded) ELSE {}}]
        BY DEF Init
      <3> QED BY <3>2, <3>3
    <2>2. dispatch \in Tables /\ ~dispatch.hud
      BY DEF Init, Tables
    <2>3. Idle \in Calls /\ Idle.gone = {}
      BY DEF Idle, Calls
    <2> QED BY <2>1, <2>2, <2>3 DEF Init, GlTypeOK
  <1>2. Untouched
    BY DEF Init, Untouched
  <1>3. Currents
    BY DEF Init, Currents
  <1>4. LostInv
    <2>1. \A l \in loaded : NoLoss.fn \notin Forwarded(l) \cup l.exports
      BY NothingLost DEF Init
    <2>2. libc /\ ~shim.renderer =>
            \A l \in loaded : l.exports \subseteq shim.real
      BY DEF Init, Exports
    <2> QED BY <2>1, <2>2 DEF Init, LostInv, KnownCallsForwarded
  <1>5. NamesInv
    BY DEF Init, NamesInv
  <1>6. LeakInv
    BY DEF Init, LeakInv
  <1> QED BY <1>1, <1>2, <1>3, <1>4, <1>5, <1>6 DEF GlInv

\* Every reachable state of the OpenGL backend satisfies the invariant.
THEOREM GlInductive == Spec => []GlInv
  <1>1. GlInv /\ [Next]_gvars => GlInv'
    BY GlTypeStep, UntouchedStep, CurrentStep, LostStep, NamesStep, LeakStep
    DEF GlInv
  <1> QED BY GlInitInv, <1>1, PTL DEF Spec

\* gl_hud_renderer.c:229-268 and 318-383: for any number of threads, contexts
\* and atlases, no drawing and no failure in one changes the GL state of the
\* game or leaves an object behind that no resource names.
THEOREM ContextsUntouched == Spec => []ContextUntouched
  <1>1. GlInv => StateRestored
    BY DEF GlInv, Untouched, StateRestored
  <1>2. GlInv => NoGlLeak
    <2> SUFFICES ASSUME GlInv,
                        NEW k \in Keys \ (late \cup stale \cup orphaned
                                            \cup Pending),
                        life[k] = "live"
                 PROVE  objects[k] = IF k \in DOMAIN resources
                                     THEN Owned(resources[k]) ELSE {}
      BY DEF NoGlLeak, Owned
    <2>1. ~InGone(k)
      BY DEF InGone, Pending
    <2>2. k \in DOMAIN resources => resources[k].birth = birth[k]
      BY <2>1 DEF GlInv, NamesInv
    <2> QED BY <2>2 DEF GlInv, LeakInv
  <1>3. GlInv => ContextUntouched
    BY <1>1, <1>2 DEF ContextUntouched
  <1> QED BY <1>3, GlInductive, PTL

\* gl_pacer_interposer.c:348-386: a listed resource is of the context that now
\* has its handle, outside the windows the property names.
THEOREM NamesBelong == Spec => []NamesOfContext
  <1>1. GlInv => NamesOfContext
    <2> SUFFICES ASSUME GlInv,
                        NEW k \in DOMAIN resources \ (late \cup Pending)
                 PROVE  resources[k].birth = birth[k]
      BY DEF NamesOfContext
    <2>1. ~InGone(k)
      BY DEF InGone, Pending
    <2> QED BY <2>1 DEF GlInv, NamesInv
  <1> QED BY <1>1, GlInductive, PTL

\* gl_pacer_dispatch.c:141-212, gl_pacer_shim.c:109-155: whatever functions
\* the libraries have, and in whatever order they are loaded, no call is lost
\* of a function that libGL.so.1 or libEGL.so.1 exported when the renderer was
\* first called, except a damage swap that read the table before it was filled
\* in; and without a renderer none of what a library exported at start.
THEOREM CallsForwarded == Spec => []KnownCallsForwarded
  <1>1. GlInv => KnownCallsForwarded
    BY DEF GlInv, LostInv
  <1> QED BY <1>1, GlInductive, PTL

(***************************************************************************)
(* The runtime log.                                                        *)
(***************************************************************************)

Activations == {"start", "opened", "header", "scan", "remove", "pruned", "on",
           "off"}

Kinds == {"none", "header", "event", "cap"}

LogRecords == [fd : Nat, file : Nat, bytes : Nat, capped : BOOLEAN,
               first : Nat]

\* The variables that are functions on the copies.
PerCopy ==
    /\ log \in [Copies -> LogRecords] /\ act \in [Copies -> Activations]
    /\ kept \in [Copies -> SUBSET Nat]
    /\ record \in [Copies -> [kind : Kinds, left : Nat]]
    /\ began \in [Copies -> Kinds] /\ said \in [Copies -> Nat]

\* The types; a name in the directory leads to a file that exists.
LogTypeOK ==
    /\ inode \in Seq([size : Nat, time : Nat])
    /\ dir \in [DOMAIN dir -> 1..Len(inode)]
    /\ DOMAIN dir \subseteq Nat /\ IsFiniteSet(DOMAIN dir)
    /\ clock \in Nat
    /\ PerCopy
    /\ \A c \in Copies : log[c].file \in 0..Len(inode)

\* A descriptor, while it is private too, is that of the file under its
\* process's name, unless another process has unlinked that.
Held(c) ==
    /\ log[c].fd \in {0, log[c].file}
    /\ \/ log[c].file = 0
       \/ Log!Exists(Pid[c]) /\ dir[Pid[c]] = log[c].file
       \/ \E p \in Log!Pids \ {Pid[c]} : <<p, Pid[c]>> \in removed

\* There is something to write only while the header or an event is written,
\* and an event only comes after the header, or after the cap.
Begun(c) ==
    /\ \/ record[c] = Log!None
       \/ /\ act[c] \in {"header", "on"} /\ record[c].left > 0
          /\ record[c].kind \in {"header", "event", "cap"}
    /\ log[c].fd # 0 => act[c] = "on"
    /\ act[c] \in {"start", "opened"} => /\ record[c] = Log!None
                                         /\ began[c] = "none" /\ said[c] = 0
                                         /\ c \notin dropped \cup failed
    /\ act[c] \in {"start", "off"} \/ log[c].file # 0
    /\ c \notin failed =>
         /\ began[c] \in {"none", "header", "cap"}
         /\ record[c].kind = "event" => began[c] # "none"
         /\ act[c] \in Activations \ {"start", "opened", "off"}
              /\ record[c] = Log!None => began[c] # "none" \/ log[c].capped

\* The room a copy counts with: for what it is writing and, until it has
\* thrown a record away, for the cap message after that.
Room(c) ==
    LET l == log[c]
        r == record[c]
        roomy == l.first + CapLen <= Limit
    IN /\ l.first <= Limit => l.bytes + r.left <= Limit
       /\ ~l.capped => said[c] = 0 /\ c \notin dropped /\ r.kind # "cap"
       /\ ~l.capped /\ roomy => l.bytes + r.left + CapLen <= Limit
       /\ l.capped /\ roomy /\ c \notin failed =>
            \/ r.kind = "cap" /\ said[c] + r.left = CapLen
            \/ r = Log!None /\ said[c] = CapLen

Few == Cardinality(DOMAIN dir) <= Retention

\* An activation that will leave few logs: it has yet to scan the directory, or
\* the logs it is going to keep are few.
Pruning(c) ==
    \/ act[c] \in {"opened", "header", "scan"}
    \/ /\ act[c] = "remove" /\ IsFiniteSet(kept[c])
       /\ \/ Cardinality(kept[c]) < Retention
          \/ Cardinality(kept[c]) <= Retention /\ ~Log!Exists(Pid[c])

\* Some activation could not prune, or few logs are left, or none has been
\* opened, or an activation under way will leave few.
Bounded ==
    \/ unpruned \/ Few
    \/ \A c \in Copies : act[c] \in {"start", "off"}
    \/ \E c \in Copies : Pruning(c)

Told == \A c \in Copies : Begun(c) /\ Room(c)

OwnKept == \A c \in Copies : Held(c)

LogInv == LogTypeOK /\ OwnKept /\ Told /\ Bounded

-----------------------------------------------------------------------------
(* The newest L of finitely many logs are at most L.                       *)

\* By modification time, then by name.
Newer(T, a, b) == T[a] > T[b] \/ (T[a] = T[b] /\ a > b)

LEMMA NewestAreFew ==
    ASSUME NEW S \in SUBSET Nat, IsFiniteSet(S), NEW T \in [S -> Nat],
           NEW L \in Nat
    PROVE  LET K == {n \in S : Cardinality({o \in S : Newer(T, o, n)}) < L}
           IN IsFiniteSet(K) /\ Cardinality(K) <= L
  <1> DEFINE above(n) == {o \in S : Newer(T, o, n)}
             K == {n \in S : Cardinality(above(n)) < L}
             rank == [n \in K |-> Cardinality(above(n))]
  <1>1. \A n \in S : IsFiniteSet(above(n)) /\ Cardinality(above(n)) \in Nat
    BY FS_Subset, FS_CardinalityType
  <1>2. \A a, b \in S : Newer(T, a, b) =>
          Cardinality(above(a)) < Cardinality(above(b))
    <2> SUFFICES ASSUME NEW a \in S, NEW b \in S, Newer(T, a, b)
                 PROVE  Cardinality(above(a)) < Cardinality(above(b))
      OBVIOUS
    <2>1. above(a) \subseteq above(b) /\ a \in above(b) /\ a \notin above(a)
      <3>1. /\ T[a] \in Nat /\ T[b] \in Nat /\ a \in Nat /\ b \in Nat
            /\ \A o \in S : T[o] \in Nat /\ o \in Nat
        OBVIOUS
      <3>2. \A o \in S : Newer(T, o, a) => Newer(T, o, b)
        BY <3>1 DEF Newer
      <3>3. ~Newer(T, a, a)
        BY <3>1 DEF Newer
      <3> QED BY <3>2, <3>3
    <2> HIDE DEF above
    <2>2. /\ Cardinality(above(a)) <= Cardinality(above(b))
          /\ Cardinality(above(a)) # Cardinality(above(b))
      BY <1>1, <2>1, FS_Subset
    <2> QED BY <1>1, <2>2
  <1>3. \A a, b \in S : a # b => Newer(T, a, b) \/ Newer(T, b, a)
    BY DEF Newer
  <1> HIDE DEF above
  <1>4. rank \in [K -> 0..(L - 1)]
    <2>1. \A n \in K : Cardinality(above(n)) \in 0..(L - 1)
      BY <1>1
    <2> HIDE DEF K
    <2> QED BY <2>1
  <1>5. \A a, b \in K : rank[a] = rank[b] => a = b
    <2> SUFFICES ASSUME NEW a \in K, NEW b \in K, a # b
                 PROVE  rank[a] # rank[b]
      OBVIOUS
    <2>1. rank[a] = Cardinality(above(a)) /\ rank[b] = Cardinality(above(b))
      OBVIOUS
    <2> QED BY <1>1, <1>2, <1>3, <2>1
  <1>6. rank \in Injection(K, 0..(L - 1))
    BY <1>4, <1>5 DEF Injection, IsInjective
  <1>7. IsFiniteSet(0..(L - 1)) /\ Cardinality(0..(L - 1)) = L
    BY FS_Interval
  <1> HIDE DEF K, rank
  <1>8. IsFiniteSet(K) /\ Cardinality(K) <= L
    BY <1>6, <1>7, FS_Injection
  <1> QED BY <1>8 DEF K, above

-----------------------------------------------------------------------------
(* The types, and that the names in the directory stay finitely many.      *)

\* A step of one copy c is one of these, and c's index is the only one it
\* touches.
CopyStep(c) ==
    \/ \E n \in Lengths : Log!Header(c, n) \/ Log!Write(c, n)
    \/ \E n \in 1..Limit : Log!WritePart(c, n)
    \/ Log!WriteFails(c) \/ Log!Open(c) \/ Log!OpenFails(c)
    \/ Log!Lock(c) \/ Log!LockFails(c) \/ Log!Scan(c) \/ Log!Remove(c)
    \/ Log!Publish(c) \/ Log!Close(c)

\* write_locked either queues the record whole with the cap message's room
\* left after it, or throws it away: for good, or announcing the cap.
Outcome(l, kind, n, p) ==
    \/ /\ l.capped \/ l.bytes >= Limit
       /\ p.out = Log!None /\ p.capped = TRUE /\ p.drops = TRUE
    \/ /\ ~l.capped /\ l.bytes + n + CapLen <= Limit
       /\ p.out = [kind |-> kind, left |-> n]
       /\ p.capped = FALSE /\ p.drops = FALSE
    \/ /\ ~l.capped /\ p.capped = TRUE /\ p.drops = TRUE
       /\ \E m \in Nat \ {0} :
            /\ p.out = [kind |-> "cap", left |-> m]
            /\ l.bytes + m <= Limit
            /\ l.bytes + CapLen <= Limit => m = CapLen

LEMMA PreparedIs ==
    ASSUME NEW l \in LogRecords, NEW kind \in {"header", "event"},
           NEW n \in Lengths
    PROVE  /\ Log!Prepared(l, kind, n).out \in [kind : Kinds, left : Nat]
           /\ Log!Prepared(l, kind, n).capped \in BOOLEAN
           /\ Outcome(l, kind, n, Log!Prepared(l, kind, n))
  <1> USE LogAssumption DEF Log!Parameters
  <1>1. /\ l.bytes \in Nat /\ l.capped \in BOOLEAN
        /\ n \in Nat \ {0} /\ CapLen \in Nat \ {0} /\ Limit \in Nat
    BY DEF LogRecords
  <1>2. CASE l.capped \/ l.bytes >= Limit
    BY <1>1, <1>2 DEF Log!Prepared, Log!None, Kinds, Outcome
  <1>3. CASE ~(l.capped \/ l.bytes >= Limit) /\ Log!Fits(n, Limit - l.bytes)
    <2>1. l.bytes + n + CapLen <= Limit
      BY <1>1, <1>3 DEF Log!Fits
    <2> QED BY <1>1, <1>3, <2>1 DEF Log!Prepared, Kinds, Outcome
  <1>4. CASE ~(l.capped \/ l.bytes >= Limit) /\ ~Log!Fits(n, Limit - l.bytes)
    <2> DEFINE m == Log!Least(CapLen, Limit - l.bytes)
    <2>1. /\ m \in Nat \ {0} /\ l.bytes + m <= Limit
          /\ l.bytes + CapLen <= Limit => m = CapLen
      BY <1>1, <1>4 DEF Log!Least
    <2>2. Log!Prepared(l, kind, n) = [out |-> [kind |-> "cap", left |-> m],
                                  capped |-> TRUE, drops |-> TRUE]
      BY <1>4 DEF Log!Prepared
    <2> HIDE DEF m
    <2> QED BY <1>4, <2>1, <2>2 DEF Kinds, Outcome
  <1> QED BY <1>2, <1>3, <1>4

\* Only c's entries change.
OnlyOf(c) ==
    \A d \in Copies \ {c} :
        /\ log'[d] = log[d] /\ act'[d] = act[d] /\ record'[d] = record[d]
        /\ began'[d] = began[d] /\ said'[d] = said[d] /\ kept'[d] = kept[d]
        /\ d \in dropped' <=> d \in dropped
        /\ d \in failed' <=> d \in failed

LEMMA OwnStep ==
    ASSUME PerCopy, NEW c \in Copies, CopyStep(c)
    PROVE  OnlyOf(c)
  <1> USE DEF PerCopy, OnlyOf
  <1>1. ASSUME NEW n \in Lengths, Log!Header(c, n) \/ Log!Write(c, n)
        PROVE  OnlyOf(c)
    BY <1>1 DEF Log!Header, Log!Write, Log!Prepare
  <1>2. ASSUME NEW n \in 1..Limit, Log!WritePart(c, n)
        PROVE  OnlyOf(c)
    BY <1>2 DEF Log!WritePart
  <1>3. CASE \/ Log!WriteFails(c) \/ Log!OpenFails(c)
             \/ Log!Lock(c) \/ Log!LockFails(c)
    BY <1>3 DEF Log!WriteFails, Log!OpenFails, Log!Lock, Log!LockFails
  <1>4. CASE Log!Open(c)
    BY <1>4 DEF Log!Open
  <1>5. CASE Log!Scan(c)
    BY <1>5 DEF Log!Scan
  <1>6. CASE Log!Remove(c)
    BY <1>6 DEF Log!Remove
  <1>7. CASE Log!Publish(c) \/ Log!Close(c)
    BY <1>7 DEF Log!Publish, Log!Close
  <1> QED BY <1>1, <1>2, <1>3, <1>4, <1>5, <1>6, <1>7 DEF CopyStep

\* Nothing of the directory changes.
SameFiles == dir' = dir /\ inode' = inode /\ clock' = clock

LEMMA LogTypeStep ==
    ASSUME LogTypeOK, Told, NEW c \in Copies, CopyStep(c)
    PROVE  LogTypeOK'
  <1> USE LogAssumption DEF Log!Parameters
  <1> DEFINE Fine(l) == l \in LogRecords /\ l.file \in 0..Len(inode)
  <1>1. /\ Fine(log[c]) /\ act[c] \in Activations /\ kept[c] \in SUBSET Nat
        /\ record[c] \in [kind : Kinds, left : Nat]
        /\ began[c] \in Kinds /\ said[c] \in Nat
    BY DEF LogTypeOK, PerCopy
  <1>2. ASSUME SameFiles, PerCopy',
               \A d \in Copies : log'[d].file = log[d].file
        PROVE  LogTypeOK'
    BY <1>2 DEF LogTypeOK, SameFiles
  <1>3. Log!None \in [kind : Kinds, left : Nat]
    BY DEF Log!None, Kinds
  <1>4. ASSUME NEW kind \in {"header", "event"}, NEW n \in Lengths,
               Log!Prepare(c, log[c], kind, n)
        PROVE  /\ log' \in [Copies -> LogRecords]
               /\ record' \in [Copies -> [kind : Kinds, left : Nat]]
               /\ \A d \in Copies : log'[d].file = log[d].file
    <2> DEFINE p == Log!Prepared(log[c], kind, n)
    <2>1. p.out \in [kind : Kinds, left : Nat] /\ p.capped \in BOOLEAN
      BY <1>1, PreparedIs
    <2>2. /\ log' = [log EXCEPT ![c] = [log[c] EXCEPT !.capped = p.capped]]
          /\ record' = [record EXCEPT ![c] = p.out]
      BY <1>4 DEF Log!Prepare
    <2> HIDE DEF p
    <2> QED BY <1>1, <2>1, <2>2 DEF LogTypeOK, PerCopy, LogRecords
  <1>5. ASSUME NEW n \in Lengths, Log!Header(c, n)
        PROVE  LogTypeOK'
    <2>1. PerCopy' /\ \A d \in Copies : log'[d].file = log[d].file
      BY <1>4, <1>5 DEF Log!Header, LogTypeOK, PerCopy, Activations
    <2> QED BY <1>2, <1>5, <2>1 DEF Log!Header, SameFiles
  <1>6. ASSUME NEW n \in Lengths, Log!Write(c, n)
        PROVE  LogTypeOK'
    <2>1. PerCopy' /\ \A d \in Copies : log'[d].file = log[d].file
      BY <1>4, <1>6 DEF Log!Write, LogTypeOK, PerCopy
    <2> QED BY <1>2, <1>6, <2>1 DEF Log!Write, SameFiles
  <1>7. ASSUME NEW n \in 1..Limit, Log!WritePart(c, n)
        PROVE  LogTypeOK'
    <2>1. /\ inode' \in Seq([size : Nat, time : Nat])
          /\ Len(inode') = Len(inode) /\ clock' \in Nat /\ dir' = dir
      <3>1. /\ inode' = [inode EXCEPT ![log[c].file] =
                           [size |-> @.size + n, time |-> clock + 1]]
            /\ clock' = clock + 1 /\ dir' = dir
        BY <1>7 DEF Log!WritePart
      <3>2. inode \in Seq([size : Nat, time : Nat]) /\ clock \in Nat
        BY DEF LogTypeOK
      <3>3. log[c].file \in 1..Len(inode) /\ n \in Nat
        <4>1. record[c].left > 0 /\ n \in Nat /\ Begun(c)
          BY <1>7 DEF Log!WritePart, Told
        <4>2. record[c] # Log!None
          BY <4>1 DEF Log!None
        <4>3. act[c] \notin {"start", "off"}
          BY <4>1, <4>2 DEF Begun
        <4>4. log[c].file # 0
          BY <4>1, <4>3 DEF Begun
        <4> QED BY <1>1, <3>2, <4>1, <4>4
      <3>4. inode[log[c].file] \in [size : Nat, time : Nat]
        BY <3>2, <3>3, ElementOfSeq
      <3> DEFINE size == inode[log[c].file].size + n
                 tick == clock + 1
                 file == [size |-> size, time |-> tick]
      <3>5. size \in Nat /\ tick \in Nat
        BY <3>2, <3>3, <3>4
      <3>6. inode' = [inode EXCEPT ![log[c].file] = file] /\ clock' = tick
        BY <3>1
      <3> HIDE DEF size, tick
      <3>7. file \in [size : Nat, time : Nat]
        BY <3>5
      <3> HIDE DEF file
      <3>8. /\ inode' \in Seq([size : Nat, time : Nat])
            /\ Len(inode') = Len(inode)
        <4> DEFINE S == [size : Nat, time : Nat]
                   f == log[c].file
        <4>1. inode \in Seq(S) /\ f \in 1..Len(inode) /\ file \in S
              /\ inode' = [inode EXCEPT ![f] = file]
          BY <3>2, <3>3, <3>6, <3>7
        <4> HIDE DEF S, f
        <4>2. inode' \in Seq(S) /\ Len(inode') = Len(inode)
          BY <4>1
        <4> QED BY <4>2 DEF S
      <3> QED BY <3>1, <3>5, <3>6, <3>8
    <2>2. PerCopy' /\ \A d \in Copies : log'[d].file = log[d].file
      <3>1. log' = [log EXCEPT ![c].bytes = @ + n]
        BY <1>7 DEF Log!WritePart
      <3>2. /\ log' \in [Copies -> LogRecords]
            /\ \A d \in Copies : log'[d].file = log[d].file
        <4>1. log[c].bytes + n \in Nat
          BY <1>1 DEF LogRecords
        <4> DEFINE l == [log[c] EXCEPT !.bytes = log[c].bytes + n]
        <4>2. l \in LogRecords /\ l.file = log[c].file
          BY <1>1, <4>1 DEF LogRecords
        <4>3. log' = [log EXCEPT ![c] = l]
          BY <3>1
        <4> HIDE DEF l
        <4> QED BY <4>2, <4>3 DEF LogTypeOK, PerCopy
      <3>4. record' \in [Copies -> [kind : Kinds, left : Nat]]
        <4>0. n \in 1..record[c].left
          BY <1>7 DEF Log!WritePart
        <4>1. record[c].left - n \in Nat
          <5> DEFINE left == record[c].left
          <5>1. left \in Nat /\ n \in 1..left
            BY <1>1, <4>0
          <5> HIDE DEF left
          <5>2. left - n \in Nat
            BY <5>1
          <5> QED BY <5>2 DEF left
        <4> DEFINE r == IF n = record[c].left THEN Log!None
                        ELSE [record[c] EXCEPT !.left = record[c].left - n]
        <4>2. r \in [kind : Kinds, left : Nat]
          BY <1>1, <1>3, <4>1
        <4>3. record' = [record EXCEPT ![c] = r]
          BY <1>7 DEF Log!WritePart
        <4> HIDE DEF r
        <4> QED BY <4>2, <4>3 DEF LogTypeOK, PerCopy
      <3>5. began' \in [Copies -> Kinds] /\ said' \in [Copies -> Nat]
        <4> DEFINE b == IF began[c] = "none" THEN record[c].kind ELSE began[c]
                   s == IF record[c].kind = "cap" THEN said[c] + n ELSE said[c]
        <4>1. began' = [began EXCEPT ![c] = b] /\ said' = [said EXCEPT ![c] = s]
          BY <1>7 DEF Log!WritePart
        <4>2. b \in Kinds
          BY <1>1
        <4>3. s \in Nat
          <5>1. said[c] \in Nat /\ n \in Nat
            BY <1>1, <1>7
          <5> QED BY <5>1
        <4>4. began \in [Copies -> Kinds] /\ said \in [Copies -> Nat]
          BY DEF LogTypeOK, PerCopy
        <4> HIDE DEF b, s
        <4> QED BY <4>1, <4>2, <4>3, <4>4
      <3>6. act' = act /\ kept' = kept
        BY <1>7 DEF Log!WritePart
      <3> QED BY <3>2, <3>4, <3>5, <3>6 DEF LogTypeOK, PerCopy
    <2> QED BY <2>1, <2>2 DEF LogTypeOK
  <1>8. CASE \/ Log!WriteFails(c) \/ Log!Lock(c) \/ Log!LockFails(c)
             \/ Log!OpenFails(c) /\ SameFiles
    <2>1. PerCopy' /\ log' = log
      <3>1. CASE Log!WriteFails(c)
        BY <1>3, <3>1 DEF Log!WriteFails, LogTypeOK, PerCopy
      <3>2. CASE Log!OpenFails(c)
        BY <3>2 DEF Log!OpenFails, LogTypeOK, PerCopy, Activations
      <3>3. CASE Log!Lock(c) \/ Log!LockFails(c)
        BY <3>3 DEF Log!Lock, Log!LockFails, LogTypeOK, PerCopy, Activations
      <3> QED BY <1>8, <3>1, <3>2, <3>3 DEF SameFiles
    <2> QED BY <1>2, <1>8, <2>1
            DEF Log!WriteFails, Log!OpenFails, Log!Lock, Log!LockFails,
                SameFiles
  <1>9. CASE Log!Scan(c)
    <2>1. PerCopy' /\ log' = log
      BY <1>9 DEF Log!Scan, LogTypeOK, PerCopy, Activations
    <2> QED BY <1>2, <1>9, <2>1 DEF Log!Scan, SameFiles
  <1>10. CASE Log!Publish(c) \/ Log!Close(c)
    <2>1. PerCopy' /\ \A d \in Copies : log'[d].file = log[d].file
      <3>1. PICK fd \in {0, log[c].file} : log' = [log EXCEPT ![c].fd = fd]
        BY <1>10 DEF Log!Publish, Log!Close
      <3> DEFINE l == [log[c] EXCEPT !.fd = fd]
      <3>2. l \in LogRecords /\ l.file = log[c].file
        <4>1. fd \in Nat
          BY <1>1 DEF LogRecords
        <4> HIDE LogAssumption
        <4> QED BY <1>1, <4>1 DEF LogRecords
      <3>3. log' = [log EXCEPT ![c] = l]
        BY <3>1
      <3> HIDE DEF l
      <3>4. /\ log' \in [Copies -> LogRecords]
            /\ \A d \in Copies : log'[d].file = log[d].file
        BY <3>2, <3>3 DEF LogTypeOK, PerCopy
      <3> QED BY <1>10, <3>4
              DEF Log!Publish, Log!Close, LogTypeOK, PerCopy, Activations
    <2> QED BY <1>2, <1>10, <2>1 DEF Log!Publish, Log!Close, SameFiles
  <1>11. CASE Log!Remove(c)
    <2>1. PerCopy' /\ log' = log /\ inode' = inode /\ clock' = clock
      BY <1>11 DEF Log!Remove, LogTypeOK, PerCopy, Activations
    <2>2. /\ DOMAIN dir' \subseteq DOMAIN dir
          /\ dir' \in [DOMAIN dir' -> 1..Len(inode)]
      BY <1>11 DEF Log!Remove, LogTypeOK
    <2>3. IsFiniteSet(DOMAIN dir')
      BY <2>2, FS_Subset DEF LogTypeOK
    <2> QED BY <2>1, <2>2, <2>3 DEF LogTypeOK
  <1>13. ASSUME Log!Creates(Pid[c])
         PROVE  /\ inode' \in Seq([size : Nat, time : Nat])
                /\ Len(inode') = Len(inode) + 1 /\ clock' \in Nat
                /\ dir' \in [DOMAIN dir' -> 1..Len(inode')]
                /\ DOMAIN dir' \subseteq Nat /\ IsFiniteSet(DOMAIN dir')
    <2> DEFINE name == Pid[c]
               new == Len(inode) + 1
    <2>1. /\ clock' = clock + 1
          /\ dir' = [n \in DOMAIN dir \cup {name} |->
                       IF n = name THEN new ELSE dir[n]]
          /\ inode' = Append(inode, [size |-> 0, time |-> clock + 1])
      BY <1>13 DEF Log!Creates
    <2>2. /\ inode' \in Seq([size : Nat, time : Nat])
          /\ Len(inode') = new /\ clock' \in Nat /\ new \in Nat
      BY <2>1 DEF LogTypeOK
    <2>3. /\ dir' \in [DOMAIN dir' -> 1..new]
          /\ DOMAIN dir' = DOMAIN dir \cup {name}
      BY <2>1 DEF LogTypeOK
    <2>4. DOMAIN dir' \subseteq Nat /\ IsFiniteSet(DOMAIN dir')
      <3>1. /\ IsFiniteSet(DOMAIN dir)
            /\ DOMAIN dir \subseteq Nat /\ name \in Nat
        BY DEF LogTypeOK
      <3>2. IsFiniteSet(DOMAIN dir \cup {name})
        BY <3>1, FS_AddElement
      <3> QED BY <2>3, <3>1, <3>2
    <2> QED BY <2>2, <2>3, <2>4
  <1>12. CASE Log!Open(c)
    <2> DEFINE name == Pid[c]
    <2>1. act' \in [Copies -> Activations]
      BY <1>12 DEF Log!Open, LogTypeOK, PerCopy, Activations
    <2>2. CASE Log!Exists(name)
      <3>1. /\ SameFiles /\ UNCHANGED <<kept, record, began, said>>
            /\ log' = [log EXCEPT ![c] =
                         [fd |-> 0, file |-> dir[name],
                          bytes |-> inode[dir[name]].size,
                          capped |-> inode[dir[name]].size >= Limit,
                          first |-> inode[dir[name]].size]]
        BY <1>12, <2>2 DEF Log!Open, Log!Creates, SameFiles
      <3>2. dir[name] \in 1..Len(inode) /\ inode[dir[name]].size \in Nat
        <4>1. dir[name] \in 1..Len(inode)
          BY <2>2 DEF Log!Exists, LogTypeOK
        <4>2. inode[dir[name]] \in [size : Nat, time : Nat]
          BY <4>1, ElementOfSeq DEF LogTypeOK
        <4> QED BY <4>1, <4>2
      <3> DEFINE l == [fd |-> 0, file |-> dir[name],
                       bytes |-> inode[dir[name]].size,
                       capped |-> inode[dir[name]].size >= Limit,
                       first |-> inode[dir[name]].size]
      <3>8. Fine(l)
        BY <3>2 DEF LogRecords
      <3>9. log' = [log EXCEPT ![c] = l]
        BY <3>1
      <3> HIDE DEF l
      <3>3. /\ log' \in [Copies -> LogRecords]
            /\ \A d \in Copies : log'[d].file \in 0..Len(inode)
        BY <3>8, <3>9 DEF LogTypeOK, PerCopy
      <3> QED BY <2>1, <3>1, <3>3 DEF LogTypeOK, PerCopy, SameFiles
    <2>3. CASE ~Log!Exists(name)
      <3> DEFINE new == Len(inode) + 1
      <3>1. /\ UNCHANGED <<kept, record, began, said>>
            /\ log' = [log EXCEPT ![c] =
                         [fd |-> 0, file |-> new, bytes |-> 0,
                          capped |-> 0 >= Limit, first |-> 0]]
            /\ Log!Creates(name)
        BY <1>12, <2>3 DEF Log!Open
      <3>2. /\ inode' \in Seq([size : Nat, time : Nat])
            /\ Len(inode') = new /\ clock' \in Nat /\ new \in Nat
            /\ dir' \in [DOMAIN dir' -> 1..new]
            /\ DOMAIN dir' \subseteq Nat /\ IsFiniteSet(DOMAIN dir')
        <4>1. Len(inode) \in Nat
          BY DEF LogTypeOK
        <4> QED BY <1>13, <3>1, <4>1
      <3> DEFINE l == [fd |-> 0, file |-> new, bytes |-> 0,
                       capped |-> 0 >= Limit, first |-> 0]
      <3>8. l \in LogRecords /\ l.file \in 0..new
        BY <3>2 DEF LogRecords
      <3>9. log' = [log EXCEPT ![c] = l]
        BY <3>1
      <3> HIDE DEF l
      <3>5. /\ log' \in [Copies -> LogRecords]
            /\ \A d \in Copies : log'[d].file \in 0..new
        <4>1. \A d \in Copies : log[d].file \in 0..new
          <5>1. \A d \in Copies : log[d].file \in 0..Len(inode)
            BY DEF LogTypeOK
          <5>2. \A f \in 0..Len(inode) : f \in 0..new
            BY <3>2
          <5> QED BY <5>1, <5>2
        <4>2. log \in [Copies -> LogRecords]
          BY DEF LogTypeOK, PerCopy
        <4>3. /\ log' \in [Copies -> LogRecords] /\ log'[c] = l
              /\ \A d \in Copies \ {c} : log'[d] = log[d]
          BY <3>8, <3>9, <4>2
        <4> QED BY <3>8, <4>1, <4>3
      <3> QED BY <2>1, <3>1, <3>2, <3>5 DEF LogTypeOK, PerCopy
    <2> QED BY <2>2, <2>3
  <1>14. CASE Log!OpenFails(c) /\ Log!Creates(Pid[c])
    <2>1. PerCopy' /\ log' = log
      BY <1>14 DEF Log!OpenFails, LogTypeOK, PerCopy, Activations
    <2>2. /\ Len(inode) \in Nat
          /\ \A d \in Copies : log[d].file \in 0..Len(inode)
      BY DEF LogTypeOK
    <2>3. \A d \in Copies : log'[d].file \in 0..Len(inode')
      <3> DEFINE n == Len(inode)
      <3>1. Len(inode') = n + 1 /\ n \in Nat
        BY <1>13, <1>14, <2>2
      <3>2. \A d \in Copies : log'[d].file \in 0..n
        BY <2>1, <2>2
      <3> HIDE DEF n
      <3> QED BY <3>1, <3>2
    <2> QED BY <1>13, <1>14, <2>1, <2>3 DEF LogTypeOK
  <1>15. Log!OpenFails(c) => SameFiles \/ Log!Creates(Pid[c])
    BY DEF Log!OpenFails, SameFiles
  <1> QED BY <1>5, <1>6, <1>7, <1>8, <1>9, <1>10, <1>11, <1>12, <1>14, <1>15
          DEF CopyStep

-----------------------------------------------------------------------------
(* A published descriptor is that of the process's own log.                *)

LEMMA OwnKeptStep ==
    ASSUME LogTypeOK, OwnKept, NEW c \in Copies, CopyStep(c)
    PROVE  OwnKept'
  <1>1. OnlyOf(c)
    BY OwnStep DEF LogTypeOK
  <1>2. ASSUME dir' = dir, removed' = removed,
               log'[c].file = log[c].file,
               log'[c].fd \in {0, log[c].file, log[c].fd}
        PROVE  OwnKept'
    BY <1>1, <1>2 DEF OwnKept, Held, OnlyOf, Log!Exists
  <1>3. log \in [Copies -> LogRecords] /\ log[c] \in LogRecords
    BY DEF LogTypeOK, PerCopy
  <1>4. ASSUME NEW n \in Lengths, Log!Header(c, n) \/ Log!Write(c, n)
        PROVE  OwnKept'
    <2>1. \/ log' = log
          \/ \E b : log' = [log EXCEPT ![c] = [log[c] EXCEPT !.capped = b]]
      BY <1>4 DEF Log!Header, Log!Write, Log!Prepare
    <2>2. log'[c].file = log[c].file /\ log'[c].fd = log[c].fd
      BY <1>3, <2>1 DEF LogRecords
    <2> QED BY <1>2, <1>4, <2>2 DEF Log!Header, Log!Write
  <1>5. ASSUME NEW n \in 1..Limit, Log!WritePart(c, n)
        PROVE  OwnKept'
    <2>1. log'[c].file = log[c].file /\ log'[c].fd = log[c].fd
      BY <1>3, <1>5 DEF Log!WritePart, LogRecords
    <2> QED BY <1>2, <1>5, <2>1 DEF Log!WritePart
  <1>6. CASE Log!WriteFails(c) \/ Log!Lock(c) \/ Log!LockFails(c)
    BY <1>2, <1>6 DEF Log!WriteFails, Log!Lock, Log!LockFails
  <1>7. CASE Log!Scan(c)
    BY <1>2, <1>7 DEF Log!Scan
  <1>8. CASE Log!Publish(c) \/ Log!Close(c)
    <2>1. log'[c].file = log[c].file /\ log'[c].fd \in {0, log[c].file}
      BY <1>3, <1>8 DEF Log!Publish, Log!Close, LogRecords
    <2> QED BY <1>2, <1>8, <2>1 DEF Log!Publish, Log!Close
  <1>9. CASE Log!Remove(c)
    <2>1. /\ log' = log /\ DOMAIN dir' = DOMAIN dir \ Log!Victims(c)
          /\ \A n \in DOMAIN dir' : dir'[n] = dir[n]
          /\ removed' = removed \cup {<<Pid[c], n>> : n \in Log!Victims(c)}
      BY <1>9 DEF Log!Remove
    <2> SUFFICES ASSUME NEW d \in Copies PROVE Held(d)'
      BY DEF OwnKept
    <2>2. Held(d)
      BY DEF OwnKept
    <2>3. CASE Pid[d] \in Log!Victims(c)
      <3>1. Pid[c] \in Log!Pids \ {Pid[d]}
        BY <2>3 DEF Log!Pids, Log!Victims
      <3>2. <<Pid[c], Pid[d]>> \in removed'
        BY <2>1, <2>3
      <3> QED BY <2>1, <2>2, <3>1, <3>2 DEF Held
    <2>4. CASE Pid[d] \notin Log!Victims(c)
      BY <2>1, <2>2, <2>4 DEF Held, Log!Exists
    <2> QED BY <2>3, <2>4
  <1>10. CASE Log!Open(c)
    <2>1. /\ removed' = removed
          /\ log'[c].fd = 0
          /\ Pid[c] \in DOMAIN dir' /\ dir'[Pid[c]] = log'[c].file
          /\ \A n \in DOMAIN dir : n \in DOMAIN dir' /\ dir'[n] = dir[n]
      BY <1>3, <1>10 DEF Log!Open, Log!Creates, Log!Exists
    <2> QED BY <1>1, <2>1 DEF OwnKept, Held, OnlyOf, Log!Exists
  <1>11. CASE Log!OpenFails(c)
    <2>1. /\ removed' = removed /\ log' = log
          /\ \A n \in DOMAIN dir : n \in DOMAIN dir' /\ dir'[n] = dir[n]
      BY <1>11 DEF Log!OpenFails, Log!Creates, Log!Exists
    <2> QED BY <2>1 DEF OwnKept, Held, Log!Exists
  <1> QED BY <1>4, <1>5, <1>6, <1>7, <1>8, <1>9, <1>10, <1>11 DEF CopyStep

-----------------------------------------------------------------------------
(* At most Retention logs are left.                                        *)

\* The instance has a name of its own for the cardinality of a set.
LEMMA SameCardinality == \A S : Log!Cardinality(S) = Cardinality(S)
  BY DEF Log!Cardinality, Cardinality

\* The first pass keeps no more logs than fit beside the protected one.
LEMMA ScanKeepsFew ==
    ASSUME LogTypeOK, NEW c \in Copies, Log!Scan(c)
    PROVE  Pruning(c)'
  <1> USE LogAssumption DEF Log!Parameters
  <1> DEFINE S == DOMAIN dir \ {Pid[c]}
             T == [n \in S |-> inode[dir[n]].time]
             L == Log!retention_limit(Pid[c])
             K == {n \in S : Cardinality({o \in S : Newer(T, o, n)}) < L}
  <1>1. S \in SUBSET Nat /\ IsFiniteSet(S)
    BY FS_Subset DEF LogTypeOK
  <1>2. T \in [S -> Nat]
    <2>1. \A n \in S : inode[dir[n]] \in [size : Nat, time : Nat]
      BY ElementOfSeq DEF LogTypeOK
    <2> QED BY <2>1
  <1>3. L \in Nat /\ (Log!Exists(Pid[c]) => L < Retention) /\ L <= Retention
    BY DEF Log!retention_limit
  <1>4. \A o, n \in S : Log!newer_than(o, n) <=> Newer(T, o, n)
    BY DEF Log!newer_than, Newer
  <1>5. kept'[c] =
          {n \in S : Log!Cardinality({o \in S : Log!newer_than(o, n)}) < L}
    BY DEF Log!Scan, LogTypeOK, PerCopy
  <1>6. kept'[c] = K
    <2>1. \A n \in S : {o \in S : Log!newer_than(o, n)} =
                       {o \in S : Newer(T, o, n)}
      BY <1>4
    <2> HIDE DEF S, T, L
    <2> QED BY <1>5, <2>1, SameCardinality
  <1> HIDE DEF S, T, L
  <1>7. IsFiniteSet(K) /\ Cardinality(K) <= L
    BY <1>1, <1>2, <1>3, NewestAreFew
  <1>8. Cardinality(K) \in Nat
    BY <1>7, FS_CardinalityType
  <1> HIDE DEF K
  <1>9. act'[c] = "remove" /\ dir' = dir
    BY DEF Log!Scan, LogTypeOK, PerCopy
  <1>10. CASE Log!Exists(Pid[c])
    <2>1. Cardinality(K) < Retention
      BY <1>3, <1>7, <1>8, <1>10
    <2> QED BY <1>6, <1>7, <1>9, <2>1 DEF Pruning
  <1>11. CASE ~Log!Exists(Pid[c])
    <2>1. Cardinality(K) <= Retention
      BY <1>3, <1>7, <1>8
    <2> QED BY <1>6, <1>7, <1>9, <1>11, <2>1 DEF Pruning, Log!Exists
  <1> QED BY <1>10, <1>11

\* The second pass leaves what the first one kept, and the protected log.
LEMMA RemoveLeavesFew ==
    ASSUME LogTypeOK, NEW c \in Copies, Log!Remove(c), Pruning(c)
    PROVE  Few'
  <1> USE LogAssumption DEF Log!Parameters
  <1>1. /\ DOMAIN dir' \subseteq DOMAIN dir
        /\ DOMAIN dir' \subseteq kept[c] \cup {Pid[c]}
    BY DEF Log!Remove, Log!Victims
  <1>2. /\ act[c] = "remove" /\ IsFiniteSet(kept[c])
        /\ \/ Cardinality(kept[c]) < Retention
           \/ Cardinality(kept[c]) <= Retention /\ ~Log!Exists(Pid[c])
    BY DEF Log!Remove, Pruning
  <1>3. Cardinality(kept[c]) \in Nat
    BY <1>2, FS_CardinalityType
  <1>4. CASE Cardinality(kept[c]) < Retention
    <2>1. /\ IsFiniteSet(kept[c] \cup {Pid[c]})
          /\ Cardinality(kept[c] \cup {Pid[c]}) <= Cardinality(kept[c]) + 1
      <3>1. /\ IsFiniteSet(kept[c] \cup {Pid[c]})
            /\ Cardinality(kept[c] \cup {Pid[c]}) =
                 IF Pid[c] \in kept[c] THEN Cardinality(kept[c])
                 ELSE Cardinality(kept[c]) + 1
        BY <1>2, FS_AddElement
      <3> QED BY <1>3, <3>1
    <2>2. Cardinality(kept[c] \cup {Pid[c]}) \in Nat
      BY <2>1, FS_CardinalityType
    <2>3. /\ Cardinality(DOMAIN dir') <= Cardinality(kept[c] \cup {Pid[c]})
          /\ Cardinality(DOMAIN dir') \in Nat
      BY <1>1, <2>1, FS_Subset, FS_CardinalityType
    <2> QED BY <1>3, <1>4, <2>1, <2>2, <2>3 DEF Few
  <1>5. CASE Cardinality(kept[c]) <= Retention /\ ~Log!Exists(Pid[c])
    <2>1. DOMAIN dir' \subseteq kept[c]
      BY <1>1, <1>5 DEF Log!Exists
    <2>2. /\ Cardinality(DOMAIN dir') <= Cardinality(kept[c])
          /\ Cardinality(DOMAIN dir') \in Nat
      BY <1>2, <2>1, FS_Subset, FS_CardinalityType
    <2> QED BY <1>3, <1>5, <2>2 DEF Few
  <1> QED BY <1>2, <1>4, <1>5

LEMMA BoundedStep ==
    ASSUME LogTypeOK, Bounded, NEW c \in Copies, CopyStep(c)
    PROVE  Bounded'
  <1> USE LogAssumption DEF Log!Parameters
  <1>1. OnlyOf(c) /\ act[c] \in Activations
    BY OwnStep DEF LogTypeOK, PerCopy
  <1>2. act \in [Copies -> Activations]
    BY DEF LogTypeOK, PerCopy
  \* A step of c that leaves the directory alone, or shrinks it.
  <1>3. ASSUME unpruned' = unpruned, Few => Few',
               DOMAIN dir' \subseteq DOMAIN dir,
               ~Pruning(c) \/ Pruning(c)' \/ Few',
               act'[c] \in {"start", "off"} \/ act[c] \notin {"start", "off"}
        PROVE  Bounded'
    <2>1. ASSUME NEW d \in Copies \ {c}, Pruning(d) PROVE Pruning(d)'
      BY <1>1, <1>3, <2>1 DEF Pruning, OnlyOf, Log!Exists
    <2>2. CASE \A d \in Copies : act[d] \in {"start", "off"}
      BY <1>1, <1>3, <2>2 DEF Bounded, OnlyOf
    <2>3. CASE \E d \in Copies : Pruning(d)
      BY <1>3, <2>1, <2>3 DEF Bounded
    <2>4. CASE unpruned \/ Few
      BY <1>3, <2>4 DEF Bounded
    <2> QED BY <2>2, <2>3, <2>4 DEF Bounded
  <1>4. ASSUME act'[c] \in {"opened", "header", "scan"} PROVE Bounded'
    BY <1>4 DEF Bounded, Pruning
  <1>5. ASSUME act' = act, dir' = dir, kept' = kept, unpruned' = unpruned
        PROVE  Bounded'
    BY <1>5 DEF Bounded, Few, Pruning, Log!Exists
  <1>6. ASSUME NEW n \in Lengths, Log!Header(c, n)
        PROVE  Bounded'
    BY <1>2, <1>4, <1>6 DEF Log!Header
  <1>7. ASSUME NEW n \in Lengths, Log!Write(c, n)
        PROVE  Bounded'
    BY <1>5, <1>7 DEF Log!Write
  <1>8. ASSUME NEW n \in 1..Limit, Log!WritePart(c, n)
        PROVE  Bounded'
    BY <1>5, <1>8 DEF Log!WritePart
  <1>9. CASE Log!WriteFails(c)
    BY <1>5, <1>9 DEF Log!WriteFails
  <1>10. CASE Log!Open(c) \/ Log!Lock(c)
    BY <1>2, <1>4, <1>10 DEF Log!Open, Log!Lock
  <1>11. CASE Log!LockFails(c)
    BY <1>11 DEF Log!LockFails, Bounded
  <1>12. CASE Log!Scan(c)
    BY <1>12, ScanKeepsFew DEF Bounded
  <1>13. CASE \/ Log!OpenFails(c) /\ dir' = dir /\ unpruned' = unpruned
              \/ Log!Publish(c) \/ Log!Close(c)
    <2>1. /\ dir' = dir /\ unpruned' = unpruned /\ ~Pruning(c)
          /\ act'[c] \in {"start", "off"} \/ act[c] \notin {"start", "off"}
      BY <1>2, <1>13 DEF Log!OpenFails, Log!Publish, Log!Close, Pruning
    <2> QED BY <1>3, <2>1 DEF Few
  <1>14. CASE Log!Remove(c)
    <2>1. /\ unpruned' = unpruned /\ DOMAIN dir' \subseteq DOMAIN dir
          /\ act[c] = "remove"
      BY <1>14 DEF Log!Remove
    <2>2. Few => Few'
      <3>1. /\ Cardinality(DOMAIN dir') <= Cardinality(DOMAIN dir)
            /\ Cardinality(DOMAIN dir') \in Nat
            /\ Cardinality(DOMAIN dir) \in Nat
        BY <2>1, FS_Subset, FS_CardinalityType DEF LogTypeOK
      <3> QED BY <3>1 DEF Few
    <2>3. ~Pruning(c) \/ Few'
      BY <1>14, RemoveLeavesFew
    <2> QED BY <1>3, <2>1, <2>2, <2>3
  <1>15. CASE Log!OpenFails(c) /\ unpruned' = TRUE
    BY <1>15 DEF Bounded
  <1>16. Log!OpenFails(c) =>
           unpruned' = TRUE \/ (dir' = dir /\ unpruned' = unpruned)
    BY DEF Log!OpenFails
  <1> QED BY <1>6, <1>7, <1>8, <1>9, <1>10, <1>11, <1>12, <1>13, <1>14, <1>15,
             <1>16 DEF CopyStep

-----------------------------------------------------------------------------
(* The header first, the cap announced.                                    *)

\* Begun and Room of c look at c's entries only.
LEMMA ToldSame ==
    ASSUME NEW d \in Copies, Begun(d), Room(d),
           log'[d] = log[d], act'[d] = act[d], record'[d] = record[d],
           began'[d] = began[d], said'[d] = said[d],
           d \in dropped' <=> d \in dropped, d \in failed' <=> d \in failed
    PROVE  Begun(d)' /\ Room(d)'
  BY DEF Begun, Room

\* Of Begun and Room, what a copy that is about to queue a record knows.
LEMMA PrepareTold ==
    ASSUME LogTypeOK, NEW c \in Copies, Begun(c), Room(c), record[c] = Log!None,
           NEW kind \in {"header", "event"}, NEW n \in Lengths,
           kind = "header" => act[c] = "opened" /\ act'[c] = "header",
           kind = "event" => act[c] = "on" /\ act'[c] = "on" /\ ~log[c].capped,
           Log!Prepare(c, log[c], kind, n),
           began' = began, said' = said, failed' = failed
    PROVE  Begun(c)' /\ Room(c)'
  <1> USE LogAssumption DEF Log!Parameters
  <1> DEFINE l == log[c]
             p == Log!Prepared(l, kind, n)
  <1>1. /\ l \in LogRecords /\ l.bytes \in Nat /\ l.first \in Nat
        /\ l.capped \in BOOLEAN /\ said[c] \in Nat /\ began[c] \in Kinds
        /\ n \in Nat \ {0} /\ CapLen \in Nat \ {0} /\ Limit \in Nat
    BY DEF LogTypeOK, PerCopy, LogRecords
  <1>2. /\ log'[c].bytes = l.bytes /\ log'[c].first = l.first
        /\ log'[c].fd = l.fd /\ log'[c].file = l.file
        /\ log'[c].capped = p.capped /\ record'[c] = p.out
        /\ dropped' = IF p.drops THEN dropped \cup {c} ELSE dropped
    <2>1. /\ log' = [log EXCEPT ![c] = [l EXCEPT !.capped = p.capped]]
          /\ record' = [record EXCEPT ![c] = p.out]
          /\ dropped' = IF p.drops THEN dropped \cup {c} ELSE dropped
      BY DEF Log!Prepare
    <2> HIDE DEF p
    <2> QED BY <1>1, <2>1 DEF LogTypeOK, PerCopy, LogRecords
  <1>3. Outcome(l, kind, n, p)
    BY <1>1, PreparedIs
  <1>4. record[c].left = 0 /\ record[c].kind = "none"
    BY DEF Log!None
  <1>5. /\ l.fd # 0 => act[c] = "on"
        /\ kind = "header" => l.fd = 0
        /\ l.file # 0
        /\ c \notin failed => began[c] \in {"none", "header", "cap"}
        /\ kind = "header" => c \notin failed /\ began[c] = "none"
        /\ c \notin failed /\ kind = "event" => began[c] # "none"
    BY DEF Begun, Activations
  <1>6. /\ l.first <= Limit => l.bytes <= Limit
        /\ ~l.capped => said[c] = 0 /\ c \notin dropped
        /\ ~l.capped /\ l.first + CapLen <= Limit => l.bytes + CapLen <= Limit
        /\ l.capped /\ l.first + CapLen <= Limit /\ c \notin failed
             => said[c] = CapLen
    BY <1>1, <1>4 DEF Room
  <1> HIDE DEF l, p
  <1>7. CASE /\ l.capped \/ l.bytes >= Limit
             /\ p.out = Log!None /\ p.capped = TRUE /\ p.drops = TRUE
    <2>1. Begun(c)'
      BY <1>2, <1>5, <1>7 DEF Begun, Log!None, Activations
    <2>2. Room(c)'
      <3>1. l.first + CapLen <= Limit /\ c \notin failed => said[c] = CapLen
        BY <1>1, <1>6, <1>7
      <3> QED BY <1>1, <1>2, <1>6, <1>7, <3>1 DEF Room, Log!None
    <2> QED BY <2>1, <2>2
  <1>8. CASE /\ ~l.capped /\ l.bytes + n + CapLen <= Limit
             /\ p.out = [kind |-> kind, left |-> n]
             /\ p.capped = FALSE /\ p.drops = FALSE
    <2>1. Begun(c)'
      BY <1>1, <1>2, <1>5, <1>8 DEF Begun, Log!None, Activations
    <2>2. record'[c].left = n /\ record'[c].kind = kind /\ kind # "cap"
      BY <1>2, <1>8
    <2>3. /\ ~log'[c].capped /\ said'[c] = 0 /\ c \notin dropped'
          /\ log'[c].bytes + record'[c].left + CapLen <= Limit
          /\ log'[c].bytes + record'[c].left <= Limit
      BY <1>1, <1>2, <1>6, <1>8, <2>2
    <2>4. Room(c)'
      BY <2>2, <2>3 DEF Room
    <2> QED BY <2>1, <2>4
  <1>9. CASE /\ ~l.capped /\ p.capped = TRUE /\ p.drops = TRUE
             /\ \E m \in Nat \ {0} :
                  /\ p.out = [kind |-> "cap", left |-> m]
                  /\ l.bytes + m <= Limit
                  /\ l.bytes + CapLen <= Limit => m = CapLen
    <2>1. PICK m \in Nat \ {0} :
            /\ p.out = [kind |-> "cap", left |-> m]
            /\ l.bytes + m <= Limit
            /\ l.bytes + CapLen <= Limit => m = CapLen
      BY <1>9
    <2>2. Begun(c)'
      BY <1>1, <1>2, <1>5, <1>9, <2>1 DEF Begun, Log!None, Activations
    <2>3. Room(c)'
      BY <1>1, <1>2, <1>6, <1>9, <2>1 DEF Room
    <2> QED BY <2>2, <2>3
  <1> QED BY <1>3, <1>7, <1>8, <1>9 DEF Outcome

LEMMA WritePartTold ==
    ASSUME LogTypeOK, NEW c \in Copies, Begun(c), Room(c),
           NEW n \in 1..Limit, Log!WritePart(c, n)
    PROVE  Begun(c)' /\ Room(c)'
  <1> USE LogAssumption DEF Log!Parameters
  <1> DEFINE l == log[c]
             r == record[c]
  <1>1. /\ l \in LogRecords /\ l.bytes \in Nat /\ l.first \in Nat
        /\ l.capped \in BOOLEAN /\ said[c] \in Nat /\ began[c] \in Kinds
        /\ r.kind \in Kinds /\ r.left \in Nat
        /\ n \in Nat \ {0} /\ CapLen \in Nat \ {0} /\ Limit \in Nat
        /\ r.left > 0 /\ n <= r.left /\ r # Log!None
    <2>1. l \in LogRecords /\ r \in [kind : Kinds, left : Nat]
      BY DEF LogTypeOK, PerCopy
    <2>2. /\ l.bytes \in Nat /\ l.first \in Nat /\ l.capped \in BOOLEAN
          /\ r.kind \in Kinds /\ r.left \in Nat
      BY <2>1 DEF LogRecords
    <2>3. said[c] \in Nat /\ began[c] \in Kinds
      BY DEF LogTypeOK, PerCopy
    <2>4. r.left > 0 /\ n <= r.left /\ r # Log!None
      BY <2>2 DEF Log!WritePart, Log!None
    <2> QED BY <2>1, <2>2, <2>3, <2>4
  <1>2. /\ log'[c].bytes = l.bytes + n /\ log'[c].first = l.first
        /\ log'[c].fd = l.fd /\ log'[c].file = l.file
        /\ log'[c].capped = l.capped
        /\ act' = act /\ dropped' = dropped /\ failed' = failed
        /\ began'[c] = IF began[c] = "none" THEN r.kind ELSE began[c]
        /\ said'[c] = IF r.kind = "cap" THEN said[c] + n ELSE said[c]
    BY <1>1 DEF Log!WritePart, LogTypeOK, PerCopy, LogRecords
  <1>3. \/ n = r.left /\ record'[c] = Log!None
        \/ /\ n < r.left /\ record'[c].kind = r.kind
           /\ record'[c].left = r.left - n
    <2>1. record' = [record EXCEPT ![c] =
                       IF n = r.left THEN Log!None
                       ELSE [r EXCEPT !.left = r.left - n]]
      BY DEF Log!WritePart
    <2> QED BY <1>1, <2>1 DEF LogTypeOK, PerCopy
  <1>4. /\ act[c] \in {"header", "on"} /\ r.kind \in {"header", "event", "cap"}
        /\ l.fd # 0 => act[c] = "on"
        /\ l.file # 0
        /\ c \notin failed => /\ began[c] \in {"none", "header", "cap"}
                              /\ r.kind = "event" => began[c] # "none"
    BY <1>1 DEF Begun
  <1>5. /\ l.first <= Limit => l.bytes + r.left <= Limit
        /\ ~l.capped => said[c] = 0 /\ c \notin dropped /\ r.kind # "cap"
        /\ ~l.capped /\ l.first + CapLen <= Limit
             => l.bytes + r.left + CapLen <= Limit
        /\ l.capped /\ l.first + CapLen <= Limit /\ c \notin failed =>
             r.kind = "cap" /\ said[c] + r.left = CapLen
    BY <1>1 DEF Room
  <1> HIDE DEF l, r
  <1>6. CASE n = r.left /\ record'[c] = Log!None
    <2>1. Begun(c)'
      BY <1>2, <1>4, <1>6 DEF Begun, Kinds, Log!None
    <2>2. record'[c].left = 0 /\ record'[c].kind = "none"
      BY <1>6 DEF Log!None
    <2>3. Room(c)'
      BY <1>1, <1>2, <1>5, <1>6, <2>2 DEF Room
    <2> QED BY <2>1, <2>3
  <1>7. CASE /\ n < r.left /\ record'[c].kind = r.kind
             /\ record'[c].left = r.left - n
    <2>1. record'[c].left > 0
      BY <1>1, <1>7
    <2>2. Begun(c)'
      BY <1>2, <1>4, <1>7, <2>1 DEF Begun, Kinds, Log!None
    <2>3. Room(c)'
      <3>1. /\ log'[c].bytes + record'[c].left = l.bytes + r.left
            /\ r.kind = "cap" =>
                 said'[c] + record'[c].left = said[c] + r.left
        <4>1. \A x \in Nat : x + n + (r.left - n) = x + r.left
          BY <1>1
        <4> QED BY <1>1, <1>2, <1>7, <4>1
      <3> QED BY <1>1, <1>2, <1>5, <1>7, <3>1 DEF Room
    <2> QED BY <2>2, <2>3
  <1> QED BY <1>3, <1>6, <1>7

LEMMA ToldStep ==
    ASSUME LogTypeOK, Told, NEW c \in Copies, CopyStep(c)
    PROVE  Told'
  <1> USE LogAssumption DEF Log!Parameters
  <1>1. OnlyOf(c)
    BY OwnStep DEF LogTypeOK
  <1>2. \A d \in Copies \ {c} : Begun(d)' /\ Room(d)'
    BY <1>1, ToldSame DEF Told, OnlyOf
  <1> SUFFICES Begun(c)' /\ Room(c)'
    BY <1>2 DEF Told
  <1>3. Begun(c) /\ Room(c)
    BY DEF Told
  <1>4. /\ log[c] \in LogRecords /\ act[c] \in Activations
        /\ record[c] \in [kind : Kinds, left : Nat] /\ said[c] \in Nat
    BY DEF LogTypeOK, PerCopy
  <1>5. act \in [Copies -> Activations] /\ log \in [Copies -> LogRecords]
    BY DEF LogTypeOK, PerCopy
  <1>6. ASSUME NEW n \in Lengths, Log!Header(c, n)
        PROVE  Begun(c)' /\ Room(c)'
    <2>1. /\ record[c] = Log!None /\ Log!Prepare(c, log[c], "header", n)
          /\ act[c] = "opened" /\ act'[c] = "header"
          /\ began' = began /\ said' = said /\ failed' = failed
      BY <1>5, <1>6 DEF Log!Header
    <2> QED BY <1>3, <2>1, PrepareTold
  <1>7. ASSUME NEW n \in Lengths, Log!Write(c, n)
        PROVE  Begun(c)' /\ Room(c)'
    <2>1. CASE log[c].capped
      <3>1. /\ log' = log /\ record' = record /\ dropped' = dropped
            /\ act' = act /\ began' = began /\ said' = said /\ failed' = failed
        BY <1>7, <2>1 DEF Log!Write
      <3> QED BY <1>3, <3>1, ToldSame
    <2>2. CASE ~log[c].capped
      <3>1. /\ record[c] = Log!None /\ Log!Prepare(c, log[c], "event", n)
            /\ act' = act /\ log[c].fd # 0
            /\ began' = began /\ said' = said /\ failed' = failed
        BY <1>7, <2>2 DEF Log!Write, Log!Visible
      <3>2. act[c] = "on" /\ act'[c] = "on"
        BY <1>3, <3>1 DEF Begun
      <3> QED BY <1>3, <2>2, <3>1, <3>2, PrepareTold
    <2> QED BY <2>1, <2>2
  <1>8. ASSUME NEW n \in 1..Limit, Log!WritePart(c, n)
        PROVE  Begun(c)' /\ Room(c)'
    BY <1>3, <1>8, WritePartTold
  <1>9. CASE Log!WriteFails(c)
    <2>1. /\ record[c].left > 0 /\ record'[c] = Log!None
          /\ c \in failed' /\ log' = log /\ act' = act
          /\ began' = began /\ said' = said /\ dropped' = dropped
      BY <1>9 DEF Log!WriteFails, LogTypeOK, PerCopy
    <2>2. /\ record[c] # Log!None
          /\ record'[c].left = 0 /\ record'[c].kind = "none"
      BY <2>1 DEF Log!None
    <2>3. Begun(c)'
      BY <1>3, <2>1, <2>2 DEF Begun
    <2>4. /\ log[c].bytes \in Nat /\ log[c].first \in Nat
          /\ record[c].left \in Nat
      BY <1>4 DEF LogRecords
    <2>5. Room(c)'
      <3> DEFINE left == record[c].left
                 bytes == log[c].bytes
      <3>1. \A b, l \in Nat : l > 0 =>
              /\ b + l <= Limit => b + 0 <= Limit
              /\ b + l + CapLen <= Limit => b + 0 + CapLen <= Limit
        BY LogAssumption DEF Log!Parameters
      <3>2. left > 0 /\ left \in Nat /\ bytes \in Nat
        BY <2>1, <2>4
      <3>3. /\ log[c].first <= Limit => bytes + left <= Limit
            /\ ~log[c].capped => said[c] = 0 /\ c \notin dropped
            /\ ~log[c].capped /\ log[c].first + CapLen <= Limit
                 => bytes + left + CapLen <= Limit
        BY <1>3 DEF Room
      <3>4. /\ log[c].first <= Limit => bytes + 0 <= Limit
            /\ ~log[c].capped /\ log[c].first + CapLen <= Limit
                 => bytes + 0 + CapLen <= Limit
        BY <3>1, <3>2, <3>3
      <3> QED BY <2>1, <2>2, <3>3, <3>4 DEF Room
    <2> QED BY <2>3, <2>5
  <1>10. CASE Log!Open(c)
    <2>1. PICK size \in Nat, file \in Nat \ {0} :
            log' = [log EXCEPT ![c] = [fd |-> 0, file |-> file, bytes |-> size,
                                       capped |-> size >= Limit,
                                       first |-> size]]
      <3>1. CASE Log!Exists(Pid[c])
        <4>1. dir[Pid[c]] \in 1..Len(inode)
          BY <3>1 DEF Log!Exists, LogTypeOK
        <4>2. inode[dir[Pid[c]]] \in [size : Nat, time : Nat]
          BY <4>1, ElementOfSeq DEF LogTypeOK
        <4>3. inode[dir[Pid[c]]].size \in Nat
          BY <4>2
        <4>4. Len(inode) \in Nat
          BY DEF LogTypeOK
        <4>5. dir[Pid[c]] \in Nat \ {0}
          BY <4>1, <4>4
        <4> QED BY <1>10, <3>1, <4>3, <4>5 DEF Log!Open
      <3>2. CASE ~Log!Exists(Pid[c])
        <4>1. Len(inode) + 1 \in Nat \ {0}
          BY DEF LogTypeOK
        <4> QED BY <1>10, <3>2, <4>1 DEF Log!Open
      <3> QED BY <3>1, <3>2
    <2>2. /\ log'[c].fd = 0 /\ log'[c].file = file /\ log'[c].bytes = size
          /\ log'[c].first = size /\ log'[c].capped = (size >= Limit)
      BY <1>5, <2>1
    <2>3. /\ act[c] = "start" /\ act'[c] = "opened" /\ record' = record
          /\ began' = began /\ said' = said /\ dropped' = dropped
          /\ failed' = failed
      BY <1>5, <1>10 DEF Log!Open
    <2>4. /\ record[c] = Log!None /\ began[c] = "none" /\ said[c] = 0
          /\ c \notin dropped /\ c \notin failed
      BY <1>3, <2>3 DEF Begun
    <2>5. record[c].left = 0 /\ record[c].kind = "none"
      BY <2>4 DEF Log!None
    <2>6. Begun(c)'
      BY <2>1, <2>2, <2>3, <2>4, <2>5 DEF Begun
    <2>7. Room(c)'
      <3>1. /\ size + CapLen <= Limit => ~(size >= Limit)
            /\ size + 0 = size
        OBVIOUS
      <3> QED BY <2>1, <2>2, <2>3, <2>4, <2>5, <3>1 DEF Room
    <2> QED BY <2>6, <2>7
  <1>11. ASSUME log' = log, record' = record, began' = began, said' = said,
                dropped' = dropped, failed' = failed,
                record[c] = Log!None \/ act'[c] = act[c],
                act[c] = "start" => act'[c] = "off",
                act[c] # "start" =>
                  /\ act[c] \in Activations \ {"opened", "off", "on"}
                  /\ act'[c] \in Activations \ {"start", "opened"}
         PROVE  Begun(c)' /\ Room(c)'
    <2>1. Begun(c)'
      BY <1>3, <1>11 DEF Begun, Activations
    <2>2. Room(c)'
      BY <1>3, <1>11 DEF Room
    <2> QED BY <2>1, <2>2
  <1>12. act[c] \in {"start", "scan", "remove", "pruned"} =>
           record[c] = Log!None
    BY <1>3 DEF Begun
  <1>13. CASE Log!OpenFails(c) \/ Log!Lock(c) \/ Log!LockFails(c)
    BY <1>5, <1>11, <1>12, <1>13
       DEF Log!OpenFails, Log!Lock, Log!LockFails, Activations
  <1>14. CASE Log!Scan(c)
    BY <1>5, <1>11, <1>12, <1>14 DEF Log!Scan, Activations
  <1>15. CASE Log!Remove(c)
    BY <1>5, <1>11, <1>12, <1>15 DEF Log!Remove, Activations
  <1>16. CASE Log!Publish(c) \/ Log!Close(c)
    <2>1. /\ log'[c].file = log[c].file /\ log'[c].bytes = log[c].bytes
          /\ log'[c].first = log[c].first /\ log'[c].capped = log[c].capped
          /\ act'[c] = "on" \/ log'[c].fd = 0
      BY <1>4, <1>5, <1>16 DEF Log!Publish, Log!Close, LogRecords
    <2>2. /\ act[c] \in {"pruned", "on"} /\ act'[c] \in {"on", "off"}
          /\ record' = record /\ began' = began /\ said' = said
          /\ dropped' = dropped /\ failed' = failed
      BY <1>5, <1>16 DEF Log!Publish, Log!Close
    <2>3. record[c] = Log!None
      BY <1>12, <1>16 DEF Log!Publish, Log!Close
    <2>4. Begun(c)'
      BY <1>3, <2>1, <2>2, <2>3 DEF Begun, Activations
    <2>5. Room(c)'
      BY <1>3, <2>1, <2>2 DEF Room
    <2> QED BY <2>4, <2>5
  <1> QED BY <1>6, <1>7, <1>8, <1>9, <1>10, <1>13, <1>14, <1>15, <1>16
          DEF CopyStep

-----------------------------------------------------------------------------
\* The names of the old logs are finitely many.
LEMMA OldNames ==
    /\ IsFiniteSet({Old[k].name : k \in 1..Len(Old)})
    /\ {Old[k].name : k \in 1..Len(Old)} \subseteq Nat
  <1> DEFINE f == [k \in 1..Len(Old) |-> Old[k].name]
             T == {Old[k].name : k \in 1..Len(Old)}
  <1>1. \A k \in 1..Len(Old) : Old[k] \in [name : Nat, size : Nat]
    BY LogAssumption, ElementOfSeq DEF Log!Parameters
  <1>2. f \in Surjection(1..Len(Old), T)
    BY DEF Surjection
  <1>3. IsFiniteSet(1..Len(Old))
    BY LogAssumption, FS_Interval DEF Log!Parameters
  <1> HIDE DEF f
  <1>4. IsFiniteSet(T)
    BY <1>2, <1>3, FS_Surjection
  <1> QED BY <1>1, <1>4

LEMMA LogInitInv == Log!Init => LogInv
  <1> USE LogAssumption DEF Log!Parameters
  <1> SUFFICES ASSUME Log!Init PROVE LogInv
    OBVIOUS
  <1>1. /\ Len(Old) \in Nat
        /\ \A k \in 1..Len(Old) : Old[k] \in [name : Nat, size : Nat]
    <2>1. Old \in Seq([name : Nat, size : Nat])
      OBVIOUS
    <2>2. Len(Old) \in Nat
      BY <2>1
    <2> QED BY <2>1, <2>2, ElementOfSeq
  <1>2. inode \in Seq([size : Nat, time : Nat]) /\ Len(inode) = Len(Old)
    <2>1. \A k \in 1..Len(Old) : [size |-> Old[k].size, time |-> k]
                                   \in [size : Nat, time : Nat]
      BY <1>1
    <2> QED BY <1>1, <2>1 DEF Log!Init
  <1>3. /\ dir \in [DOMAIN dir -> 1..Len(Old)]
        /\ DOMAIN dir = {Old[k].name : k \in 1..Len(Old)}
    BY DEF Log!Init
  <1>4. PerCopy
    BY DEF Log!Init, PerCopy, LogRecords, Activations, Kinds, Log!None
  <1>5. LogTypeOK
    <2>1. \A c \in Copies : log[c].file = 0
      BY DEF Log!Init
    <2>2. \A c \in Copies : log[c].file \in 0..Len(inode)
      BY <1>1, <1>2, <2>1
    <2>3. clock \in Nat
      BY <1>1 DEF Log!Init
    <2> HIDE LogAssumption
    <2> QED BY <1>2, <1>3, <1>4, <2>2, <2>3, OldNames DEF LogTypeOK
  <1>6. OwnKept
    BY DEF Log!Init, OwnKept, Held
  <1>7. Told
    BY <1>1 DEF Log!Init, Told, Begun, Room, Log!None, Activations
  <1>8. Bounded
    BY DEF Log!Init, Bounded
  <1> QED BY <1>5, <1>6, <1>7, <1>8 DEF LogInv

LEMMA LogNextInv == LogInv /\ [Log!Next]_(Log!lvars) => LogInv'
  <1> SUFFICES ASSUME LogInv, [Log!Next]_(Log!lvars) PROVE LogInv'
    OBVIOUS
  <1>1. ASSUME NEW c \in Copies, CopyStep(c) PROVE LogInv'
    BY <1>1, LogTypeStep, OwnKeptStep, ToldStep, BoundedStep DEF LogInv
  <1>2. CASE Log!Next
    BY <1>1, <1>2 DEF Log!Next, CopyStep
  <1>3. CASE UNCHANGED Log!lvars
    <2> USE <1>3 DEF Log!lvars, LogInv
    <2>1. LogTypeOK'
      BY DEF LogTypeOK, PerCopy
    <2>2. OwnKept'
      BY DEF OwnKept, Held, Log!Exists
    <2>3. Told'
      BY ToldSame DEF Told
    <2>4. Bounded'
      BY DEF Bounded, Few, Pruning, Log!Exists
    <2> QED BY <2>1, <2>2, <2>3, <2>4
  <1> QED BY <1>2, <1>3

\* Every reachable state of the runtime log satisfies the invariant.
THEOREM LogInductive == Log!Spec => []LogInv
  BY LogInitInv, LogNextInv, PTL DEF Log!Spec

\* log_retention.c:84-161: whatever the number of processes, of copies of the
\* library in one and of logs they find, the prunes leave at most so many, and
\* a process never loses the log it has published to a prune of its own.
THEOREM RetentionIsSound == Log!Spec => []RetentionSound
  <1>1. LogInv => Log!AtMostRetained
    BY SameCardinality
       DEF LogInv, Bounded, Log!AtMostRetained, Log!Settled, Few, Pruning
  <1>2. LogInv => Log!OwnLogKept
    BY DEF LogInv, OwnKept, Held, Log!OwnLogKept
  <1>3. LogInv => RetentionSound
    BY <1>1, <1>2 DEF RetentionSound
  <1> QED BY <1>3, LogInductive, PTL

\* log_retention.c:168-212 and 258-281: for every limit and every length of a
\* record, a copy begins its file with the header, and throws no record away
\* without having told it in full where there was room.
THEOREM RecordsInOrder == Log!Spec => []LogOrdered
  <1>1. LogInv => Log!HeaderFirst
    BY DEF LogInv, Told, Begun, Log!HeaderFirst
  <1>2. LogInv => Log!CapAnnounced
    <2> SUFFICES ASSUME LogInv, NEW c \in Copies
                 PROVE  /\ log[c].first <= Limit => log[c].bytes <= Limit
                        /\ /\ c \in dropped \ failed
                           /\ record[c] = Log!None
                           /\ log[c].first + CapLen <= Limit
                           => said[c] = CapLen
      BY DEF Log!CapAnnounced
    <2>1. /\ log[c] \in LogRecords
          /\ record[c] \in [kind : Kinds, left : Nat] /\ Room(c)
      BY DEF LogInv, LogTypeOK, PerCopy, Told
    <2>2. /\ log[c].bytes \in Nat /\ log[c].first \in Nat
          /\ record[c].left \in Nat
      BY <2>1 DEF LogRecords
    <2> QED BY <2>1, <2>2, LogAssumption DEF Room, Log!None, Log!Parameters
  <1>3. LogInv => LogOrdered
    BY <1>1, <1>2 DEF LogOrdered
  <1> QED BY <1>3, LogInductive, PTL
=============================================================================
