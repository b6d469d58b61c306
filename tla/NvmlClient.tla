----------------------------- MODULE NvmlClient -----------------------------
(***************************************************************************)
(* The client of the NVML helper process (src/src/hud_nvml_client.c), as   *)
(* the samplers of several devices use it.  A count of references keeps    *)
(* one worker thread; the worker starts the helper, up to three times,     *)
(* receives its messages and publishes them through a sequence lock that   *)
(* samplers read without the mutex.  The last release stops the worker,    *)
(* joins it and clears what was published.  Every store and load of the    *)
(* sequence lock is a step; so is every section under the mutex.           *)
(***************************************************************************)
EXTENDS Integers, Sequences, FiniteSets

CONSTANTS
    Users,         \* samplers, one per device, that may hold a reference
    Gpus,          \* PCI bus ids they ask for
    MaxAttempts,   \* starts of the helper per worker, 3 in the code
    MaxReads,      \* tries of a snapshot, 3 in the code
    Nothing,       \* no descriptor, no connection
    MaxAcquires,   \* bound: acquisitions of a behaviour
    MaxSent        \* bound: messages of all helpers

VARIABLES
    manager,    \* [active, stop, references, gpu, attempts, socket_fd]
    published,  \* [gen, sequence, available, use, temperature], all atomics
    client,     \* the worker: [pc, step, message, previous]; step is a store in
                \* progress
    conn,       \* the connection the worker runs: its attempt, or Nothing
    open,       \* its client end is neither closed nor shut down
    helper,     \* "none", "running", "told" (SIGTERM) or "dead" (a zombie)
    queue,      \* messages in the socket
    user,       \* per user: "out", "in", or where it is in release
    fd,         \* per user: the descriptor release copied
    store,      \* per user: the step of release's invalidate
    reader,     \* the snapshot in progress: [user, step, tries, before, message]
    sent,       \* history: messages sent; each is numbered
    dead,       \* history: the last message of the connections that ended
    floor,      \* history: `dead' when the snapshot began
    acquires,   \* history: acquisitions
    overlap     \* history: a release cleared what a new worker publishes

\* Devices are finitely many, and descriptors and attempts are numbers.
ASSUME NvmlAssumption ==
    /\ IsFiniteSet(Users) /\ Nothing \notin Users /\ Nothing \notin Nat
    /\ MaxAttempts \in Nat /\ MaxReads \in Nat
    /\ MaxAcquires \in Nat /\ MaxSent \in Nat

nvars == <<manager, published, client, conn, open, helper, queue, user, fd,
           store, reader, sent, dead, floor, acquires, overlap>>

NoMessage == [sequence |-> 0, available |-> FALSE, id |-> 0]

NoReader == [user |-> Nothing, step |-> 0, tries |-> 0, before |-> 0,
             message |-> [sequence |-> 0, available |-> FALSE, use |-> 0,
                          temperature |-> 0]]

Holding(u) == user[u] = "in"

NvmlInit ==
    /\ manager = [active |-> FALSE, stop |-> FALSE, references |-> 0,
                  gpu |-> Nothing, attempts |-> 0, socket_fd |-> Nothing]
    /\ published = [gen |-> 0, sequence |-> 0, available |-> FALSE, use |-> 0,
                    temperature |-> 0]
    /\ client = [pc |-> "none", step |-> 0, message |-> NoMessage,
                 previous |-> 0]
    /\ conn = Nothing /\ open = FALSE /\ helper = "none" /\ queue = <<>>
    /\ user = [u \in Users |-> "out"]
    /\ fd = [u \in Users |-> Nothing]
    /\ store = [u \in Users |-> 0]
    /\ reader = NoReader
    /\ sent = 0 /\ dead = 0 /\ floor = 0 /\ acquires = 0
    /\ overlap = FALSE

-----------------------------------------------------------------------------
\* Mutant: readers are warned only after the first field has changed.
PublishStores_late ==
    <<"use", "gen", "temperature", "available", "sequence", "gen">>

\* publish: its six stores in order (x86 keeps the order of stores).
PublishStores ==
    <<"gen", "use", "temperature", "available", "sequence", "gen">>

\* invalidate: its three.
InvalidateStores == <<"gen", "available", "gen">>

\* One store of message `m' to field `f'.
Stored(f, m) ==
    CASE f = "gen"         -> [published EXCEPT !.gen = @ + 1]
      [] f = "use"         -> [published EXCEPT !.use = m.id]
      [] f = "temperature" -> [published EXCEPT !.temperature = m.id]
      [] f = "available"   -> [published EXCEPT !.available = m.available]
      [] f = "sequence"    -> [published EXCEPT !.sequence = m.sequence]

-----------------------------------------------------------------------------
\* frame_pacer_nvml_client_acquire: joins a running client for the same GPU,
\* or starts one; while the last release is under way it fails.
Acquire(u, g) ==
    /\ user[u] = "out" /\ acquires < MaxAcquires
    /\ acquires' = acquires + 1
    /\ \/ /\ manager.active
          /\ IF ~manager.stop /\ manager.gpu = g
             THEN /\ manager' = [manager EXCEPT !.references = @ + 1]
                  /\ user' = [user EXCEPT ![u] = "in"]
             ELSE UNCHANGED <<manager, user>>
          /\ UNCHANGED <<published, client>>
       \/ /\ ~manager.active
          /\ published' = [published EXCEPT !.gen = 0, !.sequence = 0,
                                            !.available = FALSE]
          /\ \/ /\ manager' = [active |-> TRUE, stop |-> FALSE,
                               references |-> 1, gpu |-> g, attempts |-> 0,
                               socket_fd |-> Nothing]
                /\ client' = [client EXCEPT !.pc = "top"]
                /\ user' = [user EXCEPT ![u] = "in"]
             \/ /\ manager' = [manager EXCEPT !.stop = FALSE, !.gpu = g,
                                              !.attempts = 0,
                                              !.socket_fd = Nothing]
                /\ UNCHANGED <<client, user>>
    /\ UNCHANGED <<conn, open, helper, queue, fd, store, reader, sent,
                   dead, floor, overlap>>

\* release: was this the last reference?
LastReference == manager.references = 1

\* frame_pacer_nvml_client_release up to its unlock: the last one asks the
\* worker to stop, wakes it if it waits, and copies the descriptor.
Release(u) ==
    /\ Holding(u) /\ reader.user # u
    /\ IF ~LastReference
       THEN /\ manager' = [manager EXCEPT !.references = @ - 1]
            /\ user' = [user EXCEPT ![u] = "out"]
            /\ UNCHANGED <<client, fd>>
       ELSE /\ manager' = [manager EXCEPT !.references = @ - 1, !.stop = TRUE]
            /\ user' = [user EXCEPT ![u] = "shutdown"]
            /\ fd' = [fd EXCEPT ![u] = manager.socket_fd]
            /\ client' = IF client.pc = "blocked"
                         THEN [client EXCEPT !.pc = "woke"] ELSE client
    /\ UNCHANGED <<published, conn, open, helper, queue, store, reader,
                   sent, dead, floor, acquires, overlap>>

\* Without the mutex: shutdown of the copied descriptor, which the worker may
\* have closed meanwhile.
Shutdown(u) ==
    /\ user[u] = "shutdown"
    /\ open' = (open /\ fd[u] # conn)
    /\ user' = [user EXCEPT ![u] = "join"]
    /\ fd' = [fd EXCEPT ![u] = Nothing]
    /\ UNCHANGED <<manager, published, client, conn, helper, queue, store,
                   reader, sent, dead, floor, acquires, overlap>>

\* pthread_join, then the reset of the manager under the mutex.
Join(u) ==
    /\ user[u] = "join" /\ client.pc = "exited"
    /\ client' = [client EXCEPT !.pc = "none"]
    /\ manager' = [manager EXCEPT !.active = FALSE, !.stop = FALSE,
                                  !.gpu = Nothing, !.attempts = 0]
    /\ user' = [user EXCEPT ![u] = "clear"]
    /\ store' = [store EXCEPT ![u] = 1]
    /\ UNCHANGED <<published, conn, open, helper, queue, fd, reader, sent,
                   dead, floor, acquires, overlap>>

\* release's invalidate, which runs after the mutex was dropped.
Clear(u) ==
    LET i == store[u] IN
    /\ user[u] = "clear"
    /\ published' = Stored(InvalidateStores[i], NoMessage)
    /\ IF i < Len(InvalidateStores)
       THEN store' = [store EXCEPT ![u] = i + 1] /\ UNCHANGED user
       ELSE store' = [store EXCEPT ![u] = 0] /\ user' = [user EXCEPT ![u] = "out"]
    /\ overlap' = (overlap \/ manager.active)
    /\ UNCHANGED <<manager, client, conn, open, helper, queue, fd, reader,
                   sent, dead, floor, acquires>>

-----------------------------------------------------------------------------
\* The worker's steps change its pc and leave the users alone.
At(pc) == client.pc = pc

Goto(pc) == client' = [client EXCEPT !.pc = pc]

users == <<user, fd, store, reader, floor, acquires, overlap>>

\* worker_main's loop test.
Top ==
    /\ At("top")
    /\ Goto(IF manager.stop \/ manager.attempts >= MaxAttempts
            THEN "exited" ELSE "wait")
    /\ UNCHANGED <<manager, published, conn, open, helper, queue, sent, dead, users>>

\* wait_until looks at stop under the mutex and only then waits.
MustWait == ~manager.stop

\* wait_until: the time may have come already.
WaitUntil ==
    /\ At("wait")
    /\ \/ Goto("woke")
       \/ MustWait /\ Goto("blocked")
    /\ UNCHANGED <<manager, published, conn, open, helper, queue, sent, dead, users>>

\* pthread_cond_timedwait runs into its time-out.
TimedOut ==
    /\ At("blocked")
    /\ Goto("woke")
    /\ UNCHANGED <<manager, published, conn, open, helper, queue, sent, dead, users>>

\* worker_main after the wait: stop, or another attempt whose spawn_helper
\* may fail.
Spawn ==
    /\ At("woke")
    /\ IF manager.stop
       THEN /\ Goto("exited")
            /\ UNCHANGED <<manager, conn, open, helper, queue>>
       ELSE /\ manager' = [manager EXCEPT !.attempts = @ + 1]
            /\ \/ /\ Goto("top")
                  /\ UNCHANGED <<conn, open, helper, queue>>
               \/ /\ client' = [client EXCEPT !.pc = "set", !.previous = 0]
                  /\ conn' = manager'.attempts /\ open' = TRUE /\ helper' = "running"
                  /\ queue' = <<>>
    /\ UNCHANGED <<published, sent, dead, users>>

\* run_connection: set_live_process.
SetLive ==
    /\ At("set")
    /\ manager' = [manager EXCEPT !.socket_fd = conn]
    /\ Goto("loop")
    /\ UNCHANGED <<published, conn, open, helper, queue, sent, dead,
                   users>>

\* Mutant: the connection relies on the shutdown to be told of a stop.
Loop_ignores_stop ==
    /\ At("loop")
    /\ Goto("poll")
    /\ UNCHANGED <<manager, published, conn, open, helper, queue, sent, dead, users>>

\* run_connection's loop test; `step' counts the stores of what follows.
Loop ==
    /\ At("loop")
    /\ client' = IF manager.stop
                 THEN [client EXCEPT !.pc = "invalidate", !.step = 1]
                 ELSE [client EXCEPT !.pc = "poll"]
    /\ UNCHANGED <<manager, published, conn, open, helper, queue, sent, dead, users>>

\* poll, waitpid and the look at the events, in the code's order: a poll that
\* fails ends the connection before anything else; a helper that died is
\* reaped; a hang-up ends the connection even if messages wait.
Poll ==
    /\ At("poll")
    /\ \/ /\ client' = [client EXCEPT !.pc = "invalidate", !.step = 1]
          /\ UNCHANGED helper
       \/ /\ helper = "dead"
          /\ helper' = "none"
          /\ client' = [client EXCEPT !.pc = "invalidate", !.step = 1]
       \/ /\ helper # "dead" /\ ~open
          /\ client' = [client EXCEPT !.pc = "invalidate", !.step = 1]
          /\ UNCHANGED helper
       \/ /\ helper # "dead" /\ open
          /\ Goto(IF queue # <<>> THEN "recv" ELSE "loop")
          /\ UNCHANGED helper
    /\ UNCHANGED <<manager, published, conn, open, queue, sent, dead,
                   users>>

\* recv and frame_pacer_nvml_protocol_decode, which takes only sequence
\* numbers that grow; then publish, or the end of the inner loop.
Recv ==
    /\ At("recv")
    /\ \/ /\ queue # <<>>
          /\ queue' = Tail(queue)
          /\ client' = IF Head(queue).sequence > client.previous
                       THEN [pc |-> "publish", step |-> 1,
                             message |-> Head(queue),
                             previous |-> Head(queue).sequence]
                       ELSE client
       \/ /\ queue = <<>>
          /\ client' = IF open /\ helper # "dead"
                       THEN [client EXCEPT !.pc = "loop"]
                       ELSE [client EXCEPT !.pc = "invalidate", !.step = 1]
          /\ UNCHANGED queue
    /\ UNCHANGED <<manager, published, conn, open, helper, sent, dead,
                   users>>

\* publish, one store at a time.
PublishStep ==
    LET i == client.step IN
    /\ At("publish")
    /\ published' = Stored(PublishStores[i], client.message)
    /\ client' = IF i < Len(PublishStores) THEN [client EXCEPT !.step = i + 1]
                 ELSE [client EXCEPT !.pc = "recv", !.step = 0,
                                     !.message = NoMessage]
    /\ UNCHANGED <<manager, conn, open, helper, queue, sent, dead, users>>

\* Mutant: the connection ends without clearing what it published.
Invalidate_skips ==
    /\ At("invalidate")
    /\ client' = [client EXCEPT !.pc = "close", !.step = 0]
    /\ UNCHANGED <<manager, published, conn, open, helper, queue, sent, dead, users>>

\* run_connection's invalidate.
Invalidate ==
    LET i == client.step IN
    /\ At("invalidate")
    /\ published' = Stored(InvalidateStores[i], NoMessage)
    /\ client' = IF i < Len(InvalidateStores)
                 THEN [client EXCEPT !.step = i + 1]
                 ELSE [client EXCEPT !.pc = "close", !.step = 0]
    /\ UNCHANGED <<manager, conn, open, helper, queue, sent, dead, users>>

\* shutdown and close.
Close ==
    /\ At("close")
    /\ open' = FALSE /\ queue' = <<>> /\ dead' = sent
    /\ Goto("terminate")
    /\ UNCHANGED <<manager, published, conn, helper, sent, users>>

\* Mutant: SIGTERM is sent, but nobody waits for the helper's end.
Terminate_nowait ==
    /\ At("terminate")
    /\ helper' = IF helper = "running" THEN "told" ELSE helper
    /\ Goto("unset")
    /\ UNCHANGED <<manager, published, conn, open, queue, sent, dead,
                   users>>

\* terminate_child: a helper that still runs is told to stop and waited for.
Terminate ==
    /\ At("terminate")
    /\ \/ /\ helper = "running"
          /\ helper' = "told"
          /\ UNCHANGED client
       \/ /\ helper \in {"dead", "none"}
          /\ helper' = "none"
          /\ Goto("unset")
    /\ UNCHANGED <<manager, published, conn, open, queue, sent, dead,
                   users>>

\* clear_live_process.
ClearLive ==
    /\ At("unset")
    /\ manager' = [manager EXCEPT !.socket_fd = Nothing]
    /\ conn' = Nothing
    /\ Goto("top")
    /\ UNCHANGED <<published, open, helper, queue, sent, dead, users>>

NvmlWorker ==
    \/ Top \/ WaitUntil \/ TimedOut \/ Spawn \/ SetLive \/ Loop \/ Poll \/ Recv
    \/ PublishStep \/ Invalidate \/ Close \/ Terminate \/ ClearLive

-----------------------------------------------------------------------------
\* helper_loop: a sample, numbered from 1 by each helper, sent if the socket
\* takes it.  One that could not be taken from NVML is not available.
HelperSend(available, delivered) ==
    /\ helper \in {"running", "told"} /\ open /\ sent < MaxSent
    /\ sent' = sent + 1
    /\ queue' = IF delivered
                THEN Append(queue, [sequence |-> sent' - dead,
                                    available |-> available, id |-> sent'])
                ELSE queue
    /\ UNCHANGED <<manager, published, client, conn, open, helper, dead,
                   users>>

\* The helper ends: it was told to, saw the hang-up, or failed by itself.
HelperEnds ==
    /\ helper \in {"running", "told"}
    /\ helper' = "dead"
    /\ UNCHANGED <<manager, published, client, conn, open, queue, sent, dead, users>>

\* helper_loop leaves within a second of SIGTERM or of the hang-up.
HelperObeys == HelperEnds /\ (helper = "told" \/ ~open)

-----------------------------------------------------------------------------
\* frame_pacer_nvml_client_snapshot, by a sampler that holds a reference.
\* Readers change nothing, so one at a time stands for all.
BeginSnapshot(u) ==
    /\ Holding(u) /\ reader = NoReader
    /\ reader' = [NoReader EXCEPT !.user = u, !.step = 1, !.tries = 1]
    /\ floor' = dead
    /\ UNCHANGED <<manager, published, client, conn, open, helper, queue, user,
                   fd, store, sent, dead, acquires, overlap>>

\* Its loads, in order.
Loads == <<"gen", "sequence", "available", "use", "temperature", "gen">>

\* The next try, or the answer that there is no sample.
Retried ==
    IF reader.tries < MaxReads
    THEN [NoReader EXCEPT !.user = reader.user, !.step = 1,
                          !.tries = reader.tries + 1]
    ELSE NoReader

\* The second look at the generation.
Steady == published.gen = reader.before /\ published.gen % 2 = 0

\* The snapshot is about to return `true' with reader.message.
Returns == reader.step = 6 /\ Steady

Read ==
    LET f == Loads[reader.step] IN
    /\ reader.user # Nothing
    /\ \/ /\ reader.step = 1
          /\ reader' = IF published.gen % 2 = 1 THEN Retried
                       ELSE [reader EXCEPT !.before = published.gen, !.step = 2]
       \/ /\ reader.step = 2 /\ published.sequence = 0
          /\ reader' = NoReader
       \/ /\ reader.step \in 2..5
          /\ reader.step = 2 => published.sequence # 0
          /\ reader' = [reader EXCEPT !.step = @ + 1,
                                      !.message = [@ EXCEPT ![f] = published[f]]]
       \/ /\ reader.step = 6
          /\ reader' = IF Steady THEN NoReader ELSE Retried
    /\ floor' = IF reader' = NoReader THEN 0 ELSE floor
    /\ UNCHANGED <<manager, published, client, conn, open, helper, queue, user,
                   fd, store, sent, dead, acquires, overlap>>

Releaser(u) == Shutdown(u) \/ Join(u) \/ Clear(u)

NvmlNext ==
    \/ \E u \in Users : \/ \E g \in Gpus : Acquire(u, g)
                        \/ Release(u) \/ Releaser(u) \/ BeginSnapshot(u)
    \/ NvmlWorker \/ HelperEnds \/ Read
    \/ \E available, delivered \in BOOLEAN : HelperSend(available, delivered)

NvmlSpec == NvmlInit /\ [][NvmlNext]_nvars

\* Threads are scheduled, and a helper that is told to stop stops.
NvmlFairness ==
    /\ WF_nvars(NvmlWorker) /\ WF_nvars(HelperObeys)
    /\ \A u \in Users : WF_nvars(Releaser(u))

-----------------------------------------------------------------------------
\* hud_nvml_client.c:465-493.  A snapshot that returns available values
\* returns those of one message of the helper, never a mixture of two.
CoherentSnapshot ==
    Returns /\ reader.message.available =>
        reader.message.use = reader.message.temperature

\* The same, as long as no release is still clearing what was published when
\* another user has started a new worker.
CoherentAlone == overlap \/ CoherentSnapshot

\* hud_nvml_client.c:355.  A snapshot begun after a connection ended does not
\* show a sample that came through it as available.
NoDeadSample ==
    Returns /\ reader.message.available => reader.message.use > floor

\* hud_nvml_client.c:433-463.  Once every user has released, no worker and no
\* helper process is left, neither running nor unreaped, and the count is
\* that of the users who hold a reference all along.
NoHelperLeft ==
    /\ manager.references = Cardinality({u \in Users : Holding(u)})
    /\ (\A u \in Users : user[u] \in {"out", "clear"}) =>
           client.pc = "none" /\ helper = "none" /\ ~manager.active

\* hud_nvml_client.c:452-454.  A release returns: the worker notices the stop
\* wherever it is, and the helper it waits for ends.
ReleaseEnds ==
    \A u \in Users : user[u] \in {"shutdown", "join"} ~> user[u] \in {"clear", "out"}
=============================================================================
