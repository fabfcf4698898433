----------------------------- MODULE Discovery ------------------------------
(***************************************************************************)
(* How the stack comes to know applications and sockets, and how it lets   *)
(* go of them: applications create regions of shared memory under names    *)
(* (api/src/pifus.c, pifus_socket.c), the discovery thread looks for them  *)
(* and passes new sockets on to the priority thread of their level         *)
(* (lwip/custom/stack/src/discovery.c), whose list they join until they    *)
(* are closed (prio_thread.c, list/linked_list.c, tcp/close.c).            *)
(*                                                                         *)
(* A region is known by the process that made it.  An application is       *)
(* single-threaded; the discovery thread, the priority threads and the     *)
(* main thread run beside it.  Moving operations to the tx queue is        *)
(* TxPath: here a visit of a socket empties its squeue.                    *)
(***************************************************************************)
EXTENDS Integers, Sequences, SequencesExt, FiniteSets

CONSTANTS
  Proc,        \* processes that use pifus, numbered as they start
  None,        \* NULL
  MaxApps,     \* MAX_APP_AMOUNT
  MaxSockets,  \* MAX_SOCKETS_PER_APP
  Level,       \* priorities
  Low,         \* PRIORITY_LOW, which is 0
  Calls,       \* [prio, pcb]: arguments of pifus_socket_with_tcp_pcb
  QueueCap,    \* DISCOVERY_MAX_NEW_SOCKETS - 1
  SqueueCap,   \* SQUEUE_SIZE - 1
  Kinds,       \* kinds of operations: close, and others
  MaxMade,     \* bound: sockets made
  MaxOps       \* bound: operations a process submits

App == 0..(MaxApps - 1)
Idx == 1..MaxSockets
Id  == App \X Idx      \* pifus_socket_identifier
Sock == Proc \X Idx    \* the socket region a process made

ASSUME DiscoveryAssumption ==
  /\ {MaxApps, MaxSockets, QueueCap, SqueueCap, MaxMade} \subseteq Nat \ {0}
  /\ MaxOps \in Nat /\ Low \in Level /\ Calls \subseteq [prio : Level, pcb : BOOLEAN]
  /\ Proc \subseteq Nat /\ None \notin Proc \union App

VARIABLES
  \* names of shared memory
  appName,  \* app number -> the process whose region has that name
  sockName, \* identifier -> the process whose socket region has that name
  \* applications
  run,      \* process -> new, on or exited
  num,      \* process -> its app number
  highest,  \* process -> highest_socket_number
  stage,    \* process -> how far pifus_socket has got
  want,     \* socket -> [prio, pcb]: what pifus_socket was called with
  squeue,   \* socket -> operations submitted
  closing,  \* sockets with a close in the tx queue
  \* discovery thread
  nextApp,  \* next_app_number
  appPtr,   \* app_ptrs
  appFutex, \* app_futexes
  local,    \* app_local_highest_socket_number
  region,   \* identifier -> the process whose socket was mapped
  open,     \* identifiers whose socket_ptrs entry is not NULL
  disc,     \* where the thread is
  queue,    \* level -> new_socket_queue
  qfutex,   \* level -> socket_queue_futex
  \* priority threads
  list,     \* level -> the list of sockets
  round,    \* level -> iter_round_ of the list
  nr,       \* level -> socket_from_futex_nr
  shadow,   \* level -> new_socket_queue_futex_shadow
  thread,   \* level -> [at, count, ret, uneven]
  \* history
  submitted,\* process -> number of operations
  early,    \* identifiers mapped before pifus_socket was done with them
  armed,    \* identifiers for which tcp_arg was set
  dropped   \* identifiers that found their queue full

appVars  == <<appName, sockName, run, num, highest, stage, want>>
opVars   == <<squeue, closing, submitted>>
discVars == <<nextApp, appPtr, appFutex, local, region, early, armed>>
listVars == <<list, round, nr, shadow>>
vars == <<appVars, opVars, discVars, listVars, open, disc, queue, qfutex, thread, dropped>>

Fresh == [at |-> "drain", count |-> 0, ret |-> 0, uneven |-> FALSE]
AtScan == [at |-> "scan", app |-> 0, idx |-> 0, upto |-> 0, back |-> "fill", level |-> Low]

\* Memory that was not written yet is zero: a region is made by ftruncate, and
\* malloc's memory and the stack of a new thread come fresh from the system.
\* The priority threads have found nothing to do and sleep.
Init ==
  /\ appName = [n \in App |-> None] /\ sockName = [d \in Id |-> None]
  /\ run = [p \in Proc |-> "new"] /\ num = [p \in Proc |-> None]
  /\ highest = [p \in Proc |-> 0] /\ stage = [p \in Proc |-> "done"]
  /\ want = [s \in Sock |-> [prio |-> Low, pcb |-> FALSE]]
  /\ squeue = [s \in Sock |-> <<>>] /\ closing = {}
  /\ nextApp = 0 /\ appPtr = [n \in App |-> None]
  /\ appFutex = [n \in App |-> 0] /\ local = [n \in App |-> 0]
  /\ region = [d \in Id |-> None] /\ open = {} /\ disc = AtScan
  /\ queue = [l \in Level |-> <<>>] /\ qfutex = [l \in Level |-> 0]
  /\ list = [l \in Level |-> <<>>]
  /\ round = [l \in Level |-> 0] /\ nr = [l \in Level |-> <<>>] /\ shadow = [l \in Level |-> 0]
  /\ thread = [l \in Level |-> [Fresh EXCEPT !.at = "asleep"]]
  /\ submitted = [p \in Proc |-> 0] /\ early = {} /\ armed = {} /\ dropped = {}

(***************************************************************************)
(* The applications                                                        *)
(***************************************************************************)

\* The socket an identifier was mapped to.
SockOf(d) == <<region[d], d[2]>>

\* Mutant: an existing region is taken over.
MutFreeNumber(n) == TRUE

\* shm_open with O_CREAT and O_EXCL
FreeNumber(n) == appName[n] = None

\* pifus_initialize: create_app_shm_region takes the first number that is free.
Start(p) ==
  /\ run[p] = "new" /\ \A q \in Proc : q < p => run[q] # "new"
  /\ \E n \in App :
       /\ FreeNumber(n) /\ \A m \in App : m < n => ~FreeNumber(m)
       /\ num' = [num EXCEPT ![p] = n]
       /\ appName' = [appName EXCEPT ![n] = p]
  /\ run' = [run EXCEPT ![p] = "on"]
  /\ UNCHANGED <<sockName, highest, stage, want, discVars, listVars, opVars, open, disc,
                 queue, qfutex, thread, dropped>>

Made == Cardinality({s \in Sock : s[2] <= highest[s[1]]})

\* map_socket_region: the region gets its name and is announced.
Publish(p, call) ==
  /\ run[p] = "on" /\ stage[p] = "done" /\ highest[p] < MaxSockets /\ Made < MaxMade
  /\ LET i == highest[p] + 1 IN
       /\ sockName' = [sockName EXCEPT ![<<num[p], i>>] = p]
       /\ highest' = [highest EXCEPT ![p] = i]
       /\ want' = [want EXCEPT ![<<p, i>>] = call]
  /\ stage' = [stage EXCEPT ![p] = "published"]
  /\ UNCHANGED <<appName, run, num, discVars, listVars, opVars, open, disc,
                 queue, qfutex, thread, dropped>>

\* pifus_socket_with_tcp_pcb sets protocol and priority,
SetPriority(p) ==
  /\ run[p] = "on" /\ stage[p] = "published"
  /\ stage' = [stage EXCEPT ![p] = "prio"]
  /\ UNCHANGED <<appName, sockName, run, num, highest, want, discVars, listVars, opVars,
                 open, disc, queue, qfutex, thread, dropped>>

\* then the pcb (the socket of an accepted connection has one) and the squeue,
\* and wakes the discovery thread, which goes on with the app of the futex.
SetPcb(p) ==
  /\ run[p] = "on" /\ stage[p] = "prio"
  /\ stage' = [stage EXCEPT ![p] = "done"]
  /\ disc' = IF disc.at = "asleep" /\ appPtr[num[p]] = p
               THEN [disc EXCEPT !.at = "handle", !.app = num[p]] ELSE disc
  /\ UNCHANGED <<appName, sockName, run, num, highest, want, discVars, listVars, opVars,
                 open, queue, qfutex, thread, dropped>>

\* enqueue_operation, and the thread that waits for the socket.
Submit(p, i, kind) ==
  /\ run[p] = "on" /\ stage[p] = "done" /\ i <= highest[p]
  /\ Len(squeue[<<p, i>>]) < SqueueCap /\ submitted[p] < MaxOps
  /\ submitted' = [submitted EXCEPT ![p] = @ + 1]
  /\ squeue' = [squeue EXCEPT ![<<p, i>>] = Append(@, kind)]
  /\ thread' = [l \in Level |->
       LET t == thread[l]
           hit == {k \in 1..t.count : SockOf(nr[l][k]) = <<p, i>>}
       IN IF t.at = "asleep" /\ hit # {}
            THEN [t EXCEPT !.at = "woken", !.ret = CHOOSE k \in hit : TRUE] ELSE t]
  /\ UNCHANGED <<appVars, closing, discVars, listVars, open, disc, queue, qfutex, dropped>>

\* pifus_exit: the names of the sockets and of the app go, and nothing else.
Exit(p) ==
  /\ run[p] = "on" /\ stage[p] = "done"
  /\ run' = [run EXCEPT ![p] = "exited"]
  /\ sockName' = [d \in Id |-> IF d[1] = num[p] /\ d[2] <= highest[p] THEN None ELSE sockName[d]]
  /\ appName' = [appName EXCEPT ![num[p]] = None]
  /\ UNCHANGED <<num, highest, stage, want, discVars, listVars, opVars, open, disc,
                 queue, qfutex, thread, dropped>>

(***************************************************************************)
(* The discovery thread: discovery_thread_loop                             *)
(***************************************************************************)

\* map_new_sockets returns to where it was called: to fill_waitv, which goes on
\* with the next app, or to the loop.
BackFrom(d) == IF d.back = "fill" THEN [AtScan EXCEPT !.at = "fill", !.app = d.app + 1] ELSE AtScan

\* Mutant: the last new socket is left out.
MutNextToMap(d) == IF d.idx < d.upto THEN [d EXCEPT !.at = "map"] ELSE BackFrom(d)

\* The loop of map_new_sockets goes on, or is left.
NextToMap(d) == IF d.idx <= d.upto THEN [d EXCEPT !.at = "map"] ELSE BackFrom(d)

\* scan_for_app_regions
Scan ==
  /\ disc.at = "scan"
  /\ IF nextApp < MaxApps /\ appName[nextApp] # None
       THEN /\ appPtr' = [appPtr EXCEPT ![nextApp] = appName[nextApp]]
            /\ nextApp' = nextApp + 1
            /\ UNCHANGED disc
       ELSE /\ disc' = [AtScan EXCEPT !.at = "fill"]
            /\ UNCHANGED <<appPtr, nextApp>>
  /\ UNCHANGED <<appVars, opVars, listVars, appFutex, local, region, early, armed, open,
                 queue, qfutex, thread, dropped>>

\* handle_new_sockets refreshes the shadow and calls map_new_sockets.
Handle(n, back) ==
  /\ appFutex' = [appFutex EXCEPT ![n] = highest[appPtr[n]]]
  /\ disc' = [AtScan EXCEPT !.at = "read", !.app = n, !.back = back]

\* fill_waitv goes on to the first app that has new sockets; if there is none
\* futex_waitv waits for all of them.  Without an app the thread spins.
FillWaitv ==
  /\ disc.at = "fill"
  /\ LET new == {n \in disc.app..(nextApp - 1) : highest[appPtr[n]] # appFutex[n]}
     IN \/ /\ new # {}
           /\ Handle(CHOOSE n \in new : \A m \in new : n <= m, "fill")
        \/ /\ new = {}
           /\ disc' = IF nextApp > 0 /\ \A n \in 0..(nextApp - 1) : highest[appPtr[n]] = appFutex[n]
                        THEN [AtScan EXCEPT !.at = "asleep"] ELSE AtScan
           /\ UNCHANGED appFutex
  /\ UNCHANGED <<appVars, opVars, listVars, nextApp, appPtr, local, region, early, armed, open,
                 queue, qfutex, thread, dropped>>

\* The thread was woken by the futex of an app: handle_new_sockets.
HandleNewSockets ==
  /\ disc.at = "handle"
  /\ Handle(disc.app, "scan")
  /\ UNCHANGED <<appVars, opVars, listVars, nextApp, appPtr, local, region, early, armed, open,
                 queue, qfutex, thread, dropped>>

FirstNew(n) == local[n] + 1

\* map_new_sockets reads highest_socket_number once more.
ReadHighest ==
  /\ disc.at = "read"
  /\ disc' = NextToMap([disc EXCEPT !.idx = FirstNew(disc.app),
                                    !.upto = highest[appPtr[disc.app]]])
  /\ UNCHANGED <<appVars, opVars, discVars, listVars, open, queue, qfutex, thread, dropped>>

\* pifus_socket has set the fields of a socket up to a stage.
Set(s, stages) == s[2] < highest[s[1]] \/ stage[s[1]] \in stages

\* map_new_sockets, one socket: a name that is gone is skipped.  tcp_arg is set
\* if the socket has a pcb by now.
MapSocket ==
  /\ disc.at = "map"
  /\ LET d == <<disc.app, disc.idx>>
         p == sockName[d]
         s == <<p, disc.idx>>
     IN IF p = None
          THEN /\ disc' = NextToMap([disc EXCEPT !.idx = @ + 1])
               /\ UNCHANGED <<region, open, early, armed, local>>
          ELSE /\ region' = [region EXCEPT ![d] = p]
               /\ open' = open \union {d}
               /\ early' = IF Set(s, {"done"}) THEN early ELSE early \union {d}
               /\ armed' = IF want[s].pcb /\ Set(s, {"done"})
                             THEN armed \union {d} ELSE armed
               /\ local' = [local EXCEPT ![disc.app] = disc.idx]
               /\ disc' = [disc EXCEPT !.at = "put"]
  /\ UNCHANGED <<appVars, opVars, listVars, nextApp, appPtr, appFutex, queue, qfutex, thread,
                 dropped>>

\* Mutant: every socket goes to the low queue.
MutLevelOf(s) == Low

\* The priority as it is read.
LevelOf(s) == IF Set(s, {"prio", "done"}) THEN want[s].prio ELSE Low

Fits(l) == Len(queue[l]) < QueueCap

\* The socket is put in the queue of its level; a queue that is full is not
\* noticed.
PutNew ==
  /\ disc.at = "put"
  /\ LET d == <<disc.app, disc.idx>>
         l == LevelOf(SockOf(d))
     IN /\ IF Fits(l)
             THEN queue' = [queue EXCEPT ![l] = Append(@, d)] /\ UNCHANGED dropped
             ELSE dropped' = dropped \union {d} /\ UNCHANGED queue
        /\ disc' = [disc EXCEPT !.at = "announce", !.level = l]
  /\ UNCHANGED <<appVars, opVars, discVars, listVars, open, qfutex, thread>>

\* socket_queue_futex++ and futex_wake
Announce ==
  /\ disc.at = "announce"
  /\ qfutex' = [qfutex EXCEPT ![disc.level] = @ + 1]
  /\ thread' = [thread EXCEPT ![disc.level] =
                  IF @.at = "asleep" THEN [@ EXCEPT !.at = "woken", !.ret = thread[disc.level].count + 1]
                  ELSE @]
  /\ disc' = NextToMap([disc EXCEPT !.idx = @ + 1, !.level = Low])
  /\ UNCHANGED <<appVars, opVars, discVars, listVars, open, queue, dropped>>

\* futex_waitv returns after a second.
Timeout ==
  /\ disc.at = "asleep"
  /\ disc' = AtScan
  /\ UNCHANGED <<appVars, opVars, discVars, listVars, open, queue, qfutex, thread, dropped>>

Discover == Scan \/ FillWaitv \/ HandleNewSockets \/ ReadHighest \/ MapSocket
              \/ PutNew \/ Announce \/ Timeout

(***************************************************************************)
(* The priority threads: prio_thread_loop                                  *)
(***************************************************************************)

At(l, at) == thread[l].at = at

\* A new socket joins the list (ListPushFront) and is counted.
AddNew(l) ==
  /\ At(l, "drain") /\ queue[l] # <<>>
  /\ list' = [list EXCEPT ![l] = <<Head(queue[l])>> \o @]
  /\ queue' = [queue EXCEPT ![l] = Tail(@)]
  /\ shadow' = [shadow EXCEPT ![l] = @ + 1]
  /\ UNCHANGED <<appVars, opVars, discVars, round, nr, open, disc, qfutex, thread, dropped>>

\* handle_squeue_change.  Of what the main thread does with the operations, the
\* close matters here.
Serve(S) ==
  /\ closing' = closing \union {s \in S : Contains(squeue[s], "close")}
  /\ squeue' = [s \in Sock |-> IF s \in S THEN <<>> ELSE squeue[s]]

\* Mutant: the iterator is left as it was.
MutListFirst(l) == round[l]

\* ListFirst: the iterator goes to the head; that of an empty list is left alone.
ListFirst(l) == IF list[l] = <<>> THEN round[l] ELSE 0

\* The sockets of a walk that are open, in its order.
OpenIn(walked) ==
  LET f[i \in 0..Len(walked)] ==
        IF i = 0 THEN <<>>
        ELSE IF walked[i] \in open THEN Append(f[i - 1], walked[i]) ELSE f[i - 1]
  IN f[Len(walked)]

\* fill_prio_waitv: every socket that is open is visited and will be waited for.
\* ListNext compares the number of rounds with the size of the list and nothing
\* else, so that an iterator beyond the end goes on over freed nodes.
Walk(l) ==
  /\ At(l, "drain") /\ queue[l] = <<>>
  /\ IF ListFirst(l) > Len(list[l])
       THEN /\ thread' = [thread EXCEPT ![l].at = "lost"]
            /\ UNCHANGED <<round, nr, squeue, closing>>
       ELSE LET walked == SubSeq(list[l], ListFirst(l) + 1, Len(list[l]))
                visited == OpenIn(walked)
                n == Len(visited)
            IN /\ round' = [round EXCEPT ![l] = Len(list[l])]
               /\ Serve({SockOf(visited[k]) : k \in 1..n})
               /\ nr' = [nr EXCEPT ![l] = visited \o SubSeq(@, n + 1, Len(@))]
               /\ thread' = [thread EXCEPT ![l] =
                    [@ EXCEPT !.at = IF n < Len(walked) THEN "remove" ELSE "wait", !.count = n]]
  /\ UNCHANGED <<appVars, submitted, discVars, list, shadow, open, disc, queue, qfutex, dropped>>

\* Mutant: the index runs ahead of the walk.
MutFirstClosed(l) == 1 + (SelectInSeq(list[l], LAMBDA d : d \notin open) % Len(list[l]))

\* The first socket in the list that is closed.
FirstClosed(l) == SelectInSeq(list[l], LAMBDA d : d \notin open)

\* The walk has met a closed socket: a second one finds the first of them, which
\* is removed (ListRemove).
RemoveClosed(l) ==
  /\ At(l, "remove")
  /\ round' = [round EXCEPT ![l] = FirstClosed(l)]
  /\ list' = [list EXCEPT ![l] = RemoveAt(@, FirstClosed(l))]
  /\ thread' = [thread EXCEPT ![l].at = "wait"]
  /\ UNCHANGED <<appVars, opVars, discVars, nr, shadow, open, disc, queue, qfutex, dropped>>

\* Mutant: the shadow is set to the futex just before the wait.
MutUnchanged(l) == \A k \in 1..thread[l].count : squeue[SockOf(nr[l][k])] = <<>>

\* futex_waitv, which fails if a squeue or the queue of new sockets has changed;
\* socket_from_futex_nr is not cleared then.
Unchanged(l) ==
  /\ qfutex[l] = shadow[l]
  /\ \A k \in 1..thread[l].count : squeue[SockOf(nr[l][k])] = <<>>

Wait(l) ==
  /\ At(l, "wait")
  /\ thread' = [thread EXCEPT ![l] =
       IF Unchanged(l) THEN [@ EXCEPT !.at = "asleep", !.uneven = FALSE]
                       ELSE [Fresh EXCEPT !.uneven = qfutex[l] # shadow[l]]]
  /\ UNCHANGED <<appVars, opVars, discVars, listVars, open, disc, queue, qfutex, dropped>>

\* The thread is woken for a futex: that of the queue comes last, and the entry
\* of socket_from_futex_nr for it may be left from an earlier round.
Woken(l) ==
  /\ At(l, "woken")
  /\ IF thread[l].ret <= Len(nr[l]) THEN Serve({SockOf(nr[l][thread[l].ret])})
                                    ELSE UNCHANGED <<squeue, closing>>
  /\ nr' = [nr EXCEPT ![l] = <<>>]
  /\ thread' = [thread EXCEPT ![l] = [Fresh EXCEPT !.uneven = qfutex[l] # shadow[l]]]
  /\ UNCHANGED <<appVars, submitted, discVars, list, round, shadow, open, disc, queue, qfutex,
                 dropped>>

PrioStep(l) == AddNew(l) \/ Walk(l) \/ RemoveClosed(l) \/ Wait(l) \/ Woken(l)

\* tx_tcp_close in the main thread: the entry of socket_ptrs becomes NULL.
Close(d) ==
  /\ region[d] # None /\ SockOf(d) \in closing
  /\ closing' = closing \ {SockOf(d)}
  /\ open' = open \ {d}
  /\ UNCHANGED <<appVars, squeue, submitted, discVars, listVars, disc, queue, qfutex, thread,
                 dropped>>

Next ==
  \/ \E p \in Proc : \/ Start(p) \/ SetPriority(p) \/ SetPcb(p) \/ Exit(p)
                      \/ \E c \in Calls : Publish(p, c)
                      \/ \E i \in Idx, kind \in Kinds : Submit(p, i, kind)
  \/ Scan \/ FillWaitv \/ HandleNewSockets \/ ReadHighest \/ MapSocket
  \/ PutNew \/ Announce \/ Timeout
  \/ \E l \in Level : AddNew(l) \/ Walk(l) \/ RemoveClosed(l) \/ Wait(l) \/ Woken(l)
  \/ \E d \in Id : Close(d)

Spec == Init /\ [][Next]_vars

\* The threads of the stack are scheduled; applications may stop at any time,
\* which is also how a crash looks: nothing is unlinked.
FairSpec ==
  /\ Spec
  /\ WF_vars(Discover)
  /\ \A l \in Level : WF_vars(PrioStep(l))
-----------------------------------------------------------------------------
\* Where the identifiers of sockets are.
Places(d) ==
  (UNION {{<<"queue", l, k>> : k \in {j \in DOMAIN queue[l] : queue[l][j] = d}} : l \in Level})
  \union (UNION {{<<"list", l, k>> : k \in {j \in DOMAIN list[l] : list[l][j] = d}} : l \in Level})
InHand(d) == disc.at = "put" /\ d = <<disc.app, disc.idx>>
LevelsOf(d) == {x[2] : x \in Places(d)}

\* Shape of the variables.
TypeOK ==
  /\ highest \in [Proc -> 0..MaxSockets] /\ nextApp \in 0..MaxApps
  /\ \A n \in App : appPtr[n] # None => local[n] <= highest[appPtr[n]]
  /\ region \in [Id -> Proc \union {None}] /\ open \subseteq Id
  /\ \A l \in Level : Len(queue[l]) <= QueueCap
  /\ \A l \in Level : thread[l].at \in {"drain", "remove", "wait", "asleep", "woken", "lost"}

\* From the moment it is mapped until it is closed a socket is watched by one
\* thread and once: no rescan of map_new_sockets adds it again, and the removal
\* of a closed one, whose index is found in a second walk while sockets go on
\* closing, never takes it out.  Only a queue at its capacity (TypeOK) loses one.
WatchedOnce ==
  /\ TypeOK
  /\ \A d \in Id :
       /\ Cardinality(Places(d)) <= 1
       /\ d \in open \ dropped /\ ~InHand(d) => Cardinality(Places(d)) = 1

\* A priority thread never sleeps through a new socket (the discovery thread is
\* about to wake it), nor through an operation of a socket in its list.
NoNewSocketMissed ==
  \A l \in Level : At(l, "asleep") =>
    /\ queue[l] # <<>> => disc.at = "announce" /\ disc.level = l
    /\ \A k \in DOMAIN list[l] : list[l][k] \in open => squeue[SockOf(list[l][k])] = <<>>

\* The iteration over the list leaves it for freed nodes only in one case: the
\* list was emptied, and the thread runs once more without a new socket, because
\* the announcements it counts and the sockets it got differ.
WalkStaysInList ==
  \A l \in Level : At(l, "lost") => list[l] = <<>> /\ thread[l].uneven

\* A socket that was mapped after pifus_socket was done with it is served at
\* its own priority and, if it has a connection, has its tcp_arg.  (One mapped
\* earlier may be served as a low one, and without tcp_arg.)
LateMappedRight ==
  \A d \in Id : region[d] # None /\ d \notin early =>
    /\ LevelsOf(d) \subseteq {want[SockOf(d)].prio}
    /\ want[SockOf(d)].pcb => d \in armed

\* The stack resolves block offsets of a socket in the app region of its
\* number: both are of one process, as long as that process has not exited.
OneProcessPerApp ==
  \A d \in Id : region[d] \notin {None, appPtr[d[1]]} => run[appPtr[d[1]]] = "exited"

\* Every operation a running application submits to an open socket is moved to
\* the tx queue, unless its app number was taken over from another application
\* (which the stack does not look at again), the scan stops at a lower number
\* that is not in use, its queue was full or the thread has left its list.
Reachable(p) ==
  /\ run[p] = "on" /\ appPtr[num[p]] \in {None, p}
  /\ \A n \in nextApp..(num[p] - 1) : appName[n] # None
Pending(s) ==
  LET d == <<num[s[1]], s[2]>> IN
  /\ squeue[s] # <<>> /\ Reachable(s[1])
  /\ d \notin dropped /\ (d \in open \/ region[d] = None)
EveryOpMoved == []<>(\A s \in Sock : Pending(s) => \E l \in Level : At(l, "lost"))
=============================================================================
