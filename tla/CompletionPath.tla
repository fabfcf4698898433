--------------------------- MODULE CompletionPath ---------------------------
(***************************************************************************)
(* The way of a result back to the application: the main loop of the stack *)
(* puts it in the cqueue of its socket and wakes whoever waits there       *)
(* (enqueue_in_cqueue of lwip/custom/stack/src/stack.c).  An application   *)
(* in poll mode waits with pifus_socket_wait (api/src/pifus_socket.c); in  *)
(* callback mode the callback thread (api/src/pifus.c) waits for all       *)
(* sockets at once and invokes the application's callback, which pops one  *)
(* result.                                                                 *)
(*                                                                         *)
(* Each action makes at most one access to what another thread writes.     *)
(* The cqueue is a BoundedFifo, which SpscRing implements: it has one      *)
(* consumer in either mode.                                                *)
(***************************************************************************)
EXTENDS Integers, Sequences

CONSTANTS
  Sockets,       \* number of open sockets, 1 the first one
  CqueueCap,     \* CQUEUE_SIZE - 1
  FutexMod,      \* 2^32, cqueue_futex and its shadows are futex_t
  MaxResults     \* bound: results the stack reports per socket

Socket == 1..Sockets
ASSUME CompletionAssumption ==
  /\ {Sockets, CqueueCap, MaxResults} \subseteq Nat \ {0}
  /\ FutexMod \in Nat /\ FutexMod > CqueueCap + 1

VARIABLES
  callback,  \* pifus_initialize was given a callback, not NULL
  \* shared memory of each socket
  cqueue, cqueueFutex,
  \* the stack
  spc,       \* what is left of enqueue_in_cqueue: control point, socket
  produced,  \* results per socket, the dropped ones included
  \* pifus_socket_wait, one caller per socket
  wpc, wshadow,
  \* the callback thread
  kpc, kidx, kret,
  kdiff,     \* shadow_actual_difference
  kshadow,   \* socket_futexes
  \* history
  dropped,   \* results that found the cqueue full
  got        \* results the application has dequeued

stackVars == <<spc, produced, dropped>>
waitVars  == <<wpc, wshadow>>
cbVars    == <<kpc, kidx, kret, kdiff, kshadow>>
vars == <<callback, cqueue, cqueueFutex, stackVars, waitVars, cbVars, got>>

\* pifus_initialize starts the callback thread only with a callback.
Init ==
  /\ callback \in BOOLEAN
  /\ cqueue = [s \in Socket |-> <<>>]
  /\ cqueueFutex = [s \in Socket |-> 0]
  /\ spc = [at |-> "idle", sock |-> 1]
  /\ produced = [s \in Socket |-> 0] /\ dropped = [s \in Socket |-> {}]
  /\ wpc = [s \in Socket |-> "idle"] /\ wshadow = [s \in Socket |-> 0]
  /\ kpc = "fill" /\ kidx = 1 /\ kret = "fill" /\ kdiff = 0
  /\ kshadow = [s \in Socket |-> 0]
  /\ got = [s \in Socket |-> <<>>]

(***************************************************************************)
(* The stack: enqueue_in_cqueue.                                           *)
(***************************************************************************)

HasRoom(s) == Len(cqueue[s]) < CqueueCap

\* put: a result that does not fit is dropped, and nobody is told.
ReportPut(s) ==
  /\ spc.at = "idle" /\ produced[s] < MaxResults
  /\ produced' = [produced EXCEPT ![s] = @ + 1]
  /\ \/ /\ HasRoom(s)
        /\ cqueue' = [cqueue EXCEPT ![s] = Append(@, produced[s] + 1)]
        /\ spc' = [at |-> "bump", sock |-> s]
        /\ UNCHANGED dropped
     \/ /\ ~HasRoom(s)
        /\ dropped' = [dropped EXCEPT ![s] = @ \union {produced[s] + 1}]
        /\ UNCHANGED <<cqueue, spc>>
  /\ UNCHANGED <<callback, cqueueFutex, waitVars, cbVars, got>>

ReportBump ==
  /\ spc.at = "bump"
  /\ cqueueFutex' = [cqueueFutex EXCEPT ![spc.sock] = (@ + 1) % FutexMod]
  /\ spc' = [at |-> "wake", sock |-> spc.sock]
  /\ UNCHANGED <<callback, cqueue, produced, dropped, waitVars, cbVars, got>>

Wake(poller, watcher) ==
  /\ spc.at = "wake"
  /\ spc' = [at |-> "idle", sock |-> 1]
  /\ wpc' = IF poller THEN [wpc EXCEPT ![spc.sock] = "again"] ELSE wpc
  /\ IF watcher
       THEN kpc' = "diff" /\ kidx' = spc.sock /\ kret' = "loop"
       ELSE UNCHANGED <<kpc, kidx, kret>>
  /\ UNCHANGED <<callback, cqueue, cqueueFutex, produced, dropped, wshadow, kdiff, kshadow, got>>

\* Mutant: the futex is counted up and nobody is woken.
MutReportWake == Wake(FALSE, FALSE)

\* futex_wake: pifus_socket_wait goes on, futex_waitv returns the socket.
ReportWake == Wake(wpc[spc.sock] = "asleep", kpc = "asleep")

(***************************************************************************)
(* Poll mode: pifus_socket_wait.                                           *)
(***************************************************************************)

\* dequeue_operation, or what is done when there is nothing to dequeue.
Dequeue(s, otherwise) ==
  \/ /\ cqueue[s] # <<>>
     /\ got' = [got EXCEPT ![s] = Append(@, Head(cqueue[s]))]
     /\ cqueue' = [cqueue EXCEPT ![s] = Tail(@)]
     /\ wpc' = [wpc EXCEPT ![s] = "idle"]
  \/ /\ cqueue[s] = <<>>
     /\ wpc' = [wpc EXCEPT ![s] = otherwise]
     /\ UNCHANGED <<cqueue, got>>

WaitCall(s) ==
  /\ ~callback
  /\ wpc[s] = "idle"
  /\ wshadow' = [wshadow EXCEPT ![s] = cqueueFutex[s]]
  /\ wpc' = [wpc EXCEPT ![s] = "first"]
  /\ UNCHANGED <<callback, cqueue, cqueueFutex, stackVars, cbVars, got>>

\* Before the loop and after each futex_wait.
WaitDequeue(s) ==
  /\ wpc[s] \in {"first", "again"}
  /\ Dequeue(s, "block")
  /\ UNCHANGED <<callback, cqueueFutex, stackVars, wshadow, cbVars>>

Block(s, changed) ==
  /\ wpc[s] = "block"
  /\ wpc' = [wpc EXCEPT ![s] = IF changed THEN "again" ELSE "asleep"]
  /\ UNCHANGED <<callback, cqueue, cqueueFutex, stackVars, wshadow, cbVars, got>>

\* Mutant: the shadow is only read when nothing could be dequeued.
MutWaitBlock(s) == Block(s, FALSE)

\* futex_wait sleeps while the futex is what it was before the first dequeue.
WaitBlock(s) == Block(s, cqueueFutex[s] # wshadow[s])

(***************************************************************************)
(* Callback mode: the callback thread.                                     *)
(***************************************************************************)

\* fill_sockets_waitv compares the futex of the next socket with its shadow;
\* behind the last socket comes futex_waitv.
CbFill ==
  /\ callback
  /\ kpc = "fill"
  /\ \/ /\ kidx > Sockets
        /\ kpc' = "wait" /\ UNCHANGED kidx
     \/ /\ kidx <= Sockets /\ cqueueFutex[kidx] # kshadow[kidx]
        /\ kpc' = "diff" /\ UNCHANGED kidx
     \/ /\ kidx <= Sockets /\ cqueueFutex[kidx] = kshadow[kidx]
        /\ kidx' = kidx + 1 /\ UNCHANGED kpc
  /\ kret' = "fill"
  /\ UNCHANGED <<callback, cqueue, cqueueFutex, stackVars, waitVars, kdiff, kshadow, got>>

\* handle_new_cqueue_entry: how many results are new ...
CbDiff ==
  /\ kpc = "diff"
  /\ kdiff' = (cqueueFutex[kidx] - kshadow[kidx]) % FutexMod
  /\ kpc' = "shadow"
  /\ UNCHANGED <<callback, cqueue, cqueueFutex, stackVars, waitVars, kidx, kret, kshadow, got>>

\* ... and, with a second read of the futex, up to where.
CbShadow ==
  /\ kpc = "shadow"
  /\ kshadow' = [kshadow EXCEPT ![kidx] = cqueueFutex[kidx]]
  /\ kpc' = "call"
  /\ UNCHANGED <<callback, cqueue, cqueueFutex, stackVars, waitVars, kidx, kret, kdiff, got>>

\* One callback per new result, which pops a result; none when a callback
\* finds the cqueue empty.
CbCall ==
  /\ kpc = "call" /\ kdiff > 0
  /\ kdiff' = kdiff - 1
  /\ IF cqueue[kidx] # <<>>
       THEN /\ got' = [got EXCEPT ![kidx] = Append(@, Head(cqueue[kidx]))]
            /\ cqueue' = [cqueue EXCEPT ![kidx] = Tail(@)]
       ELSE UNCHANGED <<got, cqueue>>
  /\ UNCHANGED <<callback, cqueueFutex, stackVars, waitVars, kpc, kidx, kret, kshadow>>

CbReturn ==
  /\ kpc = "call" /\ kdiff = 0
  /\ kpc' = "fill"
  /\ kidx' = IF kret = "fill" THEN kidx + 1 ELSE 1
  /\ kret' = "fill"
  /\ UNCHANGED <<callback, cqueue, cqueueFutex, stackVars, waitVars, kdiff, kshadow, got>>

Sleep(changed) ==
  /\ kpc = "wait"
  /\ \/ changed /\ kpc' = "fill" /\ kidx' = 1
     \/ ~changed /\ kpc' = "asleep" /\ UNCHANGED kidx
  /\ UNCHANGED <<callback, cqueue, cqueueFutex, stackVars, waitVars, kret, kdiff, kshadow, got>>

\* Mutant: the thread sleeps although a futex has moved on.
MutCbWait == Sleep(FALSE)

\* futex_waitv compares all futexes with their shadows.
CbWait == Sleep(\E s \in Socket : cqueueFutex[s] # kshadow[s])

\* It returns after a second at the latest.
CbTimeout ==
  /\ kpc = "asleep"
  /\ kpc' = "fill" /\ kidx' = 1
  /\ UNCHANGED <<callback, cqueue, cqueueFutex, stackVars, waitVars, kret, kdiff, kshadow, got>>

Poll(s)  == WaitDequeue(s) \/ WaitBlock(s)
Callback == CbFill \/ CbDiff \/ CbShadow \/ CbCall \/ CbReturn \/ CbWait \/ CbTimeout

Next ==
  \/ \E s \in Socket : ReportPut(s) \/ WaitCall(s) \/ Poll(s)
  \/ ReportBump \/ ReportWake \/ Callback

Spec == Init /\ [][Next]_vars

\* The stack finishes a report it has begun; a caller of pifus_socket_wait
\* that is not asleep and the callback thread keep running.
FairSpec ==
  /\ Spec
  /\ WF_vars(ReportBump \/ ReportWake)
  /\ \A s \in Socket : WF_vars(Poll(s))
  /\ WF_vars(Callback)
-----------------------------------------------------------------------------
\* Shape of what the stack and the application share ...
SharedOK ==
  /\ cqueue \in [Socket -> Seq(1..MaxResults)] /\ got \in [Socket -> Seq(1..MaxResults)]
  /\ \A s \in Socket : Len(cqueue[s]) <= CqueueCap
  /\ cqueueFutex \in [Socket -> 0..(FutexMod - 1)]
  /\ wshadow \in [Socket -> 0..(FutexMod - 1)] /\ kshadow \in [Socket -> 0..(FutexMod - 1)]
  /\ produced \in [Socket -> 0..MaxResults]
  /\ dropped \in [Socket -> SUBSET (1..MaxResults)]

\* ... and of the threads.
ThreadsOK ==
  /\ wpc \in [Socket -> {"idle", "first", "block", "asleep", "again"}]
  /\ spc \in [at : {"idle", "bump", "wake"}, sock : Socket]
  /\ kpc \in {"fill", "diff", "shadow", "call", "wait", "asleep"} /\ kret \in {"fill", "loop"}
  /\ kidx \in 1..(Sockets + 1) /\ kdiff \in 0..(FutexMod - 1)

TypeOK == callback \in BOOLEAN /\ SharedOK /\ ThreadsOK

\* The stack is about to wake the waiter of s.
WakeComing(s) == spc.at \in {"bump", "wake"} /\ spc.sock = s

\* No lost wake-up in poll mode: whoever sleeps in pifus_socket_wait has
\* nothing to dequeue, or will be woken, although results that do not fit in
\* the cqueue (whose bound is in TypeOK) are dropped.
WaiterNotForgotten ==
  /\ TypeOK
  /\ \A s \in Socket : wpc[s] = "asleep" => cqueue[s] = <<>> \/ WakeComing(s)

\* pifus_socket_wait returns once there is a result for its socket.
WaitReturns ==
  \A s \in Socket : (wpc[s] # "idle" /\ cqueue[s] # <<>>) ~> wpc[s] = "idle"

\* No lost wake-up in callback mode: the callback thread sleeps only while it
\* has seen every count of every futex, or will be woken.
WatcherNotForgotten ==
  kpc = "asleep" =>
    \A s \in Socket : cqueueFutex[s] = kshadow[s] \/ WakeComing(s)

\* The "Callback that is invoked when a socket has a new entry in the cqueue"
\* (pifus_initialize): every entry is popped by a callback in the end.
EveryEntryCalledBack ==
  \A s \in Socket : \A n \in 1..MaxResults :
    (callback /\ \E i \in DOMAIN cqueue[s] : cqueue[s][i] = n)
      ~> (\E i \in DOMAIN got[s] : got[s][i] = n)
=============================================================================
