------------------------ MODULE CompletionPath_proofs ------------------------
(***************************************************************************)
(* Proofs about the way of a result back to the application, for every     *)
(* number of sockets, every capacity and every width of the futex: no      *)
(* wake-up is lost, neither by pifus_socket_wait nor by the callback       *)
(* thread.                                                                 *)
(***************************************************************************)
EXTENDS CompletionPath, SequenceTheorems, TLAPS

\* Steps of a futex word from one value to another.
Behind(new, old) == IF new >= old THEN new - old ELSE new - old + FutexMod

\* The result put last is not counted in the futex yet.
Uncounted(s) == IF spc.at = "bump" /\ spc.sock = s THEN 1 ELSE 0

\* How far the futex is, or will be, ahead of what pifus_socket_wait has read.
Ahead(s) == Behind(cqueueFutex[s], wshadow[s]) + Uncounted(s)

\* While a caller is in pifus_socket_wait the futex runs ahead of its shadow by
\* at most one more than the cqueue holds (the result an earlier call took
\* before it was counted), so it cannot wrap around to the shadow; once the
\* caller has found the cqueue empty every result in it is one the futex is
\* ahead by; and whoever sleeps there is not forgotten.
PollerOK(s) ==
  /\ wpc[s] # "idle" => Ahead(s) <= Len(cqueue[s]) + 1
  /\ wpc[s] \in {"block", "asleep", "again"} => Len(cqueue[s]) <= Ahead(s)
  /\ wpc[s] = "asleep" => cqueue[s] = <<>> \/ WakeComing(s)

PollerInv == \A s \in Socket : PollerOK(s)

\* One of the two modes is in use; the thread is at a socket where it needs one.
ModeInv ==
  /\ callback => \A s \in Socket : wpc[s] = "idle"
  /\ ~callback => kpc = "fill"
  /\ kpc \in {"diff", "shadow", "call"} => kidx \in Socket

\* The inductive invariant.
IInv == TypeOK /\ ModeInv /\ PollerInv /\ WatcherNotForgotten
-----------------------------------------------------------------------------
\* What the assumption says about the constants.
LEMMA ConstantFacts ==
  /\ Sockets \in Nat /\ Sockets >= 1 /\ CqueueCap \in Nat /\ MaxResults \in Nat
  /\ FutexMod \in Nat /\ FutexMod > CqueueCap + 1 /\ FutexMod > 1
  /\ 1 \in Socket /\ Socket \subseteq Int
BY CompletionAssumption DEF Socket

\* The unsigned arithmetic of the futex word.
LEMMA FutexStep ==
  ASSUME NEW f \in 0..(FutexMod - 1)
  PROVE  /\ (f + 1) % FutexMod = IF f + 1 = FutexMod THEN 0 ELSE f + 1
         /\ (f + 1) % FutexMod \in 0..(FutexMod - 1)
<1>1. FutexMod \in Nat \ {0}
  BY ConstantFacts
<1>2. CASE f + 1 = FutexMod
  BY <1>1, <1>2
<1>3. CASE f + 1 # FutexMod
  BY <1>1, <1>3
<1> QED
  BY <1>2, <1>3

\* The difference of two futex words, in range.
LEMMA FutexDiff ==
  ASSUME NEW f \in 0..(FutexMod - 1), NEW g \in 0..(FutexMod - 1)
  PROVE  (f - g) % FutexMod \in 0..(FutexMod - 1)
BY ConstantFacts

\* What a dequeue leaves of the two sequences.
LEMMA DequeueFacts ==
  ASSUME SharedOK, NEW s \in Socket, cqueue[s] # <<>>
  PROVE  /\ Head(cqueue[s]) \in 1..MaxResults
         /\ Tail(cqueue[s]) \in Seq(1..MaxResults)
         /\ Len(Tail(cqueue[s])) = Len(cqueue[s]) - 1
         /\ Append(got[s], Head(cqueue[s])) \in Seq(1..MaxResults)
         /\ Len(cqueue[s]) \in Nat \ {0}
<1>1. cqueue[s] \in Seq(1..MaxResults) /\ got[s] \in Seq(1..MaxResults)
  BY DEF SharedOK
<1>2. /\ Head(cqueue[s]) \in 1..MaxResults
      /\ Tail(cqueue[s]) \in Seq(1..MaxResults)
      /\ Len(Tail(cqueue[s])) = Len(cqueue[s]) - 1
  BY <1>1, HeadTailProperties
<1>3. Len(cqueue[s]) \in Nat \ {0}
  BY <1>1, EmptySeq, LenProperties
<1>4. Append(got[s], Head(cqueue[s])) \in Seq(1..MaxResults)
  BY <1>1, <1>2, AppendProperties
<1> QED
  BY <1>2, <1>3, <1>4

\* A dequeue, by pifus_socket_wait or by a callback, keeps the shape.
LEMMA DequeueShape ==
  ASSUME SharedOK, NEW s \in Socket, cqueue[s] # <<>>,
         got' = [got EXCEPT ![s] = Append(got[s], Head(cqueue[s]))],
         cqueue' = [cqueue EXCEPT ![s] = Tail(cqueue[s])],
         UNCHANGED <<cqueueFutex, wshadow, kshadow, produced, dropped>>
  PROVE  SharedOK'
<1>0. /\ Tail(cqueue[s]) \in Seq(1..MaxResults)
      /\ Len(Tail(cqueue[s])) = Len(cqueue[s]) - 1
      /\ Append(got[s], Head(cqueue[s])) \in Seq(1..MaxResults)
      /\ Len(cqueue[s]) \in Nat \ {0}
  BY DequeueFacts
<1>1. (cqueue \in [Socket -> Seq(1..MaxResults)])'
  BY <1>0 DEF SharedOK
<1>2. (got \in [Socket -> Seq(1..MaxResults)])'
  BY <1>0 DEF SharedOK
<1>3. (\A t \in Socket : Len(cqueue[t]) <= CqueueCap)'
  BY <1>0, ConstantFacts DEF SharedOK
<1> QED
  BY <1>1, <1>2, <1>3 DEF SharedOK

\* Every step keeps the shape of the variables, in steps of one action each.
LEMMA TypeStep == TypeOK /\ ModeInv /\ [Next]_vars => TypeOK' /\ ModeInv'
<1> SUFFICES ASSUME TypeOK, ModeInv, [Next]_vars PROVE TypeOK' /\ ModeInv'
  OBVIOUS
<1> USE ConstantFacts DEF stackVars, waitVars, cbVars
<1>0. SharedOK /\ ThreadsOK /\ callback \in BOOLEAN
  BY DEF TypeOK
<1>m. callback' = callback
  BY DEF Next, vars, Poll, Callback, ReportPut, ReportBump, ReportWake, Wake, WaitCall,
     WaitDequeue, WaitBlock, Block, CbFill, CbDiff, CbShadow, CbCall, CbReturn, CbWait,
     Sleep, CbTimeout
<1> SUFFICES SharedOK' /\ ThreadsOK' /\ ModeInv'
  BY <1>0, <1>m DEF TypeOK
<1>1. ASSUME NEW s \in Socket, ReportPut(s) PROVE SharedOK' /\ ThreadsOK' /\ ModeInv'
  <2>1. produced[s] + 1 \in 1..MaxResults
    <3>1. produced \in [Socket -> 0..MaxResults]
      BY <1>0 DEF SharedOK
    <3> QED
      BY <1>1, <3>1 DEF ReportPut
  <2>p. produced' \in [Socket -> 0..MaxResults]
    <3>1. produced \in [Socket -> 0..MaxResults]
      BY <1>0 DEF SharedOK
    <3>2. produced' = [produced EXCEPT ![s] = produced[s] + 1]
      BY <1>1 DEF ReportPut
    <3> QED
      BY <2>1, <3>1, <3>2
  <2>2. CASE HasRoom(s)
    <3>1. Append(cqueue[s], produced[s] + 1) \in Seq(1..MaxResults)
          /\ Len(Append(cqueue[s], produced[s] + 1)) = Len(cqueue[s]) + 1
      <4>1. cqueue[s] \in Seq(1..MaxResults)
        BY <1>0 DEF SharedOK
      <4> QED
        BY <2>1, <4>1, AppendProperties
    <3>2. /\ produced' = [produced EXCEPT ![s] = produced[s] + 1]
          /\ cqueue' = [cqueue EXCEPT ![s] = Append(cqueue[s], produced[s] + 1)]
          /\ UNCHANGED <<dropped, cqueueFutex, wshadow, kshadow, got>>
      BY <1>1, <2>2 DEF ReportPut
    <3>3. Len(cqueue[s]) \in Nat /\ Len(cqueue[s]) < CqueueCap
      BY <1>0, <2>2, LenProperties DEF HasRoom, SharedOK
    <3>4. SharedOK'
      <4>1. (cqueue \in [Socket -> Seq(1..MaxResults)])'
        BY <1>0, <3>1, <3>2 DEF SharedOK
      <4>2. (\A t \in Socket : Len(cqueue[t]) <= CqueueCap)'
        BY <1>0, <3>1, <3>2, <3>3 DEF SharedOK
      <4> QED
        BY <1>0, <2>p, <3>2, <4>1, <4>2 DEF SharedOK
    <3> QED
      BY <1>0, <1>1, <2>2, <3>4 DEF ReportPut, ThreadsOK, ModeInv
  <2>3. CASE ~HasRoom(s)
    <3>1. /\ produced' = [produced EXCEPT ![s] = produced[s] + 1]
          /\ dropped' = [dropped EXCEPT ![s] = dropped[s] \union {produced[s] + 1}]
          /\ UNCHANGED <<cqueue, cqueueFutex, wshadow, kshadow, got>>
      BY <1>1, <2>3 DEF ReportPut
    <3>2. SharedOK'
      <4>1. (dropped \in [Socket -> SUBSET (1..MaxResults)])'
        BY <1>0, <2>1, <3>1 DEF SharedOK
      <4> QED
        BY <1>0, <2>p, <3>1, <4>1 DEF SharedOK
    <3> QED
      BY <1>0, <1>1, <2>3, <3>2 DEF ReportPut, ThreadsOK, ModeInv
  <2> QED
    BY <2>2, <2>3
<1>2. CASE ReportBump
  <2>1. SharedOK'
    BY <1>0, <1>2, FutexStep DEF ReportBump, SharedOK, ThreadsOK
  <2> QED
    BY <1>0, <1>2, <2>1 DEF ReportBump, ThreadsOK, ModeInv
<1>3. CASE ReportWake
  <2>1. SharedOK'
    BY <1>0, <1>3 DEF ReportWake, Wake, SharedOK
  <2>2. ThreadsOK'
    BY <1>0, <1>3 DEF ReportWake, Wake, ThreadsOK, Socket
  <2>3. ModeInv'
    BY <1>0, <1>3 DEF ReportWake, Wake, ThreadsOK, ModeInv
  <2> QED
    BY <2>1, <2>2, <2>3
<1>4. ASSUME NEW s \in Socket, WaitCall(s) PROVE SharedOK' /\ ThreadsOK' /\ ModeInv'
  <2>1. SharedOK'
    BY <1>0, <1>4 DEF WaitCall, SharedOK
  <2> QED
    BY <1>0, <1>4, <2>1 DEF WaitCall, ThreadsOK, ModeInv
<1>5. ASSUME NEW s \in Socket, WaitDequeue(s) PROVE SharedOK' /\ ThreadsOK' /\ ModeInv'
  <2>1. SharedOK'
    <3>1. CASE cqueue[s] # <<>>
      BY <1>0, <1>5, <3>1, DequeueShape DEF WaitDequeue, Dequeue
    <3>2. CASE cqueue[s] = <<>>
      BY <1>0, <1>5, <3>2 DEF WaitDequeue, Dequeue, SharedOK
    <3> QED
      BY <3>1, <3>2
  <2>2. ThreadsOK' /\ ModeInv'
    BY <1>0, <1>5 DEF WaitDequeue, Dequeue, ThreadsOK, ModeInv
  <2> QED
    BY <2>1, <2>2
<1>6. ASSUME NEW s \in Socket, WaitBlock(s) PROVE SharedOK' /\ ThreadsOK' /\ ModeInv'
  <2>1. SharedOK'
    BY <1>0, <1>6 DEF WaitBlock, Block, SharedOK
  <2> QED
    BY <1>0, <1>6, <2>1 DEF WaitBlock, Block, ThreadsOK, ModeInv
<1>7. CASE CbFill
  <2>1. SharedOK'
    BY <1>0, <1>7 DEF CbFill, SharedOK
  <2> QED
    BY <1>0, <1>7, <2>1 DEF CbFill, ThreadsOK, ModeInv, Socket
<1>8. CASE CbDiff
  <2>1. kdiff' \in 0..(FutexMod - 1)
    BY <1>0, <1>8, FutexDiff DEF CbDiff, SharedOK, ModeInv
  <2>2. SharedOK'
    BY <1>0, <1>8 DEF CbDiff, SharedOK
  <2> QED
    BY <1>0, <1>8, <2>1, <2>2 DEF CbDiff, ThreadsOK, ModeInv
<1>9. CASE CbShadow
  <2>1. SharedOK'
    BY <1>0, <1>9 DEF CbShadow, SharedOK, ModeInv
  <2> QED
    BY <1>0, <1>9, <2>1 DEF CbShadow, ThreadsOK, ModeInv
<1>10. CASE CbCall
  <2>1. SharedOK'
    <3>1. CASE cqueue[kidx] # <<>>
      BY <1>0, <1>10, <3>1, DequeueShape DEF CbCall, ModeInv
    <3>2. CASE cqueue[kidx] = <<>>
      BY <1>0, <1>10, <3>2 DEF CbCall, SharedOK
    <3> QED
      BY <3>1, <3>2
  <2>2. ThreadsOK' /\ ModeInv'
    BY <1>0, <1>10 DEF CbCall, ThreadsOK, ModeInv
  <2> QED
    BY <2>1, <2>2
<1>11. CASE CbReturn
  <2>1. SharedOK'
    BY <1>0, <1>11 DEF CbReturn, SharedOK
  <2> QED
    BY <1>0, <1>11, <2>1 DEF CbReturn, ThreadsOK, ModeInv, Socket
<1>12. CASE CbWait
  <2>1. SharedOK'
    BY <1>0, <1>12 DEF CbWait, Sleep, SharedOK
  <2> QED
    BY <1>0, <1>12, <2>1 DEF CbWait, Sleep, ThreadsOK, ModeInv, Socket
<1>13. CASE CbTimeout
  <2>1. SharedOK'
    BY <1>0, <1>13 DEF CbTimeout, SharedOK
  <2> QED
    BY <1>0, <1>13, <2>1 DEF CbTimeout, ThreadsOK, ModeInv, Socket
<1>14. CASE UNCHANGED vars
  BY <1>0, <1>14 DEF vars, SharedOK, ThreadsOK, ModeInv
<1> QED
  BY <1>1, <1>2, <1>3, <1>4, <1>5, <1>6, <1>7, <1>8, <1>9, <1>10, <1>11, <1>12, <1>13, <1>14
  DEF Next, Poll, Callback

\* The futex word of a socket seen from a waiter of that socket: no step of its
\* count makes it equal to a shadow it is less than a whole turn ahead of.
LEMMA BehindStep ==
  ASSUME NEW f \in 0..(FutexMod - 1), NEW g \in 0..(FutexMod - 1)
  PROVE  /\ Behind(f, g) \in 0..(FutexMod - 1)
         /\ Behind(f, f) = 0
         /\ Behind(f, g) < FutexMod - 1 => Behind((f + 1) % FutexMod, g) = Behind(f, g) + 1
<1>1. (f + 1) % FutexMod = IF f + 1 = FutexMod THEN 0 ELSE f + 1
  BY FutexStep
<1> QED
  BY <1>1, ConstantFacts DEF Behind

\* A waiter is not disturbed by a step that leaves its socket alone.
LEMMA PollerFrame ==
  ASSUME NEW t \in Socket, PollerOK(t),
         cqueue'[t] = cqueue[t], cqueueFutex'[t] = cqueueFutex[t],
         wshadow'[t] = wshadow[t], wpc'[t] = wpc[t],
         Uncounted(t)' = Uncounted(t), WakeComing(t) => WakeComing(t)'
  PROVE  PollerOK(t)'
BY DEF PollerOK, Ahead, Behind

\* What is needed of the types of one socket.
LEMMA SocketFacts ==
  ASSUME TypeOK, NEW t \in Socket
  PROVE  /\ cqueue[t] \in Seq(1..MaxResults)
         /\ Len(cqueue[t]) \in 0..CqueueCap
         /\ cqueueFutex[t] \in 0..(FutexMod - 1)
         /\ wshadow[t] \in 0..(FutexMod - 1)
         /\ Uncounted(t) \in 0..1
         /\ Ahead(t) = Behind(cqueueFutex[t], wshadow[t]) + Uncounted(t)
         /\ Behind(cqueueFutex[t], wshadow[t]) \in 0..(FutexMod - 1)
<1>1. cqueue[t] \in Seq(1..MaxResults) /\ Len(cqueue[t]) <= CqueueCap
  BY DEF TypeOK, SharedOK
<1>2. cqueueFutex[t] \in 0..(FutexMod - 1) /\ wshadow[t] \in 0..(FutexMod - 1)
  BY DEF TypeOK, SharedOK
<1>3. Behind(cqueueFutex[t], wshadow[t]) \in 0..(FutexMod - 1)
  BY <1>2, BehindStep
<1>4. Uncounted(t) \in 0..1
  BY DEF Uncounted
<1> QED
  BY <1>1, <1>2, <1>3, <1>4, LenProperties, ConstantFacts DEF Ahead

\* The stack puts a result: the futex will be one further ahead.
LEMMA PollerPut ==
  ASSUME TypeOK, NEW s \in Socket, ReportPut(s), NEW t \in Socket, PollerOK(t)
  PROVE  PollerOK(t)'
<1> USE DEF stackVars, waitVars, cbVars
<1>1. spc.at = "idle" /\ UNCHANGED <<cqueueFutex, wshadow, wpc>>
  BY DEF ReportPut
<1>2. Uncounted(t) = 0 /\ ~WakeComing(t)
  BY <1>1 DEF Uncounted, WakeComing
<1>3. CASE HasRoom(s) /\ t = s
  <2>1. cqueue \in [Socket -> Seq(1..MaxResults)]
    BY DEF TypeOK, SharedOK
  <2>2. produced[s] + 1 \in 1..MaxResults
    <3>1. produced \in [Socket -> 0..MaxResults]
      BY DEF TypeOK, SharedOK
    <3> QED
      BY <3>1, ConstantFacts DEF ReportPut
  <2>3. /\ cqueue' = [cqueue EXCEPT ![s] = Append(cqueue[s], produced[s] + 1)]
        /\ spc' = [at |-> "bump", sock |-> s]
    BY <1>3 DEF ReportPut
  <2>4. Len(cqueue'[t]) = Len(cqueue[t]) + 1
    BY <1>3, <2>1, <2>2, <2>3, AppendProperties
  <2>5. Uncounted(t)' = 1 /\ WakeComing(t)'
    BY <1>3, <2>3 DEF Uncounted, WakeComing
  <2>6. Ahead(t)' = Ahead(t) + 1
    BY <1>1, <1>2, <2>5, SocketFacts DEF Ahead
  <2> QED
    BY <1>1, <2>4, <2>5, <2>6, SocketFacts DEF PollerOK
<1>4. CASE ~(HasRoom(s) /\ t = s)
  <2>1. cqueue'[t] = cqueue[t] /\ Uncounted(t)' = 0 /\ ~WakeComing(t)'
    <3>1. CASE HasRoom(s)
      <4>1. /\ cqueue' = [cqueue EXCEPT ![s] = Append(cqueue[s], produced[s] + 1)]
            /\ spc' = [at |-> "bump", sock |-> s]
            /\ t # s
        BY <1>4, <3>1 DEF ReportPut
      <4>2. cqueue \in [Socket -> Seq(1..MaxResults)]
        BY DEF TypeOK, SharedOK
      <4> QED
        BY <4>1, <4>2 DEF Uncounted, WakeComing
    <3>2. CASE ~HasRoom(s)
      BY <1>1, <1>2, <3>2 DEF ReportPut, Uncounted, WakeComing
    <3> QED
      BY <3>1, <3>2
  <2> QED
    BY <1>1, <1>2, <2>1, PollerFrame
<1> QED
  BY <1>3, <1>4

\* The stack counts the result: the futex does not reach the shadow again.
LEMMA PollerBump ==
  ASSUME TypeOK, ReportBump, NEW t \in Socket, PollerOK(t)
  PROVE  PollerOK(t)'
<1> USE DEF stackVars, waitVars, cbVars
<1>1. /\ spc.at = "bump" /\ spc' = [at |-> "wake", sock |-> spc.sock]
      /\ cqueueFutex' = [cqueueFutex EXCEPT ![spc.sock] = (cqueueFutex[spc.sock] + 1) % FutexMod]
      /\ UNCHANGED <<cqueue, wshadow, wpc>>
  BY DEF ReportBump
<1>2. cqueueFutex \in [Socket -> 0..(FutexMod - 1)] /\ spc.sock \in Socket
  BY DEF TypeOK, SharedOK, ThreadsOK
<1>3. CASE t = spc.sock
  <2>1. Uncounted(t) = 1 /\ Uncounted(t)' = 0 /\ WakeComing(t) /\ WakeComing(t)'
    BY <1>1, <1>3 DEF Uncounted, WakeComing
  <2>2. cqueueFutex'[t] = (cqueueFutex[t] + 1) % FutexMod
    BY <1>1, <1>2, <1>3
  <2>3. CASE wpc[t] = "idle"
    BY <1>1, <2>3 DEF PollerOK
  <2>4. CASE wpc[t] # "idle"
    <3>1. Behind(cqueueFutex[t], wshadow[t]) < FutexMod - 1
      BY <2>1, <2>4, SocketFacts, ConstantFacts DEF PollerOK
    <3>2. Behind(cqueueFutex'[t], wshadow'[t]) = Behind(cqueueFutex[t], wshadow[t]) + 1
      BY <1>1, <2>2, <3>1, SocketFacts, BehindStep
    <3>3. Ahead(t)' = Ahead(t)
      BY <2>1, <3>2, SocketFacts DEF Ahead
    <3> QED
      BY <1>1, <2>1, <3>3 DEF PollerOK
  <2> QED
    BY <2>3, <2>4
<1>4. CASE t # spc.sock
  <2>1. /\ Uncounted(t)' = Uncounted(t) /\ WakeComing(t)' = WakeComing(t)
        /\ cqueueFutex'[t] = cqueueFutex[t]
    BY <1>1, <1>2, <1>4 DEF Uncounted, WakeComing
  <2> QED
    BY <1>1, <2>1, PollerFrame
<1> QED
  BY <1>3, <1>4

\* The stack wakes: whoever slept at that socket looks at its cqueue again.
LEMMA PollerWake ==
  ASSUME TypeOK, ReportWake, NEW t \in Socket, PollerOK(t)
  PROVE  PollerOK(t)'
<1>1. /\ spc.at = "wake" /\ spc' = [at |-> "idle", sock |-> 1]
      /\ wpc' = IF wpc[spc.sock] = "asleep" THEN [wpc EXCEPT ![spc.sock] = "again"] ELSE wpc
      /\ UNCHANGED <<cqueue, cqueueFutex, wshadow>>
  BY DEF ReportWake, Wake
<1>2. wpc \in [Socket -> {"idle", "first", "block", "asleep", "again"}] /\ spc.sock \in Socket
  BY DEF TypeOK, ThreadsOK
<1>3. Uncounted(t) = 0 /\ Uncounted(t)' = 0 /\ Ahead(t)' = Ahead(t)
  BY <1>1 DEF Uncounted, Ahead
<1>4. CASE t = spc.sock
  <2>1. wpc'[t] = IF wpc[t] = "asleep" THEN "again" ELSE wpc[t]
    BY <1>1, <1>2, <1>4
  <2> QED
    BY <1>1, <1>3, <2>1 DEF PollerOK
<1>5. CASE t # spc.sock
  <2>1. wpc'[t] = wpc[t] /\ ~WakeComing(t)
    BY <1>1, <1>2, <1>5 DEF WakeComing
  <2> QED
    BY <1>1, <1>3, <2>1 DEF PollerOK
<1> QED
  BY <1>4, <1>5

\* pifus_socket_wait: it reads the futex, finds the cqueue empty, and sleeps only
\* while the futex is what it was.
LEMMA PollerWait ==
  ASSUME TypeOK, NEW s \in Socket, WaitCall(s) \/ Poll(s), NEW t \in Socket, PollerOK(t)
  PROVE  PollerOK(t)'
<1> USE DEF stackVars, waitVars, cbVars
<1>0. UNCHANGED <<cqueueFutex, spc>>
  BY DEF WaitCall, Poll, WaitDequeue, WaitBlock, Block
<1>1. Uncounted(t)' = Uncounted(t) /\ (WakeComing(t) => WakeComing(t)')
  BY <1>0 DEF Uncounted, WakeComing
<1>2. /\ wpc \in [Socket -> {"idle", "first", "block", "asleep", "again"}]
      /\ wshadow \in [Socket -> 0..(FutexMod - 1)]
      /\ cqueue \in [Socket -> Seq(1..MaxResults)]
  BY DEF TypeOK, SharedOK, ThreadsOK
<1>3. CASE t # s
  <2>1. cqueue'[t] = cqueue[t] /\ wpc'[t] = wpc[t] /\ wshadow'[t] = wshadow[t]
    BY <1>2, <1>3 DEF WaitCall, Poll, WaitDequeue, Dequeue, WaitBlock, Block
  <2> QED
    BY <1>0, <1>1, <2>1, PollerFrame
<1>4. CASE t = s /\ WaitCall(s)
  <2>1. wshadow'[t] = cqueueFutex[t] /\ wpc'[t] = "first" /\ cqueue' = cqueue
    BY <1>2, <1>4 DEF WaitCall
  <2>2. Ahead(t)' = Uncounted(t)
    <3>1. Behind(cqueueFutex[t], cqueueFutex[t]) = 0 /\ Uncounted(t) \in 0..1
      BY SocketFacts, BehindStep
    <3> QED
      BY <1>0, <1>1, <2>1, <3>1 DEF Ahead
  <2> QED
    BY <2>1, <2>2, SocketFacts DEF PollerOK
<1>5. CASE t = s /\ WaitDequeue(s)
  <2>1. wpc[t] \in {"first", "again"} /\ wshadow' = wshadow
    BY <1>5 DEF WaitDequeue
  <2>2. CASE cqueue[t] = <<>>
    <3>1. wpc'[t] = "block" /\ cqueue' = cqueue
      BY <1>2, <1>5, <2>2 DEF WaitDequeue, Dequeue
    <3>2. Ahead(t)' = Ahead(t) /\ Len(cqueue[t]) = 0
      BY <1>0, <1>1, <2>1, <2>2, EmptySeq DEF Ahead
    <3> QED
      BY <2>1, <3>1, <3>2, SocketFacts DEF PollerOK
  <2>3. CASE cqueue[t] # <<>>
    <3>1. wpc'[t] = "idle"
      BY <1>2, <1>5, <2>3 DEF WaitDequeue, Dequeue
    <3> QED
      BY <3>1 DEF PollerOK
  <2> QED
    BY <2>2, <2>3
<1>6. CASE t = s /\ WaitBlock(s)
  <2>1. /\ wpc[t] = "block" /\ wshadow' = wshadow /\ cqueue' = cqueue
        /\ wpc'[t] = IF cqueueFutex[t] # wshadow[t] THEN "again" ELSE "asleep"
    BY <1>2, <1>6 DEF WaitBlock, Block
  <2>2. Ahead(t)' = Ahead(t)
    BY <1>0, <1>1, <2>1 DEF Ahead
  <2>3. CASE cqueueFutex[t] # wshadow[t]
    BY <2>1, <2>2, <2>3 DEF PollerOK
  <2>4. CASE cqueueFutex[t] = wshadow[t]
    <3>1. Ahead(t) = Uncounted(t)
      <4>1. Behind(cqueueFutex[t], cqueueFutex[t]) = 0 /\ Uncounted(t) \in 0..1
        BY SocketFacts, BehindStep
      <4> QED
        BY <2>4, <4>1 DEF Ahead
    <3>2. cqueue[t] = <<>> \/ WakeComing(t)
      <4>1. CASE Uncounted(t) = 0
        <5>1. Len(cqueue[t]) = 0
          BY <2>1, <3>1, <4>1, SocketFacts DEF PollerOK
        <5> QED
          BY <5>1, SocketFacts, EmptySeq
      <4>2. CASE Uncounted(t) = 1
        BY <4>2 DEF Uncounted, WakeComing
      <4> QED
        BY <4>1, <4>2, SocketFacts
    <3> QED
      BY <1>1, <2>1, <2>2, <3>2 DEF PollerOK
  <2> QED
    BY <2>3, <2>4
<1> QED
  BY <1>3, <1>4, <1>5, <1>6 DEF Poll

\* The callback thread runs only where nobody is in pifus_socket_wait.
LEMMA PollerCallback ==
  ASSUME TypeOK, ModeInv, Callback, NEW t \in Socket, PollerOK(t)
  PROVE  PollerOK(t)'
<1>1. callback \in BOOLEAN
  BY DEF TypeOK
<1>2. callback
  BY <1>1 DEF Callback, ModeInv, CbFill, CbDiff, CbShadow, CbCall, CbReturn, CbWait, Sleep, CbTimeout
<1>3. wpc' = wpc
  BY DEF Callback, CbFill, CbDiff, CbShadow, CbCall, CbReturn, CbWait, Sleep, CbTimeout, waitVars
<1>4. wpc[t] = "idle"
  BY <1>1, <1>2 DEF ModeInv
<1> QED
  BY <1>3, <1>4 DEF PollerOK

\* Every step keeps the poller's part of the invariant.
LEMMA PollerStep == TypeOK /\ ModeInv /\ PollerInv /\ [Next]_vars => PollerInv'
<1> SUFFICES ASSUME TypeOK, ModeInv, PollerInv, [Next]_vars, NEW t \in Socket
             PROVE  PollerOK(t)'
  BY DEF PollerInv
<1>0. PollerOK(t)
  BY DEF PollerInv
<1>1. ASSUME NEW s \in Socket, ReportPut(s) PROVE PollerOK(t)'
  BY <1>0, <1>1, PollerPut
<1>2. CASE ReportBump
  BY <1>0, <1>2, PollerBump
<1>3. CASE ReportWake
  BY <1>0, <1>3, PollerWake
<1>4. ASSUME NEW s \in Socket, WaitCall(s) \/ Poll(s) PROVE PollerOK(t)'
  BY <1>0, <1>4, PollerWait
<1>5. CASE Callback
  BY <1>0, <1>5, PollerCallback
<1>6. CASE UNCHANGED vars
  BY <1>0, <1>6, PollerFrame DEF vars, stackVars, waitVars, cbVars, Uncounted, WakeComing
<1> QED
  BY <1>1, <1>2, <1>3, <1>4, <1>5, <1>6 DEF Next

\* Every step keeps the callback thread's part of the invariant.
LEMMA WatcherStep == TypeOK /\ WatcherNotForgotten /\ [Next]_vars => WatcherNotForgotten'
<1> SUFFICES ASSUME TypeOK, WatcherNotForgotten, [Next]_vars, kpc' = "asleep", NEW t \in Socket
             PROVE  cqueueFutex'[t] = kshadow'[t] \/ WakeComing(t)'
  BY DEF WatcherNotForgotten
<1> USE DEF stackVars, waitVars, cbVars
<1>1. CASE \E s \in Socket : ReportPut(s)
  <2>1. spc.at = "idle" /\ UNCHANGED <<kpc, cqueueFutex, kshadow>>
    BY <1>1 DEF ReportPut
  <2> QED
    BY <2>1 DEF WatcherNotForgotten, WakeComing
<1>2. CASE ReportBump
  <2>1. /\ spc.at = "bump" /\ spc' = [at |-> "wake", sock |-> spc.sock]
        /\ cqueueFutex' = [cqueueFutex EXCEPT ![spc.sock] = (cqueueFutex[spc.sock] + 1) % FutexMod]
        /\ UNCHANGED <<kpc, kshadow>>
    BY <1>2 DEF ReportBump
  <2>2. cqueueFutex \in [Socket -> 0..(FutexMod - 1)]
    BY DEF TypeOK, SharedOK
  <2>3. CASE t = spc.sock
    BY <2>1, <2>3 DEF WakeComing
  <2>4. CASE t # spc.sock
    BY <2>1, <2>2, <2>4 DEF WatcherNotForgotten, WakeComing
  <2> QED
    BY <2>3, <2>4
<1>3. CASE ReportWake
  BY <1>3 DEF ReportWake, Wake
<1>4. CASE \E s \in Socket : WaitCall(s) \/ Poll(s)
  <2>1. UNCHANGED <<kpc, cqueueFutex, kshadow, spc>>
    BY <1>4 DEF WaitCall, Poll, WaitDequeue, WaitBlock, Block
  <2> QED
    BY <2>1 DEF WatcherNotForgotten, WakeComing
<1>5. CASE Callback
  <2>1. CbWait
    BY <1>5 DEF Callback, CbFill, CbDiff, CbShadow, CbCall, CbReturn, CbTimeout
  <2> QED
    BY <2>1 DEF CbWait, Sleep
<1>6. CASE UNCHANGED vars
  BY <1>6 DEF vars, WatcherNotForgotten, WakeComing
<1> QED
  BY <1>1, <1>2, <1>3, <1>4, <1>5, <1>6 DEF Next

\* The initial states satisfy the invariant.
LEMMA InitIInv == Init => IInv
<1> SUFFICES ASSUME Init PROVE IInv
  OBVIOUS
<1>1. callback \in BOOLEAN
  BY DEF Init
<1>2. SharedOK
  BY ConstantFacts, EmptySeq DEF Init, SharedOK
<1>3. ThreadsOK /\ ModeInv
  BY ConstantFacts DEF Init, ThreadsOK, ModeInv, Socket
<1>4. PollerInv
  BY DEF Init, PollerInv, PollerOK
<1> QED
  BY <1>1, <1>2, <1>3, <1>4 DEF IInv, TypeOK, Init, WatcherNotForgotten

\* The invariant is inductive: no order in which the stack's put, count and wake
\* of enqueue_in_cqueue fall between the steps of pifus_socket_wait and of the
\* callback thread leaves it.
THEOREM Invariance == Spec => []IInv
<1>1. IInv /\ [Next]_vars => IInv'
  BY TypeStep, PollerStep, WatcherStep DEF IInv
<1> QED
  BY InitIInv, <1>1, PTL DEF Spec

\* Nobody sleeps in pifus_socket_wait on a cqueue that holds a result unless the
\* stack is about to wake him: reading the futex before the first dequeue
\* (pifus_socket.c) loses no wake-up, for every number of sockets and every
\* cqueue smaller than the range of the futex.
THEOREM PollerWakeup == Spec => []WaiterNotForgotten
<1>1. IInv => WaiterNotForgotten
  BY DEF IInv, PollerInv, PollerOK, WaiterNotForgotten
<1> QED
  BY Invariance, <1>1, PTL

\* The callback thread sleeps in futex_waitv only while it has seen every count
\* of every futex or the stack is about to wake it.
THEOREM WatcherWakeup == Spec => []WatcherNotForgotten
<1>1. IInv => WatcherNotForgotten
  BY DEF IInv
<1> QED
  BY Invariance, <1>1, PTL
=============================================================================
