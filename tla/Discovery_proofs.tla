-------------------------- MODULE Discovery_proofs --------------------------
(***************************************************************************)
(* Theorems about Discovery, for any number of processes, applications,    *)
(* sockets and levels: every safety invariant of the module, from one      *)
(* inductive invariant.                                                    *)
(***************************************************************************)
EXTENDS Discovery, SequenceTheorems, FiniteSetTheorems, WellFoundedInduction, TLAPS

(***************************************************************************)
(* The inductive invariant                                                 *)
(***************************************************************************)

Thread == [at : {"drain", "remove", "wait", "asleep", "woken", "lost"},
           count : Nat, ret : Nat, uneven : BOOLEAN]
Disc == [at : {"scan", "fill", "handle", "read", "map", "put", "announce", "asleep"},
         app : Nat, idx : Nat, upto : Nat, back : {"fill", "scan"}, level : Level]

\* The variables of the applications and of the names have their types,
AppShape ==
  /\ appName \in [App -> Proc \union {None}] /\ sockName \in [Id -> Proc \union {None}]
  /\ run \in [Proc -> {"new", "on", "exited"}] /\ num \in [Proc -> App \union {None}]
  /\ highest \in [Proc -> 0..MaxSockets] /\ stage \in [Proc -> {"published", "prio", "done"}]
  /\ want \in [Sock -> [prio : Level, pcb : BOOLEAN]]

\* those of the discovery thread,
DiscShape ==
  /\ nextApp \in 0..MaxApps /\ appPtr \in [App -> Proc \union {None}]
  /\ local \in [App -> 0..MaxSockets] /\ region \in [Id -> Proc \union {None}]
  /\ open \subseteq Id /\ disc \in Disc

\* and those of the priority threads.
ThreadShape ==
  /\ squeue \in [Sock -> Seq(Kinds)]
  /\ queue \in [Level -> Seq(Id)] /\ list \in [Level -> Seq(Id)] /\ nr \in [Level -> Seq(Id)]
  /\ qfutex \in [Level -> Nat] /\ shadow \in [Level -> Nat] /\ round \in [Level -> Nat]
  /\ thread \in [Level -> Thread]

\* A running process and only such a one has its name, and its sockets theirs.
NameInv ==
  /\ \A n \in App : appName[n] # None => run[appName[n]] = "on" /\ num[appName[n]] = n
  /\ \A p \in Proc : run[p] = "on" => num[p] \in App /\ appName[num[p]] = p
  /\ \A d \in Id : sockName[d] # None =>
       run[sockName[d]] = "on" /\ num[sockName[d]] = d[1] /\ d[2] <= highest[sockName[d]]

\* The apps that were found have been running.
AppInv ==
  \A n \in App :
    /\ n < nextApp <=> appPtr[n] # None
    /\ appPtr[n] = None => local[n] = 0
    /\ appPtr[n] # None => /\ run[appPtr[n]] # "new" /\ num[appPtr[n]] = n
                           /\ local[n] <= highest[appPtr[n]]

\* A socket that was mapped is one of those its app has counted, and was made by
\* the process of the app or by one that took the number over.
RegionInv ==
  \A d \in Id : region[d] # None =>
    /\ d[1] < nextApp /\ d[2] <= local[d[1]] /\ d[2] <= highest[region[d]]
    /\ region[d] = appPtr[d[1]] \/ run[appPtr[d[1]]] = "exited"

\* What is known of a socket that was complete when it was mapped.
LateInv ==
  \A d \in Id : region[d] # None /\ d \notin early =>
    /\ Set(SockOf(d), {"done"})
    /\ want[SockOf(d)].pcb => d \in armed

\* Where the discovery thread is in map_new_sockets.
DiscInv ==
  /\ disc.at \in {"handle", "read", "map", "put", "announce"} => disc.app < nextApp
  /\ disc.at \in {"map", "put", "announce"} =>
       disc.idx <= disc.upto /\ disc.upto <= highest[appPtr[disc.app]]
  /\ disc.at = "map" => local[disc.app] < disc.idx
  /\ disc.at \in {"put", "announce"} =>
       local[disc.app] = disc.idx /\ disc.idx > 0 /\ region[<<disc.app, disc.idx>>] # None

\* A socket in the queue or the list of a level was mapped, and belongs there.
Placed(d, l) == region[d] # None /\ ~InHand(d) /\ (d \notin early => want[SockOf(d)].prio = l)
PlaceInv ==
  \A l \in Level : /\ \A k \in 1..Len(queue[l]) : Placed(queue[l][k], l)
                   /\ \A k \in 1..Len(list[l]) : Placed(list[l][k], l)
                   /\ \A k \in 1..Len(nr[l]) : region[nr[l][k]] # None

\* No socket is in two places,
OneEach(q) ==
  \A l \in Level, m \in Level : \A i \in 1..Len(q[l]), j \in 1..Len(q[m]) : q[l][i] = q[m][j] => l = m /\ i = j
NoneShared(q, s) ==
  \A l \in Level, m \in Level : \A i \in 1..Len(q[l]), j \in 1..Len(s[m]) : q[l][i] # s[m][j]
UniqueInv == OneEach(queue) /\ OneEach(list) /\ NoneShared(queue, list)

\* and no open one is without a place, but those a full queue has dropped.
HasPlace(d) == \E l \in Level : \/ \E k \in 1..Len(queue[l]) : queue[l][k] = d
                                \/ \E k \in 1..Len(list[l]) : list[l][k] = d
CoverInv == \A d \in open : d \in dropped \/ InHand(d) \/ HasPlace(d)

\* The announcements keep up with the sockets a thread has counted or will.
Announcing(l) == disc.at = "announce" /\ disc.level = l
CountInv ==
  \A l \in Level :
    /\ Len(queue[l]) <= QueueCap
    /\ shadow[l] + Len(queue[l]) <= qfutex[l] + (IF Announcing(l) THEN 1 ELSE 0)
    /\ At(l, "asleep") => qfutex[l] = shadow[l]
    /\ At(l, "woken") /\ thread[l].count = 0 => shadow[l] < qfutex[l]

\* An iterator beyond the end of an empty list will meet a new socket first.
IterInv ==
  \A l \in Level :
    /\ At(l, "remove") => thread[l].count < Len(list[l])
    /\ At(l, "lost") => list[l] = <<>> /\ thread[l].uneven
    /\ list[l] = <<>> /\ round[l] > 0 =>
         /\ thread[l].at \in {"wait", "asleep", "woken"} => thread[l].count = 0
         /\ At(l, "drain") => thread[l].uneven

\* A thread that is about to wait, or waits, does so for every open socket in
\* its list, and while it sleeps none of them has an operation.
SleepInv ==
  \A l \in Level :
    /\ thread[l].at \in {"remove", "wait", "asleep"} =>
         /\ thread[l].count <= Len(nr[l])
         /\ \A k \in 1..Len(list[l]) : list[l][k] \in open =>
              \E j \in 1..thread[l].count : nr[l][j] = list[l][k]
    /\ At(l, "asleep") =>
         /\ \A j \in 1..thread[l].count : squeue[SockOf(nr[l][j])] = <<>>

Shape == AppShape /\ DiscShape /\ ThreadShape
IInv == /\ Shape /\ NameInv /\ AppInv /\ RegionInv /\ LateInv /\ DiscInv /\ PlaceInv
        /\ UniqueInv /\ CoverInv /\ CountInv /\ IterInv /\ SleepInv
-----------------------------------------------------------------------------
(***************************************************************************)
(* Facts about constants and identifiers, and which steps change what.     *)
(***************************************************************************)

\* What the assumption says about the constants.
LEMMA ConstantFacts ==
  /\ MaxApps \in Nat /\ MaxApps >= 1 /\ MaxSockets \in Nat /\ MaxSockets >= 1 /\ QueueCap \in Nat
  /\ Low \in Level /\ None \notin Proc /\ None \notin App
<1>1. MaxApps \in Nat \ {0} /\ MaxSockets \in Nat \ {0} /\ QueueCap \in Nat \ {0}
  BY DiscoveryAssumption
<1>2. Low \in Level /\ None \notin Proc /\ None \notin App
  BY DiscoveryAssumption
<1> QED
  BY <1>1, <1>2

\* An identifier is an app number and the number of a socket.
LEMMA IdFacts ==
  ASSUME NEW d \in Id
  PROVE  d[1] \in App /\ d[2] \in Idx /\ d = <<d[1], d[2]>> /\ d[1] \in Nat /\ d[2] \in Nat /\ d[2] >= 1
<1>1. d[1] \in App /\ d[2] \in Idx /\ d = <<d[1], d[2]>>
  BY DEF Id
<1> QED
  BY <1>1, ConstantFacts DEF App, Idx

\* The socket of an identifier that was mapped.
LEMMA SockOfIs ==
  ASSUME region \in [Id -> Proc \union {None}], NEW d \in Id, region[d] # None
  PROVE  region[d] \in Proc /\ SockOf(d) \in Sock /\ SockOf(d)[1] = region[d] /\ SockOf(d)[2] = d[2]
<1>1. region[d] \in Proc /\ d[2] \in Idx
  BY IdFacts
<1> QED
  BY <1>1 DEF SockOf, Sock

\* A non-empty set of natural numbers has a least element.
LEMMA LeastNat ==
  ASSUME NEW T, T \subseteq Nat, T # {}
  PROVE  \E x \in T : \A y \in T : x <= y
<1> DEFINE R == {ss \in Nat \X Nat : ss[1] < ss[2]}
<1>1. IsWellFoundedOn(R, Nat)
  BY NatLessThanWellFounded DEF OpToRel
<1> HIDE DEF R
<1>2. PICK x \in T : \A y \in T : ~(<<y, x>> \in R)
  BY <1>1, WFMin
<1>3. ASSUME NEW y \in T PROVE x <= y
  <2>1. y \in Nat /\ x \in Nat /\ <<y, x>> \in Nat \X Nat
    OBVIOUS
  <2>2. ~(y < x)
    BY <1>2, <2>1 DEF R
  <2> QED
    BY <2>1, <2>2
<1> QED
  BY <1>3

\* The steps that change the variables of the applications, what is mapped,
\* where the discovery thread is, socket_ptrs, the queues, the lists, the
\* priority threads and the squeues.
AppStep == \E p \in Proc : \/ Start(p) \/ SetPriority(p) \/ SetPcb(p) \/ Exit(p)
                           \/ \E c \in Calls : Publish(p, c)
SubmitStep == \E p \in Proc, i \in Idx, kind \in Kinds : Submit(p, i, kind)
RegStep  == Scan \/ MapSocket
DiscStep == \/ \E p \in Proc : SetPcb(p)
            \/ Scan \/ FillWaitv \/ HandleNewSockets \/ ReadHighest \/ MapSocket
            \/ PutNew \/ Announce \/ Timeout
OpenStep == MapSocket \/ \E d \in Id : Close(d)
QueueStep == PutNew \/ \E l \in Level : AddNew(l)
ListStep == \E l \in Level : AddNew(l) \/ RemoveClosed(l)
ThreadStep == SubmitStep \/ Announce \/ \E l \in Level : Walk(l) \/ RemoveClosed(l) \/ Wait(l) \/ Woken(l)
IterStep == \E l \in Level : Walk(l) \/ RemoveClosed(l)
NrStep == \E l \in Level : Walk(l) \/ Woken(l)
ServeStep == SubmitStep \/ \E l \in Level : Walk(l) \/ Woken(l)

regVars == <<nextApp, appPtr, local, region, early, armed>>

Framed ==
  /\ UNCHANGED appVars \/ AppStep
  /\ UNCHANGED regVars \/ RegStep
  /\ UNCHANGED disc \/ DiscStep
  /\ UNCHANGED open \/ OpenStep
  /\ UNCHANGED queue \/ QueueStep
  /\ UNCHANGED dropped \/ PutNew
  /\ UNCHANGED qfutex \/ Announce
  /\ UNCHANGED list \/ ListStep
  /\ UNCHANGED shadow \/ \E l \in Level : AddNew(l)
  /\ UNCHANGED round \/ IterStep
  /\ UNCHANGED nr \/ NrStep
  /\ UNCHANGED thread \/ ThreadStep
  /\ UNCHANGED squeue \/ ServeStep

\* Every other step leaves them alone.
LEMMA Frames ==
  ASSUME [Next]_vars
  PROVE  Framed
<1> USE DEF appVars, opVars, discVars, listVars, regVars, Framed
<1>1. CASE UNCHANGED vars
  BY <1>1 DEF vars
<1>2. ASSUME NEW p \in Proc, Start(p) PROVE Framed
  BY <1>2 DEF AppStep, Start
<1>3. ASSUME NEW p \in Proc, SetPriority(p) PROVE Framed
  BY <1>3 DEF AppStep, SetPriority
<1>4. ASSUME NEW p \in Proc, SetPcb(p) PROVE Framed
  BY <1>4 DEF AppStep, DiscStep, SetPcb
<1>5. ASSUME NEW p \in Proc, Exit(p) PROVE Framed
  BY <1>5 DEF AppStep, Exit
<1>6. ASSUME NEW p \in Proc, NEW c \in Calls, Publish(p, c) PROVE Framed
  BY <1>6 DEF AppStep, Publish
<1>7. ASSUME NEW p \in Proc, NEW i \in Idx, NEW kind \in Kinds, Submit(p, i, kind) PROVE Framed
  <2>1. SubmitStep
    BY <1>7 DEF SubmitStep
  <2> QED
    BY <1>7, <2>1 DEF ThreadStep, ServeStep, Submit
<1>8. CASE Scan
  BY <1>8 DEF RegStep, DiscStep, Scan
<1>9. CASE FillWaitv
  BY <1>9 DEF DiscStep, FillWaitv
<1>10. CASE HandleNewSockets
  BY <1>10 DEF DiscStep, HandleNewSockets
<1>11. CASE ReadHighest
  BY <1>11 DEF DiscStep, ReadHighest
<1>12. CASE MapSocket
  BY <1>12 DEF RegStep, DiscStep, OpenStep, MapSocket
<1>13. CASE PutNew
  BY <1>13 DEF DiscStep, QueueStep, PutNew
<1>14. CASE Announce
  BY <1>14 DEF DiscStep, ThreadStep, Announce
<1>15. CASE Timeout
  BY <1>15 DEF DiscStep, Timeout
<1>16. ASSUME NEW l \in Level, AddNew(l) PROVE Framed
  BY <1>16 DEF QueueStep, ListStep, AddNew
<1>17. ASSUME NEW l \in Level, Walk(l) PROVE Framed
  BY <1>17 DEF ThreadStep, IterStep, NrStep, ServeStep, Walk
<1>18. ASSUME NEW l \in Level, RemoveClosed(l) PROVE Framed
  BY <1>18 DEF ThreadStep, ListStep, IterStep, RemoveClosed
<1>19. ASSUME NEW l \in Level, Wait(l) PROVE Framed
  BY <1>19 DEF ThreadStep, Wait
<1>20. ASSUME NEW l \in Level, Woken(l) PROVE Framed
  BY <1>20 DEF ThreadStep, NrStep, ServeStep, Woken
<1>21. ASSUME NEW d \in Id, Close(d) PROVE Framed
  BY <1>21 DEF OpenStep, Close
<1> HIDE DEF Framed
<1> QED
  BY <1>1, <1>2, <1>3, <1>4, <1>5, <1>6, <1>7, <1>8, <1>9, <1>10, <1>11, <1>12, <1>13, <1>14,
     <1>15, <1>16, <1>17, <1>18, <1>19, <1>20, <1>21 DEF Next

\* Every variable starts in the invariant.
LEMMA InitIInv == Init => IInv
<1> SUFFICES ASSUME Init PROVE IInv
  OBVIOUS
<1> USE ConstantFacts
<1>1. AppShape
  BY DEF Init, AppShape
<1>2. AtScan \in Disc
  BY DEF AtScan, Disc
<1>3. DiscShape
  BY <1>2 DEF Init, DiscShape
<1>4. ThreadShape
  <2>1. [Fresh EXCEPT !.at = "asleep"] \in Thread
    BY DEF Fresh, Thread
  <2>2. <<>> \in Seq(Kinds) /\ <<>> \in Seq(Id)
    OBVIOUS
  <2> QED
    BY <2>1, <2>2 DEF Init, ThreadShape
<1>5. NameInv
  BY DEF Init, NameInv
<1>6. AppInv
  BY DEF Init, AppInv, App
<1>7. RegionInv /\ LateInv
  BY DEF Init, RegionInv, LateInv
<1>8. DiscInv
  BY DEF Init, DiscInv, AtScan
<1>9. PlaceInv /\ UniqueInv /\ CoverInv
  BY DEF Init, PlaceInv, UniqueInv, OneEach, NoneShared, CoverInv
<1>10. \A l \in Level : thread[l].at = "asleep" /\ thread[l].count = 0
  BY DEF Init, Fresh
<1>11. \A l \in Level : queue[l] = <<>> /\ list[l] = <<>> /\ qfutex[l] = 0 /\ shadow[l] = 0
  BY DEF Init
<1>12. \A l \in Level : Len(queue[l]) = 0 /\ Len(list[l]) = 0
  BY <1>11
<1>13. CountInv
  <2>1. disc.at # "announce"
    BY DEF Init, AtScan
  <2> QED
    BY <1>10, <1>11, <1>12, <2>1 DEF CountInv, Announcing, At
<1>14. IterInv
  BY <1>10 DEF Init, IterInv, At
<1>15. SleepInv
  <2>1. \A l \in Level : Len(nr[l]) = 0
    BY DEF Init
  <2> QED
    BY <1>10, <1>12, <2>1 DEF SleepInv, At
<1> QED
  BY <1>1, <1>3, <1>4, <1>5, <1>6, <1>7, <1>8, <1>9, <1>13, <1>14, <1>15 DEF IInv, Shape

(***************************************************************************)
(* What the steps of the applications and of the discovery thread do.      *)
(***************************************************************************)

\* A new process takes a free number.
LEMMA StartIs ==
  ASSUME IInv, NEW p \in Proc, Start(p)
  PROVE  /\ run[p] = "new" /\ run' = [run EXCEPT ![p] = "on"]
         /\ \E n \in App : /\ appName[n] = None /\ num' = [num EXCEPT ![p] = n]
                           /\ appName' = [appName EXCEPT ![n] = p]
         /\ UNCHANGED <<sockName, highest, stage, want>>
         /\ UNCHANGED regVars /\ UNCHANGED disc
BY DEF Start, FreeNumber, discVars, regVars

\* A new socket is the next one of its process.
Published(p, c, i) ==
  /\ i = highest[p] + 1 /\ run[p] = "on" /\ stage[p] = "done" /\ num[p] \in App
  /\ sockName' = [sockName EXCEPT ![<<num[p], i>>] = p]
  /\ highest' = [highest EXCEPT ![p] = i]
  /\ want' = [want EXCEPT ![<<p, i>>] = c] /\ c \in [prio : Level, pcb : BOOLEAN]
  /\ stage' = [stage EXCEPT ![p] = "published"]
  /\ UNCHANGED <<appName, run, num>> /\ UNCHANGED regVars /\ UNCHANGED disc

\* Publish of a running process does that.
LEMMA PublishIs ==
  ASSUME IInv, NEW p \in Proc, NEW c \in Calls, Publish(p, c)
  PROVE  \E i \in Idx : Published(p, c, i)
<1>1. highest[p] \in 0..MaxSockets /\ highest[p] < MaxSockets
  BY DEF Publish, IInv, Shape, AppShape
<1>2. highest[p] + 1 \in Idx
  BY <1>1, ConstantFacts DEF Idx
<1>3. run[p] = "on" /\ num[p] \in App
  BY DEF Publish, IInv, NameInv
<1>4. c \in [prio : Level, pcb : BOOLEAN]
  BY DiscoveryAssumption
<1> QED
  BY <1>2, <1>3, <1>4 DEF Publish, Published, discVars, regVars

\* The variables of the applications keep their types.
LEMMA AppShapeStep ==
  ASSUME IInv, [Next]_vars
  PROVE  AppShape'
<1> USE DEF IInv, Shape, AppShape
<1>1. UNCHANGED appVars \/ AppStep
  BY Frames DEF Framed
<1>2. CASE UNCHANGED appVars
  BY <1>2 DEF appVars
<1>3. ASSUME NEW p \in Proc, Start(p) PROVE AppShape'
  <2>1. PICK n \in App : num' = [num EXCEPT ![p] = n] /\ appName' = [appName EXCEPT ![n] = p]
    BY <1>3, StartIs
  <2>2. run' = [run EXCEPT ![p] = "on"] /\ UNCHANGED <<sockName, highest, stage, want>>
    BY <1>3, StartIs
  <2> QED
    BY <2>1, <2>2
<1>4. ASSUME NEW p \in Proc, NEW c \in Calls, Publish(p, c) PROVE AppShape'
  <2>0. PICK i \in Idx : Published(p, c, i)
    BY <1>4, PublishIs
  <2>1. /\ sockName' = [sockName EXCEPT ![<<num[p], i>>] = p]
        /\ highest' = [highest EXCEPT ![p] = i]
        /\ want' = [want EXCEPT ![<<p, i>>] = c] /\ c \in [prio : Level, pcb : BOOLEAN]
        /\ stage' = [stage EXCEPT ![p] = "published"]
        /\ UNCHANGED <<appName, run, num>>
    BY <2>0 DEF Published
  <2>2. i \in 0..MaxSockets
    BY ConstantFacts DEF Idx
  <2>3. sockName' \in [Id -> Proc \union {None}]
    BY <2>1
  <2>4. want' \in [Sock -> [prio : Level, pcb : BOOLEAN]]
    BY <2>1
  <2> QED
    BY <2>1, <2>2, <2>3, <2>4
<1>5. ASSUME NEW p \in Proc, SetPriority(p) PROVE AppShape'
  BY <1>5 DEF SetPriority
<1>6. ASSUME NEW p \in Proc, SetPcb(p) PROVE AppShape'
  BY <1>6 DEF SetPcb
<1>7. ASSUME NEW p \in Proc, Exit(p) PROVE AppShape'
  BY <1>7 DEF Exit
<1> QED
  BY <1>1, <1>2, <1>3, <1>4, <1>5, <1>6, <1>7 DEF AppStep

\* The names of the processes stay theirs.
LEMMA NameStep ==
  ASSUME IInv, [Next]_vars
  PROVE  NameInv'
<1> USE ConstantFacts
<1>0. AppShape /\ NameInv
  BY DEF IInv, Shape
<1>1. UNCHANGED appVars \/ AppStep
  BY Frames DEF Framed
<1>2. CASE UNCHANGED appVars
  BY <1>0, <1>2 DEF appVars, NameInv
<1>3. ASSUME NEW p \in Proc, Start(p) PROVE NameInv'
  <2>1. PICK n \in App : /\ appName[n] = None /\ num' = [num EXCEPT ![p] = n]
                         /\ appName' = [appName EXCEPT ![n] = p]
    BY <1>3, StartIs
  <2>2. run[p] = "new" /\ run' = [run EXCEPT ![p] = "on"] /\ UNCHANGED <<sockName, highest>>
    BY <1>3, StartIs
  <2>3. ASSUME NEW m \in App, appName'[m] # None
        PROVE  run'[appName'[m]] = "on" /\ num'[appName'[m]] = m
    BY <1>0, <2>1, <2>2, <2>3 DEF NameInv, AppShape
  <2>4. ASSUME NEW q \in Proc, run'[q] = "on" PROVE num'[q] \in App /\ appName'[num'[q]] = q
    BY <1>0, <2>1, <2>2, <2>4 DEF NameInv, AppShape
  <2>5. ASSUME NEW d \in Id, sockName'[d] # None
        PROVE  /\ run'[sockName'[d]] = "on" /\ num'[sockName'[d]] = d[1]
               /\ d[2] <= highest'[sockName'[d]]
    BY <1>0, <2>1, <2>2, <2>5 DEF NameInv, AppShape
  <2> QED
    BY <2>3, <2>4, <2>5 DEF NameInv
<1>4. ASSUME NEW p \in Proc, NEW c \in Calls, Publish(p, c) PROVE NameInv'
  <2>0. PICK i \in Idx : Published(p, c, i)
    BY <1>4, PublishIs
  <2>1. /\ i = highest[p] + 1 /\ run[p] = "on" /\ num[p] \in App
        /\ sockName' = [sockName EXCEPT ![<<num[p], i>>] = p]
        /\ highest' = [highest EXCEPT ![p] = i]
        /\ UNCHANGED <<appName, run, num>>
    BY <2>0 DEF Published
  <2>2. ASSUME NEW d \in Id, sockName'[d] # None
        PROVE  /\ run[sockName'[d]] = "on" /\ num[sockName'[d]] = d[1]
               /\ d[2] <= highest'[sockName'[d]]
    <3>1. CASE d = <<num[p], i>>
      BY <1>0, <2>1, <3>1 DEF AppShape, Idx
    <3>2. CASE d # <<num[p], i>>
      <4>1. /\ sockName'[d] = sockName[d] /\ sockName[d] \in Proc
            /\ run[sockName[d]] = "on" /\ num[sockName[d]] = d[1] /\ d[2] <= highest[sockName[d]]
        BY <1>0, <2>1, <2>2, <3>2 DEF NameInv, AppShape
      <4>2. \A q \in Proc : highest[q] \in Nat /\ (q # p => highest'[q] = highest[q])
                            /\ highest'[p] = highest[p] + 1
        BY <1>0, <2>1 DEF AppShape
      <4>3. d[2] \in Nat
        BY IdFacts
      <4> QED
        BY <4>1, <4>2, <4>3
    <3> QED
      BY <3>1, <3>2
  <2> QED
    BY <1>0, <2>1, <2>2 DEF NameInv
<1>5. ASSUME NEW p \in Proc, SetPriority(p) PROVE NameInv'
  BY <1>0, <1>5 DEF SetPriority, NameInv
<1>6. ASSUME NEW p \in Proc, SetPcb(p) PROVE NameInv'
  BY <1>0, <1>6 DEF SetPcb, NameInv
<1>7. ASSUME NEW p \in Proc, Exit(p) PROVE NameInv'
  <2>1. /\ run[p] = "on" /\ run' = [run EXCEPT ![p] = "exited"]
        /\ sockName' = [d \in Id |-> IF d[1] = num[p] /\ d[2] <= highest[p] THEN None ELSE sockName[d]]
        /\ appName' = [appName EXCEPT ![num[p]] = None]
        /\ UNCHANGED <<num, highest>>
    BY <1>7 DEF Exit
  <2>2. ASSUME NEW m \in App, appName'[m] # None
        PROVE  run'[appName'[m]] = "on" /\ num[appName'[m]] = m
    BY <1>0, <2>1, <2>2 DEF NameInv, AppShape
  <2>3. ASSUME NEW q \in Proc, run'[q] = "on" PROVE num[q] \in App /\ appName'[num[q]] = q
    BY <1>0, <2>1, <2>3 DEF NameInv, AppShape
  <2>4. ASSUME NEW d \in Id, sockName'[d] # None
        PROVE  run'[sockName'[d]] = "on" /\ num[sockName'[d]] = d[1] /\ d[2] <= highest[sockName'[d]]
    BY <1>0, <2>1, <2>4 DEF NameInv, AppShape
  <2> QED
    BY <2>1, <2>2, <2>3, <2>4 DEF NameInv
<1> QED
  BY <1>1, <1>2, <1>3, <1>4, <1>5, <1>6, <1>7 DEF AppStep

\* map_new_sockets goes on with the next socket, or is left.
LEMMA NextToMapIs ==
  ASSUME NEW r \in Disc
  PROVE  /\ NextToMap(r) \in Disc /\ NextToMap(r).at \in {"map", "fill", "scan"}
         /\ NextToMap(r).at = "map" => r.idx <= r.upto /\ NextToMap(r) = [r EXCEPT !.at = "map"]
<1>0. r.app \in Nat /\ r.app + 1 \in Nat
  BY DEF Disc
<1>1. CASE r.idx <= r.upto
  <2>1. NextToMap(r) = [r EXCEPT !.at = "map"]
    BY <1>1 DEF NextToMap
  <2>2. [r EXCEPT !.at = "map"] \in Disc /\ [r EXCEPT !.at = "map"].at = "map"
    BY DEF Disc
  <2> QED
    BY <1>1, <2>1, <2>2
<1>2. CASE ~(r.idx <= r.upto) /\ r.back = "fill"
  <2>1. NextToMap(r) = [AtScan EXCEPT !.at = "fill", !.app = r.app + 1]
    BY <1>2 DEF NextToMap, BackFrom
  <2>2. PICK a \in Nat : a = r.app + 1
    BY <1>0
  <2>3. /\ [AtScan EXCEPT !.at = "fill", !.app = a] \in Disc
        /\ [AtScan EXCEPT !.at = "fill", !.app = a].at = "fill"
    BY ConstantFacts DEF AtScan, Disc
  <2> QED
    BY <2>1, <2>2, <2>3
<1>3. CASE ~(r.idx <= r.upto) /\ r.back # "fill"
  <2>1. NextToMap(r) = AtScan
    BY <1>3 DEF NextToMap, BackFrom
  <2> QED
    BY <2>1, ConstantFacts DEF AtScan, Disc
<1> QED
  BY <1>1, <1>2, <1>3

\* The app the thread is busy with was found.
LEMMA BusyWith ==
  ASSUME IInv, disc.at \in {"handle", "read", "map", "put", "announce"}
  PROVE  /\ disc.app \in App /\ disc.app < nextApp /\ appPtr[disc.app] \in Proc
         /\ disc.app \in Nat /\ disc.idx \in Nat /\ nextApp \in Nat
<1>1. disc.app < nextApp /\ disc.app \in Nat /\ disc.idx \in Nat /\ nextApp \in 0..MaxApps
  BY DEF IInv, Shape, DiscShape, DiscInv, Disc
<1>2. disc.app \in App /\ nextApp \in Nat
  BY <1>1, ConstantFacts DEF App
<1>3. appPtr[disc.app] \in Proc
  BY <1>1, <1>2 DEF IInv, Shape, DiscShape, AppInv
<1> QED
  BY <1>1, <1>2, <1>3

\* fill_waitv goes to an app that was found, waits or starts again.
LEMMA FillIs ==
  ASSUME IInv, FillWaitv
  PROVE  /\ \/ disc' = AtScan \/ disc' = [AtScan EXCEPT !.at = "asleep"]
            \/ \E n \in App : /\ n < nextApp
                              /\ disc' = [AtScan EXCEPT !.at = "read", !.app = n, !.back = "fill"]
         /\ UNCHANGED appVars /\ UNCHANGED regVars
<1> DEFINE new == {n \in disc.app..(nextApp - 1) : highest[appPtr[n]] # appFutex[n]}
<1>1. nextApp \in 0..MaxApps /\ disc.app \in Nat
  BY DEF IInv, Shape, DiscShape, Disc
<1>2. new \subseteq App /\ new \subseteq Nat /\ \A n \in new : n < nextApp
  BY <1>1, ConstantFacts DEF App
<1>3. \/ new # {} /\ Handle(CHOOSE n \in new : \A m \in new : n <= m, "fill")
      \/ disc' = AtScan \/ disc' = [AtScan EXCEPT !.at = "asleep"]
  BY DEF FillWaitv
<1>4. UNCHANGED appVars /\ UNCHANGED regVars
  BY DEF FillWaitv, appVars, regVars
<1> HIDE DEF new
<1>5. ASSUME new # {} PROVE (CHOOSE n \in new : \A m \in new : n <= m) \in new
  <2>1. \E x \in new : \A y \in new : x <= y
    BY <1>2, <1>5, LeastNat
  <2> QED
    BY <2>1
<1> QED
  BY <1>2, <1>3, <1>4, <1>5 DEF Handle

\* What map_new_sockets does with one number: there is no such socket,
Skipped ==
  /\ disc' = NextToMap([disc EXCEPT !.idx = @ + 1])
  /\ UNCHANGED appVars /\ UNCHANGED regVars /\ UNCHANGED open

\* or it is mapped for the first time.
Mapped(d, p) ==
  /\ d = <<disc.app, disc.idx>> /\ p = sockName[d] /\ region[d] = None /\ local[d[1]] < d[2]
  /\ d[1] < nextApp /\ d[2] <= highest[appPtr[d[1]]]
  /\ region' = [region EXCEPT ![d] = p] /\ open' = open \union {d}
  /\ early' = IF Set(<<p, d[2]>>, {"done"}) THEN early ELSE early \union {d}
  /\ armed' = IF want[<<p, d[2]>>].pcb /\ Set(<<p, d[2]>>, {"done"}) THEN armed \union {d} ELSE armed
  /\ local' = [local EXCEPT ![d[1]] = d[2]]
  /\ disc' = [disc EXCEPT !.at = "put"]
  /\ UNCHANGED appVars /\ UNCHANGED <<nextApp, appPtr>>

\* MapSocket does one or the other.
LEMMA MapIs ==
  ASSUME IInv, MapSocket
  PROVE  Skipped \/ \E d \in Id, p \in Proc : Mapped(d, p)
<1> DEFINE d == <<disc.app, disc.idx>>
<1>1. disc.at = "map" /\ UNCHANGED appVars /\ UNCHANGED <<nextApp, appPtr>>
  BY DEF MapSocket, appVars
<1>2. /\ disc.app \in App /\ disc.app < nextApp /\ appPtr[disc.app] \in Proc /\ disc.idx \in Nat
      /\ disc.idx <= highest[appPtr[disc.app]] /\ local[disc.app] < disc.idx
  <2>1. disc.app \in App /\ disc.app < nextApp /\ appPtr[disc.app] \in Proc /\ disc.idx \in Nat
    BY <1>1, BusyWith
  <2>2. disc.idx <= disc.upto /\ disc.upto <= highest[appPtr[disc.app]] /\ local[disc.app] < disc.idx
    BY <1>1 DEF IInv, DiscInv
  <2>3. disc.upto \in Nat /\ highest[appPtr[disc.app]] \in 0..MaxSockets
    BY <2>1 DEF IInv, Shape, AppShape, DiscShape, Disc
  <2> QED
    BY <2>1, <2>2, <2>3
<1>3. d \in Id /\ d[1] = disc.app /\ d[2] = disc.idx
  <2>1. highest[appPtr[disc.app]] \in 0..MaxSockets /\ local[disc.app] \in 0..MaxSockets
    BY <1>2 DEF IInv, Shape, AppShape, DiscShape
  <2>2. disc.idx \in Idx
    BY <1>2, <2>1, ConstantFacts DEF Idx
  <2> QED
    BY <1>2, <2>2 DEF Id
<1>4. region[d] = None
  <2>1. local[disc.app] \in 0..MaxSockets
    BY <1>2 DEF IInv, Shape, DiscShape
  <2>2. ~(disc.idx <= local[disc.app])
    BY <1>2, <2>1
  <2> QED
    BY <1>3, <2>2 DEF IInv, RegionInv
<1>5. CASE sockName[d] = None
  <2>1. disc' = NextToMap([disc EXCEPT !.idx = @ + 1]) /\ UNCHANGED <<region, open, early, armed, local>>
    BY <1>5 DEF MapSocket
  <2> QED
    BY <1>1, <2>1 DEF Skipped, regVars
<1>6. CASE sockName[d] # None
  <2>1. sockName[d] \in Proc
    BY <1>3, <1>6 DEF IInv, Shape, AppShape
  <2>2. /\ region' = [region EXCEPT ![d] = sockName[d]] /\ open' = open \union {d}
        /\ early' = IF Set(<<sockName[d], disc.idx>>, {"done"}) THEN early ELSE early \union {d}
        /\ armed' = IF want[<<sockName[d], disc.idx>>].pcb /\ Set(<<sockName[d], disc.idx>>, {"done"})
                      THEN armed \union {d} ELSE armed
        /\ local' = [local EXCEPT ![disc.app] = disc.idx]
        /\ disc' = [disc EXCEPT !.at = "put"]
    BY <1>6 DEF MapSocket
  <2>3. Mapped(d, sockName[d])
    BY <1>1, <1>2, <1>3, <1>4, <2>2 DEF Mapped
  <2> QED
    BY <1>3, <2>1, <2>3
<1> QED
  BY <1>5, <1>6

\* A scan finds the process that has the next number, or ends.
Found(p) ==
  /\ nextApp \in App /\ p = appName[nextApp]
  /\ appPtr' = [appPtr EXCEPT ![nextApp] = p] /\ nextApp' = nextApp + 1
  /\ UNCHANGED appVars /\ UNCHANGED <<local, region, early, armed, open, disc>>

\* Scan finds a process that runs, or changes nothing but where the thread is.
LEMMA ScanIs ==
  ASSUME IInv, Scan
  PROVE  \/ \E p \in Proc : Found(p)
         \/ disc' = [AtScan EXCEPT !.at = "fill"] /\ UNCHANGED regVars /\ UNCHANGED appVars
<1>1. nextApp \in 0..MaxApps
  BY DEF IInv, Shape, DiscShape
<1>2. CASE nextApp < MaxApps /\ appName[nextApp] # None
  <2>1. nextApp \in App
    BY <1>1, <1>2, ConstantFacts DEF App
  <2>2. appName[nextApp] \in Proc
    BY <1>2, <2>1 DEF IInv, Shape, AppShape
  <2>3. Found(appName[nextApp])
    BY <1>2, <2>1 DEF Scan, Found, appVars
  <2> QED
    BY <2>2, <2>3
<1>3. CASE ~(nextApp < MaxApps /\ appName[nextApp] # None)
  BY <1>3 DEF Scan, regVars, appVars
<1> QED
  BY <1>2, <1>3

(***************************************************************************)
(* Applications, what is mapped, and where the discovery thread is.        *)
(***************************************************************************)

\* A step is one of an application, one that maps something, or neither.
LEMMA OneOfThem ==
  ASSUME [Next]_vars
  PROVE  \/ UNCHANGED appVars /\ UNCHANGED regVars
         \/ AppStep /\ UNCHANGED regVars
         \/ RegStep /\ UNCHANGED appVars
<1>1. RegStep => UNCHANGED appVars
  BY DEF RegStep, Scan, MapSocket, appVars
<1>2. ASSUME AppStep PROVE UNCHANGED regVars
  BY <1>2 DEF AppStep, Start, SetPriority, SetPcb, Exit, Publish, discVars, regVars
<1> QED
  BY <1>1, <1>2, Frames DEF Framed

\* What an application never takes back.
Kept(p) ==
  /\ run[p] = "exited" => run'[p] = "exited"
  /\ run[p] # "new" => run'[p] # "new" /\ num'[p] = num[p]
  /\ highest[p] <= highest'[p]
  /\ \A i \in Idx : i <= highest[p] =>
       /\ want'[<<p, i>>] = want[<<p, i>>]
       /\ i < highest[p] \/ stage[p] = "done" => i < highest'[p] \/ stage'[p] = "done"

\* No step of an application takes these things back.
LEMMA AppKeeps ==
  ASSUME IInv, UNCHANGED appVars \/ AppStep
  PROVE  \A q \in Proc : Kept(q)
<1>0. AppShape /\ \A q \in Proc : highest[q] \in Nat
  BY ConstantFacts DEF IInv, Shape, AppShape
<1>1. CASE UNCHANGED appVars
  BY <1>0, <1>1 DEF appVars, Kept
<1>2. ASSUME NEW p \in Proc, Start(p), NEW q \in Proc PROVE Kept(q)
  <2>1. /\ run[p] = "new" /\ run' = [run EXCEPT ![p] = "on"] /\ \E n \in App : num' = [num EXCEPT ![p] = n]
        /\ UNCHANGED <<highest, stage, want>>
    BY <1>2, StartIs
  <2> QED
    BY <1>0, <2>1 DEF AppShape, Kept
<1>3. ASSUME NEW p \in Proc, NEW c \in Calls, Publish(p, c), NEW q \in Proc PROVE Kept(q)
  <2>0. PICK i \in Idx : Published(p, c, i)
    BY <1>3, PublishIs
  <2>1. /\ i = highest[p] + 1 /\ stage[p] = "done"
        /\ highest' = [highest EXCEPT ![p] = i]
        /\ want' = [want EXCEPT ![<<p, i>>] = c]
        /\ stage' = [stage EXCEPT ![p] = "published"] /\ UNCHANGED <<run, num>>
    BY <2>0 DEF Published
  <2>2. highest[q] <= highest'[q]
    BY <1>0, <2>1 DEF AppShape
  <2>3. ASSUME NEW j \in Idx, j <= highest[q]
        PROVE  /\ want'[<<q, j>>] = want[<<q, j>>]
               /\ j < highest[q] \/ stage[q] = "done" => j < highest'[q] \/ stage'[q] = "done"
    <3>0. j \in Nat
      BY ConstantFacts DEF Idx
    <3>1. <<q, j>> \in Sock
      BY DEF Sock
    <3>2. CASE q = p
      <4>1. j # i /\ j < highest'[q]
        BY <1>0, <2>1, <2>3, <3>0, <3>2 DEF AppShape
      <4>2. <<q, j>> # <<p, i>>
        BY <4>1
      <4> QED
        BY <1>0, <2>1, <3>1, <4>1, <4>2 DEF AppShape
    <3>3. CASE q # p
      BY <1>0, <2>1, <3>1, <3>3 DEF AppShape
    <3> QED
      BY <3>2, <3>3
  <2> QED
    BY <2>1, <2>2, <2>3 DEF Kept
<1>4. ASSUME NEW p \in Proc, SetPriority(p), NEW q \in Proc PROVE Kept(q)
  BY <1>0, <1>4 DEF SetPriority, AppShape, Kept
<1>5. ASSUME NEW p \in Proc, SetPcb(p), NEW q \in Proc PROVE Kept(q)
  BY <1>0, <1>5 DEF SetPcb, AppShape, Kept
<1>6. ASSUME NEW p \in Proc, Exit(p), NEW q \in Proc PROVE Kept(q)
  BY <1>0, <1>6 DEF Exit, AppShape, Kept
<1> QED
  BY <1>1, <1>2, <1>3, <1>4, <1>5, <1>6 DEF AppStep

\* The apps that were found stay what they are.
LEMMA AppInvStep ==
  ASSUME IInv, [Next]_vars
  PROVE  AppInv'
<1> USE ConstantFacts
<1>0. AppShape /\ DiscShape /\ AppInv /\ nextApp \in Nat
  BY DEF IInv, Shape, DiscShape
<1>1. ASSUME UNCHANGED appVars \/ AppStep, UNCHANGED regVars PROVE AppInv'
  <2>1. \A q \in Proc : Kept(q)
    BY <1>1, AppKeeps
  <2>2. ASSUME NEW n \in App, appPtr[n] # None
        PROVE  run'[appPtr[n]] # "new" /\ num'[appPtr[n]] = n /\ local[n] <= highest'[appPtr[n]]
    <3>1. PICK q \in Proc : q = appPtr[n]
      BY <1>0, <2>2 DEF DiscShape
    <3>2. run[q] # "new" /\ num[q] = n /\ local[n] <= highest[q]
      BY <1>0, <2>2, <3>1 DEF AppInv
    <3>3. run'[q] # "new" /\ num'[q] = n /\ highest[q] <= highest'[q]
      BY <2>1, <3>2 DEF Kept
    <3>4. local[n] \in Nat /\ highest[q] \in Nat /\ highest'[q] \in Nat
      <4>1. AppShape'
        BY AppShapeStep
      <4> QED
        BY <1>0, <4>1 DEF AppShape, DiscShape
    <3> QED
      BY <3>1, <3>2, <3>3, <3>4
  <2> QED
    BY <1>0, <1>1, <2>2 DEF AppInv, regVars
<1>2. ASSUME NEW p \in Proc, Found(p) PROVE AppInv'
  <2>1. /\ nextApp \in App /\ p = appName[nextApp]
        /\ appPtr' = [appPtr EXCEPT ![nextApp] = p] /\ nextApp' = nextApp + 1
        /\ UNCHANGED <<run, num, highest, local>>
    BY <1>2 DEF Found, appVars
  <2>2. run[p] = "on" /\ num[p] = nextApp
    BY <2>1 DEF IInv, NameInv
  <2>3. local[nextApp] <= highest[p]
    <3>1. local[nextApp] = 0 /\ highest[p] \in Nat
      BY <1>0, <2>1 DEF AppInv, AppShape
    <3> QED
      BY <3>1
  <2> QED
    BY <1>0, <2>1, <2>2, <2>3 DEF AppInv, DiscShape
<1>3. ASSUME MapSocket PROVE AppInv'
  <2>1. CASE Skipped
    BY <1>0, <2>1 DEF Skipped, appVars, regVars, AppInv
  <2>2. ASSUME NEW d \in Id, NEW p \in Proc, Mapped(d, p) PROVE AppInv'
    <3>1. /\ d[1] \in App /\ d[1] < nextApp
          /\ d[2] <= highest[appPtr[d[1]]] /\ local' = [local EXCEPT ![d[1]] = d[2]]
          /\ UNCHANGED <<nextApp, appPtr, run, num, highest>>
      BY <2>2, IdFacts DEF Mapped, appVars
    <3> QED
      BY <1>0, <3>1 DEF AppInv, DiscShape
  <2> QED
    BY <1>3, <2>1, <2>2, MapIs
<1>4. ASSUME Scan PROVE AppInv'
  <2>1. CASE UNCHANGED regVars /\ UNCHANGED appVars
    BY <1>1, <2>1
  <2> QED
    BY <1>2, <1>4, <2>1, ScanIs
<1> QED
  BY <1>1, <1>3, <1>4, OneOfThem DEF RegStep

\* What was mapped stays what it is.
LEMMA RegionStep ==
  ASSUME IInv, [Next]_vars
  PROVE  RegionInv'
<1> USE ConstantFacts
<1>0. AppShape /\ DiscShape /\ RegionInv /\ AppInv /\ NameInv /\ nextApp \in Nat
  BY DEF IInv, Shape, DiscShape
<1>1. ASSUME UNCHANGED appVars \/ AppStep, UNCHANGED regVars PROVE RegionInv'
  <2>1. \A q \in Proc : Kept(q)
    BY <1>1, AppKeeps
  <2>2. ASSUME NEW d \in Id, region[d] # None
        PROVE  /\ d[1] < nextApp /\ d[2] <= local[d[1]] /\ d[2] <= highest'[region[d]]
               /\ region[d] = appPtr[d[1]] \/ run'[appPtr[d[1]]] = "exited"
    <3>1. PICK q \in Proc : q = region[d]
      BY <1>0, <2>2 DEF DiscShape
    <3>2. /\ d[1] < nextApp /\ d[2] <= local[d[1]] /\ d[2] <= highest[q]
          /\ q = appPtr[d[1]] \/ run[appPtr[d[1]]] = "exited"
      BY <1>0, <2>2, <3>1 DEF RegionInv
    <3>3. PICK r \in Proc : r = appPtr[d[1]]
      BY <1>0, <3>2, IdFacts DEF AppInv, DiscShape
    <3>4. highest[q] <= highest'[q] /\ (run[r] = "exited" => run'[r] = "exited")
      BY <2>1 DEF Kept
    <3>5. highest[q] \in Nat /\ highest'[q] \in Nat /\ d[2] \in Nat
      <4>1. AppShape'
        BY AppShapeStep
      <4> QED
        BY <1>0, <4>1, IdFacts DEF AppShape
    <3> QED
      BY <3>1, <3>2, <3>3, <3>4, <3>5
  <2> QED
    BY <1>1, <2>2 DEF RegionInv, regVars
<1>2. ASSUME NEW p \in Proc, Found(p) PROVE RegionInv'
  <2>1. /\ nextApp \in App
        /\ appPtr' = [appPtr EXCEPT ![nextApp] = p] /\ nextApp' = nextApp + 1
        /\ UNCHANGED <<run, highest, local, region>>
    BY <1>2 DEF Found, appVars
  <2>2. ASSUME NEW d \in Id, region[d] # None
        PROVE  /\ d[1] < nextApp + 1 /\ d[2] <= local[d[1]] /\ d[2] <= highest[region[d]]
               /\ region[d] = appPtr'[d[1]] \/ run[appPtr'[d[1]]] = "exited"
    <3>1. d[1] \in App /\ d[1] < nextApp /\ d[1] \in Nat
      BY <1>0, <2>2, IdFacts DEF RegionInv
    <3>2. appPtr'[d[1]] = appPtr[d[1]]
      BY <1>0, <2>1, <3>1 DEF DiscShape
    <3> QED
      BY <1>0, <2>2, <3>1, <3>2 DEF RegionInv
  <2> QED
    BY <2>1, <2>2 DEF RegionInv
<1>3. ASSUME MapSocket PROVE RegionInv'
  <2>1. CASE Skipped
    BY <1>0, <2>1 DEF Skipped, appVars, regVars, RegionInv
  <2>2. ASSUME NEW d \in Id, NEW p \in Proc, Mapped(d, p) PROVE RegionInv'
    <3>1. /\ d[1] \in App /\ d[1] < nextApp /\ p = sockName[d] /\ local[d[1]] < d[2] /\ d[2] \in Nat
          /\ region' = [region EXCEPT ![d] = p] /\ local' = [local EXCEPT ![d[1]] = d[2]]
          /\ UNCHANGED <<nextApp, appPtr, run, highest>>
      BY <2>2, IdFacts DEF Mapped, appVars
    <3>2. run[p] = "on" /\ num[p] = d[1] /\ d[2] <= highest[p]
      BY <1>0, <3>1 DEF NameInv
    <3>3. p = appPtr[d[1]] \/ run[appPtr[d[1]]] = "exited"
      <4>1. PICK r \in Proc : r = appPtr[d[1]] /\ run[r] # "new" /\ num[r] = d[1]
        BY <1>0, <3>1 DEF AppInv, DiscShape
      <4>2. CASE run[r] = "on"
        BY <1>0, <3>2, <4>1, <4>2 DEF NameInv
      <4> QED
        BY <1>0, <4>1, <4>2 DEF AppShape
    <3>4. ASSUME NEW e \in Id, region'[e] # None
          PROVE  /\ e[1] < nextApp /\ e[2] <= local'[e[1]] /\ e[2] <= highest[region'[e]]
                 /\ region'[e] = appPtr[e[1]] \/ run[appPtr[e[1]]] = "exited"
      <4>1. CASE e = d
        <5>1. region'[d] = p /\ local'[d[1]] = d[2]
          BY <1>0, <3>1 DEF DiscShape
        <5> QED
          BY <3>1, <3>2, <3>3, <4>1, <5>1
      <4>2. CASE e # d
        <5>1. region'[e] = region[e] /\ e[1] \in App /\ e[2] \in Nat /\ local[e[1]] \in Nat
          BY <1>0, <3>1, <4>2, IdFacts DEF DiscShape
        <5>2. /\ e[1] < nextApp /\ e[2] <= local[e[1]] /\ e[2] <= highest[region[e]]
              /\ region[e] = appPtr[e[1]] \/ run[appPtr[e[1]]] = "exited"
          BY <1>0, <3>4, <5>1 DEF RegionInv
        <5>3. e[2] <= local'[e[1]]
          BY <1>0, <3>1, <5>1, <5>2 DEF DiscShape
        <5> QED
          BY <5>1, <5>2, <5>3
      <4> QED
        BY <4>1, <4>2
    <3> QED
      BY <3>1, <3>4 DEF RegionInv
  <2> QED
    BY <1>3, <2>1, <2>2, MapIs
<1>4. ASSUME Scan PROVE RegionInv'
  <2>1. CASE UNCHANGED regVars /\ UNCHANGED appVars
    BY <1>1, <2>1
  <2> QED
    BY <1>2, <1>4, <2>1, ScanIs
<1> QED
  BY <1>1, <1>3, <1>4, OneOfThem DEF RegStep

\* A socket that was complete when it was mapped stays so.
LEMMA LateStep ==
  ASSUME IInv, [Next]_vars
  PROVE  LateInv'
<1>0. AppShape /\ DiscShape /\ RegionInv /\ LateInv
  BY DEF IInv, Shape
<1>1. ASSUME UNCHANGED appVars \/ AppStep, UNCHANGED regVars PROVE LateInv'
  <2>1. \A q \in Proc : Kept(q)
    BY <1>1, AppKeeps
  <2>2. ASSUME NEW d \in Id, region[d] # None, d \notin early
        PROVE  /\ d[2] < highest'[region[d]] \/ stage'[region[d]] = "done"
               /\ want'[<<region[d], d[2]>>].pcb => d \in armed
    <3>1. region[d] \in Proc /\ d[2] \in Idx /\ d[2] <= highest[region[d]]
      BY <1>0, <2>2, IdFacts, SockOfIs DEF DiscShape, RegionInv
    <3>2. /\ d[2] < highest[region[d]] \/ stage[region[d]] = "done"
          /\ want[<<region[d], d[2]>>].pcb => d \in armed
      BY <1>0, <2>2 DEF LateInv, Set, SockOf
    <3> QED
      BY <2>1, <3>1, <3>2 DEF Kept
  <2> QED
    BY <1>1, <2>2 DEF LateInv, regVars, Set, SockOf
<1>2. ASSUME NEW p \in Proc, Found(p) PROVE LateInv'
  BY <1>0, <1>2 DEF Found, appVars, LateInv, Set, SockOf
<1>3. ASSUME MapSocket PROVE LateInv'
  <2>1. CASE Skipped
    BY <1>0, <2>1 DEF Skipped, appVars, regVars, LateInv, Set, SockOf
  <2>2. ASSUME NEW d \in Id, NEW p \in Proc, Mapped(d, p) PROVE LateInv'
    <3>1. /\ region' = [region EXCEPT ![d] = p] /\ UNCHANGED <<highest, stage, want>>
          /\ early' = IF Set(<<p, d[2]>>, {"done"}) THEN early ELSE early \union {d}
          /\ armed' = IF want[<<p, d[2]>>].pcb /\ Set(<<p, d[2]>>, {"done"}) THEN armed \union {d} ELSE armed
      BY <2>2 DEF Mapped, appVars
    <3>2. ASSUME NEW e \in Id, region'[e] # None, e \notin early'
          PROVE  /\ Set(<<region'[e], e[2]>>, {"done"})
                 /\ want[<<region'[e], e[2]>>].pcb => e \in armed'
      <4>1. CASE e = d
        <5>1. region'[e] = p /\ Set(<<p, d[2]>>, {"done"})
          BY <1>0, <3>1, <3>2, <4>1 DEF DiscShape
        <5> QED
          BY <3>1, <4>1, <5>1
      <4>2. CASE e # d
        <5>1. region'[e] = region[e] /\ e \notin early /\ armed \subseteq armed'
          BY <1>0, <3>1, <3>2, <4>2 DEF DiscShape
        <5> QED
          BY <1>0, <3>2, <5>1 DEF LateInv, SockOf
      <4> QED
        BY <4>1, <4>2
    <3> QED
      BY <3>1, <3>2 DEF LateInv, SockOf, Set
  <2> QED
    BY <1>3, <2>1, <2>2, MapIs
<1>4. ASSUME Scan PROVE LateInv'
  <2>1. CASE UNCHANGED regVars /\ UNCHANGED appVars
    BY <1>1, <2>1
  <2> QED
    BY <1>2, <1>4, <2>1, ScanIs
<1> QED
  BY <1>1, <1>3, <1>4, OneOfThem DEF RegStep

\* A socket is put in a queue of its level.
LEMMA PutIs ==
  ASSUME IInv, PutNew
  PROVE  \E d \in Id, l \in Level :
           /\ d = <<disc.app, disc.idx>> /\ l = LevelOf(SockOf(d)) /\ region[d] # None
           /\ \/ Fits(l) /\ queue' = [queue EXCEPT ![l] = Append(@, d)] /\ UNCHANGED dropped
              \/ ~Fits(l) /\ dropped' = dropped \union {d} /\ UNCHANGED queue
           /\ disc' = [disc EXCEPT !.at = "announce", !.level = l]
<1> DEFINE d == <<disc.app, disc.idx>>
           l == LevelOf(SockOf(d))
<1>1. disc.at = "put"
  BY DEF PutNew
<1>2. disc.app \in App /\ disc.idx \in Nat /\ local[disc.app] = disc.idx /\ region[d] # None
  BY <1>1, BusyWith DEF IInv, DiscInv
<1>3. d \in Id
  <2>1. disc.idx <= disc.upto /\ disc.upto <= highest[appPtr[disc.app]] /\ appPtr[disc.app] \in Proc
    BY <1>1, BusyWith DEF IInv, DiscInv
  <2>2. local[disc.app] \in 0..MaxSockets /\ disc.idx \in 0..MaxSockets
    BY <1>2 DEF IInv, Shape, DiscShape
  <2>3. disc.idx # 0
    BY <1>1 DEF IInv, DiscInv
  <2>4. disc.idx \in Idx
    BY <2>2, <2>3, ConstantFacts DEF Idx
  <2> QED
    BY <1>2, <2>4 DEF Id
<1>4. l \in Level
  <2>1. SockOf(d) \in Sock
    BY <1>2, <1>3, SockOfIs DEF IInv, Shape, DiscShape
  <2>2. want[SockOf(d)].prio \in Level
    BY <2>1 DEF IInv, Shape, AppShape
  <2> QED
    BY <2>2, ConstantFacts DEF LevelOf
<1>5. /\ \/ Fits(l) /\ queue' = [queue EXCEPT ![l] = Append(@, d)] /\ UNCHANGED dropped
         \/ ~Fits(l) /\ dropped' = dropped \union {d} /\ UNCHANGED queue
      /\ disc' = [disc EXCEPT !.at = "announce", !.level = l]
  BY DEF PutNew
<1> HIDE DEF d, l
<1>6. d = <<disc.app, disc.idx>> /\ l = LevelOf(SockOf(d))
  BY DEF d, l
<1> QED
  BY <1>2, <1>3, <1>4, <1>5, <1>6

\* The variables of the discovery thread keep their types.
LEMMA DiscShapeStep ==
  ASSUME IInv, [Next]_vars
  PROVE  DiscShape'
<1> USE ConstantFacts
<1>0. AppShape /\ DiscShape
  BY DEF IInv, Shape
<1> DEFINE RegShape == /\ nextApp \in 0..MaxApps /\ appPtr \in [App -> Proc \union {None}]
                       /\ local \in [App -> 0..MaxSockets] /\ region \in [Id -> Proc \union {None}]
<1>1. RegShape'
  <2>1. CASE UNCHANGED regVars
    BY <1>0, <2>1 DEF DiscShape, regVars
  <2>2. ASSUME NEW p \in Proc, Found(p) PROVE RegShape'
    BY <1>0, <2>2 DEF DiscShape, Found, App
  <2>3. ASSUME NEW d \in Id, NEW p \in Proc, Mapped(d, p) PROVE RegShape'
    <3>1. /\ d[2] \in 0..MaxSockets /\ region' = [region EXCEPT ![d] = p]
          /\ local' = [local EXCEPT ![d[1]] = d[2]] /\ UNCHANGED <<nextApp, appPtr>>
      BY <2>3, IdFacts DEF Mapped, Idx
    <3> QED
      BY <1>0, <3>1 DEF DiscShape
  <2>4. MapSocket => RegShape'
    BY <2>1, <2>3, MapIs DEF Skipped
  <2>5. Scan => RegShape'
    BY <2>1, <2>2, ScanIs
  <2> QED
    BY <2>1, <2>4, <2>5, Frames DEF Framed, RegStep
<1>2. (open \subseteq Id)'
  <2>1. ASSUME MapSocket PROVE open' \subseteq Id
    BY <1>0, <2>1, MapIs DEF Skipped, Mapped, DiscShape
  <2>2. ASSUME NEW d \in Id, Close(d) PROVE open' \subseteq Id
    BY <1>0, <2>2 DEF Close, DiscShape
  <2> QED
    BY <1>0, <2>1, <2>2, Frames DEF Framed, OpenStep, DiscShape
<1>3. disc' \in Disc
  <2>0. disc \in Disc /\ AtScan \in Disc
    BY <1>0 DEF DiscShape, AtScan, Disc
  <2>1. ASSUME NEW p \in Proc, SetPcb(p) PROVE disc' \in Disc
    <3>1. CASE disc.at = "asleep" /\ appPtr[num[p]] = p
      <4>1. disc' = [disc EXCEPT !.at = "handle", !.app = num[p]] /\ run[p] = "on"
        BY <2>1, <3>1 DEF SetPcb
      <4>2. num[p] \in Nat
        BY <4>1 DEF IInv, NameInv, App
      <4> QED
        BY <2>0, <4>1, <4>2 DEF Disc
    <3> QED
      BY <2>0, <2>1, <3>1 DEF SetPcb
  <2>2. ASSUME Scan PROVE disc' \in Disc
    <3>1. [AtScan EXCEPT !.at = "fill"] \in Disc
      BY DEF AtScan, Disc
    <3> QED
      BY <2>0, <2>2, <3>1, ScanIs DEF Found
  <2>3. ASSUME FillWaitv PROVE disc' \in Disc
    <3>1. [AtScan EXCEPT !.at = "asleep"] \in Disc
      BY DEF AtScan, Disc
    <3>2. \A n \in Nat : [AtScan EXCEPT !.at = "read", !.app = n, !.back = "fill"] \in Disc
      BY DEF AtScan, Disc
    <3>3. App \subseteq Nat
      BY DEF App
    <3> QED
      BY <2>0, <2>3, <3>1, <3>2, <3>3, FillIs
  <2>4. ASSUME HandleNewSockets PROVE disc' \in Disc
    <3>1. disc' = [AtScan EXCEPT !.at = "read", !.app = disc.app, !.back = "scan"]
      BY <2>4 DEF HandleNewSockets, Handle
    <3>2. disc.app \in Nat
      BY <2>0 DEF Disc
    <3> QED
      BY <3>1, <3>2 DEF AtScan, Disc
  <2>5. ASSUME ReadHighest PROVE disc' \in Disc
    <3>1. disc.at = "read" /\ disc' = NextToMap([disc EXCEPT !.idx = FirstNew(disc.app),
                                                             !.upto = highest[appPtr[disc.app]]])
      BY <2>5 DEF ReadHighest
    <3>2. FirstNew(disc.app) \in Nat /\ highest[appPtr[disc.app]] \in Nat
      BY <1>0, <3>1, BusyWith DEF FirstNew, DiscShape, AppShape
    <3>3. [disc EXCEPT !.idx = FirstNew(disc.app), !.upto = highest[appPtr[disc.app]]] \in Disc
      BY <2>0, <3>2 DEF Disc
    <3> QED
      BY <3>1, <3>3, NextToMapIs
  <2>6. [disc EXCEPT !.idx = @ + 1] \in Disc /\ [disc EXCEPT !.idx = @ + 1, !.level = Low] \in Disc
    <3>1. disc.idx + 1 \in Nat
      BY <2>0 DEF Disc
    <3> QED
      BY <2>0, <3>1 DEF Disc
  <2>7. ASSUME MapSocket PROVE disc' \in Disc
    <3>1. CASE Skipped
      BY <2>6, <3>1, NextToMapIs DEF Skipped
    <3>2. ASSUME NEW d \in Id, NEW p \in Proc, Mapped(d, p) PROVE disc' \in Disc
      BY <2>0, <3>2 DEF Mapped, Disc
    <3> QED
      BY <2>7, <3>1, <3>2, MapIs
  <2>8. ASSUME PutNew PROVE disc' \in Disc
    <3>1. PICK l \in Level : disc' = [disc EXCEPT !.at = "announce", !.level = l]
      BY <2>8, PutIs
    <3> QED
      BY <2>0, <3>1 DEF Disc
  <2>9. ASSUME Announce PROVE disc' \in Disc
    BY <2>6, <2>9, NextToMapIs DEF Announce
  <2>10. ASSUME Timeout PROVE disc' \in Disc
    BY <2>0, <2>10 DEF Timeout
  <2> QED
    BY <2>0, <2>1, <2>2, <2>3, <2>4, <2>5, <2>7, <2>8, <2>9, <2>10, Frames DEF Framed, DiscStep
<1> QED
  BY <1>1, <1>2, <1>3 DEF DiscShape

\* The thread moves through map_new_sockets as the code does.
LEMMA DiscInvStep ==
  ASSUME IInv, [Next]_vars
  PROVE  DiscInv'
<1> USE ConstantFacts
<1>0. AppShape /\ DiscShape /\ DiscInv /\ AppInv /\ disc \in Disc
  BY DEF IInv, Shape, DiscShape
<1>1. ASSUME UNCHANGED disc, UNCHANGED regVars PROVE DiscInv'
  <2>1. ASSUME disc.at \in {"map", "put", "announce"}
        PROVE  disc.idx <= disc.upto /\ disc.upto <= highest'[appPtr[disc.app]]
    <3>1. disc.idx <= disc.upto /\ disc.upto <= highest[appPtr[disc.app]]
      BY <1>0, <2>1 DEF DiscInv
    <3>2. PICK r \in Proc : r = appPtr[disc.app]
      BY <2>1, BusyWith
    <3>3. highest[r] <= highest'[r]
      BY AppKeeps, Frames DEF Framed, Kept
    <3>4. highest[r] \in Nat /\ highest'[r] \in Nat /\ disc.upto \in Nat
      <4>1. AppShape'
        BY AppShapeStep
      <4> QED
        BY <1>0, <4>1 DEF AppShape, Disc
    <3> QED
      BY <3>1, <3>2, <3>3, <3>4
  <2> QED
    BY <1>0, <1>1, <2>1 DEF DiscInv, regVars
<1>2. ASSUME disc'.at \in {"scan", "fill", "asleep"} PROVE DiscInv'
  BY <1>2 DEF DiscInv
<1>3. ASSUME NEW n \in App, n < nextApp, disc'.at \in {"handle", "read"}, disc'.app = n, UNCHANGED regVars
      PROVE  DiscInv'
  BY <1>3 DEF DiscInv, regVars
<1>4. ASSUME NEW p \in Proc, SetPcb(p) PROVE DiscInv'
  <2>1. UNCHANGED regVars /\ run[p] = "on"
    BY <1>4 DEF SetPcb, discVars, regVars
  <2>2. CASE disc.at = "asleep" /\ appPtr[num[p]] = p
    <3>1. disc' = [disc EXCEPT !.at = "handle", !.app = num[p]]
      BY <1>4, <2>2 DEF SetPcb
    <3>2. num[p] \in App /\ num[p] < nextApp
      BY <1>0, <2>1, <2>2 DEF IInv, NameInv, AppInv
    <3>3. disc'.at = "handle" /\ disc'.app = num[p]
      BY <1>0, <3>1 DEF Disc
    <3> QED
      BY <1>3, <2>1, <3>2, <3>3
  <2> QED
    BY <1>1, <1>4, <2>1, <2>2 DEF SetPcb
<1>5. ASSUME Scan PROVE DiscInv'
  <2>1. CASE disc' = [AtScan EXCEPT !.at = "fill"]
    BY <1>2, <2>1 DEF AtScan
  <2>2. ASSUME NEW p \in Proc, Found(p) PROVE DiscInv'
    <3>1. disc'.at = "scan"
      BY <1>5, <2>2 DEF Found, Scan
    <3> QED
      BY <1>2, <3>1
  <2> QED
    BY <1>5, <2>1, <2>2, ScanIs
<1>6. ASSUME FillWaitv PROVE DiscInv'
  <2>1. CASE disc' = AtScan \/ disc' = [AtScan EXCEPT !.at = "asleep"]
    BY <1>2, <2>1 DEF AtScan
  <2>2. ASSUME NEW n \in App, n < nextApp, disc' = [AtScan EXCEPT !.at = "read", !.app = n, !.back = "fill"]
        PROVE  DiscInv'
    <3>1. disc'.at = "read" /\ disc'.app = n
      BY <2>2 DEF AtScan
    <3> QED
      BY <1>3, <1>6, <2>2, <3>1, FillIs
  <2> QED
    BY <1>6, <2>1, <2>2, FillIs
<1>7. ASSUME HandleNewSockets PROVE DiscInv'
  <2>1. disc.at = "handle" /\ UNCHANGED regVars
        /\ disc' = [AtScan EXCEPT !.at = "read", !.app = disc.app, !.back = "scan"]
    BY <1>7 DEF HandleNewSockets, Handle, regVars
  <2>2. disc'.at = "read" /\ disc'.app = disc.app
    BY <2>1 DEF AtScan
  <2>3. disc.app \in App /\ disc.app < nextApp
    BY <2>1, BusyWith
  <2> QED
    BY <1>3, <2>1, <2>2, <2>3
<1>8. ASSUME NEW r \in Disc, disc' = NextToMap(r), r.app \in App, r.app < nextApp,
             r.upto <= highest[appPtr[r.app]], local[r.app] < r.idx,
             UNCHANGED appVars, UNCHANGED regVars
      PROVE  DiscInv'
  <2>1. CASE disc'.at = "map"
    <3>1. disc' = [r EXCEPT !.at = "map"] /\ r.idx <= r.upto
      BY <1>8, <2>1, NextToMapIs
    <3>2. disc'.app = r.app /\ disc'.idx = r.idx /\ disc'.upto = r.upto
      BY <3>1 DEF Disc
    <3> QED
      BY <1>8, <2>1, <3>1, <3>2 DEF DiscInv, appVars, regVars
  <2>2. CASE disc'.at # "map"
    <3>1. disc'.at \in {"scan", "fill", "asleep"}
      BY <1>8, <2>2, NextToMapIs
    <3> QED
      BY <1>2, <3>1
  <2> QED
    BY <2>1, <2>2
<1>9. ASSUME ReadHighest PROVE DiscInv'
  <2>1. /\ disc.at = "read" /\ UNCHANGED appVars /\ UNCHANGED regVars
        /\ disc' = NextToMap([disc EXCEPT !.idx = FirstNew(disc.app), !.upto = highest[appPtr[disc.app]]])
    BY <1>9 DEF ReadHighest, discVars, appVars, regVars
  <2>2. disc.app \in App /\ disc.app < nextApp /\ appPtr[disc.app] \in Proc
    BY <2>1, BusyWith
  <2>3. PICK a \in Nat, b \in Nat : a = FirstNew(disc.app) /\ b = highest[appPtr[disc.app]] /\ local[disc.app] < a
    BY <1>0, <2>2 DEF FirstNew, DiscShape, AppShape
  <2>4. PICK r \in Disc : r = [disc EXCEPT !.idx = a, !.upto = b]
    BY <1>0 DEF Disc
  <2>5. r.app = disc.app /\ r.idx = a /\ r.upto = b
    BY <1>0, <2>4 DEF Disc
  <2>6. disc' = NextToMap(r)
    BY <2>1, <2>3, <2>4
  <2>7. r.upto <= highest[appPtr[r.app]] /\ local[r.app] < r.idx
    BY <2>3, <2>5
  <2> QED
    BY <1>8, <2>1, <2>2, <2>5, <2>6, <2>7
<1>10. ASSUME MapSocket PROVE DiscInv'
  <2>0. /\ disc.at = "map" /\ disc.upto <= highest[appPtr[disc.app]] /\ local[disc.app] < disc.idx
        /\ disc.app \in App /\ disc.app < nextApp /\ disc.idx \in Nat /\ local[disc.app] \in Nat
        /\ disc.idx <= disc.upto
    BY <1>0, <1>10, BusyWith DEF MapSocket, DiscInv, DiscShape
  <2>1. CASE Skipped
    <3>0. disc.idx + 1 \in Nat
      BY <2>0
    <3>1. PICK r \in Disc : r = [disc EXCEPT !.idx = @ + 1]
      BY <1>0, <3>0 DEF Disc
    <3>2. r.app = disc.app /\ r.idx = disc.idx + 1 /\ r.upto = disc.upto
      BY <1>0, <3>1 DEF Disc
    <3>3. local[r.app] < r.idx
      BY <2>0, <3>2
    <3> QED
      BY <1>8, <2>0, <2>1, <3>1, <3>2, <3>3 DEF Skipped
  <2>2. ASSUME NEW d \in Id, NEW p \in Proc, Mapped(d, p) PROVE DiscInv'
    <3>1. /\ d = <<disc.app, disc.idx>> /\ region' = [region EXCEPT ![d] = p]
          /\ local' = [local EXCEPT ![d[1]] = d[2]] /\ disc' = [disc EXCEPT !.at = "put"]
          /\ UNCHANGED appVars /\ UNCHANGED <<nextApp, appPtr>>
      BY <2>2 DEF Mapped
    <3>2. d[1] = disc.app /\ d[2] = disc.idx /\ disc.idx > 0
      BY <2>0, <3>1
    <3>3. disc'.at = "put" /\ disc'.app = disc.app /\ disc'.idx = disc.idx /\ disc'.upto = disc.upto
      BY <1>0, <3>1 DEF Disc
    <3>4. region'[d] = p /\ local'[disc.app] = disc.idx
      BY <1>0, <2>0, <3>1, <3>2 DEF DiscShape
    <3> QED
      BY <2>0, <3>1, <3>2, <3>3, <3>4 DEF DiscInv, appVars
  <2> QED
    BY <1>10, <2>1, <2>2, MapIs
<1>11. ASSUME PutNew PROVE DiscInv'
  <2>1. PICK l \in Level : disc' = [disc EXCEPT !.at = "announce", !.level = l]
    BY <1>11, PutIs
  <2>2. disc.at = "put" /\ UNCHANGED appVars /\ UNCHANGED regVars
    BY <1>11 DEF PutNew, discVars, appVars, regVars
  <2>3. disc'.at = "announce" /\ disc'.app = disc.app /\ disc'.idx = disc.idx /\ disc'.upto = disc.upto
    BY <1>0, <2>1 DEF Disc
  <2> QED
    BY <1>0, <2>2, <2>3 DEF DiscInv, appVars, regVars
<1>12. ASSUME Announce PROVE DiscInv'
  <2>1. /\ disc.at = "announce" /\ UNCHANGED appVars /\ UNCHANGED regVars
        /\ disc' = NextToMap([disc EXCEPT !.idx = @ + 1, !.level = Low])
    BY <1>12 DEF Announce, discVars, appVars, regVars
  <2>2. /\ disc.upto <= highest[appPtr[disc.app]] /\ local[disc.app] = disc.idx
        /\ disc.app \in App /\ disc.app < nextApp /\ disc.idx \in Nat
    BY <1>0, <2>1, BusyWith DEF DiscInv
  <2>6. disc.idx + 1 \in Nat
    BY <2>2
  <2>3. PICK r \in Disc : r = [disc EXCEPT !.idx = @ + 1, !.level = Low]
    BY <1>0, <2>6 DEF Disc
  <2>4. r.app = disc.app /\ r.idx = disc.idx + 1 /\ r.upto = disc.upto
    BY <1>0, <2>3 DEF Disc
  <2>5. local[r.app] < r.idx
    BY <2>2, <2>4
  <2> QED
    BY <1>8, <2>1, <2>2, <2>3, <2>4, <2>5
<1>13. ASSUME Timeout PROVE DiscInv'
  <2>1. disc'.at = "scan"
    BY <1>13 DEF Timeout, AtScan
  <2> QED
    BY <1>2, <2>1
<1>14. (UNCHANGED disc /\ UNCHANGED regVars) \/ DiscStep
  BY Frames DEF Framed, RegStep, DiscStep
<1> QED
  BY <1>1, <1>4, <1>5, <1>6, <1>7, <1>9, <1>10, <1>11, <1>12, <1>13, <1>14 DEF DiscStep

(***************************************************************************)
(* Sequences: the list without an element, and the open sockets of a walk. *)
(***************************************************************************)

\* A sequence with a new first element.
LEMMA PushIs ==
  ASSUME NEW S, NEW s \in Seq(S), NEW e \in S
  PROVE  /\ <<e>> \o s \in Seq(S) /\ Len(<<e>> \o s) = Len(s) + 1 /\ (<<e>> \o s)[1] = e
         /\ \A k \in 1..Len(s) : (<<e>> \o s)[k + 1] = s[k]
<1>1. <<e>> \in Seq(S) /\ Len(<<e>>) = 1 /\ <<e>>[1] = e /\ Len(s) \in Nat
  BY LenProperties
<1>2. PICK w : w = <<e>>
  OBVIOUS
<1>3. w \in Seq(S) /\ Len(w) = 1 /\ w[1] = e
  BY <1>1, <1>2
<1>4. PICK m \in Nat : m = Len(s)
  BY <1>1
<1>5. /\ w \o s \in Seq(S) /\ Len(w \o s) = 1 + m
      /\ \A i \in 1..(1 + m) : (w \o s)[i] = IF i <= 1 THEN w[i] ELSE s[i - 1]
  <2>1. /\ w \o s \in Seq(S) /\ Len(w \o s) = Len(w) + Len(s)
        /\ \A i \in 1..(Len(w) + Len(s)) : (w \o s)[i] = IF i <= Len(w) THEN w[i] ELSE s[i - Len(w)]
    BY <1>3, ConcatProperties
  <2> QED
    BY <1>3, <1>4, <2>1
<1>6. (w \o s)[1] = e
  <2>1. 1 \in 1..(1 + m) /\ 1 <= 1
    BY <1>4
  <2> QED
    BY <1>3, <1>5, <2>1
<1>7. ASSUME NEW k \in 1..m PROVE (w \o s)[k + 1] = s[k]
  <2>1. k + 1 \in 1..(1 + m) /\ ~(k + 1 <= 1) /\ k + 1 - 1 = k
    BY <1>4
  <2> QED
    BY <1>5, <2>1
<1> QED
  BY <1>2, <1>4, <1>5, <1>6, <1>7

\* A sequence without its first element.
LEMMA PopIs ==
  ASSUME NEW S, NEW s \in Seq(S), s # <<>>
  PROVE  /\ Len(s) \in Nat \ {0} /\ Head(s) = s[1] /\ s[1] \in S /\ Tail(s) \in Seq(S)
         /\ Len(Tail(s)) = Len(s) - 1 /\ \A k \in 1..(Len(s) - 1) : Tail(s)[k] = s[k + 1]
<1>1. Len(s) \in Nat \ {0}
  BY EmptySeq
<1>2. 1 \in 1..Len(s)
  BY <1>1
<1>3. s[1] \in S
  BY <1>2, ElementOfSeq
<1>4. /\ Tail(s) \in Seq(S) /\ Len(Tail(s)) = Len(s) - 1
      /\ \A k \in 1..Len(Tail(s)) : Tail(s)[k] = s[k + 1]
  BY HeadTailProperties
<1> QED
  BY <1>1, <1>3, <1>4

\* A sequence without its i-th element, and with no such i the same sequence.
LEMMA RemoveIs ==
  ASSUME NEW S, NEW s \in Seq(S), NEW i \in 0..Len(s)
  PROVE  /\ i = 0 => RemoveAt(s, i) = s
         /\ i # 0 => /\ RemoveAt(s, i) \in Seq(S) /\ Len(RemoveAt(s, i)) = Len(s) - 1
                     /\ \A k \in 1..(Len(s) - 1) : RemoveAt(s, i)[k] = IF k < i THEN s[k] ELSE s[k + 1]
<1>1. PICK m \in Nat : m = Len(s) /\ \A k \in 1..m : s[k] \in S
  BY LenProperties, ElementOfSeq
<1>2. CASE i = 0
  <2>1. SubSeq(s, 1, i - 1) = <<>>
    BY <1>2, SubSeqEmpty
  <2>2. SubSeq(s, i + 1, Len(s)) = s
    BY <1>2, SubSeqFull
  <2> QED
    BY <1>2, <2>1, <2>2, ConcatEmptySeq DEF RemoveAt
<1>3. CASE i # 0
  <2>1. PICK a \in Nat : a = i - 1 /\ i = a + 1 /\ a < m /\ i \in 1..m
    BY <1>1, <1>3
  <2>2. PICK b \in Nat : b = a + 2
    BY <2>1
  <2>3. PICK x : x = SubSeq(s, 1, a)
    OBVIOUS
  <2>4. x \in Seq(S) /\ Len(x) = a /\ \A k \in 1..a : x[k] = s[k]
    <3>1. \A k \in 1..a : s[k] \in S
      BY <1>1, <2>1
    <3>2. /\ x \in Seq(S) /\ Len(x) = IF 1 <= a THEN a - 1 + 1 ELSE 0
          /\ \A k \in 1..(a - 1 + 1) : x[k] = s[1 + k - 1]
      BY <2>3, <3>1, SubSeqProperties
    <3>3. ASSUME NEW k \in 1..a PROVE x[k] = s[k]
      <4>1. k \in 1..(a - 1 + 1) /\ 1 + k - 1 = k
        OBVIOUS
      <4> QED
        BY <3>2, <4>1
    <3>4. Len(x) = a
      BY <3>2
    <3> QED
      BY <3>2, <3>3, <3>4
  <2>5. PICK y : y = SubSeq(s, b, m)
    OBVIOUS
  <2>6. y \in Seq(S) /\ Len(y) = m - a - 1 /\ \A k \in 1..(m - a - 1) : y[k] = s[a + 1 + k]
    <3>1. \A k \in b..m : s[k] \in S
      BY <1>1, <2>1, <2>2
    <3>2. /\ y \in Seq(S) /\ Len(y) = IF b <= m THEN m - b + 1 ELSE 0
          /\ \A k \in 1..(m - b + 1) : y[k] = s[b + k - 1]
      BY <2>5, <3>1, SubSeqProperties
    <3>3. ASSUME NEW k \in 1..(m - a - 1) PROVE y[k] = s[a + 1 + k]
      <4>1. k \in 1..(m - b + 1) /\ b + k - 1 = a + 1 + k
        BY <2>2
      <4> QED
        BY <3>2, <4>1
    <3>4. Len(y) = m - a - 1
      BY <2>1, <2>2, <3>2
    <3> QED
      BY <3>2, <3>3, <3>4
  <2>7. RemoveAt(s, i) = x \o y
    <3>1. i - 1 = a /\ i + 1 = b
      BY <2>1, <2>2
    <3> QED
      BY <1>1, <2>3, <2>5, <3>1 DEF RemoveAt
  <2>8. PICK c \in Nat : c = m - a - 1 /\ a + c = m - 1
    BY <2>1
  <2>9. /\ x \o y \in Seq(S) /\ Len(x \o y) = a + c
        /\ \A k \in 1..(a + c) : (x \o y)[k] = IF k <= a THEN x[k] ELSE y[k - a]
    <3>1. Len(x) = a /\ Len(y) = c
      BY <2>4, <2>6, <2>8
    <3>2. /\ x \o y \in Seq(S) /\ Len(x \o y) = Len(x) + Len(y)
          /\ \A k \in 1..(Len(x) + Len(y)) : (x \o y)[k] = IF k <= Len(x) THEN x[k] ELSE y[k - Len(x)]
      BY <2>4, <2>6, ConcatProperties
    <3> QED
      BY <3>1, <3>2
  <2>10. ASSUME NEW k \in 1..(m - 1) PROVE (x \o y)[k] = IF k < i THEN s[k] ELSE s[k + 1]
    <3>1. CASE k < i
      <4>1. k \in 1..(a + c) /\ k <= a /\ k \in 1..a
        BY <2>1, <2>8, <3>1
      <4> QED
        BY <2>4, <2>9, <3>1, <4>1
    <3>2. CASE ~(k < i)
      <4>1. k \in 1..(a + c) /\ ~(k <= a) /\ k - a \in 1..c /\ a + 1 + (k - a) = k + 1
        BY <2>1, <2>8, <3>2
      <4>2. (x \o y)[k] = y[k - a] /\ y[k - a] = s[a + 1 + (k - a)]
        BY <2>6, <2>8, <2>9, <4>1
      <4> QED
        BY <3>2, <4>1, <4>2
    <3> QED
      BY <3>1, <3>2
  <2> QED
    BY <1>1, <1>3, <2>7, <2>8, <2>9, <2>10
<1> QED
  BY <1>2, <1>3

\* FirstClosed is 0 or the number of a closed socket in the list.
LEMMA FirstClosedIs ==
  ASSUME IInv, NEW l \in Level
  PROVE  /\ FirstClosed(l) \in 0..Len(list[l])
         /\ FirstClosed(l) # 0 => list[l][FirstClosed(l)] \notin open
<1> DEFINE I == {i \in 1..Len(list[l]) : list[l][i] \notin open}
<1>1. Len(list[l]) \in Nat
  BY LenProperties DEF IInv, Shape, ThreadShape
<1>2. FirstClosed(l) = IF I # {} THEN Min(I) ELSE 0
  BY DEF FirstClosed, SelectInSeq
<1>3. ASSUME I # {} PROVE Min(I) \in I
  <2>1. I \subseteq Nat
    BY <1>1
  <2> HIDE DEF I
  <2>2. \E x \in I : \A y \in I : x <= y
    BY <1>3, <2>1, LeastNat
  <2> QED
    BY <2>2 DEF Min
<1> QED
  BY <1>1, <1>2, <1>3

\* g[i] holds the open sockets among the first i of s, in order.
Picks(g, s, m) ==
  /\ g \in [0..m -> Seq(Id)] /\ g[0] = <<>>
  /\ \A i \in 1..m : g[i] = IF s[i] \in open THEN Append(g[i - 1], s[i]) ELSE g[i - 1]

\* There is such a g.
LEMMA PicksExist ==
  ASSUME NEW s \in Seq(Id)
  PROVE  \E g : Picks(g, s, Len(s))
<1>1. Len(s) \in Nat /\ \A i \in 1..Len(s) : s[i] \in Id
  BY ElementOfSeq, LenProperties
<1> DEFINE T == {m \in 0..Len(s) : ~\E g : Picks(g, s, m)}
<1>2. SUFFICES T = {}
  BY <1>1
<1>3. SUFFICES ASSUME T # {} PROVE FALSE
  OBVIOUS
<1>4. PICK m \in T : \A y \in T : m <= y
  <2>1. T \subseteq Nat
    OBVIOUS
  <2> HIDE DEF T
  <2> QED
    BY <1>3, <2>1, LeastNat
<1>5. m \in 0..Len(s) /\ m \in Nat /\ ~\E g : Picks(g, s, m)
  BY <1>1
<1>6. m # 0
  <2>1. <<>> \in Seq(Id)
    OBVIOUS
  <2>2. Picks([i \in 0..0 |-> <<>>], s, 0)
    BY <2>1 DEF Picks
  <2> QED
    BY <1>5, <2>2
<1>7. m - 1 \in 0..Len(s) /\ m - 1 \notin T
  BY <1>1, <1>4, <1>5, <1>6
<1>8. PICK g : Picks(g, s, m - 1)
  BY <1>7
<1>9. PICK e : e = IF s[m] \in open THEN Append(g[m - 1], s[m]) ELSE g[m - 1]
  OBVIOUS
<1>10. PICK h : h = [i \in 0..m |-> IF i = m THEN e ELSE g[i]]
  OBVIOUS
<1>11. Picks(h, s, m)
  <2>1. /\ g \in [0..(m - 1) -> Seq(Id)] /\ g[0] = <<>>
        /\ \A i \in 1..(m - 1) : g[i] = IF s[i] \in open THEN Append(g[i - 1], s[i]) ELSE g[i - 1]
    BY <1>8 DEF Picks
  <2>2. m \in 1..Len(s) /\ s[m] \in Id /\ m - 1 \in 0..(m - 1)
    BY <1>1, <1>5, <1>6
  <2>3. e \in Seq(Id)
    <3>1. g[m - 1] \in Seq(Id)
      BY <2>1, <2>2
    <3>2. Append(g[m - 1], s[m]) \in Seq(Id)
      BY <2>2, <3>1, AppendProperties
    <3> QED
      BY <1>9, <3>1, <3>2
  <2>4. h \in [0..m -> Seq(Id)] /\ h[0] = <<>>
    BY <1>5, <1>6, <1>10, <2>1, <2>3
  <2>5. ASSUME NEW i \in 1..m PROVE h[i] = IF s[i] \in open THEN Append(h[i - 1], s[i]) ELSE h[i - 1]
    <3>1. i - 1 \in 0..m /\ i - 1 # m /\ h[i - 1] = g[i - 1]
      BY <1>5, <1>10
    <3>2. CASE i = m
      BY <1>5, <1>9, <1>10, <3>1, <3>2
    <3>3. CASE i # m
      <4>1. i \in 1..(m - 1) /\ i \in 0..m
        BY <1>5, <3>3
      <4>2. h[i] = g[i]
        BY <1>10, <3>3, <4>1
      <4>3. g[i] = IF s[i] \in open THEN Append(g[i - 1], s[i]) ELSE g[i - 1]
        BY <2>1, <4>1
      <4> QED
        BY <3>1, <4>2, <4>3
    <3> QED
      BY <3>2, <3>3
  <2> QED
    BY <2>4, <2>5 DEF Picks
<1> QED
  BY <1>5, <1>11

\* The open sockets of a walk are just those: each comes from the walk, and each
\* open one of the walk is among them.
LEMMA OpenInIs ==
  ASSUME NEW s \in Seq(Id)
  PROVE  /\ OpenIn(s) \in Seq(Id)
         /\ \A k \in 1..Len(OpenIn(s)) : \E j \in 1..Len(s) : OpenIn(s)[k] = s[j]
         /\ \A j \in 1..Len(s) : s[j] \in open => \E k \in 1..Len(OpenIn(s)) : OpenIn(s)[k] = s[j]
<1> DEFINE f[i \in 0..Len(s)] ==
             IF i = 0 THEN <<>> ELSE IF s[i] \in open THEN Append(f[i - 1], s[i]) ELSE f[i - 1]
<1>1. Len(s) \in Nat /\ \A i \in 1..Len(s) : s[i] \in Id
  BY ElementOfSeq, LenProperties
<1>2. PICK g : Picks(g, s, Len(s))
  BY PicksExist
<1>3. g = [i \in 0..Len(s) |->
             IF i = 0 THEN <<>> ELSE IF s[i] \in open THEN Append(g[i - 1], s[i]) ELSE g[i - 1]]
  <2>1. ASSUME NEW i \in 0..Len(s)
        PROVE  g[i] = IF i = 0 THEN <<>> ELSE IF s[i] \in open THEN Append(g[i - 1], s[i]) ELSE g[i - 1]
    <3>1. i # 0 => i \in 1..Len(s)
      BY <1>1
    <3> QED
      BY <1>2, <3>1 DEF Picks
  <2>2. g = [i \in 0..Len(s) |-> g[i]]
    BY <1>2 DEF Picks
  <2> QED
    BY <2>1, <2>2
<1>4. f = [i \in 0..Len(s) |->
             IF i = 0 THEN <<>> ELSE IF s[i] \in open THEN Append(f[i - 1], s[i]) ELSE f[i - 1]]
  BY <1>3
<1>5. OpenIn(s) = f[Len(s)]
  BY DEF OpenIn
<1> HIDE DEF f
<1>6. /\ f[0] = <<>>
      /\ \A i \in 1..Len(s) : f[i] = IF s[i] \in open THEN Append(f[i - 1], s[i]) ELSE f[i - 1]
  <2>1. 0 \in 0..Len(s)
    BY <1>1
  <2>2. f[0] = <<>>
    BY <1>4, <2>1
  <2>3. ASSUME NEW i \in 1..Len(s)
        PROVE  f[i] = IF s[i] \in open THEN Append(f[i - 1], s[i]) ELSE f[i - 1]
    <3>1. i \in 0..Len(s) /\ i # 0
      BY <1>1
    <3> QED
      BY <1>4, <3>1
  <2> QED
    BY <2>2, <2>3
<1> DEFINE Good(i) == /\ f[i] \in Seq(Id)
                      /\ \A k \in 1..Len(f[i]) : \E j \in 1..i : f[i][k] = s[j]
                      /\ \A j \in 1..i : s[j] \in open => \E k \in 1..Len(f[i]) : f[i][k] = s[j]
           T == {i \in 0..Len(s) : ~Good(i)}
<1>7. SUFFICES T = {}
  <2>1. Len(s) \in 0..Len(s) /\ Len(s) \notin T
    BY <1>1, <1>7
  <2> QED
    BY <1>5, <2>1
<1>8. SUFFICES ASSUME T # {} PROVE FALSE
  OBVIOUS
<1>9. PICK i \in T : \A y \in T : i <= y
  <2>1. T \subseteq Nat
    BY <1>1
  <2> HIDE DEF T
  <2> QED
    BY <1>8, <2>1, LeastNat
<1>10. i \in 0..Len(s) /\ ~Good(i)
  OBVIOUS
<1>11. i # 0
  <2>1. Good(0)
    BY <1>6
  <2> QED
    BY <1>10, <2>1
<1>12. i \in 1..Len(s) /\ i - 1 \in 0..Len(s) /\ i - 1 \notin T
  BY <1>1, <1>9, <1>10, <1>11
<1>13. PICK v \in Seq(Id), n \in Nat :
         /\ v = f[i - 1] /\ n = Len(v)
         /\ \A k \in 1..n : \E j \in 1..(i - 1) : v[k] = s[j]
         /\ \A j \in 1..(i - 1) : s[j] \in open => \E k \in 1..n : v[k] = s[j]
  <2>1. Good(i - 1)
    BY <1>12
  <2>2. Len(f[i - 1]) \in Nat
    BY <2>1, LenProperties
  <2> QED
    BY <2>1, <2>2
<1>14. Good(i)
  <2>1. CASE s[i] \in open
    <3>1. PICK w : w = f[i]
      OBVIOUS
    <3>2. s[i] \in Id /\ w = Append(v, s[i])
      BY <1>1, <1>6, <1>12, <1>13, <2>1, <3>1
    <3>3. w \in Seq(Id) /\ Len(w) = n + 1 /\ (\A k \in 1..n : w[k] = v[k]) /\ w[n + 1] = s[i]
      BY <1>13, <3>2, AppendProperties
    <3>4. ASSUME NEW k \in 1..(n + 1) PROVE \E j \in 1..i : w[k] = s[j]
      <4>1. CASE k = n + 1
        <5>1. i \in 1..i
          BY <1>12
        <5> QED
          BY <3>3, <4>1, <5>1
      <4>2. CASE k # n + 1
        <5>1. k \in 1..n
          BY <4>2
        <5>2. PICK j \in 1..(i - 1) : v[k] = s[j]
          BY <1>13, <5>1
        <5>3. j \in 1..i
          BY <1>12
        <5> QED
          BY <3>3, <5>1, <5>2, <5>3
      <4> QED
        BY <4>1, <4>2
    <3>5. ASSUME NEW j \in 1..i, s[j] \in open PROVE \E k \in 1..(n + 1) : w[k] = s[j]
      <4>1. CASE j = i
        <5>1. n + 1 \in 1..(n + 1)
          OBVIOUS
        <5> QED
          BY <3>3, <4>1, <5>1
      <4>2. CASE j # i
        <5>1. j \in 1..(i - 1)
          BY <1>12, <4>2
        <5>2. PICK k \in 1..n : v[k] = s[j]
          BY <1>13, <3>5, <5>1
        <5>3. k \in 1..(n + 1)
          OBVIOUS
        <5> QED
          BY <3>3, <5>2, <5>3
      <4> QED
        BY <4>1, <4>2
    <3> QED
      BY <3>1, <3>3, <3>4, <3>5
  <2>2. CASE s[i] \notin open
    <3>1. f[i] = v
      BY <1>6, <1>12, <1>13, <2>2
    <3>2. ASSUME NEW k \in 1..n PROVE \E j \in 1..i : v[k] = s[j]
      <4>1. PICK j \in 1..(i - 1) : v[k] = s[j]
        BY <1>13
      <4>2. j \in 1..i
        BY <1>12
      <4> QED
        BY <4>1, <4>2
    <3>3. ASSUME NEW j \in 1..i, s[j] \in open PROVE \E k \in 1..n : v[k] = s[j]
      <4>1. j \in 1..(i - 1)
        <5>1. j # i
          BY <2>2, <3>3
        <5> QED
          BY <1>12, <5>1
      <4> QED
        BY <1>13, <3>3, <4>1
    <3> QED
      BY <1>13, <3>1, <3>2, <3>3
  <2> QED
    BY <2>1, <2>2
<1> QED
  BY <1>10, <1>14

(***************************************************************************)
(* The queues and the lists: where the sockets are.                        *)
(***************************************************************************)

\* The queues, the lists and socket_from_futex_nr hold identifiers.
LEMMA Holds ==
  ASSUME ThreadShape, NEW l \in Level
  PROVE  /\ queue[l] \in Seq(Id) /\ list[l] \in Seq(Id) /\ nr[l] \in Seq(Id)
         /\ Len(queue[l]) \in Nat /\ Len(list[l]) \in Nat /\ Len(nr[l]) \in Nat
         /\ \A k \in 1..Len(queue[l]) : queue[l][k] \in Id
         /\ \A k \in 1..Len(list[l]) : list[l][k] \in Id
         /\ \A k \in 1..Len(nr[l]) : nr[l][k] \in Id
<1>1. queue[l] \in Seq(Id) /\ list[l] \in Seq(Id) /\ nr[l] \in Seq(Id)
  BY DEF ThreadShape
<1> QED
  BY <1>1, LenProperties, ElementOfSeq

\* A socket is put at the end of a queue,
Put(d, l) ==
  /\ Len(queue[l]) < QueueCap /\ Len(queue'[l]) = Len(queue[l]) + 1
  /\ \A k \in 1..Len(queue[l]) : queue'[l][k] = queue[l][k]
  /\ queue'[l][Len(queue[l]) + 1] = d
  /\ \A m \in Level : m # l => queue'[m] = queue[m]
  /\ queue' \in [Level -> Seq(Id)] /\ UNCHANGED list

\* goes from the head of the queue to the head of the list,
Joined(l) ==
  /\ Len(queue[l]) >= 1 /\ Len(queue'[l]) = Len(queue[l]) - 1
  /\ \A k \in 1..(Len(queue[l]) - 1) : queue'[l][k] = queue[l][k + 1]
  /\ Len(list'[l]) = Len(list[l]) + 1 /\ list'[l][1] = queue[l][1]
  /\ \A k \in 1..Len(list[l]) : list'[l][k + 1] = list[l][k]
  /\ \A m \in Level : m # l => queue'[m] = queue[m] /\ list'[m] = list[m]
  /\ queue' \in [Level -> Seq(Id)] /\ list' \in [Level -> Seq(Id)]

\* and leaves the list once it is closed.
Left(l, i) ==
  /\ list[l][i] \notin open /\ Len(list'[l]) = Len(list[l]) - 1
  /\ \A k \in 1..(Len(list[l]) - 1) : list'[l][k] = IF k < i THEN list[l][k] ELSE list[l][k + 1]
  /\ \A m \in Level : m # l => list'[m] = list[m]
  /\ list' \in [Level -> Seq(Id)] /\ UNCHANGED queue

\* PutNew puts the socket in hand in a queue, or drops it.
LEMMA PutNewIs ==
  ASSUME IInv, PutNew
  PROVE  /\ UNCHANGED list /\ disc.at = "put" /\ disc'.at = "announce"
         /\ \E d \in Id, l \in Level :
              /\ d = <<disc.app, disc.idx>> /\ l = LevelOf(SockOf(d)) /\ region[d] # None
              /\ disc' = [disc EXCEPT !.at = "announce", !.level = l]
              /\ \/ Put(d, l) /\ UNCHANGED dropped
                 \/ dropped' = dropped \union {d} /\ UNCHANGED queue
<1>1. PICK d \in Id, l \in Level :
        /\ d = <<disc.app, disc.idx>> /\ l = LevelOf(SockOf(d)) /\ region[d] # None
        /\ \/ Fits(l) /\ queue' = [queue EXCEPT ![l] = Append(@, d)] /\ UNCHANGED dropped
           \/ ~Fits(l) /\ dropped' = dropped \union {d} /\ UNCHANGED queue
        /\ disc' = [disc EXCEPT !.at = "announce", !.level = l]
  BY PutIs
<1>2. disc.at = "put" /\ UNCHANGED list /\ disc \in Disc
  BY DEF PutNew, listVars, IInv, Shape, DiscShape
<1>3. disc'.at = "announce"
  BY <1>1, <1>2 DEF Disc
<1>4. ASSUME Fits(l), queue' = [queue EXCEPT ![l] = Append(@, d)]
      PROVE  Put(d, l)
  <2>1. queue \in [Level -> Seq(Id)] /\ queue[l] \in Seq(Id) /\ Len(queue[l]) \in Nat
    BY Holds DEF IInv, Shape, ThreadShape
  <2>2. PICK w : w = Append(queue[l], d)
    OBVIOUS
  <2>3. /\ w \in Seq(Id) /\ Len(w) = Len(queue[l]) + 1 /\ w[Len(queue[l]) + 1] = d
        /\ \A k \in 1..Len(queue[l]) : w[k] = queue[l][k]
    BY <2>1, <2>2, AppendProperties
  <2>4. queue' = [queue EXCEPT ![l] = w]
    BY <1>4, <2>2
  <2>5. queue' \in [Level -> Seq(Id)] /\ queue'[l] = w /\ \A m \in Level : m # l => queue'[m] = queue[m]
    BY <2>1, <2>3, <2>4
  <2> QED
    BY <1>2, <1>4, <2>3, <2>5 DEF Put, Fits
<1> QED
  BY <1>1, <1>2, <1>3, <1>4

\* AddNew moves the head of the queue to the head of the list and counts it.
LEMMA AddNewIs ==
  ASSUME IInv, NEW l \in Level, AddNew(l)
  PROVE  Joined(l) /\ shadow' = [shadow EXCEPT ![l] = @ + 1] /\ At(l, "drain")
<1>1. /\ queue[l] # <<>> /\ shadow' = [shadow EXCEPT ![l] = @ + 1] /\ At(l, "drain")
      /\ list' = [list EXCEPT ![l] = <<Head(queue[l])>> \o @]
      /\ queue' = [queue EXCEPT ![l] = Tail(@)]
  BY DEF AddNew
<1>2. /\ queue \in [Level -> Seq(Id)] /\ list \in [Level -> Seq(Id)]
      /\ queue[l] \in Seq(Id) /\ list[l] \in Seq(Id) /\ Len(queue[l]) \in Nat /\ Len(list[l]) \in Nat
  BY Holds DEF IInv, Shape, ThreadShape
<1>3. PICK e \in Id, q \in Seq(Id) :
        /\ e = Head(queue[l]) /\ e = queue[l][1] /\ q = Tail(queue[l])
        /\ Len(queue[l]) >= 1 /\ Len(q) = Len(queue[l]) - 1
        /\ \A k \in 1..(Len(queue[l]) - 1) : q[k] = queue[l][k + 1]
  <2>1. /\ Len(queue[l]) \in Nat \ {0} /\ Head(queue[l]) = queue[l][1] /\ queue[l][1] \in Id
        /\ Tail(queue[l]) \in Seq(Id) /\ Len(Tail(queue[l])) = Len(queue[l]) - 1
        /\ \A k \in 1..(Len(queue[l]) - 1) : Tail(queue[l])[k] = queue[l][k + 1]
    BY <1>1, <1>2, PopIs
  <2>2. Len(queue[l]) >= 1
    BY <2>1
  <2> QED
    BY <2>1, <2>2
<1>4. PICK s \in Seq(Id) :
        /\ s = <<e>> \o list[l] /\ Len(s) = Len(list[l]) + 1 /\ s[1] = e
        /\ \A k \in 1..Len(list[l]) : s[k + 1] = list[l][k]
  <2>1. /\ <<e>> \o list[l] \in Seq(Id) /\ Len(<<e>> \o list[l]) = Len(list[l]) + 1
        /\ (<<e>> \o list[l])[1] = e /\ \A k \in 1..Len(list[l]) : (<<e>> \o list[l])[k + 1] = list[l][k]
    BY <1>2, PushIs
  <2> QED
    BY <2>1, Zenon
<1>5. list' = [list EXCEPT ![l] = s] /\ queue' = [queue EXCEPT ![l] = q]
  BY <1>1, <1>3, <1>4
<1>6. /\ queue' \in [Level -> Seq(Id)] /\ list' \in [Level -> Seq(Id)] /\ queue'[l] = q /\ list'[l] = s
      /\ \A m \in Level : m # l => queue'[m] = queue[m] /\ list'[m] = list[m]
  BY <1>2, <1>5
<1> QED
  BY <1>1, <1>3, <1>4, <1>6 DEF Joined

\* RemoveClosed takes a closed socket out of the list, if it finds one.
LEMMA RemoveClosedIs ==
  ASSUME IInv, NEW l \in Level, RemoveClosed(l)
  PROVE  \/ UNCHANGED <<queue, list>> /\ FirstClosed(l) = 0
         \/ FirstClosed(l) \in 1..Len(list[l]) /\ Left(l, FirstClosed(l))
<1>1. UNCHANGED queue /\ list' = [list EXCEPT ![l] = RemoveAt(@, FirstClosed(l))]
  BY DEF RemoveClosed
<1>2. list \in [Level -> Seq(Id)] /\ list[l] \in Seq(Id) /\ Len(list[l]) \in Nat
  BY Holds DEF IInv, Shape, ThreadShape
<1>3. PICK i \in 0..Len(list[l]) : i = FirstClosed(l) /\ (i # 0 => list[l][i] \notin open)
  BY FirstClosedIs
<1>4. PICK s : s = RemoveAt(list[l], i)
  OBVIOUS
<1>5. list' = [list EXCEPT ![l] = s]
  BY <1>1, <1>3, <1>4
<1>6. CASE i = 0
  <2>1. s = list[l]
    BY <1>2, <1>4, <1>6, RemoveIs
  <2>2. list' = list
    BY <1>2, <1>5, <2>1
  <2> QED
    BY <1>1, <1>3, <1>6, <2>2
<1>7. CASE i # 0
  <2>1. /\ s \in Seq(Id) /\ Len(s) = Len(list[l]) - 1
        /\ \A k \in 1..(Len(list[l]) - 1) : s[k] = IF k < i THEN list[l][k] ELSE list[l][k + 1]
    BY <1>2, <1>4, <1>7, RemoveIs
  <2>2. list' \in [Level -> Seq(Id)] /\ list'[l] = s /\ \A m \in Level : m # l => list'[m] = list[m]
    BY <1>2, <1>5, <2>1
  <2>3. Left(l, i)
    BY <1>1, <1>3, <1>7, <2>1, <2>2 DEF Left
  <2>4. i \in 1..Len(list[l])
    BY <1>2, <1>7
  <2> QED
    BY <1>3, <2>3, <2>4
<1> QED
  BY <1>6, <1>7

\* These are the steps that change the queues and the lists.
LEMMA Moves ==
  ASSUME IInv, [Next]_vars
  PROVE  \/ UNCHANGED <<queue, list>>
         \/ \E d \in Id, l \in Level : Put(d, l) /\ PutNew /\ InHand(d) /\ l = LevelOf(SockOf(d))
         \/ \E l \in Level : AddNew(l) /\ Joined(l)
         \/ \E l \in Level : \E i \in 1..Len(list[l]) : Left(l, i)
<1>1. ASSUME PutNew
      PROVE  \/ UNCHANGED <<queue, list>>
             \/ \E d \in Id, l \in Level : Put(d, l) /\ PutNew /\ InHand(d) /\ l = LevelOf(SockOf(d))
  <2>1. PICK d \in Id, l \in Level :
              /\ d = <<disc.app, disc.idx>> /\ l = LevelOf(SockOf(d)) /\ region[d] # None
              /\ disc' = [disc EXCEPT !.at = "announce", !.level = l]
              /\ \/ Put(d, l) /\ UNCHANGED dropped
                 \/ dropped' = dropped \union {d} /\ UNCHANGED queue
    BY <1>1, PutNewIs
  <2>2. disc.at = "put" /\ UNCHANGED list
    BY <1>1, PutNewIs
  <2>3. InHand(d)
    BY <2>1, <2>2 DEF InHand
  <2> QED
    BY <1>1, <2>1, <2>2, <2>3
<1>2. ASSUME NEW l \in Level, AddNew(l)
      PROVE  \E m \in Level : AddNew(m) /\ Joined(m)
  BY <1>2, AddNewIs
<1>3. ASSUME NEW l \in Level, RemoveClosed(l)
      PROVE  UNCHANGED <<queue, list>> \/ \E m \in Level : \E i \in 1..Len(list[m]) : Left(m, i)
  BY <1>3, RemoveClosedIs
<1>4. (UNCHANGED queue /\ UNCHANGED list) \/ QueueStep \/ ListStep
  BY Frames DEF Framed
<1> QED
  BY <1>1, <1>2, <1>3, <1>4 DEF QueueStep, ListStep

\* How the discovery thread comes to have a socket in hand, and parts with it.
LEMMA HandMoves ==
  ASSUME IInv, [Next]_vars
  PROVE  \/ UNCHANGED disc
         \/ PutNew
         \/ Announce /\ disc'.at \notin {"put", "announce"}
         \/ MapSocket /\ \E d \in Id, p \in Proc : Mapped(d, p)
         \/ disc.at \notin {"put", "announce"} /\ disc'.at \notin {"put", "announce"}
<1>0. disc \in Disc
  BY DEF IInv, Shape, DiscShape
<1> DEFINE Away == disc.at \notin {"put", "announce"} /\ disc'.at \notin {"put", "announce"}
<1>1. ASSUME NEW p \in Proc, SetPcb(p) PROVE UNCHANGED disc \/ Away
  <2>1. CASE disc.at = "asleep" /\ appPtr[num[p]] = p
    <3>1. disc' = [disc EXCEPT !.at = "handle", !.app = num[p]]
      BY <1>1, <2>1 DEF SetPcb
    <3>2. disc'.at = "handle"
      BY <1>0, <3>1 DEF Disc
    <3> QED
      BY <2>1, <3>2
  <2>2. CASE ~(disc.at = "asleep" /\ appPtr[num[p]] = p)
    BY <1>1, <2>2 DEF SetPcb
  <2> QED
    BY <2>1, <2>2
<1>2. ASSUME Scan PROVE UNCHANGED disc \/ Away
  <2>1. disc.at = "scan"
    BY <1>2 DEF Scan
  <2>2. UNCHANGED disc \/ disc' = [AtScan EXCEPT !.at = "fill"]
    BY <1>2 DEF Scan
  <2> QED
    BY <2>1, <2>2 DEF AtScan
<1>3. ASSUME FillWaitv PROVE Away
  <2>1. disc.at = "fill"
    BY <1>3 DEF FillWaitv
  <2>2. \/ disc' = AtScan \/ disc' = [AtScan EXCEPT !.at = "asleep"]
        \/ \E n \in App : disc' = [AtScan EXCEPT !.at = "read", !.app = n, !.back = "fill"]
    BY <1>3, FillIs
  <2>3. disc'.at \in {"scan", "asleep", "read"}
    <3>1. AtScan.at = "scan" /\ [AtScan EXCEPT !.at = "asleep"].at = "asleep"
      BY DEF AtScan
    <3>2. ASSUME NEW n \in App PROVE [AtScan EXCEPT !.at = "read", !.app = n, !.back = "fill"].at = "read"
      BY DEF AtScan
    <3> QED
      BY <2>2, <3>1, <3>2
  <2> QED
    BY <2>1, <2>3
<1>4. ASSUME HandleNewSockets PROVE Away
  <2>1. disc.at = "handle" /\ disc' = [AtScan EXCEPT !.at = "read", !.app = disc.app, !.back = "scan"]
    BY <1>4 DEF HandleNewSockets, Handle
  <2> QED
    BY <2>1 DEF AtScan
<1>5. ASSUME NEW r \in Disc, disc' = NextToMap(r) PROVE disc'.at \notin {"put", "announce"}
  BY <1>5, NextToMapIs
<1>6. ASSUME ReadHighest PROVE Away
  <2>1. /\ disc.at = "read"
        /\ disc' = NextToMap([disc EXCEPT !.idx = FirstNew(disc.app), !.upto = highest[appPtr[disc.app]]])
    BY <1>6 DEF ReadHighest
  <2>2. disc.app \in App /\ appPtr[disc.app] \in Proc
    BY <2>1, BusyWith
  <2>3. PICK a \in Nat, b \in Nat : a = FirstNew(disc.app) /\ b = highest[appPtr[disc.app]]
    BY <2>2, ConstantFacts DEF FirstNew, IInv, Shape, DiscShape, AppShape
  <2>4. PICK r \in Disc : r = [disc EXCEPT !.idx = a, !.upto = b]
    BY <1>0 DEF Disc
  <2> QED
    BY <1>5, <2>1, <2>3, <2>4
<1>7. ASSUME MapSocket PROVE Away \/ (MapSocket /\ \E d \in Id, p \in Proc : Mapped(d, p))
  <2>1. CASE Skipped
    <3>1. disc.at = "map" /\ disc' = NextToMap([disc EXCEPT !.idx = @ + 1])
      BY <1>7, <2>1 DEF MapSocket, Skipped
    <3>2. PICK a \in Nat : a = disc.idx + 1
      BY <1>0 DEF Disc
    <3>3. PICK r \in Disc : r = [disc EXCEPT !.idx = a]
      BY <1>0 DEF Disc
    <3> QED
      BY <1>5, <3>1, <3>2, <3>3
  <2> QED
    BY <1>7, <2>1, MapIs
<1>8. ASSUME Announce PROVE Announce /\ disc'.at \notin {"put", "announce"}
  <2>1. disc' = NextToMap([disc EXCEPT !.idx = @ + 1, !.level = Low])
    BY <1>8 DEF Announce
  <2>2. PICK a \in Nat : a = disc.idx + 1
    BY <1>0 DEF Disc
  <2>3. PICK r \in Disc : r = [disc EXCEPT !.idx = a, !.level = Low]
    BY <1>0, ConstantFacts DEF Disc
  <2> QED
    BY <1>5, <1>8, <2>1, <2>2, <2>3
<1>9. ASSUME Timeout PROVE Away
  <2>1. disc.at = "asleep" /\ disc'.at = "scan"
    BY <1>9 DEF Timeout, AtScan
  <2> QED
    BY <2>1
<1>10. UNCHANGED disc \/ DiscStep
  BY Frames DEF Framed
<1> HIDE DEF Away
<1>11. \/ UNCHANGED disc \/ PutNew
       \/ Announce /\ disc'.at \notin {"put", "announce"}
       \/ MapSocket /\ \E d \in Id, p \in Proc : Mapped(d, p)
       \/ Away
  BY <1>1, <1>2, <1>3, <1>4, <1>6, <1>7, <1>8, <1>9, <1>10 DEF DiscStep
<1> QED
  BY <1>11 DEF Away

\* A socket that was mapped stays mapped, and does not come to hand again.
LEMMA Stays ==
  ASSUME IInv, [Next]_vars, NEW d \in Id, region[d] # None
  PROVE  /\ region'[d] = region[d] /\ want'[SockOf(d)] = want[SockOf(d)]
         /\ SockOf(d)' = SockOf(d) /\ (d \in early' <=> d \in early)
         /\ InHand(d)' => InHand(d)
         /\ InHand(d) => InHand(d)' \/ PutNew
<1>0. DiscShape /\ RegionInv /\ disc \in Disc
  BY DEF IInv, Shape, DiscShape
<1>1. region'[d] = region[d] /\ (d \in early' <=> d \in early)
  <2>1. CASE UNCHANGED regVars
    BY <2>1 DEF regVars
  <2>2. ASSUME Scan PROVE UNCHANGED <<region, early>>
    BY <2>2 DEF Scan
  <2>3. ASSUME MapSocket PROVE region'[d] = region[d] /\ (d \in early' <=> d \in early)
    <3>1. CASE Skipped
      BY <3>1 DEF Skipped, regVars
    <3>2. ASSUME NEW e \in Id, NEW p \in Proc, Mapped(e, p)
          PROVE  region'[d] = region[d] /\ (d \in early' <=> d \in early)
      <4>1. /\ region[e] = None /\ region' = [region EXCEPT ![e] = p]
            /\ early' = IF Set(<<p, e[2]>>, {"done"}) THEN early ELSE early \union {e}
        BY <3>2 DEF Mapped
      <4>2. d # e
        BY <4>1
      <4>3. early' = early \/ early' = early \union {e}
        BY <4>1
      <4> QED
        BY <1>0, <4>1, <4>2, <4>3 DEF DiscShape
    <3> QED
      BY <2>3, <3>1, <3>2, MapIs
  <2> QED
    BY <2>1, <2>2, <2>3, Frames DEF Framed, RegStep
<1>2. SockOf(d)' = SockOf(d)
  BY <1>1 DEF SockOf
<1>3. want'[SockOf(d)] = want[SockOf(d)]
  <2>1. \A q \in Proc : Kept(q)
    BY AppKeeps, Frames DEF Framed
  <2>2. region[d] \in Proc /\ d[2] \in Idx /\ d[2] <= highest[region[d]]
    BY <1>0, IdFacts, SockOfIs DEF DiscShape, RegionInv
  <2> QED
    BY <2>1, <2>2 DEF Kept, SockOf
<1>4. (InHand(d)' => InHand(d)) /\ (InHand(d) => InHand(d)' \/ PutNew)
  <2>1. CASE UNCHANGED disc
    BY <2>1 DEF InHand
  <2>2. CASE PutNew
    BY <2>2, PutNewIs DEF InHand
  <2>3. CASE Announce /\ disc'.at \notin {"put", "announce"}
    <3>1. disc.at = "announce"
      BY <2>3 DEF Announce
    <3> QED
      BY <2>3, <3>1 DEF InHand
  <2>4. ASSUME MapSocket, NEW e \in Id, NEW p \in Proc, Mapped(e, p)
        PROVE  (InHand(d)' => InHand(d)) /\ (InHand(d) => InHand(d)' \/ PutNew)
    <3>1. e = <<disc.app, disc.idx>> /\ region[e] = None /\ disc' = [disc EXCEPT !.at = "put"]
      BY <2>4 DEF Mapped
    <3>2. disc.at = "map"
      BY <2>4 DEF MapSocket
    <3>3. disc'.app = disc.app /\ disc'.idx = disc.idx
      BY <1>0, <3>1 DEF Disc
    <3>4. d # e
      BY <3>1
    <3> QED
      BY <3>1, <3>2, <3>3, <3>4 DEF InHand
  <2>5. CASE disc.at \notin {"put", "announce"} /\ disc'.at \notin {"put", "announce"}
    BY <2>5 DEF InHand
  <2> QED
    BY <2>1, <2>2, <2>3, <2>4, <2>5, HandMoves
<1> QED
  BY <1>1, <1>2, <1>3, <1>4

\* A socket in a queue or a list keeps its level.
LEMMA StaysPlaced ==
  ASSUME IInv, [Next]_vars, NEW d \in Id, NEW l \in Level, Placed(d, l)
  PROVE  Placed(d, l)'
<1>1. region[d] # None /\ ~InHand(d) /\ (d \notin early => want[SockOf(d)].prio = l)
  BY DEF Placed
<1>2. /\ region'[d] = region[d] /\ want'[SockOf(d)] = want[SockOf(d)]
      /\ SockOf(d)' = SockOf(d) /\ (d \in early' <=> d \in early) /\ (InHand(d)' => InHand(d))
  BY <1>1, Stays
<1>3. want'[SockOf(d)'] = want[SockOf(d)]
  BY <1>2
<1> QED
  BY <1>1, <1>2, <1>3 DEF Placed

\* What is in a queue or a list after a step was there before, or is new there.
LEMMA CameFrom ==
  ASSUME IInv, [Next]_vars, NEW l \in Level
  PROVE  /\ \A k \in 1..Len(queue'[l]) :
              \/ \E j \in 1..Len(queue[l]) : queue'[l][k] = queue[l][j]
              \/ PutNew /\ InHand(queue'[l][k]) /\ l = LevelOf(SockOf(queue'[l][k])) /\ queue'[l][k] \in Id
         /\ \A k \in 1..Len(list'[l]) :
              \/ \E j \in 1..Len(list[l]) : list'[l][k] = list[l][j]
              \/ \E j \in 1..Len(queue[l]) : list'[l][k] = queue[l][j]
<1>1. Len(queue[l]) \in Nat /\ Len(list[l]) \in Nat
  BY Holds DEF IInv, Shape
<1> DEFINE OldQ(k) == \E j \in 1..Len(queue[l]) : queue'[l][k] = queue[l][j]
           NewQ(k) == PutNew /\ InHand(queue'[l][k]) /\ l = LevelOf(SockOf(queue'[l][k])) /\ queue'[l][k] \in Id
           OldL(k) == \E j \in 1..Len(list[l]) : list'[l][k] = list[l][j]
           FromQ(k) == \E j \in 1..Len(queue[l]) : list'[l][k] = queue[l][j]
           Good == /\ \A k \in 1..Len(queue'[l]) : OldQ(k) \/ NewQ(k)
                   /\ \A k \in 1..Len(list'[l]) : OldL(k) \/ FromQ(k)
<1>2. ASSUME queue'[l] = queue[l] PROVE \A k \in 1..Len(queue'[l]) : OldQ(k)
  BY <1>2
<1>3. ASSUME list'[l] = list[l] PROVE \A k \in 1..Len(list'[l]) : OldL(k)
  BY <1>3
<1>4. CASE UNCHANGED <<queue, list>>
  BY <1>2, <1>3, <1>4
<1>5. ASSUME NEW d \in Id, NEW m \in Level, Put(d, m), PutNew, InHand(d), m = LevelOf(SockOf(d))
      PROVE  Good
  <2>1. list'[l] = list[l]
    BY <1>5 DEF Put
  <2>2. CASE m # l
    <3>1. queue'[l] = queue[l]
      BY <1>5, <2>2 DEF Put
    <3> QED
      BY <1>2, <1>3, <2>1, <3>1
  <2>3. CASE m = l
    <3>1. /\ Len(queue'[l]) = Len(queue[l]) + 1 /\ queue'[l][Len(queue[l]) + 1] = d
          /\ \A k \in 1..Len(queue[l]) : queue'[l][k] = queue[l][k]
      BY <1>5, <2>3 DEF Put
    <3>2. ASSUME NEW k \in 1..Len(queue'[l]) PROVE OldQ(k) \/ NewQ(k)
      <4>1. CASE k = Len(queue[l]) + 1
        BY <1>5, <2>3, <3>1, <4>1
      <4>2. CASE k # Len(queue[l]) + 1
        <5>1. k \in 1..Len(queue[l])
          BY <1>1, <3>1, <4>2
        <5> QED
          BY <3>1, <5>1
      <4> QED
        BY <4>1, <4>2
    <3> QED
      BY <1>3, <2>1, <3>2
  <2> QED
    BY <2>2, <2>3
<1>6. ASSUME NEW m \in Level, Joined(m) PROVE Good
  <2>1. CASE m # l
    <3>1. queue'[l] = queue[l] /\ list'[l] = list[l]
      BY <1>6, <2>1 DEF Joined
    <3> QED
      BY <1>2, <1>3, <3>1
  <2>2. CASE m = l
    <3>1. /\ Len(queue[l]) >= 1 /\ Len(queue'[l]) = Len(queue[l]) - 1
          /\ \A k \in 1..(Len(queue[l]) - 1) : queue'[l][k] = queue[l][k + 1]
          /\ Len(list'[l]) = Len(list[l]) + 1 /\ list'[l][1] = queue[l][1]
          /\ \A k \in 1..Len(list[l]) : list'[l][k + 1] = list[l][k]
      BY <1>6, <2>2 DEF Joined
    <3>2. ASSUME NEW k \in 1..Len(queue'[l]) PROVE OldQ(k)
      <4>1. k \in 1..(Len(queue[l]) - 1) /\ k + 1 \in 1..Len(queue[l])
        BY <1>1, <3>1
      <4> QED
        BY <3>1, <4>1
    <3>3. ASSUME NEW k \in 1..Len(list'[l]) PROVE OldL(k) \/ FromQ(k)
      <4>1. CASE k = 1
        <5>1. 1 \in 1..Len(queue[l])
          BY <1>1, <3>1
        <5> QED
          BY <3>1, <4>1, <5>1
      <4>2. CASE k # 1
        <5>1. PICK j \in 1..Len(list[l]) : k = j + 1
          <6>1. k \in 1..(Len(list[l]) + 1)
            BY <3>1
          <6>2. k - 1 \in 1..Len(list[l]) /\ k = (k - 1) + 1
            BY <1>1, <4>2, <6>1
          <6> QED
            BY <6>2
        <5> QED
          BY <3>1, <5>1
      <4> QED
        BY <4>1, <4>2
    <3> QED
      BY <3>2, <3>3
  <2> QED
    BY <2>1, <2>2
<1>7. ASSUME NEW m \in Level, NEW i \in 1..Len(list[m]), Left(m, i) PROVE Good
  <2>1. queue'[l] = queue[l]
    BY <1>7 DEF Left
  <2>2. CASE m # l
    <3>1. list'[l] = list[l]
      BY <1>7, <2>2 DEF Left
    <3> QED
      BY <1>2, <1>3, <2>1, <3>1
  <2>3. CASE m = l
    <3>1. /\ Len(list'[l]) = Len(list[l]) - 1
          /\ \A k \in 1..(Len(list[l]) - 1) : list'[l][k] = IF k < i THEN list[l][k] ELSE list[l][k + 1]
      BY <1>7, <2>3 DEF Left
    <3>2. ASSUME NEW k \in 1..Len(list'[l]) PROVE OldL(k)
      <4>1. k \in 1..(Len(list[l]) - 1) /\ k \in 1..Len(list[l]) /\ k + 1 \in 1..Len(list[l])
        BY <1>1, <3>1
      <4>2. list'[l][k] = list[l][k] \/ list'[l][k] = list[l][k + 1]
        BY <3>1, <4>1
      <4> QED
        BY <4>1, <4>2
    <3> QED
      BY <1>2, <2>1, <3>2
  <2> QED
    BY <2>2, <2>3
<1> HIDE DEF Good
<1>8. Good
  <2>1. UNCHANGED <<queue, list>> => Good
    BY <1>4 DEF Good
  <2> QED
    BY <1>5, <1>6, <1>7, <2>1, Moves
<1> QED
  BY <1>8 DEF Good

(***************************************************************************)
(* The walk over the list.                                                 *)
(***************************************************************************)

\* The beginning of a sequence s is overwritten by v, of length n.
Overwritten(w, v, s, n) ==
  /\ w = v \o SubSeq(s, n + 1, Len(s)) /\ n <= Len(w) /\ \A k \in 1..n : w[k] = v[k]
  /\ \A k \in 1..Len(w) : (k \in 1..n) \/ \E j \in 1..Len(s) : w[k] = s[j]

\* What stands in the sequence then is v, followed by elements of s.
LEMMA OverwriteIs ==
  ASSUME NEW S, NEW v \in Seq(S), NEW s \in Seq(S), NEW n \in Nat, n = Len(v)
  PROVE  \E w \in Seq(S) : Overwritten(w, v, s, n)
<1>1. PICK m \in Nat : m = Len(s) /\ \A k \in 1..m : s[k] \in S
  BY LenProperties, ElementOfSeq
<1>2. PICK b \in Nat : b = n + 1
  OBVIOUS
<1>3. PICK x : x = SubSeq(s, b, m)
  OBVIOUS
<1>4. /\ x \in Seq(S) /\ Len(x) = IF b <= m THEN m - b + 1 ELSE 0
      /\ \A k \in 1..(m - b + 1) : x[k] = s[b + k - 1]
  <2>1. \A k \in b..m : s[k] \in S
    BY <1>1, <1>2
  <2> QED
    BY <1>3, <2>1, SubSeqProperties
<1>5. PICK c \in Nat : c = Len(x)
  BY <1>4, LenProperties
<1>6. ASSUME NEW k \in 1..c PROVE \E j \in 1..m : x[k] = s[j]
  <2>1. k \in 1..(m - b + 1) /\ b + k - 1 \in 1..m
    BY <1>2, <1>4, <1>5
  <2> QED
    BY <1>4, <2>1
<1>7. PICK w : w = v \o x
  OBVIOUS
<1>8. /\ w \in Seq(S) /\ Len(w) = n + c
      /\ \A k \in 1..(n + c) : w[k] = IF k <= n THEN v[k] ELSE x[k - n]
  <2>1. /\ v \o x \in Seq(S) /\ Len(v \o x) = Len(v) + Len(x)
        /\ \A k \in 1..(Len(v) + Len(x)) : (v \o x)[k] = IF k <= Len(v) THEN v[k] ELSE x[k - Len(v)]
    BY <1>4, ConcatProperties
  <2> QED
    BY <1>5, <1>7, <2>1
<1>9. \A k \in 1..n : w[k] = v[k]
  BY <1>8
<1>10. ASSUME NEW k \in 1..Len(w) PROVE (k \in 1..n) \/ \E j \in 1..Len(s) : w[k] = s[j]
  <2>1. CASE k <= n
    BY <2>1
  <2>2. CASE ~(k <= n)
    <3>1. k \in 1..(n + c) /\ k - n \in 1..c
      BY <1>8, <2>2
    <3>2. w[k] = x[k - n]
      BY <1>8, <2>2, <3>1
    <3> QED
      BY <1>1, <1>6, <3>1, <3>2
  <2> QED
    BY <2>1, <2>2
<1>11. w = v \o SubSeq(s, n + 1, Len(s)) /\ n <= Len(w)
  BY <1>1, <1>2, <1>3, <1>7, <1>8
<1> QED
  BY <1>8, <1>9, <1>10, <1>11 DEF Overwritten

\* The walk meets freed nodes,
Strayed(l) ==
  /\ list[l] = <<>> /\ round[l] > 0
  /\ thread' = [thread EXCEPT ![l].at = "lost"] /\ UNCHANGED <<round, nr, squeue>>

\* or it visits v: open sockets of the list, and all of them.
Walked(l, v, n) ==
  /\ n = Len(v) /\ \A k \in 1..n : \E j \in 1..Len(list[l]) : v[k] = list[l][j]
  /\ \A j \in 1..Len(list[l]) : list[l][j] \in open => \E k \in 1..n : v[k] = list[l][j]
  /\ round' = [round EXCEPT ![l] = Len(list[l])]
  /\ squeue' = [s \in Sock |-> IF s \in {SockOf(v[k]) : k \in 1..n} THEN <<>> ELSE squeue[s]]
  /\ nr' = [nr EXCEPT ![l] = v \o SubSeq(@, n + 1, Len(@))]
  /\ thread' = [thread EXCEPT ![l] =
       [@ EXCEPT !.at = IF n < Len(list[l]) THEN "remove" ELSE "wait", !.count = n]]

\* A walk does one or the other.
LEMMA WalkIs ==
  ASSUME IInv, NEW l \in Level, Walk(l)
  PROVE  At(l, "drain") /\ (Strayed(l) \/ \E v \in Seq(Id), n \in Nat : Walked(l, v, n))
<1>0. list[l] \in Seq(Id) /\ Len(list[l]) \in Nat /\ round[l] \in Nat
  BY Holds DEF IInv, Shape, ThreadShape
<1>1. At(l, "drain")
  BY DEF Walk
<1>2. CASE ListFirst(l) > Len(list[l])
  <2>1. thread' = [thread EXCEPT ![l].at = "lost"] /\ UNCHANGED <<round, nr, squeue>>
    BY <1>2 DEF Walk
  <2>2. list[l] = <<>>
    BY <1>0, <1>2 DEF ListFirst
  <2>3. round[l] > 0
    <3>1. Len(list[l]) = 0
      BY <2>2
    <3> QED
      BY <1>0, <1>2, <2>2, <3>1 DEF ListFirst
  <2> QED
    BY <1>1, <2>1, <2>2, <2>3 DEF Strayed
<1>3. CASE ~(ListFirst(l) > Len(list[l]))
  <2>1. ListFirst(l) = 0
    <3>1. CASE list[l] = <<>>
      <4>1. Len(list[l]) = 0
        BY <3>1
      <4> QED
        BY <1>0, <1>3, <3>1, <4>1 DEF ListFirst
    <3> QED
      BY <3>1 DEF ListFirst
  <2>2. SubSeq(list[l], ListFirst(l) + 1, Len(list[l])) = list[l]
    <3>1. ListFirst(l) + 1 = 1
      BY <2>1
    <3> QED
      BY <1>0, <3>1, SubSeqFull
  <2>3. PICK v : v = OpenIn(list[l])
    OBVIOUS
  <2>4. /\ v \in Seq(Id)
        /\ \A k \in 1..Len(v) : \E j \in 1..Len(list[l]) : v[k] = list[l][j]
        /\ \A j \in 1..Len(list[l]) : list[l][j] \in open => \E k \in 1..Len(v) : v[k] = list[l][j]
    BY <1>0, <2>3, OpenInIs
  <2>5. PICK n \in Nat : n = Len(v)
    BY <2>4, LenProperties
  <2>6. /\ round' = [round EXCEPT ![l] = Len(list[l])]
        /\ squeue' = [s \in Sock |-> IF s \in {SockOf(v[k]) : k \in 1..n} THEN <<>> ELSE squeue[s]]
        /\ nr' = [nr EXCEPT ![l] = v \o SubSeq(@, n + 1, Len(@))]
        /\ thread' = [thread EXCEPT ![l] =
             [@ EXCEPT !.at = IF n < Len(list[l]) THEN "remove" ELSE "wait", !.count = n]]
    <3> DEFINE X == SubSeq(list[l], ListFirst(l) + 1, Len(list[l]))
               V == OpenIn(X)
    <3>1. /\ round' = [round EXCEPT ![l] = Len(list[l])]
          /\ Serve({SockOf(V[k]) : k \in 1..Len(V)})
          /\ nr' = [nr EXCEPT ![l] = V \o SubSeq(@, Len(V) + 1, Len(@))]
          /\ thread' = [thread EXCEPT ![l] =
               [@ EXCEPT !.at = IF Len(V) < Len(X) THEN "remove" ELSE "wait", !.count = Len(V)]]
      BY <1>3, Zenon DEF Walk
    <3>2. V = v /\ X = list[l]
      BY <2>2, <2>3
    <3> HIDE DEF X, V
    <3> QED
      BY <2>5, <3>1, <3>2, Zenon DEF Serve
  <2>7. Walked(l, v, n)
    BY <2>4, <2>5, <2>6 DEF Walked
  <2> QED
    BY <1>1, <2>4, <2>7
<1> QED
  BY <1>2, <1>3

\* What the walk leaves in socket_from_futex_nr.
LEMMA WalkedNr ==
  ASSUME IInv, NEW l \in Level, NEW v \in Seq(Id), NEW n \in Nat, Walked(l, v, n)
  PROVE  /\ nr' \in [Level -> Seq(Id)] /\ n <= Len(nr'[l]) /\ \A k \in 1..n : nr'[l][k] = v[k]
         /\ \A k \in 1..Len(nr'[l]) : \/ \E j \in 1..Len(list[l]) : nr'[l][k] = list[l][j]
                                      \/ \E j \in 1..Len(nr[l]) : nr'[l][k] = nr[l][j]
         /\ \A m \in Level : m # l => nr'[m] = nr[m]
<1>1. /\ n = Len(v) /\ (\A k \in 1..n : \E j \in 1..Len(list[l]) : v[k] = list[l][j])
      /\ nr' = [nr EXCEPT ![l] = v \o SubSeq(@, n + 1, Len(@))]
  BY DEF Walked
<1>2. nr \in [Level -> Seq(Id)] /\ nr[l] \in Seq(Id)
  BY DEF IInv, Shape, ThreadShape
<1>3. PICK w \in Seq(Id) : Overwritten(w, v, nr[l], n)
  BY <1>1, <1>2, OverwriteIs
<1>4. nr' = [nr EXCEPT ![l] = w]
  BY <1>1, <1>3 DEF Overwritten
<1>5. nr' \in [Level -> Seq(Id)] /\ nr'[l] = w /\ \A m \in Level : m # l => nr'[m] = nr[m]
  BY <1>2, <1>4
<1>6. ASSUME NEW k \in 1..Len(w)
      PROVE  (\E j \in 1..Len(list[l]) : w[k] = list[l][j]) \/ \E j \in 1..Len(nr[l]) : w[k] = nr[l][j]
  <2>1. (k \in 1..n) \/ \E j \in 1..Len(nr[l]) : w[k] = nr[l][j]
    BY <1>3 DEF Overwritten
  <2>2. ASSUME k \in 1..n PROVE \E j \in 1..Len(list[l]) : w[k] = list[l][j]
    <3>1. PICK j \in 1..Len(list[l]) : v[k] = list[l][j]
      BY <1>1, <2>2
    <3>2. w[k] = v[k]
      BY <1>3, <2>2 DEF Overwritten
    <3> QED
      BY <3>1, <3>2
  <2> QED
    BY <2>1, <2>2
<1>7. n <= Len(w) /\ \A k \in 1..n : w[k] = v[k]
  BY <1>3 DEF Overwritten
<1> QED
  BY <1>5, <1>6, <1>7

\* What is in socket_from_futex_nr was there or in the list.
LEMMA NrCameFrom ==
  ASSUME IInv, [Next]_vars
  PROVE  /\ nr' \in [Level -> Seq(Id)]
         /\ \A l \in Level : \A k \in 1..Len(nr'[l]) :
              \/ \E j \in 1..Len(list[l]) : nr'[l][k] = list[l][j]
              \/ \E j \in 1..Len(nr[l]) : nr'[l][k] = nr[l][j]
<1>0. nr \in [Level -> Seq(Id)]
  BY DEF IInv, Shape, ThreadShape
<1> DEFINE Good(l) == \A k \in 1..Len(nr'[l]) : \/ \E j \in 1..Len(list[l]) : nr'[l][k] = list[l][j]
                                                \/ \E j \in 1..Len(nr[l]) : nr'[l][k] = nr[l][j]
<1>1. ASSUME NEW l \in Level, nr'[l] = nr[l] PROVE Good(l)
  BY <1>1
<1>2. ASSUME UNCHANGED nr PROVE nr' \in [Level -> Seq(Id)] /\ \A l \in Level : Good(l)
  <2>1. \A l \in Level : nr'[l] = nr[l]
    BY <1>2
  <2> QED
    BY <1>0, <1>1, <1>2, <2>1
<1>3. ASSUME NEW l \in Level, Walk(l) PROVE nr' \in [Level -> Seq(Id)] /\ \A m \in Level : Good(m)
  <2>1. CASE Strayed(l)
    BY <1>2, <2>1 DEF Strayed
  <2>2. ASSUME NEW v \in Seq(Id), NEW n \in Nat, Walked(l, v, n)
        PROVE  nr' \in [Level -> Seq(Id)] /\ \A m \in Level : Good(m)
    <3>1. nr' \in [Level -> Seq(Id)] /\ Good(l) /\ \A m \in Level : m # l => nr'[m] = nr[m]
      BY <2>2, WalkedNr
    <3> HIDE DEF Good
    <3> QED
      BY <1>1, <3>1
  <2> QED
    BY <1>3, <2>1, <2>2, WalkIs
<1>4. ASSUME NEW l \in Level, Woken(l) PROVE nr' \in [Level -> Seq(Id)] /\ \A m \in Level : Good(m)
  <2>1. nr' = [nr EXCEPT ![l] = <<>>]
    BY <1>4 DEF Woken
  <2>2. <<>> \in Seq(Id) /\ Len(<<>>) = 0
    OBVIOUS
  <2>3. nr' \in [Level -> Seq(Id)] /\ nr'[l] = <<>> /\ \A m \in Level : m # l => nr'[m] = nr[m]
    BY <1>0, <2>1, <2>2
  <2>4. Good(l)
    BY <2>2, <2>3
  <2> HIDE DEF Good
  <2> QED
    BY <1>1, <2>3, <2>4
<1> HIDE DEF Good
<1>5. nr' \in [Level -> Seq(Id)] /\ \A l \in Level : Good(l)
  BY <1>2, <1>3, <1>4, Frames DEF Framed, NrStep
<1> QED
  BY <1>5 DEF Good

\* Every socket is where it belongs.
LEMMA PlaceStep ==
  ASSUME IInv, [Next]_vars
  PROVE  PlaceInv'
<1>0. ThreadShape /\ PlaceInv /\ LateInv
  BY DEF IInv, Shape
<1> DEFINE After(d, l) == /\ region'[d] # None /\ ~(disc'.at = "put" /\ d = <<disc'.app, disc'.idx>>)
                          /\ d \notin early' => want'[<<region'[d], d[2]>>].prio = l
<1>1. ASSUME NEW l \in Level, NEW k \in 1..Len(queue'[l]) PROVE After(queue'[l][k], l)
  <2>1. CASE \E j \in 1..Len(queue[l]) : queue'[l][k] = queue[l][j]
    <3>1. PICK j \in 1..Len(queue[l]) : queue'[l][k] = queue[l][j]
      BY <2>1
    <3>2. PICK d \in Id : d = queue[l][j] /\ Placed(d, l)
      BY <1>0, Holds DEF PlaceInv
    <3>3. Placed(d, l)' /\ d = queue'[l][k]
      BY <3>1, <3>2, StaysPlaced
    <3> QED
      BY <3>3 DEF Placed, InHand, SockOf
  <2>2. CASE PutNew /\ InHand(queue'[l][k]) /\ l = LevelOf(SockOf(queue'[l][k])) /\ queue'[l][k] \in Id
    <3>1. PICK d \in Id : d = queue'[l][k] /\ InHand(d) /\ l = LevelOf(SockOf(d))
      BY <2>2
    <3>2. region[d] # None /\ disc'.at = "announce"
      BY <2>2, <3>1, PutNewIs DEF InHand
    <3>3. /\ region'[d] = region[d] /\ want'[SockOf(d)] = want[SockOf(d)]
          /\ SockOf(d)' = SockOf(d) /\ (d \in early' <=> d \in early)
      BY <3>2, Stays
    <3>4. d \notin early => want[SockOf(d)].prio = l
      BY <1>0, <3>1, <3>2 DEF LateInv, LevelOf, Set
    <3>5. want'[SockOf(d)'].prio = want[SockOf(d)].prio
      BY <3>3
    <3>6. Placed(d, l)'
      BY <3>2, <3>3, <3>4, <3>5 DEF Placed, InHand
    <3> QED
      BY <3>1, <3>6 DEF Placed, InHand, SockOf
  <2> QED
    BY <2>1, <2>2, CameFrom
<1>2. ASSUME NEW l \in Level, NEW k \in 1..Len(list'[l]) PROVE After(list'[l][k], l)
  <2>1. PICK d \in Id : d = list'[l][k] /\ Placed(d, l)
    <3>1. ASSUME NEW j \in 1..Len(list[l]) PROVE list[l][j] \in Id /\ Placed(list[l][j], l)
      BY <1>0, Holds DEF PlaceInv
    <3>2. ASSUME NEW j \in 1..Len(queue[l]) PROVE queue[l][j] \in Id /\ Placed(queue[l][j], l)
      BY <1>0, Holds DEF PlaceInv
    <3> QED
      BY <3>1, <3>2, CameFrom
  <2>2. Placed(d, l)'
    BY <2>1, StaysPlaced
  <2> QED
    BY <2>1, <2>2 DEF Placed, InHand, SockOf
<1>3. ASSUME NEW l \in Level, NEW k \in 1..Len(nr'[l]) PROVE region'[nr'[l][k]] # None
  <2>1. PICK d \in Id : d = nr'[l][k] /\ region[d] # None
    <3>1. ASSUME NEW j \in 1..Len(list[l]) PROVE list[l][j] \in Id /\ region[list[l][j]] # None
      BY <1>0, Holds DEF PlaceInv, Placed
    <3>2. ASSUME NEW j \in 1..Len(nr[l]) PROVE nr[l][j] \in Id /\ region[nr[l][j]] # None
      BY <1>0, Holds DEF PlaceInv
    <3> QED
      BY <3>1, <3>2, NrCameFrom
  <2> QED
    BY <2>1, Stays
<1> QED
  BY <1>1, <1>2, <1>3 DEF PlaceInv, Placed, InHand, SockOf

\* No socket comes to be in two places.
LEMMA UniqueStep ==
  ASSUME IInv, [Next]_vars
  PROVE  UniqueInv'
<1>0. UniqueInv /\ PlaceInv /\ ThreadShape /\ \A l \in Level : Len(queue[l]) \in Nat /\ Len(list[l]) \in Nat
  BY Holds DEF IInv, Shape
<1>1. OneEach(queue) /\ OneEach(list) /\ NoneShared(queue, list)
  BY <1>0 DEF UniqueInv
<1>2. OneEach(queue') /\ OneEach(list') /\ NoneShared(queue', list') => UniqueInv'
  BY DEF UniqueInv
<1>3. CASE UNCHANGED <<queue, list>>
  BY <1>1, <1>2, <1>3
<1>4. ASSUME NEW d \in Id, NEW m \in Level, Put(d, m), InHand(d) PROVE UniqueInv'
  <2>1. UNCHANGED list
    BY <1>4 DEF Put
  <2>2. ASSUME NEW l \in Level, NEW i \in 1..Len(queue'[l])
        PROVE  \/ i \in 1..Len(queue[l]) /\ queue'[l][i] = queue[l][i]
               \/ l = m /\ i = Len(queue[m]) + 1 /\ queue'[l][i] = d
    <3>1. CASE l # m
      BY <1>4, <3>1 DEF Put
    <3>2. CASE l = m
      <4>1. /\ Len(queue'[l]) = Len(queue[l]) + 1 /\ queue'[l][Len(queue[l]) + 1] = d
            /\ \A k \in 1..Len(queue[l]) : queue'[l][k] = queue[l][k]
        BY <1>4, <3>2 DEF Put
      <4>2. CASE i = Len(queue[l]) + 1
        BY <3>2, <4>1, <4>2
      <4>3. CASE i # Len(queue[l]) + 1
        <5>1. i \in 1..Len(queue[l])
          BY <1>0, <4>1, <4>3
        <5> QED
          BY <4>1, <5>1
      <4> QED
        BY <4>2, <4>3
    <3> QED
      BY <3>1, <3>2
  <2>3. ASSUME NEW l \in Level
        PROVE  (\A k \in 1..Len(queue[l]) : queue[l][k] # d) /\ (\A k \in 1..Len(list[l]) : list[l][k] # d)
    BY <1>0, <1>4 DEF PlaceInv, Placed
  <2>4. ASSUME NEW l \in Level, NEW n \in Level, NEW i \in 1..Len(queue'[l]), NEW j \in 1..Len(queue'[n]),
               queue'[l][i] = queue'[n][j]
        PROVE  l = n /\ i = j
    <3>1. CASE /\ i \in 1..Len(queue[l]) /\ queue'[l][i] = queue[l][i]
               /\ j \in 1..Len(queue[n]) /\ queue'[n][j] = queue[n][j]
      <4>1. i \in 1..Len(queue[l]) /\ j \in 1..Len(queue[n]) /\ queue[l][i] = queue[n][j]
        BY <2>4, <3>1
      <4> QED
        BY <1>1, <4>1 DEF OneEach
    <3>2. CASE queue'[l][i] = d /\ i = Len(queue[m]) + 1 /\ l = m
      <4>1. ~(j \in 1..Len(queue[n]) /\ queue'[n][j] = queue[n][j])
        BY <2>3, <2>4, <3>2
      <4>2. n = m /\ j = Len(queue[m]) + 1
        BY <2>2, <4>1
      <4> QED
        BY <3>2, <4>2
    <3>3. CASE queue'[n][j] = d /\ j = Len(queue[m]) + 1 /\ n = m
      <4>1. ~(i \in 1..Len(queue[l]) /\ queue'[l][i] = queue[l][i])
        BY <2>3, <2>4, <3>3
      <4>2. l = m /\ i = Len(queue[m]) + 1
        BY <2>2, <4>1
      <4> QED
        BY <3>3, <4>2
    <3> QED
      BY <2>2, <3>1, <3>2, <3>3
  <2>5. ASSUME NEW l \in Level, NEW n \in Level, NEW i \in 1..Len(queue'[l]), NEW j \in 1..Len(list[n])
        PROVE  queue'[l][i] # list[n][j]
    <3>1. CASE i \in 1..Len(queue[l]) /\ queue'[l][i] = queue[l][i]
      BY <1>1, <3>1 DEF NoneShared
    <3>2. CASE queue'[l][i] = d
      BY <2>3, <3>2
    <3> QED
      BY <2>2, <3>1, <3>2
  <2>6. OneEach(queue')
    BY <2>4 DEF OneEach
  <2>7. NoneShared(queue', list')
    BY <2>1, <2>5 DEF NoneShared
  <2> QED
    BY <1>1, <1>2, <2>1, <2>6, <2>7
<1>5. ASSUME NEW m \in Level, Joined(m) PROVE UniqueInv'
  <2>0. 1 \in 1..Len(queue[m]) /\ list'[m][1] = queue[m][1]
    BY <1>0, <1>5 DEF Joined
  <2>1. ASSUME NEW l \in Level, NEW i \in 1..Len(queue'[l])
        PROVE  \E k \in 1..Len(queue[l]) : /\ queue'[l][i] = queue[l][k]
                                           /\ (l = m => k = i + 1) /\ (l # m => k = i)
    <3>1. CASE l # m
      BY <1>5, <3>1 DEF Joined
    <3>2. CASE l = m
      <4>1. /\ Len(queue'[l]) = Len(queue[l]) - 1
            /\ \A k \in 1..(Len(queue[l]) - 1) : queue'[l][k] = queue[l][k + 1]
        BY <1>5, <3>2 DEF Joined
      <4>2. i \in 1..(Len(queue[l]) - 1) /\ i + 1 \in 1..Len(queue[l])
        BY <1>0, <4>1
      <4> QED
        BY <3>2, <4>1, <4>2
    <3> QED
      BY <3>1, <3>2
  <2>2. ASSUME NEW l \in Level, NEW i \in 1..Len(list'[l])
        PROVE  \/ \E k \in 1..Len(list[l]) : /\ list'[l][i] = list[l][k]
                                             /\ (l = m => i = k + 1) /\ (l # m => i = k)
               \/ l = m /\ i = 1
    <3>1. CASE l # m
      BY <1>5, <3>1 DEF Joined
    <3>2. CASE l = m
      <4>1. /\ Len(list'[l]) = Len(list[l]) + 1
            /\ \A k \in 1..Len(list[l]) : list'[l][k + 1] = list[l][k]
        BY <1>5, <3>2 DEF Joined
      <4>2. CASE i # 1
        <5>1. i - 1 \in 1..Len(list[l]) /\ i = (i - 1) + 1
          BY <1>0, <4>1, <4>2
        <5>2. PICK k \in 1..Len(list[l]) : i = k + 1
          BY <5>1
        <5> QED
          BY <3>2, <4>1, <5>2
      <4> QED
        BY <3>2, <4>2
    <3> QED
      BY <3>1, <3>2
  <2>3. ASSUME NEW l \in Level, NEW n \in Level, NEW i \in 1..Len(queue'[l]), NEW j \in 1..Len(queue'[n]),
               queue'[l][i] = queue'[n][j]
        PROVE  l = n /\ i = j
    <3>1. PICK x \in 1..Len(queue[l]) : queue'[l][i] = queue[l][x] /\ (l = m => x = i + 1) /\ (l # m => x = i)
      BY <2>1
    <3>2. PICK y \in 1..Len(queue[n]) : queue'[n][j] = queue[n][y] /\ (n = m => y = j + 1) /\ (n # m => y = j)
      BY <2>1
    <3>3. queue[l][x] = queue[n][y]
      BY <2>3, <3>1, <3>2
    <3>4. l = n /\ x = y
      BY <1>1, <3>3 DEF OneEach
    <3> QED
      BY <3>1, <3>2, <3>4
  <2>4. ASSUME NEW l \in Level, NEW n \in Level, NEW i \in 1..Len(list'[l]), NEW j \in 1..Len(list'[n]),
               list'[l][i] = list'[n][j]
        PROVE  l = n /\ i = j
    <3>1. CASE l = m /\ i = 1 /\ ~(n = m /\ j = 1)
      <4>1. PICK y \in 1..Len(list[n]) : list'[n][j] = list[n][y]
        BY <2>2, <3>1
      <4>2. queue[m][1] = list[n][y]
        BY <2>0, <2>4, <3>1, <4>1
      <4> QED
        BY <1>1, <2>0, <4>2 DEF NoneShared
    <3>2. CASE n = m /\ j = 1 /\ ~(l = m /\ i = 1)
      <4>1. PICK x \in 1..Len(list[l]) : list'[l][i] = list[l][x]
        BY <2>2, <3>2
      <4>2. queue[m][1] = list[l][x]
        BY <2>0, <2>4, <3>2, <4>1
      <4> QED
        BY <1>1, <2>0, <4>2 DEF NoneShared
    <3>3. CASE ~(l = m /\ i = 1) /\ ~(n = m /\ j = 1)
      <4>1. PICK x \in 1..Len(list[l]) : list'[l][i] = list[l][x] /\ (l = m => i = x + 1) /\ (l # m => i = x)
        BY <2>2, <3>3
      <4>2. PICK y \in 1..Len(list[n]) : list'[n][j] = list[n][y] /\ (n = m => j = y + 1) /\ (n # m => j = y)
        BY <2>2, <3>3
      <4>3. list[l][x] = list[n][y]
        BY <2>4, <4>1, <4>2
      <4>4. l = n /\ x = y
        BY <1>1, <4>3 DEF OneEach
      <4> QED
        BY <4>1, <4>2, <4>4
    <3> QED
      BY <3>1, <3>2, <3>3
  <2>5. ASSUME NEW l \in Level, NEW n \in Level, NEW i \in 1..Len(queue'[l]), NEW j \in 1..Len(list'[n]),
               queue'[l][i] = list'[n][j]
        PROVE  FALSE
    <3>1. PICK x \in 1..Len(queue[l]) : queue'[l][i] = queue[l][x] /\ (l = m => x = i + 1)
      BY <2>1
    <3>2. CASE n = m /\ j = 1
      <4>1. queue[l][x] = queue[m][1]
        BY <2>0, <2>5, <3>1, <3>2
      <4>2. l = m /\ x = 1
        BY <1>1, <2>0, <4>1 DEF OneEach
      <4> QED
        BY <3>1, <4>2
    <3>3. CASE ~(n = m /\ j = 1)
      <4>1. PICK y \in 1..Len(list[n]) : list'[n][j] = list[n][y]
        BY <2>2, <3>3
      <4>2. queue[l][x] = list[n][y]
        BY <2>5, <3>1, <4>1
      <4> QED
        BY <1>1, <4>2 DEF NoneShared
    <3> QED
      BY <3>2, <3>3
  <2>6. OneEach(queue')
    BY <2>3 DEF OneEach
  <2>7. OneEach(list')
    BY <2>4 DEF OneEach
  <2>8. NoneShared(queue', list')
    BY <2>5 DEF NoneShared
  <2> QED
    BY <1>2, <2>6, <2>7, <2>8
<1>6. ASSUME NEW m \in Level, NEW c \in 1..Len(list[m]), Left(m, c) PROVE UniqueInv'
  <2>1. UNCHANGED queue
    BY <1>6 DEF Left
  <2>2. ASSUME NEW l \in Level, NEW i \in 1..Len(list'[l])
        PROVE  \E k \in 1..Len(list[l]) : /\ list'[l][i] = list[l][k]
                                          /\ k = IF l = m /\ ~(i < c) THEN i + 1 ELSE i
    <3>1. CASE l # m
      BY <1>6, <3>1 DEF Left
    <3>2. CASE l = m
      <4>1. /\ Len(list'[l]) = Len(list[l]) - 1
            /\ \A k \in 1..(Len(list[l]) - 1) : list'[l][k] = IF k < c THEN list[l][k] ELSE list[l][k + 1]
        BY <1>6, <3>2 DEF Left
      <4>2. i \in 1..(Len(list[l]) - 1) /\ i \in 1..Len(list[l]) /\ i + 1 \in 1..Len(list[l])
        BY <1>0, <4>1
      <4> QED
        BY <3>2, <4>1, <4>2
    <3> QED
      BY <3>1, <3>2
  <2>3. ASSUME NEW l \in Level, NEW n \in Level, NEW i \in 1..Len(list'[l]), NEW j \in 1..Len(list'[n]),
               list'[l][i] = list'[n][j]
        PROVE  l = n /\ i = j
    <3>1. PICK x \in 1..Len(list[l]) : list'[l][i] = list[l][x] /\ x = IF l = m /\ ~(i < c) THEN i + 1 ELSE i
      BY <2>2
    <3>2. PICK y \in 1..Len(list[n]) : list'[n][j] = list[n][y] /\ y = IF n = m /\ ~(j < c) THEN j + 1 ELSE j
      BY <2>2
    <3>3. list[l][x] = list[n][y]
      BY <2>3, <3>1, <3>2
    <3>4. l = n /\ x = y
      BY <1>1, <3>3 DEF OneEach
    <3>5. i = j
      BY <3>1, <3>2, <3>4
    <3> QED
      BY <3>4, <3>5
  <2>4. ASSUME NEW l \in Level, NEW n \in Level, NEW i \in 1..Len(queue[l]), NEW j \in 1..Len(list'[n])
        PROVE  queue[l][i] # list'[n][j]
    <3>1. PICK y \in 1..Len(list[n]) : list'[n][j] = list[n][y]
      BY <2>2
    <3> QED
      BY <1>1, <3>1 DEF NoneShared
  <2>5. OneEach(list')
    BY <2>3 DEF OneEach
  <2>6. NoneShared(queue', list')
    BY <2>1, <2>4 DEF NoneShared
  <2> QED
    BY <1>1, <1>2, <2>1, <2>5, <2>6
<1> QED
  BY <1>3, <1>4, <1>5, <1>6, Moves

\* An open socket has a place.
LEMMA CoverStep ==
  ASSUME IInv, [Next]_vars
  PROVE  CoverInv'
<1>0. /\ CoverInv /\ DiscInv /\ DiscShape /\ disc \in Disc
      /\ \A l \in Level : Len(queue[l]) \in Nat /\ Len(list[l]) \in Nat
  BY Holds DEF IInv, Shape, DiscShape
<1>1. dropped \subseteq dropped'
  <2>1. ASSUME PutNew PROVE dropped \subseteq dropped'
    BY <2>1 DEF PutNew
  <2> QED
    BY <2>1, Frames DEF Framed
<1>2. ASSUME NEW d \in open', d \notin open PROVE InHand(d)'
  <2>1. MapSocket
    BY <1>2, Frames DEF Framed, OpenStep, Close
  <2>2. PICK e \in Id, p \in Proc : Mapped(e, p)
    BY <1>2, <2>1, MapIs DEF Skipped
  <2>3. e = <<disc.app, disc.idx>> /\ open' = open \union {e} /\ disc' = [disc EXCEPT !.at = "put"]
    BY <2>2 DEF Mapped
  <2>4. disc'.at = "put" /\ disc'.app = disc.app /\ disc'.idx = disc.idx
    BY <1>0, <2>3 DEF Disc
  <2> QED
    BY <1>2, <2>3, <2>4 DEF InHand
<1>3. ASSUME NEW d \in Id, InHand(d) PROVE d \in dropped' \/ InHand(d)' \/ HasPlace(d)'
  <2>1. region[d] # None
    BY <1>0, <1>3 DEF InHand, DiscInv
  <2>2. CASE PutNew
    <3>1. PICK e \in Id, l \in Level :
              /\ e = <<disc.app, disc.idx>> /\ l = LevelOf(SockOf(e)) /\ region[e] # None
              /\ disc' = [disc EXCEPT !.at = "announce", !.level = l]
              /\ \/ Put(e, l) /\ UNCHANGED dropped
                 \/ dropped' = dropped \union {e} /\ UNCHANGED queue
      BY <2>2, PutNewIs
    <3>2. e = d
      BY <1>3, <3>1 DEF InHand
    <3>3. ASSUME Put(d, l) PROVE HasPlace(d)'
      <4>1. Len(queue[l]) + 1 \in 1..Len(queue'[l]) /\ queue'[l][Len(queue[l]) + 1] = d
        BY <1>0, <3>3 DEF Put
      <4> QED
        BY <4>1 DEF HasPlace
    <3> QED
      BY <3>1, <3>2, <3>3
  <2> QED
    BY <1>3, <2>1, <2>2, Stays
<1>4. ASSUME NEW d \in open, HasPlace(d) PROVE HasPlace(d)'
  <2>1. PICK l \in Level : \/ \E k \in 1..Len(queue[l]) : queue[l][k] = d
                           \/ \E k \in 1..Len(list[l]) : list[l][k] = d
    BY <1>4 DEF HasPlace
  <2>2. ASSUME NEW k \in 1..Len(queue'[l]), queue'[l][k] = d PROVE HasPlace(d)'
    BY <2>2 DEF HasPlace
  <2>3. ASSUME NEW k \in 1..Len(list'[l]), list'[l][k] = d PROVE HasPlace(d)'
    BY <2>3 DEF HasPlace
  <2>4. ASSUME queue'[l] = queue[l], list'[l] = list[l] PROVE HasPlace(d)'
    BY <2>1, <2>2, <2>3, <2>4
  <2>5. CASE UNCHANGED <<queue, list>>
    BY <2>4, <2>5
  <2>6. ASSUME NEW e \in Id, NEW m \in Level, Put(e, m) PROVE HasPlace(d)'
    <3>1. list'[l] = list[l]
      BY <2>6 DEF Put
    <3>2. CASE m # l
      BY <2>4, <2>6, <3>1, <3>2 DEF Put
    <3>3. CASE m = l
      <4>1. ASSUME NEW k \in 1..Len(queue[l]) PROVE k \in 1..Len(queue'[l]) /\ queue'[l][k] = queue[l][k]
        BY <1>0, <2>6, <3>3 DEF Put
      <4> QED
        BY <2>1, <2>2, <2>3, <3>1, <4>1
    <3> QED
      BY <3>2, <3>3
  <2>7. ASSUME NEW m \in Level, Joined(m) PROVE HasPlace(d)'
    <3>1. CASE m # l
      BY <2>4, <2>7, <3>1 DEF Joined
    <3>2. CASE m = l
      <4>0. /\ Len(queue'[l]) = Len(queue[l]) - 1
            /\ \A k \in 1..(Len(queue[l]) - 1) : queue'[l][k] = queue[l][k + 1]
            /\ Len(list'[l]) = Len(list[l]) + 1 /\ list'[l][1] = queue[l][1]
            /\ \A k \in 1..Len(list[l]) : list'[l][k + 1] = list[l][k]
        BY <2>7, <3>2 DEF Joined
      <4>1. ASSUME NEW k \in 1..Len(queue[l]), queue[l][k] = d PROVE HasPlace(d)'
        <5>1. CASE k = 1
          <6>1. 1 \in 1..Len(list'[l])
            BY <1>0, <4>0
          <6> QED
            BY <2>3, <4>0, <4>1, <5>1, <6>1
        <5>2. CASE k # 1
          <6>1. k - 1 \in 1..(Len(queue[l]) - 1) /\ (k - 1) + 1 = k /\ k - 1 \in 1..Len(queue'[l])
            BY <1>0, <4>0, <5>2
          <6>2. queue'[l][k - 1] = queue[l][(k - 1) + 1]
            BY <4>0, <6>1
          <6> QED
            BY <2>2, <4>1, <6>1, <6>2
        <5> QED
          BY <5>1, <5>2
      <4>2. ASSUME NEW k \in 1..Len(list[l]), list[l][k] = d PROVE HasPlace(d)'
        <5>1. k + 1 \in 1..Len(list'[l]) /\ list'[l][k + 1] = d
          BY <1>0, <4>0, <4>2
        <5> QED
          BY <2>3, <5>1
      <4> QED
        BY <2>1, <4>1, <4>2
    <3> QED
      BY <3>1, <3>2
  <2>8. ASSUME NEW m \in Level, NEW c \in 1..Len(list[m]), Left(m, c) PROVE HasPlace(d)'
    <3>0. queue'[l] = queue[l] /\ d # list[m][c]
      BY <2>8 DEF Left
    <3>1. CASE m # l
      BY <2>4, <2>8, <3>0, <3>1 DEF Left
    <3>2. CASE m = l
      <4>0. /\ Len(list'[l]) = Len(list[l]) - 1
            /\ \A k \in 1..(Len(list[l]) - 1) : list'[l][k] = IF k < c THEN list[l][k] ELSE list[l][k + 1]
        BY <2>8, <3>2 DEF Left
      <4>1. ASSUME NEW k \in 1..Len(list[l]), list[l][k] = d PROVE HasPlace(d)'
        <5>1. k # c
          BY <3>0, <3>2, <4>1
        <5>2. CASE k < c
          <6>1. k \in 1..(Len(list[l]) - 1) /\ k \in 1..Len(list'[l])
            BY <1>0, <3>2, <4>0, <5>2
          <6> QED
            BY <2>3, <4>0, <4>1, <5>2, <6>1
        <5>3. CASE ~(k < c)
          <6>1. k - 1 \in 1..(Len(list[l]) - 1) /\ (k - 1) + 1 = k /\ ~(k - 1 < c) /\ k - 1 \in 1..Len(list'[l])
            BY <1>0, <3>2, <4>0, <5>1, <5>3
          <6>2. list'[l][k - 1] = list[l][(k - 1) + 1]
            BY <4>0, <6>1
          <6> QED
            BY <2>3, <4>1, <6>1, <6>2
        <5> QED
          BY <5>2, <5>3
      <4>2. ASSUME NEW k \in 1..Len(queue[l]), queue[l][k] = d PROVE HasPlace(d)'
        BY <2>2, <3>0, <4>2
      <4> QED
        BY <2>1, <4>1, <4>2
    <3> QED
      BY <3>1, <3>2
  <2> QED
    BY <2>5, <2>6, <2>7, <2>8, Moves
<1>5. ASSUME NEW d \in open' PROVE d \in dropped' \/ InHand(d)' \/ HasPlace(d)'
  <2>1. CASE d \in open
    <3>1. d \in Id /\ (d \in dropped \/ InHand(d) \/ HasPlace(d))
      BY <1>0, <2>1 DEF CoverInv, DiscShape
    <3> QED
      BY <1>1, <1>3, <1>4, <2>1, <3>1
  <2> QED
    BY <1>2, <2>1
<1> QED
  BY <1>5 DEF CoverInv

(***************************************************************************)
(* What a step does to one priority thread.                                *)
(***************************************************************************)

\* The thread and its list stay as they are,
SameList(l) == list'[l] = list[l] /\ round'[l] = round[l] /\ nr'[l] = nr[l] /\ shadow'[l] = shadow[l]
Still(l) == thread'[l] = thread[l] /\ SameList(l)

\* or it is woken, for a socket or by an announcement.
Roused(l) ==
  /\ At(l, "asleep") /\ thread'[l].at = "woken" /\ thread'[l].count = thread[l].count
  /\ thread'[l] \in Thread /\ SameList(l)
  /\ thread[l].count > 0 \/ (Announce /\ disc.level = l)

\* The socket of a process that is submitted to.
LEMMA SubmitIs ==
  ASSUME IInv, NEW p \in Proc, NEW i \in Idx, NEW kind \in Kinds, Submit(p, i, kind), NEW l \in Level
  PROVE  /\ Still(l) \/ Roused(l)
         /\ squeue' \in [Sock -> Seq(Kinds)]
         /\ \A s \in Sock : s # <<p, i>> => squeue'[s] = squeue[s]
         /\ thread'[l].at = "asleep" => \A k \in 1..thread[l].count : SockOf(nr[l][k]) # <<p, i>>
<1>1. /\ squeue' = [squeue EXCEPT ![<<p, i>>] = Append(@, kind)] /\ UNCHANGED <<list, round, nr, shadow>>
      /\ thread' = [m \in Level |->
           LET t == thread[m]
               hit == {k \in 1..t.count : SockOf(nr[m][k]) = <<p, i>>}
           IN IF t.at = "asleep" /\ hit # {}
                THEN [t EXCEPT !.at = "woken", !.ret = CHOOSE k \in hit : TRUE] ELSE t]
  BY DEF Submit, listVars
<1>2. thread[l] \in Thread /\ squeue \in [Sock -> Seq(Kinds)] /\ <<p, i>> \in Sock
  BY DEF IInv, Shape, ThreadShape, Sock
<1>3. SameList(l)
  BY <1>1 DEF SameList
<1> DEFINE hit == {k \in 1..thread[l].count : SockOf(nr[l][k]) = <<p, i>>}
<1>4. thread'[l] = IF thread[l].at = "asleep" /\ hit # {}
                     THEN [thread[l] EXCEPT !.at = "woken", !.ret = CHOOSE k \in hit : TRUE] ELSE thread[l]
  BY <1>1
<1>5. ASSUME thread[l].at = "asleep", hit # {} PROVE Roused(l)
  <2>1. PICK c \in Nat : c = CHOOSE k \in hit : TRUE
    <3>1. thread[l].count \in Nat
      BY <1>2 DEF Thread
    <3>2. hit \subseteq Nat
      BY <3>1
    <3> HIDE DEF hit
    <3>3. \E k \in hit : TRUE
      BY <1>5
    <3> QED
      BY <3>2, <3>3
  <2>2. thread'[l] = [thread[l] EXCEPT !.at = "woken", !.ret = c]
    BY <1>4, <1>5, <2>1
  <2>3. thread'[l] \in Thread /\ thread'[l].at = "woken" /\ thread'[l].count = thread[l].count
    BY <1>2, <2>2 DEF Thread
  <2>4. thread[l].count > 0
    <3>1. PICK k \in 1..thread[l].count : TRUE
      BY <1>5
    <3>2. thread[l].count \in Nat
      BY <1>2 DEF Thread
    <3> QED
      BY <3>1, <3>2
  <2> QED
    BY <1>3, <1>5, <2>3, <2>4 DEF Roused, At
<1>6. ASSUME ~(thread[l].at = "asleep" /\ hit # {}) PROVE Still(l)
  <2>1. thread'[l] = thread[l]
    BY <1>4, <1>6
  <2> QED
    BY <1>3, <2>1 DEF Still
<1>7. thread'[l].at = "asleep" => \A k \in 1..thread[l].count : SockOf(nr[l][k]) # <<p, i>>
  <2>1. CASE hit = {}
    BY <2>1
  <2>2. CASE hit # {} /\ thread[l].at # "asleep"
    <3> HIDE DEF hit
    <3> QED
      BY <1>4, <2>2
  <2>3. CASE hit # {} /\ thread[l].at = "asleep"
    <3>1. Roused(l)
      BY <1>5, <2>3
    <3> QED
      BY <3>1 DEF Roused
  <2> QED
    BY <2>1, <2>2, <2>3
<1>8. squeue' \in [Sock -> Seq(Kinds)] /\ \A s \in Sock : s # <<p, i>> => squeue'[s] = squeue[s]
  <2>1. squeue[<<p, i>>] \in Seq(Kinds)
    BY <1>2
  <2>2. Append(squeue[<<p, i>>], kind) \in Seq(Kinds)
    BY <2>1, AppendProperties
  <2>3. PICK w \in Seq(Kinds) : w = Append(squeue[<<p, i>>], kind)
    BY <2>2
  <2>4. squeue' = [squeue EXCEPT ![<<p, i>>] = w]
    BY <1>1, <2>3
  <2> QED
    BY <1>2, <2>4
<1> QED
  BY <1>5, <1>6, <1>7, <1>8

\* An announcement adds one to the futex and wakes the thread of its level.
LEMMA AnnounceIs ==
  ASSUME IInv, Announce, NEW l \in Level
  PROVE  /\ Still(l) \/ Roused(l)
         /\ disc.level = l => qfutex'[l] = qfutex[l] + 1 /\ thread'[l].at # "asleep"
         /\ disc.level # l => qfutex'[l] = qfutex[l]
         /\ qfutex' \in [Level -> Nat] /\ UNCHANGED <<queue, squeue>>
<1>1. /\ qfutex' = [qfutex EXCEPT ![disc.level] = @ + 1] /\ UNCHANGED <<list, round, nr, shadow, queue, squeue>>
      /\ thread' = [thread EXCEPT ![disc.level] =
           IF @.at = "asleep" THEN [@ EXCEPT !.at = "woken", !.ret = thread[disc.level].count + 1] ELSE @]
  BY DEF Announce, listVars, opVars
<1>2. /\ disc.level \in Level /\ thread \in [Level -> Thread] /\ qfutex \in [Level -> Nat]
      /\ thread[l] \in Thread /\ thread[l].count \in Nat /\ qfutex[l] \in Nat
  BY DEF IInv, Shape, DiscShape, Disc, ThreadShape, Thread
<1>3. SameList(l)
  BY <1>1 DEF SameList
<1>4. qfutex' \in [Level -> Nat] /\ qfutex'[l] = IF disc.level = l THEN qfutex[l] + 1 ELSE qfutex[l]
  BY <1>1, <1>2
<1>5. CASE disc.level # l
  <2>1. thread'[l] = thread[l]
    BY <1>1, <1>2, <1>5
  <2> QED
    BY <1>1, <1>3, <1>4, <1>5, <2>1 DEF Still
<1>6. CASE disc.level = l /\ thread[l].at # "asleep"
  <2>1. thread'[l] = thread[l]
    BY <1>1, <1>2, <1>6
  <2> QED
    BY <1>1, <1>3, <1>4, <1>6, <2>1 DEF Still
<1>7. CASE disc.level = l /\ thread[l].at = "asleep"
  <2>1. PICK c \in Nat : c = thread[l].count + 1
    BY <1>2
  <2>2. thread'[l] = [thread[l] EXCEPT !.at = "woken", !.ret = c]
    BY <1>1, <1>2, <1>7, <2>1
  <2>3. thread'[l] \in Thread /\ thread'[l].at = "woken" /\ thread'[l].count = thread[l].count
    BY <1>2, <2>2 DEF Thread
  <2>4. Roused(l)
    BY <1>3, <1>7, <2>3 DEF Roused, At
  <2> QED
    BY <1>1, <1>4, <1>7, <2>3, <2>4
<1> QED
  BY <1>5, <1>6, <1>7

\* What the steps of a priority thread do: a closed socket is removed,
LEMMA RemovalIs ==
  ASSUME IInv, NEW l \in Level, RemoveClosed(l)
  PROVE  /\ At(l, "remove") /\ thread'[l].at = "wait" /\ thread'[l].count = thread[l].count
         /\ thread' \in [Level -> Thread] /\ round' \in [Level -> Nat] /\ nr'[l] = nr[l] /\ shadow'[l] = shadow[l]
         /\ \A m \in Level : m # l => Still(m)
<1>1. /\ At(l, "remove") /\ round' = [round EXCEPT ![l] = FirstClosed(l)] /\ UNCHANGED <<nr, shadow>>
      /\ list' = [list EXCEPT ![l] = RemoveAt(@, FirstClosed(l))]
      /\ thread' = [thread EXCEPT ![l].at = "wait"]
  BY DEF RemoveClosed
<1>2. /\ thread \in [Level -> Thread] /\ thread[l] \in Thread /\ round \in [Level -> Nat]
      /\ list \in [Level -> Seq(Id)] /\ Len(list[l]) \in Nat
  BY Holds DEF IInv, Shape, ThreadShape
<1>3. FirstClosed(l) \in Nat
  BY <1>2, FirstClosedIs
<1>4. PICK t \in Thread : t = [thread[l] EXCEPT !.at = "wait"]
  BY <1>2 DEF Thread
<1>5. t.at = "wait" /\ t.count = thread[l].count
  BY <1>2, <1>4 DEF Thread
<1>6. thread' = [thread EXCEPT ![l] = t]
  BY <1>1, <1>2, <1>4
<1>7. ASSUME NEW m \in Level, m # l PROVE Still(m)
  BY <1>1, <1>2, <1>6, <1>7 DEF Still, SameList
<1> QED
  BY <1>1, <1>2, <1>3, <1>5, <1>6, <1>7

\* the thread goes to sleep or starts again,
LEMMA WaitIs ==
  ASSUME IInv, NEW l \in Level, Wait(l)
  PROVE  /\ At(l, "wait") /\ thread' \in [Level -> Thread] /\ SameList(l)
         /\ \/ /\ Unchanged(l) /\ thread'[l].at = "asleep" /\ thread'[l].count = thread[l].count
            \/ /\ ~Unchanged(l) /\ thread'[l].at = "drain"
               /\ thread'[l].uneven = (qfutex[l] # shadow[l])
         /\ UNCHANGED <<qfutex, squeue, region, open>>
         /\ \A m \in Level : m # l => Still(m)
<1>1. /\ At(l, "wait") /\ UNCHANGED <<list, round, nr, shadow, qfutex, squeue, region, open>>
      /\ thread' = [thread EXCEPT ![l] =
           IF Unchanged(l) THEN [@ EXCEPT !.at = "asleep", !.uneven = FALSE]
                           ELSE [Fresh EXCEPT !.uneven = qfutex[l] # shadow[l]]]
  BY DEF Wait, listVars, opVars, discVars
<1>2. thread \in [Level -> Thread] /\ thread[l] \in Thread
  BY DEF IInv, Shape, ThreadShape
<1>3. PICK b \in BOOLEAN : b = (qfutex[l] # shadow[l])
  OBVIOUS
<1>4. PICK t \in Thread :
        /\ t = IF Unchanged(l) THEN [thread[l] EXCEPT !.at = "asleep", !.uneven = FALSE]
                               ELSE [Fresh EXCEPT !.uneven = b]
        /\ (Unchanged(l) => t.at = "asleep" /\ t.count = thread[l].count)
        /\ (~Unchanged(l) => t.at = "drain" /\ t.uneven = b)
  <2>1. CASE Unchanged(l)
    <3>1. PICK t \in Thread : t = [thread[l] EXCEPT !.at = "asleep", !.uneven = FALSE]
      BY <1>2 DEF Thread
    <3>2. t.at = "asleep" /\ t.count = thread[l].count
      BY <1>2, <3>1 DEF Thread
    <3> QED
      BY <2>1, <3>1, <3>2
  <2>2. CASE ~Unchanged(l)
    <3>1. PICK t \in Thread : t = [Fresh EXCEPT !.uneven = b]
      BY DEF Thread, Fresh
    <3>2. t.at = "drain" /\ t.uneven = b
      BY <3>1 DEF Fresh
    <3> QED
      BY <2>2, <3>1, <3>2
  <2> QED
    BY <2>1, <2>2
<1>5. thread' = [thread EXCEPT ![l] = t]
  BY <1>1, <1>2, <1>3, <1>4
<1>6. thread' \in [Level -> Thread] /\ thread'[l] = t /\ \A m \in Level : m # l => thread'[m] = thread[m]
  BY <1>2, <1>5
<1>7. \A m \in Level : SameList(m)
  BY <1>1 DEF SameList
<1>8. \A m \in Level : m # l => Still(m)
  BY <1>6, <1>7 DEF Still
<1> QED
  BY <1>1, <1>3, <1>4, <1>6, <1>7, <1>8

\* or is woken and starts again.
LEMMA WokenIs ==
  ASSUME IInv, NEW l \in Level, Woken(l)
  PROVE  /\ At(l, "woken") /\ thread' \in [Level -> Thread]
         /\ thread'[l].at = "drain" /\ thread'[l].uneven = (qfutex[l] # shadow[l])
         /\ list'[l] = list[l] /\ round'[l] = round[l] /\ shadow'[l] = shadow[l]
         /\ \A m \in Level : m # l => Still(m)
         /\ squeue' = squeue \/ \E S : squeue' = [s \in Sock |-> IF s \in S THEN <<>> ELSE squeue[s]]
<1>1. /\ At(l, "woken") /\ UNCHANGED <<list, round, shadow>> /\ nr' = [nr EXCEPT ![l] = <<>>]
      /\ thread' = [thread EXCEPT ![l] = [Fresh EXCEPT !.uneven = qfutex[l] # shadow[l]]]
  BY DEF Woken
<1>2. thread \in [Level -> Thread] /\ nr \in [Level -> Seq(Id)]
  BY DEF IInv, Shape, ThreadShape
<1>3. PICK b \in BOOLEAN : b = (qfutex[l] # shadow[l])
  OBVIOUS
<1>4. PICK t \in Thread : t = [Fresh EXCEPT !.uneven = b]
  BY DEF Thread, Fresh
<1>5. t.at = "drain" /\ t.uneven = b
  BY <1>4 DEF Fresh
<1>6. thread' = [thread EXCEPT ![l] = t]
  BY <1>1, <1>3, <1>4
<1>7. \A m \in Level : m # l => Still(m)
  BY <1>1, <1>2, <1>6 DEF Still, SameList
<1>8. squeue' = squeue \/ \E S : squeue' = [s \in Sock |-> IF s \in S THEN <<>> ELSE squeue[s]]
  <2>1. CASE thread[l].ret <= Len(nr[l])
    <3>1. Serve({SockOf(nr[l][thread[l].ret])})
      BY <2>1 DEF Woken
    <3> QED
      BY <3>1 DEF Serve
  <2>2. CASE ~(thread[l].ret <= Len(nr[l]))
    BY <2>2 DEF Woken
  <2> QED
    BY <2>1, <2>2
<1> QED
  BY <1>1, <1>2, <1>3, <1>5, <1>6, <1>7, <1>8

\* The walk sets the thread, its iterator and socket_from_futex_nr.
LEMMA WalkSets ==
  ASSUME IInv, NEW l \in Level, Walk(l)
  PROVE  /\ At(l, "drain") /\ thread' \in [Level -> Thread] /\ round' \in [Level -> Nat]
         /\ list'[l] = list[l] /\ shadow'[l] = shadow[l]
         /\ \A m \in Level : m # l => Still(m)
         /\ squeue' = squeue \/ \E S : squeue' = [s \in Sock |-> IF s \in S THEN <<>> ELSE squeue[s]]
         /\ \/ /\ thread'[l].at = "lost" /\ thread'[l].uneven = thread[l].uneven
               /\ list[l] = <<>> /\ round[l] > 0
            \/ \E v \in Seq(Id), n \in Nat :
                 /\ Walked(l, v, n) /\ thread'[l].count = n /\ round'[l] = Len(list[l])
                 /\ thread'[l].at = (IF n < Len(list[l]) THEN "remove" ELSE "wait")
<1>1. At(l, "drain") /\ UNCHANGED <<list, shadow>>
  BY DEF Walk
<1>2. /\ thread \in [Level -> Thread] /\ thread[l] \in Thread /\ round \in [Level -> Nat]
      /\ Len(list[l]) \in Nat /\ nr \in [Level -> Seq(Id)]
  BY Holds DEF IInv, Shape, ThreadShape
<1>3. ASSUME Strayed(l)
      PROVE  /\ thread' \in [Level -> Thread] /\ round' \in [Level -> Nat] /\ squeue' = squeue
             /\ \A m \in Level : m # l => Still(m)
             /\ thread'[l].at = "lost" /\ thread'[l].uneven = thread[l].uneven
             /\ list[l] = <<>> /\ round[l] > 0
  <2>1. /\ list[l] = <<>> /\ round[l] > 0
        /\ thread' = [thread EXCEPT ![l].at = "lost"] /\ UNCHANGED <<round, nr, squeue>>
    BY <1>3 DEF Strayed
  <2>2. PICK t \in Thread : t = [thread[l] EXCEPT !.at = "lost"]
    BY <1>2 DEF Thread
  <2>3. t.at = "lost" /\ t.uneven = thread[l].uneven
    BY <1>2, <2>2 DEF Thread
  <2>4. thread' = [thread EXCEPT ![l] = t]
    BY <1>2, <2>1, <2>2
  <2>5. \A m \in Level : m # l => Still(m)
    BY <1>1, <1>2, <2>1, <2>4 DEF Still, SameList
  <2> QED
    BY <1>2, <2>1, <2>3, <2>4, <2>5
<1>4. ASSUME NEW v \in Seq(Id), NEW n \in Nat, Walked(l, v, n)
      PROVE  /\ thread' \in [Level -> Thread] /\ round' \in [Level -> Nat]
             /\ \A m \in Level : m # l => Still(m)
             /\ \E S : squeue' = [s \in Sock |-> IF s \in S THEN <<>> ELSE squeue[s]]
             /\ thread'[l].count = n /\ round'[l] = Len(list[l])
             /\ thread'[l].at = (IF n < Len(list[l]) THEN "remove" ELSE "wait")
  <2>1. /\ round' = [round EXCEPT ![l] = Len(list[l])]
        /\ squeue' = [s \in Sock |-> IF s \in {SockOf(v[k]) : k \in 1..n} THEN <<>> ELSE squeue[s]]
        /\ nr' = [nr EXCEPT ![l] = v \o SubSeq(@, n + 1, Len(@))]
        /\ thread' = [thread EXCEPT ![l] =
             [@ EXCEPT !.at = IF n < Len(list[l]) THEN "remove" ELSE "wait", !.count = n]]
    BY <1>4 DEF Walked
  <2>2. PICK a \in {"remove", "wait"} : a = IF n < Len(list[l]) THEN "remove" ELSE "wait"
    OBVIOUS
  <2>3. PICK t \in Thread : t = [thread[l] EXCEPT !.at = a, !.count = n]
    BY <1>2 DEF Thread
  <2>4. t.at = a /\ t.count = n
    BY <1>2, <2>3 DEF Thread
  <2>5. thread' = [thread EXCEPT ![l] = t]
    BY <2>1, <2>2, <2>3
  <2>6. \A m \in Level : m # l => nr'[m] = nr[m]
    BY <1>4, WalkedNr
  <2>7. \A m \in Level : m # l => Still(m)
    BY <1>1, <1>2, <2>1, <2>5, <2>6 DEF Still, SameList
  <2>8. thread' \in [Level -> Thread] /\ thread'[l] = t
    BY <1>2, <2>5
  <2>9. round' \in [Level -> Nat] /\ round'[l] = Len(list[l])
    BY <1>2, <2>1
  <2>10. \E S : squeue' = [s \in Sock |-> IF s \in S THEN <<>> ELSE squeue[s]]
    BY <2>1
  <2> QED
    BY <2>2, <2>4, <2>7, <2>8, <2>9, <2>10
<1>5. CASE Strayed(l)
  BY <1>1, <1>3, <1>5
<1>6. CASE \E v \in Seq(Id), n \in Nat : Walked(l, v, n)
  <2>1. PICK v \in Seq(Id), n \in Nat : Walked(l, v, n)
    BY <1>6
  <2> QED
    BY <1>1, <1>4, <2>1
<1> QED
  BY <1>5, <1>6, WalkIs

\* A step is one of a priority thread, or leaves its list alone and may wake it.
LEMMA Local ==
  ASSUME IInv, [Next]_vars, NEW l \in Level
  PROVE  \/ Still(l) \/ Roused(l)
         \/ AddNew(l) \/ Walk(l) \/ RemoveClosed(l) \/ Wait(l) \/ Woken(l)
<1>0. list \in [Level -> Seq(Id)] /\ shadow \in [Level -> Nat]
  BY DEF IInv, Shape, ThreadShape
<1>1. ASSUME NEW m \in Level, m # l, AddNew(m) PROVE Still(l)
  <2>1. UNCHANGED <<round, nr, thread>>
    BY <1>1 DEF AddNew
  <2>2. list'[l] = list[l] /\ shadow'[l] = shadow[l]
    BY <1>0, <1>1, AddNewIs DEF Joined
  <2> QED
    BY <2>1, <2>2 DEF Still, SameList
<1>2. ASSUME NEW m \in Level, m # l, Walk(m) \/ RemoveClosed(m) \/ Wait(m) \/ Woken(m) PROVE Still(l)
  BY <1>2, WalkSets, RemovalIs, WaitIs, WokenIs
<1>3. ASSUME SubmitStep PROVE Still(l) \/ Roused(l)
  BY <1>3, SubmitIs DEF SubmitStep
<1>4. ASSUME Announce PROVE Still(l) \/ Roused(l)
  BY <1>4, AnnounceIs
<1>5. \/ UNCHANGED <<list, shadow, round, nr, thread>> \/ SubmitStep \/ Announce
      \/ \E m \in Level : AddNew(m) \/ Walk(m) \/ RemoveClosed(m) \/ Wait(m) \/ Woken(m)
  BY Frames DEF Framed, ListStep, IterStep, NrStep, ThreadStep
<1>6. ASSUME UNCHANGED <<list, shadow, round, nr, thread>> PROVE Still(l)
  BY <1>6 DEF Still, SameList
<1> QED
  BY <1>1, <1>2, <1>3, <1>4, <1>5, <1>6

\* The squeues grow only by a submission.
LEMMA SqueueMoves ==
  ASSUME IInv, [Next]_vars
  PROVE  /\ squeue' \in [Sock -> Seq(Kinds)]
         /\ \/ SubmitStep
            \/ \A s \in Sock : squeue'[s] = squeue[s] \/ squeue'[s] = <<>>
<1>1. squeue \in [Sock -> Seq(Kinds)] /\ <<>> \in Seq(Kinds)
  BY DEF IInv, Shape, ThreadShape
<1>2. CASE UNCHANGED squeue
  BY <1>1, <1>2
<1>3. CASE SubmitStep
  BY <1>3, SubmitIs, ConstantFacts DEF SubmitStep
<1>4. ASSUME NEW S, squeue' = [s \in Sock |-> IF s \in S THEN <<>> ELSE squeue[s]]
      PROVE  squeue' \in [Sock -> Seq(Kinds)] /\ \A s \in Sock : squeue'[s] = squeue[s] \/ squeue'[s] = <<>>
  BY <1>1, <1>4
<1>5. ASSUME NEW l \in Level, Walk(l) \/ Woken(l)
      PROVE  squeue' = squeue \/ \E S : squeue' = [s \in Sock |-> IF s \in S THEN <<>> ELSE squeue[s]]
  BY <1>5, WalkSets, WokenIs
<1>6. UNCHANGED squeue \/ ServeStep
  BY Frames DEF Framed
<1> QED
  BY <1>2, <1>3, <1>4, <1>5, <1>6 DEF ServeStep

\* The variables of the priority threads keep their types.
LEMMA ThreadShapeStep ==
  ASSUME IInv, [Next]_vars
  PROVE  ThreadShape'
<1>0. ThreadShape
  BY DEF IInv, Shape
<1>1. squeue' \in [Sock -> Seq(Kinds)] /\ nr' \in [Level -> Seq(Id)]
  BY SqueueMoves, NrCameFrom
<1>2. queue' \in [Level -> Seq(Id)] /\ list' \in [Level -> Seq(Id)]
  <2>1. CASE UNCHANGED <<queue, list>>
    BY <1>0, <2>1 DEF ThreadShape
  <2>2. ASSUME NEW d \in Id, NEW l \in Level, Put(d, l)
        PROVE  queue' \in [Level -> Seq(Id)] /\ list' \in [Level -> Seq(Id)]
    BY <1>0, <2>2 DEF Put, ThreadShape
  <2>3. ASSUME NEW l \in Level, Joined(l)
        PROVE  queue' \in [Level -> Seq(Id)] /\ list' \in [Level -> Seq(Id)]
    BY <2>3 DEF Joined
  <2>4. ASSUME NEW l \in Level, NEW i \in 1..Len(list[l]), Left(l, i)
        PROVE  queue' \in [Level -> Seq(Id)] /\ list' \in [Level -> Seq(Id)]
    BY <1>0, <2>4 DEF Left, ThreadShape
  <2> QED
    BY <2>1, <2>2, <2>3, <2>4, Moves
<1>3. qfutex' \in [Level -> Nat]
  <2>1. ASSUME Announce PROVE qfutex' \in [Level -> Nat]
    BY <2>1, AnnounceIs, ConstantFacts
  <2> QED
    BY <1>0, <2>1, Frames DEF Framed, ThreadShape
<1>4. shadow' \in [Level -> Nat]
  <2>1. ASSUME NEW l \in Level, AddNew(l) PROVE shadow' \in [Level -> Nat]
    <3>1. shadow' = [shadow EXCEPT ![l] = @ + 1] /\ shadow[l] \in Nat
      BY <1>0, <2>1 DEF AddNew, ThreadShape
    <3>2. shadow[l] + 1 \in Nat
      BY <3>1
    <3> QED
      BY <1>0, <3>1, <3>2 DEF ThreadShape
  <2> QED
    BY <1>0, <2>1, Frames DEF Framed, ThreadShape
<1>5. round' \in [Level -> Nat]
  <2>1. ASSUME NEW l \in Level, Walk(l) \/ RemoveClosed(l) PROVE round' \in [Level -> Nat]
    BY <2>1, WalkSets, RemovalIs
  <2> QED
    BY <1>0, <2>1, Frames DEF Framed, IterStep, ThreadShape
<1>6. thread' \in [Level -> Thread]
  <2>1. ASSUME NEW l \in Level, Walk(l) \/ RemoveClosed(l) \/ Wait(l) \/ Woken(l)
        PROVE  thread' \in [Level -> Thread]
    BY <2>1, WalkSets, RemovalIs, WaitIs, WokenIs
  <2>2. ASSUME SubmitStep \/ Announce PROVE thread' \in [Level -> Thread]
    <3>1. thread' = [l \in Level |-> thread'[l]]
      <4>1. ASSUME SubmitStep PROVE thread' = [l \in Level |-> thread'[l]]
        BY <4>1 DEF SubmitStep, Submit
      <4>2. ASSUME Announce PROVE thread' = [l \in Level |-> thread'[l]]
        BY <1>0, <4>2 DEF Announce, ThreadShape
      <4> QED
        BY <2>2, <4>1, <4>2
    <3>2. ASSUME NEW l \in Level PROVE thread'[l] \in Thread
      <4>1. Still(l) \/ Roused(l)
        BY <2>2, SubmitIs, AnnounceIs DEF SubmitStep
      <4> QED
        BY <1>0, <4>1 DEF Still, Roused, ThreadShape
    <3> QED
      BY <3>1, <3>2
  <2> QED
    BY <1>0, <2>1, <2>2, Frames DEF Framed, ThreadStep, ThreadShape
<1> QED
  BY <1>1, <1>2, <1>3, <1>4, <1>5, <1>6 DEF ThreadShape

(***************************************************************************)
(* Counting, iterating and sleeping.                                       *)
(***************************************************************************)

\* The announcements keep up with the sockets.
LEMMA CountStep ==
  ASSUME IInv, [Next]_vars
  PROVE  CountInv'
<1>0. CountInv /\ ThreadShape /\ DiscShape /\ disc \in Disc
  BY DEF IInv, Shape, DiscShape
<1> SUFFICES ASSUME NEW l \in Level
             PROVE  /\ Len(queue'[l]) <= QueueCap
                    /\ shadow'[l] + Len(queue'[l]) <= qfutex'[l] + (IF Announcing(l)' THEN 1 ELSE 0)
                    /\ thread'[l].at = "asleep" => qfutex'[l] = shadow'[l]
                    /\ thread'[l].at = "woken" /\ thread'[l].count = 0 => shadow'[l] < qfutex'[l]
  BY DEF CountInv, At
<1>1. PICK a \in {0, 1}, b \in {0, 1} :
        a = (IF Announcing(l) THEN 1 ELSE 0) /\ b = IF Announcing(l)' THEN 1 ELSE 0
  OBVIOUS
<1>2. PICK q \in Nat, s \in Nat, f \in Nat : q = Len(queue[l]) /\ s = shadow[l] /\ f = qfutex[l]
  BY <1>0, Holds DEF ThreadShape
<1>3. q <= QueueCap /\ s + q <= f + a /\ QueueCap \in Nat
  BY <1>0, <1>1, <1>2, ConstantFacts DEF CountInv
<1>4. \/ qfutex'[l] = f
      \/ Announce /\ disc.level = l /\ qfutex'[l] = f + 1 /\ thread'[l].at # "asleep"
  <2>1. ASSUME Announce
        PROVE \/ qfutex'[l] = f
              \/ Announce /\ disc.level = l /\ qfutex'[l] = f + 1 /\ thread'[l].at # "asleep"
    BY <1>2, <2>1, AnnounceIs
  <2> QED
    BY <1>2, <2>1, Frames DEF Framed
<1>5. Len(queue'[l]) <= QueueCap /\ shadow'[l] + Len(queue'[l]) <= qfutex'[l] + b
  <2>1. CASE Announce
    <3>1. UNCHANGED <<queue, shadow>> /\ disc.at = "announce"
      BY <2>1 DEF Announce, listVars
    <3>2. disc.level = l => qfutex'[l] = f + 1
      BY <1>2, <2>1, AnnounceIs
    <3>3. disc.level # l => qfutex'[l] = f /\ a = 0
      BY <1>1, <1>2, <2>1, AnnounceIs DEF Announcing
    <3> QED
      BY <1>1, <1>2, <1>3, <3>1, <3>2, <3>3
  <2>2. CASE PutNew
    <3>1. PICK d \in Id, m \in Level :
              /\ d = <<disc.app, disc.idx>> /\ m = LevelOf(SockOf(d)) /\ region[d] # None
              /\ disc' = [disc EXCEPT !.at = "announce", !.level = m]
              /\ \/ Put(d, m) /\ UNCHANGED dropped
                 \/ dropped' = dropped \union {d} /\ UNCHANGED queue
      BY <2>2, PutNewIs
    <3>2. UNCHANGED <<shadow, qfutex>> /\ disc.at = "put"
      BY <2>2 DEF PutNew, listVars
    <3>3. a = 0
      BY <1>1, <3>2 DEF Announcing
    <3>4. disc'.at = "announce" /\ disc'.level = m
      BY <1>0, <3>1 DEF Disc
    <3>5. CASE queue'[l] = queue[l]
      <4>1. Len(queue'[l]) = q /\ shadow'[l] = s /\ qfutex'[l] = f
        BY <1>2, <3>2, <3>5
      <4>2. s + q <= f + b
        BY <1>1, <1>3, <3>3
      <4> QED
        BY <1>3, <4>1, <4>2
    <3>6. CASE Put(d, m) /\ m = l
      <4>1. Len(queue'[l]) = q + 1 /\ q < QueueCap
        BY <1>2, <3>6 DEF Put
      <4>2. b = 1
        BY <1>1, <3>4, <3>6 DEF Announcing
      <4>3. shadow'[l] = s /\ qfutex'[l] = f
        BY <1>2, <3>2
      <4>4. q + 1 <= QueueCap /\ s + (q + 1) <= f + b
        BY <1>3, <3>3, <4>1, <4>2
      <4> QED
        BY <4>1, <4>3, <4>4
    <3>7. CASE Put(d, m) /\ m # l
      BY <3>5, <3>7 DEF Put
    <3> QED
      BY <3>1, <3>5, <3>6, <3>7
  <2>3. CASE AddNew(l)
    <3>1. UNCHANGED <<disc, qfutex>>
      BY <2>3 DEF AddNew
    <3>2. a = b
      BY <1>1, <3>1 DEF Announcing
    <3>3. Len(queue[l]) >= 1 /\ Len(queue'[l]) = Len(queue[l]) - 1 /\ shadow'[l] = shadow[l] + 1
      BY <1>0, <2>3, AddNewIs DEF Joined, ThreadShape
    <3> QED
      <4>1. q >= 1 /\ Len(queue'[l]) = q - 1 /\ shadow'[l] = s + 1 /\ qfutex'[l] = f
        BY <1>2, <3>1, <3>3
      <4>2. q - 1 <= QueueCap /\ (s + 1) + (q - 1) <= f + b
        BY <1>3, <3>2, <4>1
      <4> QED
        BY <4>1, <4>2
  <2>4. CASE ~Announce /\ ~PutNew /\ ~AddNew(l)
    <3>1. qfutex'[l] = f
      BY <1>4, <2>4
    <3>2. queue'[l] = queue[l] /\ shadow'[l] = shadow[l]
      <4>1. ASSUME NEW m \in Level, m # l, AddNew(m) PROVE queue'[l] = queue[l] /\ shadow'[l] = shadow[l]
        BY <1>0, <4>1, AddNewIs DEF Joined, ThreadShape
      <4>2. UNCHANGED shadow \/ \E m \in Level : AddNew(m)
        BY Frames DEF Framed
      <4>3. UNCHANGED queue \/ \E m \in Level : AddNew(m)
        BY <2>4, Frames DEF Framed, QueueStep
      <4> QED
        BY <2>4, <4>1, <4>2, <4>3
    <3>3. a = b
      <4>1. CASE UNCHANGED disc
        BY <1>1, <4>1 DEF Announcing
      <4>2. ASSUME NEW d \in Id, NEW p \in Proc, Mapped(d, p), MapSocket PROVE a = b
        <5>1. disc.at = "map" /\ disc' = [disc EXCEPT !.at = "put"]
          BY <4>2 DEF MapSocket, Mapped
        <5>2. disc'.at = "put"
          BY <1>0, <5>1 DEF Disc
        <5> QED
          BY <1>1, <5>1, <5>2 DEF Announcing
      <4>3. CASE disc.at \notin {"put", "announce"} /\ disc'.at \notin {"put", "announce"}
        BY <1>1, <4>3 DEF Announcing
      <4> QED
        BY <2>4, <4>1, <4>2, <4>3, HandMoves
    <3> QED
      BY <1>2, <1>3, <3>1, <3>2, <3>3
  <2> QED
    BY <2>1, <2>2, <2>3, <2>4
<1>6. At(l, "asleep") => f = s
  BY <1>0, <1>2 DEF CountInv
<1>7. At(l, "woken") /\ thread[l].count = 0 => s < f
  BY <1>0, <1>2 DEF CountInv
<1>8. /\ thread'[l].at = "asleep" => qfutex'[l] = shadow'[l]
      /\ thread'[l].at = "woken" /\ thread'[l].count = 0 => shadow'[l] < qfutex'[l]
  <2>1. CASE Still(l)
    <3>1. thread'[l] = thread[l] /\ shadow'[l] = s
      BY <1>2, <2>1 DEF Still, SameList
    <3> QED
      BY <1>2, <1>4, <1>6, <1>7, <3>1 DEF At
  <2>2. CASE Roused(l)
    <3>1. /\ At(l, "asleep") /\ thread'[l].at = "woken" /\ shadow'[l] = s
          /\ thread'[l].count = thread[l].count /\ (thread[l].count > 0 \/ (Announce /\ disc.level = l))
      BY <1>2, <2>2 DEF Roused, SameList
    <3>2. ASSUME Announce, disc.level = l PROVE qfutex'[l] = f + 1
      BY <1>2, <3>2, AnnounceIs
    <3> QED
      BY <1>2, <1>6, <3>1, <3>2
  <2>3. CASE AddNew(l)
    <3>1. At(l, "drain") /\ UNCHANGED thread
      BY <2>3 DEF AddNew
    <3> QED
      BY <3>1 DEF At
  <2>4. CASE Walk(l)
    <3>1. thread'[l].at \in {"lost", "remove", "wait"}
      BY <2>4, WalkSets
    <3> QED
      BY <3>1
  <2>5. CASE RemoveClosed(l)
    BY <2>5, RemovalIs
  <2>6. CASE Wait(l)
    <3>1. /\ shadow'[l] = shadow[l] /\ UNCHANGED qfutex
          /\ thread'[l].at = "drain" \/ (thread'[l].at = "asleep" /\ Unchanged(l))
      BY <2>6, WaitIs DEF SameList
    <3> QED
      BY <3>1 DEF Unchanged
  <2>7. CASE Woken(l)
    BY <2>7, WokenIs
  <2> QED
    BY <2>1, <2>2, <2>3, <2>4, <2>5, <2>6, <2>7, Local
<1> QED
  BY <1>1, <1>5, <1>8

\* The iterator and the list.
LEMMA IterInvStep ==
  ASSUME IInv, [Next]_vars
  PROVE  IterInv'
<1>0. IterInv /\ ThreadShape /\ CountInv
  BY DEF IInv, Shape
<1> SUFFICES ASSUME NEW l \in Level
             PROVE  /\ thread'[l].at = "remove" => thread'[l].count < Len(list'[l])
                    /\ thread'[l].at = "lost" => list'[l] = <<>> /\ thread'[l].uneven
                    /\ list'[l] = <<>> /\ round'[l] > 0 =>
                         /\ thread'[l].at \in {"wait", "asleep", "woken"} => thread'[l].count = 0
                         /\ thread'[l].at = "drain" => thread'[l].uneven
  BY DEF IterInv, At
<1>1. /\ thread[l].at = "remove" => thread[l].count < Len(list[l])
      /\ thread[l].at = "lost" => list[l] = <<>> /\ thread[l].uneven
      /\ list[l] = <<>> /\ round[l] > 0 =>
           /\ thread[l].at \in {"wait", "asleep", "woken"} => thread[l].count = 0
           /\ thread[l].at = "drain" => thread[l].uneven
  BY <1>0 DEF IterInv, At
<1>2. /\ Len(list[l]) \in Nat /\ thread[l].count \in Nat /\ shadow[l] \in Nat /\ qfutex[l] \in Nat
      /\ thread[l].uneven \in BOOLEAN
  BY <1>0, Holds DEF ThreadShape, Thread
<1>3. list[l] = <<>> => Len(list[l]) = 0
  OBVIOUS
<1>4. list'[l] = <<>> => Len(list'[l]) = 0
  OBVIOUS
<1>5. CASE Still(l)
  BY <1>1, <1>5, Zenon DEF Still, SameList
<1>6. CASE Roused(l)
  BY <1>1, <1>6 DEF Roused, SameList, At
<1>7. CASE AddNew(l)
  <2>1. At(l, "drain") /\ UNCHANGED thread /\ Len(list'[l]) = Len(list[l]) + 1
    BY <1>7, AddNewIs DEF AddNew, Joined
  <2>2. list'[l] # <<>>
    BY <1>2, <1>4, <2>1
  <2> QED
    BY <2>1, <2>2 DEF At
<1>8. CASE Walk(l)
  <2>0. list'[l] = list[l] /\ thread[l].at = "drain"
    BY <1>8, WalkSets DEF At
  <2>1. CASE thread'[l].at = "lost" /\ thread'[l].uneven = thread[l].uneven /\ list[l] = <<>> /\ round[l] > 0
    BY <1>1, <2>0, <2>1
  <2>2. CASE \E v \in Seq(Id), n \in Nat :
                 /\ Walked(l, v, n) /\ thread'[l].count = n /\ round'[l] = Len(list[l])
                 /\ thread'[l].at = (IF n < Len(list[l]) THEN "remove" ELSE "wait")
    <3>1. PICK n \in Nat : /\ thread'[l].count = n /\ round'[l] = Len(list[l])
                           /\ thread'[l].at = (IF n < Len(list[l]) THEN "remove" ELSE "wait")
      BY <2>2
    <3>2. ~(list'[l] = <<>> /\ round'[l] > 0)
      BY <1>3, <2>0, <3>1
    <3> QED
      BY <2>0, <3>1, <3>2
  <2> QED
    BY <1>8, <2>1, <2>2, WalkSets
<1>9. CASE RemoveClosed(l)
  <2>1. thread[l].at = "remove" /\ thread'[l].at = "wait" /\ thread'[l].count = thread[l].count
    BY <1>9, RemovalIs DEF At
  <2>2. thread[l].count < Len(list[l])
    BY <1>1, <2>1
  <2>3. list'[l] = <<>> => thread[l].count = 0
    <3>1. CASE UNCHANGED list
      BY <1>2, <1>3, <2>2, <3>1
    <3>2. CASE Left(l, FirstClosed(l))
      <4>1. Len(list'[l]) = Len(list[l]) - 1
        BY <3>2 DEF Left
      <4>2. PICK m \in Nat, c \in Nat : m = Len(list[l]) /\ c = thread[l].count
        BY <1>2
      <4>3. list'[l] = <<>> => m - 1 = 0
        BY <1>4, <4>1, <4>2
      <4>4. c < m
        BY <2>2, <4>2
      <4>5. m - 1 = 0 => c = 0
        BY <4>4
      <4> QED
        BY <4>2, <4>3, <4>5
    <3> QED
      BY <1>9, <3>1, <3>2, RemoveClosedIs
  <2> QED
    BY <2>1, <2>3
<1>10. CASE Wait(l)
  <2>1. thread[l].at = "wait" /\ list'[l] = list[l] /\ round'[l] = round[l]
    BY <1>10, WaitIs DEF At, SameList
  <2>2. CASE thread'[l].at = "asleep" /\ thread'[l].count = thread[l].count
    BY <1>1, <2>1, <2>2
  <2>3. CASE ~Unchanged(l) /\ thread'[l].at = "drain" /\ thread'[l].uneven = (qfutex[l] # shadow[l])
    <3>1. thread[l].count = 0 => qfutex[l] # shadow[l]
      <4>1. ASSUME thread[l].count = 0 PROVE \A k \in 1..thread[l].count : squeue[SockOf(nr[l][k])] = <<>>
        <5>1. ~\E k : k \in 1..thread[l].count
          BY <4>1
        <5> QED
          BY <5>1
      <4> QED
        BY <2>3, <4>1 DEF Unchanged
    <3>2. (list'[l] = <<>> /\ round'[l] > 0) => thread[l].count = 0
      BY <1>1, <2>1
    <3> QED
      BY <2>3, <3>1, <3>2
  <2> QED
    BY <1>10, <2>2, <2>3, WaitIs
<1>11. CASE Woken(l)
  <2>1. /\ thread[l].at = "woken" /\ list'[l] = list[l] /\ round'[l] = round[l]
        /\ thread'[l].at = "drain" /\ thread'[l].uneven = (qfutex[l] # shadow[l])
    BY <1>11, WokenIs DEF At
  <2>2. thread[l].count = 0 => shadow[l] < qfutex[l]
    BY <1>0, <2>1 DEF CountInv, At
  <2>3. thread[l].count = 0 => qfutex[l] # shadow[l]
    BY <1>2, <2>2
  <2>4. (list'[l] = <<>> /\ round'[l] > 0) => thread[l].count = 0
    BY <1>1, <2>1
  <2> QED
    BY <2>1, <2>3, <2>4
<1> QED
  BY <1>5, <1>6, <1>7, <1>8, <1>9, <1>10, <1>11, Local

\* A socket that was mapped is open after a step only if it was before.
LEMMA NotReopened ==
  ASSUME IInv, [Next]_vars, NEW d \in Id, region[d] # None, d \in open'
  PROVE  d \in open
<1>1. CASE UNCHANGED open
  BY <1>1
<1>2. ASSUME MapSocket PROVE d \in open
  <2>1. CASE Skipped
    BY <2>1 DEF Skipped
  <2>2. ASSUME NEW e \in Id, NEW p \in Proc, Mapped(e, p) PROVE d \in open
    <3>1. region[e] = None /\ open' = open \union {e}
      BY <2>2 DEF Mapped
    <3> QED
      BY <3>1
  <2> QED
    BY <1>2, <2>1, <2>2, MapIs
<1>3. ASSUME NEW e \in Id, Close(e) PROVE d \in open
  BY <1>3 DEF Close
<1> QED
  BY <1>1, <1>2, <1>3, Frames DEF Framed, OpenStep

\* A thread sleeps only while it waits for everything.
LEMMA SleepStep ==
  ASSUME IInv, [Next]_vars
  PROVE  SleepInv'
<1>0. SleepInv /\ ThreadShape /\ PlaceInv /\ DiscShape
  BY DEF IInv, Shape
<1> SUFFICES ASSUME NEW l \in Level
             PROVE  /\ thread'[l].at \in {"remove", "wait", "asleep"} =>
                         /\ thread'[l].count <= Len(nr'[l])
                         /\ \A k \in 1..Len(list'[l]) : list'[l][k] \in open' =>
                              \E j \in 1..thread'[l].count : nr'[l][j] = list'[l][k]
                    /\ thread'[l].at = "asleep" =>
                         \A j \in 1..thread'[l].count : squeue'[<<region'[nr'[l][j]], nr'[l][j][2]>>] = <<>>
  BY DEF SleepInv, At, SockOf
<1>1. thread[l].at \in {"remove", "wait", "asleep"} =>
        /\ thread[l].count <= Len(nr[l])
        /\ \A k \in 1..Len(list[l]) : list[l][k] \in open => \E j \in 1..thread[l].count : nr[l][j] = list[l][k]
  BY <1>0 DEF SleepInv
<1>2. /\ Len(list[l]) \in Nat /\ Len(nr[l]) \in Nat /\ thread[l].count \in Nat
      /\ \A k \in 1..Len(list[l]) : list[l][k] \in Id /\ region[list[l][k]] # None
      /\ \A k \in 1..Len(nr[l]) : nr[l][k] \in Id /\ region[nr[l][k]] # None
  BY <1>0, Holds DEF ThreadShape, Thread, PlaceInv, Placed
<1>3. \A k \in 1..Len(list[l]) : list[l][k] \in open' => list[l][k] \in open
  BY <1>2, NotReopened
\* It waits for the open sockets of its list.
<1>4. ASSUME thread'[l].at \in {"remove", "wait", "asleep"}
      PROVE  /\ thread'[l].count <= Len(nr'[l])
             /\ \A k \in 1..Len(list'[l]) : list'[l][k] \in open' =>
                  \E j \in 1..thread'[l].count : nr'[l][j] = list'[l][k]
  <2>1. CASE Still(l)
    <3>1. thread'[l] = thread[l] /\ list'[l] = list[l] /\ nr'[l] = nr[l]
      BY <2>1 DEF Still, SameList
    <3> QED
      BY <1>1, <1>3, <1>4, <3>1
  <2>2. CASE Roused(l)
    BY <1>4, <2>2 DEF Roused
  <2>3. CASE AddNew(l)
    <3>1. thread[l].at = "drain" /\ UNCHANGED thread
      BY <2>3 DEF AddNew, At
    <3> QED
      BY <1>4, <3>1
  <2>4. CASE Walk(l)
    <3>1. thread'[l].at # "lost" /\ list'[l] = list[l]
      BY <1>4, <2>4, WalkSets
    <3>2. PICK v \in Seq(Id), n \in Nat : Walked(l, v, n) /\ thread'[l].count = n
      BY <2>4, <3>1, WalkSets
    <3>3. n <= Len(nr'[l]) /\ \A k \in 1..n : nr'[l][k] = v[k]
      BY <3>2, WalkedNr
    <3>4. \A j \in 1..Len(list[l]) : list[l][j] \in open => \E k \in 1..n : v[k] = list[l][j]
      BY <3>2 DEF Walked
    <3> QED
      BY <1>3, <3>1, <3>2, <3>3, <3>4
  <2>5. CASE RemoveClosed(l)
    <3>1. /\ thread[l].at = "remove" /\ thread'[l].count = thread[l].count /\ nr'[l] = nr[l]
      BY <2>5, RemovalIs DEF At
    <3>2. \A k \in 1..Len(list'[l]) : \E j \in 1..Len(list[l]) : list'[l][k] = list[l][j]
      <4>1. CASE UNCHANGED list
        BY <4>1
      <4>2. CASE Left(l, FirstClosed(l))
        <5>0. PICK c : c = FirstClosed(l)
          OBVIOUS
        <5>1. /\ Len(list'[l]) = Len(list[l]) - 1
              /\ \A k \in 1..(Len(list[l]) - 1) : list'[l][k] = IF k < c THEN list[l][k] ELSE list[l][k + 1]
          BY <4>2, <5>0 DEF Left
        <5>2. ASSUME NEW k \in 1..Len(list'[l]) PROVE \E j \in 1..Len(list[l]) : list'[l][k] = list[l][j]
          <6>1. k \in 1..(Len(list[l]) - 1) /\ k \in 1..Len(list[l]) /\ k + 1 \in 1..Len(list[l])
            BY <1>2, <5>1
          <6>2. list'[l][k] = list[l][k] \/ list'[l][k] = list[l][k + 1]
            BY <5>1, <6>1
          <6> QED
            BY <6>1, <6>2
        <5> QED
          BY <5>2
      <4> QED
        BY <2>5, <4>1, <4>2, RemoveClosedIs
    <3> QED
      BY <1>1, <1>3, <3>1, <3>2
  <2>6. CASE Wait(l)
    <3>1. /\ thread[l].at = "wait" /\ thread'[l].count = thread[l].count
          /\ list'[l] = list[l] /\ nr'[l] = nr[l]
      BY <1>4, <2>6, WaitIs DEF At, SameList
    <3> QED
      BY <1>1, <1>3, <3>1
  <2>7. CASE Woken(l)
    BY <1>4, <2>7, WokenIs
  <2> QED
    BY <2>1, <2>2, <2>3, <2>4, <2>5, <2>6, <2>7, Local
\* While it sleeps none of them has an operation.
<1>5. ASSUME thread'[l].at = "asleep"
      PROVE  \A j \in 1..thread'[l].count : squeue'[<<region'[nr'[l][j]], nr'[l][j][2]>>] = <<>>
  <2>1. CASE Still(l)
    <3>1. thread'[l] = thread[l] /\ nr'[l] = nr[l] /\ thread[l].at = "asleep"
      BY <1>5, <2>1 DEF Still, SameList
    <3>2. SUFFICES ASSUME NEW j \in 1..thread[l].count
                   PROVE  squeue'[<<region'[nr[l][j]], nr[l][j][2]>>] = <<>>
      BY <3>1
    <3>3. PICK d \in Id : d = nr[l][j] /\ region[d] # None
      <4>1. j \in 1..Len(nr[l])
        BY <1>1, <1>2, <3>1
      <4> QED
        BY <1>2, <4>1
    <3>4. region'[d] = region[d]
      BY <3>3, Stays
    <3>5. PICK s \in Sock : s = SockOf(d) /\ squeue[s] = <<>>
      <4>1. SockOf(d) \in Sock
        BY <1>0, <3>3, SockOfIs DEF DiscShape
      <4>2. squeue[SockOf(d)] = <<>>
        BY <1>0, <3>1, <3>3 DEF SleepInv, At
      <4> QED
        BY <4>1, <4>2
    <3>6. squeue'[s] = <<>>
      <4>1. ASSUME SubmitStep PROVE squeue'[s] = squeue[s]
        <5>1. PICK p \in Proc, i \in Idx, kind \in Kinds : Submit(p, i, kind)
          BY <4>1 DEF SubmitStep
        <5>2. SockOf(nr[l][j]) # <<p, i>>
          BY <1>5, <5>1, SubmitIs
        <5>3. s # <<p, i>>
          BY <3>3, <3>5, <5>2
        <5> QED
          BY <5>1, <5>3, SubmitIs
      <4> QED
        BY <3>5, <4>1, SqueueMoves
    <3>7. <<region'[nr[l][j]], nr[l][j][2]>> = s
      BY <3>3, <3>4, <3>5 DEF SockOf
    <3> QED
      BY <3>6, <3>7
  <2>2. CASE Roused(l)
    BY <1>5, <2>2 DEF Roused
  <2>3. CASE AddNew(l)
    <3>1. thread[l].at = "drain" /\ UNCHANGED thread
      BY <2>3 DEF AddNew, At
    <3> QED
      BY <1>5, <3>1
  <2>4. CASE Walk(l)
    <3>1. thread'[l].at \in {"lost", "remove", "wait"}
      BY <2>4, WalkSets
    <3> QED
      BY <1>5, <3>1
  <2>5. CASE RemoveClosed(l)
    BY <1>5, <2>5, RemovalIs
  <2>6. CASE Wait(l)
    <3>1. /\ Unchanged(l) /\ thread'[l].count = thread[l].count /\ nr'[l] = nr[l]
          /\ UNCHANGED <<squeue, region>>
      BY <1>5, <2>6, WaitIs DEF SameList
    <3>2. \A k \in 1..thread[l].count : squeue[<<region[nr[l][k]], nr[l][k][2]>>] = <<>>
      BY <3>1 DEF Unchanged, SockOf
    <3> QED
      BY <3>1, <3>2
  <2>7. CASE Woken(l)
    BY <1>5, <2>7, WokenIs
  <2> QED
    BY <2>1, <2>2, <2>3, <2>4, <2>5, <2>6, <2>7, Local
<1> QED
  BY <1>4, <1>5

(***************************************************************************)
(* The theorems                                                            *)
(***************************************************************************)

\* The invariant holds in every state the stack and the applications reach:
\* every step of pifus.c, discovery.c, prio_thread.c and close.c preserves it.
THEOREM Invariance == Spec => []IInv
<1>1. Init => IInv
  BY InitIInv
<1>2. IInv /\ [Next]_vars => IInv'
  <2> SUFFICES ASSUME IInv, [Next]_vars PROVE IInv'
    OBVIOUS
  <2>1. AppShape' /\ DiscShape' /\ ThreadShape'
    BY AppShapeStep, DiscShapeStep, ThreadShapeStep
  <2>2. NameInv' /\ AppInv' /\ RegionInv' /\ LateInv' /\ DiscInv'
    BY NameStep, AppInvStep, RegionStep, LateStep, DiscInvStep
  <2>3. PlaceInv' /\ UniqueInv' /\ CoverInv'
    BY PlaceStep, UniqueStep, CoverStep
  <2>4. CountInv' /\ IterInv' /\ SleepInv'
    BY CountStep, IterInvStep, SleepStep
  <2> QED
    BY <2>1, <2>2, <2>3, <2>4 DEF IInv, Shape
<1> QED
  BY <1>1, <1>2, PTL DEF Spec

\* A place of a socket is an entry of a queue or of a list.
LEMMA PlacesAre ==
  ASSUME ThreadShape, NEW d
  PROVE  /\ \A x \in Places(d) : \E l \in Level :
              \/ \E k \in 1..Len(queue[l]) : x = <<"queue", l, k>> /\ queue[l][k] = d
              \/ \E k \in 1..Len(list[l]) : x = <<"list", l, k>> /\ list[l][k] = d
         /\ \A l \in Level : \A k \in 1..Len(queue[l]) : queue[l][k] = d => <<"queue", l, k>> \in Places(d)
         /\ \A l \in Level : \A k \in 1..Len(list[l]) : list[l][k] = d => <<"list", l, k>> \in Places(d)
<1>1. \A l \in Level : DOMAIN queue[l] = 1..Len(queue[l]) /\ DOMAIN list[l] = 1..Len(list[l])
  BY Holds, LenProperties
<1> DEFINE Q(l) == {<<"queue", l, k>> : k \in {j \in DOMAIN queue[l] : queue[l][j] = d}}
           L(l) == {<<"list", l, k>> : k \in {j \in DOMAIN list[l] : list[l][j] = d}}
<1>2. Places(d) = (UNION {Q(l) : l \in Level}) \union (UNION {L(l) : l \in Level})
  BY Zenon DEF Places
<1>3. ASSUME NEW x \in Places(d)
      PROVE  \E l \in Level : \/ \E k \in 1..Len(queue[l]) : x = <<"queue", l, k>> /\ queue[l][k] = d
                              \/ \E k \in 1..Len(list[l]) : x = <<"list", l, k>> /\ list[l][k] = d
  <2>1. PICK l \in Level : x \in Q(l) \/ x \in L(l)
    <3> HIDE DEF Q, L
    <3>1. x \in UNION {Q(l) : l \in Level} \/ x \in UNION {L(l) : l \in Level}
      BY <1>2
    <3>2. ASSUME x \in UNION {Q(l) : l \in Level} PROVE \E l \in Level : x \in Q(l)
      BY <3>2
    <3>3. ASSUME x \in UNION {L(l) : l \in Level} PROVE \E l \in Level : x \in L(l)
      BY <3>3
    <3> QED
      BY <3>1, <3>2, <3>3
  <2>2. ASSUME x \in Q(l) PROVE \E k \in 1..Len(queue[l]) : x = <<"queue", l, k>> /\ queue[l][k] = d
    BY <1>1, <2>2, Zenon
  <2>3. ASSUME x \in L(l) PROVE \E k \in 1..Len(list[l]) : x = <<"list", l, k>> /\ list[l][k] = d
    BY <1>1, <2>3, Zenon
  <2> HIDE DEF Q, L
  <2> QED
    BY <2>1, <2>2, <2>3, Zenon
<1>4. ASSUME NEW l \in Level, NEW k \in 1..Len(queue[l]), queue[l][k] = d PROVE <<"queue", l, k>> \in Places(d)
  <2>1. <<"queue", l, k>> \in Q(l)
    BY <1>1, <1>4, Zenon
  <2> HIDE DEF Q, L
  <2>2. <<"queue", l, k>> \in UNION {Q(m) : m \in Level}
    BY <2>1
  <2> QED
    BY <1>2, <2>2
<1>5. ASSUME NEW l \in Level, NEW k \in 1..Len(list[l]), list[l][k] = d PROVE <<"list", l, k>> \in Places(d)
  <2>1. <<"list", l, k>> \in L(l)
    BY <1>1, <1>5, Zenon
  <2> HIDE DEF Q, L
  <2>2. <<"list", l, k>> \in UNION {L(m) : m \in Level}
    BY <2>1
  <2> QED
    BY <1>2, <2>2
<1> QED
  BY <1>3, <1>4, <1>5

\* From the moment it is mapped until it is closed a socket is in one queue or
\* list and once, unless its queue was full: map_new_sockets adds none twice, and
\* ListRemove takes out none that is open.
THEOREM Watched == Spec => []WatchedOnce
<1>1. ASSUME IInv PROVE WatchedOnce
  <2>0. /\ AppShape /\ DiscShape /\ ThreadShape /\ AppInv /\ UniqueInv /\ CoverInv /\ CountInv
    BY <1>1 DEF IInv, Shape
  <2>1. TypeOK
    <3>1. \A l \in Level : thread[l].at \in {"drain", "remove", "wait", "asleep", "woken", "lost"}
      BY <2>0 DEF ThreadShape, Thread
    <3> QED
      BY <2>0, <3>1 DEF TypeOK, AppShape, DiscShape, AppInv, CountInv
  <2>2. ASSUME NEW d \in Id, NEW x \in Places(d), NEW y \in Places(d) PROVE x = y
    <3>1. PICK l \in Level : \/ \E k \in 1..Len(queue[l]) : x = <<"queue", l, k>> /\ queue[l][k] = d
                             \/ \E k \in 1..Len(list[l]) : x = <<"list", l, k>> /\ list[l][k] = d
      BY <2>0, PlacesAre
    <3>2. PICK m \in Level : \/ \E k \in 1..Len(queue[m]) : y = <<"queue", m, k>> /\ queue[m][k] = d
                             \/ \E k \in 1..Len(list[m]) : y = <<"list", m, k>> /\ list[m][k] = d
      BY <2>0, PlacesAre
    <3>3. /\ \A i \in 1..Len(queue[l]), j \in 1..Len(queue[m]) : queue[l][i] = queue[m][j] => l = m /\ i = j
          /\ \A i \in 1..Len(list[l]), j \in 1..Len(list[m]) : list[l][i] = list[m][j] => l = m /\ i = j
          /\ \A i \in 1..Len(queue[l]), j \in 1..Len(list[m]) : queue[l][i] # list[m][j]
          /\ \A i \in 1..Len(queue[m]), j \in 1..Len(list[l]) : queue[m][i] # list[l][j]
      BY <2>0 DEF UniqueInv, OneEach, NoneShared
    <3> QED
      BY <3>1, <3>2, <3>3, Zenon
  <2>3. ASSUME NEW d \in Id
        PROVE  /\ Cardinality(Places(d)) <= 1
               /\ d \in open \ dropped /\ ~InHand(d) => Cardinality(Places(d)) = 1
    <3>1. CASE Places(d) = {}
      <4>1. ~(d \in open \ dropped /\ ~InHand(d))
        <5>1. ~HasPlace(d)
          BY <2>0, <3>1, PlacesAre DEF HasPlace
        <5> QED
          BY <2>0, <5>1 DEF CoverInv
      <4>2. Cardinality(Places(d)) = 0
        BY <3>1, FS_EmptySet
      <4> QED
        BY <4>1, <4>2
    <3>2. CASE Places(d) # {}
      <4>1. PICK x : x \in Places(d)
        BY <3>2
      <4>2. Places(d) = {x}
        BY <2>2, <4>1
      <4>3. Cardinality(Places(d)) = 1
        BY <4>2, FS_Singleton
      <4> QED
        BY <4>3
    <3> QED
      BY <3>1, <3>2
  <2> QED
    BY <2>1, <2>3 DEF WatchedOnce
<1> QED
  BY <1>1, Invariance, PTL

\* A priority thread that sleeps in futex_waitv has no new socket that was
\* announced, and no open socket in its list has an operation.
THEOREM NotMissed == Spec => []NoNewSocketMissed
<1>1. ASSUME IInv PROVE NoNewSocketMissed
  <2>0. ThreadShape /\ CountInv /\ SleepInv
    BY <1>1 DEF IInv, Shape
  <2>1. SUFFICES ASSUME NEW l \in Level, At(l, "asleep")
                 PROVE  /\ queue[l] # <<>> => disc.at = "announce" /\ disc.level = l
                        /\ \A k \in DOMAIN list[l] : list[l][k] \in open => squeue[SockOf(list[l][k])] = <<>>
    BY DEF NoNewSocketMissed
  <2>2. ASSUME queue[l] # <<>> PROVE disc.at = "announce" /\ disc.level = l
    <3>1. PICK q \in Nat, s \in Nat, f \in Nat : q = Len(queue[l]) /\ s = shadow[l] /\ f = qfutex[l]
      BY <2>0, Holds DEF ThreadShape
    <3>2. q # 0
      BY <2>0, <2>2, <3>1, Holds, EmptySeq
    <3>3. s + q <= f + (IF Announcing(l) THEN 1 ELSE 0) /\ f = s
      BY <2>0, <2>1, <3>1 DEF CountInv
    <3>4. Announcing(l)
      BY <3>2, <3>3
    <3> QED
      BY <3>4 DEF Announcing
  <2>3. ASSUME NEW k \in DOMAIN list[l], list[l][k] \in open PROVE squeue[SockOf(list[l][k])] = <<>>
    <3>1. k \in 1..Len(list[l])
      BY <2>0, Holds, LenProperties
    <3>2. thread[l].at \in {"remove", "wait", "asleep"}
      BY <2>1 DEF At
    <3>3. PICK j \in 1..thread[l].count : nr[l][j] = list[l][k]
      BY <2>0, <2>3, <3>1, <3>2 DEF SleepInv
    <3>4. squeue[SockOf(nr[l][j])] = <<>>
      BY <2>0, <2>1, <3>3 DEF SleepInv
    <3> QED
      BY <3>3, <3>4
  <2> QED
    BY <2>2, <2>3
<1> QED
  BY <1>1, Invariance, PTL

\* ListNext leaves the list for freed nodes only if the list was emptied and the
\* thread runs once more with a count of announcements that differs.
THEOREM StaysInList == Spec => []WalkStaysInList
<1>1. IInv => WalkStaysInList
  BY DEF IInv, IterInv, WalkStaysInList
<1> QED
  BY <1>1, Invariance, PTL

\* A socket mapped after pifus_socket was done with it is in the queue or the
\* list of its own priority and has its tcp_arg.
THEOREM LateMapped == Spec => []LateMappedRight
<1>1. ASSUME IInv PROVE LateMappedRight
  <2>0. ThreadShape /\ LateInv /\ PlaceInv
    BY <1>1 DEF IInv, Shape
  <2>1. ASSUME NEW d \in Id, region[d] # None, d \notin early, NEW x \in Places(d)
        PROVE  x[2] = want[SockOf(d)].prio
    <3>1. PICK l \in Level : \/ \E k \in 1..Len(queue[l]) : x = <<"queue", l, k>> /\ queue[l][k] = d
                             \/ \E k \in 1..Len(list[l]) : x = <<"list", l, k>> /\ list[l][k] = d
      BY <2>0, PlacesAre
    <3>2. x[2] = l
      BY <3>1
    <3>3. Placed(d, l)
      BY <2>0, <3>1 DEF PlaceInv
    <3> QED
      BY <2>1, <3>2, <3>3 DEF Placed
  <2> QED
    BY <2>0, <2>1 DEF LateMappedRight, LevelsOf, LateInv
<1> QED
  BY <1>1, Invariance, PTL

\* The app region in which block offsets of a socket are resolved is that of the
\* process that made the socket, unless the process of that app has exited.
THEOREM OneProcess == Spec => []OneProcessPerApp
<1>1. IInv => OneProcessPerApp
  BY DEF IInv, RegionInv, OneProcessPerApp
<1> QED
  BY <1>1, Invariance, PTL

=============================================================================
