------------------------- MODULE BlockListenerProofs -------------------------
(* What the listener puts on the queue, for any block tree, any number of  *)
(* announcements and any faults.                                           *)
EXTENDS BlockListener, TLAPS

(* A handler that waits for its events has added none, one that adds has   *)
(* something left to add, and a job belongs to an announcement that was    *)
(* made: a new one begins without jobs.                                    *)
HInv ==
  \A h \in DOMAIN heads :
    /\ heads[h].next >= 1
    /\ heads[h].at \in {"getBlock", "getEvents"} => heads[h].next = 1
    /\ heads[h].at = "adding" => heads[h].next <= NumEvents[heads[h].block]

QInv == \A j \in DOMAIN queue : queue[j].head \in DOMAIN heads

IInv == TypeOK /\ HInv /\ QInv /\ JobsAreAPrefix

LEMMA Heads ==
  ASSUME TypeOK, NEW h \in DOMAIN heads
  PROVE  /\ heads[h] \in Announcement /\ h \in Nat
         /\ heads[h].block \in Blocks /\ heads[h].next \in Nat
         /\ heads[h].at \in {"getBlock", "getEvents", "adding", "done", "failed"}
         /\ NumEvents[heads[h].block] \in Nat
<1>1. heads[h] \in Announcement /\ h \in Nat
  BY DEF TypeOK
<1>2. /\ heads[h].block \in Blocks /\ heads[h].next \in Nat
      /\ heads[h].at \in {"getBlock", "getEvents", "adding", "done", "failed"}
  BY <1>1 DEF Announcement
<1> QED BY <1>1, <1>2, ChainAssumption

(* What a step makes of an announcement.                                   *)
LEMMA LoopAtFacts ==
  ASSUME NEW r \in Announcement, NEW n \in Nat
  PROVE  /\ LoopAt(r, n) \in Announcement
         /\ LoopAt(r, n).block = r.block /\ LoopAt(r, n).next = n
         /\ LoopAt(r, n).at = IF n > NumEvents[r.block] THEN "done" ELSE "adding"
  BY DEF LoopAt, Announcement

LEMMA AtFacts ==
  ASSUME NEW r \in Announcement, NEW p \in {"getEvents", "failed"}
  PROVE  /\ [r EXCEPT !.at = p] \in Announcement
         /\ [r EXCEPT !.at = p].block = r.block /\ [r EXCEPT !.at = p].next = r.next
         /\ [r EXCEPT !.at = p].at = p
  BY DEF Announcement

LEMMA InitHolds == Init => IInv
<1> SUFFICES ASSUME Init PROVE IInv
  OBVIOUS
<1>1. Handler(Genesis) \in Announcement
  BY ChainAssumption DEF Handler, Announcement
<1>2. heads = <<Handler(Genesis)>> /\ queue = <<>> /\ best = Genesis /\ conn = "up"
  BY DEF Init
<1>3. TypeOK
  BY <1>1, <1>2, ChainAssumption DEF TypeOK
<1>4. DOMAIN heads = {1} /\ heads[1] = Handler(Genesis) /\ DOMAIN queue = {}
  BY <1>2
<1>5. NumEvents[Genesis] = 0
  BY ChainAssumption
<1>6. HInv /\ QInv
  BY <1>4 DEF HInv, QInv, Handler
<1>7. JobsAreAPrefix
  BY <1>4, <1>5 DEF JobsAreAPrefix, FirstEventsOf, JobsOf, Handler
<1> QED BY <1>3, <1>6, <1>7 DEF IInv

(* A new announcement leaves the others and the queue alone.               *)
LEMMA AnnouncementKeeps ==
  ASSUME IInv, NEW b \in Blocks, heads' = Announced(b), UNCHANGED queue,
         best' \in Blocks, conn' \in {"off", "lost", "up", "stopped"}
  PROVE  IInv'
<1> DEFINE n == Len(heads) + 1
<1>1. heads \in Seq(Announcement) /\ queue \in Seq(Job)
  BY DEF IInv, TypeOK
<1>2. Handler(b) \in Announcement
  BY DEF Handler, Announcement
<1>3. /\ heads' \in Seq(Announcement) /\ DOMAIN heads' = 1 .. n /\ DOMAIN heads = 1 .. Len(heads)
      /\ \A h \in DOMAIN heads : heads'[h] = heads[h]
      /\ heads'[n] = Handler(b) /\ Len(heads) \in Nat
  BY <1>1, <1>2 DEF Announced
<1>4. TypeOK'
  BY <1>1, <1>3 DEF TypeOK
<1>5. HInv'
  BY <1>3 DEF HInv, IInv, Handler
<1>6. QInv'
  BY <1>3 DEF QInv, IInv
<1>7. \A h \in DOMAIN heads : JobsOf(h)' = JobsOf(h)
  BY DEF JobsOf
<1>9. NumEvents[b] \in Nat
  BY ChainAssumption
<1>10. ASSUME NEW h \in DOMAIN heads PROVE FirstEventsOf(h)'
  BY <1>3, <1>7 DEF IInv, JobsAreAPrefix, FirstEventsOf
<1>11. ASSUME NEW h, h = n PROVE FirstEventsOf(h)'
  <2>1. JobsOf(h)' = {}
    BY <1>3, <1>11 DEF JobsOf, IInv, QInv
  <2>2. heads'[h].block = b /\ heads'[h].next = 1 /\ heads'[h].at = "getBlock"
    BY <1>3, <1>11 DEF Handler
  <2> QED BY <1>9, <2>1, <2>2 DEF FirstEventsOf
<1>12. JobsAreAPrefix'
  <2>1. \A h \in DOMAIN heads' : h \in DOMAIN heads \/ h = n
    BY <1>3
  <2> QED BY <1>10, <1>11, <2>1 DEF JobsAreAPrefix
<1> QED BY <1>4, <1>5, <1>6, <1>12 DEF IInv

(* Handlers that move to another await, or end, without a job added.       *)
LEMMA HandlersMove ==
  ASSUME IInv, UNCHANGED queue, best' \in Blocks, conn' \in {"off", "lost", "up", "stopped"},
         heads' \in Seq(Announcement), DOMAIN heads' = DOMAIN heads,
         \A h \in DOMAIN heads :
           /\ heads'[h].block = heads[h].block /\ heads'[h].next = heads[h].next
           /\ heads'[h].at \in {"getBlock", "getEvents"} => heads[h].next = 1
           /\ heads'[h].at = "adding" => heads[h].next <= NumEvents[heads[h].block]
           /\ heads'[h].at = "done" => heads[h].next - 1 = NumEvents[heads[h].block]
  PROVE  IInv'
<1>1. TypeOK' /\ HInv' /\ QInv'
  BY DEF IInv, TypeOK, HInv, QInv
<1>2. \A h \in DOMAIN heads : JobsOf(h)' = JobsOf(h)
  BY DEF JobsOf
<1>3. JobsAreAPrefix'
  BY <1>2 DEF IInv, JobsAreAPrefix, FirstEventsOf
<1> QED BY <1>1, <1>3 DEF IInv

(* The queue takes a job: the next event of a block that still has one.    *)
LEMMA AddJobKeeps ==
  ASSUME IInv, NEW h \in DOMAIN heads, AddJob(h) PROVE IInv'
<1> DEFINE job == [head |-> h, block |-> heads[h].block, index |-> heads[h].next]
           n == Len(queue) + 1
<1>1. /\ heads \in Seq(Announcement) /\ queue \in Seq(Job)
      /\ heads[h].at = "adding" /\ heads[h].next <= NumEvents[heads[h].block]
      /\ heads[h] \in Announcement /\ heads[h].block \in Blocks /\ heads[h].next \in Nat
      /\ h \in Nat /\ NumEvents[heads[h].block] \in Nat
  BY Heads DEF IInv, TypeOK, HInv, AddJob
<1> DEFINE moved == LoopAt(heads[h], heads[h].next + 1)
<1>2. /\ job \in Job /\ moved \in Announcement
      /\ moved.block = heads[h].block /\ moved.next = heads[h].next + 1
      /\ moved.at = IF heads[h].next + 1 > NumEvents[heads[h].block] THEN "done" ELSE "adding"
  <2>1. job \in Job
    BY <1>1 DEF Job
  <2>2. heads[h].next + 1 \in Nat
    BY <1>1
  <2> QED BY <1>1, <2>1, <2>2, LoopAtFacts
<1>3. /\ queue' \in Seq(Job) /\ DOMAIN queue' = 1 .. n /\ DOMAIN queue = 1 .. Len(queue)
      /\ \A j \in DOMAIN queue : queue'[j] = queue[j]
      /\ queue'[n] = job /\ n \in Nat /\ Len(queue) \in Nat
  BY <1>1, <1>2 DEF AddJob
<1>0. heads' = [heads EXCEPT ![h] = moved]
  BY DEF AddJob
<1> HIDE DEF moved
<1>4. /\ heads' \in Seq(Announcement) /\ DOMAIN heads' = DOMAIN heads
      /\ heads'[h] = moved
      /\ \A g \in DOMAIN heads : g # h => heads'[g] = heads[g]
  BY <1>0, <1>1, <1>2
<1>5. /\ heads'[h].block = heads[h].block /\ heads'[h].next = heads[h].next + 1
      /\ heads'[h].at = IF heads[h].next + 1 > NumEvents[heads[h].block] THEN "done" ELSE "adding"
  BY <1>2, <1>4
<1>6. TypeOK'
  BY <1>3, <1>4 DEF IInv, TypeOK, AddJob
<1>7. HInv'
  BY <1>1, <1>4, <1>5 DEF IInv, HInv
<1>8. QInv'
  BY <1>3, <1>4 DEF IInv, QInv
<1>9. ASSUME NEW g \in DOMAIN heads, g # h PROVE FirstEventsOf(g)'
  <2>1. JobsOf(g)' = JobsOf(g)
    BY <1>3, <1>9 DEF JobsOf
  <2>2. \A j \in JobsOf(g) : queue'[j] = queue[j]
    BY <1>3 DEF JobsOf
  <2> QED BY <1>4, <1>9, <2>1, <2>2 DEF IInv, JobsAreAPrefix, FirstEventsOf
<1>10. FirstEventsOf(h)'
  <2>1. JobsOf(h)' = JobsOf(h) \cup {n}
    BY <1>3 DEF JobsOf
  <2>2. /\ \A j \in JobsOf(h) : queue'[j] = queue[j] /\ j < n /\ j \in Nat
        /\ queue'[n].block = heads[h].block /\ queue'[n].index = heads[h].next
    BY <1>3 DEF JobsOf
  <2>3. /\ \A j \in JobsOf(h) :
             queue[j].block = heads[h].block /\ queue[j].index \in 1 .. heads[h].next - 1
        /\ \A j, k \in JobsOf(h) : j < k => queue[j].index < queue[k].index
        /\ \A i \in 1 .. heads[h].next - 1 : \E j \in JobsOf(h) : queue[j].index = i
        /\ heads[h].next >= 1
    BY DEF IInv, HInv, JobsAreAPrefix, FirstEventsOf
  <2> HIDE DEF n, job
  <2>4. \A j \in JobsOf(h)' :
          queue'[j].block = heads'[h].block /\ queue'[j].index \in 1 .. heads'[h].next - 1
    BY <1>1, <1>5, <2>1, <2>2, <2>3
  <2>5. \A j, k \in JobsOf(h)' : j < k => queue'[j].index < queue'[k].index
    <3> SUFFICES ASSUME NEW j \in JobsOf(h)', NEW k \in JobsOf(h)', j < k
                 PROVE  queue'[j].index < queue'[k].index
      OBVIOUS
    <3>1. j \in JobsOf(h)
      BY <1>3, <2>1, <2>2
    <3>2. CASE k = n
      BY <1>1, <2>2, <2>3, <3>1, <3>2
    <3>3. CASE k \in JobsOf(h)
      BY <2>2, <2>3, <3>1, <3>3
    <3> QED BY <2>1, <3>2, <3>3
  <2>6. \A i \in 1 .. heads'[h].next - 1 : \E j \in JobsOf(h)' : queue'[j].index = i
    <3> SUFFICES ASSUME NEW i \in 1 .. heads'[h].next - 1
                 PROVE  \E j \in JobsOf(h)' : queue'[j].index = i
      OBVIOUS
    <3>1. CASE i = heads[h].next
      BY <2>1, <2>2, <3>1
    <3>2. CASE i # heads[h].next
      <4>1. i \in 1 .. heads[h].next - 1
        BY <1>1, <1>5, <3>2
      <4> QED BY <2>1, <2>2, <2>3, <4>1
    <3> QED BY <3>1, <3>2
  <2>7. /\ heads'[h].next - 1 <= NumEvents[heads'[h].block]
        /\ heads'[h].at = "done" => heads'[h].next - 1 = NumEvents[heads'[h].block]
    BY <1>1, <1>5
  <2> QED BY <2>4, <2>5, <2>6, <2>7 DEF FirstEventsOf
<1>11. JobsAreAPrefix'
  BY <1>4, <1>9, <1>10 DEF JobsAreAPrefix
<1> QED BY <1>6, <1>7, <1>8, <1>11 DEF IInv

LEMMA NextHolds == IInv /\ [Next]_vars => IInv'
<1> SUFFICES ASSUME IInv, [Next]_vars PROVE IInv'
  OBVIOUS
<1>1. /\ heads \in Seq(Announcement) /\ best \in Blocks
      /\ conn \in {"off", "lost", "up", "stopped"}
      /\ \A h \in DOMAIN heads :
           /\ heads[h] \in Announcement /\ h \in Nat
           /\ heads[h].block \in Blocks /\ heads[h].next \in Nat
           /\ heads[h].at \in {"getBlock", "getEvents", "adding", "done", "failed"}
           /\ NumEvents[heads[h].block] \in Nat
  BY Heads DEF IInv, TypeOK
<1>2. ASSUME NEW b \in Blocks, NewBest(b) PROVE IInv'
  <2>1. CASE conn = "up"
    BY <1>1, <1>2, <2>1, AnnouncementKeeps DEF NewBest
  <2>2. CASE conn # "up"
    BY <1>1, <1>2, <2>2, HandlersMove DEF NewBest, IInv, HInv, JobsAreAPrefix, FirstEventsOf
  <2> QED BY <2>1, <2>2
<1>3. CASE Subscribe
  BY <1>1, <1>3, AnnouncementKeeps DEF Subscribe
<1>4. ASSUME NEW h \in DOMAIN heads, BlockArrives(h) PROVE IInv'
  <2> DEFINE r == [heads[h] EXCEPT !.at = "getEvents"]
  <2>1. heads' = [heads EXCEPT ![h] = r] /\ UNCHANGED <<best, conn, queue>>
    BY <1>4 DEF BlockArrives
  <2>2. /\ r \in Announcement /\ r.block = heads[h].block /\ r.next = heads[h].next
        /\ r.at = "getEvents" /\ heads[h].next = 1
    BY <1>1, <1>4, AtFacts DEF BlockArrives, IInv, HInv
  <2> HIDE DEF r
  <2> QED BY <1>1, <2>1, <2>2, HandlersMove DEF IInv, HInv, JobsAreAPrefix, FirstEventsOf
<1>5. ASSUME NEW h \in DOMAIN heads, EventsArrive(h) PROVE IInv'
  <2> DEFINE r == LoopAt(heads[h], 1)
  <2>1. heads' = [heads EXCEPT ![h] = r] /\ UNCHANGED <<best, conn, queue>>
    BY <1>5 DEF EventsArrive
  <2>2. /\ r \in Announcement /\ r.block = heads[h].block /\ r.next = 1 /\ heads[h].next = 1
        /\ r.at = IF 1 > NumEvents[heads[h].block] THEN "done" ELSE "adding"
    BY <1>1, <1>5, LoopAtFacts DEF EventsArrive, IInv, HInv
  <2> HIDE DEF r
  <2> QED BY <1>1, <2>1, <2>2, HandlersMove DEF IInv, HInv, JobsAreAPrefix, FirstEventsOf
<1>6. ASSUME NEW h \in DOMAIN heads, AddJob(h) PROVE IInv'
  BY <1>6, AddJobKeeps
<1>7. ASSUME NEW h \in DOMAIN heads, heads' = [heads EXCEPT ![h] = Caught(@)],
             UNCHANGED <<best, conn, queue>> PROVE IInv'
  <2> DEFINE r == Caught(heads[h])
  <2>1. r \in Announcement /\ r.block = heads[h].block /\ r.next = heads[h].next /\ r.at = "failed"
    BY <1>1, AtFacts DEF Caught
  <2>2. heads' = [heads EXCEPT ![h] = r]
    BY <1>7
  <2> HIDE DEF r
  <2> QED BY <1>1, <1>7, <2>1, <2>2, HandlersMove DEF IInv, HInv, JobsAreAPrefix, FirstEventsOf
<1>8. CASE LoseSocket \/ Stop
  BY <1>1, <1>8, HandlersMove DEF LoseSocket, Stop, IInv, HInv, JobsAreAPrefix, FirstEventsOf
<1>9. CASE Exit
  <2>1. /\ heads' = [h \in DOMAIN heads |->
                       IF Running(h) THEN [heads[h] EXCEPT !.at = "failed"] ELSE heads[h]]
        /\ conn' = "off" /\ UNCHANGED <<best, queue>>
    BY <1>9 DEF Exit
  <2>2. \A h \in DOMAIN heads :
          /\ heads'[h] \in Announcement
          /\ heads'[h].block = heads[h].block /\ heads'[h].next = heads[h].next
          /\ heads'[h].at = "failed" \/ heads'[h] = heads[h]
    BY <1>1, <2>1, AtFacts
  <2>3. DOMAIN heads' = DOMAIN heads /\ DOMAIN heads = 1 .. Len(heads) /\ Len(heads) \in Nat
    BY <1>1, <2>1
  <2>4. heads' \in Seq(Announcement)
    <3>1. heads' \in [1 .. Len(heads) -> Announcement]
      BY <2>1, <2>2, <2>3
    <3> QED BY <2>3, <3>1
  <2> QED BY <1>1, <2>1, <2>2, <2>3, <2>4, HandlersMove
          DEF IInv, HInv, JobsAreAPrefix, FirstEventsOf
<1>10. CASE UNCHANGED vars
  BY <1>1, <1>10, HandlersMove DEF vars, IInv, HInv, JobsAreAPrefix, FirstEventsOf
<1> QED BY <1>2, <1>3, <1>4, <1>5, <1>6, <1>7, <1>8, <1>9, <1>10
        DEF Next, Proceed, HandlerFails, RequestRejected

(* Types, and the bookkeeping of handlers and jobs, of every listener.     *)
THEOREM Invariant == Spec => []IInv
<1>1. Init => IInv
  BY InitHolds
<1>2. IInv /\ [Next]_vars => IInv'
  BY NextHolds
<1> QED BY <1>1, <1>2, PTL DEF Spec

(* BlockListener!TypeOK, for any block tree.                               *)
THEOREM TypeCorrect == Spec => []TypeOK
<1>1. IInv => TypeOK
  BY DEF IInv
<1> QED BY <1>1, Invariant, PTL

(* Whatever the interleaving of handlers and faults, an announcement's     *)
(* jobs are the first events of its block, in order and each once.         *)
THEOREM JobsInOrder == Spec => []JobsAreAPrefix
<1>1. IInv => JobsAreAPrefix
  BY DEF IInv
<1> QED BY <1>1, Invariant, PTL
=============================================================================
