---------------------------- MODULE BlockListener ----------------------------
(***************************************************************************)
(* BlockchainService: it follows the node's best block over a WebSocket,   *)
(* reads the events of every head announced to it and puts the userProfile *)
(* ones on the queue.  Each announcement starts a handler of its own, so   *)
(* the handlers of successive heads interleave at their awaits.            *)
(*                                                                         *)
(* The node, its block tree and the socket are the environment; the queue  *)
(* lives in Redis and survives the process.                                *)
(***************************************************************************)
EXTENDS Naturals, Sequences

CONSTANTS
  Blocks,     \* the block tree
  Genesis,    \* its root
  Chain,      \* Chain[b]: b and its ancestors
  Height,     \* Height[b]: its number
  NumEvents,  \* NumEvents[b]: how many userProfile events it holds
  Faults,     \* the faults that may happen, out of AllFaults
  MaxHeads    \* bound: heads announced

AllFaults == {"socket", "crash", "stop", "request"}

ASSUME ChainAssumption ==
  /\ Genesis \in Blocks
  /\ Chain \in [Blocks -> SUBSET Blocks]
  /\ \A b \in Blocks : {b, Genesis} \subseteq Chain[b]
  /\ Height \in [Blocks -> Nat]
  /\ \A b \in Blocks : \A a \in Chain[b] : Height[a] < Height[b] \/ a = b
  /\ NumEvents \in [Blocks -> Nat]
  /\ NumEvents[Genesis] = 0
  /\ Faults \subseteq AllFaults
  /\ MaxHeads \in Nat

VARIABLES
  best,   \* the node's best block
  conn,   \* the service: "off", "lost", "up" or "stopped"
  heads,  \* the heads announced, each with what its handler is doing
  queue   \* the jobs put on the queue, oldest first

vars == <<best, conn, heads, queue>>

Announcement == [block: Blocks, next: Nat,
                 at: {"getBlock", "getEvents", "adding", "done", "failed"}]
Job == [head: Nat, block: Blocks, index: Nat]

-----------------------------------------------------------------------------
Ended == {"done", "failed"}
Running(h) == heads[h].at \notin Ended

(* The callback of subscribeNewHeads starts, and awaits getBlock.          *)
Handler(b) == [block |-> b, at |-> "getBlock", next |-> 1]
Announced(b) == Append(heads, Handler(b))

(* The service has just subscribed, at the start of the chain.             *)
Init == best = Genesis /\ conn = "up" /\ heads = <<Handler(Genesis)>> /\ queue = <<>>

(* The node imports a block that makes a longer chain than its best.  The  *)
(* blocks of a branch that were not best when they came are not announced  *)
(* later.                                                                  *)
NewBest(b) ==
  /\ Height[b] = Height[best] + 1
  /\ best' = b
  /\ IF conn = "up"
     THEN Len(heads) < MaxHeads /\ heads' = Announced(b)
     ELSE UNCHANGED heads
  /\ UNCHANGED <<conn, queue>>

(* onModuleInit, or the provider's own reconnection: the node answers a    *)
(* subscription with its present head.                                     *)
Subscribe ==
  /\ conn \in {"off", "lost"}
  /\ conn' = "up"
  /\ heads' = Announced(best)
  /\ UNCHANGED <<best, queue>>

(* The block has arrived, and its events are asked for.                    *)
BlockArrives(h) ==
  /\ heads[h].at = "getBlock"
  /\ conn = "up"
  /\ heads' = [heads EXCEPT ![h].at = "getEvents"]
  /\ UNCHANGED <<best, conn, queue>>

(* Where the loop over a block's events stands once `n` - 1 are queued.    *)
LoopAt(head, n) ==
  [head EXCEPT !.at = IF n > NumEvents[head.block] THEN "done" ELSE "adding", !.next = n]

EventsArrive(h) ==
  /\ heads[h].at = "getEvents"
  /\ conn = "up"
  /\ heads' = [heads EXCEPT ![h] = LoopAt(@, 1)]
  /\ UNCHANGED <<best, conn, queue>>

(* await eventQueue.add(..): Redis takes the job, and the loop goes on.    *)
AddJob(h) ==
  /\ heads[h].at = "adding"
  /\ conn # "off"
  /\ queue' = Append(queue,
       [head |-> h, block |-> heads[h].block, index |-> heads[h].next])
  /\ heads' = [heads EXCEPT ![h] = LoopAt(@, @.next + 1)]
  /\ UNCHANGED <<best, conn>>

(* Mutant: an error costs one event and not the rest of the block.         *)
Skipped(head) ==
  IF head.at = "adding" THEN LoopAt(head, head.next + 1) ELSE [head EXCEPT !.at = "failed"]

(* Mutant: the error leaves the callback, an unhandled rejection.          *)
Escaped(head) == [head EXCEPT !.at = "rejected"]

(* The handler's catch: the error is logged and the rest of the block is   *)
(* not read.                                                               *)
Caught(head) == [head EXCEPT !.at = "failed"]

(* A request, or the addition of a job, fails.                             *)
HandlerFails(h) ==
  /\ Running(h)
  /\ "request" \in Faults
  /\ heads' = [heads EXCEPT ![h] = Caught(@)]
  /\ UNCHANGED <<best, conn, queue>>

(* Mutant: after a disconnect on purpose nothing rejects the requests.     *)
RejectsUnlessStopped == conn = "lost"

(* Without a connection the pending requests are rejected; once this.api   *)
(* is null the next one throws.                                            *)
RejectsRequests == conn # "up"

RequestRejected(h) ==
  /\ heads[h].at \in {"getBlock", "getEvents"}
  /\ RejectsRequests
  /\ heads' = [heads EXCEPT ![h] = Caught(@)]
  /\ UNCHANGED <<best, conn, queue>>

(* The bound leaves room for the subscription after a fault.               *)
HasRoom == Len(heads) < MaxHeads

(* The socket closes under the service.                                    *)
LoseSocket ==
  /\ "socket" \in Faults /\ HasRoom
  /\ conn = "up"
  /\ conn' = "lost"
  /\ UNCHANGED <<best, heads, queue>>

(* onModuleDestroy: unsubscribe, disconnect, api = null.                   *)
Stop ==
  /\ "stop" \in Faults /\ HasRoom
  /\ conn \in {"up", "lost"}
  /\ conn' = "stopped"
  /\ UNCHANGED <<best, heads, queue>>

(* The process ends, and its handlers with it.                             *)
Exit ==
  /\ conn = "stopped" \/ ("crash" \in Faults /\ HasRoom /\ conn # "off")
  /\ conn' = "off"
  /\ heads' = [h \in DOMAIN heads |->
                 IF Running(h) THEN [heads[h] EXCEPT !.at = "failed"] ELSE heads[h]]
  /\ UNCHANGED <<best, queue>>

Proceed(h) == BlockArrives(h) \/ EventsArrive(h) \/ AddJob(h) \/ RequestRejected(h)

Next ==
  \/ \E b \in Blocks : NewBest(b)
  \/ Subscribe
  \/ \E h \in DOMAIN heads : Proceed(h) \/ HandlerFails(h)
  \/ LoseSocket \/ Stop \/ Exit

Spec == Init /\ [][Next]_vars

(* The service connects when it can, and the node and Redis answer.        *)
Fairness ==
  /\ WF_vars(Subscribe)
  /\ \A h \in 1 .. MaxHeads : WF_vars(h \in DOMAIN heads /\ Proceed(h))

FairSpec == Spec /\ Fairness

-----------------------------------------------------------------------------
TypeOK ==
  /\ best \in Blocks
  /\ conn \in {"off", "lost", "up", "stopped"}
  /\ heads \in Seq(Announcement)
  /\ queue \in Seq(Job)

JobsOf(h) == {j \in DOMAIN queue : queue[j].head = h}

FirstEventsOf(h) ==
  LET added == heads[h].next - 1
  IN  /\ \A j \in JobsOf(h) : queue[j].block = heads[h].block /\ queue[j].index \in 1 .. added
      /\ \A j, k \in JobsOf(h) : j < k => queue[j].index < queue[k].index
      /\ \A i \in 1 .. added : \E j \in JobsOf(h) : queue[j].index = i
      /\ added <= NumEvents[heads[h].block]
      /\ heads[h].at = "done" => added = NumEvents[heads[h].block]

(* However handlers interleave, fail or are lost with the process, the     *)
(* jobs one announcement has put on the queue are the first events of its  *)
(* block, in the block's order, each once: an event is missing only        *)
(* together with all those after it.                                       *)
JobsAreAPrefix == \A h \in DOMAIN heads : FirstEventsOf(h)

(* Every handler comes to an end, connection or not.                       *)
HandlersEnd ==
  \A h \in 1 .. MaxHeads :
    (h \in DOMAIN heads /\ Running(h)) ~> (h \in DOMAIN heads /\ ~Running(h))

IsQueued(b, i) == \E j \in DOMAIN queue : queue[j].block = b /\ queue[j].index = i

(* "The event listener syncs automatically": every userProfile event of    *)
(* the best chain gets onto the queue, sooner or later.                    *)
ChainIsQueued ==
  <>[](\A b \in Chain[best] : \A i \in 1 .. NumEvents[b] : IsQueued(b, i))
=============================================================================
