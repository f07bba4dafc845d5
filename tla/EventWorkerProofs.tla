-------------------------- MODULE EventWorkerProofs --------------------------
(***************************************************************************)
(* The worker alone with its table: whatever fails, is retried or stalls,  *)
(* usernames stay unique, a job that is done has been carried out, and in  *)
(* calm weather every name on the chain arrives.                           *)
(***************************************************************************)
EXTENDS EventWorker, FiniteSetTheorems, TLAPS

Ids == Service!Ids
Row == Service!Row
Fields == [Columns -> Values]
Entity == [Columns -> Values \cup {Undef}]
JobType == [event: Events, at: Status, attempts: 0 .. MaxAttempts, stalls: 0 .. 2]
Request == [at: Service!Places, id: Ids \cup {0}, account: Accounts \cup {None},
            dto: Dtos \cup {Service!Blank}, entity: Entity,
            changed: SUBSET Columns, outcome: Service!Outcomes]

-----------------------------------------------------------------------------
(* The queue.  A job is in the list once and only while it waits, and one  *)
(* that is not settled has an attempt left.                                *)
Waiting(w) == {w[i] : i \in DOMAIN w}
Once(w) == \A i, k \in DOMAIN w : w[i] = w[k] => i = k

JobsOK ==
  /\ jobs \in Seq(JobType)
  /\ \A j \in DOMAIN jobs :
       /\ (jobs[j].at = "waiting") <=> (j \in Waiting(wait))
       /\ (jobs[j].at \in {"finding", "saving"}) <=> (active = j)
       /\ jobs[j].at \notin Settled => jobs[j].attempts < MaxAttempts /\ jobs[j].stalls < 2

QueueOK ==
  /\ JobsOK
  /\ wait \in Seq(Nat) /\ Once(wait) /\ Waiting(wait) \subseteq DOMAIN jobs
  /\ active \in {0} \cup DOMAIN jobs
  /\ At("saving") => Decodes(Job.event)

-----------------------------------------------------------------------------
(* The table, which only ever grows, and the name rules.                   *)
Bears(i, name) == users[i] # None /\ users[i].fields["username"] = name

TableOK ==
  /\ users \in [Ids -> Row \cup {None}]
  /\ nextId \in Nat \ {0}
  /\ \A i \in Ids : users[i] # None <=> i < nextId
  /\ \A i, j \in Ids :
       users[i] # None /\ users[j] # None /\ users[i].account = users[j].account => i = j
  /\ UsernamesUnique

(* Past its check a request has a name no row bears but its own.           *)
NameFree(r) ==
  Service!Truthy(r.entity["username"]) =>
    \A i \in Ids : Bears(i, r.entity["username"]) => i = r.id

Creates(r, job) ==
  /\ r.at \in {"findAccount", "findUsername", "insert"} /\ r.id = 0
  /\ r.account = job.event.account /\ r.dto = CreateDto(job)
  /\ r.entity = Service!Assigned(Service!Blank, r.dto)

Updates(r, job) ==
  /\ r.at \in {"findOne", "findUsername", "load", "update"}
  /\ r.id \in Ids /\ users[r.id] # None
  /\ users[r.id].account = job.event.account /\ r.dto = UpdateDto(job)
  /\ r.at # "findOne" => r.entity = Service!Assigned(users[r.id].fields, r.dto)
  /\ r.at = "update" =>
       r.changed = {k \in Columns : r.entity[k] \notin {Undef, users[r.id].fields[k]}}

Stored(job) ==
  LET given == CreateDto(job)
  IN  \E i \in Ids :
        /\ users[i] # None /\ users[i].account = job.event.account
        /\ \A k \in DOMAIN given : given[k] # Undef => users[i].fields[k] = given[k]

(* A request that is under way is that of the job being saved, and one     *)
(* that went well has stored it.                                           *)
RequestOK ==
  LET r == req[Worker]
  IN  /\ req \in [{Worker} -> Request]
      /\ r.at # "done" =>
           /\ At("saving") /\ (Creates(r, Job) \/ Updates(r, Job))
           /\ r.at \in {"load", "update", "insert"} => NameFree(r)
           /\ r.at = "findUsername" => Service!Truthy(Service!UsernameOf(r.dto))
      /\ r.at = "done" /\ r.outcome = "ok" /\ At("saving") => Stored(Job)

OtherOK == chain \in [Accounts -> Bytes \cup {None}] /\ faults \in 0 .. MaxFaults

IInv == QueueOK /\ TableOK /\ RequestOK /\ OtherOK

-----------------------------------------------------------------------------
(* The list of waiting jobs.                                               *)
LEMMA AppendWaits ==
  ASSUME NEW w \in Seq(Nat), Once(w), NEW j \in Nat \ Waiting(w)
  PROVE  LET v == Append(w, j)
         IN  v \in Seq(Nat) /\ Once(v) /\ Waiting(v) = Waiting(w) \cup {j}
<1> DEFINE v == Append(w, j)
<1>1. /\ v \in Seq(Nat) /\ Len(w) \in Nat /\ DOMAIN w = 1 .. Len(w)
      /\ DOMAIN v = 1 .. Len(w) + 1 /\ v[Len(w) + 1] = j
      /\ \A i \in DOMAIN w : v[i] = w[i]
  OBVIOUS
<1> HIDE DEF v
<1>2. \A i \in DOMAIN v : i \in DOMAIN w \/ i = Len(w) + 1
  BY <1>1
<1>3. Waiting(v) = Waiting(w) \cup {j}
  BY <1>1, <1>2 DEF Waiting
<1>4. \A i \in DOMAIN w : w[i] # j
  BY DEF Waiting
<1>5. Once(v)
  BY <1>1, <1>2, <1>4 DEF Once
<1> QED BY <1>1, <1>3, <1>5 DEF v

LEMMA PrependWaits ==
  ASSUME NEW w \in Seq(Nat), Once(w), NEW j \in Nat \ Waiting(w)
  PROVE  LET v == <<j>> \o w
         IN  v \in Seq(Nat) /\ Once(v) /\ Waiting(v) = Waiting(w) \cup {j}
<1> DEFINE v == <<j>> \o w
<1>1. /\ v \in Seq(Nat) /\ Len(w) \in Nat /\ DOMAIN w = 1 .. Len(w)
      /\ DOMAIN v = 1 .. Len(w) + 1 /\ v[1] = j
      /\ \A i \in DOMAIN w : v[i + 1] = w[i]
  OBVIOUS
<1> HIDE DEF v
<1>2. \A i \in DOMAIN v : i = 1 \/ (i - 1 \in DOMAIN w /\ v[i] = w[i - 1])
  <2> SUFFICES ASSUME NEW i \in DOMAIN v, i # 1 PROVE i - 1 \in DOMAIN w /\ v[i] = w[i - 1]
    OBVIOUS
  <2>1. i - 1 \in DOMAIN w /\ (i - 1) + 1 = i
    BY <1>1
  <2> QED BY <1>1, <2>1
<1>3. Waiting(v) = Waiting(w) \cup {j}
  <2>1. \A i \in DOMAIN w : i + 1 \in DOMAIN v
    BY <1>1
  <2>2. 1 \in DOMAIN v
    BY <1>1
  <2>3. ASSUME NEW i \in DOMAIN v PROVE v[i] \in Waiting(w) \cup {j}
    BY <1>1, <1>2 DEF Waiting
  <2>4. ASSUME NEW i \in DOMAIN w PROVE w[i] \in Waiting(v)
    BY <1>1, <2>1 DEF Waiting
  <2>5. j \in Waiting(v)
    BY <1>1, <2>2 DEF Waiting
  <2> QED BY <2>3, <2>4, <2>5 DEF Waiting
<1>4. \A i \in DOMAIN w : w[i] # j
  BY DEF Waiting
<1>5. Once(v)
  <2> SUFFICES ASSUME NEW i \in DOMAIN v, NEW k \in DOMAIN v, v[i] = v[k] PROVE i = k
    BY DEF Once
  <2>1. i \in Nat /\ k \in Nat
    BY <1>1
  <2>2. CASE i = 1 \/ k = 1
    BY <1>1, <1>2, <1>4, <2>2
  <2>3. CASE i # 1 /\ k # 1
    <3>1. i - 1 = k - 1
      BY <1>2, <2>3 DEF Once
    <3> QED BY <2>1, <3>1
  <2> QED BY <2>2, <2>3
<1> QED BY <1>1, <1>3, <1>5 DEF v

LEMMA TailWaits ==
  ASSUME NEW w \in Seq(Nat), Once(w), w # <<>>
  PROVE  /\ Tail(w) \in Seq(Nat) /\ Once(Tail(w)) /\ Head(w) \in Waiting(w)
         /\ Waiting(Tail(w)) = Waiting(w) \ {Head(w)}
<1> DEFINE v == Tail(w)
<1>1. /\ v \in Seq(Nat) /\ Len(w) \in Nat \ {0} /\ DOMAIN w = 1 .. Len(w)
      /\ DOMAIN v = 1 .. Len(w) - 1 /\ Head(w) = w[1]
      /\ \A i \in DOMAIN v : v[i] = w[i + 1]
  OBVIOUS
<1> HIDE DEF v
<1>2. \A i \in DOMAIN v : i \in Nat /\ i + 1 \in DOMAIN w /\ i + 1 # 1
  BY <1>1
<1>3. \A i \in DOMAIN w : i = 1 \/ (i - 1 \in DOMAIN v /\ v[i - 1] = w[i])
  <2> SUFFICES ASSUME NEW i \in DOMAIN w, i # 1 PROVE i - 1 \in DOMAIN v /\ v[i - 1] = w[i]
    OBVIOUS
  <2>1. i - 1 \in DOMAIN v /\ (i - 1) + 1 = i
    BY <1>1
  <2> QED BY <1>1, <2>1
<1>4. 1 \in DOMAIN w
  BY <1>1
<1>5. \A i \in DOMAIN v : v[i] # w[1]
  BY <1>1, <1>2, <1>4 DEF Once
<1>6. Waiting(v) = Waiting(w) \ {w[1]}
  <2>1. ASSUME NEW i \in DOMAIN v PROVE v[i] \in Waiting(w) \ {w[1]}
    BY <1>1, <1>2, <1>5 DEF Waiting
  <2>2. ASSUME NEW i \in DOMAIN w, w[i] # w[1] PROVE w[i] \in Waiting(v)
    BY <1>3, <2>2 DEF Waiting
  <2> QED BY <2>1, <2>2 DEF Waiting
<1>7. Once(v)
  <2> SUFFICES ASSUME NEW i \in DOMAIN v, NEW k \in DOMAIN v, v[i] = v[k] PROVE i = k
    BY DEF Once
  <2>1. i + 1 = k + 1
    BY <1>1, <1>2 DEF Once
  <2> QED BY <1>2, <2>1
<1> QED BY <1>1, <1>4, <1>6, <1>7 DEF v, Waiting

-----------------------------------------------------------------------------
(* One job goes on to another place of the queue.                          *)
LEMMA JobMoves ==
  ASSUME QueueOK, NEW j \in DOMAIN jobs, NEW r \in JobType,
         jobs' = [jobs EXCEPT ![j] = r], r.event = jobs[j].event,
         r.at \notin Settled => r.attempts < MaxAttempts /\ r.stalls < 2,
         r.at = "saving" => Decodes(r.event),
         r.at \in {"finding", "saving"} => active \in {0, j},
         active' = IF r.at \in {"finding", "saving"} THEN j
                   ELSE IF active = j THEN 0 ELSE active,
         wait' \in Seq(Nat), Once(wait'),
         Waiting(wait') = IF r.at = "waiting" THEN Waiting(wait) \cup {j} ELSE Waiting(wait) \ {j}
  PROVE  QueueOK'
<1>1. jobs' \in Seq(JobType) /\ DOMAIN jobs' = DOMAIN jobs
  BY DEF QueueOK, JobsOK
<1>2. jobs'[j] = r /\ \A k \in DOMAIN jobs : k # j => jobs'[k] = jobs[k]
  BY DEF QueueOK, JobsOK
<1>3. 0 \notin DOMAIN jobs
  BY DEF QueueOK, JobsOK
<1>4. ASSUME NEW k \in DOMAIN jobs
      PROVE  /\ (jobs'[k].at = "waiting") <=> (k \in Waiting(wait'))
             /\ (jobs'[k].at \in {"finding", "saving"}) <=> (active' = k)
             /\ jobs'[k].at \notin Settled => jobs'[k].attempts < MaxAttempts /\ jobs'[k].stalls < 2
  <2>1. CASE k = j
    BY <1>2, <1>3, <2>1
  <2>2. CASE k # j
    <3>1. jobs'[k] = jobs[k] /\ (k \in Waiting(wait') <=> k \in Waiting(wait))
      BY <1>2, <2>2
    <3>2. active' = k <=> active = k
      BY <1>3, <2>2
    <3> QED BY <3>1, <3>2 DEF QueueOK, JobsOK
  <2> QED BY <2>1, <2>2
<1>5. JobsOK'
  BY <1>1, <1>4 DEF JobsOK, Waiting
<1>6. Waiting(wait)' \subseteq DOMAIN jobs' /\ active' \in {0} \cup DOMAIN jobs'
  BY <1>1 DEF QueueOK, Waiting
<1>7. (At("saving") => Decodes(Job.event))'
  <2>1. CASE active' = j
    BY <1>2, <2>1 DEF At, Job
  <2>2. CASE active' # j
    BY <1>2, <2>2 DEF At, Job, QueueOK
  <2> QED BY <2>1, <2>2
<1> QED BY <1>5, <1>6, <1>7 DEF QueueOK, Once, Waiting

LEMMA JobFacts ==
  ASSUME QueueOK, NEW j \in DOMAIN jobs
  PROVE  /\ jobs[j] \in JobType /\ j \in Nat \ {0} /\ jobs[j].event \in Events
         /\ (jobs[j].at = "waiting") <=> (j \in Waiting(wait))
         /\ (jobs[j].at \in {"finding", "saving"}) <=> (active = j)
         /\ jobs[j].at \notin Settled => jobs[j].attempts < MaxAttempts /\ jobs[j].stalls < 2
<1>1. jobs[j] \in JobType /\ j \in Nat \ {0}
  BY DEF QueueOK, JobsOK
<1>2. jobs[j].event \in Events
  BY <1>1 DEF JobType
<1> QED BY <1>1, <1>2 DEF QueueOK, JobsOK

LEMMA AtMoves ==
  ASSUME NEW job \in JobType, NEW p \in Status
  PROVE  LET r == [job EXCEPT !.at = p]
         IN  /\ r \in JobType /\ r.at = p /\ r.event = job.event
             /\ r.attempts = job.attempts /\ r.stalls = job.stalls
  BY DEF JobType

LEMMA TakeJobKeepsQueue == ASSUME QueueOK, TakeJob PROVE QueueOK'
<1> DEFINE j == Head(wait)
           r == [jobs[j] EXCEPT !.at = "finding"]
<1>1. j \in Waiting(wait) /\ j \in DOMAIN jobs
  BY TailWaits DEF TakeJob, QueueOK
<1>2. jobs' = [jobs EXCEPT ![j] = r]
  BY DEF TakeJob
<1>3. /\ r \in JobType /\ r.at = "finding" /\ r.event = jobs[j].event
      /\ r.attempts = jobs[j].attempts /\ r.stalls = jobs[j].stalls
  BY <1>1, JobFacts, AtMoves DEF Status
<1>4. jobs[j].at \notin Settled
  BY <1>1, JobFacts DEF Settled
<1>5. r.attempts < MaxAttempts /\ r.stalls < 2
  BY <1>1, <1>3, <1>4, JobFacts
<1>6. wait' \in Seq(Nat) /\ Once(wait') /\ Waiting(wait') = Waiting(wait) \ {j}
  BY TailWaits DEF TakeJob, QueueOK
<1> HIDE DEF j, r
<1>7. active = 0 /\ active' = j
  BY DEF TakeJob, j
<1> QED BY <1>1, <1>2, <1>3, <1>5, <1>6, <1>7, JobMoves

(* The active job is left alone or leaves the worker.                      *)
LEMMA ActiveJobMoves ==
  ASSUME QueueOK, active # 0, NEW r \in JobType,
         jobs' = [jobs EXCEPT ![active] = r], r.event = Job.event, wait' = wait,
         r.at \notin Settled => r.attempts < MaxAttempts /\ r.stalls < 2,
         r.at = "saving" => Decodes(r.event),
         r.at \notin {"waiting", "finding"},
         active' = IF r.at = "saving" THEN active ELSE 0
  PROVE  QueueOK'
<1>1. active \in DOMAIN jobs /\ jobs[active].at \in {"finding", "saving"}
  BY JobFacts DEF QueueOK
<1>2. active \notin Waiting(wait)
  BY <1>1, JobFacts
<1>3. wait' \in Seq(Nat) /\ Once(wait') /\ Waiting(wait') = Waiting(wait) \ {active}
  BY <1>2 DEF QueueOK
<1> QED BY <1>1, <1>3, JobMoves DEF Job

LEMMA TriedFacts ==
  ASSUME QueueOK, active # 0
  PROVE  LET r == Tried(Job)
         IN  /\ r \in JobType /\ r.event = Job.event /\ r.at \in {"failed", "delayed"}
             /\ r.at \notin Settled => r.attempts < MaxAttempts /\ r.stalls < 2
<1> DEFINE n == Job.attempts + 1
           p == IF n = MaxAttempts THEN "failed" ELSE "delayed"
<1>1. active \in DOMAIN jobs
  BY DEF QueueOK
<1>2. /\ Job \in JobType /\ Job.at \notin Settled
      /\ Job.attempts < MaxAttempts /\ Job.stalls < 2
  BY <1>1, JobFacts DEF Job, Settled
<1>3. /\ Job.attempts \in Nat /\ n \in 0 .. MaxAttempts /\ (n # MaxAttempts => n < MaxAttempts)
      /\ p \in {"failed", "delayed"}
  BY <1>2, WorkerAssumption DEF JobType
<1>4. Tried(Job) = [Job EXCEPT !.attempts = n, !.at = p]
  BY DEF Tried
<1> HIDE DEF p, n
<1>5. LET r == Tried(Job)
      IN  r \in JobType /\ r.event = Job.event /\ r.at = p /\ r.attempts = n /\ r.stalls = Job.stalls
  BY <1>2, <1>3, <1>4 DEF JobType, Status
<1>6. p \notin Settled => n # MaxAttempts
  BY DEF p, Settled
<1> QED BY <1>2, <1>3, <1>5, <1>6

LEMMA TriedKeepsQueue ==
  ASSUME QueueOK, active # 0, jobs' = [jobs EXCEPT ![active] = Tried(@)],
         active' = 0, wait' = wait
  PROVE  QueueOK'
<1> DEFINE r == Tried(Job)
<1>1. jobs' = [jobs EXCEPT ![active] = r]
  BY DEF Job
<1>2. /\ r \in JobType /\ r.event = Job.event /\ r.at \in {"failed", "delayed"}
      /\ r.at \notin Settled => r.attempts < MaxAttempts /\ r.stalls < 2
  BY TriedFacts
<1> HIDE DEF r
<1> QED BY <1>1, <1>2, ActiveJobMoves

(* The active job goes on to be saved, is done or is left by a process.    *)
LEMMA ActiveGoesKeepsQueue ==
  ASSUME QueueOK, active # 0, NEW p \in {"saving", "done", "stalled"},
         jobs' = [jobs EXCEPT ![active].at = p], wait' = wait,
         p = "saving" => Decodes(Job.event),
         active' = IF p = "saving" THEN active ELSE 0
  PROVE  QueueOK'
<1> DEFINE r == [Job EXCEPT !.at = p]
<1>1. jobs' = [jobs EXCEPT ![active] = r]
  BY DEF Job
<1>2. active \in DOMAIN jobs
  BY DEF QueueOK
<1>3. /\ Job \in JobType /\ Job.attempts < MaxAttempts /\ Job.stalls < 2
  BY <1>2, JobFacts DEF Job, Settled
<1>4. /\ r \in JobType /\ r.at = p /\ r.event = Job.event
      /\ r.attempts = Job.attempts /\ r.stalls = Job.stalls
  <2>1. p \in Status
    BY DEF Status
  <2> QED BY <1>3, <2>1 DEF JobType
<1> HIDE DEF r
<1> QED BY <1>1, <1>3, <1>4, ActiveJobMoves

(* A delayed or stalled job is given back to the list, or given up.        *)
LEMMA PromoteKeepsQueue ==
  ASSUME QueueOK, NEW j \in DOMAIN jobs, Promote(j) PROVE QueueOK'
<1> DEFINE r == [jobs[j] EXCEPT !.at = "waiting"]
<1>1. /\ jobs[j] \in JobType /\ j \in Nat /\ j \notin Waiting(wait) /\ active # j
      /\ jobs[j].attempts < MaxAttempts /\ jobs[j].stalls < 2
  BY JobFacts DEF Promote, Settled
<1>2. /\ r \in JobType /\ r.at = "waiting" /\ r.event = jobs[j].event
      /\ r.attempts = jobs[j].attempts /\ r.stalls = jobs[j].stalls
  BY <1>1, AtMoves DEF Status
<1>3. jobs' = [jobs EXCEPT ![j] = r] /\ active' = active
  BY DEF Promote
<1>4. wait' \in Seq(Nat) /\ Once(wait') /\ Waiting(wait') = Waiting(wait) \cup {j}
  BY <1>1, AppendWaits DEF Promote, QueueOK
<1> HIDE DEF r
<1> QED BY <1>1, <1>2, <1>3, <1>4, JobMoves

LEMMA RecoverStalledKeepsQueue ==
  ASSUME QueueOK, NEW j \in DOMAIN jobs, RecoverStalled(j) PROVE QueueOK'
<1> DEFINE n == jobs[j].stalls + 1
           p == IF jobs[j].stalls = 0 THEN "waiting" ELSE "failed"
           r == [jobs[j] EXCEPT !.stalls = n, !.at = p]
<1>1. /\ jobs[j] \in JobType /\ j \in Nat /\ j \notin Waiting(wait) /\ active # j
      /\ jobs[j].attempts < MaxAttempts /\ jobs[j].stalls < 2 /\ jobs[j].stalls \in 0 .. 2
  BY JobFacts DEF RecoverStalled, Settled, JobType
<1>2. n \in 0 .. 2 /\ p \in Status /\ (p = "waiting" => n < 2)
  BY <1>1 DEF Status
<1>3. jobs' = [jobs EXCEPT ![j] = r] /\ active' = active
  BY DEF RecoverStalled
<1>4. wait' \in Seq(Nat) /\ Once(wait')
      /\ Waiting(wait') = IF p = "waiting" THEN Waiting(wait) \cup {j} ELSE Waiting(wait) \ {j}
  <2>1. CASE jobs[j].stalls = 0
    BY <1>1, <2>1, PrependWaits DEF RecoverStalled, QueueOK
  <2>2. CASE jobs[j].stalls # 0
    BY <1>1, <2>2 DEF RecoverStalled, QueueOK
  <2> QED BY <2>1, <2>2
<1>6. p \in {"waiting", "failed"}
  OBVIOUS
<1> HIDE DEF n, p
<1>5. /\ r \in JobType /\ r.at = p /\ r.event = jobs[j].event
      /\ r.attempts = jobs[j].attempts /\ r.stalls = n
  BY <1>1, <1>2 DEF JobType
<1> HIDE DEF r
<1>7. r.at \notin Settled => r.attempts < MaxAttempts /\ r.stalls < 2
  BY <1>1, <1>2, <1>5, <1>6 DEF Settled
<1> QED BY <1>1, <1>3, <1>4, <1>5, <1>6, <1>7, JobMoves

LEMMA PublishKeepsQueue ==
  ASSUME QueueOK, NEW e \in Events, Publish(e)
  PROVE  QueueOK' /\ \A j \in DOMAIN jobs : jobs'[j] = jobs[j]
<1> DEFINE r == [event |-> e, at |-> "waiting", attempts |-> 0, stalls |-> 0]
           n == Len(jobs) + 1
<1>1. r \in JobType /\ 0 < MaxAttempts
  BY WorkerAssumption DEF JobType, Status
<1>2. jobs' = Append(jobs, r) /\ wait' = Append(wait, n) /\ active' = active
  BY DEF Publish
<1>3. /\ jobs' \in Seq(JobType) /\ DOMAIN jobs' = DOMAIN jobs \cup {n} /\ n \notin DOMAIN jobs
      /\ jobs'[n] = r /\ n \in Nat \ {0} /\ 0 \notin DOMAIN jobs
      /\ \A j \in DOMAIN jobs : jobs'[j] = jobs[j]
  BY <1>1, <1>2 DEF QueueOK, JobsOK
<1>4. n \notin Waiting(wait) /\ active # n
  BY <1>3 DEF QueueOK
<1>5. wait' \in Seq(Nat) /\ Once(wait') /\ Waiting(wait') = Waiting(wait) \cup {n}
  BY <1>2, <1>3, <1>4, AppendWaits DEF QueueOK
<1>6. r.at = "waiting" /\ r.attempts = 0 /\ r.stalls = 0
  OBVIOUS
<1> HIDE DEF n, r
<1>7. ASSUME NEW k \in DOMAIN jobs'
      PROVE  /\ (jobs'[k].at = "waiting") <=> (k \in Waiting(wait'))
             /\ (jobs'[k].at \in {"finding", "saving"}) <=> (active' = k)
             /\ jobs'[k].at \notin Settled => jobs'[k].attempts < MaxAttempts /\ jobs'[k].stalls < 2
  <2>1. CASE k = n
    BY <1>1, <1>2, <1>3, <1>4, <1>5, <1>6, <2>1
  <2>2. CASE k \in DOMAIN jobs
    BY <1>2, <1>3, <1>5, <2>2, JobFacts
  <2> QED BY <1>3, <2>1, <2>2
<1>8. JobsOK'
  BY <1>3, <1>7 DEF JobsOK, Waiting
<1>9. (At("saving") => Decodes(Job.event))'
  BY <1>2, <1>3 DEF At, Job, QueueOK
<1> QED BY <1>2, <1>3, <1>5, <1>8, <1>9 DEF QueueOK, Once, Waiting

-----------------------------------------------------------------------------
(* DTOs and entities.                                                      *)
LEMMA IdsFacts == Ids = 1 .. MaxRows /\ MaxRows \in Nat /\ 0 \notin Ids /\ Service!NoId = 0
  BY TableAssumption, FS_CardinalityType DEF Ids, Service!Ids, MaxRows, Service!NoId

LEMMA DtoFacts ==
  ASSUME NEW dto \in Dtos
  PROVE  DOMAIN dto \subseteq Columns /\ \A k \in DOMAIN dto : dto[k] \in Values \cup {Undef}
  BY DEF Dtos

LEMMA JobsDtos ==
  ASSUME NEW job, job.event \in Events, Decodes(job.event)
  PROVE  /\ CreateDto(job) \in Dtos /\ UpdateDto(job) \in Dtos
         /\ \A k \in DOMAIN CreateDto(job) :
              k \in DOMAIN UpdateDto(job) /\ UpdateDto(job)[k] = CreateDto(job)[k]
<1> DEFINE e == job.event
<1>1. \A v \in Bytes \cup {Keep, None} : OrUndef(v) \in Values \cup {Undef}
  BY WorkerAssumption DEF OrUndef
<1>2. CASE e.kind = "UsernameSet"
  <2>1. e.username \in Bytes
    BY <1>2, WorkerAssumption
  <2>2. OrUndef(e.username) \in Values \cup {Undef}
    BY <1>1, <2>1
  <2>3. /\ [username |-> OrUndef(e.username)] \in [{"username"} -> Values \cup {Undef}]
        /\ [username |-> OrUndef(e.username), createdAtBlock |-> Block]
              \in [{"username", "createdAtBlock"} -> Values \cup {Undef}]
    BY <2>2, TableAssumption
  <2>4. CreateDto(job) \in Dtos /\ UpdateDto(job) \in Dtos
    BY <1>2, <2>3, TableAssumption DEF CreateDto, UpdateDto, Dtos
  <2> QED BY <1>2, <2>4 DEF CreateDto, UpdateDto
<1>3. CASE e.kind # "UsernameSet"
  <2>1. {e.username, e.bio} \subseteq Bytes \cup {Keep, None}
    BY <1>3, WorkerAssumption DEF Decodes
  <2>2. OrUndef(e.username) \in Values \cup {Undef} /\ OrUndef(e.bio) \in Values \cup {Undef}
    BY <1>1, <2>1
  <2>3. [username |-> OrUndef(e.username), bio |-> OrUndef(e.bio)]
           \in [{"username", "bio"} -> Values \cup {Undef}]
    BY <2>2
  <2>4. CreateDto(job) \in Dtos
    BY <1>3, <2>3, TableAssumption DEF CreateDto, Dtos
  <2> QED BY <1>3, <2>4 DEF UpdateDto
<1> QED BY <1>2, <1>3

LEMMA AssignedFacts ==
  ASSUME NEW entity \in Entity, NEW dto \in Dtos
  PROVE  LET a == Service!Assigned(entity, dto)
         IN  /\ a \in Entity
             /\ \A k \in DOMAIN dto : a[k] = dto[k]
             /\ \A k \in Columns \ DOMAIN dto : a[k] = entity[k]
<1>1. \A k \in Columns : (IF k \in DOMAIN dto THEN dto[k] ELSE entity[k]) \in Values \cup {Undef}
  BY DtoFacts DEF Entity
<1> QED BY <1>1, DtoFacts DEF Service!Assigned, Entity

LEMMA BlankFacts == Service!Blank \in Entity /\ \A k \in Columns : Service!Blank[k] = Undef
  BY DEF Service!Blank, Entity

LEMMA IdleFacts ==
  ASSUME NEW outcome \in Service!Outcomes
  PROVE  LET r == [Service!Idle EXCEPT !.outcome = outcome]
         IN  r \in Request /\ r.at = "done" /\ r.outcome = outcome
<1>1. Service!Idle \in Request /\ Service!Idle.at = "done"
  BY BlankFacts, IdsFacts DEF Request, Service!Idle, Service!Places, Service!Outcomes
<1> QED BY <1>1 DEF Request

LEMMA NameOfDto ==
  ASSUME NEW entity \in Entity, NEW dto \in Dtos
  PROVE  LET a == Service!Assigned(entity, dto)
             n == Service!UsernameOf(dto)
         IN  /\ Service!Truthy(n) => a["username"] = n
             /\ a["username"] = n \/ (n = Undef /\ a["username"] = entity["username"])
<1>1. ~Service!Truthy(Undef)
  BY DEF Service!Truthy
<1>2. "username" \in Columns
  BY TableAssumption
<1>3. CASE "username" \in DOMAIN dto
  <2>1. Service!UsernameOf(dto) = dto["username"]
    BY <1>3 DEF Service!UsernameOf
  <2> QED BY <1>3, <2>1, AssignedFacts
<1>4. CASE "username" \notin DOMAIN dto
  <2>1. Service!UsernameOf(dto) = Undef
    BY <1>4 DEF Service!UsernameOf
  <2> QED BY <1>1, <1>2, <1>4, <2>1, AssignedFacts
<1> QED BY <1>3, <1>4

LEMMA RowFacts ==
  ASSUME TableOK, NEW i \in Ids, users[i] # None
  PROVE  /\ users[i] \in Row /\ users[i].account \in Accounts
         /\ users[i].fields \in Fields /\ users[i].fields \in Entity
<1>1. users[i] \in Row
  BY DEF TableOK
<1>2. users[i].account \in Accounts /\ users[i].fields \in Fields
  BY <1>1 DEF Row, Service!Row, Fields
<1> QED BY <1>1, <1>2 DEF Fields, Entity

(* Rows are never deleted, so that an account without a row leaves an id   *)
(* free for it.                                                            *)
LEMMA FreshIdFits ==
  ASSUME TableOK, NEW a \in Accounts, ~Service!AccountTaken(a) PROVE nextId \in Ids
<1> SUFFICES ASSUME nextId \notin Ids PROVE FALSE
  OBVIOUS
<1> DEFINE f == [i \in Ids |-> users[i].account]
<1>1. \A i \in Ids : users[i] # None
  BY IdsFacts DEF TableOK
<1>2. f \in [Ids -> Accounts]
  BY <1>1, RowFacts
<1>3. f \in Injection(Ids, Accounts)
  BY <1>1, <1>2 DEF Injection, IsInjective, TableOK
<1>4. Cardinality(Ids) = Cardinality(Accounts)
  BY IdsFacts, FS_Interval DEF MaxRows
<1>5. f \in Surjection(Ids, Accounts)
  BY <1>3, <1>4, TableAssumption, FS_Injection
<1>6. PICK i \in Ids : f[i] = a
  BY <1>5 DEF Surjection
<1> QED BY <1>1, <1>6 DEF Service!AccountTaken, Ids

-----------------------------------------------------------------------------
(* The worker's request goes on while the table and the queue stay.        *)
LEMMA TableStays ==
  ASSUME TableOK, UNCHANGED <<users, nextId>> PROVE TableOK'
  BY DEF TableOK, UsernamesUnique, Service!UsernamesUnique

LEMMA RequestGoes ==
  ASSUME TableOK, RequestOK, At("saving"), UNCHANGED <<users, nextId, jobs, active>>,
         NEW r \in Request, req' = [req EXCEPT ![Worker] = r],
         r.at # "done" =>
           /\ Creates(r, Job) \/ Updates(r, Job)
           /\ r.at \in {"load", "update", "insert"} => NameFree(r)
           /\ r.at = "findUsername" => Service!Truthy(Service!UsernameOf(r.dto)),
         r.at = "done" /\ r.outcome = "ok" => Stored(Job)
  PROVE  TableOK' /\ RequestOK'
<1>1. req' \in [{Worker} -> Request] /\ req'[Worker] = r
  BY DEF RequestOK
<1>2. (At("saving"))' /\ Job' = Job
  BY DEF At, Job
<1>3. /\ Creates(r, Job) => Creates(req[Worker], Job)'
      /\ Updates(r, Job) => Updates(req[Worker], Job)'
  BY <1>1, <1>2 DEF Creates, Updates
<1>4. NameFree(r) => NameFree(req[Worker])'
  BY <1>1 DEF NameFree, Bears
<1>5. Stored(Job) => Stored(Job)'
  BY <1>2 DEF Stored
<1>6. RequestOK'
  BY <1>1, <1>2, <1>3, <1>4, <1>5 DEF RequestOK
<1> QED BY <1>6, TableStays

LEMMA Answers ==
  ASSUME TableOK, RequestOK, At("saving"), UNCHANGED <<users, nextId, jobs, active>>,
         NEW outcome \in Service!Outcomes, Service!Finish(Worker, outcome),
         outcome = "ok" => Stored(Job)
  PROVE  TableOK' /\ RequestOK'
<1> DEFINE r == [Service!Idle EXCEPT !.outcome = outcome]
<1>1. r \in Request /\ r.at = "done" /\ r.outcome = outcome
  BY IdleFacts
<1>2. req' = [req EXCEPT ![Worker] = r]
  BY DEF Service!Finish
<1> HIDE DEF r
<1> QED BY <1>1, <1>2, RequestGoes

(* What a request under way is.                                            *)
LEMMA UnderWay ==
  ASSUME IInv, req[Worker].at # "done"
  PROVE  LET r == req[Worker]
         IN  /\ r \in Request /\ At("saving") /\ (Creates(r, Job) \/ Updates(r, Job))
             /\ r.at \in {"load", "update", "insert"} => NameFree(r)
             /\ r.at = "findUsername" => Service!Truthy(Service!UsernameOf(r.dto))
             /\ Job.event \in Events /\ Decodes(Job.event) /\ Job.event.account \in Accounts
             /\ r.dto \in Dtos
             /\ \A k \in DOMAIN CreateDto(Job) :
                  k \in DOMAIN r.dto /\ r.dto[k] = CreateDto(Job)[k]
<1>1. /\ req[Worker] \in Request /\ At("saving")
      /\ Creates(req[Worker], Job) \/ Updates(req[Worker], Job)
  BY DEF IInv, RequestOK
<1>2. Job.event \in Events /\ Decodes(Job.event)
  BY <1>1, JobFacts DEF IInv, QueueOK, At, Job
<1>3. Job.event.account \in Accounts
  BY <1>2, WorkerAssumption
<1>4. req[Worker].dto \in {CreateDto(Job), UpdateDto(Job)}
  BY <1>1 DEF Creates, Updates
<1>5. /\ CreateDto(Job) \in Dtos /\ UpdateDto(Job) \in Dtos
      /\ \A k \in DOMAIN CreateDto(Job) :
           k \in DOMAIN UpdateDto(Job) /\ UpdateDto(Job)[k] = CreateDto(Job)[k]
  BY <1>2, JobsDtos
<1>6. /\ req[Worker].at \in {"load", "update", "insert"} => NameFree(req[Worker])
      /\ req[Worker].at = "findUsername" => Service!Truthy(Service!UsernameOf(req[Worker].dto))
  BY DEF IInv, RequestOK
<1> QED BY <1>1, <1>2, <1>3, <1>4, <1>5, <1>6

LEMMA FindAccountKeeps ==
  ASSUME IInv, Service!FindAccount(Worker), UNCHANGED <<jobs, active>>
  PROVE  TableOK' /\ RequestOK'
<1> DEFINE q == req[Worker]
           place == IF Service!Truthy(Service!UsernameOf(q.dto)) THEN "findUsername" ELSE "insert"
           r == [q EXCEPT !.at = place]
<1>1. TableOK /\ RequestOK /\ UNCHANGED <<users, nextId>> /\ q.at = "findAccount"
  BY DEF IInv, Service!FindAccount
<1>2. q \in Request /\ At("saving") /\ Creates(q, Job) /\ q.dto \in Dtos
  BY <1>1, UnderWay DEF Updates
<1>3. CASE Service!AccountTaken(q.account)
  BY <1>1, <1>2, <1>3, Answers DEF Service!FindAccount, Service!Outcomes
<1>4. CASE ~Service!AccountTaken(q.account)
  <2>1. req' = [req EXCEPT ![Worker] = r]
    BY <1>4 DEF Service!FindAccount, Service!Goto
  <2>2. place \in {"findUsername", "insert"}
    OBVIOUS
  <2>3. r \in Request /\ r.at = place /\ Creates(r, Job) /\ r.dto = q.dto /\ r.entity = q.entity
    BY <1>2, <2>2 DEF Request, Creates, Service!Places
  <2>4. place = "insert" => ~Service!Truthy(r.entity["username"])
    <3>1. q.entity = Service!Assigned(Service!Blank, q.dto)
      BY <1>2 DEF Creates
    <3>2. Service!Blank["username"] = Undef /\ ~Service!Truthy(Undef)
      BY BlankFacts, TableAssumption DEF Service!Truthy
    <3> QED BY <1>2, <2>3, <3>1, <3>2, BlankFacts, NameOfDto
  <2>5. place = "findUsername" => Service!Truthy(Service!UsernameOf(r.dto))
    BY <2>3
  <2> HIDE DEF place, r
  <2> QED BY <1>1, <1>2, <2>1, <2>2, <2>3, <2>4, <2>5, RequestGoes DEF NameFree
<1> QED BY <1>3, <1>4

LEMMA FindUsernameKeeps ==
  ASSUME IInv, Service!FindUsername(Worker), UNCHANGED <<jobs, active>>
  PROVE  TableOK' /\ RequestOK'
<1> DEFINE q == req[Worker]
           place == IF q.id = 0 THEN "insert" ELSE "load"
           r == [q EXCEPT !.at = place]
           name == Service!UsernameOf(q.dto)
<1>1. TableOK /\ RequestOK /\ UNCHANGED <<users, nextId>> /\ q.at = "findUsername"
  BY DEF IInv, Service!FindUsername
<1>2. /\ q \in Request /\ At("saving") /\ (Creates(q, Job) \/ Updates(q, Job))
      /\ q.dto \in Dtos /\ Service!Truthy(name)
  BY <1>1, UnderWay
<1>3. CASE Service!UsernameTaken(name)
  BY <1>1, <1>2, <1>3, Answers DEF Service!FindUsername, Service!Outcomes
<1>4. CASE ~Service!UsernameTaken(name)
  <2>1. req' = [req EXCEPT ![Worker] = r]
    BY <1>4, IdsFacts DEF Service!FindUsername, Service!Goto
  <2>2. place \in {"insert", "load"}
    OBVIOUS
  <2>3. /\ r \in Request /\ r.at = place /\ r.dto = q.dto /\ r.entity = q.entity /\ r.id = q.id
        /\ r.account = q.account
    BY <1>2, <2>2 DEF Request, Service!Places
  <2>4. Creates(r, Job) \/ Updates(r, Job)
    <3>1. CASE Creates(q, Job)
      <4>1. place = "insert"
        BY <3>1 DEF Creates
      <4> HIDE DEF r
      <4> QED BY <2>3, <3>1, <4>1 DEF Creates
    <3>2. CASE Updates(q, Job)
      <4>1. place = "load"
        BY <3>2, IdsFacts DEF Updates
      <4> HIDE DEF r
      <4> QED BY <1>1, <2>3, <3>2, <4>1 DEF Updates
    <3> QED BY <1>2, <3>1, <3>2
  <2>5. q.entity["username"] = name
    <3>1. CASE Creates(q, Job)
      BY <1>2, <3>1, BlankFacts, NameOfDto DEF Creates
    <3>2. CASE Updates(q, Job)
      <4>1. users[q.id].fields \in Entity
        BY <1>1, <3>2, RowFacts DEF Updates
      <4> QED BY <1>1, <1>2, <3>2, <4>1, NameOfDto DEF Updates
    <3> QED BY <1>2, <3>1, <3>2
  <2>6. NameFree(r)
    BY <1>4, <2>3, <2>5 DEF NameFree, Bears, Service!UsernameTaken, Ids
  <2> HIDE DEF place, r
  <2> QED BY <1>1, <1>2, <2>1, <2>2, <2>3, <2>4, <2>6, RequestGoes
<1> QED BY <1>3, <1>4

LEMMA FindOneKeeps ==
  ASSUME IInv, Service!FindOne(Worker), UNCHANGED <<jobs, active>>
  PROVE  TableOK' /\ RequestOK'
<1> DEFINE q == req[Worker]
           row == users[q.id]
           name == Service!UsernameOf(q.dto)
           place == IF Service!Truthy(name) /\ name # row.fields["username"]
                    THEN "findUsername" ELSE "load"
           entity == Service!Assigned(row.fields, q.dto)
           r == [q EXCEPT !.at = place, !.account = row.account, !.entity = entity]
<1>1. TableOK /\ RequestOK /\ UNCHANGED <<users, nextId>> /\ q.at = "findOne"
  BY DEF IInv, Service!FindOne
<1>2. q \in Request /\ At("saving") /\ Updates(q, Job) /\ q.dto \in Dtos
  BY <1>1, UnderWay DEF Creates
<1>3. q.id \in Ids /\ row # None /\ row.account \in Accounts /\ row.fields \in Entity
  BY <1>1, <1>2, RowFacts DEF Updates
<1>4. req' = [req EXCEPT ![Worker] = r]
  BY <1>1, <1>3 DEF Service!FindOne, RequestOK, Request
<1>5. place \in {"findUsername", "load"} /\ entity \in Entity
  BY <1>2, <1>3, AssignedFacts
<1>6. place = "load" => entity["username"] = row.fields["username"] \/ ~Service!Truthy(entity["username"])
  BY <1>2, <1>3, NameOfDto DEF Service!Truthy
<1>7. place = "findUsername" => Service!Truthy(name)
  OBVIOUS
<1>11. entity = Service!Assigned(row.fields, q.dto)
  OBVIOUS
<1> HIDE DEF place, entity
<1>8. /\ r \in Request /\ r.at = place /\ r.id = q.id /\ r.dto = q.dto
      /\ r.account = row.account /\ r.entity = entity
  BY <1>2, <1>3, <1>5 DEF Request, Service!Places
<1> HIDE DEF r
<1>9. Updates(r, Job)
  BY <1>2, <1>5, <1>8, <1>11 DEF Updates
<1>10. place = "load" => NameFree(r)
  <2> SUFFICES ASSUME place = "load", Service!Truthy(entity["username"]),
                      NEW i \in Ids, Bears(i, entity["username"])
               PROVE  i = q.id
    BY <1>8 DEF NameFree
  <2>1. Bears(q.id, entity["username"])
    BY <1>3, <1>6 DEF Bears
  <2> QED BY <1>1, <1>3, <2>1 DEF Bears, TableOK, UsernamesUnique, Service!UsernamesUnique, Ids
<1> QED BY <1>1, <1>2, <1>4, <1>5, <1>7, <1>8, <1>9, <1>10, RequestGoes

(* What an entity holds when nothing of it is left to be written.          *)
LEMMA NothingLeft ==
  ASSUME IInv, LET r == req[Worker]
               IN  /\ r.at \in {"load", "update"}
                   /\ \A k \in Columns : r.entity[k] \in {Undef, users[r.id].fields[k]}
  PROVE  Stored(Job)
<1> DEFINE q == req[Worker]
<1>1. TableOK /\ q.at \in {"load", "update"}
  BY DEF IInv
<1>2. /\ Updates(q, Job) /\ q.dto \in Dtos
      /\ \A k \in DOMAIN CreateDto(Job) : k \in DOMAIN q.dto /\ q.dto[k] = CreateDto(Job)[k]
  BY <1>1, UnderWay DEF Creates
<1>3. /\ q.id \in Ids /\ users[q.id] # None /\ users[q.id].fields \in Entity
      /\ users[q.id].account = Job.event.account
  BY <1>1, <1>2, RowFacts DEF Updates
<1>4. \A k \in DOMAIN q.dto : k \in Columns /\ q.entity[k] = q.dto[k]
  BY <1>1, <1>2, <1>3, AssignedFacts, DtoFacts DEF Updates
<1> QED BY <1>2, <1>3, <1>4 DEF Stored

LEMMA LoadKeeps ==
  ASSUME IInv, Service!Load(Worker), UNCHANGED <<jobs, active>>
  PROVE  TableOK' /\ RequestOK'
<1> DEFINE q == req[Worker]
           changed == {k \in Columns : q.entity[k] \notin {Undef, users[q.id].fields[k]}}
           r == [q EXCEPT !.at = "update", !.changed = changed]
<1>1. TableOK /\ RequestOK /\ UNCHANGED <<users, nextId>> /\ q.at = "load"
  BY DEF IInv, Service!Load
<1>2. q \in Request /\ At("saving") /\ Updates(q, Job) /\ NameFree(q)
  BY <1>1, UnderWay DEF Creates
<1>3. users[q.id] # None
  BY <1>2 DEF Updates
<1>4. CASE changed = {}
  <2>1. Stored(Job)
    BY <1>1, <1>4, NothingLeft
  <2>2. Service!Finish(Worker, "ok")
    BY <1>3, <1>4 DEF Service!Load
  <2> QED BY <1>1, <1>2, <2>1, <2>2, Answers DEF Service!Outcomes
<1>5. CASE changed # {}
  <2>1. req' = [req EXCEPT ![Worker] = r]
    BY <1>1, <1>3, <1>5 DEF Service!Load, RequestOK, Request
  <2>3. changed \in SUBSET Columns /\ changed = {k \in Columns : q.entity[k] \notin {Undef, users[q.id].fields[k]}}
    OBVIOUS
  <2> HIDE DEF changed
  <2>2. /\ r \in Request /\ r.at = "update" /\ r.id = q.id /\ r.dto = q.dto
        /\ r.account = q.account /\ r.entity = q.entity /\ r.changed = changed
    BY <1>2, <2>3 DEF Request, Service!Places
  <2> HIDE DEF r
  <2>4. Updates(r, Job)
    BY <1>1, <1>2, <2>2, <2>3 DEF Updates
  <2>5. NameFree(r)
    BY <1>2, <2>2 DEF NameFree
  <2> QED BY <1>1, <1>2, <2>1, <2>2, <2>4, <2>5, RequestGoes
<1> QED BY <1>4, <1>5

(* The two writes.                                                         *)
LEMMA WriteUpdateKeeps ==
  ASSUME IInv, Service!WriteUpdate(Worker), UNCHANGED <<jobs, active>>
  PROVE  TableOK' /\ RequestOK'
<1> DEFINE q == req[Worker]
           id == q.id
           row == users[id]
           fields == [k \in Columns |-> IF k \in q.changed THEN q.entity[k] ELSE row.fields[k]]
           written == [row EXCEPT !.fields = fields]
           answer == [Service!Idle EXCEPT !.outcome = "ok"]
<1>1. TableOK /\ RequestOK /\ nextId' = nextId /\ q.at = "update"
  BY DEF IInv, Service!WriteUpdate
<1>2. /\ q \in Request /\ At("saving") /\ Updates(q, Job) /\ NameFree(q) /\ q.dto \in Dtos
      /\ \A k \in DOMAIN CreateDto(Job) : k \in DOMAIN q.dto /\ q.dto[k] = CreateDto(Job)[k]
  BY <1>1, UnderWay DEF Creates
<1>3. /\ id \in Ids /\ row # None /\ row \in Row /\ row.fields \in Fields /\ row.fields \in Entity
      /\ row.account = Job.event.account
  BY <1>1, <1>2, RowFacts DEF Updates
<1>4. /\ q.entity = Service!Assigned(row.fields, q.dto) /\ q.entity \in Entity
      /\ \A k \in Columns : k \in q.changed <=> q.entity[k] \notin {Undef, row.fields[k]}
  BY <1>1, <1>2 DEF Updates, Request
<1>5. fields \in Fields
  <2>1. \A k \in Columns : (IF k \in q.changed THEN q.entity[k] ELSE row.fields[k]) \in Values
    BY <1>3, <1>4 DEF Entity, Fields
  <2> QED BY <2>1 DEF Fields
<1>6. \A k \in Columns : fields[k] = q.entity[k] \/ (q.entity[k] = Undef /\ fields[k] = row.fields[k])
  BY <1>4
<1>7. users' = [users EXCEPT ![id] = written]
  BY <1>1, <1>3 DEF Service!WriteUpdate, TableOK, Row, Service!Row
<1>8. req'[Worker].at = "done" /\ req' \in [{Worker} -> Request]
  BY <1>1, IdleFacts DEF Service!WriteUpdate, Service!Finish, RequestOK, Service!Outcomes
<1>9. (At("saving"))' /\ Job' = Job
  BY <1>2 DEF At, Job
<1>10. \A k \in DOMAIN q.dto : k \in Columns /\ q.entity[k] = q.dto[k]
  BY <1>2, <1>3, <1>4, AssignedFacts, DtoFacts
<1> HIDE DEF fields
<1>11. /\ written \in Row /\ written.account = row.account /\ written.fields = fields /\ written # None
  BY <1>3, <1>5, TableAssumption DEF Row, Service!Row, Fields
<1> HIDE DEF written
<1>12. /\ users' \in [Ids -> Row \cup {None}] /\ users'[id] = written
       /\ \A i \in Ids : i # id => users'[i] = users[i]
  BY <1>1, <1>3, <1>7, <1>11 DEF TableOK
<1>13. Stored(Job)'
  <2>1. \A k \in DOMAIN CreateDto(Job) : CreateDto(Job)[k] # Undef => fields[k] = CreateDto(Job)[k]
    BY <1>2, <1>6, <1>10
  <2> QED BY <1>3, <1>9, <1>11, <1>12, <2>1 DEF Stored
<1>14. RequestOK'
  BY <1>8, <1>9, <1>13 DEF RequestOK
<1>15. UsernamesUnique'
  <2> SUFFICES ASSUME NEW i \in Ids, NEW j \in Ids, i # j, users'[i] # None, users'[j] # None,
                      users'[i].fields["username"] = users'[j].fields["username"],
                      Service!Truthy(users'[i].fields["username"])
               PROVE  FALSE
    BY DEF UsernamesUnique, Service!UsernamesUnique, Ids
  <2>1. \A k \in Ids \ {id} : users[k] # None /\ users[k].fields["username"] = fields["username"]
             /\ Service!Truthy(fields["username"]) => FALSE
    <3> SUFFICES ASSUME NEW k \in Ids \ {id}, users[k] # None,
                        users[k].fields["username"] = fields["username"],
                        Service!Truthy(fields["username"])
                 PROVE  FALSE
      OBVIOUS
    <3>1. CASE fields["username"] = q.entity["username"]
      BY <1>2, <3>1 DEF NameFree, Bears
    <3>2. CASE fields["username"] = row.fields["username"]
      BY <1>1, <1>3, <3>2 DEF TableOK, UsernamesUnique, Service!UsernamesUnique, Ids
    <3> QED BY <1>6, <3>1, <3>2, TableAssumption
  <2>2. CASE i = id
    BY <1>11, <1>12, <2>1, <2>2
  <2>3. CASE j = id
    BY <1>11, <1>12, <2>1, <2>3
  <2>4. CASE i # id /\ j # id
    BY <1>1, <1>12, <2>4 DEF TableOK, UsernamesUnique, Service!UsernamesUnique, Ids
  <2> QED BY <2>2, <2>3, <2>4
<1>16. TableOK'
  BY <1>1, <1>3, <1>11, <1>12, <1>15 DEF TableOK
<1> QED BY <1>14, <1>16

LEMMA WriteInsertKeeps ==
  ASSUME IInv, Service!WriteInsert(Worker), UNCHANGED <<jobs, active>>
  PROVE  TableOK' /\ RequestOK'
<1> DEFINE q == req[Worker]
           row == [account |-> q.account, fields |-> Service!Inserted(q.entity)]
<1>1. TableOK /\ RequestOK /\ q.at = "insert"
  BY DEF IInv, Service!WriteInsert
<1>2. /\ q \in Request /\ At("saving") /\ Creates(q, Job) /\ NameFree(q) /\ q.dto \in Dtos
      /\ Job.event.account \in Accounts
      /\ \A k \in DOMAIN CreateDto(Job) : k \in DOMAIN q.dto /\ q.dto[k] = CreateDto(Job)[k]
  BY <1>1, UnderWay DEF Updates
<1>3. q.id = 0 /\ q.account = Job.event.account
      /\ q.entity = Service!Assigned(Service!Blank, q.dto) /\ q.entity \in Entity
  BY <1>2 DEF Creates, Request
<1>4. CASE ~Service!Insertable(nextId, q.account)
  BY <1>1, <1>2, <1>3, <1>4, IdsFacts, Answers DEF Service!WriteInsert, Service!FreshId, Service!Outcomes
<1>5. CASE Service!Insertable(nextId, q.account)
  <2>1. /\ users' = [users EXCEPT ![nextId] = row] /\ nextId' = nextId + 1
        /\ Service!Finish(Worker, "ok")
    BY <1>3, <1>5, IdsFacts DEF Service!WriteInsert, Service!FreshId
  <2>2. nextId \in Ids /\ nextId \in Nat
    BY <1>1, <1>2, <1>3, <1>5, FreshIdFits, IdsFacts DEF Service!Insertable
  <2>3. \A k \in Columns : Service!Inserted(q.entity)[k]
                             = IF q.entity[k] = Undef THEN Default[k] ELSE q.entity[k]
    BY DEF Service!Inserted
  <2>4. Service!Inserted(q.entity) \in Fields
    BY <1>3, TableAssumption DEF Service!Inserted, Fields, Entity
  <2>5. row \in Row /\ row.account = Job.event.account /\ row # None
        /\ row.fields = Service!Inserted(q.entity)
    BY <1>2, <1>3, <2>4, TableAssumption DEF Row, Service!Row, Fields
  <2> HIDE DEF row
  <2>6. /\ users' \in [Ids -> Row \cup {None}] /\ users'[nextId] = row
        /\ \A i \in Ids : i # nextId => users'[i] = users[i]
    BY <1>1, <2>1, <2>2, <2>5 DEF TableOK
  <2>7. req'[Worker].at = "done" /\ req' \in [{Worker} -> Request]
    BY <1>1, <2>1, IdleFacts DEF Service!Finish, RequestOK, Service!Outcomes
  <2>8. (At("saving"))' /\ Job' = Job
    BY <1>2 DEF At, Job
  <2>9. Stored(Job)'
    <3>1. \A k \in DOMAIN q.dto : k \in Columns /\ q.entity[k] = q.dto[k]
      BY <1>2, <1>3, AssignedFacts, BlankFacts, DtoFacts
    <3>2. \A k \in DOMAIN CreateDto(Job) :
            CreateDto(Job)[k] # Undef => row.fields[k] = CreateDto(Job)[k]
      BY <1>2, <2>3, <2>5, <3>1
    <3> QED BY <2>2, <2>5, <2>6, <2>8, <3>2 DEF Stored
  <2>10. RequestOK'
    BY <2>7, <2>8, <2>9 DEF RequestOK
  <2>11. \A i \in Ids : users[i] # None => users[i].account # row.account
    BY <1>3, <1>5, <2>5 DEF Service!Insertable, Service!AccountTaken, Ids
  <2>12. \A i \in Ids : users[i] # None /\ Service!Truthy(row.fields["username"])
           => users[i].fields["username"] # row.fields["username"]
    <3>1. "username" \in Columns /\ Default["username"] \in Falsy
      BY TableAssumption
    <3>2. CASE q.entity["username"] = Undef
      BY <2>3, <2>5, <3>1, <3>2 DEF Service!Truthy
    <3>3. CASE q.entity["username"] # Undef
      BY <1>2, <1>3, <2>3, <2>5, <3>1, <3>3, IdsFacts DEF NameFree, Bears
    <3> QED BY <3>2, <3>3
  <2>13. UsernamesUnique'
    <3> SUFFICES ASSUME NEW i \in Ids, NEW j \in Ids, i # j, users'[i] # None, users'[j] # None,
                        users'[i].fields["username"] = users'[j].fields["username"],
                        Service!Truthy(users'[i].fields["username"])
                 PROVE  FALSE
      BY DEF UsernamesUnique, Service!UsernamesUnique, Ids
    <3>1. CASE i = nextId
      BY <2>6, <2>12, <3>1
    <3>2. CASE j = nextId
      BY <2>6, <2>12, <3>2
    <3>3. CASE i # nextId /\ j # nextId
      BY <1>1, <2>6, <3>3 DEF TableOK, UsernamesUnique, Service!UsernamesUnique, Ids
    <3> QED BY <3>1, <3>2, <3>3
  <2>14. \A i \in Ids : users'[i] # None <=> i < nextId'
    BY <1>1, <2>1, <2>2, <2>5, <2>6, IdsFacts DEF TableOK
  <2>15. \A i, j \in Ids :
           users'[i] # None /\ users'[j] # None /\ users'[i].account = users'[j].account => i = j
    BY <1>1, <2>6, <2>11 DEF TableOK
  <2>16. TableOK'
    BY <2>1, <2>2, <2>6, <2>13, <2>14, <2>15 DEF TableOK
  <2> QED BY <2>10, <2>16
<1> QED BY <1>4, <1>5

LEMMA DatabaseErrorKeeps ==
  ASSUME IInv, Service!DatabaseError(Worker), UNCHANGED <<jobs, active>>
  PROVE  TableOK' /\ RequestOK'
<1>1. /\ TableOK /\ RequestOK /\ At("saving") /\ UNCHANGED <<users, nextId>>
      /\ Service!Finish(Worker, "dbError")
  BY UnderWay DEF IInv, Service!DatabaseError
<1> QED BY <1>1, Answers DEF Service!Outcomes

(* The handler has found the account's row, or none.                       *)
LEMMA FindUserKeeps ==
  ASSUME IInv, FindUser PROVE TableOK' /\ RequestOK'
<1>1. TableOK /\ RequestOK /\ QueueOK /\ active # 0 /\ active \in DOMAIN jobs
  BY DEF IInv, FindUser, At, QueueOK
<1>2. /\ Job \in JobType /\ Job.event \in Events /\ Decodes(Job.event)
      /\ Job.event.account \in Accounts
  BY <1>1, JobFacts, WorkerAssumption DEF FindUser, Job
<1>3. (At("saving"))' /\ Job'.event = Job.event
  BY <1>1, <1>2 DEF FindUser, At, Job, JobType, QueueOK, JobsOK
<1>4. CreateDto(Job) \in Dtos /\ UpdateDto(Job) \in Dtos
  BY <1>2, JobsDtos
<1>5. CreateDto(Job') = CreateDto(Job) /\ UpdateDto(Job') = UpdateDto(Job)
  BY <1>3 DEF CreateDto, UpdateDto
<1>6. ASSUME NEW i \in Ids, users[i] # None, users[i].account = Job.event.account,
             Service!Update(Worker, i, UpdateDto(Job))
      PROVE  TableOK' /\ RequestOK'
  <2> DEFINE r == [Service!Idle EXCEPT !.at = "findOne", !.id = i, !.dto = UpdateDto(Job)]
  <2>1. req' = [req EXCEPT ![Worker] = r] /\ UNCHANGED <<users, nextId>>
    BY <1>6 DEF Service!Update, Service!Begin
  <2>2. r \in Request /\ r.at = "findOne" /\ r.id = i /\ r.dto = UpdateDto(Job)
    BY <1>4, BlankFacts DEF Request, Service!Idle, Service!Places, Service!Outcomes
  <2> HIDE DEF r
  <2>3. req'[Worker] = r /\ req' \in [{Worker} -> Request]
    BY <1>1, <2>1, <2>2 DEF RequestOK
  <2>4. Updates(req[Worker], Job)'
    BY <1>3, <1>5, <1>6, <2>1, <2>2, <2>3 DEF Updates
  <2> QED BY <1>1, <1>3, <2>1, <2>2, <2>3, <2>4, TableStays DEF RequestOK
<1>7. ASSUME Service!Create(Worker, Job.event.account, CreateDto(Job))
      PROVE  TableOK' /\ RequestOK'
  <2> DEFINE e == Service!Assigned(Service!Blank, CreateDto(Job))
             r == [Service!Idle EXCEPT !.at = "findAccount", !.account = Job.event.account,
                                       !.dto = CreateDto(Job), !.entity = e]
  <2>1. req' = [req EXCEPT ![Worker] = r] /\ UNCHANGED <<users, nextId>>
    BY <1>7 DEF Service!Create, Service!Begin
  <2>2. e \in Entity
    BY <1>4, BlankFacts, AssignedFacts
  <2>5. e = Service!Assigned(Service!Blank, CreateDto(Job))
    OBVIOUS
  <2> HIDE DEF e
  <2>3. /\ r \in Request /\ r.at = "findAccount" /\ r.id = 0 /\ r.dto = CreateDto(Job)
        /\ r.account = Job.event.account /\ r.entity = e
    BY <1>2, <1>4, <2>2, IdsFacts DEF Request, Service!Idle, Service!Places, Service!Outcomes
  <2> HIDE DEF r
  <2>4. req'[Worker] = r /\ req' \in [{Worker} -> Request]
    BY <1>1, <2>1, <2>3 DEF RequestOK
  <2>6. Creates(req[Worker], Job)'
    BY <1>3, <1>5, <2>3, <2>4, <2>5 DEF Creates
  <2> QED BY <1>1, <1>3, <2>1, <2>3, <2>4, <2>6, TableStays DEF RequestOK
<1> QED BY <1>6, <1>7 DEF FindUser, Ids

-----------------------------------------------------------------------------
(* The queue moves while no request is under way, or moves other jobs than *)
(* the one whose request is.                                               *)
LEMMA ServiceRests ==
  ASSUME TableOK, RequestOK, UNCHANGED service,
         \/ req[Worker].at = "done" /\ ~(At("saving"))'
         \/ active' = active /\ (active # 0 => jobs'[active] = jobs[active])
  PROVE  TableOK' /\ RequestOK'
<1>1. TableOK'
  BY TableStays DEF service
<1>2. CASE req[Worker].at = "done" /\ ~(At("saving"))'
  <2>1. RequestOK'
    BY <1>2 DEF RequestOK, service
  <2> QED BY <1>1, <2>1
<1>3. CASE active' = active /\ (active # 0 => jobs'[active] = jobs[active])
  <2>1. (At("saving") <=> (At("saving"))') /\ (At("saving") => Job' = Job)
    BY <1>3 DEF At, Job
  <2>2. UNCHANGED <<users, nextId, req>>
    BY DEF service
  <2>3. NameFree(req[Worker]) => NameFree(req[Worker])'
    BY <2>2 DEF NameFree, Bears
  <2>4. At("saving") =>
          /\ Creates(req[Worker], Job) => Creates(req[Worker], Job)'
          /\ Updates(req[Worker], Job) => Updates(req[Worker], Job)'
          /\ Stored(Job) => Stored(Job)'
    BY <2>1, <2>2 DEF Creates, Updates, Stored
  <2>5. RequestOK'
    BY <2>1, <2>2, <2>3, <2>4 DEF RequestOK
  <2> QED BY <1>1, <2>5
<1> QED BY <1>2, <1>3

LEMMA NotSavingNotAsking ==
  ASSUME IInv, ~At("saving") PROVE req[Worker].at = "done"
  BY DEF IInv, RequestOK

LEMMA InitHolds == Init => IInv
<1> SUFFICES ASSUME Init PROVE IInv
  OBVIOUS
<1>1. jobs = <<>> /\ wait = <<>> /\ active = 0 /\ faults = 0
  BY DEF Init
<1>2. QueueOK
  <2>1. jobs \in Seq(JobType) /\ wait \in Seq(Nat) /\ DOMAIN jobs = {} /\ DOMAIN wait = {}
    BY <1>1
  <2> QED BY <1>1, <2>1 DEF QueueOK, JobsOK, Once, Waiting, At
<1>3. TableOK
  <2>1. users = [i \in Ids |-> None] /\ nextId = 1
    BY DEF Init, Service!Init, Ids
  <2> QED BY <2>1, IdsFacts DEF TableOK, UsernamesUnique, Service!UsernamesUnique, Ids
<1>4. RequestOK
  <2>1. req = [c \in {Worker} |-> Service!Idle]
    BY DEF Init, Service!Init
  <2>2. Service!Idle \in Request /\ Service!Idle.at = "done"
    BY BlankFacts, IdsFacts DEF Request, Service!Idle, Service!Places, Service!Outcomes
  <2> QED BY <1>1, <2>1, <2>2 DEF RequestOK, At
<1>5. OtherOK
  BY <1>1, WorkerAssumption DEF Init, OtherOK
<1> QED BY <1>2, <1>3, <1>4, <1>5 DEF IInv

LEMMA NextHolds == IInv /\ [Next]_vars => IInv'
<1> SUFFICES ASSUME IInv, [Next]_vars PROVE IInv'
  OBVIOUS
<1> USE DEF IInv
<1>1. ASSUME NEW e \in Events, Publish(e) PROVE IInv'
  <2>1. QueueOK' /\ \A j \in DOMAIN jobs : jobs'[j] = jobs[j]
    BY <1>1, PublishKeepsQueue
  <2>2. TableOK' /\ RequestOK'
    BY <1>1, <2>1, ServiceRests DEF Publish, QueueOK
  <2>3. NameAfter(e) \in Bytes \cup {None}
    BY WorkerAssumption DEF NameAfter, OtherOK, Names
  <2>4. OtherOK'
    BY <1>1, <2>3 DEF Publish, OtherOK
  <2> QED BY <2>1, <2>2, <2>4
<1>2. CASE TakeJob
  <2>1. QueueOK'
    BY <1>2, TakeJobKeepsQueue
  <2>2. req[Worker].at = "done"
    BY <1>2, NotSavingNotAsking DEF TakeJob, At
  <2>3. ~(At("saving"))'
    <3>1. Head(wait) \in DOMAIN jobs
      BY <1>2, TailWaits DEF TakeJob, QueueOK
    <3>2. jobs'[Head(wait)].at = "finding"
      BY <1>2, <3>1, JobFacts DEF TakeJob, JobType, QueueOK, JobsOK
    <3> QED BY <1>2, <3>2 DEF TakeJob, At, Job
  <2>4. TableOK' /\ RequestOK'
    BY <1>2, <2>2, <2>3, ServiceRests DEF TakeJob
  <2> QED BY <1>2, <2>1, <2>4 DEF TakeJob, OtherOK
<1>3. CASE FindUser
  <2>1. QueueOK'
    BY <1>3, ActiveGoesKeepsQueue DEF FindUser, At
  <2> QED BY <1>3, <2>1, FindUserKeeps DEF FindUser, OtherOK
<1>4. CASE Save
  <2>1. UNCHANGED <<chain, jobs, wait, active, faults>>
    BY <1>4 DEF Save
  <2>2. QueueOK' /\ OtherOK'
    BY <2>1 DEF QueueOK, JobsOK, OtherOK, At, Job
  <2>3. TableOK' /\ RequestOK'
    BY <1>4, <2>1, FindAccountKeeps, FindUsernameKeeps, FindOneKeeps, LoadKeeps,
       WriteUpdateKeeps, WriteInsertKeeps DEF Save
  <2> QED BY <2>2, <2>3
<1>5. CASE Complete
  <2>1. QueueOK'
    BY <1>5, ActiveGoesKeepsQueue DEF Complete, Answered, At
  <2>2. req[Worker].at = "done" /\ ~(At("saving"))'
    BY <1>5 DEF Complete, Answered, At
  <2> QED BY <1>5, <2>1, <2>2, ServiceRests DEF Complete, OtherOK
<1>6. CASE HandlerThrows
  <2>1. active # 0
    BY <1>6 DEF HandlerThrows, Answered, At
  <2>2. QueueOK'
    BY <1>6, <2>1, TriedKeepsQueue DEF HandlerThrows
  <2>3. req[Worker].at = "done" /\ ~(At("saving"))'
    BY <1>6, NotSavingNotAsking DEF HandlerThrows, Answered, At
  <2> QED BY <1>6, <2>2, <2>3, ServiceRests DEF HandlerThrows, OtherOK
<1>7. ASSUME NEW j \in DOMAIN jobs, Promote(j) \/ RecoverStalled(j) PROVE IInv'
  <2>1. QueueOK'
    BY <1>7, PromoteKeepsQueue, RecoverStalledKeepsQueue
  <2>2. active # j
    BY <1>7, JobFacts DEF Promote, RecoverStalled
  <2>3. active' = active /\ (active # 0 => jobs'[active] = jobs[active])
    BY <1>7, <2>2 DEF Promote, RecoverStalled, QueueOK, JobsOK
  <2>4. UNCHANGED <<service, chain, faults>>
    BY <1>7 DEF Promote, RecoverStalled
  <2> QED BY <2>1, <2>3, <2>4, ServiceRests DEF OtherOK
<1>8. CASE DatabaseFails
  <2>1. OtherOK'
    BY <1>8, WorkerAssumption DEF DatabaseFails, Fault, OtherOK
  <2>2. CASE /\ At("finding") /\ jobs' = [jobs EXCEPT ![active] = Tried(@)]
             /\ active' = 0 /\ UNCHANGED service
    <3>1. QueueOK'
      BY <1>8, <2>2, TriedKeepsQueue DEF DatabaseFails, At
    <3>2. req[Worker].at = "done" /\ ~(At("saving"))'
      BY <2>2, NotSavingNotAsking DEF At
    <3> QED BY <2>1, <2>2, <3>1, <3>2, ServiceRests
  <2>3. CASE Service!DatabaseError(Worker) /\ UNCHANGED <<jobs, active>>
    <3>1. QueueOK'
      BY <1>8, <2>3 DEF DatabaseFails, QueueOK, JobsOK, At, Job
    <3> QED BY <2>1, <2>3, <3>1, DatabaseErrorKeeps
  <2> QED BY <1>8, <2>2, <2>3 DEF DatabaseFails
<1>9. CASE Crash
  <2>1. QueueOK'
    BY <1>9, ActiveGoesKeepsQueue DEF Crash
  <2>2. OtherOK'
    BY <1>9, WorkerAssumption DEF Crash, Fault, OtherOK
  <2>3. Service!Idle \in Request /\ Service!Idle.at = "done"
    BY BlankFacts, IdsFacts DEF Request, Service!Idle, Service!Places, Service!Outcomes
  <2>4. req' \in [{Worker} -> Request] /\ req'[Worker].at = "done"
    BY <1>9, <2>3 DEF Crash, RequestOK
  <2>5. TableOK' /\ RequestOK'
    BY <1>9, <2>4, TableStays DEF Crash, RequestOK, At
  <2> QED BY <2>1, <2>2, <2>5
<1>10. CASE UNCHANGED vars
  <2>1. QueueOK' /\ OtherOK'
    BY <1>10 DEF vars, QueueOK, JobsOK, OtherOK, At, Job
  <2> QED BY <1>10, <2>1, ServiceRests DEF vars, service
<1> QED BY <1>1, <1>2, <1>3, <1>4, <1>5, <1>6, <1>7, <1>8, <1>9, <1>10 DEF Next, Handle

(* The bookkeeping of the queue, the request and the table.                *)
THEOREM Invariant == Spec => []IInv
<1>1. Init => IInv
  BY InitHolds
<1>2. IInv /\ [Next]_vars => IInv'
  BY NextHolds
<1> QED BY <1>1, <1>2, PTL DEF Spec

(* EventWorker!TypeOK, for any events, attempts and faults: no job is in   *)
(* two places of the queue or tried too often.                             *)
THEOREM TypeCorrect == Spec => []TypeOK
<1>1. IInv => TypeOK
  <2> SUFFICES ASSUME IInv PROVE TypeOK
    OBVIOUS
  <2>1. Service!TypeOK
    BY IdsFacts DEF IInv, TableOK, RequestOK, Service!TypeOK, Request, Entity, Ids, Row
  <2>2. \A j \in DOMAIN jobs : (j \in Waiting(wait)) <=> \E i \in DOMAIN wait : wait[i] = j
    BY DEF Waiting
  <2> QED BY <2>1, <2>2 DEF IInv, QueueOK, JobsOK, OtherOK, JobType, TypeOK
<1> QED BY <1>1, Invariant, PTL

(* The worker's checks keep usernames unique as long as it writes alone,   *)
(* whatever fails, is tried again or is overtaken.                         *)
THEOREM NamesStayUnique == Spec => []UsernamesUnique
<1>1. IInv => UsernamesUnique
  BY DEF IInv, TableOK
<1> QED BY <1>1, Invariant, PTL

(* A job is reported done only when its row holds what its event gave.     *)
THEOREM DoneIsStored == Spec => DoneMeansStored
<1> DEFINE Stores ==
      \A j \in DOMAIN jobs :
        jobs'[j].at = "done" /\ jobs[j].at # "done" =>
          LET given == CreateDto(jobs[j])
          IN  \E i \in RowsOf(jobs[j].event.account) :
                \A k \in DOMAIN given :
                  given[k] # Undef => users[i].fields[k] = given[k]
<1>1. IInv /\ [Next]_vars => [Stores]_vars
  <2> SUFFICES ASSUME IInv, [Next]_vars, NEW j \in DOMAIN jobs,
                      jobs'[j].at = "done", jobs[j].at # "done"
               PROVE  \E i \in RowsOf(jobs[j].event.account) :
                        \A k \in DOMAIN CreateDto(jobs[j]) :
                          CreateDto(jobs[j])[k] # Undef => users[i].fields[k] = CreateDto(jobs[j])[k]
    OBVIOUS
  <2> USE DEF IInv
  <2>1. jobs \in Seq(JobType) /\ \A x \in DOMAIN jobs : jobs[x] \in JobType
    BY DEF QueueOK, JobsOK
  <2>2. ASSUME NEW x, NEW p, p # "done", jobs' = [jobs EXCEPT ![x].at = p] PROVE FALSE
    BY <2>1, <2>2 DEF JobType
  <2>3. ASSUME active # 0, jobs' = [jobs EXCEPT ![active] = Tried(@)] PROVE FALSE
    <3>1. jobs'[j] = IF j = active THEN Tried(Job) ELSE jobs[j]
      BY <2>3 DEF Job
    <3> QED BY <2>3, <3>1, TriedFacts
  <2>4. CASE Complete
    <3>1. At("saving") /\ req[Worker].at = "done" /\ req[Worker].outcome = "ok"
      BY <2>4 DEF Complete, Answered, Succeeded
    <3>2. Stored(Job)
      BY <3>1 DEF RequestOK
    <3>3. j = active
      BY <2>1, <2>4 DEF Complete, JobType
    <3> QED BY <3>2, <3>3 DEF Stored, Job, RowsOf, Ids
  <2>5. CASE TakeJob \/ FindUser
    BY <2>2, <2>5 DEF TakeJob, FindUser
  <2>6. CASE HandlerThrows
    BY <2>3, <2>6 DEF HandlerThrows, Answered, At
  <2>7. CASE DatabaseFails
    BY <2>3, <2>7 DEF DatabaseFails, At
  <2>8. CASE Crash
    BY <2>2, <2>8 DEF Crash
  <2>9. ASSUME NEW x \in DOMAIN jobs, Promote(x) PROVE FALSE
    BY <2>2, <2>9 DEF Promote
  <2>10. ASSUME NEW x \in DOMAIN jobs, RecoverStalled(x) PROVE FALSE
    <3>1. jobs'[j].at \in {jobs[j].at, "waiting", "failed"}
      BY <2>1, <2>10 DEF RecoverStalled, JobType
    <3> QED BY <3>1
  <2>11. ASSUME NEW e \in Events, Publish(e) PROVE FALSE
    BY <2>11, PublishKeepsQueue
  <2>12. CASE Save \/ UNCHANGED vars
    BY <2>12 DEF Save, vars
  <2> QED BY <2>4, <2>5, <2>6, <2>7, <2>8, <2>9, <2>10, <2>11, <2>12 DEF Next, Handle
<1>2. DoneMeansStored <=> [][Stores]_vars
  BY DEF DoneMeansStored
<1> QED BY <1>1, <1>2, Invariant, PTL DEF Spec

-----------------------------------------------------------------------------
(* The names.  An event that names its account, and the names the table is *)
(* to show when nothing has disturbed the queue: jobs are then carried out *)
(* in the order of their events, so the last done is the last on the chain.*)
NamesOf(j, a) == Names(jobs[j].event) /\ jobs[j].event.account = a

TriedCounts ==
  \A j \in DOMAIN jobs :
    jobs[j].at \in {"delayed", "failed"} => jobs[j].attempts + jobs[j].stalls > 0

(* The chain has the name of the last event that gave one.                 *)
LastName(a, name) ==
  \E j \in DOMAIN jobs :
    /\ NamesOf(j, a) /\ jobs[j].event.username = name
    /\ \A k \in DOMAIN jobs : NamesOf(k, a) => k <= j
NoName(a) == \A k \in DOMAIN jobs : ~NamesOf(k, a)
ChainIsLast ==
  \A a \in Accounts :
    LastName(a, chain[a]) \/ (chain[a] \in {None, Empty} /\ NoName(a))

Undisturbed(job) == Decodes(job.event) => job.attempts + job.stalls = 0 /\ job.at # "stalled"
Calm == \A j \in DOMAIN jobs : Undisturbed(jobs[j])

(* b is taken from the list after a.                                       *)
Before(w, a, b) == \E i, m \in DOMAIN w : i < m /\ w[i] = a /\ w[m] = b

InOrder ==
  \A j, k \in DOMAIN jobs :
    Decodes(jobs[j].event) /\ Decodes(jobs[k].event) =>
      /\ j < k /\ jobs[k].at # "waiting" => jobs[j].at = "done"
      /\ Before(wait, j, k) => j < k

Shown(j) == \E i \in Ids : users[i] # None /\ users[i].account = jobs[j].event.account
                             /\ users[i].fields["username"] = OrUndef(jobs[j].event.username)
Superseded(j) ==
  \E k \in DOMAIN jobs : j < k /\ NamesOf(k, jobs[j].event.account) /\ jobs[k].at # "waiting"

NamesShown ==
  \A j \in DOMAIN jobs :
    /\ jobs[j].at = "done" /\ Names(jobs[j].event)
    /\ OrUndef(jobs[j].event.username) # Undef
    => Shown(j) \/ Superseded(j)

OInv == TriedCounts /\ ChainIsLast /\ (Calm => InOrder /\ NamesShown)

LEMMA AppendBefore ==
  ASSUME NEW w \in Seq(Nat), NEW j \in Nat, NEW a, NEW b, Before(Append(w, j), a, b)
  PROVE  Before(w, a, b) \/ (a \in Waiting(w) /\ b = j)
<1> DEFINE v == Append(w, j)
<1>1. /\ Len(w) \in Nat /\ DOMAIN w = 1 .. Len(w)
      /\ DOMAIN v = 1 .. Len(w) + 1 /\ v[Len(w) + 1] = j
      /\ \A i \in DOMAIN w : v[i] = w[i]
  OBVIOUS
<1> HIDE DEF v
<1>2. PICK i \in DOMAIN v, m \in DOMAIN v : i < m /\ v[i] = a /\ v[m] = b
  BY DEF Before, v
<1>3. i \in DOMAIN w
  BY <1>1, <1>2
<1>4. m \in DOMAIN w \/ m = Len(w) + 1
  BY <1>1
<1> QED BY <1>1, <1>2, <1>3, <1>4 DEF Before, Waiting

LEMMA PrependBefore ==
  ASSUME NEW w \in Seq(Nat), NEW j \in Nat, NEW a, NEW b, Before(<<j>> \o w, a, b)
  PROVE  Before(w, a, b) \/ a = j
<1> DEFINE v == <<j>> \o w
<1>1. /\ Len(w) \in Nat /\ DOMAIN w = 1 .. Len(w)
      /\ DOMAIN v = 1 .. Len(w) + 1 /\ v[1] = j
      /\ \A i \in DOMAIN w : v[i + 1] = w[i]
  OBVIOUS
<1> HIDE DEF v
<1>2. PICK i \in DOMAIN v, m \in DOMAIN v : i < m /\ v[i] = a /\ v[m] = b
  BY DEF Before, v
<1>3. CASE i = 1
  BY <1>1, <1>2, <1>3
<1>4. CASE i # 1
  <2>1. /\ i - 1 \in DOMAIN w /\ m - 1 \in DOMAIN w /\ i - 1 < m - 1
        /\ (i - 1) + 1 = i /\ (m - 1) + 1 = m
    BY <1>1, <1>2, <1>4
  <2>2. w[i - 1] = a /\ w[m - 1] = b
    BY <1>1, <1>2, <2>1
  <2> QED BY <2>1, <2>2 DEF Before
<1> QED BY <1>3, <1>4

LEMMA TailBefore ==
  ASSUME NEW w \in Seq(Nat), w # <<>>
  PROVE  /\ \A a, b : Before(Tail(w), a, b) => Before(w, a, b)
         /\ \A b \in Waiting(Tail(w)) : Before(w, Head(w), b)
<1> DEFINE v == Tail(w)
<1>1. /\ Len(w) \in Nat \ {0} /\ DOMAIN w = 1 .. Len(w)
      /\ DOMAIN v = 1 .. Len(w) - 1 /\ Head(w) = w[1]
      /\ \A i \in DOMAIN v : v[i] = w[i + 1]
  OBVIOUS
<1> HIDE DEF v
<1>2. \A i \in DOMAIN v : i \in Nat /\ i + 1 \in DOMAIN w /\ 1 < i + 1
  BY <1>1
<1>3. 1 \in DOMAIN w
  BY <1>1
<1>4. ASSUME NEW a, NEW b, Before(v, a, b) PROVE Before(w, a, b)
  <2>1. PICK i \in DOMAIN v, m \in DOMAIN v : i < m /\ v[i] = a /\ v[m] = b
    BY <1>4 DEF Before
  <2>2. i + 1 < m + 1
    BY <1>2, <2>1
  <2> QED BY <1>1, <1>2, <2>1, <2>2 DEF Before
<1>5. ASSUME NEW b \in Waiting(v) PROVE Before(w, w[1], b)
  <2>1. PICK i \in DOMAIN v : v[i] = b
    BY DEF Waiting
  <2> QED BY <1>1, <1>2, <1>3, <2>1 DEF Before
<1> QED BY <1>1, <1>4, <1>5 DEF v

(* Every event that names an account is one the worker decodes.            *)
LEMMA NamesDecode == \A e : Names(e) => Decodes(e)
  BY DEF Names, Decodes

(* A request changes the name in no row but that of the account its job    *)
(* names.                                                                  *)
LEMMA SaveKeepsNames ==
  ASSUME IInv, Save, NEW i \in Ids, users[i] # None
  PROVE  /\ users'[i] # None /\ users'[i].account = users[i].account
         /\ \/ users'[i].fields["username"] = users[i].fields["username"]
            \/ /\ At("saving") /\ NamesOf(active, users[i].account)
               /\ users'[i].fields["username"] = OrUndef(Job.event.username)
<1> DEFINE q == req[Worker]
<1>1. CASE UNCHANGED users
  BY <1>1
<1>2. CASE Service!WriteInsert(Worker)
  <2>1. \/ UNCHANGED users
        \/ \E id, row : users' = [users EXCEPT ![id] = row] /\ users[id] = None
    BY <1>2 DEF Service!WriteInsert, Service!Insertable
  <2>2. CASE ~UNCHANGED users
    <3>1. PICK id, row : users' = [users EXCEPT ![id] = row] /\ users[id] = None
      BY <2>1, <2>2
    <3>2. users'[i] = users[i]
      BY <3>1 DEF IInv, TableOK
    <3> QED BY <3>2
  <2> QED BY <1>1, <2>2
<1>3. CASE Service!WriteUpdate(Worker)
  <2> DEFINE id == q.id
             row == users[id]
             fields == [k \in Columns |-> IF k \in q.changed THEN q.entity[k] ELSE row.fields[k]]
  <2>1. TableOK /\ q.at = "update"
    BY <1>3 DEF IInv, Service!WriteUpdate
  <2>2. q \in Request /\ At("saving") /\ Updates(q, Job) /\ Decodes(Job.event) /\ Job.event \in Events
    BY <2>1, UnderWay DEF Creates
  <2>3. /\ id \in Ids /\ row # None /\ row \in Row /\ row.fields \in Entity
        /\ row.account = Job.event.account
    BY <2>1, <2>2, RowFacts DEF Updates
  <2>4. /\ q.dto = UpdateDto(Job) /\ q.entity = Service!Assigned(row.fields, q.dto)
        /\ \A k \in Columns : k \in q.changed <=> q.entity[k] \notin {Undef, row.fields[k]}
    BY <2>1, <2>2 DEF Updates
  <2>5. users' = [users EXCEPT ![id].fields = fields]
    BY <1>3, <2>3 DEF Service!WriteUpdate
  <2>6. CASE i # id
    BY <2>1, <2>5, <2>6 DEF TableOK
  <2>7. CASE i = id
    <3>1. users'[i] = [row EXCEPT !.fields = fields]
      BY <2>1, <2>5, <2>7 DEF TableOK
    <3>2. "username" \in Columns
      BY TableAssumption
    <3>3. fields \in Fields
      <4>1. \A k \in Columns : (IF k \in q.changed THEN q.entity[k] ELSE row.fields[k]) \in Values
        BY <2>2, <2>3, <2>4 DEF Entity, Request, Row, Service!Row
      <4> QED BY <4>1 DEF Fields
    <3>4. /\ users'[i] \in Row /\ users'[i].account = row.account
          /\ users'[i].fields = fields
      <4> HIDE DEF fields
      <4> QED BY <2>3, <3>1, <3>3 DEF Row, Service!Row, Fields
    <3>5. users'[i] # None
      BY <3>4, TableAssumption DEF Row
    <3>6. fields["username"] # row.fields["username"] => NamesOf(active, row.account)
      <4> SUFFICES ASSUME ~Names(Job.event) PROVE fields["username"] = row.fields["username"]
        BY <2>3 DEF NamesOf, Job
      <4>1. Job.event.kind = "ProfileUpdated" /\ Job.event.username = Keep
        BY <2>2, WorkerAssumption DEF Names, Decodes
      <4>2. q.dto = [username |-> OrUndef(Job.event.username), bio |-> OrUndef(Job.event.bio)]
        BY <2>4, <4>1 DEF UpdateDto, CreateDto
      <4>3. "username" \in DOMAIN q.dto /\ q.dto["username"] = Undef
        BY <4>1, <4>2 DEF OrUndef
      <4>4. q.entity["username"] = Undef
        BY <2>4, <3>2, <4>3 DEF Service!Assigned
      <4> QED BY <2>4, <3>2, <4>4
    <3>7. fields["username"] # row.fields["username"] =>
            fields["username"] = OrUndef(Job.event.username)
      <4>1. "username" \in DOMAIN q.dto /\ q.dto["username"] = OrUndef(Job.event.username)
        BY <2>4 DEF UpdateDto, CreateDto
      <4>2. q.entity["username"] = OrUndef(Job.event.username)
        BY <2>4, <3>2, <4>1 DEF Service!Assigned
      <4> QED BY <3>2, <4>2
    <3> QED BY <2>2, <2>7, <3>4, <3>5, <3>6, <3>7
  <2> QED BY <2>6, <2>7
<1> QED BY <1>1, <1>2, <1>3 DEF Save, Service!FindAccount, Service!FindUsername,
         Service!FindOne, Service!Load

(* What a job that is stored has done for its account's name.              *)
LEMMA StoredIsShown ==
  ASSUME NEW j \in DOMAIN jobs, jobs[j].event \in Events, Stored(jobs[j]), Names(jobs[j].event),
         OrUndef(jobs[j].event.username) # Undef
  PROVE  Shown(j)
<1> DEFINE e == jobs[j].event
<1>1. /\ "username" \in DOMAIN CreateDto(jobs[j])
      /\ CreateDto(jobs[j])["username"] = OrUndef(e.username)
  BY DEF CreateDto
<1> QED BY <1>1 DEF Stored, Shown

(* One job moves and keeps its event: what the chain says is not touched.  *)
LEMMA MoveFacts ==
  ASSUME QueueOK, OInv, NEW j \in DOMAIN jobs, NEW r \in JobType,
         jobs' = [jobs EXCEPT ![j] = r], r.event = jobs[j].event, chain' = chain,
         r.at \in {"delayed", "failed"} => r.attempts + r.stalls > 0
  PROVE  /\ TriedCounts' /\ ChainIsLast'
         /\ DOMAIN jobs' = DOMAIN jobs /\ jobs'[j] = r
         /\ \A k \in DOMAIN jobs : jobs'[k].event = jobs[k].event
         /\ \A k \in DOMAIN jobs \ {j} : jobs'[k] = jobs[k]
         /\ \A k \in DOMAIN jobs : \A a : NamesOf(k, a)' <=> NamesOf(k, a)
<1>1. DOMAIN jobs' = DOMAIN jobs /\ jobs'[j] = r /\ \A k \in DOMAIN jobs \ {j} : jobs'[k] = jobs[k]
  BY DEF QueueOK, JobsOK
<1>2. \A k \in DOMAIN jobs : jobs'[k].event = jobs[k].event
  BY <1>1
<1>3. TriedCounts'
  BY <1>1 DEF OInv, TriedCounts
<1>4. \A k \in DOMAIN jobs : \A a : NamesOf(k, a)' <=> NamesOf(k, a)
  BY <1>2 DEF NamesOf
<1>5. ChainIsLast'
  <2> SUFFICES ASSUME NEW a \in Accounts
               PROVE  LastName(a, chain[a])' \/ (chain[a] \in {None, Empty} /\ NoName(a)')
    BY DEF ChainIsLast
  <2>1. CASE LastName(a, chain[a])
    BY <1>1, <1>2, <1>4, <2>1 DEF LastName
  <2>2. CASE chain[a] \in {None, Empty} /\ NoName(a)
    BY <1>1, <1>4, <2>2 DEF NoName
  <2> QED BY <2>1, <2>2 DEF OInv, ChainIsLast
<1> QED BY <1>1, <1>2, <1>3, <1>4, <1>5

(* A job that fails, stalls or comes back is one the worker cannot decode, *)
(* or the queue is disturbed from here on.                                 *)
LEMMA DisturbedMove ==
  ASSUME QueueOK, OInv, NEW j \in DOMAIN jobs, NEW r \in JobType,
         jobs' = [jobs EXCEPT ![j] = r], r.event = jobs[j].event, UNCHANGED <<chain, users>>,
         r.at \in {"delayed", "failed"} => r.attempts + r.stalls > 0,
         Decodes(r.event) => r.attempts + r.stalls > 0 \/ r.at = "stalled",
         \A a, b \in DOMAIN jobs \ {j} : Before(wait', a, b) => Before(wait, a, b)
  PROVE  OInv'
<1> USE MoveFacts
<1>1. SUFFICES ASSUME Calm' PROVE InOrder' /\ NamesShown'
  BY DEF OInv
<1>2. Undisturbed(r)
  BY <1>1 DEF Calm, Undisturbed
<1>3. ~Decodes(r.event)
  BY <1>2 DEF Undisturbed, JobType
<1>4. Calm
  <2> SUFFICES ASSUME NEW k \in DOMAIN jobs PROVE Undisturbed(jobs[k])
    BY DEF Calm
  <2>1. CASE k = j
    BY <1>3, <2>1 DEF Undisturbed
  <2>2. CASE k # j
    BY <1>1, <2>2 DEF Calm, Undisturbed
  <2> QED BY <2>1, <2>2
<1>5. InOrder /\ NamesShown
  BY <1>4 DEF OInv
<1>6. \A k \in DOMAIN jobs : Decodes(jobs'[k].event) => k # j /\ jobs'[k] = jobs[k]
  BY <1>3
<1>7. InOrder'
  <2> SUFFICES ASSUME NEW a \in DOMAIN jobs, NEW b \in DOMAIN jobs,
                      Decodes(jobs'[a].event), Decodes(jobs'[b].event)
               PROVE  /\ a < b /\ jobs'[b].at # "waiting" => jobs'[a].at = "done"
                      /\ Before(wait', a, b) => a < b
    BY DEF InOrder, Before
  <2>1. a # j /\ b # j /\ jobs'[a] = jobs[a] /\ jobs'[b] = jobs[b]
    BY <1>6
  <2> QED BY <1>5, <2>1 DEF InOrder
<1>8. NamesShown'
  <2> SUFFICES ASSUME NEW k \in DOMAIN jobs, jobs'[k].at = "done", Names(jobs'[k].event),
                      OrUndef(jobs'[k].event.username) # Undef
               PROVE  Shown(k)' \/ Superseded(k)'
    BY DEF NamesShown
  <2>1. k # j /\ jobs'[k] = jobs[k]
    BY <1>6, NamesDecode
  <2>2. CASE Shown(k)
    BY <2>1, <2>2 DEF Shown
  <2>3. CASE Superseded(k)
    <3>1. PICK m \in DOMAIN jobs :
            k < m /\ NamesOf(m, jobs[k].event.account) /\ jobs[m].at # "waiting"
      BY <2>3 DEF Superseded
    <3>2. jobs'[m] = jobs[m]
      BY <1>6, <3>1, NamesDecode DEF NamesOf
    <3> QED BY <2>1, <3>1, <3>2 DEF Superseded
  <2> QED BY <1>5, <2>1, <2>2, <2>3 DEF NamesShown
<1> QED BY <1>7, <1>8

(* A job goes on as it should: the earlier ones are done, and when it is   *)
(* done itself its row bears its name.                                     *)
LEMMA ProperMove ==
  ASSUME QueueOK, OInv, NEW j \in DOMAIN jobs, NEW r \in JobType,
         jobs' = [jobs EXCEPT ![j] = r], r.event = jobs[j].event, UNCHANGED <<chain, users>>,
         r.at \in {"finding", "saving", "done"}, jobs[j].at \notin {"done", "stalled"},
         r.attempts = jobs[j].attempts, r.stalls = jobs[j].stalls,
         \A a, b : Before(wait', a, b) => Before(wait, a, b),
         jobs[j].at = "waiting" /\ Calm =>
           \A k \in DOMAIN jobs : k < j /\ Decodes(jobs[k].event) => jobs[k].at = "done",
         r.at = "done" => Stored(jobs[j])
  PROVE  OInv'
<1> USE MoveFacts
<1>1. SUFFICES ASSUME Calm' PROVE InOrder' /\ NamesShown'
  BY DEF OInv
<1>2. Calm
  <2> SUFFICES ASSUME NEW k \in DOMAIN jobs PROVE Undisturbed(jobs[k])
    BY DEF Calm
  <2>1. CASE k = j
    BY <1>1, <2>1 DEF Undisturbed, Calm
  <2>2. CASE k # j
    BY <1>1, <2>2 DEF Calm, Undisturbed
  <2> QED BY <2>1, <2>2
<1>3. InOrder /\ NamesShown
  BY <1>2 DEF OInv
<1>4. InOrder'
  <2> SUFFICES ASSUME NEW a \in DOMAIN jobs, NEW b \in DOMAIN jobs,
                      Decodes(jobs'[a].event), Decodes(jobs'[b].event)
               PROVE  /\ a < b /\ jobs'[b].at # "waiting" => jobs'[a].at = "done"
                      /\ Before(wait', a, b) => a < b
    BY DEF InOrder, Before
  <2>1. Decodes(jobs[a].event) /\ Decodes(jobs[b].event)
    OBVIOUS
  <2>2. Before(wait', a, b) => a < b
    BY <1>3, <2>1 DEF InOrder
  <2>3. ASSUME a < b, jobs'[b].at # "waiting" PROVE jobs'[a].at = "done"
    <3>1. jobs[a].at = "done"
      <4>1. CASE b = j /\ jobs[j].at = "waiting"
        BY <1>2, <2>1, <2>3, <4>1
      <4>2. CASE b = j /\ jobs[j].at # "waiting"
        BY <1>3, <2>1, <2>3, <4>2 DEF InOrder
      <4>3. CASE b # j
        BY <1>3, <2>1, <2>3, <4>3 DEF InOrder
      <4> QED BY <4>1, <4>2, <4>3
    <3>2. a # j
      BY <3>1
    <3> QED BY <3>1, <3>2
  <2> QED BY <2>2, <2>3
<1>5. NamesShown'
  <2> SUFFICES ASSUME NEW k \in DOMAIN jobs, jobs'[k].at = "done", Names(jobs'[k].event),
                      OrUndef(jobs'[k].event.username) # Undef
               PROVE  Shown(k)' \/ Superseded(k)'
    BY DEF NamesShown
  <2>1. Names(jobs[k].event) /\ OrUndef(jobs[k].event.username) # Undef
    OBVIOUS
  <2>2. ASSUME Shown(k) PROVE Shown(k)'
    BY <2>2 DEF Shown
  <2>3. ASSUME Superseded(k) PROVE Superseded(k)'
    <3>1. PICK m \in DOMAIN jobs :
            k < m /\ NamesOf(m, jobs[k].event.account) /\ jobs[m].at # "waiting"
      BY <2>3 DEF Superseded
    <3>2. jobs'[m].at # "waiting"
      BY <3>1
    <3> QED BY <3>1, <3>2 DEF Superseded
  <2>4. CASE k = j
    <3>1. Stored(jobs[j]) /\ jobs[j].event \in Events
      BY <2>4 DEF JobType
    <3>2. Shown(j)
      BY <2>1, <2>4, <3>1, StoredIsShown
    <3> QED BY <2>2, <2>4, <3>2
  <2>5. CASE k # j
    <3>1. Shown(k) \/ Superseded(k)
      BY <1>3, <2>1, <2>5 DEF NamesShown
    <3> QED BY <2>2, <2>3, <3>1
  <2> QED BY <2>4, <2>5
<1> QED BY <1>4, <1>5

LEMMA PublishKeepsNames == ASSUME IInv, OInv, NEW e \in Events, Publish(e) PROVE OInv'
<1> DEFINE r == [event |-> e, at |-> "waiting", attempts |-> 0, stalls |-> 0]
<1>0. PICK n \in Nat : n = Len(jobs) + 1
  BY DEF IInv, QueueOK, JobsOK
<1>1. /\ DOMAIN jobs' = DOMAIN jobs \cup {n} /\ n \notin DOMAIN jobs /\ n \in Nat
      /\ jobs'[n] = r /\ DOMAIN jobs \subseteq Nat /\ \A j \in DOMAIN jobs : jobs'[j] = jobs[j] /\ j < n
  BY <1>0 DEF Publish, IInv, QueueOK, JobsOK
<1>2. wait' = Append(wait, n) /\ wait \in Seq(Nat) /\ Waiting(wait) \subseteq DOMAIN jobs
  BY <1>0 DEF Publish, IInv, QueueOK
<1>3. r.event = e /\ r.at = "waiting" /\ r.attempts = 0 /\ r.stalls = 0
  OBVIOUS
<1> HIDE DEF r
<1>4. TriedCounts'
  BY <1>1, <1>3 DEF OInv, TriedCounts
<1>5. \A k \in DOMAIN jobs : \A a : NamesOf(k, a)' <=> NamesOf(k, a)
  BY <1>1 DEF NamesOf
<1>6. \A a : NamesOf(n, a)' <=> Names(e) /\ e.account = a
  BY <1>1, <1>3 DEF NamesOf
<1>7. ChainIsLast'
  <2> SUFFICES ASSUME NEW a \in Accounts
               PROVE  LastName(a, chain[a])' \/ (chain'[a] \in {None, Empty} /\ NoName(a)')
    BY DEF ChainIsLast
  <2>1. chain'[a] = IF e.account = a THEN NameAfter(e) ELSE chain[a]
    BY DEF Publish, IInv, OtherOK
  <2>2. CASE Names(e) /\ e.account = a
    <3>1. chain'[a] = e.username
      BY <2>1, <2>2 DEF NameAfter
    <3> QED BY <1>1, <1>3, <1>6, <2>2, <3>1 DEF LastName
  <2>3. CASE ~(Names(e) /\ e.account = a)
    <3>1. CASE LastName(a, chain[a])
      <4>1. PICK j \in DOMAIN jobs :
              /\ NamesOf(j, a) /\ jobs[j].event.username = chain[a]
              /\ \A k \in DOMAIN jobs : NamesOf(k, a) => k <= j
        BY <3>1 DEF LastName
      <4>2. chain[a] # None
        <5>1. jobs[j].event \in Events
          BY JobFacts DEF IInv
        <5> QED BY <4>1, <5>1, WorkerAssumption DEF NamesOf, Names
      <4>3. chain'[a] = chain[a]
        BY <2>1, <2>3, <4>2 DEF NameAfter
      <4> QED BY <1>1, <1>5, <1>6, <2>3, <4>1, <4>3 DEF LastName
    <3>2. CASE chain[a] \in {None, Empty} /\ NoName(a)
      <4>1. chain'[a] \in {None, Empty}
        BY <2>1, <2>3, <3>2 DEF NameAfter
      <4>2. NoName(a)'
        BY <1>1, <1>5, <1>6, <2>3, <3>2 DEF NoName
      <4> QED BY <4>1, <4>2
    <3> QED BY <3>1, <3>2 DEF OInv, ChainIsLast
  <2> QED BY <2>2, <2>3
<1>8. ASSUME Calm' PROVE InOrder' /\ NamesShown'
  <2>1. Calm
    BY <1>1, <1>8 DEF Calm, Undisturbed
  <2>2. InOrder /\ NamesShown
    BY <2>1 DEF OInv
  <2>3. InOrder'
    <3> SUFFICES ASSUME NEW a \in DOMAIN jobs', NEW b \in DOMAIN jobs',
                        Decodes(jobs'[a].event), Decodes(jobs'[b].event)
                 PROVE  /\ a < b /\ jobs'[b].at # "waiting" => jobs'[a].at = "done"
                        /\ Before(wait', a, b) => a < b
      BY DEF InOrder, Before
    <3>1. ASSUME a < b, jobs'[b].at # "waiting" PROVE jobs'[a].at = "done"
      <4>1. b \in DOMAIN jobs
        BY <1>1, <1>3, <3>1
      <4>2. a \in DOMAIN jobs
        <5>1. a # n
          BY <1>1, <3>1, <4>1
        <5> QED BY <1>1, <5>1
      <4> QED BY <1>1, <2>2, <3>1, <4>1, <4>2 DEF InOrder
    <3>2. ASSUME Before(wait', a, b) PROVE a < b
      <4>1. Before(wait, a, b) \/ (a \in Waiting(wait) /\ b = n)
        BY <1>1, <1>2, <3>2, AppendBefore
      <4>2. CASE Before(wait, a, b)
        <5>1. a \in DOMAIN jobs /\ b \in DOMAIN jobs
          BY <1>2, <4>2 DEF Before, Waiting
        <5> QED BY <1>1, <2>2, <4>2, <5>1 DEF InOrder
      <4>3. CASE a \in Waiting(wait) /\ b = n
        BY <1>1, <1>2, <4>3
      <4> QED BY <4>1, <4>2, <4>3
    <3> QED BY <3>1, <3>2
  <2>4. NamesShown'
    <3> SUFFICES ASSUME NEW k \in DOMAIN jobs', jobs'[k].at = "done", Names(jobs'[k].event),
                        OrUndef(jobs'[k].event.username) # Undef
                 PROVE  Shown(k)' \/ Superseded(k)'
      BY DEF NamesShown
    <3>1. k \in DOMAIN jobs /\ jobs'[k] = jobs[k]
      BY <1>1, <1>3
    <3>2. Shown(k) => Shown(k)'
      BY <3>1 DEF Shown, Publish, service
    <3>3. Superseded(k) => Superseded(k)'
      BY <1>1, <1>5, <3>1 DEF Superseded
    <3> QED BY <2>2, <3>1, <3>2, <3>3 DEF NamesShown
  <2> QED BY <2>3, <2>4
<1> QED BY <1>4, <1>7, <1>8 DEF OInv

LEMMA SaveKeepsShown == ASSUME IInv, OInv, Save PROVE OInv'
<1>1. UNCHANGED <<chain, jobs, wait, active>>
  BY DEF Save
<1>2. TriedCounts' /\ ChainIsLast'
  BY <1>1 DEF OInv, TriedCounts, ChainIsLast, LastName, NoName, NamesOf
<1>3. ASSUME Calm' PROVE InOrder' /\ NamesShown'
  <2>1. InOrder /\ NamesShown
    BY <1>1, <1>3 DEF OInv, Calm
  <2>2. InOrder'
    BY <1>1, <2>1 DEF InOrder, Before
  <2>3. ASSUME NEW j \in DOMAIN jobs, Superseded(j) PROVE Superseded(j)'
    BY <1>1, <2>3 DEF Superseded, NamesOf
  <2>4. NamesShown'
    <3> SUFFICES ASSUME NEW j \in DOMAIN jobs, jobs[j].at = "done", Names(jobs[j].event),
                        OrUndef(jobs[j].event.username) # Undef
                 PROVE  Shown(j)' \/ Superseded(j)'
      BY <1>1 DEF NamesShown
    <3>1. CASE Superseded(j)
      BY <2>3, <3>1
    <3>2. CASE Shown(j)
      <4> DEFINE a == jobs[j].event.account
      <4>1. PICK i \in Ids : users[i] # None /\ users[i].account = a
                             /\ users[i].fields["username"] = OrUndef(jobs[j].event.username)
        BY <3>2 DEF Shown
      <4>2. /\ users'[i] # None /\ users'[i].account = a
            /\ \/ users'[i].fields["username"] = users[i].fields["username"]
               \/ At("saving") /\ NamesOf(active, a)
        BY <4>1, SaveKeepsNames
      <4>3. CASE users'[i].fields["username"] = users[i].fields["username"]
        BY <1>1, <4>1, <4>2, <4>3 DEF Shown
      <4>4. CASE At("saving") /\ NamesOf(active, a)
        <5>1. /\ active \in DOMAIN jobs /\ jobs[active].at = "saving" /\ active # j
              /\ active \in Nat /\ j \in Nat
          BY <4>4 DEF At, Job, IInv, QueueOK, JobsOK
        <5>2. Decodes(jobs[active].event) /\ Decodes(jobs[j].event)
          BY <4>4, NamesDecode DEF NamesOf
        <5>3. ~(active < j)
          BY <2>1, <5>1, <5>2 DEF InOrder
        <5>4. j < active
          BY <5>1, <5>3
        <5>5. Superseded(j)
          BY <4>4, <5>1, <5>4 DEF Superseded
        <5> QED BY <2>3, <5>5
      <4> QED BY <4>2, <4>3, <4>4
    <3> QED BY <2>1, <3>1, <3>2 DEF NamesShown
  <2> QED BY <2>2, <2>4
<1> QED BY <1>2, <1>3 DEF OInv

(* The first decodable job of an undisturbed list is the next in order.    *)
LEMMA TakeJobKeepsNames == ASSUME IInv, OInv, TakeJob PROVE OInv'
<1>1. QueueOK /\ wait \in Seq(Nat) /\ wait # <<>> /\ wait' = Tail(wait) /\ active = 0
  BY DEF IInv, QueueOK, TakeJob
<1>2. PICK j \in DOMAIN jobs : j = Head(wait) /\ j \in Waiting(wait)
  BY <1>1, TailWaits DEF QueueOK
<1>3. jobs[j].at = "waiting" /\ jobs[j] \in JobType
  BY <1>1, <1>2, JobFacts
<1> DEFINE r == [jobs[j] EXCEPT !.at = "finding"]
<1>4. jobs' = [jobs EXCEPT ![j] = r] /\ UNCHANGED <<chain, users>>
  BY <1>2 DEF TakeJob, service
<1>5. /\ r \in JobType /\ r.at = "finding" /\ r.event = jobs[j].event
      /\ r.attempts = jobs[j].attempts /\ r.stalls = jobs[j].stalls
  BY <1>3, AtMoves DEF Status
<1> HIDE DEF r
<1>6. \A a, b : Before(wait', a, b) => Before(wait, a, b)
  BY <1>1, TailBefore
<1>7. CASE ~Decodes(r.event)
  BY <1>1, <1>4, <1>5, <1>6, <1>7, DisturbedMove DEF IInv
<1>8. CASE Decodes(r.event)
  <2>1. ASSUME Calm, NEW k \in DOMAIN jobs, k < j, Decodes(jobs[k].event)
        PROVE  jobs[k].at = "done"
    <3>1. InOrder
      BY <2>1 DEF OInv
    <3>2. k # j /\ ~Before(wait, j, k)
      <4>1. k \in Nat /\ j \in Nat
        BY <1>1, JobFacts
      <4> QED BY <1>5, <1>8, <2>1, <3>1, <4>1 DEF InOrder
    <3>3. k \notin Waiting(wait)
      <4>1. k \notin Waiting(wait')
        BY <1>1, <1>2, <3>2, TailBefore
      <4> QED BY <1>1, <1>2, <3>2, <4>1, TailWaits DEF QueueOK
    <3>4. jobs[k].at \notin {"waiting", "finding", "saving"}
      <4>1. active # k
        BY <1>1 DEF QueueOK, JobsOK
      <4> QED BY <1>1, <3>3, <4>1, JobFacts
    <3>5. jobs[k].at # "stalled" /\ jobs[k].attempts + jobs[k].stalls = 0
      BY <2>1 DEF Calm, Undisturbed
    <3>6. jobs[k].at \notin {"delayed", "failed"}
      BY <3>5 DEF OInv, TriedCounts
    <3>7. jobs[k].at \in Status
      BY <1>1, JobFacts DEF JobType
    <3> QED BY <3>4, <3>5, <3>6, <3>7 DEF Status
  <2> QED BY <1>1, <1>3, <1>4, <1>5, <1>6, <2>1, ProperMove
<1> QED BY <1>7, <1>8

(* The active job goes on to be saved, or is done and stored.              *)
LEMMA ActiveGoesKeepsNames ==
  ASSUME IInv, OInv, active # 0, NEW p \in {"saving", "done"},
         jobs' = [jobs EXCEPT ![active].at = p], UNCHANGED <<chain, users, wait>>,
         p = "done" => Stored(Job)
  PROVE  OInv'
<1>1. QueueOK /\ active \in DOMAIN jobs
  BY DEF IInv, QueueOK
<1>2. PICK j \in DOMAIN jobs : j = active
  BY <1>1
<1> DEFINE r == [jobs[j] EXCEPT !.at = p]
<1>3. jobs' = [jobs EXCEPT ![j] = r]
  BY <1>2
<1>4. jobs[j] \in JobType /\ jobs[j].at \in {"finding", "saving"}
  BY <1>1, <1>2, JobFacts
<1>5. /\ r \in JobType /\ r.at = p /\ r.event = jobs[j].event
      /\ r.attempts = jobs[j].attempts /\ r.stalls = jobs[j].stalls
  <2>1. p \in Status
    BY DEF Status
  <2> QED BY <1>4, <2>1, AtMoves
<1> HIDE DEF r
<1>6. p = "done" => Stored(jobs[j])
  BY <1>2 DEF Job
<1> QED BY <1>1, <1>3, <1>4, <1>5, <1>6, ProperMove

(* The active job was tried in vain, or its process died.                  *)
LEMMA ActiveFailsKeepsNames ==
  ASSUME IInv, OInv, active # 0, NEW r \in JobType, jobs' = [jobs EXCEPT ![active] = r],
         r.event = Job.event, UNCHANGED <<chain, users, wait>>,
         r.attempts + r.stalls > 0 \/ r.at = "stalled"
  PROVE  OInv'
<1>1. QueueOK /\ active \in DOMAIN jobs
  BY DEF IInv, QueueOK
<1>2. PICK j \in DOMAIN jobs : j = active
  BY <1>1
<1> QED BY <1>1, <1>2, DisturbedMove DEF Job

LEMMA TriedKeepsNames ==
  ASSUME IInv, OInv, active # 0, jobs' = [jobs EXCEPT ![active] = Tried(@)],
         UNCHANGED <<chain, users, wait>>
  PROVE  OInv'
<1> DEFINE r == Tried(Job)
<1>1. jobs' = [jobs EXCEPT ![active] = r]
  BY DEF Job
<1>2. r \in JobType /\ r.event = Job.event
  BY TriedFacts DEF IInv
<1>3. Job \in JobType
  BY JobFacts DEF IInv, QueueOK, Job
<1>4. r.attempts = Job.attempts + 1 /\ r.stalls = Job.stalls
  BY <1>3 DEF Tried, JobType
<1> HIDE DEF r
<1>5. r.attempts + r.stalls > 0
  BY <1>3, <1>4, WorkerAssumption DEF JobType
<1> QED BY <1>1, <1>2, <1>5, ActiveFailsKeepsNames

(* A job comes back to the list: it had been tried, or has stalled.        *)
LEMMA ComesBackKeepsNames ==
  ASSUME IInv, OInv, NEW j \in DOMAIN jobs, Promote(j) \/ RecoverStalled(j) PROVE OInv'
<1>1. QueueOK /\ wait \in Seq(Nat) /\ jobs[j] \in JobType /\ j \in Nat
  BY JobFacts DEF IInv, QueueOK
<1>2. UNCHANGED <<chain, users>>
  BY DEF Promote, RecoverStalled, service
<1>3. CASE Promote(j)
  <2> DEFINE r == [jobs[j] EXCEPT !.at = "waiting"]
  <2>1. jobs' = [jobs EXCEPT ![j] = r] /\ wait' = Append(wait, j)
    BY <1>3 DEF Promote
  <2>2. /\ r \in JobType /\ r.at = "waiting" /\ r.event = jobs[j].event
        /\ r.attempts = jobs[j].attempts /\ r.stalls = jobs[j].stalls
    BY <1>1, AtMoves DEF Status
  <2> HIDE DEF r
  <2>3. r.attempts + r.stalls > 0
    BY <1>3, <2>2 DEF OInv, TriedCounts, Promote
  <2>4. \A a, b \in DOMAIN jobs \ {j} : Before(wait', a, b) => Before(wait, a, b)
    BY <1>1, <2>1, AppendBefore
  <2> QED BY <1>1, <1>2, <2>1, <2>2, <2>3, <2>4, DisturbedMove
<1>4. CASE RecoverStalled(j)
  <2> DEFINE n == jobs[j].stalls + 1
             p == IF jobs[j].stalls = 0 THEN "waiting" ELSE "failed"
             r == [jobs[j] EXCEPT !.stalls = n, !.at = p]
  <2>1. jobs' = [jobs EXCEPT ![j] = r] /\ (wait' = wait \/ wait' = <<j>> \o wait)
    BY <1>4 DEF RecoverStalled
  <2>2. jobs[j].stalls < 2
    BY <1>1, <1>4, JobFacts DEF RecoverStalled, Settled
  <2>3. n \in 0 .. 2 /\ n > 0 /\ p \in Status
    BY <1>1, <2>2 DEF JobType, Status
  <2> HIDE DEF n, p
  <2>4. /\ r \in JobType /\ r.event = jobs[j].event
        /\ r.attempts = jobs[j].attempts /\ r.stalls = n
    BY <1>1, <2>3 DEF JobType
  <2> HIDE DEF r
  <2>5. r.attempts + r.stalls > 0
    BY <2>3, <2>4, WorkerAssumption DEF JobType
  <2>6. \A a, b \in DOMAIN jobs \ {j} : Before(wait', a, b) => Before(wait, a, b)
    BY <1>1, <2>1, PrependBefore
  <2> QED BY <1>1, <1>2, <2>1, <2>4, <2>5, <2>6, DisturbedMove
<1> QED BY <1>3, <1>4

LEMMA SameKeepsNames ==
  ASSUME OInv, UNCHANGED <<chain, jobs, wait, users>> PROVE OInv'
BY DEF OInv, TriedCounts, ChainIsLast, LastName, NoName, Calm, InOrder, NamesShown, NamesOf, Shown, Superseded, Before

LEMMA NextKeepsNames == IInv /\ OInv /\ [Next]_vars => OInv'
<1> SUFFICES ASSUME IInv, OInv, [Next]_vars PROVE OInv'
  OBVIOUS
<1>1. ASSUME NEW e \in Events, Publish(e) PROVE OInv'
  BY <1>1, PublishKeepsNames
<1>2. CASE TakeJob
  BY <1>2, TakeJobKeepsNames
<1>3. CASE FindUser
  BY <1>3, ActiveGoesKeepsNames
     DEF FindUser, At, Service!Update, Service!Create, Service!Begin
<1>4. CASE Save
  BY <1>4, SaveKeepsShown
<1>5. CASE Complete
  <2>1. Stored(Job)
    BY <1>5 DEF IInv, RequestOK, Complete, Answered, Succeeded
  <2> QED BY <1>5, <2>1, ActiveGoesKeepsNames DEF Complete, Answered, At, service
<1>6. CASE HandlerThrows
  BY <1>6, TriedKeepsNames DEF HandlerThrows, Answered, At, service
<1>7. ASSUME NEW j \in DOMAIN jobs, Promote(j) \/ RecoverStalled(j) PROVE OInv'
  BY <1>7, ComesBackKeepsNames
<1>8. CASE DatabaseFails
  <2>1. CASE At("finding") /\ jobs' = [jobs EXCEPT ![active] = Tried(@)] /\ UNCHANGED service
    BY <1>8, <2>1, TriedKeepsNames DEF DatabaseFails, At, service
  <2>2. CASE Service!DatabaseError(Worker) /\ UNCHANGED <<jobs, active>>
    BY <1>8, <2>2, SameKeepsNames DEF DatabaseFails, Service!DatabaseError
  <2> QED BY <1>8, <2>1, <2>2 DEF DatabaseFails
<1>9. CASE Crash
  <2> DEFINE r == [Job EXCEPT !.at = "stalled"]
  <2>1. active # 0 /\ jobs' = [jobs EXCEPT ![active] = r] /\ UNCHANGED <<chain, users, wait>>
    BY <1>9 DEF Crash, Job
  <2>2. Job \in JobType
    BY <2>1, JobFacts DEF IInv, QueueOK, Job
  <2>3. r \in JobType /\ r.at = "stalled" /\ r.event = Job.event
    BY <2>2, AtMoves DEF Status
  <2> HIDE DEF r
  <2> QED BY <2>1, <2>3, ActiveFailsKeepsNames
<1>10. CASE UNCHANGED vars
  BY <1>10, SameKeepsNames DEF vars
<1> QED BY <1>1, <1>2, <1>3, <1>4, <1>5, <1>6, <1>7, <1>8, <1>9, <1>10 DEF Next, Handle

-----------------------------------------------------------------------------
(* Calm weather.  A name an account takes from another was given up by an  *)
(* event in between; the table shows no name but that of a job that has    *)
(* begun; a request that creates a row is of an account without one, and   *)
(* one that looks a name up asks for a new one.                            *)
Freed ==
  \A j, k \in DOMAIN jobs :
    LET e == jobs[j].event
        f == jobs[k].event
    IN  /\ j < k /\ Names(e) /\ Names(f) /\ e.account # f.account
        /\ e.username = f.username /\ f.username # Empty
        => \E m \in DOMAIN jobs :
             /\ j < m /\ m < k /\ NamesOf(m, e.account) /\ jobs[m].event.username # e.username
             /\ \A n \in DOMAIN jobs : m < n /\ n < k => ~NamesOf(n, e.account)

Begun(job) == job.at # "waiting" \/ job.attempts + job.stalls > 0

RowTells ==
  \A i \in Ids :
    users[i] # None /\ Service!Truthy(users[i].fields["username"]) =>
      \E k \in DOMAIN jobs :
        /\ NamesOf(k, users[i].account) /\ Begun(jobs[k])
        /\ OrUndef(jobs[k].event.username) = users[i].fields["username"]

RequestIsNew ==
  LET r == req[Worker]
  IN  r.at # "done" =>
        /\ r.id = 0 => ~Service!AccountTaken(r.account)
        /\ r.at = "findUsername" /\ r.id # 0 =>
             users[r.id].fields["username"] # Service!UsernameOf(r.dto)

(* So nothing the worker can decode fails.                                 *)
NothingFails == CalmWeather => Calm /\ (Answered => req[Worker].outcome = "ok")

WInv == Freed /\ RowTells /\ RequestIsNew /\ NothingFails

(* Jobs keep their events, what has begun stays so, and calm weather can   *)
(* only end.                                                               *)
LEMMA MoveKeeps ==
  ASSUME QueueOK, NEW j \in DOMAIN jobs, NEW r \in JobType, jobs' = [jobs EXCEPT ![j] = r],
         r.event = jobs[j].event, Begun(r)
  PROVE  /\ DOMAIN jobs' = DOMAIN jobs
         /\ \A k \in DOMAIN jobs : jobs'[k].event = jobs[k].event
         /\ \A k \in DOMAIN jobs : Begun(jobs[k]) => Begun(jobs'[k])
<1>1. DOMAIN jobs' = DOMAIN jobs /\ jobs'[j] = r /\ \A k \in DOMAIN jobs \ {j} : jobs'[k] = jobs[k]
  BY DEF QueueOK, JobsOK
<1> QED BY <1>1

LEMMA NextKeepsJobs ==
  ASSUME IInv, OInv, [Next]_vars
  PROVE  /\ DOMAIN jobs \subseteq DOMAIN jobs'
         /\ \A k \in DOMAIN jobs : jobs'[k].event = jobs[k].event
         /\ \A k \in DOMAIN jobs : Begun(jobs[k]) => Begun(jobs'[k])
<1>1. QueueOK /\ \A j \in DOMAIN jobs : jobs[j] \in JobType
  BY JobFacts DEF IInv
<1>2. ASSUME NEW e \in Events, Publish(e) PROVE DOMAIN jobs \subseteq DOMAIN jobs'
  BY <1>1, <1>2 DEF Publish, QueueOK, JobsOK
<1>3. ASSUME NEW j \in DOMAIN jobs, NEW p \in Status, p # "waiting",
             jobs' = [jobs EXCEPT ![j].at = p]
      PROVE  /\ DOMAIN jobs' = DOMAIN jobs
             /\ \A k \in DOMAIN jobs : jobs'[k].event = jobs[k].event
             /\ \A k \in DOMAIN jobs : Begun(jobs[k]) => Begun(jobs'[k])
  <2> DEFINE r == [jobs[j] EXCEPT !.at = p]
  <2>1. jobs' = [jobs EXCEPT ![j] = r]
    BY <1>3
  <2>2. r \in JobType /\ r.at = p /\ r.event = jobs[j].event
    BY <1>1, AtMoves
  <2> HIDE DEF r
  <2> QED BY <1>1, <1>3, <2>1, <2>2, MoveKeeps DEF Begun
<1>4. ASSUME active # 0, jobs' = [jobs EXCEPT ![active] = Tried(@)]
      PROVE  /\ DOMAIN jobs' = DOMAIN jobs
             /\ \A k \in DOMAIN jobs : jobs'[k].event = jobs[k].event
             /\ \A k \in DOMAIN jobs : Begun(jobs[k]) => Begun(jobs'[k])
  <2> DEFINE r == Tried(Job)
  <2>1. jobs' = [jobs EXCEPT ![active] = r] /\ active \in DOMAIN jobs
    BY <1>1, <1>4 DEF Job, QueueOK
  <2>2. r \in JobType /\ r.event = jobs[active].event /\ r.at \in {"failed", "delayed"}
    BY <1>1, <1>4, TriedFacts DEF Job
  <2> HIDE DEF r
  <2> QED BY <1>1, <2>1, <2>2, MoveKeeps DEF Begun
<1>5. CASE TakeJob
  <2>1. Head(wait) \in DOMAIN jobs
    BY <1>1, <1>5, TailWaits DEF TakeJob, QueueOK
  <2> QED BY <1>3, <1>5, <2>1 DEF TakeJob, Status
<1>6. CASE FindUser \/ Complete \/ Crash
  <2>1. active \in DOMAIN jobs
    BY <1>1, <1>6 DEF FindUser, Complete, Answered, Crash, At, QueueOK
  <2> QED BY <1>3, <1>6, <2>1 DEF FindUser, Complete, Crash, Status
<1>7. CASE HandlerThrows
  BY <1>4, <1>7 DEF HandlerThrows, Answered, At
<1>8. CASE DatabaseFails
  BY <1>4, <1>8 DEF DatabaseFails, At
<1>9. ASSUME NEW j \in DOMAIN jobs, Promote(j)
      PROVE  /\ DOMAIN jobs' = DOMAIN jobs
             /\ \A k \in DOMAIN jobs : jobs'[k].event = jobs[k].event
             /\ \A k \in DOMAIN jobs : Begun(jobs[k]) => Begun(jobs'[k])
  <2> DEFINE r == [jobs[j] EXCEPT !.at = "waiting"]
  <2>1. jobs' = [jobs EXCEPT ![j] = r] /\ jobs[j].attempts + jobs[j].stalls > 0
    BY <1>9 DEF Promote, OInv, TriedCounts
  <2>2. /\ r \in JobType /\ r.event = jobs[j].event
        /\ r.attempts = jobs[j].attempts /\ r.stalls = jobs[j].stalls
    BY <1>1, AtMoves DEF Status
  <2> HIDE DEF r
  <2> QED BY <1>1, <2>1, <2>2, MoveKeeps DEF Begun
<1>10. ASSUME NEW j \in DOMAIN jobs, RecoverStalled(j)
       PROVE  /\ DOMAIN jobs' = DOMAIN jobs
              /\ \A k \in DOMAIN jobs : jobs'[k].event = jobs[k].event
              /\ \A k \in DOMAIN jobs : Begun(jobs[k]) => Begun(jobs'[k])
  <2> DEFINE n == jobs[j].stalls + 1
             p == IF jobs[j].stalls = 0 THEN "waiting" ELSE "failed"
             r == [jobs[j] EXCEPT !.stalls = n, !.at = p]
  <2>1. jobs' = [jobs EXCEPT ![j] = r] /\ jobs[j].stalls < 2
    BY <1>1, <1>10, JobFacts DEF RecoverStalled, Settled
  <2>2. n \in 0 .. 2 /\ n > 0 /\ p \in Status
    BY <1>1, <2>1 DEF JobType, Status
  <2> HIDE DEF n, p
  <2>3. r \in JobType /\ r.event = jobs[j].event /\ r.stalls = n
    BY <1>1, <2>2 DEF JobType
  <2> HIDE DEF r
  <2>4. r.attempts + r.stalls > 0
    BY <2>2, <2>3, WorkerAssumption DEF JobType
  <2> QED BY <1>1, <2>1, <2>3, <2>4, MoveKeeps DEF Begun
<1>11. CASE Save \/ UNCHANGED vars
  BY <1>11 DEF Save, vars
<1> QED BY <1>2, <1>5, <1>6, <1>7, <1>8, <1>9, <1>10, <1>11, PublishKeepsQueue
        DEF IInv, Next, Handle

LEMMA NextKeepsCalm ==
  ASSUME IInv, OInv, [Next]_vars, CalmWeather' PROVE CalmWeather /\ UNCHANGED faults
<1>1. NoneCleared /\ NoneAlike
  BY NextKeepsJobs DEF CalmWeather, NoneCleared, NoneAlike
<1>2. faults \in Nat
  BY WorkerAssumption DEF IInv, OtherOK
<1>4. UNCHANGED faults \/ DatabaseFails \/ Crash
  BY DEF Next, Handle, Publish, TakeJob, FindUser, Save, Complete, HandlerThrows, Promote,
         RecoverStalled, vars
<1>5. faults' = faults \/ faults' = faults + 1
  BY <1>4 DEF DatabaseFails, Crash, Fault
<1>3. faults' = 0 /\ faults = 0
  BY <1>2, <1>5 DEF CalmWeather
<1> QED BY <1>1, <1>3 DEF CalmWeather

LEMMA NamesUsername == ASSUME NEW e \in Events, Names(e) PROVE e.username \in Bytes
  BY WorkerAssumption DEF Names

(* Only Publish adds an event: the name it takes was the chain's before.   *)
LEMMA NextKeepsFreed == ASSUME IInv, OInv, Freed, [Next]_vars PROVE Freed'
<1>1. DOMAIN jobs \subseteq DOMAIN jobs' /\ \A k \in DOMAIN jobs : jobs'[k].event = jobs[k].event
  BY NextKeepsJobs
<1>2. \A k \in DOMAIN jobs : \A a : NamesOf(k, a)' <=> NamesOf(k, a)
  BY <1>1 DEF NamesOf
<1>3. CASE DOMAIN jobs' = DOMAIN jobs
  <2> SUFFICES ASSUME NEW j \in DOMAIN jobs, NEW k \in DOMAIN jobs, j < k,
                      Names(jobs[j].event), Names(jobs[k].event),
                      jobs[j].event.account # jobs[k].event.account,
                      jobs[j].event.username = jobs[k].event.username,
                      jobs[k].event.username # Empty
               PROVE  \E m \in DOMAIN jobs :
                        /\ j < m /\ m < k /\ NamesOf(m, jobs[j].event.account)'
                        /\ jobs'[m].event.username # jobs[j].event.username
                        /\ \A n \in DOMAIN jobs : m < n /\ n < k => ~NamesOf(n, jobs[j].event.account)'
    BY <1>1, <1>3 DEF Freed
  <2>1. PICK m \in DOMAIN jobs :
          /\ j < m /\ m < k /\ NamesOf(m, jobs[j].event.account)
          /\ jobs[m].event.username # jobs[j].event.username
          /\ \A n \in DOMAIN jobs : m < n /\ n < k => ~NamesOf(n, jobs[j].event.account)
    BY DEF Freed
  <2> QED BY <1>1, <1>2, <2>1
<1>4. ASSUME NEW e \in Events, Publish(e) PROVE Freed'
  <2>0. PICK z \in Nat : z = Len(jobs) + 1
    BY DEF IInv, QueueOK, JobsOK
  <2>1. /\ DOMAIN jobs' = DOMAIN jobs \cup {z} /\ jobs'[z].event = e /\ DOMAIN jobs \subseteq Nat
        /\ \A k \in DOMAIN jobs : k < z
    BY <1>4, <2>0 DEF Publish, IInv, QueueOK, JobsOK
  <2> SUFFICES ASSUME NEW j \in DOMAIN jobs', NEW k \in DOMAIN jobs', j < k,
                      Names(jobs'[j].event), Names(jobs'[k].event),
                      jobs'[j].event.account # jobs'[k].event.account,
                      jobs'[j].event.username = jobs'[k].event.username,
                      jobs'[k].event.username # Empty
               PROVE  \E m \in DOMAIN jobs' :
                        /\ j < m /\ m < k /\ NamesOf(m, jobs[j].event.account)'
                        /\ jobs'[m].event.username # jobs'[j].event.username
                        /\ \A n \in DOMAIN jobs' : m < n /\ n < k => ~NamesOf(n, jobs[j].event.account)'
    BY DEF Freed
  <2>2. j \in DOMAIN jobs
    BY <2>1
  <2>3. PICK a : a = jobs[j].event.account
    OBVIOUS
  <2>4. jobs'[j].event = jobs[j].event /\ NamesOf(j, a) /\ a \in Accounts
    BY <1>1, <2>2, <2>3, JobFacts, WorkerAssumption DEF NamesOf, IInv
  <2>5. \E m \in DOMAIN jobs :
          /\ j < m /\ m < k /\ NamesOf(m, a) /\ jobs[m].event.username # jobs[j].event.username
          /\ \A n \in DOMAIN jobs : m < n /\ n < k => ~NamesOf(n, a)
    <3>1. CASE k \in DOMAIN jobs
      BY <1>1, <2>2, <2>3, <2>4, <3>1 DEF Freed
    <3>2. CASE k = z
      <4>1. Names(e) /\ e.account # a /\ e.username = jobs[j].event.username /\ e.username # Empty
        BY <2>1, <2>3, <2>4, <3>2
      <4>2. chain[a] # e.username
        BY <1>4, <2>4, <4>1 DEF Publish
      <4>3. LastName(a, chain[a])
        BY <2>2, <2>4 DEF OInv, ChainIsLast, NoName
      <4>4. PICK m \in DOMAIN jobs :
              /\ NamesOf(m, a) /\ jobs[m].event.username = chain[a]
              /\ \A n \in DOMAIN jobs : NamesOf(n, a) => n <= m
        BY <4>3 DEF LastName
      <4>5. j <= m /\ j # m /\ m < k
        BY <2>1, <2>2, <2>4, <3>2, <4>1, <4>2, <4>4
      <4>6. j < m /\ \A n \in DOMAIN jobs : m < n => ~NamesOf(n, a)
        BY <2>1, <2>2, <4>4, <4>5
      <4> QED BY <4>1, <4>2, <4>4, <4>5, <4>6
    <3> QED BY <2>1, <3>1, <3>2
  <2>6. PICK m \in DOMAIN jobs :
          /\ j < m /\ m < k /\ NamesOf(m, a) /\ jobs[m].event.username # jobs[j].event.username
          /\ \A n \in DOMAIN jobs : m < n /\ n < k => ~NamesOf(n, a)
    BY <2>5
  <2>7. \A n \in DOMAIN jobs' : n < k => n \in DOMAIN jobs
    BY <2>1
  <2> QED BY <1>1, <1>2, <2>3, <2>4, <2>6, <2>7
<1>5. (\E e \in Events : Publish(e)) \/ DOMAIN jobs' = DOMAIN jobs
  <2>1. QueueOK
    BY DEF IInv
  <2> QED BY <2>1 DEF Next, Handle, TakeJob, FindUser, Save, Complete, HandlerThrows, Promote,
               RecoverStalled, DatabaseFails, Crash, vars, QueueOK, JobsOK
<1> QED BY <1>3, <1>4, <1>5

(* What a request writes is its job's name.                                *)
LEMMA SaveTells ==
  ASSUME IInv, Save, NEW i \in Ids, users'[i] # None,
         Service!Truthy(users'[i].fields["username"])
  PROVE  \/ /\ users[i] # None /\ users'[i].account = users[i].account
            /\ users'[i].fields["username"] = users[i].fields["username"]
         \/ /\ At("saving") /\ NamesOf(active, users'[i].account)
            /\ users'[i].fields["username"] = OrUndef(Job.event.username)
<1>1. CASE users[i] # None
  BY <1>1, SaveKeepsNames
<1>2. CASE users[i] = None
  <2> DEFINE q == req[Worker]
             row == [account |-> q.account, fields |-> Service!Inserted(q.entity)]
  <2>1. CASE Service!WriteInsert(Worker)
    <3>1. /\ TableOK /\ q.at = "insert" /\ q \in Request /\ At("saving") /\ Creates(q, Job)
          /\ q.dto \in Dtos /\ Job.event \in Events /\ Decodes(Job.event)
      BY <2>1, UnderWay DEF IInv, Service!WriteInsert, Updates
    <3>2. q.id = 0 /\ q.account = Job.event.account /\ q.dto = CreateDto(Job)
          /\ q.entity = Service!Assigned(Service!Blank, q.dto)
      BY <3>1 DEF Creates
    <3>3. users' = [users EXCEPT ![nextId] = row]
      BY <1>2, <2>1, <3>2, IdsFacts DEF Service!WriteInsert, Service!FreshId
    <3>4. users'[i] = row
      BY <1>2, <3>1, <3>3 DEF TableOK
    <3>5. "username" \in Columns /\ Default["username"] \in Falsy
      BY TableAssumption
    <3>6. row.account = q.account
          /\ row.fields["username"] = IF q.entity["username"] = Undef THEN Default["username"]
                                      ELSE q.entity["username"]
      BY <3>5 DEF Service!Inserted
    <3>7. "username" \in DOMAIN q.dto /\ q.dto["username"] = OrUndef(Job.event.username)
      BY <3>2 DEF CreateDto
    <3>8. q.entity["username"] = OrUndef(Job.event.username)
      BY <3>2, <3>5, <3>7 DEF Service!Assigned
    <3> HIDE DEF row
    <3>9. q.entity["username"] # Undef
      BY <3>4, <3>5, <3>6 DEF Service!Truthy
    <3>10. Names(Job.event)
      <4>1. Job.event.kind \in {"UsernameSet", "ProfileUpdated"}
        BY <3>1, WorkerAssumption DEF Decodes
      <4> QED BY <3>8, <3>9, <4>1 DEF Names, OrUndef
    <3> QED BY <3>1, <3>2, <3>4, <3>6, <3>8, <3>9, <3>10 DEF NamesOf, Job
  <2>2. CASE Service!WriteUpdate(Worker)
    <3>1. TableOK /\ users[q.id] # None /\ q.id \in Ids
      BY <2>2, UnderWay DEF IInv, Service!WriteUpdate, Creates, Updates
    <3>2. users'[i] = users[i]
      BY <1>2, <2>2, <3>1 DEF Service!WriteUpdate, TableOK
    <3> QED BY <1>2, <3>2
  <2>3. CASE UNCHANGED users
    BY <1>2, <2>3
  <2> QED BY <2>1, <2>2, <2>3 DEF Save, Service!FindAccount, Service!FindUsername,
               Service!FindOne, Service!Load
<1> QED BY <1>1, <1>2

LEMMA NextKeepsRows == ASSUME IInv, OInv, RowTells, [Next]_vars PROVE RowTells'
<1>1. /\ DOMAIN jobs \subseteq DOMAIN jobs'
      /\ \A k \in DOMAIN jobs : jobs'[k].event = jobs[k].event
      /\ \A k \in DOMAIN jobs : Begun(jobs[k]) => Begun(jobs'[k])
  BY NextKeepsJobs
<1>2. \A k \in DOMAIN jobs : \A a : NamesOf(k, a)' <=> NamesOf(k, a)
  BY <1>1 DEF NamesOf
<1>3. CASE UNCHANGED users
  BY <1>1, <1>2, <1>3 DEF RowTells
<1>4. CASE Save
  <2> SUFFICES ASSUME NEW i \in Ids, users'[i] # None,
                      Service!Truthy(users'[i].fields["username"])
               PROVE  \E k \in DOMAIN jobs' :
                        /\ NamesOf(k, users[i].account)' /\ Begun(jobs'[k])
                        /\ OrUndef(jobs'[k].event.username) = users'[i].fields["username"]
    BY DEF RowTells
  <2>1. CASE /\ users[i] # None /\ users'[i].account = users[i].account
             /\ users'[i].fields["username"] = users[i].fields["username"]
    <3>1. PICK k \in DOMAIN jobs :
            /\ NamesOf(k, users[i].account) /\ Begun(jobs[k])
            /\ OrUndef(jobs[k].event.username) = users[i].fields["username"]
      BY <2>1 DEF RowTells
    <3> QED BY <1>1, <1>2, <2>1, <3>1
  <2>2. CASE /\ At("saving") /\ NamesOf(active, users'[i].account)
             /\ users'[i].fields["username"] = OrUndef(Job.event.username)
    <3>1. active \in DOMAIN jobs /\ Begun(jobs[active])
      BY <2>2 DEF At, Job, Begun, IInv, QueueOK
    <3> QED BY <1>1, <1>2, <2>2, <3>1 DEF Job
  <2> QED BY <1>4, <2>1, <2>2, SaveTells
<1>5. Save \/ UNCHANGED users
  BY DEF Next, Handle, Publish, TakeJob, FindUser, Complete, HandlerThrows, Promote,
         RecoverStalled, DatabaseFails, Crash, vars, service, Service!Update, Service!Create,
         Service!Begin, Service!DatabaseError
<1> QED BY <1>3, <1>4, <1>5

LEMMA NextKeepsNew == ASSUME IInv, RequestIsNew, [Next]_vars PROVE RequestIsNew'
<1> DEFINE q == req[Worker]
<1>1. req \in [{Worker} -> Request] /\ QueueOK /\ TableOK
  BY DEF IInv, RequestOK
<1>2. CASE UNCHANGED <<users, req>>
  BY <1>2 DEF RequestIsNew, Service!AccountTaken
<1>3. ASSUME req'[Worker].at = "done" PROVE RequestIsNew'
  BY <1>3 DEF RequestIsNew
<1>4. ASSUME NEW outcome \in Service!Outcomes, Service!Finish(Worker, outcome)
      PROVE  RequestIsNew'
  BY <1>1, <1>3, <1>4, IdleFacts DEF Service!Finish
<1>5. CASE FindUser
  <2>1. Service!Idle \in Request
    BY BlankFacts, IdsFacts DEF Request, Service!Idle, Service!Places, Service!Outcomes
  <2>2. ASSUME NEW i \in Ids, Service!Update(Worker, i, UpdateDto(Job)) PROVE RequestIsNew'
    <3>1. req'[Worker].at = "findOne" /\ req'[Worker].id = i
      BY <1>1, <2>2 DEF Service!Update, Service!Begin, Service!Idle
    <3> QED BY <3>1, IdsFacts DEF RequestIsNew
  <2>3. ASSUME ~Service!AccountTaken(Job.event.account),
               Service!Create(Worker, Job.event.account, CreateDto(Job))
        PROVE  RequestIsNew'
    <3>1. /\ req'[Worker].at = "findAccount" /\ req'[Worker].id = 0 /\ users' = users
          /\ req'[Worker].account = Job.event.account
      BY <1>1, <2>3, IdsFacts DEF Service!Create, Service!Begin, Service!Idle
    <3> QED BY <2>3, <3>1 DEF RequestIsNew, Service!AccountTaken
  <2> QED BY <1>5, <2>2, <2>3 DEF FindUser, Ids
<1>6. CASE Save
  <2>1. ASSUME NEW place, place # "findUsername", q.at # "done", users' = users,
               Service!Goto(Worker, place)
        PROVE  RequestIsNew'
    <3>1. req'[Worker] = [q EXCEPT !.at = place]
      BY <1>1, <2>1 DEF Service!Goto
    <3>2. req'[Worker].at = place /\ req'[Worker].id = q.id /\ req'[Worker].account = q.account
      BY <1>1, <3>1 DEF Request
    <3> QED BY <2>1, <3>2 DEF RequestIsNew, Service!AccountTaken
  <2>2. CASE Service!FindAccount(Worker)
    <3>1. CASE Service!AccountTaken(q.account)
      BY <1>4, <2>2, <3>1 DEF Service!FindAccount, Service!Outcomes
    <3>2. CASE ~Service!AccountTaken(q.account)
      <4>1. Creates(q, Job) /\ q.id = 0 /\ users' = users
        BY <2>2, UnderWay DEF Service!FindAccount, Creates, Updates
      <4>2. PICK place : req'[Worker] = [q EXCEPT !.at = place]
        BY <1>1, <2>2, <3>2 DEF Service!FindAccount, Service!Goto
      <4>3. req'[Worker].id = 0 /\ req'[Worker].account = q.account
        BY <1>1, <4>1, <4>2 DEF Request
      <4> QED BY <3>2, <4>1, <4>3 DEF RequestIsNew, Service!AccountTaken
    <3> QED BY <3>1, <3>2
  <2>3. CASE Service!FindUsername(Worker)
    <3>1. CASE Service!UsernameTaken(Service!UsernameOf(q.dto))
      BY <1>4, <2>3, <3>1 DEF Service!FindUsername, Service!Outcomes
    <3>2. CASE ~Service!UsernameTaken(Service!UsernameOf(q.dto))
      BY <2>1, <2>3, <3>2 DEF Service!FindUsername
    <3> QED BY <3>1, <3>2
  <2>4. CASE Service!FindOne(Worker)
    <3> DEFINE name == Service!UsernameOf(q.dto)
               row == users[q.id]
               place == IF Service!Truthy(name) /\ name # row.fields["username"]
                        THEN "findUsername" ELSE "load"
    <3>1. q \in Request /\ Updates(q, Job) /\ row # None /\ q.id \in Ids /\ users' = users
      BY <2>4, UnderWay DEF Service!FindOne, Creates, Updates
    <3>2. req'[Worker] = [q EXCEPT !.at = place, !.account = row.account,
                                    !.entity = Service!Assigned(row.fields, q.dto)]
      BY <1>1, <2>4, <3>1 DEF Service!FindOne
    <3>3. place = "findUsername" => name # row.fields["username"]
      OBVIOUS
    <3> HIDE DEF place
    <3>4. req'[Worker].at = place /\ req'[Worker].id = q.id /\ req'[Worker].dto = q.dto
      BY <3>1, <3>2 DEF Request
    <3> QED BY <3>1, <3>3, <3>4, IdsFacts DEF RequestIsNew
  <2>5. CASE Service!Load(Worker)
    <3>1. q.at = "load" /\ q.id \in Ids /\ users[q.id] # None
      BY <2>5, UnderWay DEF Service!Load, Creates, Updates
    <3>3. CASE Service!Finish(Worker, "ok")
      BY <1>4, <3>3 DEF Service!Outcomes
    <3>4. CASE ~Service!Finish(Worker, "ok")
      <4>1. \E c : req'[Worker] = [q EXCEPT !.at = "update", !.changed = c]
        BY <1>1, <2>5, <3>1, <3>4 DEF Service!Load
      <4>2. PICK c : req'[Worker] = [q EXCEPT !.at = "update", !.changed = c]
        BY <4>1
      <4>3. req'[Worker].at = "update" /\ req'[Worker].id = q.id
        BY <1>1, <4>2 DEF Request
      <4> QED BY <3>1, <4>3, IdsFacts DEF RequestIsNew
    <3> QED BY <3>3, <3>4
  <2>6. CASE Service!WriteUpdate(Worker) \/ Service!WriteInsert(Worker)
    <3>1. \E outcome \in Service!Outcomes : Service!Finish(Worker, outcome)
      BY <2>6 DEF Service!WriteUpdate, Service!WriteInsert, Service!Outcomes
    <3> QED BY <1>4, <3>1
  <2> QED BY <1>6, <2>2, <2>3, <2>4, <2>5, <2>6 DEF Save
<1>7. CASE Crash
  <2>1. req'[Worker].at = "done"
    BY <1>1, <1>7 DEF Crash, Service!Idle
  <2> QED BY <1>3, <2>1
<1>8. CASE DatabaseFails
  <2>1. UNCHANGED <<users, req>> \/ Service!Finish(Worker, "dbError")
    BY <1>8 DEF DatabaseFails, service, Service!DatabaseError
  <2> QED BY <1>2, <1>4, <2>1 DEF Service!Outcomes
<1>9. \/ FindUser \/ Save \/ Crash \/ DatabaseFails
      \/ UNCHANGED <<users, req>>
  BY DEF Next, Handle, Publish, TakeJob, Complete, HandlerThrows, Promote, RecoverStalled,
         vars, service
<1> QED BY <1>2, <1>5, <1>6, <1>7, <1>8, <1>9

(* In calm weather no row of another account bears the name asked for: the *)
(* job that gave up that name came first, is done, and its row shows the   *)
(* name its account went on to.                                            *)
LEMMA NoConflict ==
  ASSUME IInv, OInv, WInv, CalmWeather, At("saving"), Names(Job.event),
         OrUndef(Job.event.username) # Undef,
         NEW i \in Ids, users[i] # None, users[i].account # Job.event.account,
         users[i].fields["username"] = OrUndef(Job.event.username)
  PROVE  FALSE
<1>1. PICK j \in DOMAIN jobs : j = active
  BY DEF IInv, QueueOK, At
<1>2. PICK t : t = OrUndef(jobs[j].event.username)
  OBVIOUS
<1>3. PICK a : a = users[i].account
  OBVIOUS
<1>4. /\ Names(jobs[j].event) /\ jobs[j].at = "saving" /\ jobs[j].event.account # a
      /\ t # Undef /\ users[i].fields["username"] = t
  BY <1>1, <1>2, <1>3 DEF At, Job
<1>5. InOrder /\ NamesShown /\ NoneCleared /\ NoneAlike /\ Calm /\ Freed /\ RowTells
  BY DEF OInv, WInv, NothingFails, CalmWeather
<1>6. DOMAIN jobs \subseteq Nat
  BY DEF IInv, QueueOK, JobsOK
<1>7. Service!Truthy(t)
  BY <1>2, <1>4 DEF OrUndef, Service!Truthy
<1>8. PICK k \in DOMAIN jobs :
        /\ NamesOf(k, a) /\ Begun(jobs[k]) /\ OrUndef(jobs[k].event.username) = t
  BY <1>3, <1>4, <1>5, <1>7 DEF RowTells
<1>9. jobs[k].at # "waiting"
  BY <1>5, <1>8, NamesDecode DEF Calm, Undisturbed, Begun, NamesOf
<1>10. k < j
  <2>1. ~(j < k)
    BY <1>4, <1>5, <1>8, <1>9, NamesDecode DEF InOrder, NamesOf
  <2>2. j # k
    BY <1>4, <1>8 DEF NamesOf
  <2> QED BY <1>6, <2>1, <2>2
<1>11. jobs[k].event.username = jobs[j].event.username
  BY <1>2, <1>4, <1>5, <1>8 DEF NoneAlike, NamesOf
<1>12. jobs[j].event.username # Empty
  BY <1>2, <1>4, WorkerAssumption DEF OrUndef
<1>13. PICK m \in DOMAIN jobs :
         /\ k < m /\ m < j /\ NamesOf(m, a) /\ jobs[m].event.username # jobs[k].event.username
         /\ \A n \in DOMAIN jobs : m < n /\ n < j => ~NamesOf(n, a)
  BY <1>4, <1>5, <1>8, <1>10, <1>11, <1>12 DEF Freed, NamesOf
<1>14. OrUndef(jobs[m].event.username) # Undef
  BY <1>4, <1>5, <1>8, <1>13 DEF NoneCleared, NamesOf
<1>15. jobs[m].at = "done"
  BY <1>4, <1>5, <1>13, NamesDecode DEF InOrder, NamesOf
<1>16. ~Superseded(m)
  <2> SUFFICES ASSUME NEW n \in DOMAIN jobs, m < n, NamesOf(n, a), jobs[n].at # "waiting"
               PROVE  FALSE
    BY <1>13 DEF Superseded, NamesOf
  <2>1. ~(n < j) /\ n # j
    BY <1>4, <1>13 DEF NamesOf
  <2>2. j < n
    BY <1>6, <2>1
  <2> QED BY <1>4, <1>5, <2>2, NamesDecode DEF InOrder, NamesOf
<1>17. Shown(m)
  BY <1>5, <1>13, <1>14, <1>15, <1>16 DEF NamesShown, NamesOf
<1>18. users[i].fields["username"] = OrUndef(jobs[m].event.username)
  BY <1>3, <1>13, <1>17 DEF Shown, NamesOf, IInv, TableOK
<1> QED BY <1>4, <1>5, <1>8, <1>13, <1>18 DEF NoneAlike, NamesOf

(* A request is answered with success unless the database fails.           *)
LEMMA SaveSucceeds ==
  ASSUME IInv, OInv, WInv, CalmWeather, Save, req'[Worker].at = "done"
  PROVE  req'[Worker].outcome = "ok"
<1> DEFINE q == req[Worker]
<1>1. req \in [{Worker} -> Request] /\ TableOK
  BY DEF IInv, RequestOK
<1>2. ASSUME Service!Finish(Worker, "ok") PROVE req'[Worker].outcome = "ok"
  BY <1>1, <1>2, IdleFacts DEF Service!Finish, Service!Outcomes
<1>3. ASSUME NEW place, place # "done", Service!Goto(Worker, place) PROVE FALSE
  BY <1>1, <1>3 DEF Service!Goto, Request
<1>4. q.at # "done"
  BY DEF Save, Service!FindAccount, Service!FindUsername, Service!FindOne, Service!Load,
         Service!WriteUpdate, Service!WriteInsert
<1>5. /\ q \in Request /\ At("saving") /\ (Creates(q, Job) \/ Updates(q, Job))
      /\ q.at = "findUsername" => Service!Truthy(Service!UsernameOf(q.dto))
      /\ Job.event \in Events /\ Decodes(Job.event) /\ Job.event.account \in Accounts
  BY <1>4, UnderWay
<1>6. /\ q.id = 0 => ~Service!AccountTaken(q.account)
      /\ q.at = "findUsername" /\ q.id # 0 => users[q.id].fields["username"] # Service!UsernameOf(q.dto)
  BY <1>4 DEF WInv, RequestIsNew
<1>7. CASE Service!FindAccount(Worker)
  <2>1. q.id = 0
    BY <1>5, <1>7 DEF Service!FindAccount, Creates, Updates
  <2> QED BY <1>3, <1>6, <1>7, <2>1 DEF Service!FindAccount
<1>8. CASE Service!FindUsername(Worker)
  <2> DEFINE name == Service!UsernameOf(q.dto)
  <2>1. q.at = "findUsername" /\ Service!Truthy(name)
    BY <1>5, <1>8 DEF Service!FindUsername
  <2>2. name = OrUndef(Job.event.username)
    <3>1. q.dto \in {CreateDto(Job), UpdateDto(Job)}
      BY <1>5 DEF Creates, Updates
    <3> QED BY <3>1 DEF Service!UsernameOf, CreateDto, UpdateDto
  <2>3. name # Undef
    BY <2>1 DEF Service!Truthy
  <2>4. Names(Job.event)
    <3>1. Job.event.kind \in {"UsernameSet", "ProfileUpdated"}
      BY <1>5, WorkerAssumption DEF Decodes
    <3> QED BY <2>2, <2>3, <3>1 DEF Names, OrUndef
  <2>5. ASSUME NEW i \in Ids, users[i] # None, users[i].fields["username"] = name PROVE FALSE
    <3>1. CASE users[i].account # Job.event.account
      BY <1>5, <2>2, <2>3, <2>4, <2>5, <3>1, NoConflict
    <3>2. CASE users[i].account = Job.event.account
      <4>1. CASE Creates(q, Job)
        BY <1>6, <2>5, <3>2, <4>1 DEF Creates, Service!AccountTaken, Ids
      <4>2. CASE Updates(q, Job)
        <5>1. q.id = i
          BY <1>1, <2>5, <3>2, <4>2 DEF Updates, TableOK
        <5> QED BY <1>6, <2>1, <2>5, <5>1, IdsFacts
      <4> QED BY <1>5, <4>1, <4>2
    <3> QED BY <3>1, <3>2
  <2>6. ~Service!UsernameTaken(name)
    BY <2>5 DEF Service!UsernameTaken, Ids
  <2> QED BY <1>3, <1>8, <2>6 DEF Service!FindUsername
<1>9. CASE Service!FindOne(Worker)
  <2>1. users[q.id] # None
    BY <1>5, <1>9 DEF Service!FindOne, Creates, Updates
  <2>2. req'[Worker].at \in {"findUsername", "load"}
    BY <1>1, <1>5, <1>9, <2>1 DEF Service!FindOne, Request
  <2> QED BY <2>2
<1>10. CASE Service!Load(Worker)
  <2>1. users[q.id] # None
    BY <1>5, <1>10 DEF Service!Load, Creates, Updates
  <2>2. Service!Finish(Worker, "ok") \/ req'[Worker].at = "update"
    BY <1>1, <1>10, <2>1 DEF Service!Load, Request
  <2> QED BY <1>2, <2>2
<1>11. CASE Service!WriteUpdate(Worker)
  BY <1>2, <1>11 DEF Service!WriteUpdate
<1>12. CASE Service!WriteInsert(Worker)
  <2>1. q.id = 0 /\ q.account = Job.event.account
    BY <1>5, <1>12 DEF Service!WriteInsert, Creates, Updates
  <2>2. nextId \in Ids
    BY <1>1, <1>5, <1>6, <2>1, FreshIdFits
  <2>3. users[nextId] = None
    BY <1>1, <2>2, IdsFacts DEF TableOK
  <2>4. Service!Insertable(nextId, q.account)
    BY <1>6, <2>1, <2>3 DEF Service!Insertable
  <2> QED BY <1>2, <1>12, <2>1, <2>4, IdsFacts DEF Service!WriteInsert, Service!FreshId
<1> QED BY <1>7, <1>8, <1>9, <1>10, <1>11, <1>12 DEF Save

LEMMA NextKeepsFine == ASSUME IInv, OInv, WInv, [Next]_vars PROVE NothingFails'
<1> SUFFICES ASSUME CalmWeather' PROVE Calm' /\ (Answered' => req'[Worker].outcome = "ok")
  BY DEF NothingFails
<1>1. CalmWeather /\ Calm /\ UNCHANGED faults
  BY NextKeepsCalm DEF WInv, NothingFails
<1>2. Answered => req[Worker].outcome = "ok"
  BY <1>1 DEF WInv, NothingFails
<1>3. QueueOK /\ faults \in Nat /\ \A k \in DOMAIN jobs : jobs[k] \in JobType
  BY JobFacts, WorkerAssumption DEF IInv, OtherOK
<1>4. ASSUME NEW j \in DOMAIN jobs, NEW r \in JobType, jobs' = [jobs EXCEPT ![j] = r], Undisturbed(r)
      PROVE  Calm'
  BY <1>1, <1>3, <1>4 DEF Calm, QueueOK, JobsOK
<1>5. ASSUME NEW j \in DOMAIN jobs, NEW p \in Status, p # "stalled", jobs' = [jobs EXCEPT ![j].at = p]
      PROVE  Calm'
  <2> DEFINE r == [jobs[j] EXCEPT !.at = p]
  <2>1. jobs' = [jobs EXCEPT ![j] = r] /\ Undisturbed(jobs[j])
    BY <1>1, <1>5 DEF Calm
  <2>2. /\ r \in JobType /\ r.at = p /\ r.event = jobs[j].event
        /\ r.attempts = jobs[j].attempts /\ r.stalls = jobs[j].stalls
    BY <1>3, AtMoves
  <2> HIDE DEF r
  <2> QED BY <1>4, <1>5, <2>1, <2>2 DEF Undisturbed
<1>6. ASSUME UNCHANGED <<req, active>>, active # 0 => jobs'[active] = jobs[active]
      PROVE  Answered' => req'[Worker].outcome = "ok"
  BY <1>2, <1>6 DEF Answered, At, Job
<1>7. ASSUME NEW e \in Events, Publish(e) PROVE Calm' /\ (Answered' => req'[Worker].outcome = "ok")
  <2>1. /\ \A k \in DOMAIN jobs : jobs'[k] = jobs[k]
        /\ \A k \in DOMAIN jobs' \ DOMAIN jobs :
             jobs'[k].attempts = 0 /\ jobs'[k].stalls = 0 /\ jobs'[k].at = "waiting"
    BY <1>3, <1>7 DEF Publish, QueueOK, JobsOK
  <2>2. Calm'
    BY <1>1, <2>1 DEF Calm, Undisturbed
  <2> QED BY <1>3, <1>6, <1>7, <2>1, <2>2 DEF Publish, QueueOK, service
<1>8. CASE TakeJob
  <2>1. Head(wait) \in DOMAIN jobs
    BY <1>3, <1>8, TailWaits DEF TakeJob, QueueOK
  <2>2. Calm'
    BY <1>5, <1>8, <2>1 DEF TakeJob, Status
  <2>3. jobs'[Head(wait)].at = "finding"
    BY <1>3, <1>8, <2>1 DEF TakeJob, JobType, QueueOK, JobsOK
  <2> QED BY <1>8, <2>2, <2>3 DEF TakeJob, Answered, At, Job
<1>9. CASE FindUser
  <2>1. active \in DOMAIN jobs
    BY <1>3, <1>9 DEF FindUser, At, QueueOK
  <2>2. Calm'
    BY <1>5, <1>9, <2>1 DEF FindUser, Status
  <2>3. req'[Worker].at # "done"
    <3>1. req \in [{Worker} -> Request]
      BY DEF IInv, RequestOK
    <3> QED BY <1>9, <3>1 DEF FindUser, Service!Update, Service!Create, Service!Begin, Service!Idle
  <2> QED BY <2>2, <2>3 DEF Answered
<1>10. CASE Save
  BY <1>1, <1>10, SaveSucceeds DEF Save, Calm, Answered
<1>11. CASE Complete
  <2>1. active \in DOMAIN jobs
    BY <1>3, <1>11 DEF Complete, Answered, At, QueueOK
  <2>2. Calm'
    BY <1>5, <1>11, <2>1 DEF Complete, Status
  <2> QED BY <1>11, <2>2 DEF Complete, Answered, At
<1>12. CASE HandlerThrows
  <2>1. At("finding") /\ ~Decodes(Job.event)
    BY <1>2, <1>12 DEF HandlerThrows, Succeeded
  <2> DEFINE r == Tried(Job)
  <2>2. jobs' = [jobs EXCEPT ![active] = r] /\ active \in DOMAIN jobs
    BY <1>3, <1>12, <2>1 DEF HandlerThrows, Job, At, QueueOK
  <2>3. r \in JobType /\ r.event = Job.event
    BY <1>3, <2>1, TriedFacts DEF At
  <2> HIDE DEF r
  <2>4. Calm'
    BY <1>4, <2>1, <2>2, <2>3 DEF Undisturbed
  <2> QED BY <1>12, <2>4 DEF HandlerThrows, Answered, At
<1>13. ASSUME NEW j \in DOMAIN jobs, Promote(j) \/ RecoverStalled(j)
       PROVE  Calm' /\ (Answered' => req'[Worker].outcome = "ok")
  <2>1. ~Decodes(jobs[j].event)
    BY <1>1, <1>13 DEF Calm, Undisturbed, Promote, RecoverStalled, OInv, TriedCounts
  <2>2. DOMAIN jobs' = DOMAIN jobs /\ \A k \in DOMAIN jobs \ {j} : jobs'[k] = jobs[k]
    BY <1>3, <1>13 DEF Promote, RecoverStalled, QueueOK, JobsOK
  <2>3. jobs'[j].event = jobs[j].event
    BY NextKeepsJobs
  <2>4. Calm'
    <3> SUFFICES ASSUME NEW k \in DOMAIN jobs PROVE Undisturbed(jobs'[k])
      BY <2>2 DEF Calm
    <3>1. CASE k = j
      BY <2>1, <2>3, <3>1 DEF Undisturbed
    <3>2. CASE k # j
      BY <1>1, <2>2, <3>2 DEF Calm
    <3> QED BY <3>1, <3>2
  <2>5. active # j
    BY <1>3, <1>13, JobFacts DEF Promote, RecoverStalled
  <2>6. active # 0 => jobs'[active] = jobs[active]
    BY <1>3, <2>2, <2>5 DEF QueueOK
  <2> QED BY <1>6, <1>13, <2>4, <2>6 DEF Promote, RecoverStalled, service
<1>14. ~DatabaseFails /\ ~Crash
  BY <1>1, <1>3 DEF DatabaseFails, Crash, Fault
<1>15. CASE UNCHANGED vars
  BY <1>1, <1>6, <1>15 DEF vars, Calm
<1> QED BY <1>7, <1>8, <1>9, <1>10, <1>11, <1>12, <1>13, <1>14, <1>15 DEF Next, Handle

LEMMA CalmInit == Init => OInv /\ WInv
<1> SUFFICES ASSUME Init PROVE OInv /\ WInv
  OBVIOUS
<1>1. jobs = <<>> /\ DOMAIN jobs = {} /\ active = 0 /\ chain = [a \in Accounts |-> None]
  BY DEF Init
<1>2. users = [i \in Ids |-> None] /\ req[Worker] = Service!Idle
  BY DEF Init, Service!Init, Ids
<1>3. OInv
  BY <1>1 DEF OInv, TriedCounts, ChainIsLast, NoName, InOrder, NamesShown
<1>4. Freed /\ RowTells /\ RequestIsNew
  BY <1>1, <1>2 DEF Freed, RowTells, RequestIsNew, Service!Idle
<1>5. NothingFails
  BY <1>1 DEF NothingFails, Calm, Answered, At
<1> QED BY <1>3, <1>4, <1>5 DEF WInv

(* EventWorker!NamesArrive, for any events, accounts and faults: in calm   *)
(* weather every event the worker can decode is done in the end, and the   *)
(* table shows the names the accounts have on the chain.                   *)
THEOREM NamesArriveInCalm == Spec => []NamesArrive
<1>1. IInv /\ OInv /\ WInv /\ [Next]_vars => OInv' /\ WInv'
  BY NextKeepsNames, NextKeepsFreed, NextKeepsRows, NextKeepsNew, NextKeepsFine DEF WInv
<1>2. IInv /\ OInv /\ WInv => NamesArrive
  <2> SUFFICES ASSUME IInv, OInv, WInv, CalmWeather, \A j \in DOMAIN jobs : jobs[j].at \in Settled
               PROVE  /\ \A j \in DOMAIN jobs : Decodes(jobs[j].event) => jobs[j].at = "done"
                      /\ NamesFollowChain
    BY DEF NamesArrive
  <2>1. Calm /\ NamesShown
    BY DEF WInv, NothingFails, OInv
  <2>2. ASSUME NEW j \in DOMAIN jobs, Decodes(jobs[j].event) PROVE jobs[j].at = "done"
    <3>1. ~(jobs[j].attempts + jobs[j].stalls > 0)
      BY <2>1, <2>2 DEF Calm, Undisturbed
    <3> QED BY <3>1 DEF OInv, TriedCounts, Settled
  <2>3. ASSUME NEW a \in Accounts, OrUndef(chain[a]) # Undef
        PROVE  \E i \in RowsOf(a) : users[i].fields["username"] = OrUndef(chain[a])
    <3>1. chain[a] \notin {None, Empty}
      BY <2>3, WorkerAssumption DEF OrUndef
    <3>2. PICK j \in DOMAIN jobs :
            /\ NamesOf(j, a) /\ jobs[j].event.username = chain[a]
            /\ \A k \in DOMAIN jobs : NamesOf(k, a) => k <= j
      BY <3>1 DEF OInv, ChainIsLast, LastName
    <3>3. jobs[j].at = "done"
      BY <2>2, <3>2, NamesDecode DEF NamesOf
    <3>4. ~Superseded(j)
      <4> SUFFICES ASSUME NEW k \in DOMAIN jobs, j < k, NamesOf(k, a) PROVE FALSE
        BY <3>2 DEF Superseded, NamesOf
      <4>1. k <= j /\ k \in Nat /\ j \in Nat
        BY <3>2, JobFacts DEF IInv
      <4> QED BY <4>1
    <3>5. Shown(j)
      BY <2>1, <2>3, <3>2, <3>3, <3>4 DEF NamesShown, NamesOf
    <3> QED BY <3>2, <3>5 DEF Shown, NamesOf, RowsOf, Ids
  <2> QED BY <2>2, <2>3 DEF NamesFollowChain
<1> QED BY <1>1, <1>2, CalmInit, Invariant, NextHolds, PTL DEF Spec
=============================================================================
