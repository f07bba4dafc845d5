----------------------------- MODULE EventWorker -----------------------------
(***************************************************************************)
(* EventProcessor: the worker of the queue "blockchain-events".  It takes  *)
(* one job at a time, decodes the event and calls UsersService to create   *)
(* or update the account's row; a handler that throws makes Bull try the   *)
(* job again later, up to MaxAttempts times.                               *)
(*                                                                         *)
(* Bull is modelled from how it is used: jobs wait in a list; a failed job *)
(* is delayed and then put at the list's tail; a job whose process died is *)
(* found stalled later and put at the head, once.  The chain is its names  *)
(* and the events it publishes, one per block.                             *)
(***************************************************************************)
EXTENDS Naturals, Sequences, FiniteSets

CONSTANTS
  Accounts, Columns, Values, Default, Falsy, Undef, None,  \* of UsersService
  Worker,      \* the worker, as a client of UsersService
  Bytes,       \* names and bios on the chain, Empty among them
  Empty,       \* the name of a profile created without one
  Text,        \* Text[b]: what bytes decode to, perhaps alike or ''
  Keep,        \* an event field that was not given
  Block,       \* a block number
  Events,      \* the events explored
  MaxAttempts, \* attempts of a job, the first included
  Faults,      \* the faults that may happen: "database", "crash"
  MaxFaults,   \* bound: how many of them do
  MaxJobs      \* bound: events published

VARIABLES
  users, nextId, req,  \* of UsersService
  chain,   \* chain[a]: the username of a's profile, or None
  jobs,    \* every job ever queued, in the order of its event
  wait,    \* the waiting jobs' indices, the next one first
  active,  \* the index of the job being handled, or 0
  faults   \* the faults so far

service == <<users, nextId, req>>
vars == <<users, nextId, req, chain, jobs, wait, active, faults>>

Dtos == UNION {[given -> Values \cup {Undef}] : given \in SUBSET Columns}
MaxRows == Cardinality(Accounts)

Service == INSTANCE UsersService WITH Clients <- {Worker}

Status == {"waiting", "finding", "saving", "delayed", "stalled", "done", "failed"}
Settled == {"done", "failed"}

(* Every column holds null until it is given a value, username among them. *)
ASSUME TableAssumption ==
  /\ IsFiniteSet(Accounts) /\ {"username", "bio", "createdAtBlock"} \subseteq Columns
  /\ Falsy \subseteq Values /\ Undef \notin Values /\ Block \in Values
  /\ Default \in [Columns -> Values] /\ Default["username"] \in Falsy
  /\ None \notin Service!Row \cup Accounts

ASSUME WorkerAssumption ==
  /\ MaxAttempts \in Nat \ {0} /\ MaxFaults \in Nat
  /\ Faults \subseteq {"database", "crash"}
  /\ {Keep, None} \cap Bytes = {} /\ Keep # None
  /\ Text \in [Bytes -> Values] /\ Empty \in Bytes /\ Text[Empty] \in Falsy
  /\ \A e \in Events :
       /\ e.account \in Accounts
       /\ \/ e.kind = "UsernameSet" /\ e.username \in Bytes
          \/ /\ e.kind = "ProfileUpdated"
             /\ e.username \in Bytes \cup {Keep} /\ e.bio \in Bytes \cup {Keep, None}
          \/ e.kind = "StatsUpdated"

Init ==
  /\ Service!Init
  /\ chain = [a \in Accounts |-> None]
  /\ jobs = <<>> /\ wait = <<>> /\ active = 0 /\ faults = 0

-----------------------------------------------------------------------------
(* An event that gives its account a name.                                 *)
Names(e) == e.kind = "UsernameSet" \/ (e.kind = "ProfileUpdated" /\ e.username # Keep)

(* The name an account has after an event.                                 *)
NameAfter(e) ==
  CASE Names(e) -> e.username
    [] e.kind = "ProfileUpdated" /\ ~Names(e) /\ chain[e.account] = None -> Empty
    [] OTHER -> chain[e.account]

(* The chain executes a call that gives no account another one's name, and *)
(* the listener queues its event.  Any number of accounts may be nameless. *)
Publish(e) ==
  /\ Len(jobs) < MaxJobs
  /\ Names(e) /\ e.username # Empty =>
       \A a \in Accounts \ {e.account} : chain[a] # e.username
  /\ chain' = [chain EXCEPT ![e.account] = NameAfter(e)]
  /\ jobs' = Append(jobs, [event |-> e, at |-> "waiting", attempts |-> 0, stalls |-> 0])
  /\ wait' = Append(wait, Len(jobs) + 1)
  /\ UNCHANGED <<service, active, faults>>

-----------------------------------------------------------------------------
Job == jobs[active]
At(place) == active # 0 /\ Job.at = place

TakeJob ==
  /\ active = 0 /\ wait # <<>>
  /\ active' = Head(wait)
  /\ wait' = Tail(wait)
  /\ jobs' = [jobs EXCEPT ![Head(wait)].at = "finding"]
  /\ UNCHANGED <<service, chain, faults>>

(* toJSON has turned the event's numbers into JavaScript numbers, which    *)
(* have no toNumber: handleStatsUpdated throws a TypeError.                *)
Decodes(e) == e.kind # "StatsUpdated"

(* `decoded || undefined`: bytes are read as UTF-8, with a replacement for *)
(* what is none, and without NULs; what is cleared, not given or decodes   *)
(* to nothing is lost.                                                     *)
OrUndef(v) ==
  IF v \in {Keep, None} THEN Undef ELSE IF Text[v] \in Falsy THEN Undef ELSE Text[v]

(* The DTO for an account that has no row.                                 *)
CreateDto(job) ==
  IF job.event.kind = "UsernameSet"
  THEN [username |-> OrUndef(job.event.username)]
  ELSE [username |-> OrUndef(job.event.username), bio |-> OrUndef(job.event.bio)]

(* Mutant: the name of a ProfileUpdated is forgotten.                      *)
UpdateDtoNameless(job) ==
  IF job.event.kind = "UsernameSet"
  THEN [username |-> OrUndef(job.event.username), createdAtBlock |-> Block]
  ELSE [bio |-> OrUndef(job.event.bio)]

(* The DTO for one that has.                                               *)
UpdateDto(job) ==
  IF job.event.kind = "UsernameSet"
  THEN [username |-> OrUndef(job.event.username), createdAtBlock |-> Block]
  ELSE CreateDto(job)

(* findByAccountId, and the call of UsersService that follows.             *)
FindUser ==
  /\ At("finding") /\ Decodes(Job.event)
  /\ \/ \E i \in Service!Ids :
          /\ users[i] # None /\ users[i].account = Job.event.account
          /\ Service!Update(Worker, i, UpdateDto(Job))
     \/ /\ ~Service!AccountTaken(Job.event.account)
        /\ Service!Create(Worker, Job.event.account, CreateDto(Job))
  /\ jobs' = [jobs EXCEPT ![active].at = "saving"]
  /\ UNCHANGED <<chain, wait, active, faults>>

(* UsersService goes on with the worker's request.                         *)
Save ==
  /\ \/ Service!FindAccount(Worker) \/ Service!FindUsername(Worker)
     \/ Service!FindOne(Worker) \/ Service!Load(Worker)
     \/ Service!WriteUpdate(Worker) \/ Service!WriteInsert(Worker)
  /\ UNCHANGED <<chain, jobs, wait, active, faults>>

Answered == At("saving") /\ req[Worker].at = "done"

(* Mutant: the handler logs its errors and does not throw them again.      *)
SucceededAnyway(outcome) == TRUE

Succeeded(outcome) == outcome = "ok"

Complete ==
  /\ Answered /\ Succeeded(req[Worker].outcome)
  /\ jobs' = [jobs EXCEPT ![active].at = "done"]
  /\ active' = 0
  /\ UNCHANGED <<service, chain, wait, faults>>

(* Mutants: an attempt is not counted; the job does not join the list.     *)
TriedAgain(job) == [job EXCEPT !.at = "delayed"]
TriedAtOnce(job) == [job EXCEPT !.attempts = @ + 1, !.at = "waiting"]

(* A job whose handler threw: delayed, until its attempts are used up.     *)
Tried(job) ==
  [job EXCEPT !.attempts = @ + 1,
              !.at = IF job.attempts + 1 = MaxAttempts THEN "failed" ELSE "delayed"]

HandlerThrows ==
  /\ \/ At("finding") /\ ~Decodes(Job.event)
     \/ Answered /\ ~Succeeded(req[Worker].outcome)
  /\ jobs' = [jobs EXCEPT ![active] = Tried(@)]
  /\ active' = 0
  /\ UNCHANGED <<service, chain, wait, faults>>

(* The back-off is over.                                                   *)
Promote(j) ==
  /\ jobs[j].at = "delayed"
  /\ jobs' = [jobs EXCEPT ![j].at = "waiting"]
  /\ wait' = Append(wait, j)
  /\ UNCHANGED <<service, chain, active, faults>>

-----------------------------------------------------------------------------
Fault(kind) == kind \in Faults /\ faults < MaxFaults /\ faults' = faults + 1

DatabaseFails ==
  /\ Fault("database")
  /\ \/ /\ At("finding") /\ Decodes(Job.event)
        /\ jobs' = [jobs EXCEPT ![active] = Tried(@)]
        /\ active' = 0
        /\ UNCHANGED service
     \/ Service!DatabaseError(Worker) /\ UNCHANGED <<jobs, active>>
  /\ UNCHANGED <<chain, wait>>

(* The process dies with its job and starts again.                         *)
Crash ==
  /\ Fault("crash")
  /\ active # 0
  /\ jobs' = [jobs EXCEPT ![active].at = "stalled"]
  /\ active' = 0
  /\ req' = [req EXCEPT ![Worker] = Service!Idle]
  /\ UNCHANGED <<users, nextId, chain, wait>>

(* The job's lock has run out: it is next, unless that happened before.    *)
RecoverStalled(j) ==
  /\ jobs[j].at = "stalled"
  /\ jobs' = [jobs EXCEPT ![j].stalls = @ + 1,
                          ![j].at = IF jobs[j].stalls = 0 THEN "waiting" ELSE "failed"]
  /\ wait' = IF jobs[j].stalls = 0 THEN <<j>> \o wait ELSE wait
  /\ UNCHANGED <<service, chain, active, faults>>

Handle == TakeJob \/ FindUser \/ Save \/ Complete \/ HandlerThrows

Next ==
  \/ \E e \in Events : Publish(e)
  \/ Handle
  \/ \E j \in DOMAIN jobs : Promote(j) \/ RecoverStalled(j)
  \/ DatabaseFails \/ Crash

Spec == Init /\ [][Next]_vars

(* Bull hands out what waits, promotes what is due and finds what has      *)
(* stalled; the handler's awaits return.                                   *)
Fairness ==
  /\ WF_vars(Handle)
  /\ \A j \in 1 .. MaxJobs :
       WF_vars(j \in DOMAIN jobs /\ (Promote(j) \/ RecoverStalled(j)))

FairSpec == Spec /\ Fairness

-----------------------------------------------------------------------------
(* A job is in one place of the queue, and the one being handled is the    *)
(* active one.                                                             *)
TypeOK ==
  /\ Service!TypeOK
  /\ chain \in [Accounts -> Bytes \cup {None}]
  /\ jobs \in Seq([event: Events, at: Status, attempts: 0 .. MaxAttempts, stalls: 0 .. 2])
  /\ active \in {0} \cup DOMAIN jobs
  /\ faults \in 0 .. MaxFaults
  /\ \A j \in DOMAIN jobs :
       /\ (jobs[j].at = "waiting") <=> (\E i \in DOMAIN wait : wait[i] = j)
       /\ (jobs[j].at \in {"finding", "saving"}) <=> (active = j)

RowsOf(a) == {i \in Service!Ids : users[i] # None /\ users[i].account = a}

(* A job reported done has been carried out: at that moment the account's  *)
(* row holds every column its event gave a value to, whatever failed or    *)
(* was tried twice before.                                                 *)
DoneMeansStored ==
  [][\A j \in DOMAIN jobs :
       jobs'[j].at = "done" /\ jobs[j].at # "done" =>
         LET given == CreateDto(jobs[j])
         IN  \E i \in RowsOf(jobs[j].event.account) :
               \A k \in DOMAIN given :
                 given[k] # Undef => users[i].fields[k] = given[k]]_vars

(* No matter which jobs fail, are overtaken or run twice, no two rows bear *)
(* the same name while the worker is the only one to write.                *)
UsernamesUnique == Service!UsernamesUnique

(* Every job is done or given up, whatever fails: none is retried for ever.*)
EveryJobSettles ==
  \A j \in 1 .. MaxJobs :
    (j \in DOMAIN jobs) ~> (j \in DOMAIN jobs /\ jobs[j].at \in Settled)

(* Every account with a name that can be read has a row with that text.    *)
NamesFollowChain ==
  \A a \in Accounts :
    OrUndef(chain[a]) # Undef =>
      \E i \in RowsOf(a) : users[i].fields["username"] = OrUndef(chain[a])

(* Calm weather: no fault; no account whose name could be read is given    *)
(* one that cannot; and names that read alike are the same bytes.          *)
NoneCleared ==
  \A j, k \in DOMAIN jobs :
    LET e == jobs[j].event
        f == jobs[k].event
    IN  /\ j < k /\ Names(e) /\ Names(f) /\ e.account = f.account
        /\ OrUndef(e.username) # Undef
        => OrUndef(f.username) # Undef

NoneAlike ==
  \A j, k \in DOMAIN jobs :
    LET e == jobs[j].event
        f == jobs[k].event
    IN  /\ Names(e) /\ Names(f) /\ OrUndef(e.username) # Undef
        /\ OrUndef(e.username) = OrUndef(f.username)
        => e.username = f.username

CalmWeather == faults = 0 /\ NoneCleared /\ NoneAlike

(* In calm weather every event the worker can decode goes through - a name *)
(* given up by one account and taken by another does not conflict - and in *)
(* the end the table shows the name each account has on the chain,         *)
(* although jobs it cannot decode come back in between.                    *)
NamesArrive ==
  CalmWeather /\ (\A j \in DOMAIN jobs : jobs[j].at \in Settled) =>
    /\ \A j \in DOMAIN jobs : Decodes(jobs[j].event) => jobs[j].at = "done"
    /\ NamesFollowChain

-----------------------------------------------------------------------------
(* Statements of the code's comments and documents that do not hold.       *)

(* "Event listener automatically syncs": once every job is done - not one  *)
(* given up - the table shows the chain's names.                           *)
DoneMeansSynced ==
  (\A j \in DOMAIN jobs : jobs[j].at = "done") => NamesFollowChain

(* "Automatically syncs": with the database up and no crash, no event that *)
(* gives an account its name is given up.                                  *)
NamesAreNotGivenUp ==
  \A j \in DOMAIN jobs : jobs[j].at = "failed" => ~Names(jobs[j].event)
=============================================================================
