# bicycle-bc: specifications, checks and proofs

This directory holds TLA+ models of the program in `src/`, the TLC
configurations that check them on small instances, and proofs checked by TLAPS.
Run everything from here: `tlc -config X.cfg M` for a run, `tlapm M.tla` for the
proofs of a module. `PROJECT.json` lists the runs, the mutants that show each
property can fail, the source lines each definition stands for, the findings,
the hazards and the theorems.

## 1. The system

bicycle-bc is a Substrate chain with a profile registry, a NestJS API that
mirrors the registry into PostgreSQL, and a Next.js site that talks to both.

    wallet + web page --- extrinsics ---> node/runtime: pallets
          |                                   |  blocks, events
          |                                   v
          |                         BlockchainService (new-heads subscription)
          |                                   |  jobs (Bull on Redis, 3 attempts)
          |                                   v
          +--- HTTP ---> UsersController   EventProcessor
                                  \           /
                                   UsersService ---> PostgreSQL `users`

| component | state it keeps | operations | interacts with |
|---|---|---|---|
| user-profile pallet | `Profiles`, `UserStatsMap`, `UsernameToAccount`, events | `set_username`, `update_profile`, `update_stats` | called by the runtime, one extrinsic at a time, each in a storage layer; events read by the API |
| simple-counter pallet | `Counter: u64` | `increment`, `reset` | same |
| template pallet | `Something: Option<u32>` | `do_something`, `cause_error` | same |
| runtime | accounts (nonce, balance), time, slot, weight of the block, the pallets' storage | `validate_transaction`, `initialize_block`, `apply_extrinsic`, `finalize_block` | hosts the pallets; called by the pool and by block authors and importers |
| genesis | none: two presets, chosen by `--chain` | `get_preset`, `load_spec` | first state of the runtime; authorities of the node |
| node | database (blocks, best, finalized, voter's state), the tasks of the running service | `new_full` step by step, authoring, import, voting; `import-blocks`, `revert`, `purge-chain` | calls the runtime; its pool, Aura and GRANDPA are library code set up by `service.rs` |
| BlockchainService | connection, subscription, one running handler per head | connect, handle a head, queue the events, disconnect | node RPC, Bull |
| Bull queue (external) | waiting, active, delayed, failed jobs | add, take, complete, fail, retry with back-off | Redis; persists across API restarts |
| EventProcessor | none between jobs | decode an event, create or update the user | queue, UsersService |
| UsersService | rows of `users`, requests in flight | create, find, update, updateByAccountId, remove | PostgreSQL through TypeORM; called by HTTP and by EventProcessor, concurrently |
| usePolkadot, profile page | api, accounts, selected account, profile, balance, form, status | connect, select, load, sign and send, reload | wallet extension, node, event callbacks, timers |
| users page | list, form, loading | fetch, create | HTTP API |

What is hard in it, per component, and what correctness means there:

* **user-profile pallet** - two calls maintain one lookup map from different
  starting points (a profile that exists, a profile being made), and
  `update_profile` writes before its last checks. Correct: the lookup map and
  the profiles agree in both directions, failed calls change nothing, a follower of
  the events has every username right and knows which other fields it may miss,
  `created_at` never moves.
* **runtime** - extrinsics are checked when they are signed, pooled, and applied,
  each time against another state; the best block may be retracted and what it held
  comes back, or be lost with the node; a call that fails still pays; a transfer may
  leave its payer with less than the deposit, and then the account goes, and its nonce
  with it. Correct: what an account has on the chain since it was last reaped are its
  nonces, each once and in order; an extrinsic never takes effect on a branch its
  signer did not know; every balance and event follows the chain that is left; the
  inherent time never keeps a block from being made.
* **node** - a start of many steps any of which may fail, tasks that take the
  process down with them, authoring that goes on without finality, and commands
  that rewrite two stores (the auxiliary one first). Correct: the database fits
  together after each of these, no slot gets two blocks, finality does not fork,
  and a service does not limp on without an essential task.
* **UsersService** - every operation is a chain of awaits over rows that others
  change meanwhile: check-then-save, load-modify-save, save after delete.
  Correct: an id means one account for ever, a change touches only the columns
  it gives, usernames are unique when requests do not overlap.
* **BlockchainService** - a handler per head, each suspended at three kinds of
  await, so the handlers of two blocks interleave; an error drops the rest of a
  block; what happens while the API is down is never read. Correct: the
  events of a block are queued in order, each at most once per announcement.
* **queue and EventProcessor** - jobs retried after a back-off are overtaken by
  later ones; decoding loses the difference between "cleared" and "unchanged", and
  two different names may decode to the same text.
  Correct: a job stops after three failing attempts (a process that dies with
  it may cost one more), done means stored, and in calm weather the mirror
  shows the names the chain holds.
* **web pages** - answers arrive after the account was switched; timers and
  effects see the state of the render that created them. Correct: what is shown
  settles on the selected account and the last transaction, and no status or
  form stays stuck.
* **simple-counter, template** - arithmetic at the integer's limit, and a value that
  may change without an event.

## 2. Plan

The order is that of importance: the registry everything else mirrors first,
then the mirror, the site, and the node underneath.

1. (done) `UserProfile`, the abstract `NameRegistry` it implements,
   `MCUserProfile`, `UserProfileProofs`: types, the inductive invariant, the
   action properties and the refinement.
2. (done) `UsersService`, `MCUsersService`, `UsersServiceProofs`: the users table
   under concurrent requests; an id is bound to one account for ever; saves undo
   nothing.
3. (done) `BlockListener` (heads, handlers, queueing) and `EventWorker` (the
   queue's attempts, decoding, the calls of UsersService), with
   `BlockListenerProofs` and `EventWorkerProofs`.
4. (done) `SimpleCounter` and `Template`, proved at any integer width.
5. (done) `Genesis` and `Runtime`: the small pallets, the transfers and the remark
   put together as `lib.rs` and `configs/` do; `RuntimeProofs`, which also holds
   the proofs of item 4, and `LedgerProofs`.
6. (done) `Node`: service, authoring, finality and commands; `NodeProofs`.
7. (done) `WalletPage` (usePolkadot and the profile page) and `UsersPage`,
   composed by `MCWebPages`; `WebPagesProofs`.
8. (open) `Mirror`: UserProfile, BlockListener, EventWorker and UsersService
   composed, so that the chain's events and not a list of samples feed the worker.
9. (open) `EventWorker` beside HTTP requests (more `Clients` of UsersService), to
   say what the worker's partial DTOs do to columns it loaded earlier.
10. (done) The proofs that were left: StateFollowsChain (sums over the chain, in
   `LedgerProofs`), FinalityAgrees (quorums), NamesArrive (the order of the queue and
   what is in the table), IncludedHasTimer and the types of the pages.

## 3. The modules and the code

**UserProfile** (`pallets/user-profile/src/lib.rs`). Its variables are the three
storage maps, the block number and the events of the block being executed.
`SetUsername`, `UpdateProfile` and `UpdateStats` are the three calls; a call that
fails is no step, except in `UpdateProfile`, which writes before its last checks:
there the writes are spelled out and `Layered` keeps or discards them, as the
storage layer FRAME puts around every call does. A `Vec<u8>` is a model value with
a length; `Keep` is the outer `None` of an `Option<Option<..>>` argument. The
avatar is bounded by the username limit because the code bounds it so. `Follow` is
what a reader of the events does with them, as the repository's own does
(`event-processor.ts:127-132`, `191-197`): it writes the fields an event carries and
keeps the others. `FollowersMissOnlyResets` says what such a reader gets wrong: a
rename empties avatar and bio, and the first `set_username` resets statistics, without
an event that says so - nothing else.
**NameRegistry** is what the pallet promises about names, without the pallet;
`UserProfile!NR` maps the lookup map, less the empty name, onto it.

**SimpleCounter**, **Template** (the two value-holding pallets) share
**PalletTypes**, which declares the integers' widths. `None` is also what
`checked_add` returns at the limit. Both run inside `Runtime`.

**Genesis** (`runtime/src/genesis_config_presets.rs`, `node/src/command.rs`,
`node/src/chain_spec.rs`). The presets as records of authorities, endowed accounts
and root; `LoadSpec` is what `--chain` selects.

**Runtime** (`runtime/src/lib.rs`, `configs/mod.rs`, `apis.rs`, the builders of
`node/src/benchmarking.rs`). It extends SimpleCounter and instantiates Template on
its own variables. `ledger` is what System, Balances, Timestamp and Aura store;
`chain` the blocks with a receipt for each extrinsic; `before` the state a
retraction of the last block goes back to; `pool` and `txs` the pool's extrinsics
and all that were ever signed. `Sign` is `create_benchmark_extrinsic`, the one place
in the repository where an extrinsic is built with its nonce and era, for the best
block at that time. `Transferred` is the outcome of the three transfer calls as
Balances, external to the repository, is used here: `Preservation` decides what may
be sent, a payee must end with the deposit or more, what a payer keeps below it is
burnt as dust, and System takes the account away with its nonce. `TxExtension` is
the tuple of extensions: `CheckEra` with the hash of the era's birth block, the
nonce, the weight, the fee. The pool admits a nonce that lies ahead, a block only
the next one. `ApplyExtrinsic` charges first (`Charged`), then dispatches; a call
that fails leaves the charge. `Drop` lets the pool drop any extrinsic, valid or not,
as the library's does. `Retract` and `Restart` are the client's re-organisation and
the loss of the process; the block under way is lost with it. Weights are counted in
database accesses, as the `weights.rs` files declare them, and fees are
`IdentityFee` of that.

**Node** (`node/src/service.rs`, `command.rs`). `stage` is how far `new_full` has
come, `Started` which of the essential tasks run by then; `Essential` says which of
them take the task manager down. A block is the sequence of slots of its chain.
`AuthorBlock` follows the settings of `start_aura` (no back-off strategy, so that a
block is made however far finality is behind; `force_authoring` only from the
command line); the slot worker starts with the slot after the one it finds.
`Precommit`, `NextRound` and `Finalize` are GRANDPA as far as the node's voter state
matters, with `Threshold` of the preset's authorities. `AuxRevert` and `RevertChain`
are the two halves of `revert`, with a possible stop between them (`VoterReset` has
the voter start again from the finalized block: this, like `Precommit`, is GRANDPA's
own and cannot be read from `src/`); `PurgeChain` and `ImportBlocks` the other
commands that write.

**UsersService** (`apps/api/src/users/`). `users` is the table, `req[c]` a
request suspended at one of its awaits. Every database access is one action:
`FindAccount`, `FindUsername`, `FindByAccountId`, `FindOne`, `FindDoomed` are the
service's own look-ups; `Load`, `WriteUpdate`, `WriteInsert`, `Delete` are what
TypeORM's `save` and `remove` do (`save` selects the row again, compares, and
updates the columns that differ, or inserts a row that has gone). A DTO is a
function from the columns it mentions; a column it mentions may be `Undef`. The
DTOs of HTTP requests mention every column, since the validation pipe builds class
instances; the object literals of the event worker do not. `DatabaseError` ends a
request at any access.

**BlockListener** (`apps/api/src/blockchain/blockchain.service.ts`). `heads` is
one record per announced head with the await its handler is at; `queue` is what
Bull has taken. The environment: `NewBest` (the node imports a block that makes its
best chain longer, one at a time), `LoseSocket`, `Stop` (`onModuleDestroy`), `Exit`
(the process ends; Redis does not), `Subscribe` (start, or the provider's
reconnection: both announce the present head). `onModuleDestroy` runs only through
`app.close`: `main.ts` never enables shutdown hooks, so a signal is a crash.

**EventWorker** (`apps/api/src/blockchain/event-processor.ts` and Bull). It
INSTANCEs UsersService with the worker as the only client. `wait` is Bull's list,
`active` the job in work. `Tried` is a job whose handler threw (three attempts, then
failed); `Promote` puts a job whose back-off is over at the list's tail; `Crash`
leaves the job stalled and `RecoverStalled` puts it at the head, once. `Text` is the
decoding of bytes: any function from bytes to column values that takes the empty
name to something falsy, so that names which are NULs only or cut short, and two names that
read alike, are among its cases. `OrUndef` is the code's `decoded || undefined`: a
field cleared, not given, or decoded to nothing becomes undefined. Avatars are
treated by the code as bios are and left out.

**WalletPage** (`apps/web/app/hooks/usePolkadot.ts`, `app/userprofile/page.tsx`).
Queries in flight are a list, each with the account of the render that asked;
transactions carry the account of the click. `Effects` is the pair of effects that
ask for profile and balance when the account or the connection changes; `InBlock`
and `Finalized` are the callback of `signAndSend`, `TimerFires` the two-second
timer, whose `loadProfile` is that of the render of the click.

**UsersPage** (`apps/web/app/users/page.tsx`). The first fetch and that of a
submission are the two requests of `gets`; the server and other clients are
external.

**MCWebPages** (`apps/web/app/page.tsx`). The home page links to either page; a tab
mounts one of them, and the state of the other one does not move.

## 4. The runs

| run | what it asks | size |
|---|---|---|
| `user_profile` | the storage maps agree with each other; followers of the events miss two resets and nothing else; the lookup map is a name registry | 273,000 states |
| `user_profile_stats_kept` | finding: the first `set_username` discards statistics | violation |
| `users_service` | an id means one account for ever, saves undo nothing | 1,485,000 |
| `users_service_race` | finding: two overlapping requests share a username | violation |
| `listener_faults` | what reaches the queue is a prefix of each block, handlers end | 31,000 |
| `listener_reorg` | finding: blocks of the winning branch are never read | violation |
| `event_worker` | jobs settle, done means stored, in calm weather all names arrive | 639,000 |
| `event_worker_order` | finding: a retried event puts an old name back | violation |
| `event_worker_clearing` | finding: a name cleared by one account never reaches the next | violation |
| `web_pages` | profile page: status, balance and profile settle; users page: the form comes back, created users are listed | 630,000 |
| `runtime` | nothing is applied twice while its account lives, or on the wrong branch; balances and events follow the chain; blocks can be made | 2,998,000 |
| `node` | the database fits, slots have one block, finality does not fork, a failed task takes the node down | 231,000 |

Bounds, and why they are enough:

* `UserProfile`: two accounts, the empty name, two names at the limit and one over
  it, a bio over its limit; five blocks of one call. A name conflict needs two
  accounts and two calls, a hand-over of a name three, and the empty name one call
  more; one call a block makes block numbers and calls count together. `MaxBlock`
  and `MaxEvents` bound the history only.
* `Runtime`: Bob and Charlie, of whom Charlie is not endowed in the dev preset, so
  that a transfer is needed before Charlie can pay; all three kinds of transfer, of
  which one sends all there is: three extrinsics reap Bob, endow him again and use his
  nonce 0 a second time. Three extrinsics and three blocks on any branch (sign,
  retract, sign the same nonce again; one to fill a block); clocks at 7, 8 and 12 with
  slots of 4, so that a block at 7 forces the next timestamp to 9, ahead of a clock at
  8 that opens the next slot; integers of one bit, so that the counter and the
  template's value reach their limit in two calls; `MaxBlockWeight` 14, of which three
  quarters hold two of the heavier calls at most; `BlockHashCount` 3 and an era of 3,
  so that an era ends and a hash is forgotten within the three blocks.
* `Node`: both presets - one authority and a second node without a key of it, or two
  authorities; two slots, two rounds, one stop or failed task, `revert` by one block.
  Forks come from two authors that are not connected to each other's blocks yet.
* `UsersService`: two requests at a time, two accounts, three ids: a deletion and a
  re-creation under a new id fit, with a stale request in flight across both.
  Clients and accounts are interchangeable, hence the symmetry; no temporal
  property but an action property is checked under it.
* `BlockListener`: a fork of two branches whose longer one wins late, up to two
  events a block, four announcements, faults at every point as long as the bound
  leaves an announcement for the reconnection.
* `EventWorker`: three of six events - a name, its change, a name that decodes to
  nothing, the same name by another account, bytes that read like it, statistics -
  and two faults (`MaxFaults`): a retry overtaken by another job takes one fault, a
  job both stalled and failing two. The code's `MaxAttempts` is 3, and the two
  violation runs have it so; `event_worker` has 2, which still has a first, a last
  and a retried attempt.
* `WebPages`, profile page: two accounts, two transactions, new queries only while
  fewer than `MaxPending` are in flight. `Ordered` is TRUE: one WebSocket answers in
  order.
* `WebPages`, users page: two accounts, one POST and two GETs at a time, which is
  all the page can have in flight.

Fairness. `BlockListener`: the node and Redis answer, the service subscribes when
it can (the provider retries for ever); faults and new blocks are not fair.
`EventWorker`: Bull hands out what waits, promotes what is due and finds what has
stalled; the number of faults is bounded, so nothing else is needed for
`EveryJobSettles` but the attempts' count. `WalletPage`: the interval ticks, timers
fire, callbacks come, the node answers the oldest query, and a balance query that
is answered again and again does not fail every time; users and new blocks are not
fair. `UsersPage`: requests end, well or not. `MCWebPages` assumes both; what is fair
of a page is never enabled while the other is mounted. `Node`: `new_full` gets on to
its next step, or stops, and the runner awaits the task manager; starting a node, the
slots, blocks, votes and commands are not fair. `Runtime` states no fairness, since
it promises no progress.

Deadlock is left unchecked where the bound or the environment may end a history
(every run but those of UsersService, whose requests never stop).

Every property has a mutant: a definition of the model changed the way a plausible
bug would change the code, which makes TLC find the property violated.

## 5. What the code does otherwise than it says

* `user_profile_stats_kept`: statistics stored by `update_stats` before the
  account has a profile are reset by `set_username`, not by `update_profile`.
* `users_service_race`: usernames are checked and stored in separate accesses with
  no unique column, so two requests can store the same one.
* `listener_reorg`: the service reads the announced heads only; earlier blocks of
  a branch that takes over are never read. With no reorganisation but a lost
  socket or a restart (`Faults = {"socket"}`) the same property fails for the
  blocks imported meanwhile.
* `event_worker_order`: a retried job writes what its event said, however old.
* `event_worker_clearing`: an account clears its name and another takes it. The
  clearing writes nothing to the table (`username || undefined`), so the second
  account's event meets the old row, conflicts at each attempt and is given up. No
  fault is needed.

Met while modelling, without a run of their own: `set_username` renames an existing
profile by writing a new one with avatar and bio empty (`lib.rs:151-152`) and deposits
`UsernameSet`, which the pallet's comment (`lib.rs:84`) calls "set for the first time
(profile created)" and which carries the name only; the worker changes only the name,
so the table keeps an avatar and a bio the chain has no more. `handleStatsUpdated`
(`event-processor.ts:207`) calls `toNumber` on values that `toJSON` has made plain and
throws at every attempt, so that the columns under "Stats from blockchain"
(`user.entity.ts:28`) stay zero: `Decodes` has it fail, and `EveryJobSettles` and
`NamesArrive` hold beside it. Names and bios cleared on the chain never become empty in
the table; the worker's DTOs lack columns, so a save
after a concurrent HTTP update writes back older values of those; the profile page
can show the profile of an account the user has left. The weights of user-profile
count fewer accesses than the calls make: `set_username` declares one read and does
two, `update_profile` declares two reads and three writes and does three and four.
`configs/mod.rs:174` has accounts created by their first transaction, but an account
cannot pay for one before it has been endowed (`CanPay`); the comment on the slot
duration in `lib.rs:80` takes it for the least time between two blocks, which
`MinimumPeriod` makes half of it.

## 6. What is proved

All theorems hold for any values of the constants that satisfy the named
assumptions of the modules; TLC evaluates these on every run.

* `UserProfileProofs`: `Spec => []IInv` with IInv == TypeOK /\ LookupIsSound /\
  NamedProfilesAreIndexed /\ ProfileHasStats. Neither lookup fact is inductive
  alone: a rename may delete an entry because the entry is the caller's, which
  soundness and completeness give together. `RenamingKeepsIndex` is the common core
  of the two calls that rename. `UpdateIsAllOrNothing` reduces `update_profile` to
  its accepted form first, so that the partial writes occur in one place of the
  proof only. It rests on the storage layer (`Layered`), which is FRAME's. From the
  invariant follow the action properties: `StepCases` says that a step is an
  accepted call or leaves storage alone, and each theorem then has a step per call
  (`ProfilesStay`, `StatsKept`, `FollowersAreRight`). `RefinesNameRegistry` maps a
  rename to Take or Release: what the pallet deletes is all the account holds
  (soundness) and nobody else's (completeness), so the mapping needs IInv.
* `UsersServiceProofs`: `Spec => []IInv`, where IInv adds to the types and to
  IdMeansOneAccount that a request's record has an id and an account where its
  place needs them (`EveryoneLocated`) and that no row and no request knows an id
  that has not been given out (`FreshIdsAreUnused`). The latter is what makes an
  INSERT under a fresh id harmless to every entity some other request still holds;
  an INSERT under an old id is harmless because that request's account agrees.
  `SavesUndoNothing` holds under one more assumption, `DtosMentionAll`: every DTO
  has all columns as properties, as those of HTTP requests do. Then an entity that
  is being saved is its request's DTO whatever was loaded before
  (`EveryoneSavesItsDto`). The object literals of the event worker do not satisfy
  it, which is the reason for item 9 of the plan.
* `BlockListenerProofs`: `TypeCorrect` and `JobsInOrder`. JobsAreAPrefix is inductive
  with two facts about handlers: one that waits for its block or its events stands
  before its first event, one that adds has an event left (`HInv`); and with no job
  belonging to an announcement that was not made (`QInv`).
* `EventWorkerProofs`: `TypeCorrect`, `NamesStayUnique`, `DoneIsStored` and
  `NamesArriveInCalm`, for any jobs, attempts, stalls, crashes and decoding. IInv
  has three parts. `QueueOK`: a job is in the list once and only while it waits, and
  one that is not settled has an attempt left. `TableOK`: the table only grows, one
  row per account, names unique. `RequestOK`: a request under way is that of the job
  being saved and holds the row as it is now, since nobody else writes; past its
  check its name is free; and when it has ended well the job is stored. That a fresh
  id is always there (`FreshIdFits`) is counted: rows stand for different accounts.
  For the names, OInv says three things more. `ChainIsLast`: a name on the chain is
  that of the account's last event with one. `InOrder`: as long as nothing decodable
  was tried twice or has stalled (`Calm`), a job leaves the list only after all
  earlier ones are done. `NamesShown`: the row of a job that is done bears the job's
  name, or a later job of the account is past the list. `NamesShown` needs
  `InOrder`: a save may only replace the name of an earlier job. Jobs that never
  decode may come back at any place of the list meanwhile. What calm weather - no
  fault, no readable name cleared (`NoneCleared`), no two names that read alike
  (`NoneAlike`) - rules out is that a job the worker can decode is tried twice at
  all (WInv), names handed from one account to another included. `Freed`: between
  the events by which two accounts take one name lies an event by which the first
  gives it up. `RowTells`: the table shows no name but that of a job that has begun.
  A conflict would need a row of another account with the name asked for: the job
  behind that row is before the asking one (`InOrder`), so an event in between freed
  the name, and that one is done and shown, or superseded (`NoConflict`).
* `RuntimeProofs`: one invariant for the chain and for the state kept for a
  retraction. `BlocksCanBeMade`: the last block's time lies in the last block's slot,
  so half a slot more does not pass the end of a later one, for every even slot
  duration. `NoReplayAcrossBranches`: `BirthInPeriod` bounds the birth of an era, and
  each receipt was checked against the chain it is on. `NothingWorksTwice`: the nonces
  of an account since it was last reaped, on either chain, are the numbers below its
  nonce in that chain's ledger, once each and in order (`NonceInv`); a receipt adds the
  next one or, when it reaps, begins anew, and a retraction takes chain and ledger back
  together. An account that is reaped and made anew can see an old extrinsic of its own
  a second time: within its era nothing in this runtime prevents that, and the run
  `runtime` goes through it. `TemplateStepsAreTold` carries
  the template's action property through dispatch, fees and failing calls.
  The types (`RuntimeTypes`) need the counter's events beside them - the value is
  the number of events since the last reset - for the chain's state and for the one a
  retraction restores (RInv), which gives `EventsSurviveRetraction` at no more cost.
  The two small pallets are proved on their own first, at any integer width:
  `CounterFollowsEvents`, and `SilentStepsOnly`, that only steps up by one are silent.
* `LedgerProofs`: `LedgerFollowsChain`. Each balance is the endowment and
  what the receipts of the chain add and take - fees, amounts, dust - and is nothing or
  at least the deposit; the balances add up to the issuance; the counter's events are
  the chain's successful calls of it, in order. Charge, transfer, reaping, failure and
  retraction keep all this (LInv, for the chain and for the state behind it); nonces are
  the matter of `NothingWorksTwice`. The
  first half of the module is about the two operators of the community modules the
  property is written with: what MapThenSumSet adds up to over a finite set (one
  element more, one value changed, equal values), and what FlattenSeq joins (one
  block more, one receipt more). Both are folds, so these lemmas are inductions over
  numbers and over finite subsets. The provers cannot use an induction theorem that
  takes an operator; they can use that a non-empty set of numbers has a least element,
  so each induction is stated about the set of counterexamples (`Upwards`, `Subsets`).
* `NodeProofs`: `DatabaseHolds` (the invariant says of a revert under way that the
  voter has gone back to a block the chain is about to keep) and
  `SlotsHaveOneBlock` (a block of the present slot means that its author's slot worker
  has seen the slot, or begins with the next); `NodeTypes`. `FinalityHolds`: a
  supermajority of either preset is every authority (`Everyone`), so whatever a round
  may have finalized, each later round carries on - its voters have all seen all votes
  of the round before, and start from a block those votes support (`RoundsCarry`). What
  two nodes finalized was supported in two rounds, and the later one carries the
  earlier. It says nothing once a voter that lost its state has voted twice in a
  round (`NoEquivocation`), as FinalityAgrees does not.
* `WebPagesProofs`: `PagesTypes` and `TimersBehindIncluded`. An account's version, the
  number of its writes, never exceeds the number of its transactions that a block
  holds, which is what bounds it by `MaxTxs`; "included" is shown together with a timer,
  and a timer that fires takes the status down whoever put it up, so the last of several
  never leaves one behind.

Every invariant and every action property that a run checks is thereby proved (that
saves undo nothing under `DtosMentionAll`, as in its run), and `UserProfile`'s
refinement. Only model-checked are the liveness properties: HandlersEnd,
EveryJobSettles, BalanceSettles, OwnProfileIsShown, CreatedUsersAreListed,
SubmissionsEnd and FailedTaskTakesNodeDown. They rest on fairness, hence on ENABLED,
which the provers do not reach.

What the theorems assume of the constants. `TableAssumption` and `WorkerAssumption`:
the default of a username is falsy, undefined is not a value a column can hold, the
empty name decodes to something falsy, a field that was not given is not bytes.
`RuntimeAssumption`: calls have the fields their name needs, the existential deposit
is positive and at most an endowment, the slot duration is even. `PageAssumption`:
the page's None is neither an account nor one of the statuses. `NodeAssumption` and
the rest bound the histories or say which kind of value a constant is.

## 7. What is not modelled

Of the runtime: the user-profile calls are not dispatched in `Runtime`
(`UserProfile` has them on their own), nor are Sudo and the other calls of Balances
(`burn`, `upgrade_accounts`, the forced ones of root) and System. Extrinsics are
mortal, as the repository signs them; the runtime would take immortal ones too, of
which SignedForThisChain does not speak. What the pool drops or resubmits is the
library's doing: it is an assumption of `Runtime`, and no property is about it. Of
the node: Aura and GRANDPA beyond what the node's settings of them change, the
network, the commands that only read or measure, offchain workers, telemetry and the
RPC server but for two methods of the pool. The benchmark bodies, which measure and
keep no state. Health, status and home endpoints: they only read. The contents of
the pages' input fields. HTTP requests beside the event worker. A Bull job stalled
because its lock was lost while the process lived, and SQL statements that take
effect after the process died. The pallets planned in `docs/ARCHITECTURE.md` have no
code.
