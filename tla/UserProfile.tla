----------------------------- MODULE UserProfile -----------------------------
(***************************************************************************)
(* The user-profile pallet: three storage maps (Profiles, UserStatsMap,    *)
(* UsernameToAccount), its three calls, and the events it deposits in the  *)
(* block being executed.  The runtime executes one call at a time.         *)
(*                                                                         *)
(* A byte vector is a model value with a length; only emptiness and the    *)
(* two length limits matter.  An absent map entry and an inner Option's    *)
(* None are both None; the outer None of update_profile's and              *)
(* update_stats' arguments ("leave this alone") is Keep.                   *)
(***************************************************************************)
EXTENDS Naturals, Sequences

CONSTANTS
  Accounts,           \* AccountId
  Bytes,              \* Vec<u8>: every byte vector a call may carry
  ByteLen,            \* ByteLen[b]: its length
  Empty,              \* the empty byte vector
  MaxUsernameLength,  \* the runtime's MaxUsernameLength, also the avatar's limit
  MaxBioLength,       \* the runtime's MaxBioLength
  None,               \* an absent value
  Keep,               \* an argument that was not given
  UsernameInputs,     \* the inputs explored: usernames, ...
  AvatarInputs,       \* ... avatars (None clears the field), ...
  BioInputs,          \* ... bios (None clears the field) ...
  StatInputs,         \* ... and statistics
  MaxBlock,           \* bound: the last block number
  MaxEvents           \* bound: the events of one block

StatFields == {"total_races", "wins", "total_distance", "total_rewards"}

Names == {b \in Bytes : ByteLen[b] <= MaxUsernameLength}
BioTexts == {b \in Bytes : ByteLen[b] <= MaxBioLength}
UserStats == [StatFields -> Nat]
Profile == [account: Accounts, username: Names, avatar: Names \cup {None},
            bio: BioTexts \cup {None}, created_at: Nat]

Event ==
       [kind: {"UsernameSet"}, account: Accounts, username: Names]
  \cup [kind: {"ProfileUpdated"}, account: Accounts, username: Names \cup {Keep},
        avatar: Names \cup {None, Keep}, bio: BioTexts \cup {None, Keep}]
  \cup [kind: {"StatsUpdated"}, account: Accounts, stats: UserStats]

ASSUME ByteAssumption ==
  /\ ByteLen \in [Bytes -> Nat]
  /\ Empty \in Bytes
  /\ \A b \in Bytes : ByteLen[b] = 0 <=> b = Empty
  /\ MaxUsernameLength \in Nat
  /\ MaxBioLength \in Nat

ASSUME SentinelAssumption ==
  /\ None # Keep
  /\ None \notin Accounts \cup Bytes \cup Profile \cup UserStats
  /\ Keep \notin Bytes \cup Nat

ASSUME InputAssumption ==
  /\ UsernameInputs \subseteq Bytes
  /\ AvatarInputs \subseteq Bytes \cup {None, Keep}
  /\ BioInputs \subseteq Bytes \cup {None, Keep}
  /\ StatInputs \subseteq [StatFields -> Nat \cup {Keep}]
  /\ MaxBlock \in Nat
  /\ MaxEvents \in Nat

VARIABLES
  profiles,           \* Profiles
  userStats,          \* UserStatsMap
  usernameToAccount,  \* UsernameToAccount
  blockNumber,        \* frame_system's number of the block being executed
  events              \* the events this pallet deposited in that block

storage == <<profiles, userStats, usernameToAccount>>
vars == <<profiles, userStats, usernameToAccount, blockNumber, events>>

DefaultStats == [f \in StatFields |-> 0]

(* Genesis puts nothing in the pallet; calls run from block 1 on.          *)
Init ==
  /\ profiles = [a \in Accounts |-> None]
  /\ userStats = [a \in Accounts |-> None]
  /\ usernameToAccount = [n \in Names |-> None]
  /\ blockNumber = 1
  /\ events = <<>>

-----------------------------------------------------------------------------
(* BoundedVec::try_from succeeds on an optional field's new value.         *)
Fits(v, limit) == v \in {None, Keep} \/ ByteLen[v] <= limit

(* Mutant: the caller's claim to the name is not checked.                  *)
AvailableUnchecked(who, name) == TRUE

(* The name is free, or already the caller's.                              *)
Available(who, name) == usernameToAccount[name] \in {None, who}

(* Mutant: the old name keeps its entry.                                   *)
RenamedKeepingOld(who, old, new) == [usernameToAccount EXCEPT ![new] = who]

(* The lookup map once `who` is known as `new` instead of `old`.           *)
Renamed(who, old, new) ==
  [usernameToAccount EXCEPT ![old] = None, ![new] = who]

(* Mutant: a failed call is not rolled back.                               *)
LayeredLeaky(ok, written, before) == written

(* A call runs in a storage layer: what it wrote is kept when it returns   *)
(* Ok and discarded when it returns an error.                              *)
Layered(ok, written, before) == IF ok THEN written ELSE before

(* Mutant: the outer Option is ignored.                                    *)
GivenAlways(arg, current) == arg

(* `if let Some(..)`: the argument, if there is one.                       *)
Given(arg, current) == IF arg = Keep THEN current ELSE arg

Deposit(ok, event) == events' = IF ok THEN Append(events, event) ELSE events

(* set_username: both checks come before the first write.                  *)
SetUsername(who, name) ==
  LET old == profiles[who]
  IN  /\ Fits(name, MaxUsernameLength)
      /\ Available(who, name)
      /\ profiles' = [profiles EXCEPT ![who] =
           [account    |-> who,
            username   |-> name,
            avatar     |-> None,
            bio        |-> None,
            created_at |-> IF old = None THEN blockNumber ELSE old.created_at]]
      /\ IF old = None
           THEN /\ userStats' = [userStats EXCEPT ![who] = DefaultStats]
                /\ usernameToAccount' = [usernameToAccount EXCEPT ![name] = who]
           ELSE /\ usernameToAccount' = Renamed(who, old.username, name)
                /\ UNCHANGED userStats
      /\ Deposit(TRUE, [kind |-> "UsernameSet", account |-> who, username |-> name])
      /\ UNCHANGED blockNumber

(* Mutants: every call stamps the profile; no statistics are created;      *)
(* the statistics are reset.                                               *)
ProfileRestamped(who) ==
  IF profiles[who] # None
  THEN [profiles[who] EXCEPT !.created_at = blockNumber]
  ELSE [account |-> who, username |-> Empty, avatar |-> None, bio |-> None,
        created_at |-> blockNumber]
StatsUntouched(who) == userStats
StatsReset(who) == [userStats EXCEPT ![who] = DefaultStats]

(* The profile update_profile starts from.                                 *)
ProfileOrNew(who) ==
  IF profiles[who] # None
  THEN profiles[who]
  ELSE [account |-> who, username |-> Empty, avatar |-> None, bio |-> None,
        created_at |-> blockNumber]

(* The statistics, with the caller's present.                              *)
WithStats(who) ==
  IF userStats[who] = None THEN [userStats EXCEPT ![who] = DefaultStats] ELSE userStats

(* update_profile writes as it goes: the statistics first, then the lookup *)
(* map once the name has passed its checks, and the profile last, after    *)
(* the avatar and the bio have passed theirs.                              *)
UpdateProfile(who, name, avatar, bio) ==
  LET old    == ProfileOrNew(who)
      nameOk == name = Keep \/ (Fits(name, MaxUsernameLength) /\ Available(who, name))
      ok     == nameOk /\ Fits(avatar, MaxUsernameLength) /\ Fits(bio, MaxBioLength)
  IN  /\ userStats' = Layered(ok, WithStats(who), userStats)
      /\ usernameToAccount' = Layered(ok,
           IF name # Keep /\ nameOk
           THEN Renamed(who, old.username, name) ELSE usernameToAccount,
           usernameToAccount)
      /\ profiles' = Layered(ok,
           IF ok
           THEN [profiles EXCEPT ![who] =
                  [old EXCEPT !.username = Given(name, old.username),
                              !.avatar = Given(avatar, old.avatar),
                              !.bio = Given(bio, old.bio)]]
           ELSE profiles,
           profiles)
      /\ Deposit(ok, [kind |-> "ProfileUpdated", account |-> who, username |-> name,
                      avatar |-> avatar, bio |-> bio])
      /\ UNCHANGED blockNumber

(* update_stats: overwrites the given fields, profile or no profile.       *)
UpdateStats(who, given) ==
  LET current == IF userStats[who] = None THEN DefaultStats ELSE userStats[who]
      stats   == [f \in StatFields |-> Given(given[f], current[f])]
  IN  /\ userStats' = [userStats EXCEPT ![who] = stats]
      /\ Deposit(TRUE, [kind |-> "StatsUpdated", account |-> who, stats |-> stats])
      /\ UNCHANGED <<profiles, usernameToAccount, blockNumber>>

(* A signed extrinsic is applied, while the block has room for its event.  *)
Call(who) ==
  /\ Len(events) < MaxEvents
  /\ \/ \E name \in UsernameInputs : SetUsername(who, name)
     \/ \E name \in UsernameInputs \cup {Keep}, avatar \in AvatarInputs,
           bio \in BioInputs : UpdateProfile(who, name, avatar, bio)
     \/ \E given \in StatInputs : UpdateStats(who, given)

(* The next block starts with no events.                                   *)
NextBlock ==
  /\ blockNumber < MaxBlock
  /\ blockNumber' = blockNumber + 1
  /\ events' = <<>>
  /\ UNCHANGED storage

Next == NextBlock \/ \E who \in Accounts : Call(who)

Spec == Init /\ [][Next]_vars

-----------------------------------------------------------------------------
(* The maps hold what their Rust types say, and no field is over its limit.*)
TypeOK ==
  /\ profiles \in [Accounts -> Profile \cup {None}]
  /\ userStats \in [Accounts -> UserStats \cup {None}]
  /\ usernameToAccount \in [Names -> Accounts \cup {None}]
  /\ blockNumber \in Nat
  /\ events \in Seq(Event)

(* A lookup by username leads to a profile that bears that username.       *)
LookupIsSound ==
  \A n \in Names :
    LET holder == usernameToAccount[n]
    IN  holder # None => profiles[holder] # None /\ profiles[holder].username = n

(* Every profile with a name is found under it, so no two accounts bear    *)
(* the same non-empty name.  (The empty name of a profile that             *)
(* update_profile created is not entered in the lookup map.)               *)
NamedProfilesAreIndexed ==
  \A a \in Accounts :
    profiles[a] # None /\ profiles[a].username # Empty =>
      usernameToAccount[profiles[a].username] = a

(* An account with a profile has statistics, whichever call created it.    *)
ProfileHasStats == \A a \in Accounts : profiles[a] # None => userStats[a] # None

-----------------------------------------------------------------------------
Deposited == Len(events') > Len(events)
LastEvent == events'[Len(events')]

(* A profile is never deleted and keeps the block it was created in; a new *)
(* one carries the number of the block that created it.                    *)
ProfilesPersist ==
  [][\A a \in Accounts :
       IF profiles[a] = None
       THEN profiles'[a] # None => profiles'[a].created_at = blockNumber
       ELSE profiles'[a] # None /\ profiles'[a].created_at = profiles[a].created_at]_vars

(* Once an account has a profile, its statistics change only with a        *)
(* StatsUpdated event of that account: renaming does not reset them.       *)
StatsKeptWithProfile ==
  [][\A a \in Accounts :
       profiles[a] # None /\ userStats'[a] # userStats[a] =>
         /\ Deposited
         /\ LastEvent.kind = "StatsUpdated"
         /\ LastEvent.account = a]_vars

FieldNames == {"username", "avatar", "bio"}

Fields(profile) ==
  IF profile = None
  THEN [username |-> Empty, avatar |-> None, bio |-> None]
  ELSE [f \in FieldNames |-> profile[f]]

(* A follower writes the fields an event carries and keeps the others, as  *)
(* the repository's own does (event-processor.ts:127-132, 191-197).        *)
Follow(fields, e) ==
  CASE e.kind = "UsernameSet" -> [fields EXCEPT !.username = e.username]
    [] e.kind = "ProfileUpdated" -> [f \in FieldNames |-> Given(e[f], fields[f])]
    [] OTHER -> fields

(* What no event tells: a UsernameSet may stand for a rename that emptied  *)
(* the avatar and the bio, and a new profile for statistics put to zero.   *)
ResetUntold(fields, told) ==
  /\ LastEvent.kind = "UsernameSet"
  /\ fields = [told EXCEPT !.avatar = None, !.bio = None]
StatsResetUntold(a) ==
  profiles[a] = None /\ profiles'[a] # None /\ userStats'[a] = DefaultStats

(* A follower of the events has every username right, and every avatar,    *)
(* bio and statistic but for those two resets: storage changes as the      *)
(* event carries, only for the account it names, and a call that deposits  *)
(* nothing - one that failed half way included - has changed nothing.      *)
FollowersMissOnlyResets ==
  [][IF Deposited
     THEN \A a \in Accounts :
            IF a = LastEvent.account
            THEN LET told == Follow(Fields(profiles[a]), LastEvent)
                 IN  /\ \/ Fields(profiles'[a]) = told
                        \/ ResetUntold(Fields(profiles'[a]), told)
                     /\ IF LastEvent.kind = "StatsUpdated"
                        THEN userStats'[a] = LastEvent.stats
                        ELSE UNCHANGED userStats[a] \/ StatsResetUntold(a)
            ELSE UNCHANGED <<profiles[a], userStats[a]>>
     ELSE UNCHANGED storage]_vars

(* The lookup map, without the empty name, is a name registry.             *)
NR == INSTANCE NameRegistry WITH
        Names <- Names \ {Empty},
        owner <- [n \in Names \ {Empty} |-> usernameToAccount[n]]

ImplementsNameRegistry == NR!Spec

-----------------------------------------------------------------------------
(* A statement of the pallet's benchmarks that its code does not keep.     *)

(* "No need to create profile, stats can be updated independently": what   *)
(* update_stats stored stays until the next update_stats.                  *)
StatsAreIndependent ==
  [][\A a \in Accounts :
       userStats[a] # None /\ userStats'[a] # userStats[a] =>
         Deposited /\ LastEvent.kind = "StatsUpdated"]_vars
=============================================================================
