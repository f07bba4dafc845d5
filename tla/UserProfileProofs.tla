-------------------------- MODULE UserProfileProofs --------------------------
(***************************************************************************)
(* The pallet's invariants for any accounts, byte vectors and limits.      *)
(***************************************************************************)
EXTENDS UserProfile, TLAPS

(* The inductive invariant: a lookup entry is right only while the profile *)
(* it leads to is, and a taken name is refused only while it has its entry.*)
IInv == TypeOK /\ LookupIsSound /\ NamedProfilesAreIndexed /\ ProfileHasStats

(* A sentinel is not the value it stands beside.                           *)
LEMMA ProfileIsSomething == \A p \in Profile : p # None
  BY SentinelAssumption

LEMMA StatsAreSomething == \A s \in UserStats : s # None
  BY SentinelAssumption

LEMMA EmptyIsAName == Empty \in Names
  BY ByteAssumption DEF Names

-----------------------------------------------------------------------------
(* All the conditions of update_profile together.                          *)
UpdateAccepted(who, name, avatar, bio) ==
  /\ name = Keep \/ (Fits(name, MaxUsernameLength) /\ Available(who, name))
  /\ Fits(avatar, MaxUsernameLength)
  /\ Fits(bio, MaxBioLength)

(* What update_profile stores when nothing is refused.                     *)
UpdatedProfile(who, name, avatar, bio) ==
  [ProfileOrNew(who) EXCEPT
     !.username = Given(name, ProfileOrNew(who).username),
     !.avatar = Given(avatar, ProfileOrNew(who).avatar),
     !.bio = Given(bio, ProfileOrNew(who).bio)]

(* update_profile does all of its writes or none of them.                  *)
THEOREM UpdateIsAllOrNothing ==
  ASSUME NEW who, NEW name, NEW avatar, NEW bio,
         UpdateProfile(who, name, avatar, bio)
  PROVE  IF UpdateAccepted(who, name, avatar, bio)
         THEN /\ userStats' = WithStats(who)
              /\ usernameToAccount' =
                   IF name = Keep THEN usernameToAccount
                   ELSE Renamed(who, ProfileOrNew(who).username, name)
              /\ profiles' = [profiles EXCEPT ![who] =
                                UpdatedProfile(who, name, avatar, bio)]
              /\ events' = Append(events,
                   [kind |-> "ProfileUpdated", account |-> who, username |-> name,
                    avatar |-> avatar, bio |-> bio])
              /\ blockNumber' = blockNumber
         ELSE UNCHANGED vars
<1>1. CASE UpdateAccepted(who, name, avatar, bio)
  <2>1. userStats' = WithStats(who)
    BY <1>1 DEF UpdateProfile, UpdateAccepted, Layered
  <2>2. usernameToAccount' = IF name = Keep THEN usernameToAccount
                             ELSE Renamed(who, ProfileOrNew(who).username, name)
    BY <1>1 DEF UpdateProfile, UpdateAccepted, Layered
  <2>3. profiles' = [profiles EXCEPT ![who] = UpdatedProfile(who, name, avatar, bio)]
    BY <1>1 DEF UpdateProfile, UpdateAccepted, UpdatedProfile, Layered
  <2>4. events' = Append(events, [kind |-> "ProfileUpdated", account |-> who,
                                  username |-> name, avatar |-> avatar, bio |-> bio])
    BY <1>1 DEF UpdateProfile, UpdateAccepted, Deposit
  <2>5. blockNumber' = blockNumber
    BY DEF UpdateProfile
  <2> QED BY <1>1, <2>1, <2>2, <2>3, <2>4, <2>5
<1>2. CASE ~UpdateAccepted(who, name, avatar, bio)
  <2>1. UNCHANGED storage
    BY <1>2 DEF UpdateProfile, UpdateAccepted, Layered, storage
  <2>2. UNCHANGED <<events, blockNumber>>
    BY <1>2 DEF UpdateProfile, UpdateAccepted, Deposit
  <2> QED BY <1>2, <2>1, <2>2 DEF vars, storage
<1> QED BY <1>1, <1>2

-----------------------------------------------------------------------------
(* The lookup map stays sound and complete when `who` gives up `old` and   *)
(* takes a name that is available to it.                                   *)
LEMMA RenamingKeepsIndex ==
  ASSUME TypeOK, LookupIsSound, NamedProfilesAreIndexed,
         NEW who \in Accounts, NEW old \in Names, NEW new \in Names,
         NEW p \in Profile, p.username = new,
         Available(who, new),
         profiles[who] # None => profiles[who].username = old,
         profiles[who] = None => old \in {Empty, new},
         profiles' = [profiles EXCEPT ![who] = p],
         usernameToAccount' = Renamed(who, old, new)
  PROVE  LookupIsSound' /\ NamedProfilesAreIndexed'
<1>1. /\ usernameToAccount' \in [Names -> Accounts \cup {None}]
      /\ \A n \in Names : usernameToAccount'[n] =
           IF n = new THEN who ELSE IF n = old THEN None ELSE usernameToAccount[n]
  BY DEF Renamed, TypeOK
<1>2. \A a \in Accounts : profiles'[a] = IF a = who THEN p ELSE profiles[a]
  BY DEF TypeOK
<1>3. p # None /\ who # None
  BY ProfileIsSomething, SentinelAssumption
<1>4. LookupIsSound'
  <2> SUFFICES ASSUME NEW n \in Names, usernameToAccount'[n] # None
               PROVE  /\ profiles'[usernameToAccount'[n]] # None
                      /\ profiles'[usernameToAccount'[n]].username = n
    BY DEF LookupIsSound
  <2>1. CASE n = new
    BY <2>1, <1>1, <1>2, <1>3
  <2>2. CASE n # new
    <3> DEFINE b == usernameToAccount[n]
    <3>1. n # old /\ usernameToAccount'[n] = b /\ b \in Accounts
      BY <2>2, <1>1 DEF TypeOK
    <3>2. profiles[b] # None /\ profiles[b].username = n
      BY <3>1 DEF LookupIsSound
    <3>3. b # who
      BY <3>1, <3>2
    <3> QED BY <3>1, <3>2, <3>3, <1>2
  <2> QED BY <2>1, <2>2
<1>5. NamedProfilesAreIndexed'
  <2> SUFFICES ASSUME NEW a \in Accounts, profiles'[a] # None,
                      profiles'[a].username # Empty
               PROVE  usernameToAccount'[profiles'[a].username] = a
    BY DEF NamedProfilesAreIndexed
  <2>1. CASE a = who
    BY <2>1, <1>1, <1>2
  <2>2. CASE a # who
    <3> DEFINE u == profiles[a].username
    <3>1. profiles'[a] = profiles[a] /\ u \in Names /\ usernameToAccount[u] = a
      BY <2>2, <1>2 DEF NamedProfilesAreIndexed, TypeOK, Profile
    <3>2. u # new
      BY <3>1, <2>2, SentinelAssumption DEF Available
    <3>3. u # old
      BY <3>1, <3>2, <2>2, <1>2 DEF NamedProfilesAreIndexed
    <3> QED BY <3>1, <3>2, <3>3, <1>1
  <2> QED BY <2>1, <2>2
<1> QED BY <1>4, <1>5

-----------------------------------------------------------------------------
(* Types.  Each call stores values of its parameters' types, within the    *)
(* limits it has checked.                                                  *)
LEMMA SetUsernameTypes ==
  ASSUME TypeOK, NEW who \in Accounts, NEW name \in UsernameInputs,
         SetUsername(who, name)
  PROVE  TypeOK' /\ name \in Names /\ profiles'[who] \in Profile
<1>1. name \in Names
  BY InputAssumption, SentinelAssumption DEF SetUsername, Fits, Names
<1> DEFINE p == [account |-> who, username |-> name, avatar |-> None, bio |-> None,
                 created_at |-> IF profiles[who] = None THEN blockNumber
                                ELSE profiles[who].created_at]
<1>2. p \in Profile
  BY <1>1 DEF TypeOK, Profile
<1>3. profiles' = [profiles EXCEPT ![who] = p]
  BY DEF SetUsername
<1>4. profiles' \in [Accounts -> Profile \cup {None}] /\ profiles'[who] \in Profile
  BY <1>2, <1>3 DEF TypeOK
<1>5. DefaultStats \in UserStats
  BY DEF DefaultStats, UserStats
<1>6. userStats' \in [Accounts -> UserStats \cup {None}]
  BY <1>5 DEF SetUsername, TypeOK
<1>7. usernameToAccount' \in [Names -> Accounts \cup {None}]
  BY <1>1 DEF SetUsername, Renamed, TypeOK
<1>8. [kind |-> "UsernameSet", account |-> who, username |-> name] \in Event
  BY <1>1 DEF Event
<1>9. events' \in Seq(Event) /\ blockNumber' \in Nat
  BY <1>8 DEF SetUsername, Deposit, TypeOK
<1> QED BY <1>1, <1>4, <1>6, <1>7, <1>9 DEF TypeOK

LEMMA UpdateProfileTypes ==
  ASSUME TypeOK, NEW who \in Accounts, NEW name \in UsernameInputs \cup {Keep},
         NEW avatar \in AvatarInputs, NEW bio \in BioInputs,
         UpdateAccepted(who, name, avatar, bio),
         UpdateProfile(who, name, avatar, bio)
  PROVE  /\ TypeOK'
         /\ name \in Names \cup {Keep}
         /\ ProfileOrNew(who) \in Profile
         /\ UpdatedProfile(who, name, avatar, bio) \in Profile
<1>1. name \in Names \cup {Keep}
  BY InputAssumption, SentinelAssumption DEF UpdateAccepted, Fits, Names
<1>2. avatar \in Names \cup {None, Keep}
  BY InputAssumption DEF UpdateAccepted, Fits, Names
<1>3. bio \in BioTexts \cup {None, Keep}
  BY InputAssumption DEF UpdateAccepted, Fits, BioTexts
<1>4. ProfileOrNew(who) \in Profile
  BY EmptyIsAName DEF ProfileOrNew, TypeOK, Profile
<1>5. UpdatedProfile(who, name, avatar, bio) \in Profile
  BY <1>1, <1>2, <1>3, <1>4 DEF UpdatedProfile, Given, Profile
<1>6. profiles' \in [Accounts -> Profile \cup {None}]
  BY <1>5, UpdateIsAllOrNothing DEF TypeOK
<1>7. userStats' \in [Accounts -> UserStats \cup {None}]
  <2>1. userStats' = WithStats(who)
    BY UpdateIsAllOrNothing
  <2> QED BY <2>1 DEF WithStats, DefaultStats, UserStats, TypeOK
<1>8. usernameToAccount' \in [Names -> Accounts \cup {None}]
  <2>1. usernameToAccount' = IF name = Keep THEN usernameToAccount
                             ELSE Renamed(who, ProfileOrNew(who).username, name)
    BY UpdateIsAllOrNothing
  <2> QED BY <2>1 DEF Renamed, TypeOK
<1>9. [kind |-> "ProfileUpdated", account |-> who, username |-> name,
       avatar |-> avatar, bio |-> bio] \in Event
  BY <1>1, <1>2, <1>3 DEF Event
<1>10. events' \in Seq(Event) /\ blockNumber' \in Nat
  BY <1>9, UpdateIsAllOrNothing DEF TypeOK
<1> QED BY <1>1, <1>4, <1>5, <1>6, <1>7, <1>8, <1>10 DEF TypeOK

LEMMA UpdateStatsTypes ==
  ASSUME TypeOK, NEW who \in Accounts, NEW given \in StatInputs,
         UpdateStats(who, given)
  PROVE  TypeOK' /\ userStats'[who] \in UserStats
<1> DEFINE current == IF userStats[who] = None THEN DefaultStats ELSE userStats[who]
           stats == [f \in StatFields |-> Given(given[f], current[f])]
<1>1. current \in UserStats
  BY DEF TypeOK, DefaultStats, UserStats
<1>2. given \in [StatFields -> Nat \cup {Keep}]
  BY InputAssumption
<1>3. \A f \in StatFields : Given(given[f], current[f]) \in Nat
  BY <1>1, <1>2 DEF Given, UserStats
<1>4. stats \in UserStats
  BY <1>3 DEF UserStats
<1>5. [kind |-> "StatsUpdated", account |-> who, stats |-> stats] \in Event
  BY <1>4 DEF Event
<1>6. userStats' = [userStats EXCEPT ![who] = stats]
  BY DEF UpdateStats
<1>7. events' = Append(events, [kind |-> "StatsUpdated", account |-> who, stats |-> stats])
  BY DEF UpdateStats, Deposit
<1>8. UNCHANGED <<profiles, usernameToAccount, blockNumber>>
  BY DEF UpdateStats
<1> HIDE DEF stats
<1>9. /\ userStats' \in [Accounts -> UserStats \cup {None}]
      /\ userStats'[who] \in UserStats
  BY <1>4, <1>6 DEF TypeOK
<1>10. events' \in Seq(Event)
  BY <1>5, <1>7 DEF TypeOK
<1> QED BY <1>8, <1>9, <1>10 DEF TypeOK

-----------------------------------------------------------------------------
(* Each call keeps the inductive invariant.                                *)
LEMMA SetUsernameKeepsIInv ==
  ASSUME IInv, NEW who \in Accounts, NEW name \in UsernameInputs,
         SetUsername(who, name)
  PROVE  IInv'
<1> USE DEF IInv
<1> DEFINE p == [account |-> who, username |-> name, avatar |-> None, bio |-> None,
                 created_at |-> IF profiles[who] = None THEN blockNumber
                                ELSE profiles[who].created_at]
           old == IF profiles[who] = None THEN name ELSE profiles[who].username
<1>1. TypeOK' /\ name \in Names /\ profiles'[who] \in Profile
  BY SetUsernameTypes
<1>2. profiles' = [profiles EXCEPT ![who] = p]
  BY DEF SetUsername
<1>3. p \in Profile
  BY <1>1, <1>2 DEF TypeOK
<1>4. old \in Names
  BY <1>1 DEF TypeOK, Profile
<1>5. usernameToAccount' = Renamed(who, old, name)
  <2>1. CASE profiles[who] = None
    BY <2>1, <1>1 DEF SetUsername, Renamed, TypeOK
  <2>2. CASE profiles[who] # None
    BY <2>2 DEF SetUsername
  <2> QED BY <2>1, <2>2
<1>6. Available(who, name)
  BY DEF SetUsername
<1>7. LookupIsSound' /\ NamedProfilesAreIndexed'
  <2>1. p.username = name
    OBVIOUS
  <2>2. /\ profiles[who] # None => profiles[who].username = old
        /\ profiles[who] = None => old \in {Empty, name}
    OBVIOUS
  <2> HIDE DEF p, old
  <2> QED BY <1>1, <1>2, <1>3, <1>4, <1>5, <1>6, <2>1, <2>2, RenamingKeepsIndex
<1>8. ProfileHasStats'
  <2>1. DefaultStats \in UserStats
    BY DEF DefaultStats, UserStats
  <2>2. \A a \in Accounts : a # who =>
          profiles'[a] = profiles[a] /\ userStats'[a] = userStats[a]
    BY DEF SetUsername, TypeOK
  <2>3. userStats'[who] # None
    BY <2>1, StatsAreSomething DEF SetUsername, TypeOK, ProfileHasStats
  <2> QED BY <2>2, <2>3 DEF ProfileHasStats
<1> QED BY <1>1, <1>7, <1>8

LEMMA UpdateProfileKeepsIInv ==
  ASSUME IInv, NEW who \in Accounts, NEW name \in UsernameInputs \cup {Keep},
         NEW avatar \in AvatarInputs, NEW bio \in BioInputs,
         UpdateProfile(who, name, avatar, bio)
  PROVE  IInv'
<1> USE DEF IInv
<1>1. CASE ~UpdateAccepted(who, name, avatar, bio)
  <2>1. UNCHANGED vars
    BY <1>1, UpdateIsAllOrNothing
  <2> QED BY <2>1 DEF vars, TypeOK, LookupIsSound, NamedProfilesAreIndexed,
                      ProfileHasStats
<1>2. CASE UpdateAccepted(who, name, avatar, bio)
  <2> DEFINE before == ProfileOrNew(who)
             p == UpdatedProfile(who, name, avatar, bio)
  <2>1. TypeOK' /\ name \in Names \cup {Keep} /\ before \in Profile /\ p \in Profile
    BY <1>2, UpdateProfileTypes
  <2>2. /\ profiles' = [profiles EXCEPT ![who] = p]
        /\ userStats' = WithStats(who)
        /\ usernameToAccount' = IF name = Keep THEN usernameToAccount
                                ELSE Renamed(who, before.username, name)
    BY <1>2, UpdateIsAllOrNothing
  <2>3. p.username = IF name = Keep THEN before.username ELSE name
    BY <2>1 DEF UpdatedProfile, Given, Profile
  <2>4. before.username \in Names
    BY <2>1 DEF Profile
  <2>5. IF profiles[who] = None THEN before.username = Empty ELSE before = profiles[who]
    BY DEF ProfileOrNew
  <2>6. LookupIsSound' /\ NamedProfilesAreIndexed'
    <3>1. CASE name # Keep
      <4>1. Available(who, name)
        BY <1>2, <3>1 DEF UpdateAccepted
      <4>2. name \in Names /\ p.username = name
        BY <2>1, <2>3, <3>1
      <4>3. usernameToAccount' = Renamed(who, before.username, name)
        BY <2>2, <3>1
      <4> HIDE DEF p, before
      <4> QED BY <2>1, <2>2, <2>4, <2>5, <4>1, <4>2, <4>3, RenamingKeepsIndex
    <3>2. CASE name = Keep
      <4>1. usernameToAccount' = usernameToAccount /\ p.username = before.username
        BY <2>2, <2>3, <3>2
      <4>2. \A a \in Accounts : profiles'[a] = IF a = who THEN p ELSE profiles[a]
        BY <2>2 DEF TypeOK
      <4>3. p # None
        BY <2>1, ProfileIsSomething
      <4>4. LookupIsSound'
        BY <2>5, <4>1, <4>2, <4>3 DEF LookupIsSound, TypeOK
      <4>5. NamedProfilesAreIndexed'
        BY <2>5, <4>1, <4>2, <4>3 DEF NamedProfilesAreIndexed
      <4> QED BY <4>4, <4>5
    <3> QED BY <3>1, <3>2
  <2>7. ProfileHasStats'
    <3>1. DefaultStats \in UserStats
      BY DEF DefaultStats, UserStats
    <3>2. userStats'[who] # None
      BY <2>2, <3>1, StatsAreSomething DEF WithStats, TypeOK
    <3>3. \A a \in Accounts : a # who =>
            profiles'[a] = profiles[a] /\ userStats'[a] = userStats[a]
      BY <2>2 DEF WithStats, TypeOK
    <3> QED BY <3>2, <3>3 DEF ProfileHasStats
  <2> QED BY <2>1, <2>6, <2>7
<1> QED BY <1>1, <1>2

LEMMA UpdateStatsKeepsIInv ==
  ASSUME IInv, NEW who \in Accounts, NEW given \in StatInputs,
         UpdateStats(who, given)
  PROVE  IInv'
<1>1. TypeOK' /\ userStats'[who] # None
  BY UpdateStatsTypes, StatsAreSomething DEF IInv
<1>2. UNCHANGED <<profiles, usernameToAccount>>
  BY DEF UpdateStats
<1>3. \A a \in Accounts : a # who => userStats'[a] = userStats[a]
  BY DEF UpdateStats, IInv, TypeOK
<1> QED BY <1>1, <1>2, <1>3
        DEF IInv, LookupIsSound, NamedProfilesAreIndexed, ProfileHasStats

LEMMA InitEstablishesIInv == ASSUME Init PROVE IInv
<1>1. TypeOK
  BY DEF Init, TypeOK
<1>2. LookupIsSound /\ NamedProfilesAreIndexed /\ ProfileHasStats
  BY DEF Init, LookupIsSound, NamedProfilesAreIndexed, ProfileHasStats
<1> QED BY <1>1, <1>2 DEF IInv

LEMMA NextKeepsIInv == ASSUME IInv, [Next]_vars PROVE IInv'
<1>1. CASE NextBlock
  <2>1. UNCHANGED storage /\ TypeOK'
    BY <1>1 DEF NextBlock, storage, IInv, TypeOK
  <2> QED BY <2>1 DEF storage, IInv, LookupIsSound, NamedProfilesAreIndexed,
                      ProfileHasStats
<1>2. ASSUME NEW who \in Accounts, Call(who) PROVE IInv'
  BY <1>2, SetUsernameKeepsIInv, UpdateProfileKeepsIInv, UpdateStatsKeepsIInv
     DEF Call
<1>3. CASE UNCHANGED vars
  BY <1>3 DEF vars, IInv, TypeOK, LookupIsSound, NamedProfilesAreIndexed,
              ProfileHasStats
<1> QED BY <1>1, <1>2, <1>3 DEF Next

(* The four invariants hold throughout, whatever the accounts call.        *)
THEOREM Safety == Spec => []IInv
  BY InitEstablishesIInv, NextKeepsIInv, PTL DEF Spec

THEOREM TypeCorrect == Spec => []TypeOK
<1>1. IInv => TypeOK
  BY DEF IInv
<1> QED BY <1>1, Safety, PTL

(* A lookup by name never leads astray.                                    *)
THEOREM LookupSound == Spec => []LookupIsSound
<1>1. IInv => LookupIsSound
  BY DEF IInv
<1> QED BY <1>1, Safety, PTL

(* A named profile can always be found by its name.                        *)
THEOREM LookupComplete == Spec => []NamedProfilesAreIndexed
<1>1. IInv => NamedProfilesAreIndexed
  BY DEF IInv
<1> QED BY <1>1, Safety, PTL

(* Every profile has statistics.                                           *)
THEOREM StatsPresent == Spec => []ProfileHasStats
<1>1. IInv => ProfileHasStats
  BY DEF IInv
<1> QED BY <1>1, Safety, PTL

-----------------------------------------------------------------------------
(* What a step may never do.                                               *)

LEMMA AppendDeposits ==
  ASSUME TypeOK, NEW e \in Event, events' = Append(events, e)
  PROVE  Deposited /\ LastEvent = e
BY DEF TypeOK, Deposited, LastEvent

(* A step is a call that was accepted, with its event, or leaves storage   *)
(* alone.                                                                  *)
LEMMA StepCases ==
  ASSUME IInv, [Next]_vars
  PROVE  \/ UNCHANGED storage /\ ~Deposited
         \/ \E who \in Accounts, name \in UsernameInputs :
              SetUsername(who, name)
         \/ \E who \in Accounts, name \in UsernameInputs \cup {Keep},
               avatar \in AvatarInputs, bio \in BioInputs :
              /\ UpdateAccepted(who, name, avatar, bio)
              /\ UpdateProfile(who, name, avatar, bio)
         \/ \E who \in Accounts, given \in StatInputs : UpdateStats(who, given)
<1>1. CASE UNCHANGED vars
  BY <1>1 DEF vars, storage, Deposited, IInv, TypeOK
<1>2. CASE NextBlock
  BY <1>2 DEF NextBlock, Deposited, IInv, TypeOK
<1>3. ASSUME NEW who \in Accounts, NEW name \in UsernameInputs \cup {Keep},
             NEW avatar \in AvatarInputs, NEW bio \in BioInputs,
             UpdateProfile(who, name, avatar, bio),
             ~UpdateAccepted(who, name, avatar, bio)
      PROVE  UNCHANGED storage /\ ~Deposited
  <2>1. UNCHANGED vars
    BY <1>3, UpdateIsAllOrNothing
  <2> QED BY <2>1 DEF vars, storage, Deposited, IInv, TypeOK
<1> QED BY <1>1, <1>2, <1>3 DEF Next, Call

(* Profiles are never deleted and never restamped.                         *)
THEOREM ProfilesStay == Spec => ProfilesPersist
<1> DEFINE Kept(a) ==
      IF profiles[a] = None
      THEN profiles'[a] # None => profiles'[a].created_at = blockNumber
      ELSE profiles'[a] # None /\ profiles'[a].created_at = profiles[a].created_at
<1>1. ASSUME IInv, [Next]_vars PROVE \A a \in Accounts : Kept(a)
  <2>1. CASE UNCHANGED profiles
    BY <2>1
  <2>2. ASSUME NEW who \in Accounts, NEW p \in Profile,
               profiles' = [profiles EXCEPT ![who] = p],
               p.created_at = IF profiles[who] = None THEN blockNumber
                              ELSE profiles[who].created_at
        PROVE  \A a \in Accounts : Kept(a)
    <3>1. \A a \in Accounts : profiles'[a] = IF a = who THEN p ELSE profiles[a]
      BY <1>1, <2>2 DEF IInv, TypeOK
    <3> QED BY <2>2, <3>1, ProfileIsSomething
  <2>3. ASSUME NEW who \in Accounts, NEW name \in UsernameInputs, SetUsername(who, name)
        PROVE  \A a \in Accounts : Kept(a)
    <3> DEFINE p == [account |-> who, username |-> name, avatar |-> None, bio |-> None,
                     created_at |-> IF profiles[who] = None THEN blockNumber
                                    ELSE profiles[who].created_at]
    <3>1. profiles' = [profiles EXCEPT ![who] = p]
      BY <2>3 DEF SetUsername
    <3>2. p \in Profile
      BY <1>1, <2>3, <3>1, SetUsernameTypes DEF IInv, TypeOK
    <3>3. p.created_at = IF profiles[who] = None THEN blockNumber
                         ELSE profiles[who].created_at
      OBVIOUS
    <3> HIDE DEF p, Kept
    <3> QED BY <2>2, <3>1, <3>2, <3>3
  <2>4. ASSUME NEW who \in Accounts, NEW name \in UsernameInputs \cup {Keep},
               NEW avatar \in AvatarInputs, NEW bio \in BioInputs,
               UpdateAccepted(who, name, avatar, bio),
               UpdateProfile(who, name, avatar, bio)
        PROVE  \A a \in Accounts : Kept(a)
    <3> DEFINE p == UpdatedProfile(who, name, avatar, bio)
    <3>1. profiles' = [profiles EXCEPT ![who] = p]
      BY <2>4, UpdateIsAllOrNothing
    <3>2. p \in Profile /\ ProfileOrNew(who) \in Profile
      BY <1>1, <2>4, UpdateProfileTypes DEF IInv
    <3>3. p.created_at = ProfileOrNew(who).created_at
      BY <3>2 DEF UpdatedProfile, Profile
    <3>4. ProfileOrNew(who).created_at = IF profiles[who] = None THEN blockNumber
                                         ELSE profiles[who].created_at
      BY DEF ProfileOrNew
    <3> HIDE DEF p, Kept
    <3> QED BY <2>2, <3>1, <3>2, <3>3, <3>4
  <2>5. ASSUME NEW who \in Accounts, NEW given \in StatInputs, UpdateStats(who, given)
        PROVE  UNCHANGED profiles
    BY <2>5 DEF UpdateStats
  <2> QED BY <1>1, <2>1, <2>3, <2>4, <2>5, StepCases DEF storage
<1> QED BY <1>1, Safety, PTL DEF Spec, ProfilesPersist

(* Only update_stats changes the statistics of an account with a profile.  *)
THEOREM StatsKept == Spec => StatsKeptWithProfile
<1> DEFINE Told(a) ==
      profiles[a] # None /\ userStats'[a] # userStats[a] =>
        /\ Deposited
        /\ LastEvent.kind = "StatsUpdated"
        /\ LastEvent.account = a
<1>1. ASSUME IInv, [Next]_vars PROVE \A a \in Accounts : Told(a)
  <2>1. CASE UNCHANGED userStats
    BY <2>1
  <2>2. ASSUME NEW who \in Accounts, NEW name \in UsernameInputs, SetUsername(who, name)
        PROVE  \A a \in Accounts : Told(a)
    BY <1>1, <2>2 DEF SetUsername, IInv, TypeOK
  <2>3. ASSUME NEW who \in Accounts, NEW name \in UsernameInputs \cup {Keep},
               NEW avatar \in AvatarInputs, NEW bio \in BioInputs,
               UpdateAccepted(who, name, avatar, bio),
               UpdateProfile(who, name, avatar, bio)
        PROVE  \A a \in Accounts : Told(a)
    <3>1. userStats' = WithStats(who)
      BY <2>3, UpdateIsAllOrNothing
    <3> QED BY <1>1, <3>1 DEF WithStats, IInv, TypeOK, ProfileHasStats
  <2>4. ASSUME NEW who \in Accounts, NEW given \in StatInputs, UpdateStats(who, given)
        PROVE  \A a \in Accounts : Told(a)
    <3> DEFINE e == [kind |-> "StatsUpdated", account |-> who, stats |-> userStats'[who]]
    <3>1. userStats'[who] \in UserStats /\ e \in Event
      BY <1>1, <2>4, UpdateStatsTypes DEF IInv, Event
    <3>2. events' = Append(events, e)
      BY <1>1, <2>4 DEF UpdateStats, Deposit, IInv, TypeOK
    <3>3. \A a \in Accounts : a # who => userStats'[a] = userStats[a]
      BY <1>1, <2>4 DEF UpdateStats, IInv, TypeOK
    <3>4. e.kind = "StatsUpdated" /\ e.account = who
      OBVIOUS
    <3> HIDE DEF e
    <3>5. Deposited /\ LastEvent = e
      BY <1>1, <3>1, <3>2, AppendDeposits DEF IInv
    <3> QED BY <3>3, <3>4, <3>5
  <2> QED BY <1>1, <2>1, <2>2, <2>3, <2>4, StepCases DEF storage
<1> QED BY <1>1, Safety, PTL DEF Spec, StatsKeptWithProfile

-----------------------------------------------------------------------------
(* What a follower of the events makes of a step: one lemma per call.      *)
Described ==
  \A a \in Accounts :
    IF a = LastEvent.account
    THEN LET told == Follow(Fields(profiles[a]), LastEvent)
         IN  /\ \/ Fields(profiles'[a]) = told
                \/ ResetUntold(Fields(profiles'[a]), told)
             /\ IF LastEvent.kind = "StatsUpdated"
                THEN userStats'[a] = LastEvent.stats
                ELSE UNCHANGED userStats[a] \/ StatsResetUntold(a)
    ELSE UNCHANGED <<profiles[a], userStats[a]>>

LEMMA SetUsernameIsDescribed ==
  ASSUME IInv, NEW who \in Accounts, NEW name \in UsernameInputs, SetUsername(who, name)
  PROVE  Deposited /\ Described
<1> DEFINE e == [kind |-> "UsernameSet", account |-> who, username |-> name]
           p == [account |-> who, username |-> name, avatar |-> None, bio |-> None,
                 created_at |-> IF profiles[who] = None THEN blockNumber
                                ELSE profiles[who].created_at]
<1>1. name \in Names /\ profiles'[who] \in Profile
  BY SetUsernameTypes DEF IInv
<1>2. e \in Event /\ events' = Append(events, e)
  BY <1>1 DEF Event, SetUsername, Deposit
<1>3. Deposited /\ LastEvent = e
  <2> HIDE DEF e
  <2> QED BY <1>2, AppendDeposits DEF IInv
<1>4. profiles'[who] = p /\ p # None
  BY <1>1, ProfileIsSomething DEF SetUsername, IInv, TypeOK
<1>5. Fields(p) = [username |-> name, avatar |-> None, bio |-> None]
  BY <1>4 DEF Fields, FieldNames
<1>6. [Follow(Fields(profiles[who]), e) EXCEPT !.avatar = None, !.bio = None] =
        [username |-> name, avatar |-> None, bio |-> None]
  <2> DEFINE F == Fields(profiles[who])
  <2>1. F \in [{"username", "avatar", "bio"} -> {F["username"], F["avatar"], F["bio"]}]
    BY DEF Fields, FieldNames
  <2>2. Follow(F, e) = [F EXCEPT !.username = name]
    BY DEF Follow
  <2> HIDE DEF F, e
  <2>3. \A f \in {"username", "avatar", "bio"} :
          [Follow(F, e) EXCEPT !.avatar = None, !.bio = None][f] =
            IF f = "username" THEN name ELSE None
    BY <2>1, <2>2
  <2>4. [Follow(F, e) EXCEPT !.avatar = None, !.bio = None] =
          [f \in {"username", "avatar", "bio"} |-> IF f = "username" THEN name ELSE None]
    BY <2>1, <2>2, <2>3
  <2>5. [f \in {"username", "avatar", "bio"} |-> IF f = "username" THEN name ELSE None]
          = [username |-> name, avatar |-> None, bio |-> None]
    OBVIOUS
  <2> QED BY <2>4, <2>5 DEF F
<1>7. \A a \in Accounts : a # who => UNCHANGED <<profiles[a], userStats[a]>>
  BY DEF SetUsername, IInv, TypeOK
<1>8. e.account = who /\ e.kind = "UsernameSet"
  OBVIOUS
<1>9. UNCHANGED userStats[who] \/ StatsResetUntold(who)
  BY <1>4 DEF SetUsername, StatsResetUntold, IInv, TypeOK
<1> HIDE DEF e, p
<1> QED BY <1>3, <1>4, <1>5, <1>6, <1>7, <1>8, <1>9 DEF Described, ResetUntold

LEMMA UpdateProfileIsDescribed ==
  ASSUME IInv, NEW who \in Accounts, NEW name \in UsernameInputs \cup {Keep},
         NEW avatar \in AvatarInputs, NEW bio \in BioInputs,
         UpdateAccepted(who, name, avatar, bio),
         UpdateProfile(who, name, avatar, bio)
  PROVE  Deposited /\ Described
<1> DEFINE e == [kind |-> "ProfileUpdated", account |-> who, username |-> name,
                 avatar |-> avatar, bio |-> bio]
           p == UpdatedProfile(who, name, avatar, bio)
           before == ProfileOrNew(who)
<1>1. /\ p \in Profile /\ before \in Profile
      /\ name \in Names \cup {Keep}
  BY UpdateProfileTypes DEF IInv
<1>2. /\ avatar \in Names \cup {None, Keep}
      /\ bio \in BioTexts \cup {None, Keep}
  BY InputAssumption DEF UpdateAccepted, Fits, Names, BioTexts
<1>3. e \in Event /\ events' = Append(events, e)
  BY <1>1, <1>2, UpdateIsAllOrNothing DEF Event
<1>4. Deposited /\ LastEvent = e
  <2> HIDE DEF e
  <2> QED BY <1>3, AppendDeposits DEF IInv
<1>5. profiles'[who] = p /\ p # None
  BY <1>1, UpdateIsAllOrNothing, ProfileIsSomething DEF IInv, TypeOK
<1>6. Fields(p) = [f \in {"username", "avatar", "bio"} |-> p[f]]
  BY <1>5 DEF Fields, FieldNames
<1>7. Fields(profiles[who]) = [f \in {"username", "avatar", "bio"} |-> before[f]]
  BY DEF Fields, FieldNames, ProfileOrNew
<1>8. /\ p.username = Given(name, before.username)
      /\ p.avatar = Given(avatar, before.avatar)
      /\ p.bio = Given(bio, before.bio)
  BY <1>1 DEF UpdatedProfile, Profile
<1>9. Follow(Fields(profiles[who]), e) =
        [f \in {"username", "avatar", "bio"} |-> Given(e[f], before[f])]
  BY <1>7 DEF Follow, FieldNames
<1>10. \A f \in {"username", "avatar", "bio"} : p[f] = Given(e[f], before[f])
  <2> HIDE DEF p, before
  <2> QED BY <1>8
<1>11. Fields(profiles'[who]) = Follow(Fields(profiles[who]), e)
  <2> HIDE DEF p, before, e
  <2> QED BY <1>5, <1>6, <1>9, <1>10
<1>12. \A a \in Accounts : a # who => UNCHANGED <<profiles[a], userStats[a]>>
  <2>1. profiles' = [profiles EXCEPT ![who] = p] /\ userStats' = WithStats(who)
    BY UpdateIsAllOrNothing
  <2> HIDE DEF p
  <2> QED BY <2>1 DEF WithStats, IInv, TypeOK
<1>13. e.account = who /\ e.kind = "ProfileUpdated"
  OBVIOUS
<1>14. UNCHANGED userStats[who] \/ StatsResetUntold(who)
  <2>1. userStats' = WithStats(who) /\ (profiles[who] # None => userStats[who] # None)
    BY UpdateIsAllOrNothing DEF IInv, ProfileHasStats
  <2> QED BY <1>5, <2>1 DEF WithStats, StatsResetUntold, IInv, TypeOK
<1> HIDE DEF e, p, before
<1> QED BY <1>4, <1>11, <1>12, <1>13, <1>14 DEF Described

LEMMA UpdateStatsIsDescribed ==
  ASSUME IInv, NEW who \in Accounts, NEW given \in StatInputs, UpdateStats(who, given)
  PROVE  Deposited /\ Described
<1> DEFINE e == [kind |-> "StatsUpdated", account |-> who, stats |-> userStats'[who]]
<1>1. userStats'[who] \in UserStats /\ e \in Event
  BY UpdateStatsTypes DEF IInv, Event
<1>2. events' = Append(events, e)
  BY DEF UpdateStats, Deposit, IInv, TypeOK
<1>3. Deposited /\ LastEvent = e
  <2> HIDE DEF e
  <2> QED BY <1>1, <1>2, AppendDeposits DEF IInv
<1>4. UNCHANGED profiles /\ \A a \in Accounts : a # who => userStats'[a] = userStats[a]
  BY DEF UpdateStats, IInv, TypeOK
<1>5. \A fields : Follow(fields, e) = fields
  BY DEF Follow
<1>6. e.account = who /\ e.stats = userStats'[who] /\ e.kind = "StatsUpdated"
  OBVIOUS
<1> HIDE DEF e
<1> QED BY <1>3, <1>4, <1>5, <1>6 DEF Described

(* Whoever applies what the events carry has every username right, and the *)
(* rest of the storage but for the resets no event tells.                  *)
THEOREM FollowersAreRight == Spec => FollowersMissOnlyResets
<1>1. ASSUME IInv, [Next]_vars PROVE IF Deposited THEN Described ELSE UNCHANGED storage
  BY <1>1, StepCases, SetUsernameIsDescribed, UpdateProfileIsDescribed,
     UpdateStatsIsDescribed
<1> QED BY <1>1, Safety, PTL DEF Spec, FollowersMissOnlyResets, Described

-----------------------------------------------------------------------------
(* The lookup map implements the registry of names.                        *)
Owner == [n \in Names \ {Empty} |-> usernameToAccount[n]]

(* A rename is Take when the new name is not empty, else Release.  What    *)
(* Renamed deletes is all that `who` holds, by the soundness of the map,   *)
(* and nobody else's entry, by its completeness.                           *)
LEMMA RenamingIsARegistryStep ==
  ASSUME IInv, NEW who \in Accounts, NEW old \in Names, NEW new \in Names,
         Available(who, new),
         profiles[who] # None => profiles[who].username = old,
         profiles[who] = None => old \in {Empty, new},
         usernameToAccount' = Renamed(who, old, new)
  PROVE  NR!Next
<1>1. \A n \in Names : usernameToAccount'[n] =
         IF n = new THEN who ELSE IF n = old THEN None ELSE usernameToAccount[n]
  BY DEF Renamed, IInv, TypeOK
<1>2. \A n \in Names : usernameToAccount[n] = who => n = old
  BY SentinelAssumption DEF IInv, TypeOK, LookupIsSound
<1>3. old \notin {Empty, new} => usernameToAccount[old] = who
  BY DEF IInv, NamedProfilesAreIndexed
<1>4. \A n \in Names \ {Empty} : n # new =>
         usernameToAccount'[n] = IF usernameToAccount[n] = who THEN None
                                 ELSE usernameToAccount[n]
  BY <1>1, <1>2, <1>3
<1>5. CASE new = Empty
  <2>1. NR!Release(who)
    BY <1>4, <1>5 DEF NR!Release, NR!Dropped
  <2> QED BY <2>1 DEF NR!Next
<1>6. CASE new # Empty
  <2>1. NR!Take(who, new)
    BY <1>1, <1>4, <1>6 DEF NR!Take, NR!Dropped, Available
  <2> QED BY <2>1, <1>6 DEF NR!Next
<1> QED BY <1>5, <1>6

(* The pallet is a registry in which a name changes hands only after its   *)
(* holder has let go of it.                                                *)
THEOREM RefinesNameRegistry == Spec => ImplementsNameRegistry
<1>1. Init => NR!Init
  BY DEF Init, NR!Init
<1>2. ASSUME IInv, [Next]_vars PROVE NR!Next \/ UNCHANGED Owner
  <2>1. CASE UNCHANGED usernameToAccount
    BY <2>1 DEF Owner
  <2>2. ASSUME NEW who \in Accounts, NEW name \in UsernameInputs, SetUsername(who, name)
        PROVE  NR!Next
    <3> DEFINE old == IF profiles[who] = None THEN name ELSE profiles[who].username
    <3>1. name \in Names /\ Available(who, name)
      BY <1>2, <2>2, SetUsernameTypes DEF IInv, SetUsername
    <3>2. old \in Names
      BY <1>2, <3>1 DEF IInv, TypeOK, Profile
    <3>3. usernameToAccount' = Renamed(who, old, name)
      <4>1. CASE profiles[who] = None
        BY <1>2, <2>2, <3>1, <4>1 DEF SetUsername, Renamed, IInv, TypeOK
      <4>2. CASE profiles[who] # None
        BY <2>2, <4>2 DEF SetUsername
      <4> QED BY <4>1, <4>2
    <3>4. /\ profiles[who] # None => profiles[who].username = old
          /\ profiles[who] = None => old \in {Empty, name}
      OBVIOUS
    <3> HIDE DEF old
    <3> QED BY <1>2, <3>1, <3>2, <3>3, <3>4, RenamingIsARegistryStep
  <2>3. ASSUME NEW who \in Accounts, NEW name \in UsernameInputs \cup {Keep},
               NEW avatar \in AvatarInputs, NEW bio \in BioInputs,
               UpdateAccepted(who, name, avatar, bio),
               UpdateProfile(who, name, avatar, bio)
        PROVE  NR!Next \/ UNCHANGED usernameToAccount
    <3> DEFINE old == ProfileOrNew(who).username
    <3>1. /\ name \in Names \cup {Keep} /\ ProfileOrNew(who) \in Profile
          /\ usernameToAccount' = IF name = Keep THEN usernameToAccount
                                  ELSE Renamed(who, old, name)
      BY <1>2, <2>3, UpdateProfileTypes, UpdateIsAllOrNothing DEF IInv
    <3>2. CASE name # Keep
      <4>1. name \in Names /\ Available(who, name)
        BY <2>3, <3>1, <3>2 DEF UpdateAccepted
      <4>2. /\ old \in Names
            /\ profiles[who] # None => profiles[who].username = old
            /\ profiles[who] = None => old \in {Empty, name}
        BY <3>1 DEF ProfileOrNew, Profile
      <4>3. usernameToAccount' = Renamed(who, old, name)
        BY <3>1, <3>2
      <4> HIDE DEF old
      <4> QED BY <1>2, <4>1, <4>2, <4>3, RenamingIsARegistryStep
    <3> QED BY <3>1, <3>2
  <2>4. ASSUME NEW who \in Accounts, NEW given \in StatInputs, UpdateStats(who, given)
        PROVE  UNCHANGED usernameToAccount
    BY <2>4 DEF UpdateStats
  <2> QED BY <1>2, <2>1, <2>2, <2>3, <2>4, StepCases DEF storage
<1> QED BY <1>1, <1>2, Safety, PTL DEF Spec, ImplementsNameRegistry, NR!Spec, Owner
=============================================================================
