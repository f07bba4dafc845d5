------------------------- MODULE UsersServiceProofs -------------------------
(***************************************************************************)
(* The users table for any number of concurrent requests: one account      *)
(* per id, and saves that write no column their request did not give.      *)
(***************************************************************************)
EXTENDS UsersService, TLAPS

(* What the invariant rests on: ids are given out in order, so that no     *)
(* row and no entity in flight already bears the next one.                 *)
FreshIdsAreUnused ==
  /\ \A i \in Ids : users[i] # None => i < nextId
  /\ \A c \in Clients : HoldsEntity(c) => req[c].id < nextId

(* Where a request has an id or an account, and where it has none; a       *)
(* pending UPDATE writes only columns that have a value.                   *)
Located(r) ==
  /\ r.at = "findAccount" => r.id = NoId
  /\ r.at \in {"findOne", "load", "update", "findDoomed", "delete"} => r.id # NoId
  /\ r.at \notin {"done", "findOne", "findDoomed", "delete"} => r.account # None
  /\ r.at = "update" => \A k \in r.changed : r.entity[k] # Undef

EveryoneLocated == \A c \in Clients : Located(req[c])

IInv == TypeOK /\ EveryoneLocated /\ FreshIdsAreUnused /\ IdMeansOneAccount

(* What req[c] can be, as in TypeOK.                                       *)
Request == [at: Places, id: Ids \cup {NoId}, account: Accounts \cup {None},
            dto: Dtos \cup {Blank}, entity: [Columns -> Values \cup {Undef}],
            changed: SUBSET Columns, outcome: Outcomes]

LEMMA RequestsTyped == TypeOK <=>
  /\ users \in [Ids -> Row \cup {None}]
  /\ nextId \in Nat \ {0}
  /\ req \in [Clients -> Request]
  BY DEF TypeOK, Request

LEMMA IdIsSomething == \A i \in Ids : i # NoId
  BY ColumnAssumption DEF Ids, NoId

LEMMA AccountIsSomething == \A a \in Accounts : a # None
  BY RowAssumption

LEMMA IdleHasItsType == Idle \in Request
  BY DEF Request, Idle, Places, Outcomes, Blank

(* Object.assign yields an entity.                                         *)
LEMMA AssignedIsAnEntity ==
  ASSUME NEW entity \in [Columns -> Values \cup {Undef}], NEW dto \in Dtos \cup {Blank}
  PROVE  Assigned(entity, dto) \in [Columns -> Values \cup {Undef}]
<1>1. CASE dto \in Dtos
  <2>1. PICK given \in SUBSET Columns : dto \in [given -> Values \cup {Undef}]
    BY <1>1, ColumnAssumption
  <2> QED BY <2>1 DEF Assigned
<1>2. CASE dto = Blank
  BY <1>2 DEF Assigned, Blank
<1> QED BY <1>1, <1>2

LEMMA InsertedIsARow ==
  ASSUME NEW entity \in [Columns -> Values \cup {Undef}]
  PROVE  Inserted(entity) \in [Columns -> Values]
  BY ColumnAssumption DEF Inserted

-----------------------------------------------------------------------------
(* A request may move without touching the table, provided that an entity  *)
(* it holds afterwards is one it held before or one it has just read.      *)
LEMMA RequestMoves ==
  ASSUME IInv, NEW c \in Clients,
         NEW r \in Request, Located(r),
         req' = [req EXCEPT ![c] = r],
         UNCHANGED <<users, nextId>>,
         r.id # NoId /\ r.at \in {"findUsername", "load", "update", "insert"} =>
           \/ HoldsEntity(c) /\ r.id = req[c].id /\ r.account = req[c].account
           \/ users[r.id] # None /\ users[r.id].account = r.account
  PROVE  IInv'
<1> USE DEF IInv
<1>1. TypeOK'
  BY DEF TypeOK, Request
<1>2. \A d \in Clients : req'[d] = IF d = c THEN r ELSE req[d]
  BY DEF TypeOK
<1>8. EveryoneLocated'
  BY <1>2 DEF EveryoneLocated
<1>3. \A d \in Clients : d # c => (HoldsEntity(d)' <=> HoldsEntity(d))
  BY <1>2 DEF HoldsEntity
<1>4. HoldsEntity(c)' =>
        /\ r.id \in Ids
        /\ \/ HoldsEntity(c) /\ r.id = req[c].id /\ r.account = req[c].account
           \/ users[r.id] # None /\ users[r.id].account = r.account
  BY <1>2 DEF HoldsEntity, Request
<1>6. FreshIdsAreUnused'
  BY <1>2, <1>3, <1>4 DEF FreshIdsAreUnused
<1>7. IdMeansOneAccount'
  BY <1>2, <1>3, <1>4 DEF IdMeansOneAccount
<1> QED BY <1>1, <1>6, <1>7, <1>8

(* An answered request holds nothing.                                      *)
LEMMA FinishKeepsIInv ==
  ASSUME IInv, NEW c \in Clients, NEW outcome \in Outcomes,
         Finish(c, outcome), UNCHANGED <<users, nextId>>
  PROVE  IInv'
<1> DEFINE r == [Idle EXCEPT !.outcome = outcome]
<1>1. r \in Request
  BY IdleHasItsType DEF Request
<1>2. r.at = "done" /\ Located(r)
  BY DEF Idle, Located
<1>3. req' = [req EXCEPT ![c] = r]
  BY DEF Finish
<1> HIDE DEF r
<1> QED BY <1>1, <1>2, <1>3, RequestMoves

(* A request that goes on to its next await keeps the entity it holds.     *)
LEMMA GotoKeepsIInv ==
  ASSUME IInv, NEW c \in Clients, NEW place \in Places,
         Goto(c, place), UNCHANGED <<users, nextId>>,
         Located([req[c] EXCEPT !.at = place]),
         req[c].id = NoId \/ HoldsEntity(c)
                          \/ place \notin {"findUsername", "load", "update", "insert"}
  PROVE  IInv'
<1> DEFINE r == [req[c] EXCEPT !.at = place]
<1>1. r \in Request
  BY RequestsTyped DEF IInv, Request
<1>2. r.at = place /\ r.id = req[c].id /\ r.account = req[c].account
  BY RequestsTyped DEF IInv, Request
<1>3. req' = [req EXCEPT ![c] = r]
  BY DEF Goto
<1>4. Located(r)
  OBVIOUS
<1> HIDE DEF r
<1> QED BY <1>1, <1>2, <1>3, <1>4, RequestMoves

-----------------------------------------------------------------------------
(* The actions that only read.                                             *)
LEMMA AcceptKeepsIInv == ASSUME IInv, NEW c \in Clients, Accept(c) PROVE IInv'
<1>1. ASSUME NEW r \in Request, r.at \in {"findAccount", "findOne", "findByAccountId", "findDoomed"},
             Located(r), Begin(c, r)
      PROVE  IInv'
  <2>1. r.at \notin {"findUsername", "load", "update", "insert"}
    BY <1>1
  <2>2. req' = [req EXCEPT ![c] = r] /\ UNCHANGED <<users, nextId>>
    BY <1>1 DEF Begin
  <2>3. Located(r)
    BY <1>1
  <2> QED BY <1>1, <2>1, <2>2, <2>3, RequestMoves
<1>2. CASE \E account \in Accounts, dto \in Dtos : HasRoom /\ Create(c, account, dto)
  <2>1. PICK account \in Accounts, dto \in Dtos : Create(c, account, dto)
    BY <1>2
  <2> DEFINE r == [Idle EXCEPT !.at = "findAccount", !.account = account,
                               !.dto = dto, !.entity = Assigned(Blank, dto)]
  <2>2. Assigned(Blank, dto) \in [Columns -> Values \cup {Undef}]
    BY AssignedIsAnEntity DEF Blank
  <2>3. r \in Request /\ r.at = "findAccount" /\ Located(r)
    BY <2>2, IdleHasItsType, AccountIsSomething DEF Request, Places, Located, Idle
  <2>4. Begin(c, r)
    BY <2>1 DEF Create
  <2> HIDE DEF r
  <2> QED BY <2>3, <2>4, <1>1
<1>3. CASE \E id \in Ids, dto \in Dtos : Update(c, id, dto)
  <2>1. PICK id \in Ids, dto \in Dtos : Update(c, id, dto)
    BY <1>3
  <2> DEFINE r == [Idle EXCEPT !.at = "findOne", !.id = id, !.dto = dto]
  <2>2. r \in Request /\ r.at = "findOne" /\ Located(r)
    BY IdleHasItsType, IdIsSomething DEF Request, Places, Located, Idle
  <2>3. Begin(c, r)
    BY <2>1 DEF Update
  <2> HIDE DEF r
  <2> QED BY <2>2, <2>3, <1>1
<1>4. CASE \E account \in Accounts, dto \in Dtos : UpdateByAccountId(c, account, dto)
  <2>1. PICK account \in Accounts, dto \in Dtos : UpdateByAccountId(c, account, dto)
    BY <1>4
  <2> DEFINE r == [Idle EXCEPT !.at = "findByAccountId", !.account = account, !.dto = dto]
  <2>2. r \in Request /\ r.at = "findByAccountId" /\ Located(r)
    BY IdleHasItsType, AccountIsSomething DEF Request, Places, Located, Idle
  <2>3. Begin(c, r)
    BY <2>1 DEF UpdateByAccountId
  <2> HIDE DEF r
  <2> QED BY <2>2, <2>3, <1>1
<1>5. CASE \E id \in Ids : Remove(c, id)
  <2>1. PICK id \in Ids : Remove(c, id)
    BY <1>5
  <2> DEFINE r == [Idle EXCEPT !.at = "findDoomed", !.id = id]
  <2>2. r \in Request /\ r.at = "findDoomed" /\ Located(r)
    BY IdleHasItsType, IdIsSomething DEF Request, Places, Located, Idle
  <2>3. Begin(c, r)
    BY <2>1 DEF Remove
  <2> HIDE DEF r
  <2> QED BY <2>2, <2>3, <1>1
<1> QED BY <1>2, <1>3, <1>4, <1>5 DEF Accept

(* A creation holds no id yet when it looks for its account.               *)
LEMMA FindAccountKeepsIInv ==
  ASSUME IInv, NEW c \in Clients, FindAccount(c) PROVE IInv'
<1>1. req[c].id = NoId /\ req[c].account # None
  BY DEF FindAccount, IInv, EveryoneLocated, Located
<1>2. \A place \in {"findUsername", "insert"} : Located([req[c] EXCEPT !.at = place])
  BY <1>1, RequestsTyped DEF IInv, Request, Located
<1> QED BY <1>1, <1>2, FinishKeepsIInv, GotoKeepsIInv DEF FindAccount, Outcomes, Places

LEMMA FindUsernameKeepsIInv ==
  ASSUME IInv, NEW c \in Clients, FindUsername(c) PROVE IInv'
<1>1. req[c].account # None /\ (req[c].id = NoId \/ HoldsEntity(c))
  BY DEF FindUsername, HoldsEntity, IInv, EveryoneLocated, Located
<1>2. \A place \in {"insert", "load"} : (place = "load" => req[c].id # NoId) =>
        Located([req[c] EXCEPT !.at = place])
  BY <1>1, RequestsTyped DEF IInv, Request, Located
<1> QED BY <1>1, <1>2, FinishKeepsIInv, GotoKeepsIInv DEF FindUsername, Outcomes, Places

LEMMA FindByAccountIdKeepsIInv ==
  ASSUME IInv, NEW c \in Clients, FindByAccountId(c) PROVE IInv'
<1>1. ASSUME NEW i \in Ids, req' = [req EXCEPT ![c].at = "findOne", ![c].id = i]
      PROVE  IInv'
  <2> DEFINE r == [req[c] EXCEPT !.at = "findOne", !.id = i]
  <2>1. r \in Request /\ r.at = "findOne" /\ Located(r)
    BY RequestsTyped, IdIsSomething DEF IInv, Request, Places, Located
  <2>2. req' = [req EXCEPT ![c] = r]
    BY <1>1, RequestsTyped DEF IInv, Request
  <2> HIDE DEF r
  <2> QED BY <2>1, <2>2, RequestMoves DEF FindByAccountId
<1> QED BY <1>1, FinishKeepsIInv DEF FindByAccountId, Outcomes

LEMMA FindOneKeepsIInv ==
  ASSUME IInv, NEW c \in Clients, FindOne(c) PROVE IInv'
<1> DEFINE row == users[req[c].id]
           place == IF Truthy(UsernameOf(req[c].dto))
                       /\ UsernameOf(req[c].dto) # row.fields["username"]
                    THEN "findUsername" ELSE "load"
           entity == Assigned(row.fields, req[c].dto)
           r == [req[c] EXCEPT !.at = place, !.account = row.account, !.entity = entity]
<1>0. req[c].id # NoId
  BY DEF FindOne, IInv, EveryoneLocated, Located
<1>1. CASE row = None
  BY <1>1, FinishKeepsIInv DEF FindOne, Outcomes
<1>2. CASE row # None
  <2>1. req[c] \in Request /\ req[c].id \in Ids /\ row \in Row
    BY <1>0, <1>2, RequestsTyped DEF IInv, Request
  <2>2. entity \in [Columns -> Values \cup {Undef}]
    BY <2>1, AssignedIsAnEntity DEF Row, Request
  <2>3. place \in {"findUsername", "load"}
    OBVIOUS
  <2>4. req' = [req EXCEPT ![c] = r]
    BY <1>2, <2>1, RequestsTyped DEF FindOne, IInv, Request
  <2> HIDE DEF place, entity
  <2>5. r \in Request /\ Located(r) /\ r.id = req[c].id /\ r.account = row.account
    BY <1>0, <2>1, <2>2, <2>3, AccountIsSomething DEF Request, Row, Located, Places
  <2> HIDE DEF r
  <2> QED BY <1>2, <2>4, <2>5, RequestMoves DEF FindOne
<1> QED BY <1>1, <1>2

LEMMA LoadKeepsIInv ==
  ASSUME IInv, NEW c \in Clients, Load(c) PROVE IInv'
<1> DEFINE changed == {k \in Columns :
                        req[c].entity[k] \notin {Undef, users[req[c].id].fields[k]}}
           r == [req[c] EXCEPT !.at = "update", !.changed = changed]
<1>1. HoldsEntity(c) /\ req[c].id # NoId /\ req[c].account # None
  BY DEF Load, HoldsEntity, IInv, EveryoneLocated, Located
<1>0. Located([req[c] EXCEPT !.at = "insert"])
  BY <1>1, RequestsTyped DEF IInv, Request, Located
<1>2. CASE users[req[c].id] = None
  BY <1>0, <1>1, <1>2, GotoKeepsIInv DEF Load, Places
<1>3. CASE users[req[c].id] # None /\ changed = {}
  BY <1>3, FinishKeepsIInv DEF Load, Outcomes
<1>4. CASE users[req[c].id] # None /\ changed # {}
  <2>1. req' = [req EXCEPT ![c] = r]
    BY <1>4, RequestsTyped DEF Load, IInv, Request
  <2>2. changed \in SUBSET Columns /\ \A k \in changed : req[c].entity[k] # Undef
    OBVIOUS
  <2> HIDE DEF changed
  <2>3. r \in Request /\ Located(r) /\ r.id = req[c].id /\ r.account = req[c].account
    BY <1>1, <2>2, RequestsTyped DEF IInv, Request, Places, Located
  <2> HIDE DEF r
  <2> QED BY <1>1, <2>1, <2>3, RequestMoves DEF Load
<1> QED BY <1>2, <1>3, <1>4

LEMMA FindDoomedKeepsIInv ==
  ASSUME IInv, NEW c \in Clients, FindDoomed(c) PROVE IInv'
<1>1. req[c].id # NoId
  BY DEF FindDoomed, IInv, EveryoneLocated, Located
<1>2. Located([req[c] EXCEPT !.at = "delete"])
  BY <1>1, RequestsTyped DEF IInv, Request, Located
<1> QED BY <1>2, FinishKeepsIInv, GotoKeepsIInv DEF FindDoomed, Outcomes, Places

-----------------------------------------------------------------------------
(* The actions that write the table.                                       *)
LEMMA FinishReleases ==
  ASSUME TypeOK, NEW c \in Clients, NEW outcome, Finish(c, outcome)
  PROVE  /\ ~HoldsEntity(c)'
         /\ \A d \in Clients : d # c => req'[d] = req[d]
  BY DEF Finish, Idle, HoldsEntity, TypeOK

LEMMA FinishKeepsTypes ==
  ASSUME TypeOK, EveryoneLocated, NEW c \in Clients, NEW outcome \in Outcomes,
         Finish(c, outcome)
  PROVE  req' \in [Clients -> Request] /\ EveryoneLocated'
<1> DEFINE r == [Idle EXCEPT !.outcome = outcome]
<1>1. r \in Request /\ Located(r)
  BY IdleHasItsType DEF Request, Idle, Located
<1>2. req' = [req EXCEPT ![c] = r]
  BY DEF Finish
<1> HIDE DEF r
<1> QED BY <1>1, <1>2, RequestsTyped DEF EveryoneLocated

(* An answer while rows change or go, but keep their accounts.             *)
LEMMA RowsKeepAccounts ==
  ASSUME IInv, NEW c \in Clients, NEW outcome \in Outcomes,
         Finish(c, outcome), nextId' = nextId,
         users' \in [Ids -> Row \cup {None}],
         \A i \in Ids : users'[i] # None =>
           users[i] # None /\ users'[i].account = users[i].account
  PROVE  IInv'
<1> USE DEF IInv
<1>1. req' \in [Clients -> Request] /\ EveryoneLocated'
  BY FinishKeepsTypes
<1>2. ~HoldsEntity(c)' /\ \A d \in Clients : d # c => req'[d] = req[d]
  BY FinishReleases
<1>3. \A d \in Clients : HoldsEntity(d)' =>
        /\ HoldsEntity(d) /\ req'[d] = req[d]
        /\ req[d].id \in Ids
  BY <1>2, RequestsTyped DEF HoldsEntity, Request
<1>4. TypeOK'
  BY <1>1, RequestsTyped DEF TypeOK, Request
<1>5. FreshIdsAreUnused'
  BY <1>3 DEF FreshIdsAreUnused
<1>7. IdMeansOneAccount'
  BY <1>3 DEF IdMeansOneAccount
<1> QED BY <1>1, <1>4, <1>5, <1>7

LEMMA WriteUpdateKeepsIInv ==
  ASSUME IInv, NEW c \in Clients, WriteUpdate(c) PROVE IInv'
<1> USE DEF IInv
<1> DEFINE id == req[c].id
<1>0. Finish(c, "ok") /\ nextId' = nextId
  BY DEF WriteUpdate
<1>3. id \in Ids /\ req[c].entity \in [Columns -> Values \cup {Undef}]
  BY RequestsTyped DEF WriteUpdate, EveryoneLocated, Located, Request
<1>4. CASE users[id] = None
  <2>1. users' = users
    BY <1>4 DEF WriteUpdate
  <2> QED BY <1>0, <2>1, RowsKeepAccounts, RequestsTyped DEF Outcomes
<1>5. CASE users[id] # None
  <2> DEFINE row == users[id]
             written == [row EXCEPT !.fields =
               [k \in Columns |-> IF k \in req[c].changed THEN req[c].entity[k]
                                  ELSE row.fields[k]]]
  <2>1. users' = [users EXCEPT ![id] = written]
    BY <1>3, <1>5 DEF WriteUpdate, TypeOK, Row
  <2>2. \A k \in req[c].changed : req[c].entity[k] # Undef
    BY DEF WriteUpdate, EveryoneLocated, Located
  <2>3. row \in Row
    BY <1>3, <1>5, RequestsTyped
  <2>4. written \in Row /\ written.account = row.account
    BY <1>3, <2>2, <2>3 DEF Row
  <2> HIDE DEF written
  <2>5. /\ users' \in [Ids -> Row \cup {None}]
        /\ \A i \in Ids : users'[i] # None =>
             users[i] # None /\ users'[i].account = users[i].account
    BY <1>3, <1>5, <2>1, <2>4, RequestsTyped
  <2> QED BY <1>0, <2>5, RowsKeepAccounts DEF Outcomes
<1> QED BY <1>4, <1>5

LEMMA DeleteKeepsIInv ==
  ASSUME IInv, NEW c \in Clients, Delete(c) PROVE IInv'
<1>1. /\ users' \in [Ids -> Row \cup {None}] /\ nextId' = nextId
      /\ \A i \in Ids : users'[i] # None => users'[i] = users[i]
  BY RequestsTyped DEF Delete, IInv
<1> QED BY <1>1, RowsKeepAccounts DEF Delete, Outcomes

LEMMA WriteInsertKeepsIInv ==
  ASSUME IInv, NEW c \in Clients, WriteInsert(c) PROVE IInv'
<1> USE DEF IInv
<1> DEFINE id == IF req[c].id = NoId THEN nextId ELSE req[c].id
           row == [account |-> req[c].account, fields |-> Inserted(req[c].entity)]
<1>1. CASE ~Insertable(id, req[c].account)
  BY <1>1, FinishKeepsIInv DEF WriteInsert, FreshId, Outcomes
<1>2. CASE Insertable(id, req[c].account)
  <2>1. /\ users' = [users EXCEPT ![id] = row]
        /\ nextId' = IF id = nextId THEN nextId + 1 ELSE nextId
        /\ Finish(c, "ok")
    BY <1>2 DEF WriteInsert, FreshId
  <2>2. req' \in [Clients -> Request] /\ EveryoneLocated'
    BY <2>1, FinishKeepsTypes DEF Outcomes
  <2>3. ~HoldsEntity(c)' /\ \A d \in Clients : d # c => req'[d] = req[d]
    BY <2>1, FinishReleases
  <2>4. \A d \in Clients : HoldsEntity(d)' =>
          HoldsEntity(d) /\ req'[d] = req[d] /\ req[d].id \in Ids
    BY <2>3, RequestsTyped DEF HoldsEntity, Request
  <2>5. row \in Row
    <3>1. req[c].account # None /\ req[c].entity \in [Columns -> Values \cup {Undef}]
          /\ req[c].account \in Accounts \cup {None}
      BY RequestsTyped DEF WriteInsert, EveryoneLocated, Located, Request
    <3> QED BY <3>1, InsertedIsARow DEF Row
  <2> HIDE DEF row
  <2>6. /\ users' \in [Ids -> Row \cup {None}]
        /\ \A i \in Ids : users'[i] = IF i = id THEN row ELSE users[i]
    BY <2>1, <2>5, RequestsTyped
  <2>7. nextId' \in Nat \ {0} /\ nextId <= nextId' /\ id < nextId'
    BY <2>1, RequestsTyped DEF WriteInsert, HoldsEntity, FreshIdsAreUnused
  <2>8. TypeOK'
    BY <2>2, <2>6, <2>7 DEF TypeOK, Request
  <2>9. FreshIdsAreUnused'
    <3>1. \A i \in Ids : users'[i] # None => i < nextId'
      BY <2>6, <2>7, RequestsTyped DEF FreshIdsAreUnused, Ids
    <3>2. \A d \in Clients : HoldsEntity(d)' => req'[d].id < nextId'
      BY <2>4, <2>7, RequestsTyped DEF FreshIdsAreUnused, Ids
    <3> QED BY <3>1, <3>2 DEF FreshIdsAreUnused
  <2>11. IdMeansOneAccount'
    <3>1. row.account = req[c].account
      BY DEF row
    <3>2. \A d \in Clients : HoldsEntity(d)' /\ req[d].id = id => req[d].account = row.account
      <4>1. CASE req[c].id = NoId
        <5>1. id = nextId
          BY <4>1
        <5>2. \A d \in Clients : HoldsEntity(d)' => req[d].id < nextId /\ req[d].id \in Nat
          BY <2>4 DEF FreshIdsAreUnused, Ids
        <5> QED BY <5>1, <5>2, RequestsTyped
      <4>2. CASE req[c].id # NoId
        BY <4>2, <2>4, <3>1 DEF WriteInsert, HoldsEntity, IdMeansOneAccount
      <4> QED BY <4>1, <4>2
    <3> QED BY <2>4, <2>6, <3>2 DEF IdMeansOneAccount
  <2> QED BY <2>2, <2>8, <2>9, <2>11
<1> QED BY <1>1, <1>2

-----------------------------------------------------------------------------
LEMMA InitEstablishesIInv == ASSUME Init PROVE IInv
<1>1. TypeOK
  BY IdleHasItsType, RequestsTyped DEF Init
<1>2. \A c \in Clients : req[c].at = "done" /\ req[c].id = NoId
  BY DEF Init, Idle
<1> QED BY <1>1, <1>2 DEF IInv, Init, EveryoneLocated, Located, HoldsEntity,
           FreshIdsAreUnused, IdMeansOneAccount

LEMMA NextKeepsIInv == ASSUME IInv, [Next]_vars PROVE IInv'
<1>1. ASSUME NEW c \in Clients, Accept(c) PROVE IInv'
  BY <1>1, AcceptKeepsIInv
<1>2. ASSUME NEW c \in Clients, Proceed(c) PROVE IInv'
  BY <1>2, FindAccountKeepsIInv, FindUsernameKeepsIInv, FindByAccountIdKeepsIInv,
     FindOneKeepsIInv, LoadKeepsIInv, WriteUpdateKeepsIInv, WriteInsertKeepsIInv,
     FindDoomedKeepsIInv, DeleteKeepsIInv DEF Proceed
<1>3. ASSUME NEW c \in Clients, DatabaseError(c) PROVE IInv'
  BY <1>3, FinishKeepsIInv DEF DatabaseError, Outcomes
<1>4. CASE UNCHANGED vars
  BY <1>4 DEF vars, IInv, TypeOK, EveryoneLocated, HoldsEntity, FreshIdsAreUnused,
              IdMeansOneAccount
<1> QED BY <1>1, <1>2, <1>3, <1>4 DEF Next

THEOREM Safety == Spec => []IInv
  BY InitEstablishesIInv, NextKeepsIInv, PTL DEF Spec

(* However requests interleave, rows and entities under an id agree on the *)
(* account.                                                                *)
THEOREM IdsAreStable == Spec => []IdMeansOneAccount
<1>1. IInv => IdMeansOneAccount
  BY DEF IInv
<1> QED BY <1>1, Safety, PTL

(* The table and the requests keep their types.                            *)
THEOREM TypeCorrect == Spec => []TypeOK
<1>1. IInv => TypeOK
  BY DEF IInv
<1> QED BY <1>1, Safety, PTL

-----------------------------------------------------------------------------
(* The validation pipe makes of a body an instance that mentions every     *)
(* column, so that an entity being saved is its request's DTO, whatever    *)
(* was loaded before.                                                      *)
DtosMentionAll == \A dto \in Dtos : DOMAIN dto = Columns

SavesItsDto(r) ==
  r.id # NoId /\ r.at \in {"findUsername", "load", "update"} => r.entity = r.dto

EveryoneSavesItsDto == \A c \in Clients : SavesItsDto(req[c])

LEMMA AssignedAll ==
  ASSUME DtosMentionAll, NEW entity, NEW dto \in Dtos \cup {Blank}
  PROVE  Assigned(entity, dto) = dto
<1>1. CASE dto \in Dtos
  <2>1. PICK given \in SUBSET Columns : dto \in [given -> Values \cup {Undef}]
    BY <1>1, ColumnAssumption
  <2>2. DOMAIN dto = Columns
    BY <1>1 DEF DtosMentionAll
  <2> QED BY <2>1, <2>2 DEF Assigned
<1>2. CASE dto = Blank
  BY <1>2 DEF Assigned, Blank
<1> QED BY <1>1, <1>2

LEMMA SavesItsDtoHolds ==
  ASSUME DtosMentionAll, IInv, EveryoneSavesItsDto, [Next]_vars
  PROVE  EveryoneSavesItsDto'
<1>1. \A c \in Clients : req[c] \in Request
  BY RequestsTyped DEF IInv
<1>2. ASSUME NEW c \in Clients, NEW r, req' = [req EXCEPT ![c] = r], SavesItsDto(r)
      PROVE  EveryoneSavesItsDto'
  BY <1>2, RequestsTyped DEF EveryoneSavesItsDto, IInv
<1>3. ASSUME NEW c \in Clients, NEW outcome, Finish(c, outcome) PROVE EveryoneSavesItsDto'
  <2>1. SavesItsDto([Idle EXCEPT !.outcome = outcome])
    BY DEF SavesItsDto, Idle
  <2> QED BY <1>2, <1>3, <2>1 DEF Finish
<1>4. ASSUME NEW c \in Clients, NEW place, Goto(c, place),
             place \in {"findUsername", "load", "update"} => req[c].id = NoId \/ req[c].at \in {"findUsername", "load"}
      PROVE  EveryoneSavesItsDto'
  <2>1. SavesItsDto([req[c] EXCEPT !.at = place])
    BY <1>1, <1>4 DEF SavesItsDto, EveryoneSavesItsDto, Request
  <2> QED BY <1>2, <1>4, <2>1 DEF Goto
<1>5. ASSUME NEW c \in Clients, Accept(c) PROVE EveryoneSavesItsDto'
  <2>1. ASSUME NEW r, r.at \notin {"findUsername", "load", "update"}, Begin(c, r)
        PROVE  EveryoneSavesItsDto'
    BY <1>2, <2>1 DEF Begin, SavesItsDto
  <2> QED BY <1>5, <2>1 DEF Accept, Create, Update, UpdateByAccountId, Remove, Idle
<1>6. ASSUME NEW c \in Clients, FindAccount(c) PROVE EveryoneSavesItsDto'
  <2>1. req[c].id = NoId
    BY <1>6 DEF FindAccount, IInv, EveryoneLocated, Located
  <2> QED BY <1>3, <1>4, <1>6, <2>1 DEF FindAccount
<1>7. ASSUME NEW c \in Clients, FindUsername(c) PROVE EveryoneSavesItsDto'
  BY <1>3, <1>4, <1>7 DEF FindUsername
<1>8. ASSUME NEW c \in Clients, FindByAccountId(c) PROVE EveryoneSavesItsDto'
  <2>1. ASSUME NEW i \in Ids, req' = [req EXCEPT ![c].at = "findOne", ![c].id = i]
        PROVE  EveryoneSavesItsDto'
    <3> DEFINE r == [req[c] EXCEPT !.at = "findOne", !.id = i]
    <3>1. req' = [req EXCEPT ![c] = r]
      BY <1>1, <2>1, RequestsTyped DEF IInv, Request
    <3>2. r.at = "findOne"
      BY <1>1 DEF Request
    <3> HIDE DEF r
    <3> QED BY <1>2, <3>1, <3>2 DEF SavesItsDto
  <2> QED BY <1>3, <1>8, <2>1 DEF FindByAccountId
<1>9. ASSUME NEW c \in Clients, FindOne(c) PROVE EveryoneSavesItsDto'
  <2> DEFINE row == users[req[c].id]
             place == IF Truthy(UsernameOf(req[c].dto))
                         /\ UsernameOf(req[c].dto) # row.fields["username"]
                      THEN "findUsername" ELSE "load"
             entity == Assigned(row.fields, req[c].dto)
             r == [req[c] EXCEPT !.at = place, !.account = row.account, !.entity = entity]
  <2>1. CASE row = None
    BY <1>3, <1>9, <2>1 DEF FindOne
  <2>2. CASE row # None
    <3>1. req' = [req EXCEPT ![c] = r]
      BY <1>1, <1>9, <2>2, RequestsTyped DEF FindOne, IInv, Request
    <3>2. entity = req[c].dto
      BY <1>1, AssignedAll DEF Request
    <3> HIDE DEF place, entity
    <3>3. r.entity = r.dto
      BY <1>1, <3>2 DEF Request
    <3> HIDE DEF r
    <3> QED BY <1>2, <3>1, <3>3 DEF SavesItsDto
  <2> QED BY <2>1, <2>2
<1>10. ASSUME NEW c \in Clients, Load(c) PROVE EveryoneSavesItsDto'
  <2> DEFINE changed == {k \in Columns :
                          req[c].entity[k] \notin {Undef, users[req[c].id].fields[k]}}
             r == [req[c] EXCEPT !.at = "update", !.changed = changed]
  <2>1. ASSUME req' = [req EXCEPT ![c].at = "update", ![c].changed = changed]
        PROVE  EveryoneSavesItsDto'
    <3>1. req' = [req EXCEPT ![c] = r]
      BY <1>1, <2>1, RequestsTyped DEF IInv, Request
    <3>2. SavesItsDto(r)
      BY <1>1, <1>10 DEF SavesItsDto, EveryoneSavesItsDto, Load, Request
    <3> HIDE DEF r
    <3> QED BY <1>2, <3>1, <3>2
  <2> QED BY <1>3, <1>4, <1>10, <2>1 DEF Load
<1>11. ASSUME NEW c \in Clients,
              WriteUpdate(c) \/ WriteInsert(c) \/ Delete(c) \/ DatabaseError(c)
       PROVE  EveryoneSavesItsDto'
  BY <1>3, <1>11 DEF WriteUpdate, WriteInsert, Delete, DatabaseError
<1>12. ASSUME NEW c \in Clients, FindDoomed(c) PROVE EveryoneSavesItsDto'
  BY <1>3, <1>4, <1>12 DEF FindDoomed
<1>13. CASE UNCHANGED vars
  BY <1>13 DEF vars, EveryoneSavesItsDto
<1> QED BY <1>5, <1>6, <1>7, <1>8, <1>9, <1>10, <1>11, <1>12, <1>13 DEF Next, Proceed

(* Requests that overlap do not undo each other: a save changes the        *)
(* columns its request gave, to the values it gave.                        *)
THEOREM SavesUndoNothing ==
  ASSUME DtosMentionAll PROVE Spec => OnlyGivenColumnsChange
<1> DEFINE Given ==
      \A i \in Ids :
        users[i] # None /\ users'[i] # None /\ users'[i] # users[i] =>
          \E c \in Clients :
            /\ req[c].at = "update" /\ req[c].id = i
            /\ \A k \in Columns :
                 users'[i].fields[k] # users[i].fields[k] =>
                   k \in DOMAIN req[c].dto /\ users'[i].fields[k] = req[c].dto[k]
<1>1. Init => EveryoneSavesItsDto
  BY DEF Init, Idle, EveryoneSavesItsDto, SavesItsDto
<1>2. IInv /\ EveryoneSavesItsDto /\ [Next]_vars => EveryoneSavesItsDto'
  BY SavesItsDtoHolds
<1>3. IInv /\ EveryoneSavesItsDto /\ [Next]_vars => [Given]_vars
  <2> SUFFICES ASSUME IInv, EveryoneSavesItsDto, [Next]_vars, NEW i \in Ids,
                      users[i] # None, users'[i] # None, users'[i] # users[i]
               PROVE  \E c \in Clients :
                        /\ req[c].at = "update" /\ req[c].id = i
                        /\ \A k \in Columns :
                             users'[i].fields[k] # users[i].fields[k] =>
                               k \in DOMAIN req[c].dto /\ users'[i].fields[k] = req[c].dto[k]
    OBVIOUS
  <2> USE DEF IInv
  <2>1. users \in [Ids -> Row \cup {None}] /\ \A c \in Clients : req[c] \in Request
    BY RequestsTyped
  <2>2. ASSUME NEW c \in Clients, WriteInsert(c) PROVE FALSE
    BY <2>1, <2>2 DEF WriteInsert, Insertable
  <2>3. ASSUME NEW c \in Clients, Delete(c) PROVE FALSE
    BY <2>1, <2>3 DEF Delete
  <2>4. ASSUME users' = users PROVE FALSE
    BY <2>4
  <2>5. PICK c \in Clients : WriteUpdate(c)
    BY <2>2, <2>3, <2>4 DEF Next, Accept, Proceed, Create, Update, UpdateByAccountId, Remove, Begin,
       FindAccount, FindUsername, FindByAccountId, FindOne, Load, FindDoomed, DatabaseError, vars
  <2> DEFINE id == req[c].id
             fields == [k \in Columns |-> IF k \in req[c].changed THEN req[c].entity[k]
                                          ELSE users[id].fields[k]]
             written == [users[id] EXCEPT !.fields = fields]
  <2>6. req[c].at = "update" /\ id \in Ids /\ req[c].entity = req[c].dto
    BY <2>1, <2>5 DEF WriteUpdate, EveryoneLocated, Located, EveryoneSavesItsDto, SavesItsDto, Request
  <2>7. users[id] # None
    BY <2>5 DEF WriteUpdate
  <2>8. users[id] \in Row
    BY <2>1, <2>6, <2>7
  <2>9. users' = [users EXCEPT ![id] = written]
    BY <2>1, <2>5, <2>6, <2>7, <2>8 DEF WriteUpdate, Row
  <2>10. id = i
    BY <2>1, <2>9
  <2>11. users'[i].fields = fields
    BY <2>1, <2>6, <2>8, <2>9, <2>10 DEF Row
  <2>12. DOMAIN req[c].dto = Columns
    <3>1. req[c].dto \in Dtos \cup {Blank}
      BY <2>1 DEF Request
    <3> QED BY <3>1 DEF DtosMentionAll, Blank
  <2>13. \A k \in Columns :
           users'[i].fields[k] # users[i].fields[k] => users'[i].fields[k] = req[c].dto[k]
    BY <2>6, <2>10, <2>11
  <2> QED BY <2>6, <2>10, <2>12, <2>13
<1>4. OnlyGivenColumnsChange <=> [][Given]_vars
  BY DEF OnlyGivenColumnsChange
<1> QED BY <1>1, <1>2, <1>3, <1>4, Safety, PTL DEF Spec
=============================================================================
