---------------------------- MODULE UsersService ----------------------------
(***************************************************************************)
(* The API's users table and UsersService: the requests in flight, each    *)
(* suspended at an await, and the rows they read and write in between.     *)
(* One action per database access; what a method computes between two      *)
(* accesses belongs to the first of them.                                  *)
(*                                                                         *)
(* A DTO is a function from the columns it mentions.  A column it mentions *)
(* may still be Undef (JavaScript's undefined): Object.assign copies that, *)
(* and TypeORM's save leaves an undefined column alone.                    *)
(***************************************************************************)
EXTENDS Naturals, FiniteSets

CONSTANTS
  Clients,    \* requests that can be in flight together
  Accounts,   \* values of the unique column accountId
  Columns,    \* the other columns; "username" is one of them
  Values,     \* what a column can hold, Null included
  Default,    \* Default[k]: what column k holds when an INSERT omits it
  Falsy,      \* the values JavaScript takes for false: Null and ""
  Undef,      \* undefined
  None,       \* no row
  Dtos,       \* the DTOs explored
  MaxRows     \* bound: rows ever inserted with a fresh id

Ids == 1 .. MaxRows
NoId == 0

ASSUME ColumnAssumption ==
  /\ "username" \in Columns
  /\ Default \in [Columns -> Values]
  /\ Falsy \subseteq Values
  /\ Undef \notin Values
  /\ MaxRows \in Nat
  /\ \A dto \in Dtos : \E given \in SUBSET Columns : dto \in [given -> Values \cup {Undef}]

Row == [account: Accounts, fields: [Columns -> Values]]

ASSUME RowAssumption == None \notin Row \cup Accounts

VARIABLES
  users,   \* users[i]: the row with id i, or None
  nextId,  \* the id the next fresh row gets (a uuid in the code)
  req      \* req[c]: what client c's request is doing

vars == <<users, nextId, req>>

Places == {"done", "findAccount", "findUsername", "insert", "findByAccountId",
           "findOne", "load", "update", "findDoomed", "delete"}
Outcomes == {"none", "ok", "conflict", "notFound", "dbError"}

Blank == [k \in Columns |-> Undef]

Idle == [at |-> "done", id |-> NoId, account |-> None, dto |-> Blank,
         entity |-> Blank, changed |-> {}, outcome |-> "none"]

Init ==
  /\ users = [i \in Ids |-> None]
  /\ nextId = 1
  /\ req = [c \in Clients |-> Idle]

-----------------------------------------------------------------------------
AccountTaken(account) == \E i \in Ids : users[i] # None /\ users[i].account = account
(* Mutant: the name is not looked up.                                      *)
UsernameNotChecked(name) == FALSE
UsernameTaken(name) ==
  \E i \in Ids : users[i] # None /\ users[i].fields["username"] = name

UsernameOf(dto) == IF "username" \in DOMAIN dto THEN dto["username"] ELSE Undef
Truthy(v) == v \notin Falsy \cup {Undef}

(* Mutant: undefined does not overwrite what was loaded.                   *)
AssignedDefined(entity, dto) ==
  [k \in Columns |-> IF k \in DOMAIN dto /\ dto[k] # Undef THEN dto[k] ELSE entity[k]]

(* Object.assign(entity, dto).                                             *)
Assigned(entity, dto) ==
  [k \in Columns |-> IF k \in DOMAIN dto THEN dto[k] ELSE entity[k]]

(* A request starts at its first await.                                    *)
Begin(c, request) ==
  /\ req[c].at = "done"
  /\ req' = [req EXCEPT ![c] = request]
  /\ UNCHANGED <<users, nextId>>

(* A request goes on to its next await, or is answered.                    *)
Goto(c, place) == req' = [req EXCEPT ![c].at = place]
Finish(c, outcome) == req' = [req EXCEPT ![c] = [Idle EXCEPT !.outcome = outcome]]

Create(c, account, dto) ==
  Begin(c, [Idle EXCEPT !.at = "findAccount", !.account = account, !.dto = dto,
                        !.entity = Assigned(Blank, dto)])

Update(c, id, dto) == Begin(c, [Idle EXCEPT !.at = "findOne", !.id = id, !.dto = dto])

UpdateByAccountId(c, account, dto) ==
  Begin(c, [Idle EXCEPT !.at = "findByAccountId", !.account = account, !.dto = dto])

Remove(c, id) == Begin(c, [Idle EXCEPT !.at = "findDoomed", !.id = id])

-----------------------------------------------------------------------------
(* create: is the account known?                                           *)
FindAccount(c) ==
  /\ req[c].at = "findAccount"
  /\ IF AccountTaken(req[c].account) THEN Finish(c, "conflict")
     ELSE Goto(c, IF Truthy(UsernameOf(req[c].dto)) THEN "findUsername" ELSE "insert")
  /\ UNCHANGED <<users, nextId>>

(* create and update: is the name taken?                                   *)
FindUsername(c) ==
  /\ req[c].at = "findUsername"
  /\ IF UsernameTaken(UsernameOf(req[c].dto)) THEN Finish(c, "conflict")
     ELSE Goto(c, IF req[c].id = NoId THEN "insert" ELSE "load")
  /\ UNCHANGED <<users, nextId>>

(* updateByAccountId: which row is the account's?                          *)
FindByAccountId(c) ==
  /\ req[c].at = "findByAccountId"
  /\ \/ \E i \in Ids :
          /\ users[i] # None /\ users[i].account = req[c].account
          /\ req' = [req EXCEPT ![c].at = "findOne", ![c].id = i]
     \/ ~AccountTaken(req[c].account) /\ Finish(c, "notFound")
  /\ UNCHANGED <<users, nextId>>

(* update: load the entity and assign the DTO to it.                       *)
FindOne(c) ==
  LET row == users[req[c].id]
      dto == req[c].dto
  IN  /\ req[c].at = "findOne"
      /\ IF row = None THEN Finish(c, "notFound")
         ELSE req' = [req EXCEPT
                ![c].at = IF Truthy(UsernameOf(dto))
                               /\ UsernameOf(dto) # row.fields["username"]
                          THEN "findUsername" ELSE "load",
                ![c].account = row.account,
                ![c].entity = Assigned(row.fields, dto)]
      /\ UNCHANGED <<users, nextId>>

(* save of a loaded entity: TypeORM selects the row again and will update  *)
(* the defined columns that differ from it, or insert a row that is gone.  *)
Load(c) ==
  LET row     == users[req[c].id]
      entity  == req[c].entity
      changed == {k \in Columns : entity[k] \notin {Undef, row.fields[k]}}
  IN  /\ req[c].at = "load"
      /\ IF row = None THEN Goto(c, "insert")
         ELSE IF changed = {} THEN Finish(c, "ok")
         ELSE req' = [req EXCEPT ![c].at = "update", ![c].changed = changed]
      /\ UNCHANGED <<users, nextId>>

(* UPDATE .. WHERE id: no error when the row has gone.                     *)
WriteUpdate(c) ==
  LET id == req[c].id
  IN  /\ req[c].at = "update"
      /\ users' = IF users[id] = None THEN users ELSE
           [users EXCEPT ![id].fields =
              [k \in Columns |-> IF k \in req[c].changed THEN req[c].entity[k] ELSE @[k]]]
      /\ Finish(c, "ok")
      /\ UNCHANGED nextId

(* Mutant: an id freed by a deletion is given out again.                   *)
ReusedId == CHOOSE i \in Ids : users[i] = None /\ \A j \in Ids : j < i => users[j] # None

(* A fresh uuid.                                                           *)
FreshId == nextId

(* Mutant: an omitted column does not get its default.                     *)
InsertedAsIs(entity) == entity

(* The columns an INSERT stores.                                           *)
Inserted(entity) ==
  [k \in Columns |-> IF entity[k] = Undef THEN Default[k] ELSE entity[k]]

(* The constraints of an INSERT: the primary key and the unique accountId. *)
Insertable(id, account) == users[id] = None /\ ~AccountTaken(account)

(* INSERT, under the id of the entity when it has one.                     *)
WriteInsert(c) ==
  LET id == IF req[c].id = NoId THEN FreshId ELSE req[c].id
  IN  /\ req[c].at = "insert"
      /\ IF Insertable(id, req[c].account)
         THEN /\ users' = [users EXCEPT ![id] =
                   [account |-> req[c].account, fields |-> Inserted(req[c].entity)]]
              /\ nextId' = IF id = nextId THEN nextId + 1 ELSE nextId
              /\ Finish(c, "ok")
         ELSE Finish(c, "dbError") /\ UNCHANGED <<users, nextId>>

FindDoomed(c) ==
  /\ req[c].at = "findDoomed"
  /\ IF users[req[c].id] = None THEN Finish(c, "notFound") ELSE Goto(c, "delete")
  /\ UNCHANGED <<users, nextId>>

Delete(c) ==
  /\ req[c].at = "delete"
  /\ users' = [users EXCEPT ![req[c].id] = None]
  /\ Finish(c, "ok")
  /\ UNCHANGED nextId

(* The database does not answer.                                           *)
DatabaseError(c) ==
  /\ req[c].at # "done"
  /\ Finish(c, "dbError")
  /\ UNCHANGED <<users, nextId>>

Proceed(c) ==
  \/ FindAccount(c) \/ FindUsername(c) \/ FindByAccountId(c) \/ FindOne(c)
  \/ Load(c) \/ WriteUpdate(c) \/ WriteInsert(c) \/ FindDoomed(c) \/ Delete(c)

-----------------------------------------------------------------------------
(* The ids left, once the creations in flight have theirs.                 *)
Creating == {c \in Clients : req[c].at \in {"findAccount", "findUsername", "insert"}
                              /\ req[c].id = NoId}
HasRoom == nextId + Cardinality(Creating) <= MaxRows

(* UsersController passes each request on.                                 *)
Accept(c) ==
  \/ \E account \in Accounts, dto \in Dtos : HasRoom /\ Create(c, account, dto)
  \/ \E id \in Ids, dto \in Dtos : Update(c, id, dto)
  \/ \E account \in Accounts, dto \in Dtos : UpdateByAccountId(c, account, dto)
  \/ \E id \in Ids : Remove(c, id)

Next == \E c \in Clients : Accept(c) \/ Proceed(c) \/ DatabaseError(c)

Spec == Init /\ [][Next]_vars

-----------------------------------------------------------------------------
TypeOK ==
  /\ users \in [Ids -> Row \cup {None}]
  /\ nextId \in Nat \ {0}
  /\ req \in [Clients ->
       [at: Places, id: Ids \cup {NoId}, account: Accounts \cup {None},
        dto: Dtos \cup {Blank}, entity: [Columns -> Values \cup {Undef}],
        changed: SUBSET Columns, outcome: Outcomes]]

(* Requests that hold an entity: from here on they only save it.           *)
HoldsEntity(c) == req[c].id # NoId /\ req[c].at \in {"findUsername", "load", "update", "insert"}

(* An id means one account: a row, and every entity some request still     *)
(* intends to save under the same id, agree on it, deletions and           *)
(* re-creations in between notwithstanding.                                *)
IdMeansOneAccount ==
  \A c \in Clients : HoldsEntity(c) =>
    /\ users[req[c].id] # None => users[req[c].id].account = req[c].account
    /\ \A d \in Clients : HoldsEntity(d) /\ req[d].id = req[c].id =>
         req[d].account = req[c].account

(* Two requests that set different columns of a row do not undo each       *)
(* other: what a save changes in a row are columns the request gave, to    *)
(* the values it gave, however old the entity it saves.                    *)
OnlyGivenColumnsChange ==
  [][\A i \in Ids :
       users[i] # None /\ users'[i] # None /\ users'[i] # users[i] =>
         \E c \in Clients :
           /\ req[c].at = "update" /\ req[c].id = i
           /\ \A k \in Columns :
                users'[i].fields[k] # users[i].fields[k] =>
                  k \in DOMAIN req[c].dto /\ users'[i].fields[k] = req[c].dto[k]]_vars

(* "Check username uniqueness": no two rows bear the same name.            *)
UsernamesUnique ==
  \A i, j \in Ids :
    /\ users[i] # None /\ users[j] # None
    /\ users[i].fields["username"] = users[j].fields["username"]
    /\ Truthy(users[i].fields["username"])
    => i = j
=============================================================================
