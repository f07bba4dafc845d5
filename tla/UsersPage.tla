------------------------------ MODULE UsersPage ------------------------------
(***************************************************************************)
(* The users page: a list fetched when the page opens and after each       *)
(* creation, and a form that creates users over HTTP.  Other clients       *)
(* create users too.                                                       *)
(***************************************************************************)
EXTENDS FiniteSets

CONSTANTS Accounts,  \* accountIds
          None       \* null, or nothing

VARIABLES
  server,      \* the accounts that have a row
  users,       \* the list shown
  loading,     \* "Loading..." is shown instead
  error,       \* the message shown, or None
  submitting,  \* the button is disabled
  post,        \* the POST in flight, or None
  gets         \* the GETs in flight: of the first fetch, of a submission's

vars == <<server, users, loading, error, submitting, post, gets>>

(* A message is known by the request that failed.                          *)
Errors == {"failed to fetch", "failed to create", None}
Fetchers == {"mount", "submit"}

(* A GET the server has not answered yet, and one it has not been sent.    *)
Sent == [at |-> "sent", rows |-> {}]
NotSent == [at |-> "idle", rows |-> {}]

Init ==
  /\ server \in SUBSET Accounts
  /\ users = {} /\ loading = TRUE /\ error = None /\ submitting = FALSE
  /\ post = None
  /\ gets = [mount |-> Sent, submit |-> NotSent]

-----------------------------------------------------------------------------
(* Another client creates a user.                                          *)
Others(a) ==
  /\ a \notin server
  /\ server' = server \cup {a}
  /\ UNCHANGED <<users, loading, error, submitting, post, gets>>

(* handleSubmit.                                                           *)
Submit(a) ==
  /\ ~submitting
  /\ submitting' = TRUE /\ error' = None
  /\ post' = [account |-> a, at |-> "sent"]
  /\ UNCHANGED <<server, users, loading, gets>>

(* The server creates the user unless there is one.                        *)
ServerPosts ==
  /\ post # None /\ post.at = "sent"
  /\ post' = [post EXCEPT !.at = IF post.account \in server THEN "refused" ELSE "created"]
  /\ server' = server \cup {post.account}
  /\ UNCHANGED <<users, loading, error, submitting, gets>>

(* Mutant: the browser's cache answers.                                    *)
RefetchedFromCache == [gets EXCEPT !["submit"] = [at |-> "read", rows |-> users]]

Refetched == [gets EXCEPT !["submit"] = Sent]

(* The list is fetched again before the button is enabled.                 *)
PostSucceeds ==
  /\ post # None /\ post.at = "created"
  /\ post' = None
  /\ gets' = Refetched
  /\ loading' = TRUE
  /\ UNCHANGED <<server, users, error, submitting>>

(* Mutant: without `finally` the button stays disabled.                    *)
LeftSubmitting == submitting

AfterFailure == FALSE

(* The server refuses, or the request or its answer is lost.               *)
PostFails ==
  /\ post # None
  /\ post' = None
  /\ error' = "failed to create"
  /\ submitting' = AfterFailure
  /\ UNCHANGED <<server, users, loading, gets>>

ServerReads(f) ==
  /\ gets[f].at = "sent"
  /\ gets' = [gets EXCEPT ![f] = [at |-> "read", rows |-> server]]
  /\ UNCHANGED <<server, users, loading, error, submitting, post>>

(* fetchUsers has ended; for a submission it was the last step.            *)
FetchEnds(f) ==
  /\ gets' = [gets EXCEPT ![f] = NotSent]
  /\ loading' = FALSE
  /\ submitting' = (f # "submit" /\ submitting)
  /\ UNCHANGED <<server, post>>

FetchSucceeds(f) ==
  /\ gets[f].at = "read"
  /\ users' = gets[f].rows /\ error' = None
  /\ FetchEnds(f)

FetchMessage == "failed to fetch"

FetchFails(f) ==
  /\ gets[f].at # "idle"
  /\ error' = FetchMessage
  /\ FetchEnds(f)
  /\ UNCHANGED users

Next ==
  \/ \E a \in Accounts : Others(a) \/ Submit(a)
  \/ ServerPosts \/ PostSucceeds \/ PostFails
  \/ \E f \in Fetchers : ServerReads(f) \/ FetchSucceeds(f) \/ FetchFails(f)

Spec == Init /\ [][Next]_vars

(* Requests end, well or not.                                              *)
Fairness ==
  /\ WF_vars(ServerPosts \/ PostSucceeds \/ PostFails)
  /\ \A f \in Fetchers : WF_vars(ServerReads(f) \/ FetchSucceeds(f) \/ FetchFails(f))

FairSpec == Spec /\ Fairness

-----------------------------------------------------------------------------
TypeOK ==
  /\ server \in SUBSET Accounts /\ users \in SUBSET Accounts
  /\ loading \in BOOLEAN /\ error \in Errors /\ submitting \in BOOLEAN
  /\ post = None \/ post \in [account: Accounts, at: {"sent", "created", "refused"}]
  /\ gets \in [Fetchers -> [at: {"idle", "sent", "read"}, rows: SUBSET Accounts]]

(* A user created once the first fetch is over is listed, and stays        *)
(* listed, unless an error is shown: no later answer is older than that.   *)
(* (Before, the answer to the first fetch may come last and hide it.)      *)
CreatedUsersAreListed ==
  \A a \in Accounts :
    [](gets["mount"].at = "idle" /\ post = [account |-> a, at |-> "created"]
         => <>(error # None) \/ <>[](a \in users))

(* The form comes back, however its request and its fetch end.             *)
SubmissionsEnd == submitting ~> ~submitting
=============================================================================
