----------------------------- MODULE MCWebPages -----------------------------
(* The two pages of the web application, one of which a tab opens from the *)
(* links of the home page.  The other one is not mounted: nothing happens  *)
(* to its state, which for the users page means that nothing is fetched.   *)
EXTENDS WalletPage

VARIABLES open, server, users, loading, error, submitting, post, gets

U == INSTANCE UsersPage

usersVars == <<server, users, loading, error, submitting, post, gets>>

UsersNotMounted ==
  /\ server = {} /\ users = {} /\ loading = FALSE /\ error = None /\ submitting = FALSE
  /\ post = None
  /\ gets = [fetcher \in U!Fetchers |-> U!NotSent]

PagesInit ==
  /\ Init
  /\ \/ open = "userprofile" /\ UsersNotMounted
     \/ open = "users" /\ U!Init

PagesNext ==
  /\ UNCHANGED open
  /\ \/ open = "userprofile" /\ Next /\ UNCHANGED usersVars
     \/ open = "users" /\ U!Next /\ UNCHANGED vars

(* What is fair of a page is not enabled while it is not mounted.          *)
PagesSpec ==
  PagesInit /\ [][PagesNext]_<<open, usersVars, vars>> /\ Fairness /\ U!Fairness

(* The types of both hold whichever page is open.                          *)
PagesTypeOK == TypeOK /\ U!TypeOK

(* What UsersPage states of a user created: listed, and for good.          *)
CreatedUsersAreListed == U!CreatedUsersAreListed

(* The form comes back, as UsersPage states it.                            *)
SubmissionsEnd == U!SubmissionsEnd
=============================================================================
