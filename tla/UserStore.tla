------------------------------ MODULE UserStore ------------------------------
(***************************************************************************)
(* The users (auth/user_store.py) and the requests of administrators that  *)
(* add a user or set a user's product scopes (routers/admin.py), which run *)
(* on worker threads.  Each loads the whole list and writes it back.       *)
(*                                                                         *)
(* Passwords, roles and second factors are left out: no request changes    *)
(* those of a user that exists.                                            *)
(***************************************************************************)
EXTENDS Naturals, Sequences, RewrittenFile

CONSTANTS
  Emails,  \* addresses that may be given to new users
  Root,    \* the address of the administrator the deployment begins with
  Scopes,  \* values of product_scopes
  All,     \* product_scopes of one who may see every product
  Workers, \* the worker threads
  MaxUsers \* bound: users that are made

ASSUME ScopesAssumption == All \in Scopes
ASSUME MaxUsersAssumption == MaxUsers \in Nat

VARIABLES
  users,    \* the list in the file, or Torn
  handler,  \* per thread, the request it serves, and the list it will write
  issued,   \* ids given to users so far
  answered, \* (history) per id, the user as last answered to an administrator
  fought    \* (history) ids answered while another request held an older list

usersVars == <<users, handler, issued, answered, fought>>

Resting == [at |-> "idle", list |-> <<>>, id |-> 0]
User(email, id, scopes) == [email |-> email, id |-> id, scopes |-> scopes]

UsersInit ==
  /\ users = <<User(Root, 0, All)>>
  /\ handler = [w \in Workers |-> Resting]
  /\ issued = 0
  /\ answered = [i \in {0} |-> users[1]]
  /\ fought = {}

Entries(list) == {list[i] : i \in DOMAIN list}

\* The request has loaded the list and will write this one.
Serves(w, list, id) == handler' = [handler EXCEPT ![w] = [at |-> "open", list |-> list, id |-> id]]

(* POST /admin/users: add_user, up to its load and its look for the address. *)
AddUser(w, email, scopes) ==
  /\ handler[w].at = "idle" /\ users # Torn
  /\ issued < MaxUsers
  /\ \A u \in Entries(users) : u.email # email
  /\ issued' = issued + 1
  /\ Serves(w, Append(users, User(email, issued + 1, scopes)), issued + 1)
  /\ UNCHANGED <<users, answered, fought>>

\* Mutant: only the users that were looked for are written back.
RescopedAlone(list, id, scopes) ==
  LET found == SelectSeq(list, LAMBDA u : u.id = id) IN
    [i \in DOMAIN found |-> [found[i] EXCEPT !.scopes = scopes]]

Rescoped(list, id, scopes) ==
  [i \in DOMAIN list |-> IF list[i].id = id THEN [list[i] EXCEPT !.scopes = scopes] ELSE list[i]]

(* PUT /admin/users/{id}/scopes: update_user_scopes, up to its load. *)
UpdateScopes(w, id, scopes) ==
  /\ handler[w].at = "idle" /\ users # Torn
  /\ \E u \in Entries(users) : u.id = id
  /\ Serves(w, Rescoped(users, id, scopes), id)
  /\ UNCHANGED <<users, issued, answered, fought>>

(* 409, 404, or an error of load_users on a torn file, which every request meets
   that asks who its user is: nothing changes. *)
Refuse(w) ==
  /\ handler[w].at = "idle"
  /\ users = Torn \/ issued > 0
  /\ UNCHANGED usersVars

(* save_users: the file is truncated ... *)
Truncate(w) ==
  /\ handler[w].at = "open"
  /\ users' = Torn
  /\ handler' = [handler EXCEPT ![w].at = "write"]
  /\ UNCHANGED <<issued, answered, fought>>

\* Requests of other threads that have loaded a list and not yet written.
Others(w) == {v \in Workers \ {w} : handler[v].at # "idle"}

(* ... and written, and the request is answered. *)
Save(w) ==
  /\ handler[w].at = "write"
  /\ users' \in Written(users, handler[w].list)
  /\ LET id == handler[w].id
         mine == CHOOSE u \in Entries(handler[w].list) : u.id = id IN
       /\ answered' = [i \in DOMAIN answered \union {id} |-> IF i = id THEN mine ELSE answered[i]]
       /\ fought' = IF Others(w) = {} THEN fought ELSE fought \union {id}
  /\ handler' = [handler EXCEPT ![w] = Resting]
  /\ UNCHANGED issued

(* The request ends with an error, or the server with it. *)
Abandon(w) ==
  /\ handler[w].at # "idle"
  /\ handler' = [handler EXCEPT ![w] = Resting]
  /\ UNCHANGED <<users, issued, answered, fought>>

UsersNext ==
  \E w \in Workers :
    \/ \E email \in Emails, scopes \in Scopes : AddUser(w, email, scopes)
    \/ \E id \in 0..issued, scopes \in Scopes : UpdateScopes(w, id, scopes)
    \/ Refuse(w)
    \/ Truncate(w)
    \/ Save(w)
    \/ Abandon(w)

UsersSpec == UsersInit /\ [][UsersNext]_usersVars

-----------------------------------------------------------------------------
UserRecord == [email : Emails \union {Root}, id : Nat, scopes : Scopes]

(* The types of the variables. *)
UsersTypeOK ==
  /\ users = Torn \/ users \in Seq(UserRecord)
  /\ handler \in [Workers -> [at : {"idle", "open", "write"}, list : Seq(UserRecord), id : Nat]]
  /\ issued \in 0..MaxUsers
  /\ answered \in [DOMAIN answered -> UserRecord]
  /\ fought \subseteq DOMAIN answered /\ DOMAIN answered \subseteq Nat

(* A file that can be read holds one user per address, even if two requests that
   add the same one have both found it free, and every user as it was last answered
   to an administrator, unless another request held an older list at that moment. *)
UsersAreKept ==
  users # Torn =>
    /\ \A i, j \in DOMAIN users : users[i].email = users[j].email => i = j
    /\ \A id \in DOMAIN answered \ fought : answered[id] \in Entries(users)
=============================================================================
