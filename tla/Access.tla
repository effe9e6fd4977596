------------------------------ MODULE Access ------------------------------
(***************************************************************************)
(* Who may do what: administrators (auth.py, cli.py, /setup, /login and    *)
(* flask seed-admin in entrypoint.sh) and the keys of the API              *)
(* (services/api_keys.py and require_api_key of routes/api.py).            *)
(*                                                                         *)
(* A step is one query with what follows it up to the next one, or one     *)
(* commit: two gunicorn workers and a container that starts share nothing  *)
(* but the database.  Usernames, passwords and keys are model values; a    *)
(* hash stands for what it hashes.                                         *)
(***************************************************************************)
EXTENDS Integers, FiniteSets

CONSTANTS
    Workers,        \* processes that answer requests, one at a time
    Names,          \* usernames
    Passwords,
    Keys,           \* API keys that may be issued
    Secrets,        \* values of SECRET_KEY
    AdminName,      \* ADMIN_USERNAME
    AdminPassword,  \* ADMIN_PASSWORD
    None            \* no password, no key, no secret

Seeder == "seed-admin"
Procs == Workers \cup {Seeder}

ASSUME AdminAssumption == AdminName \in Names /\ AdminPassword \in Passwords
ASSUME NoneAssumption == None \notin Names \cup Passwords \cup Keys \cup Secrets
ASSUME WorkersAssumption == IsFiniteSet(Workers) /\ Seeder \notin Workers

VARIABLES
    users,          \* users: the password of each username, None if there is none
    keys,           \* api_keys: the row of each key
    secret,         \* SECRET_KEY of the running processes
    cookies,        \* session cookies: a username and the secret that signs it
    pc,             \* where each process is in its request
    arg,            \* the key its request carries
    late,           \* the key had been revoked when the request came in
    firsts          \* usernames that /setup has created

work == <<pc, arg, late>>
vars == <<users, keys, secret, cookies, work, firsts>>

----------------------------------------------------------------------------
(* A row of api_keys.  sealed: the secret key_secret was sealed with.  A   *)
(* key that was not issued has no row.                                     *)
KeyRow == [issued : BOOLEAN, active : BOOLEAN, sealed : Secrets \cup {None},
           used : BOOLEAN]
NoRow == [issued |-> FALSE, active |-> FALSE, sealed |-> None, used |-> FALSE]

Exists(n) == users[n] # None

(* user_count() *)
NoUsers == \A n \in Names : ~Exists(n)

(* Flask-Login: the cookie is signed with the secret of the process, and   *)
(* load_user finds its user.                                               *)
Valid(cookie) == cookie[2] = secret /\ Exists(cookie[1])
LoggedIn == \E cookie \in cookies : Valid(cookie)

Revoked(k) == keys[k].issued /\ ~keys[k].active

Init ==
    /\ users = [n \in Names |-> None]
    /\ keys = [k \in Keys |-> NoRow]
    /\ secret \in Secrets
    /\ cookies = {}
    /\ pc = [p \in Procs |-> IF p = Seeder THEN "start" ELSE "idle"]
    /\ arg = [p \in Procs |-> None]
    /\ late = [p \in Procs |-> FALSE]
    /\ firsts = {}

Goto(p, here, there) == pc[p] = here /\ pc' = [pc EXCEPT ![p] = there]

----------------------------------------------------------------------------
(* POST /setup: the count, then the form is checked, then the insert.  The *)
(* unique key refuses a username that was taken in between (a 500).        *)
SetupCount_Unchecked(w) ==              \* mutant: only GET looks at the count
    /\ Goto(w, "idle", "setup")
    /\ UNCHANGED <<users, keys, secret, cookies, arg, late, firsts>>
SetupCount(w) ==
    /\ NoUsers
    /\ Goto(w, "idle", "setup")
    /\ UNCHANGED <<users, keys, secret, cookies, arg, late, firsts>>

SetupInsert(w, n, password) ==
    /\ Goto(w, "setup", "idle")
    /\ IF Exists(n)
       THEN UNCHANGED <<users, firsts>>
       ELSE users' = [users EXCEPT ![n] = password] /\ firsts' = firsts \cup {n}
    /\ UNCHANGED <<keys, secret, cookies, arg, late>>

Login(w, n, password) ==
    /\ pc[w] = "idle"
    /\ Exists(n) /\ users[n] = password
    /\ cookies' = cookies \cup {<<n, secret>>}
    /\ UNCHANGED <<users, keys, secret, work, firsts>>

Logout(c) ==
    /\ c \in cookies /\ Valid(c)
    /\ cookies' = cookies \ {c}
    /\ UNCHANGED <<users, keys, secret, work, firsts>>

(* seed_admin_user, run by entrypoint.sh and, maybe with --force-password, *)
(* by hand.                                                                *)
Forced == pc[Seeder] = "forced"

SeedLook_Always ==                      \* mutant: the password is set at every start
    /\ IF Exists(AdminName)
       THEN /\ users' = [users EXCEPT ![AdminName] = AdminPassword]
            /\ Goto(Seeder, pc[Seeder], "idle")
       ELSE Goto(Seeder, pc[Seeder], "insert") /\ UNCHANGED users
    /\ pc[Seeder] \in {"start", "forced"}
    /\ UNCHANGED <<keys, secret, cookies, arg, late, firsts>>
SeedLook ==
    /\ IF Exists(AdminName)
       THEN /\ users' = IF Forced THEN [users EXCEPT ![AdminName] = AdminPassword] ELSE users
            /\ Goto(Seeder, pc[Seeder], "idle")
       ELSE Goto(Seeder, pc[Seeder], "insert") /\ UNCHANGED users
    /\ pc[Seeder] \in {"start", "forced"}
    /\ UNCHANGED <<keys, secret, cookies, arg, late, firsts>>

(* The insert fails if the username was taken since; entrypoint.sh goes on. *)
SeedInsert ==
    /\ Goto(Seeder, "insert", "idle")
    /\ users' = IF Exists(AdminName) THEN users
                ELSE [users EXCEPT ![AdminName] = AdminPassword]
    /\ UNCHANGED <<keys, secret, cookies, arg, late, firsts>>

----------------------------------------------------------------------------
(* create_api_key *)
Create(k) ==
    /\ LoggedIn /\ ~keys[k].issued
    /\ keys' = [keys EXCEPT ![k] = [issued |-> TRUE, active |-> TRUE,
                                    sealed |-> secret, used |-> FALSE]]
    /\ UNCHANGED <<users, secret, cookies, work, firsts>>

(* revoke_api_key: a second one finds nothing to change. *)
Revoke(k) ==
    /\ LoggedIn /\ keys[k].issued
    /\ keys' = [keys EXCEPT ![k] = [@ EXCEPT !.active = FALSE, !.sealed = None]]
    /\ UNCHANGED <<users, secret, cookies, work, firsts>>

(* A request of the API comes in; one without a key is answered 401. *)
Request(w, k) ==
    /\ Goto(w, "idle", "asked")
    /\ arg' = [arg EXCEPT ![w] = k]
    /\ late' = [late EXCEPT ![w] = Revoked(k)]
    /\ UNCHANGED <<users, keys, secret, cookies, firsts>>

(* verify_api_key: the SELECT, which may answer 401, ... *)
Lookup_AnyKey(w) ==                     \* mutant: is_active is not asked for
    LET row == keys[arg[w]]
    IN  /\ Goto(w, "asked", IF row.issued THEN "found" ELSE "idle")
        /\ UNCHANGED <<users, keys, secret, cookies, arg, late, firsts>>
Lookup(w) ==
    LET row == keys[arg[w]]
    IN  /\ Goto(w, "asked", IF row.issued /\ row.active THEN "found" ELSE "idle")
        /\ UNCHANGED <<users, keys, secret, cookies, arg, late, firsts>>

(* ... then the UPDATE, which writes last_used_at alone, and the answer.   *)
Accept_WholeRow(w) ==                   \* mutant: the row is written as it was read
    /\ Goto(w, "found", "idle")
    /\ keys' = [keys EXCEPT ![arg[w]].used = TRUE, ![arg[w]].active = TRUE]
    /\ UNCHANGED <<users, secret, cookies, arg, late, firsts>>
Accept(w) ==
    /\ Goto(w, "found", "idle")
    /\ keys' = [keys EXCEPT ![arg[w]].used = TRUE]
    /\ UNCHANGED <<users, secret, cookies, arg, late, firsts>>

----------------------------------------------------------------------------
(* The container is started again, maybe with another SECRET_KEY. *)
Restart(s) ==
    /\ pc' = [p \in Procs |-> IF p = Seeder THEN "start" ELSE "idle"]
    /\ secret' = s
    /\ UNCHANGED <<users, keys, cookies, arg, late, firsts>>

SeedByHand(forced) ==
    /\ Goto(Seeder, "idle", IF forced THEN "forced" ELSE "start")
    /\ UNCHANGED <<users, keys, secret, cookies, arg, late, firsts>>

Seed == SeedLook \/ SeedInsert

Admin ==
    \/ \E w \in Workers, n \in Names, password \in Passwords :
            SetupInsert(w, n, password) \/ Login(w, n, password)
    \/ \E w \in Workers : SetupCount(w)
    \/ \E c \in cookies : Logout(c)
    \/ \E k \in Keys : Create(k) \/ Revoke(k)

Api == \E w \in Workers : Lookup(w) \/ Accept(w) \/ \E k \in Keys : Request(w, k)

Next ==
    \/ Seed \/ Admin \/ Api
    \/ \E forced \in BOOLEAN : SeedByHand(forced)
    \/ \E s \in Secrets : Restart(s)

Spec == Init /\ [][Next]_vars

----------------------------------------------------------------------------
TypeOK ==
    /\ users \in [Names -> Passwords \cup {None}]
    /\ keys \in [Keys -> KeyRow]
    /\ secret \in Secrets
    /\ cookies \subseteq Names \X Secrets
    /\ pc \in [Procs -> {"idle", "start", "forced", "insert", "setup", "asked", "found"}]
    /\ arg \in [Procs -> Keys \cup {None}]
    /\ late \in [Procs -> BOOLEAN]
    /\ firsts \subseteq Names
    /\ \A w \in Workers : pc[w] \in {"asked", "found"} => arg[w] \in Keys

(* Requests to /setup that race create no more first administrators than   *)
(* there are workers, and /setup is closed once one of them is done.       *)
FirstAdminsBounded == Cardinality(firsts) <= Cardinality(Workers)

(* The answer 401 of a revoked key (openapi.py): a request that comes in   *)
(* after the key was revoked does not get past verify_api_key.             *)
RevokedKeyRefused == \A w \in Workers : pc[w] = "found" => ~late[w]

(* A revoked key stays revoked and its secret forgotten, whatever a        *)
(* request that had found it active writes afterwards.                     *)
RevokedIsFinal ==
    [][\A k \in Keys : Revoked(k) => Revoked(k)' /\ keys'[k].sealed = None]_vars

(* seed_admin_user changes the password of an administrator only when      *)
(* forced to, also when it races with /setup.                              *)
PasswordKept ==
    [][\A n \in Names : Exists(n) /\ users'[n] # users[n] => Forced]_users
=============================================================================
