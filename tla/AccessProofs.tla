---------------------------- MODULE AccessProofs ----------------------------
(***************************************************************************)
(* The safety properties of Access, for any finite set of workers, any     *)
(* users, passwords, keys and secrets.                                     *)
(***************************************************************************)
EXTENDS Access, FiniteSetTheorems, TLAPS

(* Workers that have seen that there is no user and will create one. *)
Setting == {w \in Workers : pc[w] = "setup"}

(* Once a first administrator exists no worker begins another setup, so    *)
(* each of them was created by a worker that had begun before.             *)
FirstsCounted ==
    /\ \A n \in firsts : Exists(n)
    /\ IsFiniteSet(firsts)
    /\ Cardinality(firsts) + Cardinality(Setting) <= Cardinality(Workers)

(* A key that is known as revoked is one, and a request that found its key *)
(* after it came in late would have to find it active again.               *)
Known ==
    /\ \A k \in Keys : ~keys[k].issued => ~keys[k].active
    /\ \A k \in Keys : Revoked(k) => keys[k].sealed = None
    /\ \A w \in Workers : pc[w] \in {"asked", "found"} /\ late[w] => Revoked(arg[w])
    /\ \A w \in Workers : pc[w] = "found" => keys[arg[w]].issued

(* Each process is in a request of its own kind. *)
Placed ==
    /\ pc[Seeder] \in {"idle", "start", "forced", "insert"}
    /\ \A w \in Workers : pc[w] \in {"idle", "setup", "asked", "found"}

AccessInv == TypeOK /\ Placed /\ Known /\ RevokedKeyRefused /\ FirstsCounted

----------------------------------------------------------------------------
(* At first no worker has seen the empty users table. *)
LEMMA InvInit == Init => AccessInv
<1> SUFFICES ASSUME Init PROVE AccessInv
  OBVIOUS
<1>1. TypeOK /\ Placed
  BY WorkersAssumption, NoneAssumption DEF Init, TypeOK, Placed, Procs, Seeder, KeyRow, NoRow
<1>2. Known /\ RevokedKeyRefused
  BY WorkersAssumption DEF Init, Known, RevokedKeyRefused, Procs, Seeder, NoRow, Revoked
<1>3. FirstsCounted
  <2>1. Setting = {}
    BY WorkersAssumption DEF Init, Setting, Procs, Seeder
  <2>2. firsts = {}
    BY DEF Init
  <2> QED
    BY <2>1, <2>2, FS_EmptySet, FS_CardinalityType, WorkersAssumption DEF FirstsCounted
<1> QED
  BY <1>1, <1>2, <1>3 DEF AccessInv

(* Every step keeps the types and the places of the processes. *)
LEMMA TypeNext == TypeOK /\ Placed /\ [Next]_vars => TypeOK' /\ Placed'
<1> SUFFICES ASSUME TypeOK, Placed, [Next]_vars PROVE TypeOK' /\ Placed'
  OBVIOUS
<1> USE WorkersAssumption, NoneAssumption, AdminAssumption
      DEF TypeOK, Placed, Procs, Seeder, KeyRow, Exists, Goto, work
<1>1. CASE \E w \in Workers : SetupCount(w)
  BY <1>1 DEF SetupCount
<1>2. CASE \E w \in Workers, n \in Names, password \in Passwords : SetupInsert(w, n, password)
  BY <1>2 DEF SetupInsert
<1>3. CASE \E w \in Workers, n \in Names, password \in Passwords : Login(w, n, password)
  BY <1>3 DEF Login
<1>4. CASE \E c \in cookies : Logout(c)
  BY <1>4 DEF Logout
<1>5. CASE SeedLook
  BY <1>5 DEF SeedLook
<1>6. CASE SeedInsert
  BY <1>6 DEF SeedInsert
<1>7. CASE \E k \in Keys : Create(k)
  BY <1>7 DEF Create
<1>8. CASE \E k \in Keys : Revoke(k)
  <2>1. PICK k \in Keys : Revoke(k)
    BY <1>8
  <2>2. keys' \in [Keys -> KeyRow]
    <3>1. keys[k] \in KeyRow
      OBVIOUS
    <3>2. [keys[k] EXCEPT !.active = FALSE, !.sealed = None] \in KeyRow
      BY <3>1
    <3> QED
      BY <2>1, <3>2 DEF Revoke
  <2>3. UNCHANGED <<users, secret, cookies, pc, arg, late, firsts>>
    BY <2>1 DEF Revoke
  <2> QED
    BY <2>2, <2>3
<1>9. CASE \E w \in Workers, k \in Keys : Request(w, k)
  <2>1. PICK w \in Workers, k \in Keys : Request(w, k)
    BY <1>9
  <2>2. late' \in [Procs -> BOOLEAN]
    <3>1. Revoked(k) \in BOOLEAN
      BY DEF Revoked
    <3>2. late' = [late EXCEPT ![w] = Revoked(k)]
      BY <2>1 DEF Request
    <3> QED
      BY <3>1, <3>2
  <2>3. pc' = [pc EXCEPT ![w] = "asked"] /\ arg' = [arg EXCEPT ![w] = k]
        /\ UNCHANGED <<users, keys, secret, cookies, firsts>>
    BY <2>1 DEF Request
  <2> QED
    BY <2>2, <2>3
<1>10. CASE \E w \in Workers : Lookup(w)
  BY <1>10 DEF Lookup
<1>11. CASE \E w \in Workers : Accept(w)
  <2>1. PICK w \in Workers : Accept(w)
    BY <1>11
  <2>2. arg[w] \in Keys
    BY <2>1 DEF Accept
  <2>3. keys' \in [Keys -> KeyRow]
    BY <2>1, <2>2 DEF Accept
  <2> QED
    BY <2>1, <2>3 DEF Accept
<1>12. CASE \E forced \in BOOLEAN : SeedByHand(forced)
  BY <1>12 DEF SeedByHand
<1>13. CASE \E s \in Secrets : Restart(s)
  BY <1>13 DEF Restart
<1>14. CASE UNCHANGED vars
  BY <1>14 DEF vars
<1> QED
  BY <1>1, <1>2, <1>3, <1>4, <1>5, <1>6, <1>7,
     <1>8, <1>9, <1>10, <1>11, <1>12, <1>13, <1>14
     DEF Next, Seed, Admin, Api

(* Every step keeps what a revoked key and its requests look like, and no  *)
(* late request gets past verify_api_key.                                  *)
LEMMA KnownNext ==
    TypeOK /\ Placed /\ Known /\ RevokedKeyRefused /\ [Next]_vars => Known' /\ RevokedKeyRefused'
<1> SUFFICES ASSUME TypeOK, Placed, Known, RevokedKeyRefused, [Next]_vars
             PROVE  Known' /\ RevokedKeyRefused'
  OBVIOUS
<1> USE WorkersAssumption, NoneAssumption
      DEF TypeOK, Placed, Known, RevokedKeyRefused, Revoked, Procs, Seeder, KeyRow, Goto, work
<1>1. CASE \E w \in Workers : SetupCount(w)
  BY <1>1 DEF SetupCount
<1>2. CASE \E w \in Workers, n \in Names, password \in Passwords : SetupInsert(w, n, password)
  BY <1>2 DEF SetupInsert
<1>3. CASE \E w \in Workers, n \in Names, password \in Passwords : Login(w, n, password)
  BY <1>3 DEF Login
<1>4. CASE \E c \in cookies : Logout(c)
  BY <1>4 DEF Logout
<1>5. CASE SeedLook
  BY <1>5 DEF SeedLook
<1>6. CASE SeedInsert
  BY <1>6 DEF SeedInsert
<1>7. CASE \E k \in Keys : Create(k)
  BY <1>7 DEF Create
<1>8. CASE \E k \in Keys : Revoke(k)
  BY <1>8 DEF Revoke
<1>9. CASE \E w \in Workers, k \in Keys : Request(w, k)
  <2>1. PICK w \in Workers, k \in Keys : Request(w, k)
    BY <1>9
  <2>2. /\ pc' = [pc EXCEPT ![w] = "asked"] /\ arg' = [arg EXCEPT ![w] = k]
        /\ UNCHANGED <<users, keys, secret, cookies, firsts>>
    BY <2>1 DEF Request
  <2>3. late'[w] = Revoked(k) /\ \A v \in Workers \ {w} : late'[v] = late[v]
    BY <2>1 DEF Request
  <2> QED
    BY <2>2, <2>3
<1>10. CASE \E w \in Workers : Lookup(w)
  BY <1>10 DEF Lookup
<1>11. CASE \E w \in Workers : Accept(w)
  BY <1>11 DEF Accept
<1>12. CASE \E forced \in BOOLEAN : SeedByHand(forced)
  BY <1>12 DEF SeedByHand
<1>13. CASE \E s \in Secrets : Restart(s)
  BY <1>13 DEF Restart
<1>14. CASE UNCHANGED vars
  BY <1>14 DEF vars
<1> QED
  BY <1>1, <1>2, <1>3, <1>4, <1>5, <1>6, <1>7,
     <1>8, <1>9, <1>10, <1>11, <1>12, <1>13, <1>14
     DEF Next, Seed, Admin, Api

(* Only POST /setup changes the two sets. *)
LEMMA FirstsNext ==
    TypeOK /\ Placed /\ FirstsCounted /\ [Next]_vars => FirstsCounted'
<1> SUFFICES ASSUME TypeOK, Placed, FirstsCounted, [Next]_vars PROVE FirstsCounted'
  OBVIOUS
<1>a. IsFiniteSet(Setting) /\ IsFiniteSet(Setting')
  BY WorkersAssumption, FS_Subset DEF Setting
<1>b. /\ Cardinality(Setting) \in Nat /\ Cardinality(Setting') \in Nat
      /\ Cardinality(firsts) \in Nat /\ Cardinality(Workers) \in Nat
  BY <1>a, WorkersAssumption, FS_CardinalityType DEF FirstsCounted
<1>c. ASSUME Setting' \subseteq Setting, firsts' = firsts,
             \A n \in Names : Exists(n) => Exists(n)'
      PROVE  FirstsCounted'
  <2>1. Cardinality(Setting') <= Cardinality(Setting)
    BY <1>a, <1>c, FS_Subset
  <2> QED
    BY <1>b, <1>c, <2>1 DEF FirstsCounted, TypeOK
<1> USE WorkersAssumption, NoneAssumption, AdminAssumption
      DEF TypeOK, Placed, Procs, Seeder, KeyRow, Exists, Goto, work
<1>1. CASE \E w \in Workers : SetupCount(w)
  <2>1. firsts = {} /\ firsts' = {}
    BY <1>1 DEF SetupCount, NoUsers, FirstsCounted
  <2>2. Cardinality(Setting') <= Cardinality(Workers)
    BY FS_Subset DEF Setting
  <2> QED
    BY <1>b, <2>1, <2>2, FS_EmptySet DEF FirstsCounted
<1>2. CASE \E w \in Workers, n \in Names, password \in Passwords : SetupInsert(w, n, password)
  <2>1. PICK w \in Workers, n \in Names, password \in Passwords : SetupInsert(w, n, password)
    BY <1>2
  <2>2. CASE Exists(n)
    BY <1>c, <2>1, <2>2 DEF SetupInsert, Setting
  <2>3. CASE ~Exists(n)
    <3>1. firsts' = firsts \cup {n} /\ users' = [users EXCEPT ![n] = password]
      BY <2>1, <2>3 DEF SetupInsert
    <3>2. w \in Setting /\ Setting' = Setting \ {w}
      BY <2>1 DEF SetupInsert, Setting
    <3>3. Cardinality(Setting') = Cardinality(Setting) - 1
      BY <1>a, <3>2, FS_RemoveElement
    <3>4. /\ IsFiniteSet(firsts')
          /\ Cardinality(firsts') <= Cardinality(firsts) + 1
      <4>1. IsFiniteSet(firsts)
        BY DEF FirstsCounted
      <4>2. /\ IsFiniteSet(firsts \cup {n})
            /\ \/ Cardinality(firsts \cup {n}) = Cardinality(firsts)
               \/ Cardinality(firsts \cup {n}) = Cardinality(firsts) + 1
        BY <4>1, FS_AddElement
      <4> QED
        BY <3>1, <1>b, <4>2
    <3>5. \A m \in firsts' : Exists(m)'
      BY <3>1 DEF FirstsCounted
    <3>6. Cardinality(firsts') \in Nat
      BY <3>4, FS_CardinalityType
    <3> QED
      BY <1>b, <3>3, <3>4, <3>5, <3>6 DEF FirstsCounted
  <2> QED
    BY <2>2, <2>3
<1>3. CASE \E w \in Workers, n \in Names, password \in Passwords : Login(w, n, password)
  BY <1>3, <1>c DEF Login, Setting
<1>4. CASE \E c \in cookies : Logout(c)
  BY <1>4, <1>c DEF Logout, Setting
<1>5. CASE SeedLook
  BY <1>5, <1>c DEF SeedLook, Setting
<1>6. CASE SeedInsert
  BY <1>6, <1>c DEF SeedInsert, Setting
<1>7. CASE \E k \in Keys : Create(k)
  BY <1>7, <1>c DEF Create, Setting
<1>8. CASE \E k \in Keys : Revoke(k)
  BY <1>8, <1>c DEF Revoke, Setting
<1>9. CASE \E w \in Workers, k \in Keys : Request(w, k)
  BY <1>9, <1>c DEF Request, Setting
<1>10. CASE \E w \in Workers : Lookup(w)
  BY <1>10, <1>c DEF Lookup, Setting
<1>11. CASE \E w \in Workers : Accept(w)
  BY <1>11, <1>c DEF Accept, Setting
<1>12. CASE \E forced \in BOOLEAN : SeedByHand(forced)
  BY <1>12, <1>c DEF SeedByHand, Setting
<1>13. CASE \E s \in Secrets : Restart(s)
  BY <1>13, <1>c DEF Restart, Setting
<1>14. CASE UNCHANGED vars
  BY <1>14, <1>c DEF vars, Setting
<1> QED
  BY <1>1, <1>2, <1>3, <1>4, <1>5, <1>6, <1>7,
     <1>8, <1>9, <1>10, <1>11, <1>12, <1>13, <1>14
     DEF Next, Seed, Admin, Api

----------------------------------------------------------------------------
(* The inductive invariant: each worker that will create a first           *)
(* administrator is counted before it does, and a request that came in     *)
(* late carries a key that is revoked.                                     *)
THEOREM AccessInvariant == Spec => []AccessInv
<1>1. Init => AccessInv
  BY InvInit
<1>2. AccessInv /\ [Next]_vars => AccessInv'
  BY TypeNext, KnownNext, FirstsNext DEF AccessInv
<1> QED
  BY <1>1, <1>2, PTL DEF Spec

(* The rows of users and api_keys and the processes keep their types; a    *)
(* worker in verify_api_key carries a key.                                 *)
THEOREM TypeCorrect == Spec => []TypeOK
<1>1. AccessInv => TypeOK
  BY DEF AccessInv
<1> QED
  BY <1>1, AccessInvariant, PTL

(* However many workers serve /setup, and however often they are started   *)
(* over, they create no more first administrators than they are.           *)
THEOREM FirstsBounded == Spec => []FirstAdminsBounded
<1>1. AccessInv => FirstAdminsBounded
  <2> SUFFICES ASSUME FirstsCounted PROVE FirstAdminsBounded
    BY DEF AccessInv
  <2>1. IsFiniteSet(Setting)
    BY WorkersAssumption, FS_Subset DEF Setting
  <2>2. /\ Cardinality(Setting) \in Nat /\ Cardinality(firsts) \in Nat
        /\ Cardinality(Workers) \in Nat
    BY <2>1, WorkersAssumption, FS_CardinalityType DEF FirstsCounted
  <2> QED
    BY <2>2 DEF FirstsCounted, FirstAdminsBounded
<1> QED
  BY <1>1, AccessInvariant, PTL

(* verify_api_key answers 401 to every request that came in after its key  *)
(* was revoked.                                                            *)
THEOREM RevokedRefused == Spec => []RevokedKeyRefused
<1>1. AccessInv => RevokedKeyRefused
  BY DEF AccessInv
<1> QED
  BY <1>1, AccessInvariant, PTL

(* No step makes a revoked key active or gives it a secret again, not even *)
(* the commit of last_used_at by a request that had found it active.       *)
THEOREM RevokedFinal == Spec => RevokedIsFinal
<1>1. AccessInv /\ [Next]_vars =>
        [\A k \in Keys : Revoked(k) => Revoked(k)' /\ keys'[k].sealed = None]_vars
  <2> SUFFICES ASSUME TypeOK, Known, [Next]_vars, NEW k \in Keys, Revoked(k)
               PROVE  Revoked(k)' /\ keys'[k].sealed = None
    BY DEF AccessInv
  <2> USE NoneAssumption DEF TypeOK, Known, Revoked, KeyRow
  <2>1. CASE \E j \in Keys : Create(j)
    BY <2>1 DEF Create
  <2>2. CASE \E j \in Keys : Revoke(j)
    BY <2>2 DEF Revoke
  <2>3. CASE \E w \in Workers : Accept(w)
    <3>1. PICK w \in Workers : Accept(w)
      BY <2>3
    <3>2. keys' = [keys EXCEPT ![arg[w]].used = TRUE]
      BY <3>1 DEF Accept
    <3> QED
      BY <3>2
  <2>4. CASE keys' = keys
    BY <2>4
  <2> QED
    BY <2>1, <2>2, <2>3, <2>4
       DEF Next, Seed, Admin, Api, SetupCount, SetupInsert, Login, Logout, SeedLook,
           SeedInsert, Request, Lookup, SeedByHand, Restart, vars
<1> QED
  BY <1>1, AccessInvariant, PTL DEF Spec, RevokedIsFinal

(* An administrator's password is written over only by flask seed-admin    *)
(* --force-password; a seed that raced with /setup keeps what /setup set.  *)
THEOREM KeepsPassword == Spec => PasswordKept
<1>1. AccessInv /\ [Next]_vars =>
        [\A n \in Names : Exists(n) /\ users'[n] # users[n] => Forced]_users
  <2> SUFFICES ASSUME TypeOK, [Next]_vars, NEW n \in Names, Exists(n), users'[n] # users[n]
               PROVE  Forced
    BY DEF AccessInv
  <2> USE DEF TypeOK, Exists, Forced
  <2>1. CASE \E w \in Workers, m \in Names, password \in Passwords : SetupInsert(w, m, password)
    BY <2>1 DEF SetupInsert
  <2>2. CASE SeedLook
    BY <2>2 DEF SeedLook
  <2>3. CASE SeedInsert
    BY <2>3 DEF SeedInsert
  <2>4. CASE users' = users
    BY <2>4
  <2> QED
    BY <2>1, <2>2, <2>3, <2>4
       DEF Next, Seed, Admin, Api, SetupCount, Login, Logout, Create, Revoke,
           Request, Lookup, Accept, SeedByHand, Restart, vars
<1> QED
  BY <1>1, AccessInvariant, PTL DEF Spec, PasswordKept
=============================================================================
