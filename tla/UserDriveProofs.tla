--------------------------- MODULE UserDriveProofs ---------------------------
(* Safety of the users and the drives, for any users, drives, limit and bounds. *)
EXTENDS UserDrive, SequenceTheorems, FiniteSetTheorems, WellFoundedInduction, TLAPS

-----------------------------------------------------------------------------
(* A store takes its queue.                                                *)

\* A set of numbers has a smallest one.
LEMMA Least ==
  ASSUME NEW K \in SUBSET Nat, K # {}
  PROVE  \E m \in K : \A l \in K : m <= l
<1> DEFINE R == {p \in Nat \X Nat : p[1] < p[2]}
<1>1. IsWellFoundedOn(R, Nat)
  BY NatLessThanWellFounded DEF OpToRel
<1>2. PICK m \in K : \A l \in K : ~(<<l, m>> \in R)
  BY <1>1, WFMin
<1>3. ASSUME NEW l \in K PROVE m <= l
  <2>1. ~(l < m)
    BY <1>2
  <2> QED BY <2>1
<1> QED BY <1>3

\* What holds of the store at rest and is kept by every job holds when all are taken.
LEMMA ServeInduction ==
  ASSUME NEW queue, Len(queue) \in Nat, NEW S, NEW P, Rested(S) \in P[0],
         \A i \in 1 .. Len(queue) : \A T \in P[i - 1] : Take(T, queue[i]) \in P[i]
  PROVE  Serve(S, queue) \in P[Len(queue)]
<1> DEFINE Runs(f, k) == f = [i \in 0 .. k |-> IF i = 0 THEN Rested(S)
                                               ELSE Take(f[i - 1], queue[i])]
<1>1. \E f : Runs(f, 0)
  <2>1. Runs([i \in 0 .. 0 |-> Rested(S)], 0)
    OBVIOUS
  <2> QED BY <2>1
<1>2. ASSUME NEW k \in Nat, NEW f, Runs(f, k) PROVE \E g : Runs(g, k + 1)
  <2> DEFINE g == [i \in 0 .. k + 1 |-> IF i <= k THEN f[i] ELSE Take(f[k], queue[k + 1])]
  <2>1. ASSUME NEW i \in 0 .. k + 1
        PROVE  g[i] = IF i = 0 THEN Rested(S) ELSE Take(g[i - 1], queue[i])
    <3>1. CASE i <= k
      <4>1. g[i] = f[i] /\ i \in 0 .. k /\ (i # 0 => g[i - 1] = f[i - 1])
        BY <3>1
      <4>2. f[i] = IF i = 0 THEN Rested(S) ELSE Take(f[i - 1], queue[i])
        BY <1>2, <4>1
      <4> QED BY <4>1, <4>2
    <3>2. CASE ~(i <= k)
      <4>1. i = k + 1 /\ i # 0 /\ i - 1 = k /\ g[k] = f[k]
        BY <3>2
      <4> QED BY <3>2, <4>1
    <3> QED BY <3>1, <3>2
  <2>2. g = [i \in 0 .. k + 1 |-> g[i]]
    OBVIOUS
  <2> HIDE DEF g
  <2>3. Runs(g, k + 1)
    BY <2>1, <2>2
  <2> QED BY <2>3
<1> HIDE DEF Runs
<1>3. \A k \in Nat : \E f : Runs(f, k)
  <2> DEFINE K == {k \in Nat : ~\E f : Runs(f, k)}
  <2> SUFFICES ASSUME K # {} PROVE FALSE
    OBVIOUS
  <2>1. PICK m \in K : \A l \in K : m <= l
    BY Least
  <2>2. m # 0 /\ m \in Nat
    BY <1>1
  <2>3. m - 1 \in Nat /\ m - 1 \notin K /\ m = (m - 1) + 1
    BY <2>1, <2>2
  <2>4. PICK f : Runs(f, m - 1)
    BY <2>3
  <2>5. \E g : Runs(g, m)
    BY <1>2, <2>3, <2>4
  <2> QED BY <2>5
<1>4. PICK T : Runs(T, Len(queue)) /\ Serve(S, queue) = T[Len(queue)]
  <2> DEFINE T == CHOOSE T : Runs(T, Len(queue))
  <2>1. Runs(T, Len(queue))
    BY <1>3
  <2>2. Serve(S, queue) = T[Len(queue)]
    BY DEF Serve, Runs
  <2> QED BY <2>1, <2>2
<1>5. \A i \in 0 .. Len(queue) : T[i] \in P[i]
  <2> DEFINE K == {k \in 0 .. Len(queue) : T[k] \notin P[k]}
  <2> SUFFICES ASSUME K # {} PROVE FALSE
    OBVIOUS
  <2>0. K \in SUBSET Nat
    OBVIOUS
  <2>1. PICK m \in K : \A l \in K : m <= l
    BY <2>0, Least
  <2>2. T[0] = Rested(S) /\ \A i \in 1 .. Len(queue) : T[i] = Take(T[i - 1], queue[i])
    BY <1>4 DEF Runs
  <2>3. m \in 1 .. Len(queue) /\ m - 1 \in 0 .. Len(queue) /\ m - 1 \notin K
    BY <2>1, <2>2
  <2>4. T[m - 1] \in P[m - 1]
    BY <2>3
  <2> QED BY <2>2, <2>3, <2>4
<1> QED BY <1>4, <1>5

-----------------------------------------------------------------------------
(* The jobs of the stores.                                                 *)

\* A user job saves only what is accepted, and what it changes without saving it has
\* marked the store.
LEMMA UserJobIs ==
  ASSUME NEW U \in [Users -> Status], NEW job \in UserJobs
  PROVE  /\ Perform(job, U).data \in [Users -> Status]
         /\ Perform(job, U).staged \in [Users -> Status]
         /\ Perform(job, U).saves \in BOOLEAN /\ Perform(job, U).stained \in BOOLEAN
         /\ Perform(job, U).saves => ~TooMany(Perform(job, U).staged)
         /\ ~Perform(job, U).saves /\ ~Perform(job, U).stained => Perform(job, U).data = U
<1>1. Perform(job, U) = UserJob(job, U)
  BY DEF Perform, UserJobs
<1>2. CASE job.kind = "bind"
  <2> DEFINE V == IF U[Admin] = "none" THEN [Nobody EXCEPT ![Admin] = "ACTIVE"] ELSE U
  <2>1. Perform(job, U) = Result(U, V, Accepts(U, V), FALSE)
    BY <1>1, <1>2 DEF UserJob
  <2>2. V \in [Users -> Status]
    BY UsersAssumption DEF Nobody, Status
  <2> HIDE DEF V
  <2>3. Accepts(U, V) \in BOOLEAN /\ (Accepts(U, V) => ~TooMany(V))
    BY DEF Accepts, TooMany
  <2> QED BY <2>1, <2>2, <2>3 DEF Result
<1>3. CASE job.kind = "delete"
  <2> DEFINE V == [U EXCEPT ![job.user] = "DELETED"]
             ok == U[job.user] \notin {"none", "DELETED"} /\ Accepts(U, V)
  <2>1. Perform(job, U) = Result(U, V, ok, FALSE)
    BY <1>1, <1>3 DEF UserJob
  <2>2. V \in [Users -> Status] /\ (ok => ~TooMany(V)) /\ ok \in BOOLEAN
    BY DEF Status, Accepts, TooMany
  <2> HIDE DEF V, ok
  <2> QED BY <2>1, <2>2 DEF Result
<1>4. CASE job.kind = "cloud"
  <2> DEFINE V == Merge(U, job.say)
             W == [u \in Users |-> IF U[u] = "none" THEN "none" ELSE V[u]]
  <2>1. Perform(job, U) = Result(W, V, Accepts(U, V), W # U /\ ~Accepts(U, V))
    BY <1>1, <1>4 DEF UserJob
  <2>2. V \in [Users -> Status]
    BY <1>4 DEF Merge, UserJobs
  <2>3. W \in [Users -> Status]
    BY <2>2 DEF Status
  <2> HIDE DEF V, W
  <2>4. PICK ok \in BOOLEAN : (ok <=> Accepts(U, V)) /\ (ok => ~TooMany(V))
    BY DEF Accepts
  <2>5. PICK stain \in BOOLEAN : stain <=> W # U /\ ~ok
    OBVIOUS
  <2>6. Accepts(U, V) = ok
    BY <2>4 DEF Accepts, TooMany
  <2>7. (W # U /\ ~Accepts(U, V)) = stain
    BY <2>5, <2>6
  <2>8. Perform(job, U) = Result(W, V, ok, stain)
    BY <2>1, <2>6, <2>7
  <2> QED BY <2>2, <2>3, <2>4, <2>5, <2>8 DEF Result
<1> QED BY <1>2, <1>3, <1>4 DEF UserJobs

\* Another drive leaves a user whose home is not made with the homes there were.
LEMMA AddIs ==
  ASSUME NEW S \in Tables, NEW kind \in {"home", "built-in", "backup"}, NEW u \in Users
  PROVE  /\ Add(S, kind, u) \in Tables
         /\ \A d \in Drives : \/ Add(S, kind, u)[d] = S[d]
                              \/ /\ d = Free(S) /\ Add(S, kind, u)[d].kind = kind
                                 /\ Add(S, kind, u)[d].owner = u
  BY DEF Add, Tables

LEMMA AddsOneEach ==
  ASSUME NEW S \in Tables, OneEach(S), NEW kind \in {"home", "built-in", "backup"},
         NEW u \in Users, kind = "home" => HomeOf(S, u) = {},
         kind = "built-in" => Of(S, "built-in") = {}
  PROVE  OneEach(Add(S, kind, u))
<1> DEFINE T == Add(S, kind, u)
<1>1. \A d \in Drives : T[d] = S[d] \/ (d = Free(S) /\ T[d].kind = kind /\ T[d].owner = u)
  BY AddIs
<1> HIDE DEF T
<1>2. \A d, e \in Of(T, "built-in") : d = e
  BY <1>1 DEF OneEach, Of
<1>3. ASSUME NEW w \in Users, NEW d \in HomeOf(T, w), NEW e \in HomeOf(T, w) PROVE d = e
  BY <1>1, <1>3 DEF OneEach, HomeOf, Of
<1> QED BY <1>2, <1>3 DEF OneEach, T

\* Nobody but the one it is for gets a drive to keep by it.
LEMMA AddKeeps ==
  ASSUME NEW S \in Tables, NEW kind \in {"home", "built-in", "backup"}, NEW u \in Users,
         NEW w \in Users, Kept(S, w) = {}, w # u \/ kind = "built-in"
  PROVE  Kept(Add(S, kind, u), w) = {}
  BY AddIs DEF Kept, Of

LEMMA DriveJobIs ==
  ASSUME NEW S \in Tables, OneEach(S), NEW job \in DriveJobs
  PROVE  /\ Perform(job, S).data = S /\ Perform(job, S).staged \in Tables
         /\ OneEach(Perform(job, S).staged)
         /\ Perform(job, S).saves \in BOOLEAN /\ Perform(job, S).stained = FALSE
         /\ \A u \in Users :
              /\ Clears(job, u) => Perform(job, S).saves /\ Kept(Perform(job, S).staged, u) = {}
              /\ Kept(S, u) = {} /\ ~Makes(job, u) => Kept(Perform(job, S).staged, u) = {}
<1>1. Perform(job, S) = DriveJob(job, S)
  BY DEF Perform, DriveJobs
<1>2. CASE job.kind = "list"
  <2> DEFINE m == Missing(S, job)
             T == IF m.home THEN Add(S, "home", job.user) ELSE S
             W == IF m.builtin THEN Add(T, "built-in", Admin) ELSE T
  <2>1. Perform(job, S) = Result(S, W, m.home \/ m.builtin, FALSE)
    BY <1>1, <1>2 DEF DriveJob, Furnish
  <2>2. job.user \in Users /\ Admin \in Users
    BY <1>2, UsersAssumption DEF DriveJobs
  <2>3. /\ m.home = (HomeOf(S, job.user) = {}) /\ m.builtin = (Of(S, "built-in") = {})
        /\ m.home \in BOOLEAN /\ m.builtin \in BOOLEAN
    BY DEF Missing
  <2>4. T \in Tables /\ OneEach(T) /\ (m.builtin => Of(T, "built-in") = {})
    <3>1. \A d \in Drives : T[d] = S[d] \/ T[d].kind = "home"
      BY <2>2, AddIs
    <3>2. T \in Tables /\ OneEach(T)
      BY <2>2, <2>3, AddIs, AddsOneEach
    <3> QED BY <2>3, <3>1, <3>2 DEF Of
  <2>5. \A u \in Users : Kept(S, u) = {} /\ u # job.user => Kept(T, u) = {}
    BY <2>2, AddKeeps
  <2> HIDE DEF T
  <2>6. W \in Tables /\ OneEach(W)
    BY <2>2, <2>4, AddIs, AddsOneEach
  <2>7. \A u \in Users : Kept(T, u) = {} => Kept(W, u) = {}
    BY <2>2, <2>4, AddKeeps
  <2> HIDE DEF W, m
  <2> QED BY <1>2, <2>1, <2>3, <2>5, <2>6, <2>7 DEF Result, Makes, Clears
<1>3. CASE job.kind = "backup"
  <2>1. Perform(job, S) = Result(S, Add(S, "backup", job.user), TRUE, FALSE)
    BY <1>1, <1>3 DEF DriveJob
  <2>2. job.user \in Users
    BY <1>3 DEF DriveJobs
  <2>3. Add(S, "backup", job.user) \in Tables /\ OneEach(Add(S, "backup", job.user))
    BY <2>2, AddIs, AddsOneEach
  <2>4. \A u \in Users : Kept(S, u) = {} /\ u # job.user => Kept(Add(S, "backup", job.user), u) = {}
    BY <2>2, AddKeeps
  <2> QED BY <1>3, <2>1, <2>3, <2>4 DEF Result, Makes, Clears
<1>4. CASE job.kind = "unbackup"
  <2> DEFINE d == S[job.drive]
             T == [S EXCEPT ![job.drive].deleted = TRUE]
  <2>1. PICK ok \in BOOLEAN : Perform(job, S) = Result(S, T, ok, FALSE)
    BY <1>1, <1>4 DEF DriveJob
  <2>2. /\ T \in Tables
        /\ \A e \in Drives : /\ T[e].kind = S[e].kind /\ T[e].owner = S[e].owner
                             /\ ~T[e].deleted => ~S[e].deleted
    BY DEF Tables
  <2> HIDE DEF T
  <2>3. OneEach(T) /\ \A u \in Users : Kept(S, u) = {} => Kept(T, u) = {}
    BY <2>2 DEF OneEach, HomeOf, Of, Kept
  <2> QED BY <1>4, <2>1, <2>2, <2>3 DEF Result, Clears
<1>5. CASE job.kind = "clean"
  <2> DEFINE T == [d \in Drives |-> IF S[d].kind \in {"home", "backup"} /\ S[d].owner \in job.users
                                    THEN [S[d] EXCEPT !.deleted = TRUE] ELSE S[d]]
  <2>1. Perform(job, S) = Result(S, T, TRUE, FALSE)
    BY <1>1, <1>5 DEF DriveJob
  <2>2. /\ T \in Tables
        /\ \A e \in Drives : /\ T[e].kind = S[e].kind /\ T[e].owner = S[e].owner
                             /\ ~T[e].deleted => ~S[e].deleted
                             /\ S[e].kind \in {"home", "backup"} /\ S[e].owner \in job.users => T[e].deleted
    BY DEF Tables
  <2> HIDE DEF T
  <2>3. OneEach(T) /\ \A u \in Users : Kept(S, u) = {} \/ u \in job.users => Kept(T, u) = {}
    BY <2>2 DEF OneEach, HomeOf, Of, Kept
  <2> QED BY <1>5, <2>1, <2>2, <2>3 DEF Result, Clears
<1> QED BY <1>2, <1>3, <1>4, <1>5 DEF DriveJobs

-----------------------------------------------------------------------------
(* What the stores are when they have taken their queues.                  *)

\* A job joins the queue of a store that saves, and is performed otherwise.
LEMMA TakeIs ==
  ASSUME NEW D, NEW J, NEW T \in Stores(D, J), NEW job \in J,
         T.phase # "saving" =>
           /\ Perform(job, T.data).data \in D /\ Perform(job, T.data).staged \in D
           /\ Perform(job, T.data).saves \in BOOLEAN /\ Perform(job, T.data).stained \in BOOLEAN
  PROVE  /\ Take(T, job) \in Stores(D, J)
         /\ T.phase = "saving" =>
              /\ Take(T, job).phase = "saving" /\ Take(T, job).data = T.data
              /\ Take(T, job).staged = T.staged /\ Take(T, job).queue = Append(T.queue, job)
              /\ Take(T, job).stained = T.stained
         /\ T.phase # "saving" =>
              LET r == Perform(job, T.data)
              IN  /\ Take(T, job).phase = IF r.saves THEN "saving" ELSE "idle"
                  /\ Take(T, job).data = r.data /\ Take(T, job).queue = <<>>
                  /\ Take(T, job).staged = IF r.saves THEN r.staged ELSE r.data
                  /\ Take(T, job).stained = (T.stained \/ r.stained)
  BY DEF Take, Stores

UserStores == Stores([Users -> Status], UserJobs)
DriveStores == Stores(Tables, DriveJobs)

\* Users in memory change with a save or a mark.
ServedUsers(S) ==
  {T \in UserStores : /\ T.phase \in {"idle", "saving"}
                      /\ T.phase = "idle" => T.queue = <<>>
                      /\ T.phase = "saving" => ~TooMany(T.staged)
                      /\ S.stained => T.stained
                      /\ T.phase = "idle" /\ ~T.stained => T.data = S.data}

\* A store at rest.
LEMMA RestedIs ==
  ASSUME NEW D, NEW J, NEW S \in Stores(D, J)
  PROVE  /\ Rested(S) \in Stores(D, J)
         /\ Rested(S).phase = "idle" /\ Rested(S).queue = <<>> /\ Rested(S).data = S.data
         /\ Rested(S).staged = S.data /\ Rested(S).stained = S.stained
<1>1. S.data \in D /\ S.stained \in BOOLEAN /\ <<>> \in Seq(J)
  BY DEF Stores
<1>2. /\ Rested(S).phase = "idle" /\ Rested(S).queue = <<>> /\ Rested(S).data = S.data
      /\ Rested(S).staged = S.data /\ Rested(S).stained = S.stained
  BY DEF Rested, Stores
<1>3. Rested(S) = [S EXCEPT !.phase = "idle", !.staged = S.data, !.queue = <<>>]
  BY DEF Rested
<1>4. Rested(S) \in Stores(D, J)
  BY <1>1, <1>3 DEF Stores
<1> QED BY <1>2, <1>4

LEMMA ServeUsers ==
  ASSUME NEW S \in UserStores, NEW queue \in Seq(UserJobs)
  PROVE  Serve(S, queue) \in ServedUsers(S)
<1> DEFINE P == [i \in 0 .. Len(queue) |-> ServedUsers(S)]
<1>1. Len(queue) \in Nat /\ \A i \in 1 .. Len(queue) : queue[i] \in UserJobs
  BY ElementOfSeq
<1>2. Rested(S) \in ServedUsers(S)
  <2>1. Rested(S) \in UserStores
    BY RestedIs DEF UserStores
  <2>2. /\ Rested(S).phase = "idle" /\ Rested(S).queue = <<>> /\ Rested(S).data = S.data
        /\ Rested(S).stained = S.stained
    BY RestedIs DEF UserStores
  <2> QED BY <2>1, <2>2 DEF ServedUsers
<1>3. ASSUME NEW T \in ServedUsers(S), NEW job \in UserJobs PROVE Take(T, job) \in ServedUsers(S)
  <2>1. T \in UserStores /\ T.data \in [Users -> Status] /\ T.stained \in BOOLEAN
    BY DEF ServedUsers, UserStores, Stores
  <2>2. PICK r : /\ r = Perform(job, T.data)
                 /\ r.data \in [Users -> Status] /\ r.staged \in [Users -> Status]
                 /\ r.saves \in BOOLEAN /\ r.stained \in BOOLEAN
                 /\ r.saves => ~TooMany(r.staged)
                 /\ ~r.saves /\ ~r.stained => r.data = T.data
    BY <2>1, UserJobIs
  <2>3. /\ Take(T, job) \in UserStores
        /\ T.phase = "saving" =>
             /\ Take(T, job).phase = "saving" /\ Take(T, job).data = T.data
             /\ Take(T, job).staged = T.staged /\ Take(T, job).stained = T.stained
        /\ T.phase # "saving" =>
             /\ Take(T, job).phase = IF r.saves THEN "saving" ELSE "idle"
             /\ Take(T, job).data = r.data /\ Take(T, job).queue = <<>>
             /\ Take(T, job).staged = IF r.saves THEN r.staged ELSE r.data
             /\ Take(T, job).stained = (T.stained \/ r.stained)
    BY <2>1, <2>2, TakeIs DEF UserStores
  <2>4. T.phase # "saving" => T.phase = "idle"
    BY DEF ServedUsers
  <2>5. CASE T.phase = "saving"
    BY <2>3, <2>5 DEF ServedUsers
  <2>6. CASE T.phase # "saving" /\ r.saves
    BY <2>2, <2>3, <2>6 DEF ServedUsers
  <2>7. CASE T.phase # "saving" /\ ~r.saves
    <3>1. ~Take(T, job).stained => ~T.stained /\ ~r.stained
      BY <2>3, <2>7
    <3>2. S.stained => Take(T, job).stained
      BY <2>3, <2>7 DEF ServedUsers
    <3>3. ~Take(T, job).stained => Take(T, job).data = S.data
      BY <2>2, <2>3, <2>4, <2>7, <3>1 DEF ServedUsers
    <3> QED BY <2>3, <2>7, <3>2, <3>3 DEF ServedUsers
  <2> QED BY <2>5, <2>6, <2>7
<1>4. Rested(S) \in P[0] /\ \A i \in 1 .. Len(queue) : \A T \in P[i - 1] : Take(T, queue[i]) \in P[i]
  <2>1. 0 \in 0 .. Len(queue) /\ Len(queue) \in 0 .. Len(queue)
    BY <1>1
  <2>2. \A i \in 1 .. Len(queue) : i \in 0 .. Len(queue) /\ i - 1 \in 0 .. Len(queue)
    BY <1>1
  <2> QED BY <1>1, <1>2, <1>3, <2>1, <2>2
<1>5. P[Len(queue)] = ServedUsers(S)
  BY <1>1
<1> HIDE DEF P
<1> QED BY <1>1, <1>4, <1>5, ServeInduction

\* A queue with another job at its end.
LEMMA EndsAppend ==
  ASSUME NEW J, NEW queue \in Seq(J), NEW job \in J, NEW S, NEW u
  PROVE  /\ Ends(S, queue, u) /\ ~Makes(job, u) => Ends(S, Append(queue, job), u)
         /\ Clears(job, u) => Ends(S, Append(queue, job), u)
<1>1. /\ Len(queue) \in Nat /\ Len(Append(queue, job)) = Len(queue) + 1
      /\ \A i \in 1 .. Len(queue) : Append(queue, job)[i] = queue[i]
      /\ Append(queue, job)[Len(queue) + 1] = job
  OBVIOUS
<1> DEFINE q == Append(queue, job)
<1> HIDE DEF q
<1>2. /\ \A i \in 1 .. Len(q) : \/ i \in 1 .. Len(queue) /\ q[i] = queue[i]
                                \/ i = Len(queue) + 1 /\ q[i] = job
      /\ Len(queue) + 1 \in 1 .. Len(q) /\ \A i \in 1 .. Len(queue) : i \in 1 .. Len(q)
      /\ Len(q) = Len(queue) + 1 /\ Len(queue) \in Nat
  <2>1. /\ Len(queue) \in Nat /\ Len(q) = Len(queue) + 1 /\ q[Len(queue) + 1] = job
        /\ \A i \in 1 .. Len(queue) : q[i] = queue[i]
    BY <1>1 DEF q
  <2>2. ASSUME NEW i \in 1 .. Len(q)
        PROVE  \/ i \in 1 .. Len(queue) /\ q[i] = queue[i]
               \/ i = Len(queue) + 1 /\ q[i] = job
    BY <2>1
  <2> QED BY <2>1, <2>2
<1>3. ASSUME Ends(S, queue, u), ~Makes(job, u) PROVE Ends(S, q, u)
  <2>1. CASE Kept(S, u) = {} /\ \A i \in 1 .. Len(queue) : ~Makes(queue[i], u)
    BY <1>2, <1>3, <2>1 DEF Ends
  <2>2. CASE \E i \in 1 .. Len(queue) :
               Clears(queue[i], u) /\ \A k \in i + 1 .. Len(queue) : ~Makes(queue[k], u)
    <3>1. PICK i \in 1 .. Len(queue) :
                 Clears(queue[i], u) /\ \A k \in i + 1 .. Len(queue) : ~Makes(queue[k], u)
      BY <2>2
    <3>2. i \in 1 .. Len(q) /\ Clears(q[i], u)
      BY <1>1, <1>2, <3>1 DEF q
    <3>3. \A k \in i + 1 .. Len(q) : ~Makes(q[k], u)
      <4> SUFFICES ASSUME NEW k \in i + 1 .. Len(q) PROVE ~Makes(q[k], u)
        OBVIOUS
      <4>1. k \in 1 .. Len(q)
        BY <1>2, <3>1
      <4>2. CASE k \in 1 .. Len(queue) /\ q[k] = queue[k]
        <5>1. k \in i + 1 .. Len(queue)
          BY <1>2, <3>1, <4>2
        <5> QED BY <3>1, <4>2, <5>1
      <4>3. CASE k = Len(queue) + 1 /\ q[k] = job
        BY <1>3, <4>3
      <4> QED BY <1>2, <4>1, <4>2, <4>3
    <3> QED BY <3>2, <3>3 DEF Ends
  <2> QED BY <1>3, <2>1, <2>2 DEF Ends
<1>4. ASSUME Clears(job, u) PROVE Ends(S, q, u)
  <2>1. Len(queue) + 1 \in 1 .. Len(q) /\ q[Len(queue) + 1] = job
    BY <1>1, <1>2 DEF q
  <2>2. \A k \in (Len(queue) + 1) + 1 .. Len(q) : ~Makes(q[k], u)
    BY <1>2
  <2> QED BY <1>4, <2>1, <2>2 DEF Ends
<1> QED BY <1>3, <1>4 DEF q

\* Drives in memory are not changed; nobody gets a second home; and what ends with a clean
\* still does.
ServedDrives(S) ==
  {T \in DriveStores : /\ T.phase \in {"idle", "saving"} /\ T.data = S.data
                       /\ T.phase = "idle" => T.queue = <<>> /\ T.staged = T.data
                       /\ OneEach(T.staged)}

LEMMA TakeDrive ==
  ASSUME NEW S, OneEach(S.data), NEW T \in ServedDrives(S), NEW job \in DriveJobs
  PROVE  /\ Take(T, job) \in ServedDrives(S)
         /\ \A u \in Users :
              /\ Ends(T.staged, T.queue, u) /\ ~Makes(job, u) =>
                   Ends(Take(T, job).staged, Take(T, job).queue, u)
              /\ Clears(job, u) => Ends(Take(T, job).staged, Take(T, job).queue, u)
<1>1. /\ T \in DriveStores /\ T.data \in Tables /\ T.queue \in Seq(DriveJobs)
      /\ T.data = S.data /\ OneEach(T.staged) /\ T.stained \in BOOLEAN
      /\ T.phase # "saving" => T.phase = "idle" /\ T.queue = <<>> /\ T.staged = T.data
  BY DEF ServedDrives, DriveStores, Stores
<1>2. PICK r : /\ r = Perform(job, T.data)
               /\ r.data = T.data /\ r.staged \in Tables /\ OneEach(r.staged)
               /\ r.saves \in BOOLEAN /\ r.stained = FALSE
               /\ \A u \in Users :
                    /\ Clears(job, u) => r.saves /\ Kept(r.staged, u) = {}
                    /\ Kept(T.data, u) = {} /\ ~Makes(job, u) => Kept(r.staged, u) = {}
  BY <1>1, DriveJobIs
<1>3. PICK W : W = Take(T, job)
  OBVIOUS
<1>4. /\ W \in DriveStores
      /\ T.phase = "saving" =>
           /\ W.phase = "saving" /\ W.data = T.data
           /\ W.staged = T.staged /\ W.queue = Append(T.queue, job)
      /\ T.phase # "saving" =>
           /\ W.phase = IF r.saves THEN "saving" ELSE "idle"
           /\ W.data = r.data /\ W.queue = <<>>
           /\ W.staged = IF r.saves THEN r.staged ELSE r.data
  <2>1. /\ Perform(job, T.data).data \in Tables /\ Perform(job, T.data).staged \in Tables
        /\ Perform(job, T.data).saves \in BOOLEAN /\ Perform(job, T.data).stained \in BOOLEAN
    BY <1>1, <1>2
  <2> QED BY <1>1, <1>2, <1>3, <2>1, TakeIs DEF DriveStores
<1>5. W \in ServedDrives(S)
  BY <1>1, <1>2, <1>4 DEF ServedDrives
<1>6. ASSUME NEW u \in Users
      PROVE  /\ Ends(T.staged, T.queue, u) /\ ~Makes(job, u) => Ends(W.staged, W.queue, u)
             /\ Clears(job, u) => Ends(W.staged, W.queue, u)
  <2>1. CASE T.phase = "saving"
    BY <1>1, <1>4, <2>1, EndsAppend
  <2>2. CASE T.phase # "saving"
    <3>1. Ends(T.staged, T.queue, u) => Kept(T.data, u) = {}
      BY <1>1, <2>2 DEF Ends
    <3>2. Kept(W.staged, u) = {} => Ends(W.staged, W.queue, u)
      BY <1>4, <2>2 DEF Ends
    <3> QED BY <1>2, <1>4, <2>2, <3>1, <3>2
  <2> QED BY <2>1, <2>2
<1> QED BY <1>3, <1>5, <1>6

LEMMA ServeDrives ==
  ASSUME NEW S \in DriveStores, OneEach(S.data), NEW queue \in Seq(DriveJobs)
  PROVE  /\ Serve(S, queue) \in ServedDrives(S)
         /\ \A u \in Users : Ends(S.data, queue, u) =>
                               Ends(Serve(S, queue).staged, Serve(S, queue).queue, u)
<1>1. Len(queue) \in Nat /\ \A i \in 1 .. Len(queue) : queue[i] \in DriveJobs
  BY ElementOfSeq
<1>2. /\ Rested(S) \in ServedDrives(S)
      /\ Rested(S).queue = <<>> /\ Rested(S).staged = S.data
  BY RestedIs DEF ServedDrives, DriveStores
<1>3. Serve(S, queue) \in ServedDrives(S)
  <2> DEFINE P == [i \in 0 .. Len(queue) |-> ServedDrives(S)]
  <2>1. Rested(S) \in P[0] /\ \A i \in 1 .. Len(queue) : \A T \in P[i - 1] : Take(T, queue[i]) \in P[i]
    <3>1. 0 \in 0 .. Len(queue) /\ Len(queue) \in 0 .. Len(queue)
      BY <1>1
    <3>2. \A i \in 1 .. Len(queue) : i \in 0 .. Len(queue) /\ i - 1 \in 0 .. Len(queue)
      BY <1>1
    <3> QED BY <1>1, <1>2, <3>1, <3>2, TakeDrive
  <2>2. P[Len(queue)] = ServedDrives(S)
    BY <1>1
  <2> HIDE DEF P
  <2> QED BY <1>1, <2>1, <2>2, ServeInduction
<1>4. ASSUME NEW u \in Users, Ends(S.data, queue, u)
      PROVE  Ends(Serve(S, queue).staged, Serve(S, queue).queue, u)
  <2> DEFINE None(i) == \A k \in i + 1 .. Len(queue) : ~Makes(queue[k], u)
             Waits(i) == \E k \in i + 1 .. Len(queue) : Clears(queue[k], u) /\ None(k)
             P == [i \in 0 .. Len(queue) |->
                     {T \in ServedDrives(S) :
                        Waits(i) \/ (Ends(T.staged, T.queue, u) /\ None(i))}]
  <2>1. Rested(S) \in P[0]
    <3>1. 0 \in 0 .. Len(queue) /\ 0 + 1 = 1
      BY <1>1
    <3>2. CASE Kept(S.data, u) = {} /\ \A i \in 1 .. Len(queue) : ~Makes(queue[i], u)
      <4>1. None(0) /\ Ends(Rested(S).staged, Rested(S).queue, u)
        BY <1>2, <3>2 DEF Ends
      <4> QED BY <1>2, <3>1, <4>1
    <3>3. CASE \E i \in 1 .. Len(queue) : Clears(queue[i], u) /\ None(i)
      <4>1. Waits(0)
        BY <3>3
      <4> QED BY <1>2, <3>1, <4>1
    <3> QED BY <1>4, <3>2, <3>3 DEF Ends
  <2>2. ASSUME NEW i \in 1 .. Len(queue), NEW T \in P[i - 1]
        PROVE  Take(T, queue[i]) \in P[i]
    <3>1. i \in 0 .. Len(queue) /\ i - 1 \in 0 .. Len(queue) /\ (i - 1) + 1 = i
      BY <1>1
    <3>2. T \in ServedDrives(S) /\ (Waits(i - 1) \/ (Ends(T.staged, T.queue, u) /\ None(i - 1)))
      BY <3>1
    <3>3. Take(T, queue[i]) \in ServedDrives(S)
      BY <1>1, <3>2, TakeDrive
    <3>4. CASE Waits(i - 1)
      <4>1. PICK k \in i .. Len(queue) : Clears(queue[k], u) /\ None(k)
        BY <3>1, <3>4
      <4>2. CASE k = i
        <5>1. Ends(Take(T, queue[i]).staged, Take(T, queue[i]).queue, u)
          BY <1>1, <3>2, <4>1, <4>2, TakeDrive
        <5> QED BY <3>1, <3>3, <4>1, <4>2, <5>1
      <4>3. CASE k # i
        <5>1. k \in i + 1 .. Len(queue)
          BY <3>1, <4>1, <4>3
        <5>2. Waits(i)
          BY <4>1, <5>1
        <5> QED BY <3>1, <3>3, <5>2
      <4> QED BY <4>2, <4>3
    <3>5. CASE Ends(T.staged, T.queue, u) /\ None(i - 1)
      <4>1. ~Makes(queue[i], u) /\ None(i)
        BY <1>1, <3>1, <3>5
      <4>2. Ends(Take(T, queue[i]).staged, Take(T, queue[i]).queue, u)
        BY <1>1, <3>2, <3>5, <4>1, TakeDrive
      <4> QED BY <3>1, <3>3, <4>1, <4>2
    <3> QED BY <3>2, <3>4, <3>5
  <2>3. ~Waits(Len(queue)) /\ Len(queue) \in 0 .. Len(queue)
    BY <1>1
  <2>4. P[Len(queue)] = {T \in ServedDrives(S) : Waits(Len(queue)) \/
                            (Ends(T.staged, T.queue, u) /\ None(Len(queue)))}
    BY <2>3
  <2> HIDE DEF P
  <2>5. Serve(S, queue) \in P[Len(queue)]
    BY <1>1, <2>1, <2>2, ServeInduction
  <2> QED BY <2>3, <2>4, <2>5
<1> QED BY <1>3, <1>4

-----------------------------------------------------------------------------
(* Jobs that are submitted.                                                *)

LEMMA JoinsQueue ==
  ASSUME NEW D, NEW J, NEW S \in Stores(D, J), NEW job \in J, S.phase # "idle"
  PROVE  /\ Submit(S, job) \in Stores(D, J) /\ S.queue \in Seq(J)
         /\ Submit(S, job).phase = S.phase /\ Submit(S, job).data = S.data
         /\ Submit(S, job).staged = S.staged /\ Submit(S, job).queue = Append(S.queue, job)
         /\ Submit(S, job).stained = S.stained
<1>1. S.queue \in Seq(J) /\ Append(S.queue, job) \in Seq(J)
  BY DEF Stores
<1>2. Submit(S, job) = [S EXCEPT !.queue = Append(@, job)]
  BY DEF Submit
<1> QED BY <1>1, <1>2 DEF Stores

LEMMA SubmitUsers ==
  ASSUME NEW S \in UserStores, S.phase = "idle" => S.queue = <<>>,
         S.phase = "saving" => ~TooMany(S.staged), NEW job \in UserJobs
  PROVE  /\ Submit(S, job) \in UserStores
         /\ Submit(S, job).phase = "idle" => Submit(S, job).queue = <<>>
         /\ Submit(S, job).phase = "saving" => ~TooMany(Submit(S, job).staged)
         /\ Submit(S, job).phase = "idle" /\ ~Submit(S, job).stained =>
              S.phase = "idle" /\ ~S.stained /\ Submit(S, job).data = S.data
<1>1. CASE S.phase = "idle"
  <2>1. <<job>> \in Seq(UserJobs) /\ Submit(S, job) = Serve(S, <<job>>)
    BY <1>1 DEF Submit
  <2>2. Serve(S, <<job>>) \in ServedUsers(S)
    BY <2>1, ServeUsers
  <2> QED BY <1>1, <2>1, <2>2 DEF ServedUsers
<1>2. CASE S.phase # "idle"
  <2>1. /\ Submit(S, job).phase = S.phase /\ Submit(S, job).staged = S.staged
        /\ Submit(S, job) \in UserStores
    BY <1>2, JoinsQueue DEF UserStores
  <2> QED BY <1>2, <2>1
<1> QED BY <1>1, <1>2

\* What Drive has, or will have read.
Base(S, file) == IF S.phase = "loading" THEN file ELSE S.staged

LEMMA SubmitDrives ==
  ASSUME NEW S \in DriveStores, S.phase = "idle" => S.queue = <<>> /\ S.staged = S.data,
         OneEach(S.data), OneEach(S.staged), NEW job \in DriveJobs, NEW file
  PROVE  /\ Submit(S, job) \in DriveStores /\ Submit(S, job).data = S.data
         /\ Submit(S, job).phase = "idle" =>
              /\ S.phase = "idle" /\ Submit(S, job).queue = <<>>
              /\ Submit(S, job).staged = Submit(S, job).data
         /\ OneEach(Submit(S, job).staged)
         /\ \A u \in Users :
              Clears(job, u) \/ (Ends(Base(S, file), S.queue, u) /\ ~Makes(job, u)) =>
                Ends(Base(Submit(S, job), file), Submit(S, job).queue, u)
<1>1. CASE S.phase = "idle"
  <2>1. <<job>> \in Seq(DriveJobs) /\ Submit(S, job) = Serve(S, <<job>>)
    BY <1>1 DEF Submit
  <2>2. /\ Serve(S, <<job>>) \in ServedDrives(S)
        /\ \A u \in Users : Ends(S.data, <<job>>, u) =>
                              Ends(Serve(S, <<job>>).staged, Serve(S, <<job>>).queue, u)
    BY <2>1, ServeDrives
  <2>3. S.queue \in Seq(DriveJobs) /\ Append(S.queue, job) = <<job>>
    <3>1. S.queue = <<>> /\ <<>> \in Seq(DriveJobs)
      BY <1>1
    <3>2. Append(<<>>, job) = <<job>>
      OBVIOUS
    <3> QED BY <3>1, <3>2
  <2>4. Base(S, file) = S.data
    BY <1>1 DEF Base
  <2>5. Base(Submit(S, job), file) = Serve(S, <<job>>).staged
    BY <2>1, <2>2 DEF Base, ServedDrives
  <2>6. \A u \in Users :
          /\ Ends(S.data, S.queue, u) /\ ~Makes(job, u) => Ends(S.data, <<job>>, u)
          /\ Clears(job, u) => Ends(S.data, <<job>>, u)
    BY <2>3, EndsAppend
  <2> QED BY <1>1, <2>1, <2>2, <2>4, <2>5, <2>6 DEF ServedDrives
<1>2. CASE S.phase # "idle"
  <2>1. /\ Submit(S, job).phase = S.phase /\ Submit(S, job).staged = S.staged
        /\ Submit(S, job).queue = Append(S.queue, job) /\ Submit(S, job).data = S.data
        /\ S.queue \in Seq(DriveJobs) /\ Submit(S, job) \in DriveStores
    BY <1>2, JoinsQueue DEF DriveStores
  <2>2. Base(Submit(S, job), file) = Base(S, file)
    BY <2>1 DEF Base
  <2> QED BY <1>2, <2>1, <2>2, EndsAppend
<1> QED BY <1>1, <1>2

\* What is counted.
LEMMA SpendIs ==
  ASSUME UserDriveInv, NEW what \in Events, Spend(what)
  PROVE  /\ spent' \in [Events -> Nat]
         /\ what # "fault" => spent'["fault"] = spent["fault"]
         /\ what = "fault" => ~Calm'
         /\ spent'["fault"] >= spent["fault"]
<1>1. spent \in [Events -> Nat] /\ "fault" \in Events
  BY DEF UserDriveInv, StoresInv, TypeOK, Events
<1>2. spent' = [spent EXCEPT ![what] = spent[what] + 1]
  BY DEF Spend
<1> QED BY <1>1, <1>2 DEF Calm

\* The index and the disk are made to follow.
FollowsUsers(R, D, F, U, S) ==
  /\ Live(U, S) \ F \subseteq R \cap D
  /\ R \subseteq Valid(U, S) /\ R \cap Removed(U, S) \subseteq F
  /\ D \cap Removed(U, S) \subseteq F

LEMMA FollowIs ==
  ASSUME UserDriveInv, NEW U, NEW S, Follow(U, S)
  PROVE  /\ roots' \subseteq dirs' /\ dirs' \subseteq Drives /\ stuck' \subseteq Drives
         /\ FollowsUsers(roots', dirs', stuck', U, S)
         /\ spent' \in [Events -> Nat] /\ spent'["fault"] = spent["fault"]
<1>1. Valid(U, S) \subseteq Drives /\ Live(U, S) \subseteq Valid(U, S)
      /\ Live(U, S) \cap Removed(U, S) = {}
  BY DEF Valid, Live, Removed, Of
<1>2. roots \subseteq dirs /\ dirs \subseteq Drives /\ spent \in [Events -> Nat]
  BY DEF UserDriveInv, StoresInv, TypeOK
<1>3. PICK new, F : /\ new = Live(U, S) \ roots /\ F \in SUBSET ((Removed(U, S) \cap dirs) \cup new)
                    /\ \E made \in SUBSET (F \cap new) :
                         /\ roots' = ((roots \cap Valid(U, S)) \ (Removed(U, S) \ F)) \cup (new \ F)
                         /\ dirs' = (dirs \ (Removed(U, S) \ F)) \cup (new \ F) \cup made
                    /\ stuck' = F /\ IF F = {} THEN UNCHANGED spent ELSE Spend("disk")
  BY DEF Follow
<1>4. /\ roots' \subseteq dirs' /\ dirs' \subseteq Drives /\ stuck' \subseteq Drives
      /\ FollowsUsers(roots', dirs', stuck', U, S)
  BY <1>1, <1>2, <1>3 DEF FollowsUsers
<1>5. spent' \in [Events -> Nat] /\ spent'["fault"] = spent["fault"]
  BY <1>2, <1>3, SpendIs DEF Events
<1> QED BY <1>4, <1>5

LEMMA SyncedIs ==
  Synced <=> (users.phase = "idle" /\ ~users.stained =>
                FollowsUsers(roots, dirs, stuck, users.data, drives.data))
  BY DEF Synced, FollowsUsers

-----------------------------------------------------------------------------
(* The invariant.                                                          *)

LEMMA TypesIs ==
  UserDriveInv =>
    /\ users \in UserStores /\ users.phase \in {"loading", "idle", "saving"}
    /\ users.data \in [Users -> Status] /\ users.staged \in [Users -> Status]
    /\ users.queue \in Seq(UserJobs) /\ usersFile \in [Users -> Status]
    /\ drives \in DriveStores /\ drives.phase \in {"loading", "idle", "saving"}
    /\ drives.data \in Tables /\ drives.staged \in Tables
    /\ drives.queue \in Seq(DriveJobs) /\ drivesFile \in Tables
    /\ OneEach(drives.data) /\ OneEach(drives.staged) /\ OneEach(drivesFile)
    /\ roots \subseteq dirs /\ dirs \subseteq Drives /\ stuck \subseteq Drives
  BY DEF UserDriveInv, StoresInv, TypeOK, OneHome, UserStores, DriveStores, Stores

LEMMA LoadingIs ==
  /\ \A U \in [Users -> Status], q \in Seq(UserJobs) :
       /\ Loading(U, q) \in UserStores
       /\ Loading(U, q).phase = "loading" /\ Loading(U, q).data = U /\ Loading(U, q).stained = FALSE
  /\ \A S \in Tables, q \in Seq(DriveJobs) :
       /\ Loading(S, q) \in DriveStores
       /\ Loading(S, q).phase = "loading" /\ Loading(S, q).data = S /\ Loading(S, q).staged = S
  BY DEF Loading, UserStores, DriveStores, Stores

LEMMA NobodyHome == OneEach(NoDrives)
<1>1. \A d \in Drives : NoDrives[d].kind = "none"
  BY DEF NoDrives, NoDrive
<1>2. Of(NoDrives, "built-in") = {} /\ Of(NoDrives, "home") = {}
  BY <1>1 DEF Of
<1> QED BY <1>2 DEF OneEach, HomeOf

\* A new process.
LEMMA FreshInv ==
  ASSUME UserDriveInv, Fresh, spent' \in [Events -> Nat], spent'["fault"] >= spent["fault"]
  PROVE  UserDriveInv'
<1>1. /\ Nobody \in [Users -> Status] /\ NoDrives \in Tables
      /\ <<>> \in Seq(UserJobs) /\ <<Bind>> \in Seq(UserJobs) /\ <<>> \in Seq(DriveJobs)
  BY UsersAssumption DEF Nobody, Status, NoDrives, NoDrive, Tables, Bind, UserJobs
<1>2. PICK queue \in Seq(UserJobs) : users' = Loading(Nobody, queue)
  BY <1>1 DEF Fresh
<1>3. /\ drives' = Loading(NoDrives, <<>>) /\ roots' = {} /\ stuck' = {} /\ poll' = NoPoll /\ notice' = FALSE
      /\ UNCHANGED <<usersFile, drivesFile, dirs, cloud>>
  BY DEF Fresh
<1>4. /\ users' \in UserStores /\ users'.phase = "loading"
      /\ drives' \in DriveStores /\ drives'.phase = "loading"
      /\ drives'.data = NoDrives /\ drives'.staged = NoDrives
  BY <1>1, <1>2, <1>3, LoadingIs
<1>5. TypeOK'
  BY <1>1, <1>3, <1>4 DEF UserDriveInv, StoresInv, TypeOK, UserStores, DriveStores, NoPoll, Polls
<1>6. OneHome'
  BY <1>3, <1>4, NobodyHome DEF UserDriveInv, StoresInv, OneHome
<1>7. Begun' /\ Settled' /\ Synced' /\ Cleaned'
  BY <1>3, <1>4 DEF UserDriveInv, Begun, Settled, Synced, Cleaned
<1> QED BY <1>5, <1>6, <1>7 DEF UserDriveInv, StoresInv

LEMMA InitInv == Init => UserDriveInv
<1> SUFFICES ASSUME Init PROVE UserDriveInv
  OBVIOUS
<1>1. /\ Nobody \in [Users -> Status] /\ NoDrives \in Tables
      /\ <<>> \in Seq(UserJobs) /\ <<Bind>> \in Seq(UserJobs) /\ <<>> \in Seq(DriveJobs)
  BY UsersAssumption DEF Nobody, Status, NoDrives, NoDrive, Tables, Bind, UserJobs
<1>2. PICK queue \in Seq(UserJobs) : users = Loading(Nobody, queue)
  BY <1>1 DEF Init
<1>3. /\ drives = Loading(NoDrives, <<>>) /\ usersFile = Nobody /\ drivesFile = NoDrives
      /\ roots = {} /\ dirs = {} /\ stuck = {} /\ poll = NoPoll /\ cloud = InitialCloud /\ notice = FALSE
      /\ spent = [e \in Events |-> 0]
  BY DEF Init
<1>4. /\ users \in UserStores /\ users.phase = "loading"
      /\ drives \in DriveStores /\ drives.phase = "loading"
      /\ drives.data = NoDrives /\ drives.staged = NoDrives
  BY <1>1, <1>2, <1>3, LoadingIs
<1>5. TypeOK
  BY <1>1, <1>3, <1>4, CloudAssumption DEF TypeOK, UserStores, DriveStores, NoPoll, Polls, Status
<1>6. OneHome
  BY <1>3, <1>4, NobodyHome DEF OneHome
<1>7. ~TooMany(Nobody)
  <2>1. Active(Nobody) = {}
    BY DEF Active, Nobody
  <2> QED BY <2>1, FS_EmptySet, BoundsAssumption DEF TooMany
<1>8. Begun /\ Settled /\ Synced /\ Cleaned
  BY <1>3, <1>4, <1>7 DEF Begun, Settled, Synced, Cleaned
<1> QED BY <1>5, <1>6, <1>8 DEF UserDriveInv, StoresInv

-----------------------------------------------------------------------------
(* The steps.                                                              *)

\* Users load or have been saved: Drive, the index and the disk are told.
LEMMA UsersKnown ==
  ASSUME UserDriveInv, NEW S, users' \in ServedUsers(S), S.data = usersFile',
         usersFile' \in [Users -> Status], ~TooMany(usersFile)', UsersUpdate,
         UNCHANGED <<drivesFile, cloud, notice>>
  PROVE  UserDriveInv'
<1>1. /\ users' \in UserStores /\ users'.phase \in {"idle", "saving"}
      /\ users'.phase = "idle" => users'.queue = <<>>
      /\ users'.phase = "saving" => ~TooMany(users'.staged)
      /\ users'.phase = "idle" /\ ~users'.stained => users'.data = usersFile'
  BY DEF ServedUsers
<1>2. Deleted(users'.data) \subseteq Users
  BY DEF Deleted
<1> DEFINE job == [kind |-> "clean", users |-> Deleted(users'.data)]
<1>3. job \in DriveJobs /\ \A u \in Deleted(users'.data) : Clears(job, u)
  BY <1>2 DEF DriveJobs, Clears
<1>4. \/ drives' = Submit(drives, job)
      \/ drives' = drives /\ Deleted(users'.data) = {}
  BY DEF UsersUpdate, Cleans
<1> HIDE DEF job
<1>5. /\ drives' \in DriveStores /\ drives'.data = drives.data
      /\ drives'.phase = "idle" => /\ drives.phase = "idle" /\ drives'.queue = <<>>
                                   /\ drives'.staged = drives'.data
      /\ OneEach(drives'.staged)
      /\ \A u \in Deleted(users'.data) : Ends(Base(drives', drivesFile), drives'.queue, u)
  <2>1. /\ drives \in DriveStores /\ OneEach(drives.data) /\ OneEach(drives.staged)
        /\ drives.phase = "idle" => drives.queue = <<>> /\ drives.staged = drives.data
    BY TypesIs DEF UserDriveInv, StoresInv, TypeOK, Begun
  <2>2. CASE drives' = Submit(drives, job)
    BY <1>2, <1>3, <2>1, <2>2, SubmitDrives
  <2>3. CASE drives' = drives /\ Deleted(users'.data) = {}
    BY <2>1, <2>3
  <2> QED BY <1>4, <2>2, <2>3
<1>6. /\ roots' \subseteq dirs' /\ dirs' \subseteq Drives /\ stuck' \subseteq Drives
      /\ FollowsUsers(roots', dirs', stuck', users'.data, drives'.data)
      /\ spent' \in [Events -> Nat] /\ spent'["fault"] = spent["fault"]
  BY <1>5, TypesIs, FollowIs DEF UsersUpdate, UserFollows
<1>7. TypeOK'
  <2>1. poll' \in Polls /\ (poll'.served => poll'.state = "reading")
    <3>1. poll \in Polls /\ (poll.served => poll.state = "reading")
      BY DEF UserDriveInv, StoresInv, TypeOK
    <3>2. poll' = IF poll.state = "none" THEN [poll EXCEPT !.state = "pending"] ELSE poll
      BY DEF UsersUpdate
    <3> QED BY <3>1, <3>2 DEF Polls
  <2> QED BY <1>1, <1>5, <1>6, <2>1 DEF UserDriveInv, StoresInv, TypeOK, UserStores, DriveStores
<1>8. OneHome' /\ Begun'
  BY <1>1, <1>5, TypesIs DEF OneHome, Begun
<1>9. Calm' => Settled'
  BY <1>1, <1>5, <1>6 DEF UserDriveInv, Calm, Settled
<1>10. Synced' /\ Cleaned'
  BY <1>5, <1>6 DEF Synced, FollowsUsers, Cleaned, Base
<1> QED BY <1>7, <1>8, <1>9, <1>10 DEF UserDriveInv, StoresInv

LEMMA UsersInv == ASSUME UserDriveInv, LoadUsers \/ SavedUsers PROVE UserDriveInv'
<1>1. users.queue \in Seq(UserJobs) /\ <<>> \in Seq(UserJobs)
  BY TypesIs
<1>2. CASE LoadUsers
  <2>1. Loading(usersFile, <<>>) \in UserStores /\ Loading(usersFile, <<>>).data = usersFile
    BY <1>1, TypesIs, LoadingIs
  <2>2. users' \in ServedUsers(Loading(usersFile, <<>>))
    BY <1>1, <1>2, <2>1, ServeUsers DEF LoadUsers
  <2>3. ~TooMany(usersFile)' /\ usersFile' = usersFile /\ usersFile \in [Users -> Status]
    BY <1>2, TypesIs DEF LoadUsers, UserDriveInv, Begun
  <2> QED BY <1>2, <2>1, <2>2, <2>3, UsersKnown DEF LoadUsers
<1>3. CASE SavedUsers
  <2>1. Loading(users.staged, <<>>) \in UserStores /\ Loading(users.staged, <<>>).data = users.staged
    BY <1>1, TypesIs, LoadingIs
  <2>2. users' \in ServedUsers(Loading(users.staged, <<>>))
    BY <1>1, <1>3, <2>1, ServeUsers DEF SavedUsers
  <2>3. ~TooMany(usersFile)' /\ usersFile' = users.staged /\ users.staged \in [Users -> Status]
    BY <1>3, TypesIs DEF SavedUsers, UserDriveInv, Begun
  <2> QED BY <1>3, <2>1, <2>2, <2>3, UsersKnown DEF SavedUsers
<1> QED BY <1>2, <1>3

\* Drives load or have been saved: the index and the disk are told.
LEMMA DrivesInv == ASSUME UserDriveInv, LoadDrives \/ SavedDrives PROVE UserDriveInv'
<1>1. PICK S \in Tables : /\ drives' = Serve(Loading(S, <<>>), drives.queue) /\ drivesFile' = S
                          /\ Follow(users.data, S) /\ OneEach(S)
                          /\ S = Base(drives, drivesFile)
                          /\ UNCHANGED <<users, usersFile, poll, cloud, notice>>
  BY TypesIs DEF LoadDrives, SavedDrives, Base
<1>2. /\ drives.queue \in Seq(DriveJobs) /\ <<>> \in Seq(DriveJobs)
      /\ Loading(S, <<>>) \in DriveStores /\ Loading(S, <<>>).data = S
  <2>1. <<>> \in Seq(DriveJobs)
    OBVIOUS
  <2>2. Loading(S, <<>>) \in DriveStores /\ Loading(S, <<>>).data = S
    BY <2>1, LoadingIs
  <2> QED BY <2>1, <2>2, TypesIs
<1>3. /\ drives' \in ServedDrives(Loading(S, <<>>))
      /\ \A u \in Users : Ends(S, drives.queue, u) => Ends(drives'.staged, drives'.queue, u)
  BY <1>1, <1>2, ServeDrives
<1>4. /\ drives' \in DriveStores /\ drives'.phase \in {"idle", "saving"} /\ drives'.data = S
      /\ drives'.phase = "idle" => drives'.queue = <<>> /\ drives'.staged = drives'.data
      /\ OneEach(drives'.staged)
  BY <1>2, <1>3 DEF ServedDrives
<1>5. /\ roots' \subseteq dirs' /\ dirs' \subseteq Drives /\ stuck' \subseteq Drives
      /\ FollowsUsers(roots', dirs', stuck', users.data, S)
      /\ spent' \in [Events -> Nat] /\ spent'["fault"] = spent["fault"]
  BY <1>1, TypesIs, FollowIs
<1>6. TypeOK'
  BY <1>1, <1>4, <1>5 DEF UserDriveInv, StoresInv, TypeOK, UserStores, DriveStores
<1>7. OneHome' /\ Begun'
  BY <1>1, <1>4 DEF UserDriveInv, OneHome, Begun
<1>8. Calm' => Settled'
  BY <1>1, <1>4, <1>5 DEF UserDriveInv, Calm, Settled
<1>9. Synced'
  BY <1>1, <1>4, <1>5 DEF Synced, FollowsUsers
<1>10. Calm' => Cleaned'
  <2>1. \A u : u \in Deleted(users.data) => u \in Users
    BY DEF Deleted
  <2>2. Calm' => Cleaned
    BY <1>1, <1>5 DEF UserDriveInv, Calm
  <2>3. Base(drives', drivesFile') = drives'.staged
    BY <1>4 DEF Base
  <2> QED BY <1>1, <1>3, <2>1, <2>2, <2>3 DEF Cleaned, Base
<1> QED BY <1>6, <1>7, <1>8, <1>9, <1>10 DEF UserDriveInv, StoresInv

\* Calls to Drive by users who are active.
LEMMA ToDrivesInv ==
  ASSUME UserDriveInv, NEW job \in DriveJobs, ToDrives(job),
         \A u \in Users : Makes(job, u) => u \in Active(users.data),
         spent' \in [Events -> Nat], spent'["fault"] = spent["fault"]
  PROVE  UserDriveInv'
<1>1. /\ drives' = Submit(drives, job)
      /\ UNCHANGED <<users, usersFile, drivesFile, roots, dirs, stuck, poll, cloud, notice>>
  BY DEF ToDrives
<1>2. /\ drives \in DriveStores /\ OneEach(drives.data) /\ OneEach(drives.staged)
      /\ drives.phase = "idle" => drives.queue = <<>> /\ drives.staged = drives.data
  BY TypesIs DEF UserDriveInv, StoresInv, TypeOK, Begun
<1>3. /\ drives' \in DriveStores /\ drives'.data = drives.data
      /\ drives'.phase = "idle" => /\ drives.phase = "idle" /\ drives'.queue = <<>>
                                   /\ drives'.staged = drives'.data
      /\ OneEach(drives'.staged)
      /\ \A u \in Users : Ends(Base(drives, drivesFile), drives.queue, u) /\ ~Makes(job, u) =>
                            Ends(Base(drives', drivesFile), drives'.queue, u)
  BY <1>1, <1>2, SubmitDrives
<1>4. TypeOK' /\ OneHome' /\ Begun'
  BY <1>1, <1>3 DEF UserDriveInv, StoresInv, TypeOK, OneHome, Begun, UserStores, DriveStores
<1>5. Calm' => Settled' /\ Synced'
  BY <1>1, <1>3 DEF UserDriveInv, Calm, Settled, Synced
<1>6. Calm' => Cleaned'
  <2>1. \A u \in Deleted(users.data) : u \in Users /\ u \notin Active(users.data)
    BY DEF Deleted, Active
  <2>2. Calm' => Cleaned
    BY DEF UserDriveInv, Calm
  <2> QED BY <1>1, <1>3, <2>1, <2>2 DEF Cleaned, Base
<1> QED BY <1>4, <1>5, <1>6 DEF UserDriveInv, StoresInv

\* Calls to User, and what the cloud said.
LEMMA ToUsersInv ==
  ASSUME UserDriveInv, NEW job \in UserJobs, users' = Submit(users, job),
         UNCHANGED <<drives, usersFile, drivesFile, roots, dirs, stuck, cloud, notice>>,
         poll' \in Polls, poll'.served => poll'.state = "reading",
         spent' \in [Events -> Nat], spent'["fault"] = spent["fault"]
  PROVE  UserDriveInv'
<1>1. /\ users \in UserStores /\ (users.phase = "idle" => users.queue = <<>>)
      /\ users.phase = "saving" => ~TooMany(users.staged)
  BY TypesIs DEF UserDriveInv, StoresInv, TypeOK, Begun
<1>2. /\ users' \in UserStores /\ (users'.phase = "idle" => users'.queue = <<>>)
      /\ users'.phase = "saving" => ~TooMany(users'.staged)
      /\ users'.phase = "idle" /\ ~users'.stained =>
           users.phase = "idle" /\ ~users.stained /\ users'.data = users.data
  BY <1>1, SubmitUsers
<1>3. TypeOK' /\ OneHome' /\ Begun'
  BY <1>2 DEF UserDriveInv, StoresInv, TypeOK, OneHome, Begun, UserStores, DriveStores
<1>4. Calm' => Settled' /\ Synced' /\ Cleaned'
  BY <1>2 DEF UserDriveInv, Calm, Settled, Synced, Cleaned
<1> QED BY <1>3, <1>4 DEF UserDriveInv, StoresInv

\* A save that fails: nothing more is said of the failed.
LEMMA FailInv == ASSUME UserDriveInv, UsersFail \/ DrivesFail PROVE UserDriveInv'
<1>1. Spend("fault") /\ "fault" \in Events
  BY DEF UsersFail, DrivesFail, Events
<1>2. spent' \in [Events -> Nat] /\ ~Calm'
  BY <1>1, SpendIs
<1>3. CASE UsersFail
  <2>1. users' \in ServedUsers(users)
    BY <1>3, TypesIs, ServeUsers DEF UsersFail
  <2>2. /\ users' \in UserStores /\ users'.phase \in {"idle", "saving"}
        /\ users'.phase = "idle" => users'.queue = <<>>
        /\ users'.phase = "saving" => ~TooMany(users'.staged)
    BY <2>1 DEF ServedUsers
  <2>3. TypeOK' /\ OneHome' /\ Begun'
    BY <1>2, <1>3, <2>2 DEF UsersFail, UserDriveInv, StoresInv, TypeOK, OneHome, Begun, UserStores
  <2> QED BY <1>2, <2>3 DEF UserDriveInv, StoresInv
<1>4. CASE DrivesFail
  <2>1. drives' \in ServedDrives(drives)
    BY <1>4, TypesIs, ServeDrives DEF DrivesFail
  <2>2. /\ drives' \in DriveStores /\ drives'.phase \in {"idle", "saving"}
        /\ drives'.data = drives.data /\ OneEach(drives'.staged)
        /\ drives'.phase = "idle" => drives'.queue = <<>> /\ drives'.staged = drives'.data
    BY <2>1 DEF ServedDrives
  <2>3. TypeOK' /\ OneHome' /\ Begun'
    BY <1>2, <1>4, <2>2 DEF DrivesFail, UserDriveInv, StoresInv, TypeOK, OneHome, Begun, DriveStores
  <2> QED BY <1>2, <2>3 DEF UserDriveInv, StoresInv
<1> QED BY <1>3, <1>4

\* Calls.
LEMMA CallsInv ==
  ASSUME UserDriveInv,
         \/ BindFirstUser
         \/ \E u \in Users : DeleteUser(u) \/ List(u) \/ Backup(u)
         \/ \E u \in Users, d \in Drives : Unbackup(u, d)
  PROVE  UserDriveInv'
<1>0. {"bind", "delete", "call"} \subseteq Events
  BY DEF Events
<1>1. ASSUME NEW job \in UserJobs, NEW what \in {"bind", "delete"}, Spend(what), ToUsers(job)
      PROVE  UserDriveInv'
  <2>1. spent' \in [Events -> Nat] /\ spent'["fault"] = spent["fault"]
    BY <1>0, <1>1, SpendIs
  <2>2. poll' \in Polls /\ (poll'.served => poll'.state = "reading")
    BY <1>1 DEF ToUsers, UserDriveInv, StoresInv, TypeOK
  <2>3. /\ users' = Submit(users, job)
        /\ UNCHANGED <<drives, usersFile, drivesFile, roots, dirs, stuck, cloud, notice>>
    BY <1>1 DEF ToUsers
  <2> QED BY <2>1, <2>2, <2>3, ToUsersInv
<1>2. ASSUME NEW u \in Active(users.data), NEW job \in DriveJobs, Spend("call"), ToDrives(job),
             \A w \in Users : Makes(job, w) => w = u
      PROVE  UserDriveInv'
  <2>1. spent' \in [Events -> Nat] /\ spent'["fault"] = spent["fault"]
    BY <1>0, <1>2, SpendIs
  <2> QED BY <1>2, <2>1, ToDrivesInv
<1>3. CASE BindFirstUser
  <2>1. Bind \in UserJobs
    BY DEF Bind, UserJobs
  <2> QED BY <1>1, <1>3, <2>1 DEF BindFirstUser
<1>4. ASSUME NEW u \in Users, DeleteUser(u) PROVE UserDriveInv'
  <2>1. [kind |-> "delete", user |-> u] \in UserJobs
    BY DEF UserJobs
  <2> QED BY <1>1, <1>4, <2>1 DEF DeleteUser
<1>5. ASSUME NEW u \in Users, List(u) PROVE UserDriveInv'
  <2>1. PICK home \in BOOLEAN, builtin \in BOOLEAN :
               ToDrives([kind |-> "list", user |-> u, home |-> home, builtin |-> builtin])
    BY <1>5 DEF List
  <2>2. [kind |-> "list", user |-> u, home |-> home, builtin |-> builtin] \in DriveJobs
    BY DEF DriveJobs
  <2>3. \A w \in Users : Makes([kind |-> "list", user |-> u, home |-> home, builtin |-> builtin], w) => w = u
    BY DEF Makes
  <2> QED BY <1>2, <1>5, <2>1, <2>2, <2>3 DEF List
<1>6. ASSUME NEW u \in Users, Backup(u) PROVE UserDriveInv'
  <2>1. [kind |-> "backup", user |-> u] \in DriveJobs
    BY DEF DriveJobs
  <2>2. \A w \in Users : Makes([kind |-> "backup", user |-> u], w) => w = u
    BY DEF Makes
  <2> QED BY <1>2, <1>6, <2>1, <2>2 DEF Backup
<1>7. ASSUME NEW u \in Users, NEW d \in Drives, Unbackup(u, d) PROVE UserDriveInv'
  <2>1. [kind |-> "unbackup", user |-> u, drive |-> d] \in DriveJobs
    BY DEF DriveJobs
  <2>2. \A w \in Users : ~Makes([kind |-> "unbackup", user |-> u, drive |-> d], w)
    BY DEF Makes
  <2> QED BY <1>2, <1>7, <2>1, <2>2 DEF Unbackup
<1> QED BY <1>3, <1>4, <1>5, <1>6, <1>7

\* A step of the cloud or of the poll.
LEMMA PollOnly ==
  ASSUME UserDriveInv, UNCHANGED <<users, drives, usersFile, drivesFile, roots, dirs, stuck>>,
         cloud' \in [Users -> Status], notice' \in BOOLEAN,
         poll' \in Polls, poll'.served => poll'.state = "reading",
         spent' \in [Events -> Nat], spent'["fault"] = spent["fault"]
  PROVE  UserDriveInv'
<1>1. TypeOK' /\ OneHome' /\ Begun'
  BY DEF UserDriveInv, StoresInv, TypeOK, OneHome, Begun
<1>2. Calm' => Settled' /\ Synced' /\ Cleaned'
  BY DEF UserDriveInv, Calm, Settled, Synced, Cleaned
<1> QED BY <1>1, <1>2 DEF UserDriveInv, StoresInv

LEMMA NobodyIs == Nobody \in [Users -> Status]
  BY DEF Nobody, Status

LEMMA OverIs ==
  ASSUME NEW again \in {"no", "later", "now"}, Over(again)
  PROVE  poll' \in Polls /\ (poll'.served => poll'.state = "reading")
  BY NobodyIs DEF Over, Read, NoPoll, Polls

LEMMA CloudInv ==
  ASSUME UserDriveInv,
         \/ \E u \in Users, s \in Status : CloudChanges(u, s)
         \/ Notify \/ PendingTimer \/ IdleTimer \/ CloudAnswers \/ FetchFails
  PROVE  UserDriveInv'
<1>0. {"cloud", "timer", "drop"} \subseteq Events
  BY DEF Events
<1>1. /\ cloud \in [Users -> Status] /\ notice \in BOOLEAN
      /\ poll \in Polls /\ (poll.served => poll.state = "reading")
      /\ spent \in [Events -> Nat]
  BY DEF UserDriveInv, StoresInv, TypeOK
<1>2. UNCHANGED <<users, drives, usersFile, drivesFile, roots, dirs, stuck>>
  BY DEF CloudChanges, Notify, PendingTimer, IdleTimer, CloudAnswers, FetchFails, OnlyPolls
<1>3. cloud' \in [Users -> Status] /\ notice' \in BOOLEAN
  BY <1>1 DEF CloudChanges, Notify, PendingTimer, IdleTimer, CloudAnswers, FetchFails, OnlyPolls
<1>4. spent' \in [Events -> Nat] /\ spent'["fault"] = spent["fault"]
  <2>1. \/ UNCHANGED spent
        \/ \E what \in {"cloud", "timer", "drop"} : Spend(what)
    BY DEF CloudChanges, Notify, PendingTimer, IdleTimer, CloudAnswers, FetchFails
  <2>2. ASSUME NEW what \in {"cloud", "timer", "drop"}, Spend(what)
        PROVE  spent' \in [Events -> Nat] /\ spent'["fault"] = spent["fault"]
    BY <1>0, <2>2, SpendIs
  <2> QED BY <1>1, <2>1, <2>2
<1>5. poll' \in Polls /\ (poll'.served => poll'.state = "reading")
  <2>1. CASE \E u \in Users, s \in Status : CloudChanges(u, s)
    BY <1>1, <2>1 DEF CloudChanges
  <2>2. CASE Notify
    BY <1>1, <2>2, NobodyIs DEF Notify, Readi, Read, NoPoll, Polls
  <2>3. CASE PendingTimer \/ IdleTimer
    BY <2>3, NobodyIs DEF PendingTimer, IdleTimer, Read, NoPoll, Polls
  <2>4. CASE CloudAnswers
    <3>1. poll' = [poll EXCEPT !.say = cloud, !.served = TRUE] /\ poll.state = "reading"
      BY <2>4 DEF CloudAnswers
    <3> QED BY <1>1, <3>1 DEF Polls
  <2>5. CASE FetchFails
    <3>1. Over(IF poll.again = "no" THEN "later" ELSE poll.again)
      BY <2>5 DEF FetchFails
    <3>2. (IF poll.again = "no" THEN "later" ELSE poll.again) \in {"no", "later", "now"}
      BY <1>1 DEF Polls
    <3> QED BY <3>1, <3>2, OverIs
  <2> QED BY <2>1, <2>2, <2>3, <2>4, <2>5
<1> QED BY <1>2, <1>3, <1>4, <1>5, PollOnly

\* What was fetched is submitted; a machine without its first user starts anew.
LEMMA FetchInv == ASSUME UserDriveInv, FetchDone PROVE UserDriveInv'
<1>1. /\ spent' = spent /\ spent \in [Events -> Nat] /\ "fault" \in Events
      /\ poll \in Polls /\ poll.say \in [Users -> Status] /\ poll.again \in {"no", "later", "now"}
  BY DEF FetchDone, UserDriveInv, StoresInv, TypeOK, Polls, Events
<1>2. CASE Fresh
  <2>1. spent' \in [Events -> Nat] /\ spent'["fault"] >= spent["fault"]
    BY <1>1
  <2> QED BY <1>2, <2>1, FreshInv
<1>3. CASE ~Fresh
  <2> DEFINE job == [kind |-> "cloud", say |-> poll.say]
  <2>1. /\ users' = Submit(users, job) /\ Over(poll.again)
        /\ UNCHANGED <<drives, usersFile, drivesFile, roots, dirs, stuck, cloud, notice>>
    BY <1>3 DEF FetchDone
  <2>2. job \in UserJobs
    BY <1>1 DEF UserJobs
  <2> HIDE DEF job
  <2>3. poll' \in Polls /\ (poll'.served => poll'.state = "reading")
    BY <1>1, <2>1, OverIs
  <2>4. spent' \in [Events -> Nat] /\ spent'["fault"] = spent["fault"]
    BY <1>1
  <2> QED BY <2>1, <2>2, <2>3, <2>4, ToUsersInv
<1> QED BY <1>2, <1>3

LEMMA NextInv == ASSUME UserDriveInv, [Next]_vars PROVE UserDriveInv'
<1>1. CASE Crash
  <2>1. spent' \in [Events -> Nat] /\ spent'["fault"] >= spent["fault"] /\ Fresh
    BY <1>1, SpendIs DEF Crash, Events
  <2> QED BY <2>1, FreshInv
<1>2. CASE UNCHANGED vars
  BY <1>2 DEF vars, UserDriveInv, StoresInv, TypeOK, OneHome, Begun, Calm, Settled, Synced, Cleaned
<1> QED BY <1>1, <1>2, UsersInv, DrivesInv, FailInv, CallsInv, CloudInv, FetchInv DEF Next

\* However calls, saves, polls and crashes interleave: one home and one built-in drive each;
\* and between two failures, at rest, the memory is what is on disk, the index and the
\* disk follow, and a deleted user's drives end deleted.
THEOREM Invariant == Spec => []UserDriveInv
BY InitInv, NextInv, PTL DEF Spec

\* storeSave's check (User.js 275): what is on disk never has more active users than ten.
THEOREM Limited == Spec => []ActiveLimit
<1>1. UserDriveInv => ActiveLimit
  <2> SUFFICES ASSUME UserDriveInv PROVE ActiveLimit
    OBVIOUS
  <2>1. ~(Cardinality(Active(usersFile)) > MaxActive)
    BY DEF UserDriveInv, Begun, TooMany
  <2>2. Cardinality(Active(usersFile)) \in Nat
    BY UsersAssumption, FS_Subset, FS_CardinalityType DEF Active
  <2> QED BY <2>1, <2>2, BoundsAssumption DEF ActiveLimit
<1> QED BY <1>1, Invariant, PTL

\* handleUserUpdate and handleUserDriveUpdate together: a deleted user leaves no drive
\* behind, whatever was under way when the user was deleted or the process died, but for a
\* directory whose last removal failed.
THEOREM Removes == Spec => []DeletedIsCleaned
<1>1. UserDriveInv => DeletedIsCleaned
  <2> SUFFICES ASSUME UserDriveInv, AtRest,
                      NEW d \in Of(drives.data, "home") \cup Of(drives.data, "backup"),
                      usersFile[drives.data[d].owner] = "DELETED"
               PROVE  drivesFile[d].deleted /\ (d \notin roots \cup dirs \/ d \in stuck)
    BY DEF DeletedIsCleaned
  <2>1. /\ users.phase = "idle" /\ ~users.stained /\ users.data = usersFile
        /\ drives.phase = "idle" /\ drives.data = drivesFile /\ drives.staged = drives.data
        /\ drives.queue = <<>> /\ Synced /\ Cleaned
    BY DEF UserDriveInv, StoresInv, TypeOK, AtRest, Calm, Begun, Settled
  <2> DEFINE u == drives.data[d].owner
  <2>2. d \in Drives /\ u \in Users /\ u \in Deleted(users.data)
    BY <2>1, TypesIs DEF Of, Tables, Deleted
  <2>3. Kept(drives.data, u) = {}
    BY <2>1, <2>2 DEF Cleaned, Ends
  <2>4. drives.data[d].deleted
    BY <2>3 DEF Kept
  <2>5. d \in Removed(users.data, drives.data)
    BY <2>1, <2>2, <2>4 DEF Removed, Valid, Deleted
  <2>6. d \notin roots \cup dirs \/ d \in stuck
    BY <2>1, <2>5 DEF Synced
  <2> QED BY <2>1, <2>4, <2>6
<1> QED BY <1>1, Invariant, PTL

\* handleUserDriveUpdate: the index has a root and the disk a directory for each drive that
\* is not deleted, and no other root but a home that came back; but for those that could not
\* be made or removed at the last Update.
THEOREM Serves == Spec => []RootsServeLive
<1>1. UserDriveInv => RootsServeLive
  <2> SUFFICES ASSUME UserDriveInv, AtRest
               PROVE  /\ Live(users.data, drives.data) \ stuck \subseteq roots \cap dirs
                      /\ \A d \in roots \ stuck : ~drives.data[d].deleted \/
                                            users.data[drives.data[d].owner] # "DELETED"
    BY DEF RootsServeLive
  <2>1. /\ Live(users.data, drives.data) \ stuck \subseteq roots \cap dirs
        /\ roots \subseteq Valid(users.data, drives.data)
        /\ roots \cap Removed(users.data, drives.data) \subseteq stuck
    BY DEF UserDriveInv, AtRest, Calm, Synced
  <2>2. ASSUME NEW d \in roots \ stuck
        PROVE  ~drives.data[d].deleted \/ users.data[drives.data[d].owner] # "DELETED"
    BY <2>1 DEF Removed
  <2> QED BY <2>1, <2>2
<1> QED BY <1>1, Invariant, PTL
=============================================================================
