------------------------------ MODULE UserDrive ------------------------------
(***************************************************************************)
(* src/src/fruitmix/User.js, Drive.js and what VFS.js does with them: the  *)
(* users, who come from the cloud; their drives; the directories on disk   *)
(* and the roots of the index.  User and Drive keep one DataStore each and *)
(* follow each other by its Update events.                                 *)
(*                                                                         *)
(* The products are winas and ws215i (IS_WISNUC): users and public drives  *)
(* cannot be made by the API, a user can be deleted by it.  A store is the *)
(* atomic one that DataStore implements; the functions it is given run     *)
(* when their turn comes, and the cloud's changes the user objects in      *)
(* place.  A user is its winasUserId, of which there is one uuid.          *)
(***************************************************************************)
EXTENDS Integers, Sequences, FiniteSets, SequencesExt

CONSTANTS Users, Admin,   \* cloud users, and the owner of the device
          Drives,         \* 1 .. n, drive uuids
          MaxActive,      \* 10 in storeSave
          InitialCloud,   \* the users the cloud knows of at first
          Bounds,         \* how often each kind of event may come from outside,
          MaxEvents       \* and how many of them altogether

Events == {"crash", "fault", "disk", "drop", "cloud", "timer", "bind", "delete", "call"}
ASSUME UsersAssumption == Admin \in Users /\ IsFiniteSet(Users)
ASSUME DrivesAssumption == Drives = 1 .. Cardinality(Drives)
ASSUME CloudAssumption ==
  InitialCloud \in [Users -> {"none", "ACTIVE", "INACTIVE", "DELETED"}] /\ InitialCloud[Admin] = "ACTIVE"
ASSUME BoundsAssumption ==
  MaxActive \in Nat \ {0} /\ Bounds \in [Events -> Nat] /\ MaxEvents \in Nat

VARIABLES users, drives,          \* the stores: phase, data, what is being saved, queue
          usersFile, drivesFile,
          roots,                  \* forest.roots
          dirs,                   \* directories under drives/ on disk
          stuck,                  \* drives whose directory could last not be made or removed
          poll,                   \* the state of User: the request to the cloud
          cloud, notice,          \* what the cloud knows; a userUpdate message under way
          spent

vars == <<users, drives, usersFile, drivesFile, roots, dirs, stuck, poll, cloud, notice, spent>>

Status == {"none", "ACTIVE", "INACTIVE", "DELETED"}
Nobody == [u \in Users |-> "none"]
NoDrive == [kind |-> "none", owner |-> Admin, deleted |-> FALSE]
NoDrives == [d \in Drives |-> NoDrive]
NoPoll == [state |-> "none", say |-> Nobody, served |-> FALSE, again |-> "no"]

Active(U) == {u \in Users : U[u] = "ACTIVE"}
Deleted(U) == {u \in Users : U[u] = "DELETED"}
Of(S, kind) == {d \in Drives : S[d].kind = kind}

UserJobs == [kind : {"bind"}] \cup [kind : {"delete"}, user : Users]
            \cup [kind : {"cloud"}, say : [Users -> Status]]
DriveJobs == [kind : {"list"}, user : Users, home : BOOLEAN, builtin : BOOLEAN]
             \cup [kind : {"backup"}, user : Users]
             \cup [kind : {"unbackup"}, user : Users, drive : Drives]
             \cup [kind : {"clean"}, users : SUBSET Users]
Tables == [Drives -> [kind : {"none", "home", "built-in", "backup"}, owner : Users,
                      deleted : BOOLEAN]]
Stores(D, J) == [phase : {"loading", "idle", "saving"}, data : D, staged : D,
                 queue : Seq(J), stained : BOOLEAN]
Polls == [state : {"none", "idle", "pending", "reading"}, say : [Users -> Status],
          served : BOOLEAN, again : {"no", "later", "now"}]

TypeOK ==
  /\ users \in Stores([Users -> Status], UserJobs) /\ usersFile \in [Users -> Status]
  /\ drives \in Stores(Tables, DriveJobs) /\ drivesFile \in Tables
  /\ users.phase = "idle" => users.queue = <<>>
  /\ drives.phase = "idle" => drives.queue = <<>>
  /\ roots \subseteq dirs /\ dirs \subseteq Drives /\ stuck \subseteq Drives
  /\ cloud \in [Users -> Status] /\ notice \in BOOLEAN
  /\ poll \in Polls /\ (poll.served => poll.state = "reading")
  /\ spent \in [Events -> Nat]

-----------------------------------------------------------------------------
\* What a job makes of the data: the data after it ran, its result, whether that is saved
\* (or refused, or the data it was given), and whether the data was changed all the same.
Result(data, staged, saves, stained) ==
  [data |-> data, staged |-> staged, saves |-> saves, stained |-> stained]

\* User: the functions given to storeSave.  A cloud update sets the users there are in
\* place, whether or not the result is then refused.
TooMany(U) == Cardinality(Active(U)) > MaxActive
\* Mutant: the check counts the users there were.
AcceptsBefore(old, new) == ~TooMany(old)
Accepts(old, new) == ~TooMany(new)
Merge(U, say) == [u \in Users |-> IF say[u] = "none" THEN U[u] ELSE say[u]]
UserJob(job, U) ==
  CASE job.kind = "bind" ->
         LET V == IF U[Admin] = "none" THEN [Nobody EXCEPT ![Admin] = "ACTIVE"] ELSE U
         IN  Result(U, V, Accepts(U, V), FALSE)
    [] job.kind = "delete" ->
         LET V == [U EXCEPT ![job.user] = "DELETED"]
         IN  Result(U, V, U[job.user] \notin {"none", "DELETED"} /\ Accepts(U, V), FALSE)
    [] job.kind = "cloud" ->
         LET V == Merge(U, job.say)
             W == [u \in Users |-> IF U[u] = "none" THEN "none" ELSE V[u]]
         IN  Result(W, V, Accepts(U, V), W # U /\ ~Accepts(U, V))

\* Drive: retrieveDrives, createBackupDrive, deleteBackupDrive, handleUserUpdate.
Free(S) == CHOOSE d \in Of(S, "none") : \A e \in Of(S, "none") : d <= e
Add(S, kind, u) == [S EXCEPT ![Free(S)] = [kind |-> kind, owner |-> u, deleted |-> FALSE]]
HomeOf(S, u) == {d \in Of(S, "home") : S[d].owner = u}
Furnish(S, u, home, builtin) ==
  LET T == IF home THEN Add(S, "home", u) ELSE S
  IN  IF builtin THEN Add(T, "built-in", Admin) ELSE T
\* Mutant: what is missing is decided when the call comes in.
MissingAtCall(S, job) == [home |-> job.home, builtin |-> job.builtin]
Missing(S, job) == [home |-> HomeOf(S, job.user) = {}, builtin |-> Of(S, "built-in") = {}]
DriveJob(job, S) ==
  CASE job.kind = "list" ->
         LET m == Missing(S, job)
         IN  Result(S, Furnish(S, job.user, m.home, m.builtin), m.home \/ m.builtin, FALSE)
    [] job.kind = "backup" -> Result(S, Add(S, "backup", job.user), TRUE, FALSE)
    [] job.kind = "unbackup" ->
         LET d == S[job.drive]
         IN  Result(S, [S EXCEPT ![job.drive].deleted = TRUE],
                    d.kind = "backup" /\ d.owner = job.user /\ ~d.deleted, FALSE)
    [] job.kind = "clean" ->
         Result(S, [d \in Drives |->
                      IF S[d].kind \in {"home", "backup"} /\ S[d].owner \in job.users
                      THEN [S[d] EXCEPT !.deleted = TRUE] ELSE S[d]], TRUE, FALSE)

Perform(job, data) == IF job.kind \in {"bind", "delete", "cloud"} THEN UserJob(job, data)
                      ELSE DriveJob(job, data)

\* A store takes its queue: it answers the jobs that throw or return the data they
\* were given, up to one whose result it saves.
\* Mutant: a job that is answered at once leaves those behind it in the queue.
ServeOne(S, queue) ==
  LET idle == [S EXCEPT !.phase = "idle", !.staged = S.data, !.queue = queue]
      r == Perform(Head(queue), S.data)
  IN  IF queue = <<>> THEN idle
      ELSE [phase |-> IF r.saves THEN "saving" ELSE "idle", data |-> r.data,
            staged |-> IF r.saves THEN r.staged ELSE r.data, queue |-> Tail(queue),
            stained |-> S.stained \/ r.stained]
Take(T, job) ==
  IF T.phase = "saving" THEN [T EXCEPT !.queue = Append(@, job)]
  ELSE LET r == Perform(job, T.data)
       IN  [phase |-> IF r.saves THEN "saving" ELSE "idle", data |-> r.data,
            staged |-> IF r.saves THEN r.staged ELSE r.data, queue |-> <<>>,
            stained |-> T.stained \/ r.stained]
Rested(S) == [S EXCEPT !.phase = "idle", !.staged = S.data, !.queue = <<>>]
Serve(S, queue) ==
  LET T[i \in 0 .. Len(queue)] ==
        IF i = 0 THEN Rested(S) ELSE Take(T[i - 1], queue[i])
  IN  T[Len(queue)]
Submit(S, job) ==
  IF S.phase = "idle" THEN Serve(S, <<job>>)
  ELSE [S EXCEPT !.queue = Append(@, job)]
Loading(data, queue) ==
  [phase |-> "loading", data |-> data, staged |-> data, queue |-> queue, stained |-> FALSE]

\* handleUserDriveUpdate(): drives of users that exist; a deleted backup drive, and the
\* deleted home of a deleted user, goes from the disk.  A directory that cannot be made or
\* removed is logged, and tried again at the next Update.
Valid(U, S) == Of(S, "built-in") \cup
               {d \in Of(S, "home") \cup Of(S, "backup") : U[S[d].owner] # "none"}
Live(U, S) == {d \in Valid(U, S) : ~S[d].deleted}
Removed(U, S) == {d \in Valid(U, S) : S[d].deleted /\ (S[d].kind = "home" => U[S[d].owner] = "DELETED")}
Spend(what) == /\ spent[what] < Bounds[what] /\ SumFunction(spent) < MaxEvents
               /\ spent' = [spent EXCEPT ![what] = @ + 1]
Follow(U, S) ==
  LET new == Live(U, S) \ roots
  IN  \E F \in SUBSET ((Removed(U, S) \cap dirs) \cup new) : \E made \in SUBSET (F \cap new) :
        /\ roots' = ((roots \cap Valid(U, S)) \ (Removed(U, S) \ F)) \cup (new \ F)
        /\ dirs' = (dirs \ (Removed(U, S) \ F)) \cup (new \ F) \cup made
        /\ stuck' = F
        /\ IF F = {} THEN UNCHANGED spent ELSE Spend("disk")

\* The Update event of users reaches Drive, VFS, and, the first time, the poll.  A
\* function that ran meanwhile has changed the objects the event carries.
\* Mutants: Drive does not hear of the load; VFS follows the drives only.
UserFollowsNot(U, S) == UNCHANGED <<roots, dirs, stuck, spent>>
CleansLater(U) == poll.state # "none" /\ Deleted(U) # {}
Cleans(U) == Deleted(U) # {}
UserFollows(U, S) == Follow(U, S)
UsersUpdate ==
  /\ drives' = IF Cleans(users'.data)
               THEN Submit(drives, [kind |-> "clean", users |-> Deleted(users'.data)])
               ELSE drives
  /\ UserFollows(users'.data, drives.data)
  /\ poll' = IF poll.state = "none" THEN [poll EXCEPT !.state = "pending"] ELSE poll

-----------------------------------------------------------------------------
Bind == [kind |-> "bind"]

\* A new Fruitmix, given the bound user or not.
Fresh ==
  /\ \E queue \in {<<>>, <<Bind>>} : users' = Loading(Nobody, queue)
  /\ drives' = Loading(NoDrives, <<>>)
  /\ roots' = {} /\ stuck' = {} /\ poll' = NoPoll /\ notice' = FALSE
  /\ UNCHANGED <<usersFile, drivesFile, dirs, cloud>>

Init ==
  /\ \E queue \in {<<>>, <<Bind>>} : users = Loading(Nobody, queue)
  /\ drives = Loading(NoDrives, <<>>)
  /\ usersFile = Nobody /\ drivesFile = NoDrives
  /\ roots = {} /\ dirs = {} /\ stuck = {} /\ poll = NoPoll
  /\ cloud = InitialCloud /\ notice = FALSE
  /\ spent = [e \in Events |-> 0]

LoadUsers ==
  /\ users.phase = "loading"
  /\ users' = Serve(Loading(usersFile, <<>>), users.queue)
  /\ UsersUpdate
  /\ UNCHANGED <<usersFile, drivesFile, cloud, notice>>
LoadDrives ==
  /\ drives.phase = "loading"
  /\ drives' = Serve(Loading(drivesFile, <<>>), drives.queue)
  /\ Follow(users.data, drivesFile)
  /\ UNCHANGED <<users, usersFile, drivesFile, poll, cloud, notice>>

SavedUsers ==
  /\ users.phase = "saving"
  /\ usersFile' = users.staged
  /\ users' = Serve(Loading(users.staged, <<>>), users.queue)
  /\ UsersUpdate
  /\ UNCHANGED <<drivesFile, cloud, notice>>
UsersFail ==
  /\ users.phase = "saving" /\ Spend("fault")
  /\ users' = Serve(users, users.queue)
  /\ UNCHANGED <<drives, usersFile, drivesFile, roots, dirs, stuck, poll, cloud, notice>>
SavedDrives ==
  /\ drives.phase = "saving"
  /\ drivesFile' = drives.staged
  /\ drives' = Serve(Loading(drives.staged, <<>>), drives.queue)
  /\ Follow(users.data, drives.staged)
  /\ UNCHANGED <<users, usersFile, poll, cloud, notice>>
DrivesFail ==
  /\ drives.phase = "saving" /\ Spend("fault")
  /\ drives' = Serve(drives, drives.queue)
  /\ UNCHANGED <<users, usersFile, drivesFile, roots, dirs, stuck, poll, cloud, notice>>

-----------------------------------------------------------------------------
\* Calls of users whom Auth finds active in memory.
ToUsers(job) ==
  /\ users' = Submit(users, job)
  /\ UNCHANGED <<drives, usersFile, drivesFile, roots, dirs, stuck, poll, cloud, notice>>
ToDrives(job) ==
  /\ drives' = Submit(drives, job)
  /\ UNCHANGED <<users, usersFile, drivesFile, roots, dirs, stuck, poll, cloud, notice>>

BindFirstUser == Spend("bind") /\ ToUsers(Bind)
\* The test for winas has a blank in it (User.js 576): the call goes through.
DeleteUser(u) ==
  /\ Admin \in Active(users.data) /\ users.data[u] \notin {"none", "DELETED"}
  /\ Spend("delete") /\ ToUsers([kind |-> "delete", user |-> u])
List(u) ==
  /\ u \in Active(users.data) /\ Spend("call")
  /\ ToDrives([kind |-> "list", user |-> u, home |-> HomeOf(drives.data, u) = {},
               builtin |-> Of(drives.data, "built-in") = {}])
Backup(u) == /\ u \in Active(users.data) /\ Spend("call")
             /\ ToDrives([kind |-> "backup", user |-> u])
Unbackup(u, d) == /\ u \in Active(users.data) /\ d \in Of(drives.data, "backup")
                  /\ Spend("call") /\ ToDrives([kind |-> "unbackup", user |-> u, drive |-> d])

-----------------------------------------------------------------------------
\* The cloud, and the messages it sends through the daemon.
CloudChanges(u, s) ==
  /\ u # Admin /\ s # "none" /\ s # cloud[u] /\ Spend("cloud")
  /\ cloud' = [cloud EXCEPT ![u] = s] /\ notice' = TRUE
  /\ UNCHANGED <<users, drives, usersFile, drivesFile, roots, dirs, stuck, poll>>

Read == [NoPoll EXCEPT !.state = "reading"]
\* readi(); mutant: the reading under way will do.
ReadiJoins == IF poll.state \in {"none", "reading"} THEN poll ELSE Read
Readi == IF poll.state = "none" THEN poll
         ELSE IF poll.state = "reading" THEN [poll EXCEPT !.again = "now"] ELSE Read
OnlyPolls == UNCHANGED <<users, drives, usersFile, drivesFile, roots, dirs, stuck, cloud>>
Notify == /\ notice /\ notice' = FALSE /\ poll' = Readi
          /\ OnlyPolls /\ UNCHANGED spent
PendingTimer == /\ poll.state = "pending" /\ poll' = Read
                /\ OnlyPolls /\ UNCHANGED <<notice, spent>>
IdleTimer == /\ poll.state = "idle" /\ Spend("timer") /\ poll' = Read
             /\ OnlyPolls /\ UNCHANGED notice
CloudAnswers == /\ poll.state = "reading" /\ ~poll.served
                /\ poll' = [poll EXCEPT !.say = cloud, !.served = TRUE]
                /\ OnlyPolls /\ UNCHANGED <<notice, spent>>

\* The end of a request: again, in a minute, or idle.
Over(again) == poll' = CASE again = "now" -> Read
                         [] again = "later" -> [NoPoll EXCEPT !.state = "pending"]
                         [] again = "no" -> [NoPoll EXCEPT !.state = "idle"]
\* updateUsers() of a machine without a first user throws, in a callback.
FetchDone ==
  /\ poll.served
  /\ \/ /\ users.data[Admin] = "none" /\ Fresh
     \/ /\ users.data[Admin] # "none"
        /\ users' = Submit(users, [kind |-> "cloud", say |-> poll.say])
        /\ Over(poll.again)
        /\ UNCHANGED <<drives, usersFile, drivesFile, roots, dirs, stuck, cloud, notice>>
  /\ UNCHANGED spent
FetchFails ==
  /\ poll.state = "reading" /\ Spend("drop")
  /\ Over(IF poll.again = "no" THEN "later" ELSE poll.again)
  /\ OnlyPolls /\ UNCHANGED notice

Crash == Spend("crash") /\ Fresh

-----------------------------------------------------------------------------
Next ==
  \/ LoadUsers \/ LoadDrives \/ SavedUsers \/ SavedDrives \/ UsersFail \/ DrivesFail
  \/ BindFirstUser
  \/ \E u \in Users : DeleteUser(u) \/ List(u) \/ Backup(u)
  \/ \E u \in Users, d \in Drives : Unbackup(u, d)
  \/ \E u \in Users, s \in Status : CloudChanges(u, s)
  \/ Notify \/ PendingTimer \/ IdleTimer \/ CloudAnswers \/ FetchDone \/ FetchFails
  \/ Crash

Spec == Init /\ [][Next]_vars

\* System calls return, the cloud answers or the request fails, messages are delivered,
\* the timer of Pending fires.  The three hours of Idle are not counted on.
Polling == PendingTimer \/ CloudAnswers \/ FetchDone
FairSpec ==
  /\ Spec
  /\ WF_vars(LoadUsers \/ SavedUsers) /\ WF_vars(LoadDrives \/ SavedDrives)
  /\ WF_vars(Notify) /\ WF_vars(Polling)

-----------------------------------------------------------------------------
\* retrieveDrives makes a home and the built-in drive on demand: never a second one,
\* however the calls and the saves interleave (station.apib 1326: one home each).
OneEach(S) == /\ \A d, e \in Of(S, "built-in") : d = e
              /\ \A u \in Users : \A d, e \in HomeOf(S, u) : d = e
OneHome == OneEach(drives.data) /\ OneEach(drives.staged) /\ OneEach(drivesFile)

\* What is saved: the types, and one home each.
StoresInv == TypeOK /\ OneHome

\* "active users max 10" (User.js 275): what is saved never has more, whatever a refused
\* update has left in memory.
ActiveLimit == Cardinality(Active(usersFile)) <= MaxActive

\* When both stores are at rest, the drives of a deleted user are recorded as deleted,
\* and gone from the index and the disk: a crash between the two saves, or calls of
\* that user on their way, do not bring them back.  Failed saves are not repeated; after
\* an update that was refused the memory is ahead of what Drive and VFS were told; and the
\* directory of a stuck drive stays until the next Update.
AtRest == users.phase = "idle" /\ drives.phase = "idle" /\ ~users.stained /\ spent["fault"] = 0
DeletedIsCleaned ==
  AtRest => \A d \in Of(drives.data, "home") \cup Of(drives.data, "backup") :
              usersFile[drives.data[d].owner] = "DELETED" =>
                drivesFile[d].deleted /\ (d \notin roots \cup dirs \/ d \in stuck)

\* The index has a root, and the disk a directory, for each drive that is not deleted (nor
\* stuck); another root is only that of a home whose owner was deleted and came back.
RootsServeLive ==
  AtRest => /\ Live(users.data, drives.data) \ stuck \subseteq roots \cap dirs
            /\ \A d \in roots \ stuck : ~drives.data[d].deleted \/ users.data[drives.data[d].owner] # "DELETED"

\* What the safety properties rest on, between two failures.  A save is begun only with
\* what is accepted; a store at rest has in memory what is on disk.
Begun == /\ users.phase = "saving" => ~TooMany(users.staged)
         /\ ~TooMany(usersFile)
         /\ drives.phase = "idle" => drives.staged = drives.data
Calm == spent["fault"] = 0
Settled == /\ users.phase = "idle" /\ ~users.stained => users.data = usersFile
           /\ drives.phase = "idle" => drives.data = drivesFile

\* The index and the disk follow the users at rest and the drives in memory.
Synced ==
  users.phase = "idle" /\ ~users.stained =>
    /\ Live(users.data, drives.data) \ stuck \subseteq roots \cap dirs
    /\ roots \subseteq Valid(users.data, drives.data) /\ roots \cap Removed(users.data, drives.data) \subseteq stuck
    /\ dirs \cap Removed(users.data, drives.data) \subseteq stuck

\* Once users are at rest, a deleted user's drives are deleted in what Drive has, saves or
\* will read, or by a job on its way; no job behind it makes that user another drive.
Kept(S, u) == {d \in Of(S, "home") \cup Of(S, "backup") : S[d].owner = u /\ ~S[d].deleted}
Makes(job, u) == job.kind \in {"list", "backup"} /\ job.user = u
Clears(job, u) == job.kind = "clean" /\ u \in job.users
Ends(S, queue, u) ==
  \/ /\ Kept(S, u) = {} /\ \A i \in 1 .. Len(queue) : ~Makes(queue[i], u)
  \/ \E i \in 1 .. Len(queue) :
       Clears(queue[i], u) /\ \A k \in i + 1 .. Len(queue) : ~Makes(queue[k], u)
Cleaned ==
  users.phase = "idle" /\ ~users.stained =>
    \A u \in Deleted(users.data) :
      Ends(IF drives.phase = "loading" THEN drivesFile ELSE drives.staged, drives.queue, u)
UserDriveInv == StoresInv /\ Begun /\ (Calm => Settled /\ Synced /\ Cleaned)

\* What the cloud says in the end is what is saved in the end, although messages come
\* during a request, requests fail and the process dies.  Excepted: a machine without
\* its first user, a refused list, users deleted here, and saves that failed.
Stored == \A u \in Users : cloud[u] # "none" => usersFile[u] = cloud[u]
CloudStored ==
  <>[](\/ Stored \/ usersFile[Admin] = "none" \/ TooMany(Merge(usersFile, cloud))
       \/ spent["delete"] > 0 \/ spent["fault"] > 0)
=============================================================================
