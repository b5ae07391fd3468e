-------------------------------- MODULE Members --------------------------------
(***************************************************************************)
(* src/src/fruitmix/User.js and Drive.js where the API makes and changes   *)
(* users and public drives (the product is not IS_WISNUC; UserDrive.tla    *)
(* has the others, whose users come from the cloud), and the two places    *)
(* that say who may use a drive: Drive.js and VFS.js.                      *)
(*                                                                         *)
(* A call is checked against what is in memory, its save runs when its     *)
(* turn in the DataStore comes; calls are numbered as they come.  Names of *)
(* users stand for their phone numbers and phicommUserIds too, which are   *)
(* checked alike.  A user's or drive's uuid is its place in the array.     *)
(***************************************************************************)
EXTENDS Integers, Sequences, FiniteSets, SequencesExt

CONSTANTS Calls, Ops,    \* [do, by, on, name, status, list]
          Files,         \* users.json and drives.json to begin with: [users, drives]
          MaxPublic,     \* 3 in createPublicDrive()
          MaxActive,     \* 10 in storeSave() of the users
          MaxFaults

VARIABLES users,         \* [data, file, queue, staged]: name, status
          drives,        \* [data, file, queue, staged]: kind, owner, label, list, deleted
          call,          \* [op, pc, answer]
          faults

vars == <<users, drives, call, faults>>

First == 1
Everybody == {0}         \* the writelist '*'
Free == [by |-> -1, value |-> <<>>]
Store(value) == [data |-> value, file |-> value, queue |-> <<>>, staged |-> Free]
Alive(U) == {u \in DOMAIN U : U[u].status # "DELETED"}
Active(U) == {u \in DOMAIN U : U[u].status = "ACTIVE"}
Live(D) == {d \in DOMAIN D : ~D[d].deleted}
Public(D) == {d \in Live(D) : D[d].kind \in {"built-in", "public"}}

TypeOK ==
  /\ \A U \in {users.data, users.file} : \A u \in DOMAIN U : U[u].status \in {"ACTIVE", "INACTIVE", "DELETED"}
  /\ \A D \in {drives.data, drives.file} : \A d \in DOMAIN D :
       /\ D[d].kind \in {"built-in", "public", "home", "backup"}
       /\ D[d].list = Everybody \/ D[d].list \subseteq DOMAIN users.data
  /\ \A c \in Calls : call[c].pc \in {"idle", "waiting", "done", "unanswered"} /\ call[c].answer \in {0, 200, 400, 403, 404, 500}

-----------------------------------------------------------------------------
\* createUser() looks at the first user of that name only; updateUser() at all.
Named(U, name) == {u \in DOMAIN U : U[u].name = name}
TakenFirst(U, name) ==
  Named(U, name) # {} /\ U[CHOOSE u \in Named(U, name) : \A v \in Named(U, name) : u <= v].status # "DELETED"
Taken(U, name) == Named(U, name) \cap Alive(U) # {}

\* The functions given to save: the array they return, or <<>> for an exception.
\* Mutant: a deleted user is updated, too.
UpdateUserAny(op, U) ==
  IF op.name # "" /\ Taken(U, op.name) THEN <<>>
  ELSE [U EXCEPT ![op.on] = [name |-> IF op.name = "" THEN @.name ELSE op.name,
                             status |-> IF op.status = "" THEN @.status ELSE op.status]]
UpdateUser(op, U) ==
  IF op.on \notin Alive(U) \/ (op.name # "" /\ Taken(U, op.name)) THEN <<>>
  ELSE [U EXCEPT ![op.on] = [name |-> IF op.name = "" THEN @.name ELSE op.name,
                             status |-> IF op.status = "" THEN @.status ELSE op.status]]
CreateUser(op, U) ==
  IF TakenFirst(U, op.name) THEN <<>> ELSE Append(U, [name |-> op.name, status |-> "ACTIVE"])

Labelled(D, label) == \E d \in Live(D) : D[d].label = label
\* Mutant: one more than there may be.
CreateDriveMore(op, D) ==
  IF Cardinality(Public(D)) > MaxPublic \/ (op.name # "" /\ Labelled(D, op.name)) THEN <<>>
  ELSE Append(D, [kind |-> "public", owner |-> 0, label |-> op.name, list |-> op.list, deleted |-> FALSE])
CreateDrive(op, D) ==
  IF Cardinality(Public(D)) >= MaxPublic \/ (op.name # "" /\ Labelled(D, op.name)) THEN <<>>
  ELSE Append(D, [kind |-> "public", owner |-> 0, label |-> op.name, list |-> op.list, deleted |-> FALSE])
\* A writelist is for public drives; the label of a drive is refused if it has it already.
UpdateDrive(op, D) ==
  IF op.name # "" /\ Labelled(D, op.name) THEN <<>>
  ELSE [D EXCEPT ![op.on].label = IF op.name = "" THEN @ ELSE op.name,
                 ![op.on].list = IF op.list = {} \/ D[op.on].kind \notin {"built-in", "public"} THEN @ ELSE op.list]
UpdateBackup(op, D) ==
  IF op.by # D[op.on].owner THEN <<>>
  ELSE [D EXCEPT ![op.on].label = IF op.name = "" THEN @ ELSE op.name]
DeleteDrive(op, D) == IF D[op.on].deleted \/ (D[op.on].kind = "backup" /\ D[op.on].owner # op.by) THEN <<>>
                      ELSE [D EXCEPT ![op.on].deleted = TRUE]
\* LIST makes the home of who asks and the built-in drive if there never was one; it does not
\* look at MaxPublic.  With both there the array itself is returned.
Home(owner) == [kind |-> "home", owner |-> owner, label |-> "", list |-> {}, deleted |-> FALSE]
BuiltIn == [kind |-> "built-in", owner |-> 0, label |-> "", list |-> Everybody, deleted |-> FALSE]
HasHome(D, owner) == \E d \in DOMAIN D : D[d].kind = "home" /\ D[d].owner = owner
HasBuiltIn(D) == \E d \in DOMAIN D : D[d].kind = "built-in"
AddHome(owner, D) == IF HasHome(D, owner) THEN D ELSE Append(D, Home(owner))
AddBuiltIn(D) == IF HasBuiltIn(D) THEN D ELSE Append(D, BuiltIn)
ListDrives(op, D) == AddBuiltIn(AddHome(op.by, D))
Unchanged(op, D) == op.do = "drive LIST" /\ HasHome(D, op.by) /\ HasBuiltIn(D)
\* handleUserUpdate(): not by storeSave().
Clean(gone, D) ==
  [d \in DOMAIN D |->
     CASE D[d].kind \in {"home", "backup"} /\ D[d].owner \in gone -> [D[d] EXCEPT !.deleted = TRUE]
       [] D[d].kind = "public" /\ D[d].list # Everybody -> [D[d] EXCEPT !.list = @ \ gone]
       [] OTHER -> D[d]]

\* storeSave(): the first user is in every list, also of the drives in memory that the new
\* array shares.
\* Mutant: in that of the last drive.
RuleLast(D) == [D EXCEPT ![Len(D)].list = IF @ = Everybody THEN @ ELSE @ \cup {First}]
Rule(D) == [d \in DOMAIN D |->
              IF d \in Public(D) /\ D[d].list # Everybody THEN [D[d] EXCEPT !.list = @ \cup {First}] ELSE D[d]]

-----------------------------------------------------------------------------
\* User.POST, PATCH and DELETE; Drive.POST, PATCH and DELETE: what they refuse at once, in
\* the order they look at it.
\* Of several reasons the first is taken; 0 stands for what is for the store.
Reason(s) == IF \E i \in DOMAIN s : s[i] # 0 THEN Head(SelectSeq(s, LAMBDA r : r # 0)) ELSE 0
If(cond, answer) == IF cond THEN answer ELSE 0
UserCheck(op) ==
  LET U == users.data
      admin == op.by = First
  IN  CASE op.do = "user POST" -> If(~admin, 403)
        [] op.do = "user PATCH" ->
             Reason(<<If(op.on \notin Alive(U), 404),
                      If(op.name # "" /\ TakenFirst(U, op.name), 400),
                      If(op.status # "" /\ ~admin, 403),
                      If(op.status # "" /\ op.by = op.on, 400),
                      If(~admin /\ op.by # op.on, 403)>>)
        [] op.do = "password" -> Reason(<<If(op.on \notin Alive(U), 404), If(op.by # op.on, 403)>>)
        [] op.do = "user DELETE" -> Reason(<<If(op.on \notin Alive(U), 404), If(~admin, 403)>>)
DriveCheck(op) ==
  LET D == drives.data
      admin == op.by = First
      there == op.on \in DOMAIN D
      kind == IF there THEN D[op.on].kind ELSE "none"
  IN  CASE op.do = "drive POST" -> Reason(<<If(op.list # Everybody /\ ~(op.list \subseteq DOMAIN users.data), 400), If(~admin, 403)>>)
        [] op.do = "drive PATCH" ->
             Reason(<<If(op.on \notin Live(D), 404),
                      If(op.list # {} /\ kind \in {"built-in", "home"}, 400),
                      If(op.list # Everybody /\ ~(op.list \subseteq DOMAIN users.data) /\ kind = "public", 400),
                      If(kind \in {"built-in", "public"} /\ ~admin, 403),
                      If(kind = "home" /\ op.by # D[op.on].owner, 403)>>)
        [] op.do = "drive LIST" -> 0
        [] op.do = "drive DELETE" ->
             Reason(<<If(~admin /\ kind # "backup", 403),
                      If(kind # "backup" /\ (op.on \notin Live(D) \/ kind # "public"), 400)>>)
ForUsers(op) == op.do \in {"user POST", "user PATCH", "user DELETE", "password"}
Check(op) == IF ForUsers(op) THEN UserCheck(op) ELSE DriveCheck(op)

\* storeSave() of User.js counts the users before anything is written.
UserSaved(job, U) ==
  LET op == call[job.by].op
      next == IF op.do = "user POST" THEN CreateUser(op, U) ELSE UpdateUser(op, U)
  IN  IF Cardinality(Active(next)) > MaxActive THEN <<>> ELSE next
DriveSaved(job, D) ==
  LET op == call[job.by].op
      next == CASE op.do = "drive POST" -> CreateDrive(op, D)
                [] op.do = "drive LIST" -> ListDrives(op, D)
                [] op.do = "drive PATCH" /\ D[op.on].kind = "backup" -> UpdateBackup(op, D)
                [] op.do = "drive PATCH" /\ D[op.on].kind # "backup" -> UpdateDrive(op, D)
                [] op.do = "drive DELETE" -> DeleteDrive(op, D)
  IN  IF next = <<>> THEN <<>> ELSE Rule(next)

\* What is idle takes what comes at once.  updatePassword() does nothing, nor does it answer.
Due(S) == S.staged = Free /\ S.queue # <<>>
Ask(c, op) ==
  /\ call[c].pc = "idle" /\ (\A b \in Calls : b < c => call[b].pc # "idle")
  /\ ~Due(users) /\ ~Due(drives)
  /\ op.by \in DOMAIN users.data /\ users.data[op.by].status = "ACTIVE"
  /\ IF Check(op) # 0 \/ op.do = "password"
     THEN /\ call' = [call EXCEPT ![c] = [op |-> op, pc |-> IF Check(op) # 0 THEN "done" ELSE "unanswered", answer |-> Check(op)]]
          /\ UNCHANGED <<users, drives>>
     ELSE /\ call' = [call EXCEPT ![c] = [op |-> op, pc |-> "waiting", answer |-> 0]]
          /\ users' = IF ForUsers(op) THEN [users EXCEPT !.queue = Append(@, [by |-> c, gone |-> {}])] ELSE users
          /\ drives' = IF ForUsers(op) THEN drives ELSE [drives EXCEPT !.queue = Append(@, [by |-> c, gone |-> {}])]
  /\ UNCHANGED faults
Done(c, answer) == call' = [call EXCEPT ![c].pc = "done", ![c].answer = answer]

SaveUsers ==
  /\ Due(users)
  /\ LET job == Head(users.queue)
         next == UserSaved(job, users.data)
         rest == [users EXCEPT !.queue = Tail(@)]
     IN  IF next = <<>> THEN users' = rest /\ Done(job.by, 500)
         ELSE users' = [rest EXCEPT !.staged = [by |-> job.by, value |-> next]] /\ UNCHANGED call
  /\ UNCHANGED <<drives, faults>>
SaveDrives ==
  /\ Due(drives)
  /\ LET job == Head(drives.queue)
         next == IF job.by = 0 THEN Clean(job.gone, drives.data) ELSE DriveSaved(job, drives.data)
         rest == [drives EXCEPT !.queue = Tail(@)]
         same(d) == d # call[job.by].op.on
         as_is == job.by # 0 /\ Unchanged(call[job.by].op, drives.data)
     IN  \/ next = <<>> /\ drives' = rest /\ Done(job.by, 500)
         \/ next # <<>> /\ as_is /\ drives' = [rest EXCEPT !.data = Rule(@)] /\ Done(job.by, 200)
         \/ /\ next # <<>> /\ ~as_is
            /\ drives' = [rest EXCEPT !.staged = [by |-> job.by, value |-> next],
                                      !.data = IF job.by = 0 THEN @
                                               ELSE [d \in DOMAIN @ |-> IF same(d) THEN Rule(@)[d] ELSE @[d]]]
            /\ UNCHANGED call
  /\ UNCHANGED <<users, faults>>

\* The file is written, and who asked is told; Drive hears of the users.
Written(S) == [S EXCEPT !.data = S.staged.value, !.file = S.staged.value, !.staged = Free]
UsersWritten ==
  /\ users.staged # Free /\ users' = Written(users) /\ Done(users.staged.by, 200)
  /\ LET gone == DOMAIN users'.data \ Alive(users'.data)
     IN  drives' = IF gone = {} THEN drives ELSE [drives EXCEPT !.queue = Append(@, [by |-> 0, gone |-> gone])]
  /\ UNCHANGED faults
DrivesWritten ==
  /\ drives.staged # Free /\ drives' = Written(drives)
  /\ IF drives.staged.by = 0 THEN UNCHANGED call ELSE Done(drives.staged.by, 200)
  /\ UNCHANGED <<users, faults>>
WriteFails ==
  /\ faults < MaxFaults /\ faults' = faults + 1
  /\ \/ users.staged # Free /\ users' = [users EXCEPT !.staged = Free] /\ Done(users.staged.by, 500) /\ UNCHANGED drives
     \/ /\ drives.staged # Free /\ drives' = [drives EXCEPT !.staged = Free] /\ UNCHANGED users
        /\ IF drives.staged.by = 0 THEN UNCHANGED call ELSE Done(drives.staged.by, 500)

Idle == [op |-> [do |-> "none", on |-> 0], pc |-> "idle", answer |-> 0]
Init ==
  /\ \E f \in Files : users = Store(f.users) /\ drives = Store(f.drives)
  /\ call = [c \in Calls |-> Idle] /\ faults = 0
Proceed == SaveUsers \/ SaveDrives \/ UsersWritten \/ DrivesWritten
Next == Proceed \/ WriteFails \/ \E c \in Calls, op \in Ops : Ask(c, op)
Spec == Init /\ [][Next]_vars

-----------------------------------------------------------------------------
\* Drive.LIST and Drive.GET, and VFS.userCanWriteDrive().
Listed(u, d) ==
  LET x == drives.data[d]
  IN  ~x.deleted /\ (IF x.kind \in {"home", "backup"} THEN x.owner = u ELSE x.list = Everybody \/ u \in x.list)
\* Mutant: a list is a list of those who may.
CanWriteListed(u, d) ==
  LET x == drives.data[d] IN IF x.kind \in {"home", "backup"} THEN x.owner = u ELSE u \in x.list
CanWrite(u, d) ==
  LET x == drives.data[d]
  IN  CASE x.kind \in {"home", "backup"} -> x.owner = u
        [] x.kind \notin {"home", "backup"} /\ x.list = Everybody -> TRUE
        [] x.kind \notin {"home", "backup"} /\ x.list # Everybody -> u \in x.list
\* VFS.DIR().
Opens(u, d) == ~drives.data[d].deleted /\ CanWrite(u, d)

\* A user is listed the drives whose directories are opened to him.
ListsAgree == \A u \in DOMAIN users.data, d \in DOMAIN drives.data : Listed(u, d) <=> Opens(u, d)

Upto(D, d) == {e \in Public(D) : e <= d}
Few(D) == \A d \in Public(D) : D[d].kind = "public" => Cardinality(Upto(D, d)) <= MaxPublic
Single(D) == \A d, e \in DOMAIN D :
  d # e /\ D[d].kind = D[e].kind => D[d].kind # "built-in" /\ (D[d].kind = "home" => D[d].owner # D[e].owner)
Apart(D) == \A d, e \in Live(D) :
  d # e /\ D[d].label # "" /\ D[d].label = D[e].label => "backup" \in {D[d].kind, D[e].kind}
Alone(U) == \A u, v \in Alive(U) :
  u < v /\ U[u].name = U[v].name => \E w \in DOMAIN U \ Alive(U) : w < u /\ U[w].name = U[u].name
Led(D) == \A d \in Public(D) : D[d].list = Everybody \/ First \in D[d].list

\* What the files hold to begin with, and what is asked.
UserRecs == [name : STRING, status : {"ACTIVE", "INACTIVE", "DELETED"}]
Labels == STRING \cup {""}
DriveRecs == [kind : {"built-in", "public", "home", "backup"}, owner : Nat, label : Labels, list : SUBSET Nat,
              deleted : BOOLEAN]
Inputs ==
  /\ \A f \in Files : /\ f.users \in Seq(UserRecs) /\ f.users # <<>> /\ Alone(f.users)
                      /\ f.drives \in Seq(DriveRecs) /\ Few(f.drives) /\ Single(f.drives)
                      /\ Apart(f.drives)
                      /\ First \in Alive(f.users) => Led(f.drives)
  /\ Ops \subseteq [do : {"user POST", "user PATCH", "user DELETE", "password", "drive POST", "drive PATCH",
                         "drive DELETE", "drive LIST"},
                   by : Nat, on : Nat, name : STRING, status : {"", "ACTIVE", "INACTIVE", "DELETED"},
                   list : SUBSET Nat]
  /\ Calls \subseteq Nat \ {0} /\ MaxPublic \in Nat

\* Calls of POST, PATCH, DELETE and LIST wait for each other's saves.  A public drive that was
\* POSTed is one of the first MaxPublic ones (the built-in drive, which LIST makes without
\* looking, may come behind them as one more), no user has two homes, there are not two
\* built-in drives, labels of live drives but backups differ, and so do the names of
\* users, but for a name of which the first holder was deleted.
Distinct ==
  /\ \A D \in {drives.data, drives.file} : Few(D) /\ Single(D) /\ Apart(D)
  /\ \A U \in {users.data, users.file} : Alone(U)

\* The first user is in the list of every public drive, unless he is deleted, who then is
\* taken out.
FirstIsIn == First \in Alive(users.data) => \A D \in {drives.data, drives.file} : Led(D)

\* What is deleted stays deleted, whatever was asked before.
DeletedStays ==
  /\ \A u \in DOMAIN users.file \ Alive(users.file) : u \in DOMAIN users.file' \ Alive(users.file')
  /\ \A d \in DOMAIN drives.file \ Live(drives.file) : d \in DOMAIN drives.file' \ Live(drives.file')
==============================================================================
