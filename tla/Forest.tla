-------------------------------- MODULE Forest --------------------------------
(***************************************************************************)
(* src/src/fruitmix/vfs: the in-memory index of a drive's directories.     *)
(* Each Directory (directory.js) is a state machine, Init, Idle, Pending   *)
(* or Reading, that reads its directory on disk (readdir.js) and updates   *)
(* its children from the answer; the Forest (forest.js) finds directories  *)
(* by uuid and limits the first reads.  API calls change the disk by path  *)
(* and then read the directories they touched, each with a callback.       *)
(*                                                                         *)
(* A directory is identified by its uuid, which is an extended attribute   *)
(* on disk; a rename keeps it.  Files are left out.  An exception outside  *)
(* of a request handler ends the process ("down").                         *)
(***************************************************************************)
EXTENDS Integers, Sequences, FiniteSets, SequencesExt

CONSTANTS Dirs, Root,     \* uuids, and that of the drive's root directory
          Names,
          Trees,          \* what may be on disk when the process starts
          Clients,        \* API calls; each makes one request
          ReadLimit,      \* 6 in forest.js
          MaxFaults       \* bound on what goes wrong, by what is on disk: reads that fail,
                          \* entries that cannot be read, changes in one millisecond

None == "none"
Undefined == "undefined"
Never == -1               \* the negative mtime of a Directory that was never read

VARIABLES disk,     \* each directory's place, name and mtime on disk
          node,     \* the Directory object of each uuid, if there is one
          client,   \* each call: the directories it still reads, and its turn
          due,      \* dirReadScheduled
          faults,   \* what may still go wrong
          down,
          \* Auxiliary, for the properties: the children that a directory's index may be
          \* wrong about, and those that the listing of the read under way may be.
          missed, skipped

vars == <<disk, node, client, due, faults, down, missed, skipped>>
memory == <<missed, skipped>>

ASSUME RootAssumption == Root \in Dirs /\ None \notin Dirs
ASSUME LimitAssumption == ReadLimit \in Nat \ {0} /\ MaxFaults \in [Trees -> Nat]
Places == [up : Dirs \cup {None}, name : Names \cup {None}, mtime : Nat]
\* A directory that was never there has no place and no mtime.
NotThere(T) == \A d \in Dirs : T[d].mtime = 0 => d # Root /\ T[d].up = None
ASSUME TreesAssumption == Trees \subseteq [Dirs -> Places] /\ \A T \in Trees : NotThere(T)

Absent == [state |-> "none", up |-> None, name |-> None, mtime |-> Never, queued |-> "no",
           asked |-> {}, waiting |-> {}, phase |-> "idle", path |-> <<>>, first |-> 0,
           entries |-> {}]

Indexed(N) == {d \in Dirs : N[d].state # "none"}
In(N, s) == {d \in Dirs : N[d].state = s}
Kids(N, d) == {c \in Indexed(N) : N[c].up = d}

\* The name path below the root, in the index (abspath) or on disk.
Path(T, d) ==
  LET p[x \in Dirs] == IF x = Root THEN <<>> ELSE Append(p[T[x].up], T[x].name) IN p[d]

\* path.join throws when a name is undefined.
Named(N, d) == ~Contains(Path(N, d), Undefined)

\* d's descendants in the index.
Below(N, d) ==
  LET up[x \in Dirs] == x # Root /\ (N[x].up = d \/ (N[x].up \in Dirs /\ up[N[x].up]))
  IN  {x \in Indexed(N) : up[x]}

\* Mutant: a directory is destroyed without its descendants.
SubtreeAlone(N, d) == {d}
Subtree(N, d) == {d} \cup Below(N, d)

OnDisk(d) == d = Root \/ disk[d].up # None
At(path) == {d \in Dirs : OnDisk(d) /\ Path(disk, d) = path}
DiskKids(d) == {c \in Dirs \ {Root} : disk[c].up = d}

Entries == [id : Dirs \ {Root}, name : Names \cup {None}, mtime : Nat]
Objects(path) ==
  [state : {"none", "Init", "Idle", "Pending", "Reading"}, up : Dirs \cup {None},
   name : Names \cup {None, Undefined}, mtime : Nat \cup {Never}, queued : {"no", "now"},
   asked : SUBSET Clients, waiting : SUBSET Clients,
   phase : {"idle", "stat", "list", "again", "stuck"}, path : {path}, first : Nat,
   entries : SUBSET Entries]
Calls == [todo : Seq(Dirs \cup {None}), since : Nat,
          turn : {"none", "called", "removed", "ready", "waiting", "ok", "err", "lost"}]
TypeOK ==
  /\ disk \in [Dirs -> Places] /\ NotThere(disk)
  /\ DOMAIN node = Dirs
  /\ \A d \in Dirs :
       /\ node[d] \in Objects(node[d].path)
       /\ node[d].state = "none" => node[d] = Absent
       /\ node[d].up \in IF d = Root THEN {None} ELSE Indexed(node) \cup {None}
       /\ node[d].phase # "idle" <=> node[d].state = "Reading"
       /\ node[d].waiting # {} => node[d].queued = "now"
  /\ client \in [Clients -> Calls]
  /\ {due, down} \subseteq BOOLEAN /\ faults \in Nat
  /\ {missed, skipped} \subseteq [Dirs -> SUBSET Dirs]

-----------------------------------------------------------------------------
\* Enter Reading with callbacks C.
Start(N, d, C) ==
  [N EXCEPT ![d] = [@ EXCEPT !.state = "Reading", !.asked = C, !.waiting = {}, !.queued = "no",
                             !.phase = "stat", !.path = Path(N, d), !.entries = {}]]

\* read() without an argument, of every directory in S: now, or once the read under
\* way is over.
Read(N, S) ==
  [d \in Dirs |-> IF d \notin S THEN N[d]
                  ELSE IF N[d].state = "Reading" THEN [N[d] EXCEPT !.queued = "now"]
                  ELSE Start(N, d, {})[d]]

\* Mutant: a read with a callback joins the read under way.
ReadCJoins(N, d, c) == IF N[d].state = "Reading" THEN [N EXCEPT ![d].asked = @ \cup {c}]
                       ELSE Start(N, d, {c})

\* read(callback).
ReadC(N, d, c) == IF N[d].state = "Reading"
                  THEN [N EXCEPT ![d].waiting = @ \cup {c}, ![d].queued = "now"]
                  ELSE Start(N, d, {c})

Throws(N, S) == \E d \in S : N[d].state # "Reading" /\ ~Named(N, d)

Resting(N, d, s) == [Absent EXCEPT !.state = s, !.up = N[d].up, !.name = N[d].name,
                                   !.mtime = N[d].mtime]

\* Mutants: the callers of the second read are forgotten; it never ends.
AfterDrops(N, d, again) ==
  IF N[d].queued = "now" THEN Start(N, d, {}) ELSE [N EXCEPT ![d] = Resting(N, d, "Idle")]
AfterAgain(N, d, again) ==
  IF N[d].queued = "now" THEN Start(N, d, N[d].waiting) ELSE [N EXCEPT ![d] = Resting(N, d, "Pending")]

\* What a directory does after a read; "again" asks for a delayed one.
After(N, d, again) ==
  IF N[d].queued = "now" THEN Start(N, d, N[d].waiting)
  ELSE [N EXCEPT ![d] = Resting(N, d, IF again THEN "Pending" ELSE "Idle")]

\* Destroy the directories in D, whose callers get an error.
Forget(N, D) == [d \in Dirs |-> IF d \in D THEN Absent ELSE N[d]]
Callers(D) == UNION {node[d].asked \cup node[d].waiting : d \in D}

\* Calls in OK and Bad are answered; each goes on with the next directory it wants
\* to read, of which those in D are no more.
Answer(OK, Bad, D) ==
  client' = [c \in Clients |->
    LET left == [i \in DOMAIN client[c].todo |->
                   IF client[c].todo[i] \in D THEN None ELSE client[c].todo[i]]
    IN  IF c \notin OK \cup Bad THEN [client[c] EXCEPT !.todo = left]
        ELSE [client[c] EXCEPT !.todo = Tail(left), !.since = 0,
                               !.turn = IF Len(left) > 1 THEN "ready"
                                        ELSE IF c \in OK THEN "ok" ELSE "err"]]

\* An uncaught exception: the process and what it held are lost.
Dies == /\ down' = TRUE /\ node' = [d \in Dirs |-> Absent] /\ due' = FALSE
        /\ client' = [c \in Clients |-> [todo |-> <<>>, turn |-> "lost", since |-> 0]]
        /\ UNCHANGED <<disk, faults, memory>>

-----------------------------------------------------------------------------
Init ==
  /\ disk \in Trees
  /\ node = [d \in Dirs |-> IF d = Root THEN [Absent EXCEPT !.state = "Init"] ELSE Absent]
  /\ client = [c \in Clients |-> [todo |-> <<>>, turn |-> "none", since |-> 0]]
  /\ due = TRUE /\ faults = MaxFaults[disk] /\ down = FALSE
  /\ missed = [d \in Dirs |-> {}] /\ skipped = missed

\* nextTick callbacks and callbacks of callbacks come before the next event.
Quiet == ~down /\ ~due /\ \A c \in Clients : client[c].turn # "ready"

\* scheduleDirRead(): first reads, while fewer than ReadLimit are under way.
Sched ==
  /\ due /\ ~down
  /\ \E S \in SUBSET In(node, "Init") :
       /\ LET room == ReadLimit - Cardinality(In(node, "Reading"))
          IN  Cardinality(S) = IF room <= 0 THEN 0
                               ELSE IF Cardinality(In(node, "Init")) < room
                                    THEN Cardinality(In(node, "Init")) ELSE room
       /\ \/ Throws(node, S) /\ Dies
          \/ /\ ~Throws(node, S)
             /\ node' = Read(node, S) /\ due' = (S # {})
             /\ UNCHANGED <<disk, client, faults, down, memory>>

\* The timer of a Pending directory.
Timeout(d) ==
  /\ Quiet /\ node[d].state = "Pending"
  /\ \/ ~Named(node, d) /\ Dies
     \/ /\ Named(node, d)
        /\ node' = Start(node, d, {}) /\ due' = TRUE
        /\ UNCHANGED <<disk, client, faults, down, memory>>

-----------------------------------------------------------------------------
\* A read failed: "path" when something else or nothing is at the path, which is for
\* the parent to find out; otherwise try again later.
Fails(d, kind) ==
  LET parent == IF kind = "path" /\ d # Root THEN {node[d].up} ELSE {}
      later == After(Read(node, parent), d, parent = {})
  IN  IF Throws(node, parent) THEN Dies
      ELSE /\ node' = later /\ due' = TRUE
           /\ Answer({}, node[d].asked, {})
           /\ UNCHANGED <<disk, faults, down, memory>>

\* readdir's callback asks for the path again, which throws when a name was lost.
Completes(d, Action) ==
  IF ~Named(node, d) THEN Dies
  ELSE IF Path(node, d) # node[d].path THEN Fails(d, "path") ELSE Action

GoesWrong(b) == /\ b => faults > 0
                /\ faults' = IF b THEN faults - 1 ELSE faults

\* Nothing has changed since the last read.
Same(d) == /\ node' = After(node, d, FALSE) /\ due' = TRUE
           /\ Answer(node[d].asked, {}, {})
           /\ UNCHANGED <<disk, faults, down, memory>>

\* Mutant: a directory that is found under a new name keeps the old one.
RenamedNot(N, R, name) == N
\* updateName() of children that were renamed: what is below them loses its name.
Renamed(N, R, name) ==
  LET lose == UNION {Below(N, r) : r \in R}
  IN  [d \in Dirs |-> IF d \in R THEN [N[d] EXCEPT !.name = name[d]]
                      ELSE IF d \in lose THEN [N[d] EXCEPT !.name = Undefined] ELSE N[d]]

\* Mutant: mtime is recorded even when the directory changed during the read.
RecordsAlways(transient) == TRUE
Records(transient) == ~transient

\* updateChildren(): rename and re-read the children that are still there, destroy
\* those that are not, create what is new - unless it is indexed elsewhere, where it
\* must have moved from: then its old parent is read, and d is "dirty".
Ids(d) == {e.id : e \in node[d].entries}
Entry(d, c) == CHOOSE e \in node[d].entries : e.id = c
Gone(d) == UNION {Subtree(node, c) : c \in Kids(node, d) \ Ids(d)}
NewNames(d) == {c \in Kids(node, d) \cap Ids(d) : node[c].name # Entry(d, c).name}
Changed(d) == {c \in Kids(node, d) \cap Ids(d) : node[c].mtime # Entry(d, c).mtime}
Created(d) == (Ids(d) \ Kids(node, d)) \ (Indexed(node) \ Gone(d))
Moved(d) == (Ids(d) \ Kids(node, d)) \ Created(d)
Pruned(d) == Forget(Renamed(node, NewNames(d), [c \in Ids(d) |-> Entry(d, c).name]), Gone(d))
ToRead(d) == Changed(d) \cup ({node[c].up : c \in Moved(d)} \ {None})
Updated(d) ==
  [c \in Dirs |-> IF c \in Created(d)
                  THEN [Absent EXCEPT !.state = "Init", !.up = d, !.name = Entry(d, c).name]
                  ELSE Read(Pruned(d), ToRead(d))[c]]
UpdateChildren(d, transient) ==
  LET N == IF Records(transient) THEN [Updated(d) EXCEPT ![d].mtime = disk[d].mtime] ELSE Updated(d)
      inRename == NewNames(d) \cup UNION {Below(node, c) : c \in NewNames(d)}
  IN  IF inRename \cap In(node, "Reading") # {} \/ Throws(Pruned(d), ToRead(d)) THEN Dies
      ELSE /\ node' = After(N, d, transient \/ Moved(d) # {})
           /\ Answer(node[d].asked, Callers(Gone(d)), Gone(d))
           /\ missed' = IF Records(transient) THEN [missed EXCEPT ![d] = skipped[d] \cup Moved(d)]
                        ELSE missed
           /\ due' = TRUE /\ UNCHANGED <<disk, faults, down, skipped>>

\* readdir's first readXstat of the directory: its uuid, its mtime.
StatDone(d) ==
  /\ Quiet /\ node[d].phase = "stat"
  /\ IF At(node[d].path) # {d} THEN Completes(d, Fails(d, "path"))
     ELSE IF node[d].asked = {} /\ node[d].mtime = disk[d].mtime THEN Completes(d, Same(d))
     ELSE /\ node' = [node EXCEPT ![d].phase = "list", ![d].first = disk[d].mtime]
          /\ UNCHANGED <<disk, client, due, faults, down, memory>>

\* fs.readdir and readXstat of every entry, of whatever is at the path by now; an entry
\* whose attributes cannot be read is left out.
ListDone(d) ==
  /\ Quiet /\ node[d].phase = "list"
  /\ IF At(node[d].path) = {} THEN Completes(d, Fails(d, "path"))
     ELSE \E q \in At(node[d].path) : \E out \in SUBSET DiskKids(q) :
            /\ node' = [node EXCEPT ![d].phase = "again",
                          ![d].entries = {[id |-> c, name |-> disk[c].name,
                                           mtime |-> disk[c].mtime] : c \in DiskKids(q) \ out}]
            /\ skipped' = [skipped EXCEPT ![d] = out] /\ GoesWrong(out # {})
            /\ UNCHANGED <<disk, client, due, down, missed>>

\* The second readXstat of the directory; a changed mtime is "transient".
AgainDone(d) ==
  /\ Quiet /\ node[d].phase = "again"
  /\ Completes(d, IF At(node[d].path) = {d} THEN UpdateChildren(d, disk[d].mtime # node[d].first)
                  ELSE IF At(node[d].path) = {} \/ node[d].entries \cup skipped[d] # {} THEN Fails(d, "path")
                  ELSE Fails(d, "other"))

Fault(d) == /\ Quiet /\ node[d].phase \in {"stat", "list", "again"} /\ GoesWrong(TRUE)
            /\ Named(node, d) /\ Path(node, d) = node[d].path
            /\ node' = After(node, d, TRUE) /\ due' = TRUE /\ Answer({}, node[d].asked, {})
            /\ UNCHANGED <<disk, down, memory>>

-----------------------------------------------------------------------------
\* An API call will read the directories in todo, one after the other: at once, or when
\* its file operation, just done, returns.
Wants(c, todo, turn) == client' = [client EXCEPT ![c].todo = todo, ![c].turn = turn]

\* It finds directory p in the index and works on whatever is at p's path.
Call(c, p, q) == /\ Quiet /\ client[c].turn = "none"
                 /\ p \in Indexed(node) /\ Named(node, p) /\ q \in At(Path(node, p))
                 /\ UNCHANGED <<node, due, down>>

Free(q, n) == \A x \in DiskKids(q) : disk[x].name # n

\* The directories in X are put where T has them.  A directory that loses or gets an entry
\* has a later mtime, or the same one as after its last change, if that was within the
\* millisecond.  A change without a read of the directories is not for the index to know.
Edits(X, T, d) == {x \in X : d \in {disk[x].up, T[x].up}}
Change(X, T, read) ==
  \E K \in SUBSET {d \in Dirs : Edits(X, T, d) # {}} :
    /\ GoesWrong(K # {})
    /\ disk' = [d \in Dirs |-> IF Edits(X, T, d) # {} /\ d \notin K
                               THEN [T[d] EXCEPT !.mtime = @ + 1] ELSE T[d]]
    /\ skipped' = [d \in Dirs |-> IF d \in K THEN skipped[d] \cup Edits(X, T, d) ELSE skipped[d]]
    /\ missed' = [d \in Dirs |-> IF d \in K \/ ~read THEN missed[d] \cup Edits(X, T, d)
                                 ELSE missed[d]]

List(c, p) == /\ \E q \in Dirs : Call(c, p, q)
              /\ Wants(c, <<p>>, "ready") /\ UNCHANGED <<disk, faults, memory>>

MakeDir(c, p, d, n) ==
  \E q \in Dirs : /\ Call(c, p, q) /\ disk[d].mtime = 0 /\ Free(q, n)
                  /\ Change({d}, [disk EXCEPT ![d] = [up |-> q, name |-> n, mtime |-> 1]], TRUE)
                  /\ Wants(c, <<p>>, "called")

Without(X) == [d \in Dirs |-> IF d \in X THEN [disk[d] EXCEPT !.up = None, !.name = None]
                              ELSE disk[d]]

\* RMDIR, of a directory in the index.
RemoveDir(c, d) ==
  \E x \in Dirs \ {Root} : /\ d # Root /\ Call(c, d, x) /\ DiskKids(x) = {}
                           /\ Change({x}, Without({x}), TRUE)
                           /\ Wants(c, <<node[d].up>>, "removed")

\* REMOVE, rimraf of a directory and what is below, or of some of it; nothing is read.
RemoveTree(c, p) ==
  \E q \in Dirs : \E x \in DiskKids(q) : \E X \in SUBSET (Dirs \ {Root}) :
    /\ Call(c, p, q)
    /\ X # {} /\ \A y \in X : /\ disk[y].up # None /\ DiskKids(y) \subseteq X
                            /\ IsPrefix(Path(disk, x), Path(disk, y))
    /\ Change(X, Without(X), FALSE)
    /\ client' = [client EXCEPT ![c].turn = IF x \in X THEN "ok" ELSE "err"]

Rename(c, p, d, n) ==
  \E q \in Dirs : /\ Call(c, p, q) /\ d \in DiskKids(q) /\ Free(q, n)
                  /\ Change({d}, [disk EXCEPT ![d].name = n], TRUE)
                  /\ Wants(c, <<p>>, "called")

\* MVDIRS, under the same name; not below itself.
Move(c, p, d, t) ==
  \E q, r \in Dirs : /\ Call(c, p, q) /\ d \in DiskKids(q) /\ q # r
                     /\ t \in Indexed(node) /\ Named(node, t) /\ r \in At(Path(node, t))
                     /\ Free(r, disk[d].name) /\ ~IsPrefix(Path(disk, d), Path(disk, r))
                     /\ Change({d}, [disk EXCEPT ![d].up = r], TRUE)
                     /\ Wants(c, <<p, t>>, "called")

\* The next read of a call that holds a Directory object.  One that was destroyed
\* meanwhile throws, or keeps the call waiting for ever, or is looked up again and
\* not found; one without a path throws, and when express catches the exception the
\* directory is left in Reading without a read.
Ask(c) ==
  /\ client[c].turn \in {"called", "ready"} /\ (client[c].turn = "called" => Quiet) /\ ~down
  /\ LET d == Head(client[c].todo)
     IN  \/ /\ d = None
            /\ \/ Dies
               \/ /\ \E turn \in {"lost", "err"} : client' = [client EXCEPT ![c].turn = turn]
                  /\ UNCHANGED <<disk, node, due, faults, down, memory>>
         \/ /\ d # None /\ Throws(node, {d})
            /\ \/ Dies
               \/ /\ node' = [ReadC(node, d, c) EXCEPT ![d].phase = "stuck"]
                  /\ client' = [client EXCEPT ![c].turn = "err"] /\ due' = TRUE
                  /\ UNCHANGED <<disk, faults, down, memory>>
         \/ /\ d # None /\ ~Throws(node, {d})
            /\ node' = ReadC(node, d, c) /\ due' = TRUE
            /\ client' = [client EXCEPT ![c].turn = "waiting", ![c].since = disk[d].mtime]
            /\ UNCHANGED <<disk, faults, down, memory>>

\* RMDIR has answered and reads the parent it found, which may be destroyed.
Removed(c) ==
  /\ Quiet /\ client[c].turn = "removed"
  /\ LET S == {Head(client[c].todo)} \ {None}
     IN  \/ (S = {} \/ Throws(node, S)) /\ Dies
         \/ /\ ~Throws(node, S) /\ node' = Read(node, S) /\ due' = TRUE
            /\ client' = [client EXCEPT ![c].todo = <<>>, ![c].turn = "ok"]
            /\ UNCHANGED <<disk, faults, down, memory>>

\* deleteRoot(): the drive was removed.
DeleteRoot == /\ Quiet /\ node[Root].state # "none"
              /\ node' = [d \in Dirs |-> Absent]
              /\ Answer({}, Callers(Dirs), Dirs) /\ due' = TRUE
              /\ UNCHANGED <<disk, faults, down, memory>>

Event(d) == Timeout(d) \/ StatDone(d) \/ ListDone(d) \/ AgainDone(d)

Next == \/ Sched
        \/ \E d \in Dirs : Timeout(d) \/ StatDone(d) \/ ListDone(d) \/ AgainDone(d) \/ Fault(d)
        \/ \E c \in Clients : Ask(c) \/ Removed(c)
        \/ \E c \in Clients, p \in Dirs : List(c, p) \/ RemoveTree(c, p)
        \/ \E c \in Clients, p, d \in Dirs, n \in Names :
             MakeDir(c, p, d, n) \/ Rename(c, p, d, n)
        \/ \E c \in Clients, d \in Dirs : RemoveDir(c, d)
        \/ \E c \in Clients, p, d, t \in Dirs : Move(c, p, d, t)
        \/ DeleteRoot

Spec == Init /\ [][Next]_vars

-----------------------------------------------------------------------------
\* A name was lost to updateName().
Misnamed == \E d \in Indexed(node) : node[d].name = Undefined

\* A directory whose recorded mtime is the one on disk (the next read without a caller
\* will be skipped, readdir.js 16) has no child that is not there, whatever happened between
\* the three calls of its last read; but for one that changed after the listing and within
\* the millisecond of the mtime.
CacheIsSound ==
  \A d \in Indexed(node) : node[d].mtime = disk[d].mtime =>
    \A c \in Kids(node, d) \ missed[d] : disk[c].up = d /\ node[c].name \in {disk[c].name, Undefined}

\* Such a directory has every child that is there, but for one whose attributes that read
\* could not read, or that it found still indexed elsewhere, or that changed as above: what
\* is stale otherwise differs in its mtime, and a read will find it.
CacheIsComplete ==
  \A d \in Indexed(node) : node[d].mtime = disk[d].mtime =>
    DiskKids(d) \ missed[d] \subseteq Kids(node, d)

\* A directory's mtime is recorded as of a time before the read under way began, and what
\* that read has seen is what was there, if the directory has not changed since.
Timed ==
  \A d \in Dirs :
    /\ node[d].mtime <= disk[d].mtime
    /\ node[d].phase \in {"list", "again"} => node[d].mtime <= node[d].first /\ node[d].first <= disk[d].mtime
Seen ==
  \A d \in Dirs : node[d].phase = "again" /\ node[d].first = disk[d].mtime =>
    /\ Ids(d) \ skipped[d] = DiskKids(d) \ skipped[d]
    /\ \A e \in node[d].entries : e.id \notin skipped[d] => e.name = disk[e.id].name

\* The Directory objects are a tree.
Tree == \A S \in SUBSET Indexed(node) : S # {} => \E d \in S : node[d].up \notin S

\* A call waits for one directory, which will call it back once, with what it reads after
\* the call asked.
Heard(d) == node[d].asked \cup node[d].waiting
WaitsOnce ==
  /\ \A c \in Clients : client[c].turn \in {"called", "removed", "ready", "waiting"} => client[c].todo # <<>>
  /\ \A d \in Dirs : /\ node[d].asked \cap node[d].waiting = {}
                     /\ \A e \in Dirs \ {d} : Heard(d) \cap Heard(e) = {}
                     /\ \A c \in Heard(d) : client[c].turn \in {"waiting", "err"} /\ client[c].todo # <<>>
InTime ==
  \A d \in Dirs : \A c \in Heard(d) : client[c].turn = "waiting" =>
    /\ client[c].since <= disk[d].mtime
    /\ c \in node[d].asked /\ node[d].phase \in {"list", "again"} => client[c].since <= node[d].first

\* What a read relies on: the tree, the callers and the times, and that cache.
CallsInv == TypeOK /\ Tree /\ WaitsOnce /\ Timed /\ InTime
IndexInv == CallsInv /\ Seen /\ CacheIsSound /\ CacheIsComplete

AtRest == /\ ~down /\ ~due /\ node[Root].state # "none"
          /\ \A c \in Clients : client[c].turn \notin {"called", "removed", "ready", "waiting"}
          /\ \A d \in Indexed(node) : node[d].state = "Idle"
Agrees(d) == \A c \in Dirs \ (missed[d] \cup {Root}) :
               /\ node[c].up = d <=> disk[c].up = d
               /\ node[c].up = d => node[c].name = disk[c].name

\* Once the calls are answered and nothing is left to read, what the index has in a directory
\* is what is there: no create, remove, rename or move was missed, whatever order the reads
\* came in, if no name was lost - but for the children that IndexInv excepts in the last
\* listing that was recorded, those that REMOVE removed since, which reads nothing, and what
\* the index has below such a child.
AgreesAtRest ==
  AtRest /\ ~Misnamed =>
    LET doubtful == {x \in Indexed(node) \ {Root} : x \in missed[node[x].up]}
    IN  \A d \in Indexed(node) \ UNION {Subtree(node, x) : x \in doubtful} : Agrees(d)

\* "In either case, a `read` on the `Directory` object is enough" (forest.js 110): if all have
\* been read since they last changed, the index is the disk, although a move was seen at its
\* target first.
ReadIsEnough == AtRest /\ ~Misnamed /\ (\A d \in Indexed(node) : node[d].mtime = disk[d].mtime)
                  => \A d \in Indexed(node) : DiskKids(d) = Kids(node, d)

\* A call's listing was read after the call asked for it: a client sees what it did.
AnswerIsFresh ==
  [][\A d \in Dirs : \A c \in node[d].asked :
       client[c].turn = "waiting" /\ client'[c].turn \in {"ok", "ready"} /\ node[d].phase = "again"
         => node[d].first >= client[c].since]_vars
==============================================================================
